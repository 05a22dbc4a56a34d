-------------------------- MODULE PermissionProofs --------------------------
(***************************************************************************)
(* Theorems about the operators of Permission, for every configuration,    *)
(* every state of the disk and every answer of the provider.               *)
(***************************************************************************)
EXTENDS Permission, SequenceTheorems, WellFoundedInduction, TLAPS

-----------------------------------------------------------------------------
(* Finding a directory *)

\* A set of natural numbers that is not empty has a least element.
LEMMA LeastExists ==
  ASSUME NEW S \in SUBSET Nat, S # {}
  PROVE  \E m \in S : \A n \in S : m <= n
<1>1. PICK m \in S : \A n \in S : <<n, m>> \notin OpToRel(<, Nat)
  BY NatLessThanWellFounded, WFMin, Zenon
<1>2. \A n \in S : ~(n < m)
  BY <1>1 DEF OpToRel
<1> QED
  BY <1>2

LEMMA DirectoryFound ==
  ASSUME NEW c, c.dirs \in Seq(DirectoryConfig), NEW root
  PROVE  LET d == GetDirectoryConfig(c, root)
         IN d # NoDir => \E i \in DOMAIN c.dirs : d = c.dirs[i] /\ d.path = <<root>>
<1> DEFINE same == {i \in DOMAIN c.dirs : c.dirs[i].path = <<root>>}
<1>1. c.dirs \in Seq(DirectoryConfig) /\ same \in SUBSET Nat
  OBVIOUS
<1>2. CASE same = {}
  BY <1>2 DEF GetDirectoryConfig
<1>3. CASE same # {}
  <2>1. \E i \in same : \A j \in same : i <= j
    BY <1>1, <1>3, LeastExists
  <2> DEFINE first == CHOOSE i \in same : \A j \in same : i <= j
  <2>2. first \in same
    BY <2>1
  <2>3. GetDirectoryConfig(c, root) = c.dirs[first]
    BY <1>3 DEF GetDirectoryConfig
  <2> HIDE DEF first
  <2> QED
    BY <2>2, <2>3
<1> QED
  BY <1>2, <1>3

-----------------------------------------------------------------------------
(* Listings *)

LEMMA SingletonPath ==
  ASSUME NEW path \in Seq(Names), Len(path) = 1
  PROVE  path = <<path[1]>> /\ path[1] = Head(path) /\ path[1] \in Names
OBVIOUS

\* The directories a user is shown for a permission, and those a check would let the
\* user act in, among the configured ones and the user's home.
Listed(cfg, disk, ans, user, perm) ==
  {e.path : e \in {a \in GetAccessibleDirectories(cfg, disk, ans, user) : perm \in a.perms}}

Allowed(cfg, disk, ans, user, perm) ==
  {dir \in (ConfiguredPaths(cfg) \ {<<"user">>}) \cup ({Home(user)} \cap disk) :
     CheckPermission(cfg, disk, ans, user, dir, perm)}

\* A listing and a check agree for one user, one answer and one permission.
LEMMA ListedAgree ==
  ASSUME NEW cfg, cfg.dirs \in Seq(DirectoryConfig), Regular(cfg), NEW disk, NEW user \in Users, NEW ans, NEW perm \in Permissions
  PROVE  Listed(cfg, disk, ans, user, perm) = Allowed(cfg, disk, ans, user, perm)
<1> DEFINE accessible == GetAccessibleDirectories(cfg, disk, ans, user)
           listed == {e.path : e \in {a \in accessible : perm \in a.perms}}
           tops == (ConfiguredPaths(cfg) \ {<<"user">>}) \cup ({Home(user)} \cap disk)
           dirs == {cfg.dirs[i] : i \in DOMAIN cfg.dirs}
           private == {d \in dirs : d.type = "user_private"}
           shared == dirs \ private
           Effective(d) == IF HasAdminRole(cfg, ans) THEN Permissions
                           ELSE EffectivePermissions(d, user, ans)
<1>1. accessible =
        {[path |-> Home(user), perms |-> Permissions] : d \in {p \in private : Home(user) \in disk}}
          \cup {[path |-> d.path, perms |-> Effective(d)] : d \in {s \in shared : Effective(s) # {}}}
  BY DEF GetAccessibleDirectories
<1>2. \A path : path \in listed <=>
        \/ path = Home(user) /\ Home(user) \in disk /\ private # {}
        \/ \E d \in shared : path = d.path /\ perm \in Effective(d)
  <2> HIDE DEF private, shared, Effective, accessible
  <2>1. \A e : e \in accessible <=>
          \/ e = [path |-> Home(user), perms |-> Permissions] /\ Home(user) \in disk /\ private # {}
          \/ \E d \in shared : Effective(d) # {} /\ e = [path |-> d.path, perms |-> Effective(d)]
    BY <1>1
  <2>2. \A path : path \in listed <=> \E e \in accessible : path = e.path /\ perm \in e.perms
    OBVIOUS
  <2>3. ASSUME NEW path
        PROVE  (\E e \in accessible : path = e.path /\ perm \in e.perms) <=>
                 \/ path = Home(user) /\ Home(user) \in disk /\ private # {}
                 \/ \E d \in shared : path = d.path /\ perm \in Effective(d)
    <3>1. ASSUME NEW e \in accessible, path = e.path, perm \in e.perms
          PROVE  \/ path = Home(user) /\ Home(user) \in disk /\ private # {}
                 \/ \E d \in shared : path = d.path /\ perm \in Effective(d)
      BY <2>1, <3>1
    <3>2. ASSUME path = Home(user), Home(user) \in disk, private # {}
          PROVE  \E e \in accessible : path = e.path /\ perm \in e.perms
      <4>1. [path |-> Home(user), perms |-> Permissions] \in accessible
        BY <2>1, <3>2
      <4> QED
        BY <3>2, <4>1
    <3>3. ASSUME NEW d \in shared, path = d.path, perm \in Effective(d)
          PROVE  \E e \in accessible : path = e.path /\ perm \in e.perms
      <4>1. [path |-> d.path, perms |-> Effective(d)] \in accessible
        BY <2>1, <3>3
      <4> QED
        BY <3>3, <4>1
    <3> QED
      BY <3>1, <3>2, <3>3
  <2> HIDE DEF listed
  <2> QED
    BY <2>2, <2>3
<1>3. \A d \in dirs : Len(d.path) = 1 /\ (d.type = "user_private" <=> d.path = <<"user">>)
  BY DEF Regular
<1>4. \A d \in dirs : d.path = <<d.path[1]>> /\ d.path[1] = Head(d.path)
  <2>1. \A d \in dirs : d.path \in Seq(Names)
    <3>1. cfg.dirs \in Seq(DirectoryConfig)
      OBVIOUS
    <3>2. \A d \in dirs : d \in DirectoryConfig
      BY <3>1
    <3> HIDE DEF dirs
    <3> QED
      BY <3>2 DEF DirectoryConfig
  <2> QED
    BY <1>3, <2>1, SingletonPath
<1>5. \A d \in dirs : GetDirectoryConfig(cfg, Head(d.path)) = d
  <2> SUFFICES ASSUME NEW d \in dirs PROVE GetDirectoryConfig(cfg, Head(d.path)) = d
    OBVIOUS
  <2>1. PICK i \in DOMAIN cfg.dirs : d = cfg.dirs[i]
    OBVIOUS
  <2> DEFINE root == Head(d.path)
             same == {k \in DOMAIN cfg.dirs : cfg.dirs[k].path = <<root>>}
  <2>2. d.path = <<root>>
    BY <1>4
  <2> HIDE DEF root
  <2>3. same = {i}
    BY <2>1, <2>2 DEF Regular
  <2>4. i \in Nat
    OBVIOUS
  <2>5. (CHOOSE k \in same : \A j \in same : k <= j) = i
    BY <2>3, <2>4
  <2>6. GetDirectoryConfig(cfg, root) = cfg.dirs[i]
    BY <2>3, <2>5 DEF GetDirectoryConfig
  <2> QED
    BY <2>1, <2>6 DEF root
<1>6. \A d \in shared : perm \in Effective(d) <=> CheckPermission(cfg, disk, ans, user, d.path, perm)
  <2> SUFFICES ASSUME NEW d \in shared
               PROVE  perm \in Effective(d) <=> CheckPermission(cfg, disk, ans, user, d.path, perm)
    OBVIOUS
  <2>1. d # NoDir /\ d.type # "user_private" /\ d \in dirs
    BY NamesAssumption
  <2>2. GetDirectoryConfig(cfg, Head(d.path)) = d
    BY <1>5, <2>1
  <2> HIDE DEF shared, dirs
  <2> QED
    BY <2>1, <2>2 DEF CheckPermission, EffectivePermissions
<1>7. Home(user) \in disk =>
        (private # {} <=> CheckPermission(cfg, disk, ans, user, Home(user), perm))
  <2> DEFINE d == GetDirectoryConfig(cfg, "user")
  <2>1. Len(Home(user)) = 2 /\ Home(user)[2] = DirName[user] /\ Head(Home(user)) = "user"
    BY NamesAssumption DEF Home
  <2>2. d # NoDir => d \in private
    <3>1. d # NoDir => \E i \in DOMAIN cfg.dirs : d = cfg.dirs[i] /\ d.path = <<"user">>
      BY DirectoryFound
    <3> QED
      BY <1>3, <3>1
  <2>3. private # {} => d # NoDir
    <3> SUFFICES ASSUME NEW p \in private PROVE d # NoDir
      OBVIOUS
    <3>1. p.path = <<"user">> /\ Head(p.path) = "user" /\ p \in dirs
      BY <1>3
    <3>2. d = p
      BY <1>5, <3>1
    <3> QED
      BY <3>1, <3>2, NamesAssumption
  <2>4. d \in private => d.type = "user_private"
    OBVIOUS
  <2> HIDE DEF d, private
  <2>5. Home(user) \in disk => AllowUserDirectoryAccess(disk, DirName[user], perm)
    BY DEF AllowUserDirectoryAccess, Home
  <2>6. CheckPermission(cfg, disk, ans, user, Home(user), perm) => d # NoDir
    BY <2>1 DEF CheckPermission, d
  <2>7. d # NoDir /\ Home(user) \in disk => CheckPermission(cfg, disk, ans, user, Home(user), perm)
    BY <2>1, <2>2, <2>4, <2>5 DEF CheckPermission, CheckUserPrivatePermission, d
  <2> QED
    BY <2>2, <2>3, <2>6, <2>7
<1>8. \A path : path \in ConfiguredPaths(cfg) \ {<<"user">>} <=> \E d \in shared : path = d.path
  BY <1>3 DEF ConfiguredPaths
<1> HIDE DEF Effective, shared, private, dirs, accessible, listed
<1>9. \A path : path \in listed <=> path \in tops /\ CheckPermission(cfg, disk, ans, user, path, perm)
  BY <1>2, <1>6, <1>7, <1>8
<1>10. listed = {dir \in tops : CheckPermission(cfg, disk, ans, user, dir, perm)}
  BY <1>9
<1> QED
  BY <1>10 DEF listed, accessible, Listed, Allowed

-----------------------------------------------------------------------------
(* The snapshot of an event stream *)

LEMMA PrefixByIndex ==
  ASSUME NEW s \in Seq(Names), NEW t \in Seq(Names)
  PROVE  IsPrefix(s, t) <=> Len(s) <= Len(t) /\ \A i \in 1..Len(s) : s[i] = t[i]
<1> DEFINE p == SubSeq(t, 1, Len(s))
<1>1. SubSeq(s, 1, Len(s)) = s
  BY SubSeqFull
<1>2. ASSUME Len(s) <= Len(t)
      PROVE  p = s <=> \A i \in 1..Len(s) : s[i] = t[i]
  <2>1. \A i \in 1..Len(s) : t[i] \in Names
    BY <1>2
  <2>2. p \in Seq(Names) /\ Len(p) = Len(s) /\ \A i \in 1..Len(s) : p[i] = t[i]
    <3>1. Len(s) \in Nat
      OBVIOUS
    <3> QED
      BY <2>1, <3>1, SubSeqProperties
  <2> HIDE DEF p
  <2>3. p = s <=> \A i \in 1..Len(s) : s[i] = p[i]
    BY <2>2
  <2> QED
    BY <2>2, <2>3
<1> QED
  BY <1>1, <1>2 DEF IsPrefix

LEMMA PrefixOfPath ==
  ASSUME NEW dir \in Paths, NEW x \in Names, NEW y \in Names
  PROVE  /\ IsPrefix(<<x>>, dir) <=> dir[1] = x
         /\ IsPrefix(<<x, y>>, dir) <=> Len(dir) > 1 /\ dir[1] = x /\ dir[2] = y
<1>1. dir \in Seq(Names) /\ Len(dir) \in Nat /\ Len(dir) >= 1
  BY DEF Paths
<1>2. <<x>> \in Seq(Names) /\ Len(<<x>>) = 1 /\ <<x, y>> \in Seq(Names) /\ Len(<<x, y>>) = 2
  OBVIOUS
<1>3. <<x>>[1] = x /\ <<x, y>>[1] = x /\ <<x, y>>[2] = y /\ 1..1 = {1} /\ 1..2 = {1, 2}
  OBVIOUS
<1>4. \A n \in Nat : n > 1 <=> 2 <= n
  OBVIOUS
<1> DEFINE p == <<x>>  q == <<x, y>>
<1>5. /\ p \in Seq(Names) /\ Len(p) = 1 /\ p[1] = x
      /\ q \in Seq(Names) /\ Len(q) = 2 /\ q[1] = x /\ q[2] = y
  BY <1>2, <1>3
<1> HIDE DEF p, q
<1>6. IsPrefix(p, dir) <=> 1 <= Len(dir) /\ \A i \in 1..1 : p[i] = dir[i]
  BY <1>1, <1>5, PrefixByIndex
<1>7. IsPrefix(q, dir) <=> 2 <= Len(dir) /\ \A i \in 1..2 : q[i] = dir[i]
  BY <1>1, <1>5, PrefixByIndex
<1>8. IsPrefix(p, dir) <=> dir[1] = x
  BY <1>1, <1>3, <1>5, <1>6
<1>9. IsPrefix(q, dir) <=> Len(dir) > 1 /\ dir[1] = x /\ dir[2] = y
  BY <1>1, <1>3, <1>4, <1>5, <1>7
<1> QED
  BY <1>8, <1>9 DEF p, q

\* What a directory of a configured one allows, by the kind of the latter.
LEMMA CheckedByKind ==
  ASSUME NEW cfg, cfg.dirs \in Seq(DirectoryConfig), Regular(cfg), NEW disk, NEW user \in Users, NEW ans, NEW dir \in Paths,
         <<dir[1]>> \in ConfiguredPaths(cfg)
  PROVE  /\ dir[1] # "user" =>
              (CheckPermission(cfg, disk, ans, user, dir, "read")
                 <=> CheckPermission(cfg, disk, ans, user, <<dir[1]>>, "read"))
         /\ dir[1] # "user" /\ HasAdminRole(cfg, ans) =>
              CheckPermission(cfg, disk, ans, user, dir, "read")
         /\ dir[1] = "user" /\ Len(dir) > 1 /\ <<"user", dir[2]>> \in disk =>
              (CheckPermission(cfg, disk, ans, user, dir, "read")
                 <=> dir[2] = DirName[user] \/ HasAdminRole(cfg, ans))
<1> DEFINE d == GetDirectoryConfig(cfg, dir[1])
<1>1. Head(dir) = dir[1] /\ Head(<<dir[1]>>) = dir[1] /\ Len(dir) \in Nat
  BY DEF Paths
<1>2. PICK k \in DOMAIN cfg.dirs : cfg.dirs[k].path = <<dir[1]>>
  BY DEF ConfiguredPaths
<1>3. d = cfg.dirs[k]
  <2> DEFINE same == {i \in DOMAIN cfg.dirs : cfg.dirs[i].path = <<dir[1]>>}
  <2>1. same = {k}
    BY <1>2 DEF Regular
  <2>2. (CHOOSE i \in same : \A j \in same : i <= j) = k
    BY <2>1
  <2> QED
    BY <2>1, <2>2 DEF GetDirectoryConfig
<1>4. d # NoDir /\ (d.type = "user_private" <=> dir[1] = "user")
  <2>1. d \in DirectoryConfig
    BY <1>3
  <2> QED
    BY <1>2, <1>3, <2>1, NamesAssumption DEF Regular
<1> HIDE DEF d
<1>5. \A path : Head(path) = dir[1] /\ dir[1] # "user" =>
        (CheckPermission(cfg, disk, ans, user, path, "read") <=>
           \/ "read" \in StaticPermissions(d, user) \/ HasAdminRole(cfg, ans)
           \/ "read" \in RolePermissions(d, ans))
  BY <1>4 DEF CheckPermission, d
<1>6. dir[1] = "user" =>
        (CheckPermission(cfg, disk, ans, user, dir, "read")
           <=> CheckUserPrivatePermission(cfg, disk, ans, user, dir, "read"))
  BY <1>1, <1>4 DEF CheckPermission, d
<1>7. Len(dir) > 1 => Len(dir) # 1
  <2>1. \A n \in Nat : n > 1 => n # 1
    OBVIOUS
  <2> QED
    BY <1>1, <2>1, Zenon
<1>8. Len(dir) # 1 =>
        (CheckUserPrivatePermission(cfg, disk, ans, user, dir, "read")
           <=> /\ dir[2] = DirName[user] \/ HasAdminRole(cfg, ans)
               /\ <<"user", dir[2]>> \in disk)
  <2>1. AllowUserDirectoryAccess(disk, dir[2], "read") <=> <<"user", dir[2]>> \in disk
    BY DEF AllowUserDirectoryAccess
  <2> QED
    BY <2>1 DEF CheckUserPrivatePermission
<1> QED
  BY <1>1, <1>5, <1>6, <1>7, <1>8

LEMMA SnapshotAgree ==
  ASSUME NEW cfg, cfg.dirs \in Seq(DirectoryConfig), Regular(cfg), NEW disk, NEW user \in Users, NEW ans, NEW dir \in Paths,
         <<dir[1]>> \in ConfiguredPaths(cfg),
         dir[1] = "user" => Len(dir) > 1 /\ <<"user", dir[2]>> \in disk
  PROVE  CanRead(ReadFilterFor(cfg, disk, ans, ans, user), dir)
           <=> CheckPermission(cfg, disk, ans, user, dir, "read")
<1> DEFINE listed == ReadDirs(cfg, disk, ans, user)
           tops == (ConfiguredPaths(cfg) \ {<<"user">>}) \cup ({Home(user)} \cap disk)
<1>1. listed = {path \in tops : CheckPermission(cfg, disk, ans, user, path, "read")}
  <2>1. Listed(cfg, disk, ans, user, "read") = Allowed(cfg, disk, ans, user, "read")
    BY ListedAgree DEF Permissions
  <2> QED
    BY <2>1 DEF Listed, Allowed, ReadDirs
<1>2. CanRead(ReadFilterFor(cfg, disk, ans, ans, user), dir)
        <=> HasAdminRole(cfg, ans) \/ \E path \in listed : IsPrefix(path, dir)
  BY DEF CanRead, ReadFilterFor
<1>3. dir[1] \in Names
  BY DEF Paths
<1>4. \A path \in ConfiguredPaths(cfg) : /\ path \in Seq(Names) /\ path = <<path[1]>> /\ path[1] \in Names
                               /\ (IsPrefix(path, dir) <=> path = <<dir[1]>>)
  <2> SUFFICES ASSUME NEW path \in ConfiguredPaths(cfg)
               PROVE  /\ path \in Seq(Names) /\ path = <<path[1]>> /\ path[1] \in Names
                      /\ (IsPrefix(path, dir) <=> path = <<dir[1]>>)
    OBVIOUS
  <2>1. path \in Seq(Names) /\ Len(path) = 1
    <3>1. \A i \in DOMAIN cfg.dirs : cfg.dirs[i] \in DirectoryConfig
      OBVIOUS
    <3> QED
      BY <3>1 DEF ConfiguredPaths, Regular, DirectoryConfig
  <2>2. path = <<path[1]>> /\ path[1] \in Names
    BY <2>1, SingletonPath
  <2>3. IsPrefix(<<path[1]>>, dir) <=> dir[1] = path[1]
    BY <2>2, PrefixOfPath
  <2> QED
    BY <2>1, <2>2, <2>3
<1>5. IsPrefix(Home(user), dir) <=> Len(dir) > 1 /\ dir[1] = "user" /\ dir[2] = DirName[user]
  BY PrefixOfPath, NamesAssumption DEF Home
<1>6. CASE dir[1] # "user"
  <2>1. <<dir[1]>> # <<"user">>
    BY <1>6
  <2>2. (\E path \in listed : IsPrefix(path, dir)) <=> <<dir[1]>> \in listed
    <3>1. \A path \in listed : IsPrefix(path, dir) => path = <<dir[1]>>
      BY <1>1, <1>4, <1>5, <1>6
    <3>2. IsPrefix(<<dir[1]>>, dir)
      BY <1>3, PrefixOfPath
    <3> HIDE DEF listed
    <3> QED
      BY <3>1, <3>2
  <2>3. <<dir[1]>> \in listed <=> CheckPermission(cfg, disk, ans, user, <<dir[1]>>, "read")
    BY <1>1, <2>1
  <2> HIDE DEF listed
  <2> QED
    BY <1>2, <1>6, <2>2, <2>3, CheckedByKind
<1>7. CASE dir[1] = "user"
  <2>1. Len(dir) > 1 /\ <<"user", dir[2]>> \in disk
    BY <1>7
  <2>2. ASSUME dir[2] = DirName[user]
        PROVE  Home(user) \in listed
    <3>1. Home(user) \in Paths /\ Home(user)[1] = "user" /\ Home(user)[2] = DirName[user] /\ Len(Home(user)) > 1
      BY NamesAssumption DEF Home, Paths
    <3>2. <<Home(user)[1]>> \in ConfiguredPaths(cfg) /\ <<"user", Home(user)[2]>> \in disk
      BY <1>7, <2>1, <2>2, <3>1
    <3>3. CheckPermission(cfg, disk, ans, user, Home(user), "read")
      BY <3>1, <3>2, CheckedByKind
    <3> QED
      BY <1>1, <2>1, <2>2, <3>3 DEF Home
  <2>3. \A path \in listed : IsPrefix(path, dir) => path = Home(user)
    BY <1>1, <1>4, <1>7
  <2>4. (\E path \in listed : IsPrefix(path, dir)) <=> dir[2] = DirName[user]
    <3> HIDE DEF listed
    <3> QED
      BY <1>5, <1>7, <2>1, <2>2, <2>3
  <2> HIDE DEF listed
  <2> QED
    BY <1>2, <1>7, <2>1, <2>4, CheckedByKind
<1> QED
  BY <1>6, <1>7

-----------------------------------------------------------------------------
(* More roles, more rights *)

\* An answer that gives no more than another: an error gives nothing.
NoMoreThan(ans, more) == ans = NoAnswer \/ (ans # NoAnswer /\ more # NoAnswer /\ ans \subseteq more)

LEMMA AdminGrows ==
  ASSUME NEW cfg, NEW ans, NEW more, NoMoreThan(ans, more), HasAdminRole(cfg, ans)
  PROVE  HasAdminRole(cfg, more)
BY DEF HasAdminRole, NoMoreThan

LEMMA EffectiveGrows ==
  ASSUME NEW d, NEW user, NEW ans, NEW more, NoMoreThan(ans, more)
  PROVE  /\ RolePermissions(d, ans) \subseteq RolePermissions(d, more)
         /\ EffectivePermissions(d, user, ans) \subseteq EffectivePermissions(d, user, more)
<1>1. \A r : ans # NoAnswer /\ r \in ans \ {Unset, AnyRole} => more # NoAnswer /\ r \in more \ {Unset, AnyRole}
  BY DEF NoMoreThan
<1>2. RolePermissions(d, ans) \subseteq RolePermissions(d, more)
  BY <1>1 DEF RolePermissions
<1> QED
  BY <1>2 DEF EffectivePermissions

\* A check fails closed: whatever it allows while the provider fails, or with some of
\* a user's roles, it allows with all of them, and it never allows less because more
\* directories are there.  No grant takes anything away.
THEOREM CheckGrows ==
  ASSUME NEW cfg, NEW disk, NEW larger, disk \subseteq larger,
         NEW ans, NEW more, NoMoreThan(ans, more), NEW user, NEW dir, NEW perm,
         CheckPermission(cfg, disk, ans, user, dir, perm)
  PROVE  CheckPermission(cfg, larger, more, user, dir, perm)
<1> DEFINE d == GetDirectoryConfig(cfg, Head(dir))
<1>1. d # NoDir
  BY DEF CheckPermission
<1>2. CASE d.type = "user_private"
  <2>1. CheckUserPrivatePermission(cfg, disk, ans, user, dir, perm)
    BY <1>2 DEF CheckPermission
  <2>2. CheckUserPrivatePermission(cfg, larger, more, user, dir, perm)
    BY <2>1, AdminGrows DEF CheckUserPrivatePermission, AllowUserDirectoryAccess
  <2> QED
    BY <1>1, <1>2, <2>2 DEF CheckPermission
<1>3. CASE d.type # "user_private"
  <2>1. perm \in StaticPermissions(d, user) \/ HasAdminRole(cfg, ans) \/ perm \in RolePermissions(d, ans)
    BY <1>3 DEF CheckPermission
  <2>2. perm \in StaticPermissions(d, user) \/ HasAdminRole(cfg, more) \/ perm \in RolePermissions(d, more)
    BY <2>1, AdminGrows, EffectiveGrows
  <2> QED
    BY <1>1, <1>3, <2>2 DEF CheckPermission
<1> QED
  BY <1>2, <1>3

\* So does a listing: each directory that is shown is shown again with at least the
\* same permissions.
THEOREM ListingGrows ==
  ASSUME NEW cfg, cfg.dirs \in Seq(DirectoryConfig), NEW disk, NEW larger, disk \subseteq larger,
         NEW ans, NEW more, NoMoreThan(ans, more), NEW user,
         NEW e \in GetAccessibleDirectories(cfg, disk, ans, user)
  PROVE  \E f \in GetAccessibleDirectories(cfg, larger, more, user) :
           f.path = e.path /\ e.perms \subseteq f.perms
<1> DEFINE dirs == {cfg.dirs[i] : i \in DOMAIN cfg.dirs}
           private == {d \in dirs : d.type = "user_private"}
           shared == dirs \ private
           Effective(d, a) == IF HasAdminRole(cfg, a) THEN Permissions ELSE EffectivePermissions(d, user, a)
<1>1. \A k, a : GetAccessibleDirectories(cfg, k, a, user) =
        {[path |-> Home(user), perms |-> Permissions] : d \in {p \in private : Home(user) \in k}}
          \cup {[path |-> d.path, perms |-> Effective(d, a)] : d \in {s \in shared : Effective(s, a) # {}}}
  BY DEF GetAccessibleDirectories
<1>2. \A d \in shared : Effective(d, ans) \subseteq Effective(d, more)
  <2> SUFFICES ASSUME NEW d \in shared PROVE Effective(d, ans) \subseteq Effective(d, more)
    OBVIOUS
  <2>0. d \in DirectoryConfig
    OBVIOUS
  <2> HIDE DEF shared
  <2>1. \A g \in d.grants : g.perms \subseteq Permissions
    BY <2>0 DEF DirectoryConfig, GrantConfig
  <2>2. EffectivePermissions(d, user, ans) \subseteq Permissions
    BY <2>1 DEF EffectivePermissions, StaticPermissions, RolePermissions
  <2> QED
    BY <2>2, AdminGrows, EffectiveGrows
<1> HIDE DEF private, shared, Effective
<1>3. CASE e = [path |-> Home(user), perms |-> Permissions] /\ Home(user) \in disk /\ private # {}
  <2>1. e \in GetAccessibleDirectories(cfg, larger, more, user)
    BY <1>1, <1>3
  <2> QED
    BY <2>1
<1>4. CASE \E d \in shared : Effective(d, ans) # {} /\ e = [path |-> d.path, perms |-> Effective(d, ans)]
  <2>1. PICK d \in shared : Effective(d, ans) # {} /\ e = [path |-> d.path, perms |-> Effective(d, ans)]
    BY <1>4
  <2>2. [path |-> d.path, perms |-> Effective(d, more)] \in GetAccessibleDirectories(cfg, larger, more, user)
    BY <1>1, <1>2, <2>1
  <2> QED
    BY <1>2, <2>1, <2>2
<1> QED
  BY <1>1, <1>3, <1>4

=============================================================================
