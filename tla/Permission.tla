----------------------------- MODULE Permission -----------------------------
(* Who may do what in which directory: the grants of config.yaml and           *)
(* permission.Checker, as operators.                                           *)
(*                                                                             *)
(* A path is the sequence of its components.  Of a configuration "dirs", a     *)
(* sequence of directories, and "admin", the administrators' role or Unset,    *)
(* matter here.  "disk" is the set of the directories there are below          *)
(* upload_path; "ans" is what the provider answers for the user, a set of      *)
(* roles or NoAnswer for an error.                                             *)
EXTENDS Naturals, Sequences, FiniteSets, SequencesExt

CONSTANTS
  Users, Roles, \* user IDs, role IDs
  Names,        \* what a component of a path may be
  DirName,      \* SanitizeDirName of a user's name, the directory below /user
  Unset,        \* the empty string
  AnyRole,      \* the role "*" of a grant
  NoAnswer,     \* GetUserRoles failed
  NoDir         \* GetDirectoryConfig found nothing

Permissions == {"read", "write", "delete"}

GrantConfig == [role : Roles \cup {Unset, AnyRole}, user : Users \cup {Unset},
                perms : SUBSET Permissions]

Paths == Seq(Names) \ {<<>>}

\* Every other type is as good as "public".
DirectoryConfig == [path : Seq(Names), type : {"user_private", "public"}, grants : SUBSET GrantConfig]

Home(user) == <<"user", DirName[user]>>

\* The paths of the directories of a configuration.
ConfiguredPaths(cfg) == {cfg.dirs[i].path : i \in DOMAIN cfg.dirs}

\* Paths of one component, none twice, and the private directory is /user.
Regular(cfg) ==
  /\ \A i \in DOMAIN cfg.dirs :
       /\ Len(cfg.dirs[i].path) = 1
       /\ (cfg.dirs[i].type = "user_private") = (cfg.dirs[i].path = <<"user">>)
  /\ \A i, j \in DOMAIN cfg.dirs : cfg.dirs[i].path = cfg.dirs[j].path => i = j

\* SanitizeDirName leaves one component, so a home is a child of /user.
ASSUME NamesAssumption ==
  /\ DirName \in [Users -> Names] /\ "user" \in Names
  /\ Unset \notin Users \cup Roles /\ AnyRole \notin Roles /\ Unset # AnyRole
  /\ \A roles \in SUBSET Roles : NoAnswer # roles
  /\ NoDir \notin DirectoryConfig

-----------------------------------------------------------------------------
(* config.go *)

\* The first directory of that path.  A configured path of several components
\* is never the first component of anything.
GetDirectoryConfig(cfg, root) ==
  LET same == {i \in DOMAIN cfg.dirs : cfg.dirs[i].path = <<root>>}
  IN IF same = {} THEN NoDir ELSE cfg.dirs[CHOOSE i \in same : \A j \in same : i <= j]

HasAdminRole(cfg, ans) == cfg.admin # Unset /\ ans # NoAnswer /\ cfg.admin \in ans

StaticPermissions(d, user) ==
  UNION {g.perms : g \in {h \in d.grants : h.role = AnyRole \/ h.user = user}}

RolePermissions(d, ans) ==
  UNION {g.perms : g \in {h \in d.grants : ans # NoAnswer /\ h.role \in ans \ {Unset, AnyRole}}}

\* Mutant: what is granted to everybody or to the user alone is forgotten.
RolePermissionsOnly(d, user, ans) == RolePermissions(d, ans)

EffectivePermissions(d, user, ans) == StaticPermissions(d, user) \cup RolePermissions(d, ans)

-----------------------------------------------------------------------------
(* permission.go *)

\* A home need not exist to be written to, for the first upload makes it.
AllowUserDirectoryAccess(disk, name, perm) == perm = "write" \/ <<"user", name>> \in disk

\* Mutant: whoever names a home that is there is let in.
AnyHomePermission(cfg, disk, ans, user, dir, perm) ==
  IF Len(dir) = 1 THEN perm = "read" ELSE AllowUserDirectoryAccess(disk, dir[2], perm)

\* The parent may be listed and nothing else; a home, with all below it, is for
\* its owner and for administrators.
CheckUserPrivatePermission(cfg, disk, ans, user, dir, perm) ==
  IF Len(dir) = 1 THEN perm = "read"
  ELSE /\ dir[2] = DirName[user] \/ HasAdminRole(cfg, ans)
       /\ AllowUserDirectoryAccess(disk, dir[2], perm)

\* TRUE if the check says yes.  An error, of the provider or because nothing of
\* that name is configured, refuses the request as a "no" does.
CheckPermission(cfg, disk, ans, user, dir, perm) ==
  LET d == GetDirectoryConfig(cfg, Head(dir))
  IN /\ d # NoDir
     /\ IF d.type = "user_private"
          THEN CheckUserPrivatePermission(cfg, disk, ans, user, dir, perm)
          ELSE \/ perm \in StaticPermissions(d, user)
               \/ HasAdminRole(cfg, ans)
               \/ perm \in RolePermissions(d, ans)

\* An error of the provider leaves what needs no role.
GetAccessibleDirectories(cfg, disk, ans, user) ==
  LET private == {d \in {cfg.dirs[i] : i \in DOMAIN cfg.dirs} : d.type = "user_private"}
      shared == {cfg.dirs[i] : i \in DOMAIN cfg.dirs} \ private
      Effective(d) == IF HasAdminRole(cfg, ans) THEN Permissions
                      ELSE EffectivePermissions(d, user, ans)
  IN {[path |-> Home(user), perms |-> Permissions] : d \in {p \in private : Home(user) \in disk}}
     \cup {[path |-> d.path, perms |-> Effective(d)] : d \in {s \in shared : Effective(s) # {}}}

\* What an event stream keeps of a user's rights; an error, now, is no admin.
ReadDirs(cfg, disk, ans, user) ==
  {e.path : e \in {a \in GetAccessibleDirectories(cfg, disk, ans, user) : "read" \in a.perms}}

\* Mutant: the listing, from which the homes of others are missing, is enough.
ReadDirsOnly(cfg, disk, dirsAns, adminAns, user) ==
  [dirs |-> ReadDirs(cfg, disk, dirsAns, user), admin |-> FALSE]

\* The provider is asked twice, and may give two answers.
ReadFilterFor(cfg, disk, dirsAns, adminAns, user) ==
  [dirs |-> ReadDirs(cfg, disk, dirsAns, user), admin |-> HasAdminRole(cfg, adminAns)]

CanRead(f, dir) == f.admin \/ \E allowed \in f.dirs : IsPrefix(allowed, dir)
=============================================================================
