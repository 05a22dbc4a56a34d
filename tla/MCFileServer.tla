---------------------------- MODULE MCFileServer ----------------------------
(* An instance of FileServer for TLC: the requests of alice, next to bob's home. *)
EXTENDS FileServer, TLC

CONSTANTS u1, member, admin

Grant(role, user, perms) == [role |-> role, user |-> user, perms |-> perms]

Public == [path |-> <<"public">>, type |-> "public",
           grants |-> {Grant(AnyRole, Unset, {"read"}), Grant(member, Unset, {"write"})}]
Granted == [path |-> <<"public">>, type |-> "public", grants |-> {Grant(Unset, u1, {"read", "write"})}]
Private == [path |-> <<"user">>, type |-> "user_private", grants |-> {}]

MCDirName == u1 :> "alice"
MCDefault == ("max_file_size" :> 2) @@ ("max_concurrent_uploads" :> 3)
Zero == [s \in Settings |-> 0]

MCTemplate == [numbers |-> Zero, type |-> "discord", fields |-> RequiredFields["discord"],
               dirs |-> <<Public, Private>>, admin |-> admin]
Edited == [numbers |-> [Zero EXCEPT !["max_file_size"] = 1], type |-> "oidc",
           fields |-> RequiredFields["oidc"] \ {"client_secret"}, dirs |-> <<Granted>>, admin |-> Unset]

MCContents == {MCTemplate, Edited, Unparsable}

Plain == [numbers |-> [s \in Settings |-> Unset], admin |-> Unset,
          secrets |-> [s \in Secrets |-> "unset"]]
Overrides == [Plain EXCEPT !.numbers["max_concurrent_uploads"] = 0,
                           !.secrets["client_secret"] = "given"]
Wrong == [Overrides EXCEPT !.numbers["max_file_size"] = Bad]

MCEnvironments == {Overrides, Wrong}
MCAnswers == {NoAnswer, {member}, {admin}}
MCRequestDirs == {<<"public">>, <<"user">>, <<"user", "alice">>, <<"user", "bob">>}
Symmetry == Permutations(Requests)
MCOldDirs == {<<"user">>, <<"user", "bob">>}
MCRangeSpecs == {<<0, 0>>, <<0, 1>>, <<1, Unset>>, <<Unset, 1>>, <<Unset, 2>>}
=============================================================================
