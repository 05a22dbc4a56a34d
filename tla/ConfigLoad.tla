----------------------------- MODULE ConfigLoad -----------------------------
(* How config.yaml and the environment become the configuration a process runs *)
(* with: config.Load without the reading of the file, as operators.            *)
(*                                                                             *)
(* Of a configuration, "numbers" has the numeric settings, 0 where the file    *)
(* says nothing; "type" is the provider's; "fields" are the required strings   *)
(* that are not blank; "dirs" and "admin" are as in module Permission.  Other  *)
(* settings that are strings are left out.                                     *)
EXTENDS Permission, Integers

CONSTANTS
  Settings,     \* the numeric settings of the file
  Default,      \* their default values
  Unparsable,   \* a file that is no YAML
  Bad           \* an environment variable that is no number

Secrets == {"bot_token", "client_secret"}

RequiredFields ==
  [discord |-> {"bot_token", "client_id", "client_secret", "guild_id", "redirect_url"},
   oidc    |-> {"issuer", "client_id", "client_secret", "redirect_url"}]

Fields == UNION {RequiredFields[type] : type \in DOMAIN RequiredFields}

\* A provider's type that is none of these is refused like a missing one.
Config == [numbers : [Settings -> Int], type : {"discord", "oidc", Unset}, fields : SUBSET Fields,
           dirs : Seq(DirectoryConfig), admin : Roles \cup {Unset}]

\* What the environment sets: a secret is given in a file of its own.
Environment == [numbers : [Settings -> Int \cup {Unset, Bad}], admin : Roles \cup {Unset},
                secrets : [Secrets -> {"unset", "given", "unreadable"}]]

ASSUME ConfigAssumption ==
  /\ Default \in [Settings -> Nat \ {0}]
  /\ Unset \notin Int /\ Bad \notin Int /\ Unset # Bad /\ Unparsable \notin Config

\* An empty file parses.
Empty == [numbers |-> [s \in Settings |-> 0], type |-> Unset, fields |-> {}, dirs |-> <<>>,
          admin |-> Unset]

\* Mutant: 0, which is also what a missing line gives, is taken as it is.
ApplyDefaultsBelowZero(c) ==
  [c EXCEPT !.numbers = [s \in Settings |-> IF @[s] < 0 THEN Default[s] ELSE @[s]]]

ApplyDefaults(c) ==
  [c EXCEPT !.numbers = [s \in Settings |-> IF @[s] <= 0 THEN Default[s] ELSE @[s]]]

\* A variable that is no number, a secret's file that is missing or empty.
EnvReads(env) ==
  /\ \A s \in Settings : env.numbers[s] # Bad
  /\ \A s \in Secrets : env.secrets[s] # "unreadable"

\* An override is taken as it is, 0 and negative numbers included.
ApplyEnvOverrides(c, env) ==
  [c EXCEPT
     !.numbers = [s \in Settings |-> IF env.numbers[s] = Unset THEN @[s] ELSE env.numbers[s]],
     !.admin = IF env.admin = Unset THEN @ ELSE env.admin,
     !.fields = @ \cup {s \in Secrets : env.secrets[s] = "given"}]

Validate(c) ==
  /\ c.type \in DOMAIN RequiredFields
  /\ RequiredFields[c.type] \subseteq c.fields
  /\ c.dirs # <<>>
  /\ \A i \in DOMAIN c.dirs : c.dirs[i].path # <<>>

Loaded(content, env) == ApplyEnvOverrides(ApplyDefaults(content), env)

Loads(content, env) ==
  content # Unparsable /\ EnvReads(env) /\ Validate(Loaded(content, env))
=============================================================================
