----------------------------- MODULE CoreConfig -----------------------------
(***************************************************************************)
(* decision-core.yaml and what the one-call surfaces make of it: loading   *)
(* (surfaces/cli/config-loader.ts), the merge with the caller's options    *)
(* (surfaces/sdk/evaluate.ts), the guard's verdict (create-policy-guard.ts)*)
(* and the promotion to enforce (surfaces/cli/promote-enforce.ts).  A      *)
(* field that may be left out is a set of at most one value, so that       *)
(* `a ?? b` is OrElse(a, b).                                               *)
(***************************************************************************)
EXTENDS PolicyRules

CONSTANTS
  Missing, \* what a path holds where there is no file
  Broken   \* what it holds when the file does not parse or validate

EnforcementModes == {"observe", "enforce"}
Places == {"auto", "other"}  \* .decision-core/policy-pack.yaml, and any other path
Optional(S) == {{}} \cup {{x} : x \in S}

ConfigType ==
  [ pack     : Optional(Places),           \* policyPackPath
    deny     : Optional(BOOLEAN),          \* denyUnknownDefault
    mode     : Optional(EnforcementModes), \* enforcementMode
    sqlite   : BOOLEAN,                    \* persistence is 'sqlite', not the default 'memory'
    path     : BOOLEAN,                    \* sqlitePath is given
    registry : BOOLEAN,                    \* agentRegistryPath is given
    plain    : BOOLEAN ]                   \* nothing follows the mode on its line

\* What is read of a file is told from a file that is missing or broken.
ASSUME FilesAssumption == Missing # Broken /\ {Missing, Broken} \cap ConfigType = {}

\* A config that says nothing, which is also what `config?.x` reads of no config.
NoConfig == [pack |-> {}, deny |-> {}, mode |-> {}, sqlite |-> FALSE, path |-> FALSE,
             registry |-> FALSE, plain |-> TRUE]

\* loadCliConfig() with no path: no file is a config of its own where there is a pack to find.
loadCliConfig(file, auto) ==
  IF file # Missing THEN file
  ELSE IF auto # Missing THEN [NoConfig EXCEPT !.pack = {"auto"}, !.deny = {TRUE}]
  ELSE NoConfig

OrElse(first, second) == IF first # {} THEN first ELSE second

\* evaluate: the caller's options first, then the file in the working directory, field by field.
Merged(options, config, auto) ==
  LET pack == OrElse(options.pack, config.pack) IN
  [ pack |-> IF pack = {} /\ auto # Missing THEN {"auto"} ELSE pack,
    deny |-> OrElse(options.deny, config.deny), mode |-> OrElse(options.mode, config.mode),
    sqlite |-> options.sqlite \/ config.sqlite, path |-> options.path \/ config.path,
    registry |-> options.registry \/ config.registry, plain |-> TRUE ]

\* A registry that is configured and readable decides the roles; any other leaves the caller's.
RolesOf(configured, registry, request) ==
  IF configured /\ registry \notin {Missing, Broken}
  THEN UNION {registry[a] : a \in request.agent \cap DOMAIN registry}
  ELSE request.roles

\* What a call without amounts, scores or a clock tells the PDP.
ContextOf(action, roles) ==
  [action |-> action, point |-> "pre_decision", roles |-> roles,
   impact |-> {}, quality |-> {}, confidence |-> {}, time |-> 0]

\* Mutant of Shown: a mode that is not set observes.
Shown_unset(mode, verdict) == IF mode # {"enforce"} THEN "allow" ELSE verdict

\* The guard's answer: observing never blocks, and a mode that is not set enforces.
Shown(mode, verdict) == IF mode = {"observe"} THEN "allow" ELSE verdict

Enforces(config) == config.mode # {"observe"}
HasPack(config, auto) == config.pack # {} \/ auto # Missing

\* The updated text: the pattern finds the mode's line only when the mode ends it.  Otherwise a
\* second enforcementMode is appended, and parsing a duplicate key throws.
Promoted(config) == IF config.plain THEN [config EXCEPT !.mode = {"enforce"}] ELSE Broken
=============================================================================
