---------------------------- MODULE EmbeddedCore ----------------------------
(***************************************************************************)
(* Decision cores that a host makes with quickStart, fromPolicyPack and    *)
(* createDecisionCore (src/src/surfaces/sdk), and the MCP server of serve, *)
(* each with repositories of its own or over one shared SQLite file.  A    *)
(* core seeds its rules one awaited insert at a time before it is handed   *)
(* out, keeps nothing but the SQLite tables when it stops, and explains a  *)
(* decision from the cache of its own results or else from the log.  The   *)
(* pipeline between the policy verdict and the log is DecisionRunner's.    *)
(***************************************************************************)
EXTENDS PolicyRules, Sequences

CONSTANTS
  Cores,     \* the instances a host holds
  Rules,     \* the rules there may be
  Packs,     \* the packs a core may be made of: [rules, deny]
  ToolLists, \* the tools a host may declare: sets of patterns, each the actions it matches
  Deleting,  \* the actions delete_* matches
  Admin,     \* the actions admin_* matches
  Contexts,  \* what is asked of the PDP
  Storages,  \* whether quickStart and createDecisionCore are asked for SQLite
  Ids,       \* correlation ids, each the host's own or made by the runner
  MaxCalls   \* bound on the calls of one id that a log holds

ASSUME RulesAssumption == \A r \in Rules : r.default \in VerdictResults /\ r.approval \in BOOLEAN
ASSUME StoragesAssumption == Storages \subseteq BOOLEAN
ASSUME MaxCallsAssumption == MaxCalls \in Nat
ASSUME PacksAssumption == Packs \subseteq [rules : SUBSET Rules, deny : BOOLEAN]

ProfileNames == {"personal", "team", "enterprise"}

RuleFor(actions, approval, verdict) ==
  [actions |-> actions, point |-> "pre_decision", roles |-> {}, all |-> FALSE, maxAmount |-> {},
   minQuality |-> {}, minConfidence |-> {}, window |-> {}, approval |-> approval,
   default |-> verdict]

\* An allowing rule per declared tool, and what the profile adds.
generateProfileRules(profile, tools) ==
  {RuleFor(tool, FALSE, "allow") : tool \in tools}
  \cup (CASE profile = "personal"   -> {}
          [] profile = "team"       -> {RuleFor(Deleting, TRUE, "allow")}
          [] profile = "enterprise" -> {RuleFor(Deleting, FALSE, "deny"), RuleFor(Admin, TRUE, "allow")})

ASSUME ProfilesAssumption ==
  \A profile \in ProfileNames, tools \in ToolLists : generateProfileRules(profile, tools) \subseteq Rules

VARIABLES
  table,  \* the policy rules in SQLite
  log,    \* the decision log in SQLite: per id the statuses of its calls, as they were appended
  cores

vars == <<table, log, cores>>

Kinds == {"quickStart", "fromPolicyPack", "createDecisionCore", "serve"}
Outcomes == {"completed", "blocked", "safe_block", "approval_required", "failed"}
Statuses == {"generated", "blocked", "pending", "failed"}
Modes == {"observe", "enforce"}

CoreType ==
  [ pc       : {"off", "seeding", "up"},
    kind     : Kinds,
    sqlite   : BOOLEAN,
    declared : SUBSET Rules,     \* the rules it was made of
    todo     : SUBSET Rules,     \* those it still has to seed
    deny     : BOOLEAN,          \* the deny-unknown wrapper is on
    mem      : [Ids -> Seq(Statuses)], \* its decision log in memory
    judged   : [Ids -> VerdictResults \cup {"none"}], \* the shadowed verdict of a call in flight
    cache    : [Ids -> Outcomes \cup {"none"}] ]      \* resultCache

Off == [pc |-> "off", kind |-> "serve", sqlite |-> FALSE, declared |-> {}, todo |-> {},
        deny |-> FALSE, mem |-> [i \in Ids |-> <<>>], judged |-> [i \in Ids |-> "none"],
        cache |-> [i \in Ids |-> "none"]]

\* The rules a core reads: the ones it has seeded in memory, or the whole table.
Store(c) == IF cores[c].sqlite THEN table ELSE cores[c].declared \ cores[c].todo
Log(c) == IF cores[c].sqlite THEN log ELSE cores[c].mem

\* What the core's PDP says.
Verdict(c, ctx) == evaluate(Store(c), cores[c].deny, ctx)

-----------------------------------------------------------------------------
(* Making a core                                                           *)

Make(c, kind, declared, deny, sqlite) ==
  /\ cores[c].pc = "off"
  /\ cores' = [cores EXCEPT ![c] =
       [Off EXCEPT !.pc = "seeding", !.kind = kind, !.sqlite = sqlite, !.declared = declared,
                   !.todo = declared, !.deny = deny]]
  /\ UNCHANGED <<table, log>>

\* Deny-unknown always; its tenant is always 'default', whatever the caller's options say.
quickStart(c, sqlite) ==
  \E profile \in ProfileNames, tools \in ToolLists :
    Make(c, "quickStart", generateProfileRules(profile, tools), TRUE, sqlite)

\* A bundled pack, in memory, and never deny-unknown.
fromPolicyPack(c) ==
  \E p \in Packs : Make(c, "fromPolicyPack", p.rules, FALSE, FALSE)

createDecisionCore(c, sqlite) ==
  \E p \in Packs, asked \in BOOLEAN :
    Make(c, "createDecisionCore", p.rules, asked \/ p.deny, sqlite)

\* serve --mcp: in memory; the configured mode is not read, and nothing writes its decision log.
serveCommand(c) ==
  \E p \in Packs, asked \in BOOLEAN :
    Make(c, "serve", p.rules, asked \/ p.deny, FALSE)

\* One awaited insert.
SeedRule(c) ==
  /\ cores[c].pc = "seeding"
  /\ \E rule \in cores[c].todo :
       /\ cores' = [cores EXCEPT ![c].todo = @ \ {rule}]
       /\ table' = IF cores[c].sqlite THEN table \cup {rule} ELSE table
  /\ UNCHANGED log

\* Mutant of HandOut: the inserts are not awaited.
HandOut_early(c) ==
  /\ cores[c].pc = "seeding"
  /\ cores' = [cores EXCEPT ![c].pc = "up"]
  /\ UNCHANGED <<table, log>>

\* The factory returns.
HandOut(c) ==
  /\ cores[c].pc = "seeding" /\ cores[c].todo = {}
  /\ cores' = [cores EXCEPT ![c].pc = "up"]
  /\ UNCHANGED <<table, log>>

\* The host drops the core or its process ends, while seeding too: rules and log stay in SQLite.
Stop(c) ==
  /\ cores[c].pc # "off"
  /\ cores' = [cores EXCEPT ![c] = Off]
  /\ UNCHANGED <<table, log>>

-----------------------------------------------------------------------------
(* Its API                                                                 *)

\* evaluate, up to the verdict the pipeline acts on.  The mode is the call's own or the core's.
Evaluate(c, id, ctx) ==
  /\ cores[c].pc = "up" /\ cores[c].kind # "serve"
  /\ cores[c].judged[id] = "none"
  /\ \E mode \in Modes :
       cores' = [cores EXCEPT ![c].judged[id] =
                   IF mode = "observe" THEN "allow" ELSE Verdict(c, ctx)]
  /\ UNCHANGED <<table, log>>

\* What becomes of a verdict (DecisionRunner): an allowed decision may fail its own quality gate
\* and be blocked; only createDecisionCore takes the routes or the model gateway without which no
\* call ends in a safe block.
OutcomesOf(kind, verdict) ==
  CASE verdict = "deny"             -> {"blocked"}
    [] verdict = "approve_required" -> {"approval_required"}
    [] verdict = "allow"            ->
         {"completed", "failed", "blocked"} \cup (IF kind = "createDecisionCore" THEN {"safe_block"} ELSE {})

verdictToStatus(outcome) ==
  CASE outcome = "completed" -> "generated"
    [] outcome \in {"blocked", "safe_block"} -> "blocked"
    [] outcome = "approval_required" -> "pending"
    [] outcome = "failed" -> "failed"

Cached(c, id, outcome) ==
  IF cores[c].kind = "createDecisionCore" THEN cores[c].cache
  ELSE [cores[c].cache EXCEPT ![id] = outcome]

\* A log after one more call of id.
Appended(records, id, outcome) ==
  [records EXCEPT ![id] = Append(@, verdictToStatus(outcome))]

MemAfter(c, id, outcome) ==
  IF cores[c].sqlite THEN cores[c].mem ELSE Appended(cores[c].mem, id, outcome)

\* The call is logged, its result cached and returned.
Returns(c, id, outcome) ==
  /\ cores' = [cores EXCEPT ![c].judged[id] = "none", ![c].cache = Cached(c, id, outcome),
                            ![c].mem = MemAfter(c, id, outcome)]
  /\ log' = IF cores[c].sqlite THEN Appended(log, id, outcome) ELSE log
  /\ UNCHANGED table

Conclude(c, id) ==
  /\ cores[c].judged[id] # "none"
  /\ Len(Log(c)[id]) < MaxCalls
  /\ \E outcome \in OutcomesOf(cores[c].kind, cores[c].judged[id]) : Returns(c, id, outcome)

\* Mutant of LogRefuses: the result is cached first.
LogRefuses_cached(c, id) ==
  /\ cores[c].judged[id] # "none"
  /\ \E outcome \in OutcomesOf(cores[c].kind, cores[c].judged[id]) :
       cores' = [cores EXCEPT ![c].judged[id] = "none", ![c].cache = Cached(c, id, outcome)]
  /\ UNCHANGED <<table, log>>

\* The append rejects, and with it evaluate.
LogRefuses(c, id) ==
  /\ cores[c].judged[id] # "none"
  /\ cores' = [cores EXCEPT ![c].judged[id] = "none"]
  /\ UNCHANGED <<table, log>>

\* explain, from a cached result and from the status of a record of the log.
verdictToExplainVerdict(outcome) ==
  CASE outcome = "completed" -> "allow"
    [] outcome = "approval_required" -> "approve_required"
    [] OTHER -> "deny"

ExplainedByRecord(status) ==
  CASE status = "generated" -> "allow"
    [] status = "pending" -> "approve_required"
    [] OTHER -> "deny"

\* What explain answers of an id with a cached result, and of one with records alone: its first.
ExplainCached(c, id) == verdictToExplainVerdict(cores[c].cache[id])
ExplainLogged(c, id) == ExplainedByRecord(Log(c)[id][1])

-----------------------------------------------------------------------------
Init == table = {} /\ log = [i \in Ids |-> <<>>] /\ cores = [c \in Cores |-> Off]

Step(c) ==
  \/ \E sqlite \in Storages : quickStart(c, sqlite) \/ createDecisionCore(c, sqlite)
  \/ fromPolicyPack(c) \/ serveCommand(c)
  \/ SeedRule(c) \/ HandOut(c) \/ Stop(c)
  \/ \E id \in Ids : \/ \E ctx \in Contexts : Evaluate(c, id, ctx)
                     \/ Conclude(c, id) \/ LogRefuses(c, id)

Next == \E c \in Cores : Step(c)

Spec == Init /\ [][Next]_vars

-----------------------------------------------------------------------------
(* Properties                                                              *)

TypeOK ==
  /\ table \subseteq Rules
  /\ log \in [Ids -> Seq(Statuses)]
  /\ cores \in [Cores -> CoreType]

\* A core that was handed out denies what a rule it was made of denies, whatever a crash left half
\* seeded in the shared table, and whatever other cores have put or are putting there: the factory
\* hands a core out when all its inserts are done, and deny wins over every rule of the others.
DeniedByItsPack ==
  \A c \in Cores, ctx \in Contexts :
    /\ cores[c].pc = "up"
    /\ \E rule \in cores[c].declared : Applies(rule, ctx) /\ VerdictOf(rule, ctx) = "deny"
    => Verdict(c, ctx) = "deny"

\* What a core explains from its cache its decision log bears out: for every cached result one of
\* the records of the id explains the same, and the first, from which an auditor or the core's
\* successor over the same file is answered, may explain otherwise only if the id was used again.
\* Cache and log are filled by different code, and their statuses come by two different ways to the
\* verdict of the explanation; a log that refuses the record leaves no result to explain.
LogBearsOutCache ==
  \A c \in Cores, id \in Ids :
    cores[c].cache[id] # "none" =>
      /\ \E k \in DOMAIN Log(c)[id] : ExplainedByRecord(Log(c)[id][k]) = ExplainCached(c, id)
      /\ Len(Log(c)[id]) = 1 => ExplainLogged(c, id) = ExplainCached(c, id)
=============================================================================
