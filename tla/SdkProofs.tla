----------------------------- MODULE SdkProofs -----------------------------
(***************************************************************************)
(* For any cores, packs, tools and contexts, however they are made, seeded,*)
(* stopped and made again over the shared table: the types of EmbeddedCore *)
(* hold, a core denies what a rule it was made of denies, and its log      *)
(* bears out what it explains from its cache.  And for any calls, files,   *)
(* edits and promotions: the types of ObserveMode hold, a promotion stands *)
(* until a file is edited, and a report covers what observing hid.         *)
(***************************************************************************)
EXTENDS EmbeddedCore, ObserveMode, SequenceTheorems, FiniteSetTheorems, TLAPS

\* What the PDP says is a verdict (policy-decision-point.ts), for any rules.
LEMMA VerdictType ==
  ASSUME NEW rules, NEW denyUnknown, NEW ctx
  PROVE  evaluate(rules, denyUnknown, ctx) \in VerdictResults
  BY DEF evaluate, arbitrate, VerdictResults

\* One applicable rule that denies decides: no rule next to it, and no wrapper around, outweighs it.
LEMMA DenyWins ==
  ASSUME NEW rules, NEW denyUnknown, NEW ctx, NEW rule \in rules,
         Applies(rule, ctx), VerdictOf(rule, ctx) = "deny"
  PROVE  evaluate(rules, denyUnknown, ctx) = "deny"
  <1> DEFINE results == {VerdictOf(r, ctx) : r \in {x \in rules : Applies(x, ctx)}}
  <1>1. "deny" \in results
    OBVIOUS
  <1>2. arbitrate(results) = "deny"
    BY <1>1 DEF arbitrate
  <1> QED
    BY <1>2 DEF evaluate

\* A core that is off has the type of cores.
LEMMA OffType == Off \in CoreType
  BY DEF Off, CoreType, Kinds, VerdictResults

\* Making a core keeps the types, if the rules it is made of are rules.
LEMMA MakeType ==
  ASSUME TypeOK, NEW c \in Cores, NEW kind \in Kinds, NEW declared \in SUBSET Rules,
         NEW deny \in BOOLEAN, NEW sqlite \in BOOLEAN, Make(c, kind, declared, deny, sqlite)
  PROVE  TypeOK'
  <1> DEFINE made == [Off EXCEPT !.pc = "seeding", !.kind = kind, !.sqlite = sqlite,
                                 !.declared = declared, !.todo = declared, !.deny = deny]
  <1>1. made \in CoreType
    BY OffType DEF CoreType, Off
  <1>2. cores' = [cores EXCEPT ![c] = made] /\ UNCHANGED <<table, log>>
    BY DEF Make
  <1> HIDE DEF made
  <1> QED
    BY <1>1, <1>2 DEF TypeOK

\* The four factories make a core of declared rules that are rules.
LEMMA Made ==
  ASSUME NEW c \in Cores, NEW sqlite \in BOOLEAN,
         \/ quickStart(c, sqlite) \/ createDecisionCore(c, sqlite)
         \/ fromPolicyPack(c) \/ serveCommand(c)
  PROVE  \E kind \in Kinds, declared \in SUBSET Rules, deny \in BOOLEAN, stored \in BOOLEAN :
           Make(c, kind, declared, deny, stored)
  <1>1. CASE quickStart(c, sqlite)
    <2>1. PICK profile \in ProfileNames, tools \in ToolLists :
            Make(c, "quickStart", generateProfileRules(profile, tools), TRUE, sqlite)
      BY <1>1 DEF quickStart
    <2>2. generateProfileRules(profile, tools) \in SUBSET Rules
      BY ProfilesAssumption
    <2> QED
      BY <2>1, <2>2 DEF Kinds
  <1>2. CASE createDecisionCore(c, sqlite)
    <2>1. PICK p \in Packs, asked \in BOOLEAN :
            Make(c, "createDecisionCore", p.rules, asked \/ p.deny, sqlite)
      BY <1>2 DEF createDecisionCore
    <2>2. p.rules \in SUBSET Rules /\ (asked \/ p.deny) \in BOOLEAN
      BY PacksAssumption
    <2> QED
      BY <2>1, <2>2 DEF Kinds
  <1>3. CASE fromPolicyPack(c)
    BY <1>3, PacksAssumption DEF fromPolicyPack, Kinds
  <1>4. CASE serveCommand(c)
    <2>1. PICK p \in Packs, asked \in BOOLEAN :
            Make(c, "serve", p.rules, asked \/ p.deny, FALSE)
      BY <1>4 DEF serveCommand
    <2>2. p.rules \in SUBSET Rules /\ (asked \/ p.deny) \in BOOLEAN
      BY PacksAssumption
    <2> QED
      BY <2>1, <2>2 DEF Kinds
  <1> QED
    BY <1>1, <1>2, <1>3, <1>4

\* A logged call has one of the statuses, and its outcome may be cached.
LEMMA OutcomeType ==
  ASSUME NEW kind, NEW verdict \in VerdictResults, NEW outcome \in OutcomesOf(kind, verdict)
  PROVE  outcome \in Outcomes /\ verdictToStatus(outcome) \in Statuses
  BY DEF OutcomesOf, VerdictResults, Outcomes, verdictToStatus, Statuses

\* One more call of an id: what was logged stays where it was, and the call's status is there.
LEMMA AppendedType ==
  ASSUME NEW records \in [Ids -> Seq(Statuses)], NEW id \in Ids, NEW outcome \in Outcomes
  PROVE  /\ Appended(records, id, outcome) \in [Ids -> Seq(Statuses)]
         /\ \A i \in Ids : \A k \in DOMAIN records[i] :
              /\ k \in DOMAIN Appended(records, id, outcome)[i]
              /\ Appended(records, id, outcome)[i][k] = records[i][k]
         /\ \E k \in DOMAIN Appended(records, id, outcome)[id] :
              Appended(records, id, outcome)[id][k] = verdictToStatus(outcome)
  <1> DEFINE status == verdictToStatus(outcome)
             longer == Append(records[id], status)
  <1>1. status \in Statuses
    BY DEF Outcomes, Statuses, verdictToStatus
  <1>2. Appended(records, id, outcome) = [records EXCEPT ![id] = longer]
    BY DEF Appended
  <1> HIDE DEF status
  <1>3. records[id] \in Seq(Statuses)
    OBVIOUS
  <1>4. /\ longer \in Seq(Statuses) /\ Len(longer) = Len(records[id]) + 1
        /\ longer[Len(longer)] = status
        /\ \A k \in 1..Len(records[id]) : longer[k] = records[id][k]
    BY <1>1, <1>3
  <1> HIDE DEF longer
  <1>5. /\ Len(records[id]) \in Nat
        /\ DOMAIN records[id] = 1..Len(records[id]) /\ DOMAIN longer = 1..Len(longer)
    BY <1>3, <1>4
  <1>6. Len(longer) \in DOMAIN longer /\ DOMAIN records[id] \subseteq DOMAIN longer
    BY <1>4, <1>5
  <1>7. Appended(records, id, outcome) \in [Ids -> Seq(Statuses)]
    BY <1>2, <1>4
  <1>8. \A i \in Ids : Appended(records, id, outcome)[i] = IF i = id THEN longer ELSE records[i]
    BY <1>2
  <1>9. ASSUME NEW i \in Ids, NEW k \in DOMAIN records[i]
        PROVE  /\ k \in DOMAIN Appended(records, id, outcome)[i]
               /\ Appended(records, id, outcome)[i][k] = records[i][k]
    BY <1>4, <1>5, <1>6, <1>8
  <1> QED
    BY <1>4, <1>6, <1>7, <1>8, <1>9 DEF status

\* The types are kept by a call's end.
LEMMA ConcludeType ==
  ASSUME TypeOK, NEW c \in Cores, NEW id \in Ids, Conclude(c, id)
  PROVE  TypeOK'
  <1>1. cores[c] \in CoreType /\ cores[c].judged[id] \in VerdictResults
    BY DEF TypeOK, CoreType, Conclude
  <1>2. PICK outcome \in OutcomesOf(cores[c].kind, cores[c].judged[id]) :
          Returns(c, id, outcome)
    BY DEF Conclude
  <1>3. outcome \in Outcomes
    BY <1>1, OutcomeType
  <1>4. Cached(c, id, outcome) \in [Ids -> Outcomes \cup {"none"}]
    BY <1>1, <1>3 DEF Cached, CoreType
  <1>5. [cores[c].judged EXCEPT ![id] = "none"] \in [Ids -> VerdictResults \cup {"none"}]
    BY <1>1 DEF CoreType
  <1>6. log' \in [Ids -> Seq(Statuses)] /\ table' \subseteq Rules
    BY <1>2, <1>3, AppendedType DEF TypeOK, Returns
  <1> DEFINE mem == MemAfter(c, id, outcome)
             judged == [cores[c].judged EXCEPT ![id] = "none"]
             ended == [cores[c] EXCEPT !.judged = judged, !.cache = Cached(c, id, outcome), !.mem = mem]
  <1>7. mem \in [Ids -> Seq(Statuses)]
    BY <1>1, <1>3, AppendedType DEF CoreType, MemAfter
  <1>8. ended \in CoreType
    <2> HIDE DEF mem, judged
    <2> QED
      BY <1>1, <1>4, <1>5, <1>7 DEF CoreType, judged
  <1>9. cores' = [cores EXCEPT ![c] = ended]
    BY <1>2 DEF TypeOK, Returns
  <1> HIDE DEF ended
  <1> QED
    BY <1>6, <1>8, <1>9 DEF TypeOK

\* No step leaves the types.
LEMMA TypeStep == TypeOK /\ [Next]_vars => TypeOK'
  <1> SUFFICES ASSUME TypeOK, [Next]_vars PROVE TypeOK'
    OBVIOUS
  <1>1. CASE UNCHANGED vars
    BY <1>1 DEF TypeOK, vars
  <1>2. CASE Next
    <2>1. PICK c \in Cores : Step(c)
      BY <1>2 DEF Next
    <2>0. cores[c] \in CoreType
      BY DEF TypeOK
    <2>2. ASSUME NEW sqlite \in BOOLEAN,
                 \/ quickStart(c, sqlite) \/ createDecisionCore(c, sqlite)
                 \/ fromPolicyPack(c) \/ serveCommand(c)
          PROVE  TypeOK'
      <3>1. PICK kind \in Kinds, declared \in SUBSET Rules, deny \in BOOLEAN, stored \in BOOLEAN :
              Make(c, kind, declared, deny, stored)
        BY <2>2, Made
      <3> QED
        BY <3>1, MakeType
    <2>3. CASE SeedRule(c)
      <3>1. PICK rule \in cores[c].todo :
              /\ cores' = [cores EXCEPT ![c].todo = @ \ {rule}]
              /\ table' = IF cores[c].sqlite THEN table \cup {rule} ELSE table
              /\ UNCHANGED log
        BY <2>3 DEF SeedRule
      <3>2. [cores[c] EXCEPT !.todo = @ \ {rule}] \in CoreType /\ rule \in Rules
        BY <2>0 DEF CoreType
      <3> QED
        BY <3>1, <3>2 DEF TypeOK
    <2>4. CASE HandOut(c)
      <3>1. [cores[c] EXCEPT !.pc = "up"] \in CoreType
        BY <2>0 DEF CoreType
      <3> QED
        BY <2>4, <3>1 DEF HandOut, TypeOK
    <2>5. CASE Stop(c)
      BY <2>5, OffType DEF Stop, TypeOK
    <2>6. ASSUME NEW id \in Ids, NEW ctx \in Contexts, Evaluate(c, id, ctx)
          PROVE  TypeOK'
      <3>1. PICK mode \in Modes :
              cores' = [cores EXCEPT ![c].judged[id] =
                          IF mode = "observe" THEN "allow" ELSE Verdict(c, ctx)]
        BY <2>6 DEF Evaluate
      <3> DEFINE shown == IF mode = "observe" THEN "allow" ELSE Verdict(c, ctx)
                 judged == [cores[c].judged EXCEPT ![id] = shown]
      <3>2. shown \in VerdictResults
        BY VerdictType DEF Verdict, VerdictResults
      <3> HIDE DEF shown
      <3>3. judged \in [Ids -> VerdictResults \cup {"none"}]
        BY <2>0, <3>2 DEF CoreType
      <3> HIDE DEF judged
      <3>4. [cores[c] EXCEPT !.judged = judged] \in CoreType
        BY <2>0, <3>3 DEF CoreType
      <3>5. cores' = [cores EXCEPT ![c] = [cores[c] EXCEPT !.judged = judged]]
        BY <3>1 DEF TypeOK, judged, shown
      <3>6. UNCHANGED <<table, log>>
        BY <2>6 DEF Evaluate
      <3> QED
        BY <3>4, <3>5, <3>6 DEF TypeOK
    <2>7. ASSUME NEW id \in Ids, Conclude(c, id)
          PROVE  TypeOK'
      BY <2>7, ConcludeType
    <2>8. ASSUME NEW id \in Ids, LogRefuses(c, id)
          PROVE  TypeOK'
      <3> DEFINE judged == [cores[c].judged EXCEPT ![id] = "none"]
      <3>1. judged \in [Ids -> VerdictResults \cup {"none"}]
        BY <2>0 DEF CoreType
      <3>2. cores' = [cores EXCEPT ![c] = [cores[c] EXCEPT !.judged = judged]]
        BY <2>8 DEF LogRefuses, TypeOK
      <3> HIDE DEF judged
      <3>3. [cores[c] EXCEPT !.judged = judged] \in CoreType
        BY <2>0, <3>1 DEF CoreType
      <3> QED
        BY <2>8, <3>2, <3>3 DEF LogRefuses, TypeOK
    <2> QED
      BY <2>1, <2>2, <2>3, <2>4, <2>5, <2>6, <2>7, <2>8, StoragesAssumption DEF Step
  <1> QED
    BY <1>1, <1>2

\* The state has its types.
THEOREM TypeCorrect == Spec => []TypeOK
  <1>1. Init => TypeOK
    BY OffType DEF Init, TypeOK
  <1> QED
    BY <1>1, TypeStep, PTL DEF Spec

-----------------------------------------------------------------------------
\* What is left to do is of what was declared, a core is handed out when nothing is left, and what
\* is done is in the table.
Seeded(c) ==
  /\ cores[c].pc = "up" => cores[c].todo = {}
  /\ cores[c].sqlite => cores[c].declared \ cores[c].todo \subseteq table

SeedInv == \A c \in Cores : Seeded(c)

\* The rules of a core that is up are all in its store, so that each of them judges.
LEMMA StoredDenies == TypeOK /\ SeedInv => DeniedByItsPack
  <1> SUFFICES ASSUME SeedInv, NEW c \in Cores, NEW ctx \in Contexts, cores[c].pc = "up",
                      NEW rule \in cores[c].declared, Applies(rule, ctx),
                      VerdictOf(rule, ctx) = "deny"
               PROVE  Verdict(c, ctx) = "deny"
    BY DEF DeniedByItsPack
  <1>1. rule \in Store(c)
    BY DEF SeedInv, Seeded, Store
  <1> QED
    BY <1>1, DenyWins DEF Verdict

\* The table only grows: what another core does keeps what a core has seeded.
LEMMA Untouched ==
  ASSUME SeedInv, NEW c \in Cores, NEW core, cores \in [Cores -> CoreType],
         cores' = [cores EXCEPT ![c] = core], table \subseteq table',
         core.pc = "up" => core.todo = {},
         core.sqlite => core.declared \ core.todo \subseteq table'
  PROVE  SeedInv'
  BY DEF SeedInv, Seeded

\* A step of the API changes neither rules nor life cycle of the core.
LEMMA ApiStep ==
  ASSUME SeedInv, NEW c \in Cores, NEW core, cores \in [Cores -> CoreType],
         cores' = [cores EXCEPT ![c] = core], table' = table,
         core.pc = cores[c].pc, core.todo = cores[c].todo, core.sqlite = cores[c].sqlite,
         core.declared = cores[c].declared
  PROVE  SeedInv'
  BY DEF SeedInv, Seeded

\* Seeding is kept by every step.
LEMMA SeedStep == TypeOK /\ SeedInv /\ [Next]_vars => SeedInv'
  <1> SUFFICES ASSUME TypeOK, SeedInv, [Next]_vars PROVE SeedInv'
    OBVIOUS
  <1>1. CASE UNCHANGED vars
    BY <1>1 DEF SeedInv, Seeded, vars
  <1>2. CASE Next
    <2>1. PICK c \in Cores : Step(c)
      BY <1>2 DEF Next
    <2>0. cores \in [Cores -> CoreType] /\ cores[c] \in CoreType /\ Seeded(c)
      BY DEF TypeOK, SeedInv
    <2>2. ASSUME NEW sqlite \in BOOLEAN,
                 \/ quickStart(c, sqlite) \/ createDecisionCore(c, sqlite)
                 \/ fromPolicyPack(c) \/ serveCommand(c)
          PROVE  SeedInv'
      <3>1. PICK kind \in Kinds, declared \in SUBSET Rules, deny \in BOOLEAN, stored \in BOOLEAN :
              Make(c, kind, declared, deny, stored)
        BY <2>2, Made
      <3> DEFINE made == [Off EXCEPT !.pc = "seeding", !.kind = kind, !.sqlite = stored,
                                     !.declared = declared, !.todo = declared, !.deny = deny]
      <3>2. /\ made.pc = "seeding" /\ made.declared = declared /\ made.todo = declared
            /\ cores' = [cores EXCEPT ![c] = made] /\ table' = table
        BY <3>1 DEF Make, Off
      <3> HIDE DEF made
      <3> QED
        BY <2>0, <3>2, Untouched
    <2>3. CASE SeedRule(c)
      <3>1. PICK rule \in cores[c].todo :
              /\ cores' = [cores EXCEPT ![c].todo = @ \ {rule}]
              /\ table' = IF cores[c].sqlite THEN table \cup {rule} ELSE table
        BY <2>3 DEF SeedRule
      <3> DEFINE core == [cores[c] EXCEPT !.todo = @ \ {rule}]
      <3>2. /\ core.pc = "seeding" /\ core.sqlite = cores[c].sqlite
            /\ core.declared = cores[c].declared /\ core.todo = cores[c].todo \ {rule}
        BY <2>0, <2>3 DEF CoreType, SeedRule
      <3>3. cores' = [cores EXCEPT ![c] = core]
        BY <3>1
      <3> HIDE DEF core
      <3>4. core.sqlite => core.declared \ core.todo \subseteq table'
        BY <2>0, <3>1, <3>2 DEF Seeded
      <3> QED
        BY <2>0, <3>1, <3>2, <3>3, <3>4, Untouched
    <2>4. CASE HandOut(c)
      <3> DEFINE core == [cores[c] EXCEPT !.pc = "up"]
      <3>1. /\ core.sqlite = cores[c].sqlite /\ core.declared = cores[c].declared
            /\ core.todo = {} /\ cores[c].todo = {}
            /\ cores' = [cores EXCEPT ![c] = core] /\ table' = table
        BY <2>0, <2>4 DEF CoreType, HandOut
      <3> HIDE DEF core
      <3> QED
        BY <2>0, <3>1, Untouched DEF Seeded
    <2>5. CASE Stop(c)
      <3>1. Off.pc = "off" /\ Off.sqlite = FALSE
        BY DEF Off
      <3> QED
        BY <2>0, <2>5, <3>1, Untouched DEF Stop
    <2>6. ASSUME NEW id \in Ids, NEW ctx \in Contexts, Evaluate(c, id, ctx)
          PROVE  SeedInv'
      <3>1. PICK shown : cores' = [cores EXCEPT ![c].judged[id] = shown] /\ table' = table
        BY <2>6 DEF Evaluate
      <3> DEFINE core == [cores[c] EXCEPT !.judged[id] = shown]
      <3>2. /\ core.pc = cores[c].pc /\ core.todo = cores[c].todo
            /\ core.sqlite = cores[c].sqlite /\ core.declared = cores[c].declared
        BY <2>0 DEF CoreType
      <3>3. cores' = [cores EXCEPT ![c] = core]
        BY <3>1
      <3> HIDE DEF core
      <3> QED
        BY <2>0, <3>1, <3>2, <3>3, ApiStep
    <2>7. ASSUME NEW id \in Ids, Conclude(c, id)
          PROVE  SeedInv'
      <3>0. PICK outcome : Returns(c, id, outcome)
        BY <2>7 DEF Conclude
      <3> DEFINE cache == Cached(c, id, outcome)
                 mem == MemAfter(c, id, outcome)
      <3>1. /\ cores' = [cores EXCEPT ![c].judged[id] = "none", ![c].cache = cache, ![c].mem = mem]
            /\ table' = table
        BY <3>0 DEF Returns
      <3> HIDE DEF cache, mem
      <3> DEFINE core == [cores[c] EXCEPT !.judged[id] = "none", !.cache = cache, !.mem = mem]
      <3>2. /\ core.pc = cores[c].pc /\ core.todo = cores[c].todo
            /\ core.sqlite = cores[c].sqlite /\ core.declared = cores[c].declared
        BY <2>0 DEF CoreType
      <3>3. cores' = [cores EXCEPT ![c] = core]
        BY <3>1
      <3> HIDE DEF core
      <3> QED
        BY <2>0, <3>1, <3>2, <3>3, ApiStep
    <2>8. ASSUME NEW id \in Ids, LogRefuses(c, id)
          PROVE  SeedInv'
      <3> DEFINE core == [cores[c] EXCEPT !.judged[id] = "none"]
      <3>1. /\ core.pc = cores[c].pc /\ core.todo = cores[c].todo
            /\ core.sqlite = cores[c].sqlite /\ core.declared = cores[c].declared
        BY <2>0 DEF CoreType
      <3>2. cores' = [cores EXCEPT ![c] = core] /\ table' = table
        BY <2>8 DEF LogRefuses
      <3> HIDE DEF core
      <3> QED
        BY <2>0, <3>1, <3>2, ApiStep
    <2> QED
      BY <2>1, <2>2, <2>3, <2>4, <2>5, <2>6, <2>7, <2>8, StoragesAssumption DEF Step
  <1> QED
    BY <1>1, <1>2

\* A core never allows what it was made to deny, whatever else is in the shared table, and whoever
\* crashed while putting it there.
THEOREM MadeToDeny == Spec => []DeniedByItsPack
  <1>1. Init => TypeOK /\ SeedInv
    <2>1. Init => TypeOK
      BY OffType DEF Init, TypeOK
    <2>2. Init => SeedInv
      BY DEF Init, SeedInv, Seeded, Off
    <2> QED
      BY <2>1, <2>2
  <1>2. TypeOK /\ SeedInv /\ [Next]_vars => (TypeOK /\ SeedInv)'
    BY TypeStep, SeedStep
  <1> QED
    BY <1>1, <1>2, StoredDenies, PTL DEF Spec

-----------------------------------------------------------------------------
\* The log of a core, when SQLite holds these records, and that it has for each cached result a
\* record that explains the same.
Held(core, stored) == IF core.sqlite THEN stored ELSE core.mem

BearsOut(core, stored) ==
  \A id \in Ids :
    core.cache[id] # "none" =>
      \E k \in DOMAIN Held(core, stored)[id] :
        ExplainedByRecord(Held(core, stored)[id][k]) = verdictToExplainVerdict(core.cache[id])

BearsInv == \A c \in Cores : BearsOut(cores[c], log)

\* Nothing of a log is lost or changed.
Keeps(old, new) ==
  \A i \in Ids : \A k \in DOMAIN old[i] : k \in DOMAIN new[i] /\ new[i][k] = old[i][k]

\* An only record is the first one, from which explain answers.
LEMMA OnlyRecord == TypeOK /\ BearsInv => LogBearsOutCache
  <1> SUFFICES ASSUME TypeOK, BearsInv, NEW c \in Cores, NEW id \in Ids, cores[c].cache[id] # "none"
               PROVE  /\ \E k \in DOMAIN Log(c)[id] :
                           ExplainedByRecord(Log(c)[id][k]) = ExplainCached(c, id)
                      /\ Len(Log(c)[id]) = 1 => ExplainLogged(c, id) = ExplainCached(c, id)
    BY DEF LogBearsOutCache
  <1>1. Held(cores[c], log) = Log(c)
    BY DEF Held, Log
  <1>2. PICK k \in DOMAIN Log(c)[id] : ExplainedByRecord(Log(c)[id][k]) = ExplainCached(c, id)
    BY <1>1 DEF BearsInv, BearsOut, ExplainCached
  <1>3. Log(c)[id] \in Seq(Statuses)
    BY DEF TypeOK, CoreType, Log
  <1>4. Len(Log(c)[id]) = 1 => k = 1
    BY <1>3
  <1> QED
    BY <1>2, <1>4 DEF ExplainLogged

\* A record explains what the outcome it was written for explains: the two ways agree.
LEMMA SameExplanation ==
  ASSUME NEW outcome \in Outcomes
  PROVE  ExplainedByRecord(verdictToStatus(outcome)) = verdictToExplainVerdict(outcome)
  BY DEF Outcomes, verdictToStatus, ExplainedByRecord, verdictToExplainVerdict

\* A step of a core that loses no record keeps the others' and its own borne out.
LEMMA BorneOut ==
  ASSUME BearsInv, NEW c \in Cores, NEW core, cores \in [Cores -> CoreType],
         cores' = [cores EXCEPT ![c] = core], Keeps(log, log'), BearsOut(core, log')
  PROVE  BearsInv'
  <1>1. ASSUME NEW d \in Cores
        PROVE  BearsOut(cores'[d], log')
    <2>1. CASE d = c
      BY <2>1
    <2>2. CASE d # c
      <3>1. cores'[d] = cores[d] /\ BearsOut(cores[d], log)
        BY <2>2 DEF BearsInv
      <3> SUFFICES ASSUME NEW id \in Ids, cores[d].cache[id] # "none"
                   PROVE  \E k \in DOMAIN Held(cores[d], log')[id] :
                            ExplainedByRecord(Held(cores[d], log')[id][k])
                              = verdictToExplainVerdict(cores[d].cache[id])
        BY <3>1 DEF BearsOut
      <3>2. PICK k \in DOMAIN Held(cores[d], log)[id] :
              ExplainedByRecord(Held(cores[d], log)[id][k])
                = verdictToExplainVerdict(cores[d].cache[id])
        BY <3>1 DEF BearsOut
      <3>3. k \in DOMAIN Held(cores[d], log')[id]
            /\ Held(cores[d], log')[id][k] = Held(cores[d], log)[id][k]
        BY <3>2 DEF Held, Keeps
      <3> QED
        BY <3>2, <3>3
    <2> QED
      BY <2>1, <2>2
  <1> QED
    BY <1>1 DEF BearsInv

\* A step that touches neither the cache of the core nor its records.
LEMMA CacheKept ==
  ASSUME BearsInv, NEW c \in Cores, NEW core, cores \in [Cores -> CoreType],
         cores' = [cores EXCEPT ![c] = core], log' = log,
         core.cache = cores[c].cache, core.mem = cores[c].mem, core.sqlite = cores[c].sqlite
  PROVE  BearsInv'
  <1>1. Held(core, log') = Held(cores[c], log) /\ Keeps(log, log')
    BY DEF Held, Keeps
  <1>2. BearsOut(core, log')
    BY <1>1 DEF BearsInv, BearsOut
  <1> QED
    BY <1>1, <1>2, BorneOut

\* The end of a call, which fills the cache: the record is written in the same breath.
LEMMA ConcludeBears ==
  ASSUME TypeOK, BearsInv, NEW c \in Cores, NEW id \in Ids, Conclude(c, id)
  PROVE  BearsInv'
  <1>1. /\ cores[c] \in CoreType /\ cores[c].judged[id] \in VerdictResults
        /\ cores \in [Cores -> CoreType] /\ log \in [Ids -> Seq(Statuses)]
        /\ cores[c].mem \in [Ids -> Seq(Statuses)]
    BY DEF TypeOK, CoreType, Conclude
  <1>2. PICK outcome \in OutcomesOf(cores[c].kind, cores[c].judged[id]) :
          Returns(c, id, outcome)
    BY DEF Conclude
  <1> DEFINE mem == MemAfter(c, id, outcome)
             judged == [cores[c].judged EXCEPT ![id] = "none"]
             ended == [cores[c] EXCEPT !.judged = judged, !.cache = Cached(c, id, outcome), !.mem = mem]
  <1>3. outcome \in Outcomes
        /\ ExplainedByRecord(verdictToStatus(outcome)) = verdictToExplainVerdict(outcome)
    BY <1>1, OutcomeType, SameExplanation
  <1>4. cores' = [cores EXCEPT ![c] = ended]
    BY <1>1, <1>2 DEF Returns
  <1>5. ASSUME NEW records \in [Ids -> Seq(Statuses)]
        PROVE  /\ Keeps(records, Appended(records, id, outcome))
               /\ \E k \in DOMAIN Appended(records, id, outcome)[id] :
                    Appended(records, id, outcome)[id][k] = verdictToStatus(outcome)
    BY <1>1, <1>3, AppendedType DEF Keeps
  <1>6. \A i \in Ids : \/ Cached(c, id, outcome)[i] = cores[c].cache[i]
                       \/ i = id /\ Cached(c, id, outcome)[i] = outcome
    BY <1>1 DEF Cached, CoreType
  <1>7. ended.cache = Cached(c, id, outcome) /\ ended.mem = mem /\ ended.sqlite = cores[c].sqlite
    BY <1>1 DEF CoreType
  <1> HIDE DEF ended
  <1>8. Keeps(log, log)
    BY DEF Keeps
  <1>9. /\ Keeps(log, log') /\ Keeps(Held(cores[c], log), Held(ended, log'))
        /\ \E k \in DOMAIN Held(ended, log')[id] :
             Held(ended, log')[id][k] = verdictToStatus(outcome)
    <2>1. CASE cores[c].sqlite
      BY <1>1, <1>2, <1>5, <1>7, <2>1 DEF Held, MemAfter, Returns
    <2>2. CASE ~cores[c].sqlite
      BY <1>1, <1>2, <1>5, <1>7, <1>8, <2>2 DEF Held, MemAfter, Returns
    <2> QED
      BY <2>1, <2>2
  <1> HIDE DEF mem, judged
  <1>10. BearsOut(ended, log')
    <2> SUFFICES ASSUME NEW i \in Ids, ended.cache[i] # "none"
                 PROVE  \E k \in DOMAIN Held(ended, log')[i] :
                          ExplainedByRecord(Held(ended, log')[i][k])
                            = verdictToExplainVerdict(ended.cache[i])
      BY DEF BearsOut
    <2>1. CASE i = id /\ ended.cache[i] = outcome
      BY <1>3, <1>9, <2>1
    <2>2. CASE ended.cache[i] = cores[c].cache[i]
      <3>1. PICK k \in DOMAIN Held(cores[c], log)[i] :
              ExplainedByRecord(Held(cores[c], log)[i][k]) = verdictToExplainVerdict(cores[c].cache[i])
        BY <2>2 DEF BearsInv, BearsOut
      <3>2. k \in DOMAIN Held(ended, log')[i] /\ Held(ended, log')[i][k] = Held(cores[c], log)[i][k]
        BY <1>9, <3>1 DEF Keeps
      <3> QED
        BY <2>2, <3>1, <3>2
    <2> QED
      BY <1>6, <1>7, <2>1, <2>2
  <1> QED
    BY <1>1, <1>4, <1>9, <1>10, BorneOut

LEMMA BearsStep == TypeOK /\ BearsInv /\ [Next]_vars => BearsInv'
  <1> SUFFICES ASSUME TypeOK, BearsInv, [Next]_vars PROVE BearsInv'
    OBVIOUS
  <1>1. CASE UNCHANGED vars
    BY <1>1 DEF BearsInv, BearsOut, Held, vars
  <1>2. CASE Next
    <2>1. PICK c \in Cores : Step(c)
      BY <1>2 DEF Next
    <2>0. cores \in [Cores -> CoreType] /\ cores[c] \in CoreType
      BY DEF TypeOK
    <2>2. ASSUME NEW sqlite \in BOOLEAN,
                 \/ quickStart(c, sqlite) \/ createDecisionCore(c, sqlite)
                 \/ fromPolicyPack(c) \/ serveCommand(c)
          PROVE  BearsInv'
      <3>1. PICK kind \in Kinds, declared \in SUBSET Rules, deny \in BOOLEAN, stored \in BOOLEAN :
              Make(c, kind, declared, deny, stored)
        BY <2>2, Made
      <3> DEFINE made == [Off EXCEPT !.pc = "seeding", !.kind = kind, !.sqlite = stored,
                                     !.declared = declared, !.todo = declared, !.deny = deny]
      <3>2. \A id \in Ids : made.cache[id] = "none"
        BY DEF Off
      <3>3. cores' = [cores EXCEPT ![c] = made] /\ log' = log
        BY <3>1 DEF Make
      <3> HIDE DEF made
      <3>4. BearsOut(made, log') /\ Keeps(log, log')
        BY <3>2, <3>3 DEF BearsOut, Keeps
      <3> QED
        BY <2>0, <3>3, <3>4, BorneOut
    <2>3. CASE SeedRule(c)
      <3>1. PICK rule \in cores[c].todo : cores' = [cores EXCEPT ![c].todo = @ \ {rule}] /\ log' = log
        BY <2>3 DEF SeedRule
      <3> DEFINE core == [cores[c] EXCEPT !.todo = @ \ {rule}]
      <3>2. core.cache = cores[c].cache /\ core.mem = cores[c].mem /\ core.sqlite = cores[c].sqlite
        BY <2>0 DEF CoreType
      <3>3. cores' = [cores EXCEPT ![c] = core]
        BY <3>1
      <3> HIDE DEF core
      <3> QED
        BY <2>0, <3>1, <3>2, <3>3, CacheKept
    <2>4. CASE HandOut(c)
      <3> DEFINE core == [cores[c] EXCEPT !.pc = "up"]
      <3>1. core.cache = cores[c].cache /\ core.mem = cores[c].mem /\ core.sqlite = cores[c].sqlite
        BY <2>0 DEF CoreType
      <3>2. cores' = [cores EXCEPT ![c] = core] /\ log' = log
        BY <2>4 DEF HandOut
      <3> HIDE DEF core
      <3> QED
        BY <2>0, <3>1, <3>2, CacheKept
    <2>5. CASE Stop(c)
      <3>1. BearsOut(Off, log') /\ Keeps(log, log')
        BY <2>5 DEF BearsOut, Off, Keeps, Stop
      <3> QED
        BY <2>0, <2>5, <3>1, BorneOut DEF Stop
    <2>6. ASSUME NEW id \in Ids, NEW ctx \in Contexts, Evaluate(c, id, ctx)
          PROVE  BearsInv'
      <3>1. PICK shown : cores' = [cores EXCEPT ![c].judged[id] = shown] /\ log' = log
        BY <2>6 DEF Evaluate
      <3> DEFINE core == [cores[c] EXCEPT !.judged[id] = shown]
      <3>2. core.cache = cores[c].cache /\ core.mem = cores[c].mem /\ core.sqlite = cores[c].sqlite
        BY <2>0 DEF CoreType
      <3>3. cores' = [cores EXCEPT ![c] = core]
        BY <3>1
      <3> HIDE DEF core
      <3> QED
        BY <2>0, <3>1, <3>2, <3>3, CacheKept
    <2>7. ASSUME NEW id \in Ids, Conclude(c, id)
          PROVE  BearsInv'
      BY <2>7, ConcludeBears
    <2>8. ASSUME NEW id \in Ids, LogRefuses(c, id)
          PROVE  BearsInv'
      <3> DEFINE core == [cores[c] EXCEPT !.judged[id] = "none"]
      <3>1. core.cache = cores[c].cache /\ core.mem = cores[c].mem /\ core.sqlite = cores[c].sqlite
        BY <2>0 DEF CoreType
      <3>2. cores' = [cores EXCEPT ![c] = core] /\ log' = log
        BY <2>8 DEF LogRefuses
      <3> HIDE DEF core
      <3> QED
        BY <2>0, <3>1, <3>2, CacheKept
    <2> QED
      BY <2>1, <2>2, <2>3, <2>4, <2>5, <2>6, <2>7, <2>8, StoragesAssumption DEF Step
  <1> QED
    BY <1>1, <1>2

\* Whatever cores share the file, and however they are stopped and made again, none explains from
\* its cache what the log it would leave behind does not explain too, and first if it is asked of an
\* id that was used once.
THEOREM CacheIsBorneOut == Spec => []LogBearsOutCache
  <1>1. Init => TypeOK /\ BearsInv
    <2>1. Init => TypeOK
      BY OffType DEF Init, TypeOK
    <2>2. Init => BearsInv
      BY DEF Init, BearsInv, BearsOut, Off
    <2> QED
      BY <2>1, <2>2
  <1>2. TypeOK /\ BearsInv /\ [Next]_vars => (TypeOK /\ BearsInv)'
    BY TypeStep, BearsStep
  <1> QED
    BY <1>1, <1>2, OnlyRecord, PTL DEF Spec

-----------------------------------------------------------------------------
\* An optional value is none or one.
LEMMA OptionalOne ==
  ASSUME NEW S
  PROVE  /\ {} \in Optional(S)
         /\ \A x \in S : {x} \in Optional(S)
         /\ \A o \in Optional(S) : o = {} \/ \E x \in S : o = {x}
  BY DEF Optional

LEMMA NoConfigType == NoConfig \in ConfigType
<1>1. TRUE \in BOOLEAN /\ FALSE \in BOOLEAN
  OBVIOUS
<1> QED BY <1>1, OptionalOne DEF NoConfig, ConfigType

\* What loadCliConfig() returns is a configuration, if it does not throw.
LEMMA LoadedType ==
  ASSUME NEW file \in ConfigType \cup {Missing, Broken}, NEW auto
  PROVE  loadCliConfig(file, auto) \in ConfigType \cup {Broken}
<1> DEFINE found == [NoConfig EXCEPT !.pack = {"auto"}, !.deny = {TRUE}]
<1>1. {"auto"} \in Optional(Places) /\ {TRUE} \in Optional(BOOLEAN)
  BY OptionalOne DEF Places
<1>2. found \in ConfigType
  BY <1>1, NoConfigType DEF ConfigType
<1> HIDE DEF found
<1>3. /\ loadCliConfig(file, auto) \in {file, found, NoConfig}
      /\ file = Missing => loadCliConfig(file, auto) \in {found, NoConfig}
  BY DEF loadCliConfig, found
<1> QED BY <1>2, <1>3, NoConfigType

\* Merging keeps the types, and takes the mode of the caller where there is one.
LEMMA MergedType ==
  ASSUME NEW options \in ConfigType, NEW config \in ConfigType, NEW auto
  PROVE  /\ Merged(options, config, auto) \in ConfigType
         /\ Merged(options, config, auto).mode = OrElse(options.mode, config.mode)
<1>1. {"auto"} \in Optional(Places)
  BY OptionalOne DEF Places
<1>2. /\ OrElse(options.pack, config.pack) \in Optional(Places)
      /\ OrElse(options.deny, config.deny) \in Optional(BOOLEAN)
      /\ OrElse(options.mode, config.mode) \in Optional(EnforcementModes)
  BY DEF OrElse, ConfigType
<1>3. /\ (options.sqlite \/ config.sqlite) \in BOOLEAN
      /\ (options.path \/ config.path) \in BOOLEAN
      /\ (options.registry \/ config.registry) \in BOOLEAN
      /\ TRUE \in BOOLEAN
  OBVIOUS
<1> QED BY <1>1, <1>2, <1>3 DEF Merged, ConfigType

\* A call that has failed keeps nothing.
Failed == [Fresh EXCEPT !.pc = "failed"]

LEMMA FreshType == Fresh \in CallType /\ Failed \in CallType
<1>1. /\ {} \in Optional(Requests) /\ {} \in Optional(Tools) /\ 0 \in 0 .. MaxEdits
      /\ TRUE \in BOOLEAN /\ FALSE \in BOOLEAN
  BY OptionalOne, ObserveAssumption
<1>2. Fresh \in CallType
  BY <1>1, NoConfigType DEF Fresh, CallType, Phases, VerdictResults
<1> QED BY <1>2 DEF Failed, CallType, Phases

-----------------------------------------------------------------------------
\* The file in the working directory is there and enforces.
Enforcing == configs["default"] \notin {Missing, Broken} /\ Enforces(configs["default"])

\* What the enforce command said last was said of the present or of an earlier edit; if of the present
\* one then the file enforces, as does what the command is about to write.
PromoterOK ==
  /\ \A e \in promoter.said : e <= edits
  /\ promoter.said = {edits} => Enforcing
  /\ \A text \in promoter.text : Enforces(text)

\* A call that started under the promise and since when nobody edited a file has read no mode that
\* observes, and so answers what it found.
CallOK(c) ==
  /\ calls[c].stamp <= edits
  /\ calls[c].pc \in {"started", "loaded"} => calls[c].request # {}
  /\ calls[c].pc \in {"judged", "answered"} => calls[c].tool # {}
  /\ calls[c].promised /\ calls[c].stamp = edits /\ ~calls[c].named =>
       /\ promoter.said = {edits} /\ calls[c].settings.mode # {"observe"}
       /\ calls[c].pc \in {"judged", "answered"} => calls[c].answer = calls[c].observed

\* The records of the log that count in a group, and the answered calls that belong there.
Records(t, v) ==
  {i \in DOMAIN decisionLog : /\ parseObserveRecord(decisionLog[i])
                              /\ decisionLog[i].tool = t /\ decisionLog[i].observed = {v}}
Hiding(t, v) == {c \in Calls : Hidden(calls[c]) /\ calls[c].tool = {t} /\ calls[c].observed = v}

Denials == {"deny", "approve_required"}

CountOK ==
  \A t \in Tools, v \in Denials :
    IsFiniteSet(Hiding(t, v)) /\ Cardinality(Hiding(t, v)) <= Cardinality(Records(t, v))

ReportOK == \A r \in report : \A c \in r.due : c \in Calls /\ calls[c].pc = "answered"

-----------------------------------------------------------------------------
\* A step of a call to another well-typed one.
LEMMA CallTypeStep ==
  ASSUME ObserveTypeOK, NEW c \in Calls, NEW call \in CallType, calls' = [calls EXCEPT ![c] = call],
         UNCHANGED <<files, decisionLog, promoter, report, backups, edits>>
  PROVE  ObserveTypeOK'
BY DEF ObserveTypeOK, files

\* What a call may be given to start with.
LEMMA OpenedType ==
  ASSUME ObserveTypeOK, NEW source \in Sources, Opened(source) # Broken
  PROVE  Opened(source) \in ConfigType
<1>1. /\ configs["default"] \in ConfigType \cup {Missing, Broken}
      /\ configs["named"] \in ConfigType \cup {Missing, Broken}
  BY DEF ObserveTypeOK
<1>2. CASE source = "default"
  BY <1>1, <1>2, LoadedType DEF Opened
<1>3. CASE source = "named"
  BY <1>1, <1>3 DEF Opened
<1>4. CASE source = "host"
  BY <1>4, NoConfigType DEF Opened
<1> QED BY <1>2, <1>3, <1>4 DEF Sources

\* A call that starts, when it does not fail at once.
Started(source, request) ==
  [ Fresh EXCEPT !.pc = "started", !.named = source = "named", !.request = {request},
      !.settings = [Opened(source) EXCEPT !.sqlite = @ \/ request.flags,
                                          !.path = @ \/ request.flags],
      !.promised = promoter.said = {edits}, !.stamp = edits ]

LEMMA StartedType ==
  ASSUME ObserveTypeOK, NEW source \in Sources, NEW request \in Requests, Opened(source) # Broken
  PROVE  /\ Started(source, request) \in CallType
         /\ Started(source, request).pc = "started" /\ Started(source, request).request # {}
         /\ Started(source, request).named = (source = "named") /\ Started(source, request).stamp = edits
         /\ Started(source, request).promised = (promoter.said = {edits})
         /\ Started(source, request).settings.mode = Opened(source).mode
<1> DEFINE settings == [Opened(source) EXCEPT !.sqlite = @ \/ request.flags, !.path = @ \/ request.flags]
<1>1. settings \in ConfigType /\ settings.mode = Opened(source).mode
  <2>1. /\ (Opened(source).sqlite \/ request.flags) \in BOOLEAN
        /\ (Opened(source).path \/ request.flags) \in BOOLEAN
    OBVIOUS
  <2> QED BY <2>1, OpenedType DEF ConfigType
<1> HIDE DEF settings
<1> DEFINE named == source = "named"
           promised == promoter.said = {edits}
<1>2. named \in BOOLEAN /\ promised \in BOOLEAN
  OBVIOUS
<1>3. {request} \in Optional(Requests) /\ edits \in 0 .. MaxEdits
  BY OptionalOne DEF ObserveTypeOK
<1>4. Started(source, request) =
        [ Fresh EXCEPT !.pc = "started", !.named = named, !.request = {request},
            !.settings = settings, !.promised = promised, !.stamp = edits ]
  BY DEF Started, settings
<1>5. named = (source = "named") /\ promised = (promoter.said = {edits})
  OBVIOUS
<1> HIDE DEF named, promised
<1>6. Fresh \in CallType
  BY FreshType
<1>7. /\ Started(source, request) \in CallType
      /\ Started(source, request).pc = "started" /\ Started(source, request).request = {request}
      /\ Started(source, request).named = named /\ Started(source, request).stamp = edits
      /\ Started(source, request).promised = promised
      /\ Started(source, request).settings = settings
  BY <1>1, <1>2, <1>3, <1>4, <1>6 DEF CallType, Phases
<1> QED BY <1>1, <1>5, <1>7

LEMMA InvokeIs ==
  ASSUME NEW c \in Calls, NEW source \in Sources, NEW request \in Requests, Invoke(c, source, request)
  PROVE  /\ calls[c].pc = "idle"
         /\ UNCHANGED <<files, decisionLog, promoter, report, backups, edits>>
         /\ \/ calls' = [calls EXCEPT ![c] = Failed]
            \/ Opened(source) # Broken /\ calls' = [calls EXCEPT ![c] = Started(source, request)]
BY DEF Invoke, Fails, Failed, Started

\* A call that has loaded its configuration.
LoadedFrom(call) ==
  LET merged == Merged(call.settings, loadCliConfig(configs["default"], packs["auto"]), packs["auto"]) IN
  [call EXCEPT !.pc = "loaded", !.settings = merged, !.pack = {packs[p] : p \in merged.pack}]

LEMMA LoadIs ==
  ASSUME ObserveTypeOK, NEW c \in Calls, Load(c)
  PROVE  /\ calls[c].pc = "started"
         /\ UNCHANGED <<files, decisionLog, promoter, report, backups, edits>>
         /\ \/ calls' = [calls EXCEPT ![c] = Failed]
            \/ /\ calls' = [calls EXCEPT ![c] = LoadedFrom(calls[c])] /\ LoadedFrom(calls[c]) \in CallType
               /\ loadCliConfig(configs["default"], packs["auto"]) \in ConfigType
               /\ LoadedFrom(calls[c]).settings.mode =
                    OrElse(calls[c].settings.mode, loadCliConfig(configs["default"], packs["auto"]).mode)
               /\ \A f \in {"named", "request", "tool", "observed", "answer", "promised", "stamp"} :
                    LoadedFrom(calls[c])[f] = calls[c][f]
               /\ LoadedFrom(calls[c]).pc = "loaded"
<1> DEFINE config == loadCliConfig(configs["default"], packs["auto"])
           merged == Merged(calls[c].settings, config, packs["auto"])
           Unreadable(p) == packs[p] \in {Missing, Broken}
<1>1. calls[c] \in CallType /\ calls \in [Calls -> CallType] /\ calls[c].settings \in ConfigType
      /\ packs \in [Places -> PackEdits \cup {FirstPack, Missing, Broken}]
  BY DEF ObserveTypeOK, CallType
<1>2. config \in ConfigType \cup {Broken}
  BY LoadedType DEF ObserveTypeOK
<1>3. /\ calls[c].pc = "started"
      /\ UNCHANGED <<files, decisionLog, promoter, report, backups, edits>>
      /\ \/ calls' = [calls EXCEPT ![c] = Failed]
         \/ /\ config # Broken /\ \A p \in merged.pack : ~Unreadable(p)
            /\ calls' = [calls EXCEPT ![c].pc = "loaded", ![c].settings = merged,
                                      ![c].pack = {packs[p] : p \in merged.pack}]
  BY DEF Load, Fails, Failed
<1>4. ASSUME config # Broken, \A p \in merged.pack : ~Unreadable(p),
             calls' = [calls EXCEPT ![c].pc = "loaded", ![c].settings = merged,
                                    ![c].pack = {packs[p] : p \in merged.pack}]
      PROVE  /\ calls' = [calls EXCEPT ![c] = LoadedFrom(calls[c])] /\ LoadedFrom(calls[c]) \in CallType
             /\ config \in ConfigType
             /\ LoadedFrom(calls[c]).settings.mode = OrElse(calls[c].settings.mode, config.mode)
             /\ \A f \in {"named", "request", "tool", "observed", "answer", "promised", "stamp"} :
                  LoadedFrom(calls[c])[f] = calls[c][f]
             /\ LoadedFrom(calls[c]).pc = "loaded"
  <2>1. config \in ConfigType
    BY <1>2, <1>4
  <2>2. merged \in ConfigType /\ merged.mode = OrElse(calls[c].settings.mode, config.mode)
    BY <1>1, <2>1, MergedType
  <2> DEFINE pack == {packs[p] : p \in merged.pack}
  <2>3. pack \in SUBSET (PackEdits \cup {FirstPack})
    <3>1. merged.pack \subseteq Places
      BY <2>2 DEF ConfigType, Optional
    <3> QED BY <1>1, <1>4, <3>1
  <2> HIDE DEF merged, config
  <2>4. LoadedFrom(calls[c]) = [calls[c] EXCEPT !.pc = "loaded", !.settings = merged, !.pack = pack]
    BY DEF LoadedFrom, merged, config
  <2>5. calls' = [calls EXCEPT ![c] = LoadedFrom(calls[c])]
    BY <1>1, <1>4, <2>4
  <2> HIDE DEF pack
  <2>6. /\ LoadedFrom(calls[c]) \in CallType /\ LoadedFrom(calls[c]).settings = merged
        /\ LoadedFrom(calls[c]).pc = "loaded"
    BY <1>1, <2>2, <2>3, <2>4 DEF CallType, Phases
  <2>7. \A f \in {"named", "request", "tool", "observed", "answer", "promised", "stamp"} :
          LoadedFrom(calls[c])[f] = calls[c][f]
    BY <1>1, <2>4 DEF CallType
  <2> QED BY <2>1, <2>2, <2>5, <2>6, <2>7
<1> QED BY <1>3, <1>4

\* A call that has its verdict.
LEMMA JudgeIs ==
  ASSUME ObserveTypeOK, NEW c \in Calls, CallOK(c), Judge(c)
  PROVE  /\ calls[c].pc = "loaded"
         /\ UNCHANGED <<files, decisionLog, promoter, report, backups, edits>>
         /\ \E judged \in CallType :
              /\ calls' = [calls EXCEPT ![c] = judged]
              /\ judged.pc = "judged" /\ judged.tool # {}
              /\ judged.answer = Shown(calls[c].settings.mode, judged.observed)
              /\ judged.settings.mode = calls[c].settings.mode
              /\ \A f \in {"named", "promised", "stamp"} : judged[f] = calls[c][f]
<1>1. calls[c] \in CallType /\ calls \in [Calls -> CallType] /\ calls[c].settings \in ConfigType
  BY DEF ObserveTypeOK, CallType
<1>2. calls[c].request \in Optional(Requests) /\ calls[c].request # {}
  BY <1>1 DEF CallType, CallOK, Judge
<1>3. PICK request \in Requests : calls[c].request = {request}
  BY <1>2, OptionalOne
<1> DEFINE verdict == GuardVerdict(calls[c])
           shown == Shown(calls[c].settings.mode, verdict)
           settings == [calls[c].settings EXCEPT !.pack = {}, !.deny = {}, !.registry = FALSE]
           tool == {r.action : r \in calls[c].request}
           judged == [calls[c] EXCEPT !.pc = "judged", !.pack = {}, !.request = {}, !.tool = tool,
                                !.settings = settings, !.observed = verdict, !.answer = shown]
<1>5. calls' = [calls EXCEPT ![c] = judged]
  BY DEF Judge
<1>6. verdict \in VerdictResults /\ shown \in VerdictResults
  BY VerdictType DEF GuardVerdict, Shown, VerdictResults
<1>7. settings \in ConfigType /\ settings.mode = calls[c].settings.mode
  <2>1. {} \in Optional(Places) /\ {} \in Optional(BOOLEAN) /\ FALSE \in BOOLEAN
    BY OptionalOne
  <2> QED BY <1>1, <2>1 DEF ConfigType
<1>8. /\ tool \in Optional(Tools) /\ tool # {}
      /\ {} \in Optional(Requests) /\ {} \in SUBSET (PackEdits \cup {FirstPack})
  <2>1. tool = {request.action} /\ request.action \in Tools
    BY <1>3 DEF Tools
  <2> QED BY <2>1, OptionalOne
<1>9. shown = Shown(calls[c].settings.mode, verdict)
  OBVIOUS
<1> HIDE DEF settings, shown, verdict, tool
<1>10. /\ judged \in CallType /\ judged.pc = "judged" /\ judged.tool = tool
       /\ judged.settings = settings /\ judged.observed = verdict /\ judged.answer = shown
       /\ \A f \in {"named", "promised", "stamp"} : judged[f] = calls[c][f]
  BY <1>1, <1>6, <1>7, <1>8 DEF CallType, Phases
<1> HIDE DEF judged
<1>11. /\ calls[c].pc = "loaded"
       /\ UNCHANGED <<files, decisionLog, promoter, report, backups, edits>>
  BY DEF Judge
<1>12. judged.answer = Shown(calls[c].settings.mode, judged.observed) /\ judged.tool # {}
       /\ judged.settings.mode = calls[c].settings.mode
  BY <1>7, <1>8, <1>9, <1>10
<1> QED BY <1>5, <1>10, <1>11, <1>12

\* The record of a judged call is one of the log's, and of the group of its tool and its verdict.
LEMMA RecordOfType ==
  ASSUME ObserveTypeOK, NEW c \in Calls, CallOK(c), calls[c].pc = "judged"
  PROVE  /\ RecordOf(calls[c]) \in RecordType(Tools)
         /\ RecordOf(calls[c]).observed = {calls[c].observed}
         /\ calls[c].tool = {RecordOf(calls[c]).tool}
         /\ RecordOf(calls[c]).mode = {"observe"} <=> calls[c].settings.mode = {"observe"}
<1>1. calls[c].tool \in Optional(Tools) /\ calls[c].tool # {}
  BY DEF ObserveTypeOK, CallType, CallOK
<1>2. PICK t \in Tools : calls[c].tool = {t}
  BY <1>1, OptionalOne
<1>3. (CHOOSE x \in calls[c].tool : TRUE) = t
  BY <1>2
<1>4. StatusOf(calls[c].answer) \in {"generated", "pending", "blocked", "failed"}
      /\ calls[c].observed \in VerdictResults
  BY DEF ObserveTypeOK, CallType, StatusOf, VerdictResults
<1>5. (IF calls[c].settings.mode = {"observe"} THEN {"observe"} ELSE {"enforce"})
        \in SUBSET {"observe", "enforce"}
  OBVIOUS
<1>6. {calls[c].observed} \in SUBSET {"allow", "deny", "approve_required"}
  BY <1>4 DEF VerdictResults
<1>7. RecordOf(calls[c]) = [ tool |-> t, status |-> StatusOf(calls[c].answer),
          observed |-> {calls[c].observed},
          mode |-> IF calls[c].settings.mode = {"observe"} THEN {"observe"} ELSE {"enforce"} ]
  BY <1>3 DEF RecordOf
<1>8. {"enforce"} # {"observe"}
  OBVIOUS
<1> QED BY <1>2, <1>4, <1>5, <1>6, <1>7, <1>8 DEF RecordType

\* The answer of a call: with its record, without one, or not at all.
LEMMA AnswerIs ==
  ASSUME ObserveTypeOK, NEW c \in Calls, Answer(c) \/ AppendFails(c)
  PROVE  LET answered == [calls[c] EXCEPT !.pc = "answered"] IN
         /\ calls[c].pc = "judged" /\ answered \in CallType /\ answered.pc = "answered"
         /\ \A f \in {"named", "request", "settings", "tool", "observed", "answer", "promised", "stamp"} :
              answered[f] = calls[c][f]
         /\ UNCHANGED <<files, promoter, report, backups, edits>>
         /\ \/ calls' = [calls EXCEPT ![c] = Failed] /\ decisionLog' = decisionLog
            \/ /\ ~calls[c].settings.sqlite
               /\ calls' = [calls EXCEPT ![c] = answered] /\ decisionLog' = decisionLog
            \/ /\ calls' = [calls EXCEPT ![c] = answered]
               /\ Len(decisionLog) < MaxLog /\ decisionLog' = Append(decisionLog, RecordOf(calls[c]))
<1>1. calls[c] \in CallType /\ calls \in [Calls -> CallType]
  BY DEF ObserveTypeOK
<1> DEFINE answered == [calls[c] EXCEPT !.pc = "answered"]
<1>2. /\ answered \in CallType /\ answered.pc = "answered"
      /\ \A f \in {"named", "request", "settings", "tool", "observed", "answer", "promised", "stamp"} :
              answered[f] = calls[c][f]
  BY <1>1 DEF CallType, Phases
<1>3. [calls EXCEPT ![c].pc = "answered"] = [calls EXCEPT ![c] = answered]
  BY <1>1
<1> HIDE DEF answered
<1>4. /\ calls[c].pc = "judged" /\ UNCHANGED <<files, promoter, report, backups, edits>>
      /\ \/ calls' = [calls EXCEPT ![c] = Failed] /\ decisionLog' = decisionLog
         \/ /\ ~calls[c].settings.sqlite
            /\ calls' = [calls EXCEPT ![c].pc = "answered"] /\ decisionLog' = decisionLog
         \/ /\ calls' = [calls EXCEPT ![c].pc = "answered"]
            /\ Len(decisionLog) < MaxLog /\ decisionLog' = Append(decisionLog, RecordOf(calls[c]))
  BY DEF Answer, AppendFails, Fails, Failed
<1> QED BY <1>2, <1>3, <1>4 DEF answered

-----------------------------------------------------------------------------
\* Types.
LEMMA ObserveInitType == ObserveInit => ObserveTypeOK
<1> SUFFICES ASSUME ObserveInit PROVE ObserveTypeOK
  OBVIOUS
<1>1. configs \in [{"default", "named"} -> ConfigType \cup {Missing, Broken}]
  BY ObserveAssumption DEF ObserveInit
<1>2. packs \in [Places -> PackEdits \cup {FirstPack, Missing, Broken}]
  BY DEF ObserveInit, Places
<1>3. decisionLog \in Seq(RecordType(Tools)) /\ Len(decisionLog) <= MaxLog
  BY ObserveAssumption DEF ObserveInit
<1>4. calls \in [Calls -> CallType]
  BY FreshType DEF ObserveInit
<1>5. {} \in Optional(0 .. MaxEdits)
  BY OptionalOne
<1>6. promoter \in [pc : {"idle", "asking", "writing"}, text : SUBSET ConfigType,
                    said : Optional(0 .. MaxEdits)]
  BY <1>5 DEF ObserveInit
<1>7. Cardinality(report) <= 1 /\ backups \subseteq ConfigType /\ edits \in 0 .. MaxEdits
  BY FS_EmptySet, ObserveAssumption DEF ObserveInit
<1> QED BY <1>1, <1>2, <1>3, <1>4, <1>6, <1>7 DEF ObserveTypeOK, ObserveInit

LEMMA EditType == ObserveTypeOK /\ Edit => ObserveTypeOK'
<1> SUFFICES ASSUME ObserveTypeOK, Edit PROVE ObserveTypeOK'
  OBVIOUS
<1>0. edits < MaxEdits => edits + 1 \in 0 .. MaxEdits
  BY ObserveAssumption DEF ObserveTypeOK
<1>1. ASSUME NEW file \in {"default", "named"}, NEW content \in ConfigEdits \cup {Missing, Broken},
             EditConfig(file, content)
      PROVE  ObserveTypeOK'
  <2>1. content \in ConfigType \cup {Missing, Broken}
    BY ObserveAssumption
  <2> QED BY <1>0, <1>1, <2>1 DEF ObserveTypeOK, EditConfig
<1>2. ASSUME NEW content \in PackEdits \cup {Missing, Broken}, EditPack("auto", content)
      PROVE  ObserveTypeOK'
  BY <1>0, <1>2 DEF ObserveTypeOK, EditPack
<1>3. ASSUME NEW content \in RegistryEdits \cup {Missing, Broken}, EditRegistry(content)
      PROVE  ObserveTypeOK'
  BY <1>0, <1>3 DEF ObserveTypeOK, EditRegistry
<1> QED BY <1>1, <1>2, <1>3 DEF Edit

\* What is appended to the log is a record of a judged call or of a core.
LEMMA LogType ==
  ASSUME ObserveTypeOK, NEW record \in RecordType(Tools), Len(decisionLog) < MaxLog
  PROVE  /\ Append(decisionLog, record) \in Seq(RecordType(Tools))
         /\ Len(Append(decisionLog, record)) <= MaxLog
<1>1. decisionLog \in Seq(RecordType(Tools)) /\ Len(decisionLog) \in Nat
  BY DEF ObserveTypeOK
<1> QED BY <1>1, AppendProperties, ObserveAssumption

LEMMA CallStepType ==
  ASSUME ObserveTypeOK, NEW c \in Calls, CallOK(c), CallStep(c)
  PROVE  ObserveTypeOK'
<1>1. ASSUME NEW source \in Sources, NEW request \in Requests, Invoke(c, source, request)
      PROVE  ObserveTypeOK'
  BY <1>1, InvokeIs, StartedType, FreshType, CallTypeStep
<1>2. CASE Load(c)
  BY <1>2, LoadIs, FreshType, CallTypeStep
<1>3. CASE Judge(c)
  BY <1>3, JudgeIs, CallTypeStep
<1>4. CASE Answer(c) \/ AppendFails(c)
  <2> DEFINE answered == [calls[c] EXCEPT !.pc = "answered"]
  <2>1. /\ calls[c].pc = "judged" /\ answered \in CallType
        /\ UNCHANGED <<files, promoter, report, backups, edits>>
        /\ \/ calls' = [calls EXCEPT ![c] = Failed] /\ decisionLog' = decisionLog
           \/ calls' = [calls EXCEPT ![c] = answered] /\ decisionLog' = decisionLog
           \/ /\ calls' = [calls EXCEPT ![c] = answered]
              /\ Len(decisionLog) < MaxLog /\ decisionLog' = Append(decisionLog, RecordOf(calls[c]))
    BY <1>4, AnswerIs
  <2> HIDE DEF answered
  <2>2. calls' \in [Calls -> CallType]
    BY <2>1, FreshType DEF ObserveTypeOK
  <2>3. decisionLog' \in Seq(RecordType(Tools)) /\ Len(decisionLog') <= MaxLog
    BY <2>1, RecordOfType, LogType DEF ObserveTypeOK
  <2> QED BY <2>1, <2>2, <2>3 DEF ObserveTypeOK, files
<1> QED BY <1>1, <1>2, <1>3, <1>4 DEF CallStep

LEMMA HostType ==
  ASSUME ObserveTypeOK, NEW tool \in Tools, HostRecords(tool, "blocked")
  PROVE  ObserveTypeOK'
<1>1. [tool |-> tool, status |-> "blocked", observed |-> {}, mode |-> {}] \in RecordType(Tools)
  BY DEF RecordType
<1> QED BY <1>1, LogType DEF HostRecords, ObserveTypeOK, files

\* The text that the promotion makes is a configuration, and enforces.
LEMMA PromotedType ==
  ASSUME NEW config \in ConfigType, Promoted(config) # Broken
  PROVE  Promoted(config) \in ConfigType /\ Enforces(Promoted(config))
<1>1. {"enforce"} \in Optional(EnforcementModes) /\ {"enforce"} # {"observe"}
  BY OptionalOne DEF EnforcementModes
<1>2. Promoted(config) = [config EXCEPT !.mode = {"enforce"}]
  BY DEF Promoted
<1> QED BY <1>1, <1>2 DEF ConfigType, Enforces

LEMMA CommandType ==
  ASSUME ObserveTypeOK, ObservationsCommand \/ StartEnforce \/ Decline \/ Flip \/ FlipWrite
  PROVE  ObserveTypeOK'
<1>0. /\ {edits} \in Optional(0 .. MaxEdits) /\ configs["default"] \in ConfigType \cup {Missing, Broken}
      /\ promoter \in [pc : {"idle", "asking", "writing"}, text : SUBSET ConfigType,
                       said : Optional(0 .. MaxEdits)]
  BY OptionalOne DEF ObserveTypeOK
<1>1. CASE ObservationsCommand
  <2>1. \E r : report' = {r}
    BY <1>1 DEF ObservationsCommand
  <2>2. Cardinality(report') <= 1
    BY <2>1, FS_Singleton
  <2> QED BY <1>1, <2>2 DEF ObservationsCommand, ObserveTypeOK, files
<1>2. CASE StartEnforce
  BY <1>0, <1>2 DEF StartEnforce, ObserveTypeOK, files
<1>3. CASE Decline
  BY <1>0, <1>3 DEF Decline, ObserveTypeOK, files
<1>4. CASE Flip
  <2>1. ASSUME promoter' = [promoter EXCEPT !.pc = "writing", !.text = {Promoted(configs["default"])}],
               configs["default"] \in ConfigType, Promoted(configs["default"]) # Broken
        PROVE  promoter' \in [pc : {"idle", "asking", "writing"}, text : SUBSET ConfigType,
                              said : Optional(0 .. MaxEdits)]
    BY <1>0, <2>1, PromotedType
  <2>2. promoter' \in [pc : {"idle", "asking", "writing"}, text : SUBSET ConfigType,
                       said : Optional(0 .. MaxEdits)]
    BY <1>0, <1>4, <2>1 DEF Flip
  <2>3. backups' \subseteq ConfigType
    BY <1>0, <1>4 DEF Flip, ObserveTypeOK
  <2> QED BY <1>4, <2>2, <2>3 DEF Flip, ObserveTypeOK, files
<1>5. CASE FlipWrite
  <2>1. PICK text \in promoter.text : configs' = [configs EXCEPT !["default"] = text]
    BY <1>5 DEF FlipWrite
  <2>2. text \in ConfigType
    BY <1>0
  <2> QED BY <1>0, <1>5, <2>1, <2>2 DEF FlipWrite, ObserveTypeOK
<1> QED BY <1>1, <1>2, <1>3, <1>4, <1>5

LEMMA ObserveTypeStep ==
  ASSUME ObserveTypeOK, \A c \in Calls : CallOK(c), [ObserveNext]_observeVars
  PROVE  ObserveTypeOK'
<1>1. CASE UNCHANGED observeVars
  BY <1>1 DEF ObserveTypeOK, observeVars
<1>2. CASE ObserveNext
  BY <1>2, EditType, CallStepType, HostType, CommandType DEF ObserveNext
<1> QED BY <1>1, <1>2

-----------------------------------------------------------------------------
\* The promise.

\* While it holds, the file in the working directory is what a call without --config reads, and it
\* does not observe.
LEMMA EnforcingReads ==
  ASSUME Enforcing, NEW auto
  PROVE  /\ loadCliConfig(configs["default"], auto) = configs["default"]
         /\ loadCliConfig(configs["default"], auto).mode # {"observe"}
BY DEF Enforcing, Enforces, loadCliConfig

\* A step of one call leaves the others as they are.
LEMMA OthersKept ==
  ASSUME ObserveTypeOK, \A x \in Calls : CallOK(x), NEW c \in Calls, NEW call,
         calls' = [calls EXCEPT ![c] = call], UNCHANGED <<promoter, edits>>, CallOK(c)'
  PROVE  \A x \in Calls : CallOK(x)'
<1> SUFFICES ASSUME NEW x \in Calls, x # c PROVE CallOK(x)'
  OBVIOUS
<1>1. calls'[x] = calls[x]
  BY DEF ObserveTypeOK
<1> QED BY <1>1 DEF CallOK

LEMMA FailedOK ==
  ASSUME ObserveTypeOK, NEW c \in Calls, calls' = [calls EXCEPT ![c] = Failed], UNCHANGED <<promoter, edits>>
  PROVE  CallOK(c)'
<1>1. calls'[c] = Failed /\ Failed.pc = "failed" /\ Failed.stamp = 0 /\ Failed.promised = FALSE
  BY DEF ObserveTypeOK, Failed, Fresh
<1>2. edits \in Nat /\ 0 <= edits
  BY DEF ObserveTypeOK
<1> QED BY <1>1, <1>2 DEF CallOK

LEMMA CallStepOK ==
  ASSUME ObserveTypeOK, PromoterOK, \A x \in Calls : CallOK(x), NEW c \in Calls, CallStep(c)
  PROVE  PromoterOK' /\ \A x \in Calls : CallOK(x)'
<1>0. calls \in [Calls -> CallType] /\ CallOK(c) /\ edits \in Nat /\ calls[c] \in CallType
  BY DEF ObserveTypeOK
<1>1. ASSUME NEW call \in CallType, calls' = [calls EXCEPT ![c] = call], UNCHANGED <<files, promoter, edits>>,
             call.stamp <= edits,
             call.pc \in {"started", "loaded"} => call.request # {},
             call.pc \in {"judged", "answered"} => call.tool # {},
             call.promised /\ call.stamp = edits /\ ~call.named =>
               /\ promoter.said = {edits} /\ call.settings.mode # {"observe"}
               /\ call.pc \in {"judged", "answered"} => call.answer = call.observed
      PROVE  PromoterOK' /\ \A x \in Calls : CallOK(x)'
  <2>1. calls'[c] = call
    BY <1>0, <1>1
  <2>2. CallOK(c)'
    BY <1>1, <2>1 DEF CallOK
  <2>3. PromoterOK'
    BY <1>1 DEF PromoterOK, Enforcing, files
  <2> QED BY <1>1, <2>2, <2>3, OthersKept
<1>2. ASSUME calls' = [calls EXCEPT ![c] = Failed], UNCHANGED <<files, promoter, edits>>
      PROVE  PromoterOK' /\ \A x \in Calls : CallOK(x)'
  <2>1. PromoterOK'
    BY <1>2 DEF PromoterOK, Enforcing, files
  <2> QED BY <1>2, <2>1, FailedOK, OthersKept
<1>3. ASSUME NEW source \in Sources, NEW request \in Requests, Invoke(c, source, request)
      PROVE  PromoterOK' /\ \A x \in Calls : CallOK(x)'
  <2>1. CASE calls' = [calls EXCEPT ![c] = Failed]
    BY <1>2, <1>3, <2>1, InvokeIs
  <2>2. CASE Opened(source) # Broken /\ calls' = [calls EXCEPT ![c] = Started(source, request)]
    <3> DEFINE call == Started(source, request)
    <3>1. /\ call \in CallType /\ call.pc = "started" /\ call.request # {}
          /\ call.named = (source = "named") /\ call.stamp = edits
          /\ call.promised = (promoter.said = {edits}) /\ call.settings.mode = Opened(source).mode
      BY <2>2, StartedType
    <3>2. ASSUME promoter.said = {edits}, source # "named" PROVE Opened(source).mode # {"observe"}
      <4>1. Enforcing
        BY <3>2 DEF PromoterOK
      <4>2. CASE source = "default"
        BY <4>1, <4>2, EnforcingReads DEF Opened
      <4>3. CASE source = "host"
        BY <4>3 DEF Opened, NoConfig
      <4> QED BY <3>2, <4>2, <4>3 DEF Sources
    <3> HIDE DEF call
    <3>3. calls' = [calls EXCEPT ![c] = call] /\ UNCHANGED <<files, promoter, edits>>
      BY <1>3, <2>2, InvokeIs DEF call
    <3>4. call.promised /\ ~call.named => promoter.said = {edits} /\ call.settings.mode # {"observe"}
      BY <3>1, <3>2
    <3>5. call.stamp <= edits
      BY <1>0, <3>1
    <3> QED BY <1>1, <3>1, <3>3, <3>4, <3>5
  <2> QED BY <1>3, <2>1, <2>2, InvokeIs
<1>4. CASE Load(c)
  <2>1. CASE calls' = [calls EXCEPT ![c] = Failed]
    BY <1>2, <1>4, <2>1, LoadIs
  <2>2. CASE calls' # [calls EXCEPT ![c] = Failed]
    <3> DEFINE call == LoadedFrom(calls[c])
               config == loadCliConfig(configs["default"], packs["auto"])
    <3>1. /\ calls[c].pc = "started" /\ UNCHANGED <<files, promoter, edits>>
          /\ calls' = [calls EXCEPT ![c] = call] /\ call \in CallType
          /\ call.settings.mode = OrElse(calls[c].settings.mode, config.mode)
          /\ call.named = calls[c].named /\ call.request = calls[c].request
          /\ call.promised = calls[c].promised /\ call.stamp = calls[c].stamp
          /\ call.pc = "loaded"
      BY <1>4, <2>2, LoadIs
    <3> HIDE DEF call
    <3>2. call.promised /\ call.stamp = edits /\ ~call.named =>
            promoter.said = {edits} /\ calls[c].settings.mode # {"observe"}
      BY <1>0, <3>1 DEF CallOK
    <3>3. promoter.said = {edits} => config.mode # {"observe"}
      BY EnforcingReads DEF PromoterOK
    <3> HIDE DEF config
    <3>4. call.stamp <= edits /\ call.request # {}
      BY <1>0, <3>1 DEF CallOK
    <3>5. call.promised /\ call.stamp = edits /\ ~call.named =>
            promoter.said = {edits} /\ call.settings.mode # {"observe"}
      BY <3>1, <3>2, <3>3 DEF OrElse
    <3> QED BY <1>1, <3>1, <3>4, <3>5
  <2> QED BY <2>1, <2>2
<1>5. CASE Judge(c)
  <2>1. PICK call \in CallType :
          /\ calls' = [calls EXCEPT ![c] = call]
          /\ call.pc = "judged" /\ call.tool # {}
          /\ call.answer = Shown(calls[c].settings.mode, call.observed)
          /\ call.settings.mode = calls[c].settings.mode
          /\ call.named = calls[c].named /\ call.promised = calls[c].promised /\ call.stamp = calls[c].stamp
    BY <1>0, <1>5, JudgeIs
  <2>2. UNCHANGED <<files, promoter, edits>> /\ calls[c].pc = "loaded"
    BY <1>0, <1>5, JudgeIs
  <2>3. call.promised /\ call.stamp = edits /\ ~call.named =>
          /\ promoter.said = {edits} /\ call.settings.mode # {"observe"} /\ call.answer = call.observed
    BY <1>0, <2>1 DEF CallOK, Shown
  <2>4. call.stamp <= edits
    BY <1>0, <2>1 DEF CallOK
  <2> QED BY <1>1, <2>1, <2>2, <2>3, <2>4
<1>6. CASE Answer(c) \/ AppendFails(c)
  <2> DEFINE call == [calls[c] EXCEPT !.pc = "answered"]
  <2>1. /\ calls[c].pc = "judged" /\ call \in CallType /\ call.pc = "answered"
        /\ call.named = calls[c].named /\ call.settings = calls[c].settings /\ call.tool = calls[c].tool
        /\ call.observed = calls[c].observed /\ call.answer = calls[c].answer
        /\ call.promised = calls[c].promised /\ call.stamp = calls[c].stamp
        /\ UNCHANGED <<files, promoter, edits>>
        /\ calls' = [calls EXCEPT ![c] = Failed] \/ calls' = [calls EXCEPT ![c] = call]
    BY <1>6, AnswerIs
  <2> HIDE DEF call
  <2>2. /\ call.stamp <= edits /\ call.tool # {}
        /\ call.promised /\ call.stamp = edits /\ ~call.named =>
             /\ promoter.said = {edits} /\ call.settings.mode # {"observe"} /\ call.answer = call.observed
    BY <1>0, <2>1 DEF CallOK
  <2> QED BY <1>1, <1>2, <2>1, <2>2
<1> QED BY <1>3, <1>4, <1>5, <1>6 DEF CallStep

LEMMA EditOK ==
  ASSUME ObserveTypeOK, PromoterOK, \A x \in Calls : CallOK(x), Edit
  PROVE  PromoterOK' /\ \A x \in Calls : CallOK(x)'
<1>1. edits' = edits + 1 /\ UNCHANGED <<promoter, calls>> /\ edits \in Nat
  BY DEF Edit, EditConfig, EditPack, EditRegistry, ObserveTypeOK
<1>2. promoter.said \subseteq Nat /\ \A x \in Calls : calls[x].stamp \in Nat
  BY DEF ObserveTypeOK, Optional, CallType
<1>3. promoter.said # {edits + 1} /\ \A e \in promoter.said : e <= edits + 1
  BY <1>1, <1>2 DEF PromoterOK
<1>4. PromoterOK'
  BY <1>1, <1>3 DEF PromoterOK
<1>5. ASSUME NEW x \in Calls PROVE CallOK(x)'
  <2>1. calls[x].stamp <= edits + 1 /\ calls[x].stamp # edits + 1
    BY <1>1, <1>2 DEF CallOK
  <2> QED BY <1>1, <2>1 DEF CallOK
<1> QED BY <1>4, <1>5

\* What the commands leave alone, and what they say.
LEMMA CommandOK ==
  ASSUME ObserveTypeOK, PromoterOK, \A x \in Calls : CallOK(x),
         \/ \E tool \in Tools, status \in {"blocked"} : HostRecords(tool, status)
         \/ ObservationsCommand \/ StartEnforce \/ Decline \/ Flip \/ FlipWrite
  PROVE  PromoterOK' /\ \A x \in Calls : CallOK(x)'
<1>0. /\ promoter \in [pc : {"idle", "asking", "writing"}, text : SUBSET ConfigType,
                       said : Optional(0 .. MaxEdits)]
      /\ configs \in [{"default", "named"} -> ConfigType \cup {Missing, Broken}] /\ edits \in Nat
  BY DEF ObserveTypeOK
<1>1. UNCHANGED <<calls, edits>>
  BY DEF HostRecords, ObservationsCommand, StartEnforce, Decline, Flip, FlipWrite
<1>2. promoter'.said = promoter.said \/ promoter'.said = {edits}
  <2>1. CASE Flip
    BY <1>0, <2>1 DEF Flip
  <2>2. CASE StartEnforce \/ Decline
    BY <1>0, <2>2 DEF StartEnforce, Decline
  <2>3. CASE FlipWrite
    BY <2>3 DEF FlipWrite
  <2>4. CASE UNCHANGED promoter
    BY <2>4
  <2> QED BY <2>1, <2>2, <2>3, <2>4 DEF HostRecords, ObservationsCommand
<1>3. \A x \in Calls : CallOK(x)'
  BY <1>1, <1>2 DEF CallOK
<1>4. CASE \/ \E tool \in Tools, status \in {"blocked"} : HostRecords(tool, status)
           \/ ObservationsCommand
  BY <1>1, <1>3, <1>4 DEF HostRecords, ObservationsCommand, PromoterOK, Enforcing, files
<1>5. CASE StartEnforce \/ Decline
  <2>1. UNCHANGED <<configs, edits>> /\ promoter'.text = promoter.text
        /\ (promoter'.said = promoter.said \/ (promoter'.said = {edits} /\ Enforcing))
    BY <1>0, <1>5 DEF StartEnforce, Decline, files, Enforcing
  <2> QED BY <1>0, <1>3, <2>1 DEF PromoterOK, Enforcing
<1>6. CASE Flip
  <2>1. UNCHANGED <<configs, edits>>
        /\ (promoter'.said = promoter.said \/ (promoter'.said = {edits} /\ Enforcing))
    BY <1>0, <1>6 DEF Flip, files, Enforcing
  <2>2. \/ promoter'.text = promoter.text
        \/ /\ configs["default"] \in ConfigType /\ Promoted(configs["default"]) # Broken
           /\ promoter'.text = {Promoted(configs["default"])}
    BY <1>0, <1>6 DEF Flip
  <2>3. \A text \in promoter'.text : Enforces(text)
    BY <2>2, PromotedType DEF PromoterOK
  <2> QED BY <1>0, <1>3, <2>1, <2>3 DEF PromoterOK, Enforcing
<1>7. CASE FlipWrite
  <2>1. PICK text \in promoter.text : configs' = [configs EXCEPT !["default"] = text]
    BY <1>7 DEF FlipWrite
  <2>2. text \in ConfigType /\ Enforces(text)
    BY <1>0 DEF PromoterOK
  <2>3. configs'["default"] = text /\ text \notin {Missing, Broken}
    BY <1>0, <2>1, <2>2, FilesAssumption
  <2>4. promoter'.said = {edits} /\ promoter'.text = {} /\ edits' = edits
    BY <1>7 DEF FlipWrite
  <2> QED BY <1>0, <1>3, <2>2, <2>3, <2>4 DEF PromoterOK, Enforcing
<1> QED BY <1>4, <1>5, <1>6, <1>7

LEMMA PromiseStep ==
  ASSUME ObserveTypeOK, PromoterOK, \A x \in Calls : CallOK(x), [ObserveNext]_observeVars
  PROVE  PromoterOK' /\ \A x \in Calls : CallOK(x)'
<1>1. CASE UNCHANGED observeVars
  BY <1>1 DEF PromoterOK, Enforcing, CallOK, observeVars
<1>2. CASE ObserveNext
  BY <1>2, EditOK, CallStepOK, CommandOK DEF ObserveNext
<1> QED BY <1>1, <1>2

-----------------------------------------------------------------------------
\* The counts.

\* The records of a group are finitely many, and the log only grows.
LEMMA RecordsFinite ==
  ASSUME ObserveTypeOK, NEW t, NEW v
  PROVE  IsFiniteSet(Records(t, v)) /\ Cardinality(Records(t, v)) \in Nat
<1>1. Len(decisionLog) \in Nat /\ DOMAIN decisionLog = 1 .. Len(decisionLog)
  BY DEF ObserveTypeOK
<1>2. IsFiniteSet(1 .. Len(decisionLog))
  BY <1>1, FS_Interval
<1>3. Records(t, v) \in SUBSET (1 .. Len(decisionLog))
  BY <1>1 DEF Records
<1> QED BY <1>2, <1>3, FS_Subset, FS_CardinalityType

LEMMA RecordsGrow ==
  ASSUME ObserveTypeOK, NEW record \in RecordType(Tools), decisionLog' = Append(decisionLog, record),
         NEW t, NEW v
  PROVE  /\ Cardinality(Records(t, v)') \in Nat
         /\ Cardinality(Records(t, v)) <= Cardinality(Records(t, v)')
         /\ parseObserveRecord(record) /\ record.tool = t /\ record.observed = {v} =>
              Cardinality(Records(t, v)') = Cardinality(Records(t, v)) + 1
<1> DEFINE last == Len(decisionLog) + 1
<1>1. /\ Len(decisionLog) \in Nat /\ DOMAIN decisionLog = 1 .. Len(decisionLog)
      /\ DOMAIN decisionLog' = 1 .. last
      /\ \A i \in 1 .. Len(decisionLog) : decisionLog'[i] = decisionLog[i]
      /\ decisionLog'[last] = record
  <2>1. decisionLog \in Seq(RecordType(Tools))
    BY DEF ObserveTypeOK
  <2>2. /\ Append(decisionLog, record) \in Seq(RecordType(Tools))
        /\ Len(Append(decisionLog, record)) = Len(decisionLog) + 1
        /\ \A i \in 1 .. Len(decisionLog) : Append(decisionLog, record)[i] = decisionLog[i]
        /\ Append(decisionLog, record)[Len(decisionLog) + 1] = record
    BY <2>1, AppendProperties
  <2> QED BY <2>1, <2>2, LenProperties
<1>2. IsFiniteSet(Records(t, v)) /\ Cardinality(Records(t, v)) \in Nat /\ last \notin Records(t, v)
  <2>1. last \notin 1 .. Len(decisionLog)
    BY <1>1
  <2>2. Records(t, v) \subseteq 1 .. Len(decisionLog)
    BY <1>1 DEF Records
  <2> QED BY <2>1, <2>2, RecordsFinite
<1>3. /\ IsFiniteSet(Records(t, v) \cup {last})
      /\ Cardinality(Records(t, v) \cup {last}) = Cardinality(Records(t, v)) + 1
  BY <1>2, FS_AddElement
<1>4. CASE parseObserveRecord(record) /\ record.tool = t /\ record.observed = {v}
  <2>1. Records(t, v)' = Records(t, v) \cup {last}
    BY <1>1, <1>4 DEF Records
  <2> QED BY <1>2, <1>3, <2>1
<1>5. CASE ~(parseObserveRecord(record) /\ record.tool = t /\ record.observed = {v})
  <2>1. Records(t, v)' = Records(t, v)
    BY <1>1, <1>5 DEF Records
  <2> QED BY <1>2, <1>5, <2>1
<1> QED BY <1>4, <1>5

\* A call that moves, and that was not answered before, hides nothing or one denial more.
LEMMA HidingMoves ==
  ASSUME ObserveTypeOK, NEW c \in Calls, NEW call, calls' = [calls EXCEPT ![c] = call],
         calls[c].pc # "answered", NEW t, NEW v
  PROVE  /\ c \notin Hiding(t, v)
         /\ ~Hidden(call) => Hiding(t, v)' = Hiding(t, v)
         /\ \/ Hiding(t, v)' = Hiding(t, v)
            \/ /\ Hiding(t, v)' = Hiding(t, v) \cup {c}
               /\ call.tool = {t} /\ call.observed = v /\ Hidden(call)
<1>1. calls'[c] = call /\ \A x \in Calls \ {c} : calls'[x] = calls[x]
  BY DEF ObserveTypeOK
<1>2. ~Hidden(calls[c])
  BY DEF Hidden
<1> QED BY <1>1, <1>2 DEF Hiding

\* A step that leaves the log, or adds to it, while no more is hidden.
LEMMA CountKept ==
  ASSUME ObserveTypeOK, CountOK, \A t, v : Hiding(t, v)' = Hiding(t, v),
         \/ decisionLog' = decisionLog
         \/ \E record \in RecordType(Tools) : decisionLog' = Append(decisionLog, record)
  PROVE  CountOK'
<1> SUFFICES ASSUME NEW t \in Tools', NEW v \in Denials'
             PROVE  IsFiniteSet(Hiding(t, v))' /\ Cardinality(Hiding(t, v))' <= Cardinality(Records(t, v))'
  BY DEF CountOK
<1>1. t \in Tools /\ v \in Denials
  BY DEF Tools, Denials
<1>2. /\ IsFiniteSet(Hiding(t, v)) /\ Cardinality(Hiding(t, v)) \in Nat
      /\ Cardinality(Hiding(t, v)) <= Cardinality(Records(t, v)) /\ Cardinality(Records(t, v)) \in Nat
  BY <1>1, RecordsFinite, FS_CardinalityType DEF CountOK
<1>3. Cardinality(Records(t, v)') \in Nat /\ Cardinality(Records(t, v)) <= Cardinality(Records(t, v)')
  <2>1. CASE decisionLog' = decisionLog
    BY <1>2, <2>1 DEF Records
  <2>2. ASSUME NEW record \in RecordType(Tools), decisionLog' = Append(decisionLog, record)
        PROVE  /\ Cardinality(Records(t, v)') \in Nat
               /\ Cardinality(Records(t, v)) <= Cardinality(Records(t, v)')
    BY <2>2, RecordsGrow
  <2> QED BY <2>1, <2>2
<1> QED BY <1>2, <1>3

LEMMA AnswerCounts ==
  ASSUME ObserveTypeOK, CountOK, NEW c \in Calls, CallOK(c), calls[c].pc = "judged",
         NEW call, call.tool = calls[c].tool, call.observed = calls[c].observed,
         call.settings = calls[c].settings, calls' = [calls EXCEPT ![c] = call],
         decisionLog' = Append(decisionLog, RecordOf(calls[c]))
  PROVE  CountOK'
<1>0. \A t, v : \/ Hiding(t, v)' = Hiding(t, v)
                \/ /\ Hiding(t, v)' = Hiding(t, v) \cup {c}
                   /\ call.tool = {t} /\ call.observed = v /\ Hidden(call)
  BY HidingMoves
<1> SUFFICES ASSUME NEW t \in Tools', NEW v \in Denials'
             PROVE  IsFiniteSet(Hiding(t, v))' /\ Cardinality(Hiding(t, v))' <= Cardinality(Records(t, v))'
  BY DEF CountOK
<1>1. t \in Tools /\ v \in Denials
  BY DEF Tools, Denials
<1>2. /\ IsFiniteSet(Hiding(t, v)) /\ Cardinality(Hiding(t, v)) \in Nat
      /\ Cardinality(Hiding(t, v)) <= Cardinality(Records(t, v)) /\ Cardinality(Records(t, v)) \in Nat
  BY <1>1, RecordsFinite, FS_CardinalityType DEF CountOK
<1> DEFINE record == RecordOf(calls[c])
<1>3. /\ record \in RecordType(Tools) /\ record.observed = {calls[c].observed}
      /\ calls[c].tool = {record.tool} /\ (record.mode = {"observe"} <=> calls[c].settings.mode = {"observe"})
  BY RecordOfType
<1>4. call.tool = calls[c].tool /\ call.observed = calls[c].observed /\ call.settings = calls[c].settings
  OBVIOUS
<1>5. calls' = [calls EXCEPT ![c] = call] /\ decisionLog' = Append(decisionLog, record)
  OBVIOUS
<1> HIDE DEF record
<1>6. Cardinality(Records(t, v)') \in Nat
  BY <1>3, <1>5, RecordsGrow
<1>7. CASE Hiding(t, v)' = Hiding(t, v)
  BY <1>2, <1>3, <1>5, <1>6, <1>7, RecordsGrow
<1>8. CASE Hiding(t, v)' = Hiding(t, v) \cup {c} /\ call.tool = {t} /\ call.observed = v /\ Hidden(call)
  <2>1. record.tool = t /\ record.observed = {v}
    BY <1>3, <1>4, <1>8
  <2>2. parseObserveRecord(record)
    BY <1>1, <1>3, <1>4, <1>8 DEF parseObserveRecord, Hidden, Denials
  <2>3. Cardinality(Records(t, v)') = Cardinality(Records(t, v)) + 1
    BY <1>3, <1>5, <2>1, <2>2, RecordsGrow
  <2>4. /\ IsFiniteSet(Hiding(t, v) \cup {c})
        /\ Cardinality(Hiding(t, v) \cup {c}) \in {Cardinality(Hiding(t, v)), Cardinality(Hiding(t, v)) + 1}
    BY <1>2, FS_AddElement
  <2> QED BY <1>2, <1>8, <2>3, <2>4
<1>9. \/ Hiding(t, v)' = Hiding(t, v)
      \/ Hiding(t, v)' = Hiding(t, v) \cup {c} /\ call.tool = {t} /\ call.observed = v /\ Hidden(call)
  BY <1>0
<1> QED BY <1>7, <1>8, <1>9

LEMMA CountStep ==
  ASSUME ObserveTypeOK, \A x \in Calls : CallOK(x), CountOK, [ObserveNext]_observeVars
  PROVE  CountOK'
<1>1. CASE calls' = calls /\ decisionLog' = decisionLog
  BY <1>1, CountKept DEF Hiding
<1>2. ASSUME NEW tool \in Tools, HostRecords(tool, "blocked") PROVE CountOK'
  <2>1. [tool |-> tool, status |-> "blocked", observed |-> {}, mode |-> {}] \in RecordType(Tools)
    BY DEF RecordType
  <2>2. /\ calls' = calls
        /\ decisionLog' = Append(decisionLog,
                            [tool |-> tool, status |-> "blocked", observed |-> {}, mode |-> {}])
    BY <1>2 DEF HostRecords
  <2> QED BY <2>1, <2>2, CountKept DEF Hiding
<1>3. ASSUME NEW c \in Calls, CallStep(c) PROVE CountOK'
  <2>0. CallOK(c)
    OBVIOUS
  <2>1. ASSUME NEW call, calls' = [calls EXCEPT ![c] = call], calls[c].pc # "answered",
               decisionLog' = decisionLog, ~Hidden(call)
        PROVE  CountOK'
    BY <2>1, HidingMoves, CountKept
  <2>2. ~Hidden(Failed) /\ \A call : call.pc # "answered" => ~Hidden(call)
    BY DEF Hidden, Failed, Fresh
  <2>3. ASSUME NEW source \in Sources, NEW request \in Requests, Invoke(c, source, request)
        PROVE  CountOK'
    <3>1. CASE calls' = [calls EXCEPT ![c] = Failed]
      BY <2>1, <2>2, <2>3, <3>1, InvokeIs
    <3>2. CASE Opened(source) # Broken /\ calls' = [calls EXCEPT ![c] = Started(source, request)]
      <4>1. ~Hidden(Started(source, request))
        BY <2>2, <3>2, StartedType
      <4> QED BY <2>1, <2>3, <3>2, <4>1, InvokeIs
    <3> QED BY <2>3, <3>1, <3>2, InvokeIs
  <2>4. CASE Load(c)
    <3>1. LoadedFrom(calls[c]).pc = "loaded" => ~Hidden(LoadedFrom(calls[c]))
      BY <2>2
    <3>2. /\ calls[c].pc # "answered" /\ decisionLog' = decisionLog
          /\ \/ calls' = [calls EXCEPT ![c] = Failed]
             \/ calls' = [calls EXCEPT ![c] = LoadedFrom(calls[c])] /\ LoadedFrom(calls[c]).pc = "loaded"
      BY <2>4, LoadIs
    <3> QED BY <2>1, <2>2, <3>1, <3>2
  <2>5. CASE Judge(c)
    <3>1. PICK call \in CallType : calls' = [calls EXCEPT ![c] = call] /\ call.pc = "judged"
      BY <2>0, <2>5, JudgeIs
    <3>2. decisionLog' = decisionLog /\ calls[c].pc # "answered"
      BY <2>0, <2>5, JudgeIs
    <3> QED BY <2>1, <2>2, <3>1, <3>2
  <2>6. CASE Answer(c) \/ AppendFails(c)
    <3> DEFINE call == [calls[c] EXCEPT !.pc = "answered"]
    <3>1. /\ calls[c].pc = "judged" /\ call.settings = calls[c].settings
          /\ \/ calls' = [calls EXCEPT ![c] = Failed] /\ decisionLog' = decisionLog
             \/ /\ ~calls[c].settings.sqlite
                /\ calls' = [calls EXCEPT ![c] = call] /\ decisionLog' = decisionLog
             \/ /\ calls' = [calls EXCEPT ![c] = call]
                /\ Len(decisionLog) < MaxLog /\ decisionLog' = Append(decisionLog, RecordOf(calls[c]))
      BY <2>6, AnswerIs
    <3>2. CASE calls' = [calls EXCEPT ![c] = Failed] /\ decisionLog' = decisionLog
      BY <2>1, <2>2, <3>1, <3>2
    <3>3. CASE /\ ~calls[c].settings.sqlite
               /\ calls' = [calls EXCEPT ![c] = call] /\ decisionLog' = decisionLog
      <4>1. ~Hidden(call)
        BY <3>1, <3>3 DEF Hidden
      <4> HIDE DEF call
      <4> QED BY <2>1, <3>1, <3>3, <4>1
    <3>4. CASE calls' = [calls EXCEPT ![c] = call] /\ decisionLog' = Append(decisionLog, RecordOf(calls[c]))
      <4>1. call.tool = calls[c].tool /\ call.observed = calls[c].observed
        BY <2>6, AnswerIs
      <4> HIDE DEF call
      <4> QED BY <2>0, <3>1, <3>4, <4>1, AnswerCounts
    <3> QED BY <3>1, <3>2, <3>3, <3>4
  <2> QED BY <1>3, <2>3, <2>4, <2>5, <2>6 DEF CallStep
<1>4. CASE UNCHANGED observeVars
  BY <1>1, <1>4 DEF observeVars
<1>5. CASE ObserveNext
  <2>1. CASE Edit \/ ObservationsCommand \/ StartEnforce \/ Decline \/ Flip \/ FlipWrite
    BY <1>1, <2>1 DEF Edit, EditConfig, EditPack, EditRegistry, ObservationsCommand, StartEnforce, Decline,
       Flip, FlipWrite
  <2> QED BY <1>2, <1>3, <1>5, <2>1 DEF ObserveNext
<1> QED BY <1>4, <1>5

-----------------------------------------------------------------------------
\* The reports.

\* An answered call stays as it is, and but for the command itself so does the report.
LEMMA AnsweredStays ==
  ASSUME ObserveTypeOK, \A x \in Calls : CallOK(x), [ObserveNext]_observeVars, ~ObservationsCommand
  PROVE  /\ report' = report
         /\ \A x \in Calls : calls[x].pc = "answered" => calls'[x] = calls[x]
<1>1. CASE UNCHANGED observeVars
  BY <1>1 DEF observeVars
<1>2. ASSUME NEW c \in Calls, CallStep(c)
      PROVE  report' = report /\ \A x \in Calls : calls[x].pc = "answered" => calls'[x] = calls[x]
  <2>1. report' = report /\ calls[c].pc # "answered" /\ \E call : calls' = [calls EXCEPT ![c] = call]
    <3>1. ASSUME NEW source \in Sources, NEW request \in Requests, Invoke(c, source, request)
          PROVE  report' = report /\ calls[c].pc # "answered" /\ \E call : calls' = [calls EXCEPT ![c] = call]
      BY <3>1, InvokeIs
    <3>2. CASE Load(c)
      BY <3>2, LoadIs
    <3>3. CASE Judge(c)
      BY <3>3, JudgeIs
    <3>4. CASE Answer(c) \/ AppendFails(c)
      BY <3>4, AnswerIs
    <3> QED BY <1>2, <3>1, <3>2, <3>3, <3>4 DEF CallStep
  <2> QED BY <2>1 DEF ObserveTypeOK
<1>3. CASE \/ Edit \/ (\E tool \in Tools, status \in {"blocked"} : HostRecords(tool, status))
           \/ StartEnforce \/ Decline \/ Flip \/ FlipWrite
  BY <1>3 DEF Edit, EditConfig, EditPack, EditRegistry, HostRecords, StartEnforce, Decline, Flip, FlipWrite
<1> QED BY <1>1, <1>2, <1>3 DEF ObserveNext

\* ReportsCoverCalls, tool by tool and verdict by verdict.
Due(r, t, v) == {c \in r.due : calls[c].tool = {t} /\ calls[c].observed = v}
Covers(r, t, v) ==
  Due(r, t, v) # {} => /\ <<t, {v}>> \in DOMAIN r.summary.groups
                       /\ r.summary.groups[<<t, {v}>>] >= Cardinality(Due(r, t, v))

AllCovered == \A r \in report : r.whole => \A t \in Tools, v \in Denials : Covers(r, t, v)

LEMMA CoverIs == ReportsCoverCalls <=> AllCovered
<1> DEFINE DueOf(r, key) == {c \in r.due : calls[c].tool = {key[1]} /\ {calls[c].observed} = key[2]}
           Covered(r, key) == DueOf(r, key) # {} => /\ key \in DOMAIN r.summary.groups
                                                    /\ r.summary.groups[key] >= Cardinality(DueOf(r, key))
<1>1. ReportsCoverCalls <=>
        \A r \in report : r.whole =>
          \A key \in {<<t, {v}>> : t \in Tools, v \in {"deny", "approve_required"}} : Covered(r, key)
  BY DEF ReportsCoverCalls
<1>2. ASSUME NEW r, NEW t, NEW v PROVE Covered(r, <<t, {v}>>) <=> Covers(r, t, v)
  <2>1. DueOf(r, <<t, {v}>>) = Due(r, t, v)
    BY DEF Due
  <2> QED BY <2>1 DEF Covers
<1> HIDE DEF Covered
<1>3. ASSUME NEW r
      PROVE  (\A key \in {<<t, {v}>> : t \in Tools, v \in {"deny", "approve_required"}} : Covered(r, key))
             <=> \A t \in Tools, v \in Denials : Covers(r, t, v)
  <2> DEFINE keys == {<<t, {v}>> : t \in Tools, v \in {"deny", "approve_required"}}
  <2>1. ASSUME \A key \in keys : Covered(r, key), NEW t \in Tools, NEW v \in Denials
        PROVE  Covers(r, t, v)
    <3>1. <<t, {v}>> \in keys
      BY DEF Denials
    <3> HIDE DEF keys
    <3>2. Covered(r, <<t, {v}>>)
      BY <2>1, <3>1
    <3> QED BY <1>2, <3>2
  <2>2. ASSUME \A t \in Tools, v \in Denials : Covers(r, t, v), NEW key \in keys
        PROVE  Covered(r, key)
    <3>1. PICK t \in Tools, v \in Denials : key = <<t, {v}>>
      BY DEF Denials
    <3> QED BY <1>2, <2>2, <3>1
  <2> HIDE DEF Covered
  <2> QED BY <2>1, <2>2
<1> QED BY <1>1, <1>3 DEF AllCovered

\* A report that is printed covers what is due.
LEMMA PrintedCovers ==
  ASSUME ObserveTypeOK, CountOK, ObservationsCommand
  PROVE  ReportOK' /\ ReportsCoverCalls'
<1> DEFINE summary == aggregateObservations(findAll(decisionLog, ReportLimit))
           due == {c \in Calls : Hidden(calls[c])}
           printed == [ summary |-> summary, whole |-> Len(decisionLog) <= ReportLimit,
                  advice |-> recommendFromObservations(summary, ReadStyle, Frequent), due |-> due ]
<1>0. /\ report' = {printed} /\ printed.summary = summary /\ printed.due = due
      /\ printed.whole <=> Len(decisionLog) <= ReportLimit
  BY DEF ObservationsCommand
<1> HIDE DEF printed
<1>1. PICK r : /\ report' = {r} /\ r.summary = summary /\ r.due = due
               /\ r.whole <=> Len(decisionLog) <= ReportLimit
  BY <1>0
<1>2. calls' = calls
  BY DEF ObservationsCommand
<1>3. ReportOK'
  BY <1>1, <1>2 DEF ReportOK, Hidden
<1>4. ASSUME r.whole, NEW t \in Tools, NEW v \in Denials PROVE Covers(r, t, v)'
  <2>1. findAll(decisionLog, ReportLimit) = decisionLog
    <3>1. Len(decisionLog) \in Nat /\ Len(decisionLog) <= ReportLimit /\ ReportLimit \in Nat
      BY <1>1, <1>4, ObserveAssumption DEF ObserveTypeOK
    <3>2. (IF Len(decisionLog) < ReportLimit THEN Len(decisionLog) ELSE ReportLimit) = Len(decisionLog)
      BY <3>1
    <3> QED BY <3>2, SubSeqFull DEF findAll, ObserveTypeOK
  <2>2. Due(r, t, v)' = Hiding(t, v)
    BY <1>1, <1>2 DEF Due, Hiding
  <2>3. /\ IsFiniteSet(Hiding(t, v)) /\ Cardinality(Hiding(t, v)) \in Nat
        /\ Cardinality(Hiding(t, v)) <= Cardinality(Records(t, v)) /\ Cardinality(Records(t, v)) \in Nat
    BY <1>4, RecordsFinite, FS_CardinalityType DEF CountOK
  <2>4. IsFiniteSet(Records(t, v))
    BY RecordsFinite
  <2>5. ASSUME Hiding(t, v) # {} PROVE <<t, {v}>> \in Keys(decisionLog)
    <3>1. Records(t, v) # {}
      BY <2>3, <2>4, <2>5, FS_EmptySet
    <3>2. PICK i \in DOMAIN decisionLog :
            parseObserveRecord(decisionLog[i]) /\ decisionLog[i].tool = t /\ decisionLog[i].observed = {v}
      BY <3>1 DEF Records
    <3> QED BY <3>2 DEF Keys
  <2>6. summary.groups = [k \in Keys(decisionLog) |->
                   Cardinality({i \in DOMAIN decisionLog : /\ parseObserveRecord(decisionLog[i])
                                                           /\ decisionLog[i].tool = k[1]
                                                           /\ decisionLog[i].observed = k[2]})]
    BY <2>1 DEF aggregateObservations
  <2>7. ASSUME <<t, {v}>> \in Keys(decisionLog)
        PROVE  summary.groups[<<t, {v}>>] = Cardinality(Records(t, v))
    BY <2>6, <2>7 DEF Records
  <2> HIDE DEF summary
  <2> QED BY <1>1, <2>2, <2>3, <2>5, <2>6, <2>7 DEF Covers
<1>5. AllCovered'
  BY <1>1, <1>4 DEF AllCovered, Tools, Denials
<1>6. ReportsCoverCalls' <=> AllCovered'
  BY CoverIs, PTL
<1> QED BY <1>3, <1>5, <1>6

LEMMA ReportStep ==
  ASSUME ObserveTypeOK, \A x \in Calls : CallOK(x), CountOK, ReportOK, ReportsCoverCalls,
         [ObserveNext]_observeVars
  PROVE  ReportOK' /\ ReportsCoverCalls'
<1>1. CASE ObservationsCommand
  BY <1>1, PrintedCovers
<1>2. CASE ~ObservationsCommand
  <2>1. /\ report' = report
        /\ \A x \in Calls : calls[x].pc = "answered" => calls'[x] = calls[x]
    BY <1>2, AnsweredStays
  <2>2. ReportOK'
    BY <2>1 DEF ReportOK
  <2>3. AllCovered
    BY CoverIs
  <2>4. ASSUME NEW r \in report, NEW t, NEW v PROVE Covers(r, t, v)' <=> Covers(r, t, v)
    <3>1. Due(r, t, v)' = Due(r, t, v)
      BY <2>1 DEF ReportOK, Due
    <3> QED BY <3>1 DEF Covers
  <2>5. AllCovered'
    BY <2>1, <2>3, <2>4 DEF AllCovered, Tools, Denials
  <2>6. ReportsCoverCalls' <=> AllCovered'
    BY CoverIs, PTL
  <2> QED BY <2>2, <2>5, <2>6
<1> QED BY <1>1, <1>2

-----------------------------------------------------------------------------
\* What holds initially, and is kept.
ObserveInv ==
  ObserveTypeOK /\ PromoterOK /\ (\A c \in Calls : CallOK(c)) /\ CountOK /\ ReportOK /\ ReportsCoverCalls

LEMMA ObserveInitInv == ObserveInit => ObserveInv
<1> SUFFICES ASSUME ObserveInit PROVE ObserveInv
  OBVIOUS
<1>1. \A c \in Calls : calls[c] = Fresh
  BY DEF ObserveInit
<1>2. Fresh.pc = "idle" /\ Fresh.stamp = 0 /\ Fresh.promised = FALSE
  BY DEF Fresh
<1>3. \A c \in Calls : CallOK(c)
  BY <1>1, <1>2 DEF CallOK, ObserveInit
<1>4. PromoterOK
  BY DEF PromoterOK, ObserveInit
<1>5. CountOK
  <2>1. \A t, v : Hiding(t, v) = {} /\ Records(t, v) = {}
    BY <1>1, <1>2 DEF Hiding, Hidden, Records, ObserveInit
  <2> QED BY <2>1, FS_EmptySet DEF CountOK
<1>6. ReportOK /\ ReportsCoverCalls
  BY DEF ReportOK, ReportsCoverCalls, ObserveInit
<1> QED BY <1>3, <1>4, <1>5, <1>6, ObserveInitType DEF ObserveInv

LEMMA ObserveInvStep == ObserveInv /\ [ObserveNext]_observeVars => ObserveInv'
BY ObserveTypeStep, PromiseStep, CountStep, ReportStep DEF ObserveInv

LEMMA ObserveInvariant == ObserveSpec => []ObserveInv
BY ObserveInitInv, ObserveInvStep, PTL DEF ObserveSpec

\* For any number of calls and edits, whoever observes, edits and promotes, and in whatever order:
\* the types of ObserveMode hold.
THEOREM ObserveTypeCorrect == ObserveSpec => []ObserveTypeOK
<1>1. ObserveInv => ObserveTypeOK
  BY DEF ObserveInv
<1> QED BY <1>1, ObserveInvariant, PTL

\* A promotion stands until somebody edits a file: no call that started under its promise, and since
\* when nobody did, gets another answer than the policy's (evaluate, flipToEnforce).
THEOREM PromotionHolds == ObserveSpec => []PromotedForGood
<1>1. ObserveInv => PromotedForGood
  BY DEF ObserveInv, PromotedForGood, CallOK
<1> QED BY <1>1, ObserveInvariant, PTL

\* No answered call whose denial was hidden is missing from a report over the whole log
\* (aggregateObservations), however many calls and records there are.
THEOREM ReportsCover == ObserveSpec => []ReportsCoverCalls
<1>1. ObserveInv => ReportsCoverCalls
  BY DEF ObserveInv
<1> QED BY <1>1, ObserveInvariant, PTL
=============================================================================
