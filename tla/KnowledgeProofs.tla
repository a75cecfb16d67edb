--------------------------- MODULE KnowledgeProofs ---------------------------
(***************************************************************************)
(* Theorems about Knowledge, for any clauses, calls, contexts and contents *)
(* and from empty repositories: what is enforced was approved, an          *)
(* evaluation follows the rules of its set but for the two kinds of set    *)
(* that FlowFollowsRules names, one set is active unless activations       *)
(* overlapped, and only a race revives a clause.                           *)
(***************************************************************************)
EXTENDS Knowledge, SequenceTheorems, WellFoundedInduction, TLAPS

Statuses == ClauseStatuses \cup {"none"}
ClauseRecords == [clause : Clauses, op : Operations]
NonEmpty == Seq(Clauses) \ {<<>>}
SetRecords == [name : SetNames, version : Nat, active : BOOLEAN, clauses : ClauseLists, of : Nat]

\* Where a call of createRuleSet or activateRuleSet, of compile and of the flow can be.
SetJobs ==
  [at : {"idle", "returned"}]
    \cup [at : {"versioned"}, name : SetNames, version : Nat, rules : Seq(Expected), clauses : ClauseLists]
    \cup [at : {"created"}, id : Nat, rules : Seq(Expected)]
    \cup [at : {"found"}, id : Nat]
    \cup [at : {"current", "copied"}, id : Nat, current : Nat, raced : BOOLEAN]
    \cup [at : {"activated"}, raced : BOOLEAN]
Compilings ==
  [at : {"idle", "published"}]
    \cup [at : {"looking"}, ids : ClauseLists, todo : NonEmpty, seen : Statuses, rules : Seq(Expected)]
    \cup [at : {"compiled"}, ids : ClauseLists, rules : Seq(Expected)]
Outcomes == {"skipped", "passed", "blocked"}
FlowStates ==
  [at : {"idle"}]
    \cup [at : {"finding"}, context : Contexts, set : Nat]
    \cup [at : {"returned"}, context : Contexts, set : Nat, rules : Seq(Expected),
           early : BOOLEAN, outcome : Outcomes]

\* Clauses someone approved, and lists of rules made of such clauses only.
Approved == {k \in Clauses : Recorded(k, "approve")}
Sound == Seq([clause : Approved, expression : Expressions])

\* A clause that has, or was read with, a status that compiles was approved.
ClauseInv ==
  /\ status \in [Clauses -> Statuses]
  /\ clauseLog \in Seq(ClauseRecords)
  /\ job \in [ClauseCalls -> Jobs \cup {IdleJob}]
  /\ \A k \in Clauses : Compilable(status[k]) => k \in Approved
  /\ \A c \in ClauseCalls : job[c].at = "read" /\ Compilable(job[c].seen) => job[c].clause \in Approved

\* Versions are no larger than the ids of their sets, an id waiting for its rules is no other
\* call's and has none, and all rules are of approved clauses.
SetJobSafe(c) ==
  /\ setJob[c].at = "versioned" => /\ setJob[c].version \in 1..(Len(sets) + 1)
                                   /\ setJob[c].rules \in Sound
  /\ setJob[c].at \in {"created", "found", "current", "copied"} => setJob[c].id \in DOMAIN sets
  /\ setJob[c].at = "created" => /\ setJob[c].id \notin DOMAIN ruleStore
                                 /\ setJob[c].rules \in Sound
  /\ setJob[c].at \in {"current", "copied"} => setJob[c].current \in {0} \cup DOMAIN sets
SetInv ==
  /\ sets \in Seq(SetRecords) /\ Len(sets) <= MaxSets
  /\ \A i \in DOMAIN sets : sets[i].version \in 1..i
  /\ DOMAIN ruleStore \subseteq DOMAIN sets
  /\ \A i \in DOMAIN ruleStore : ruleStore[i] \in Sound
  /\ setJob \in [SetCalls -> SetJobs]
  /\ \A c \in SetCalls : SetJobSafe(c)
  /\ \A c, d \in SetCalls :
       setJob[c].at = "created" /\ setJob[d].at = "created" /\ setJob[c].id = setJob[d].id => c = d

CompileInv ==
  /\ compiling \in [Compiles -> Compilings]
  /\ \A c \in Compiles :
       /\ compiling[c].at = "looking" /\ Compilable(compiling[c].seen) =>
            Head(compiling[c].todo) \in Approved
       /\ compiling[c].at \in {"looking", "compiled"} => compiling[c].rules \in Sound

\* A set that is no copy has its rules or a call that is about to store them, and a copy neither.
SetLinked ==
  \A i \in DOMAIN sets : /\ sets[i].of \in 1..i
                         /\ Original(i) <=> i \in DOMAIN ruleStore \/ Storing(i)

\* What an evaluation found are the rules stored for its set, unless it was too early for them or
\* the set is a copy.
Followed(f) ==
  \/ /\ ~Original(flow[f].set) \/ flow[f].early
     /\ flow[f].rules = <<>> /\ flow[f].outcome = "passed"
  \/ /\ Original(flow[f].set) /\ ~flow[f].early
     /\ flow[f].set \in DOMAIN ruleStore
     /\ flow[f].rules = ruleStore[flow[f].set]
     /\ flow[f].outcome = IF BlockedBy(flow[f].rules, flow[f].context) = {} THEN "passed" ELSE "blocked"
FlowInv ==
  /\ flow \in [Flows -> FlowStates]
  /\ \A f \in Flows : flow[f].at \in {"finding", "returned"} => flow[f].set \in {0} \cup DOMAIN sets
  /\ \A f \in Flows : flow[f].at = "returned" =>
       /\ flow[f].rules \in Sound
       /\ flow[f].set = 0 => flow[f].outcome = "skipped" /\ flow[f].rules = <<>>
       /\ flow[f].set # 0 => flow[f].outcome # "skipped" /\ Followed(f)

\* The inductive invariant.
IInv == ClauseInv /\ SetInv /\ SetLinked /\ CompileInv /\ FlowInv

-----------------------------------------------------------------------------
(* Clauses                                                                 *)

\* Moving a call to another await changes nothing else of it.
LEMMA Moved ==
  ASSUME job \in [ClauseCalls -> Jobs \cup {IdleJob}], NEW c \in ClauseCalls, job[c].at # "idle",
         NEW at \in {"replacement", "written", "returned", "thrown"}, Goto(c, at)
  PROVE  /\ job' \in [ClauseCalls -> Jobs \cup {IdleJob}]
         /\ job[c] \in Jobs /\ job'[c] \in Jobs /\ job'[c].at = at
         /\ job'[c].op = job[c].op /\ job'[c].clause = job[c].clause /\ job'[c].seen = job[c].seen
         /\ \A d \in ClauseCalls \ {c} : job'[d] = job[d]
  <1>1. job[c] \in Jobs
    BY DEF IdleJob
  <1> DEFINE j == [job[c] EXCEPT !.at = at]
  <1>2. j \in Jobs /\ j.at = at /\ j.op = job[c].op /\ j.clause = job[c].clause /\ j.seen = job[c].seen
    BY <1>1 DEF Jobs
  <1>3. job' = [job EXCEPT ![c] = j]
    BY DEF Goto
  <1> HIDE DEF j
  <1>4. QED
    BY <1>1, <1>2, <1>3

\* A step of the clause service: the records it has, or is about to have, stay.
ClauseMove ==
  \/ \E k \in Clauses : CreateClause(k)
  \/ \E c \in ClauseCalls, op \in Operations, k, by \in Clauses : BeginClauseOp(c, op, k, by)
  \/ \E c \in ClauseCalls : SettleClauseOp(c)

\* The log only grows, by records of its type.
LEMMA LogGrows ==
  ASSUME ClauseInv, NEW c \in ClauseCalls, SettleClauseOp(c)
  PROVE  clauseLog' = clauseLog \/ \E r \in ClauseRecords : clauseLog' = Append(clauseLog, r)
  <1>1. CASE Reject(c) \/ Log(c)
    <2>1. job[c] \in Jobs
      BY <1>1 DEF ClauseInv, IdleJob, Reject, Log
    <2>2. /\ [clause |-> job[c].clause, op |-> job[c].op] \in ClauseRecords
          /\ [clause |-> job[c].clause, op |-> "reject"] \in ClauseRecords
      BY <2>1 DEF Jobs, ClauseRecords, Operations
    <2>3. QED
      BY <1>1, <2>2 DEF Reject, Log
  <1>2. CASE ~(Reject(c) \/ Log(c))
    BY <1>2 DEF SettleClauseOp, Refuse, Write, FindReplacement, WriteSuperseded
  <1>3. QED
    BY <1>1, <1>2

LEMMA RecordedStays ==
  ASSUME ClauseInv, ClauseMove \/ UNCHANGED clauseVars, NEW k, NEW op, Recorded(k, op)
  PROVE  Recorded(k, op)'
  <1>1. CASE UNCHANGED clauseVars
    BY <1>1 DEF Recorded, clauseVars
  <1>2. ASSUME NEW x \in ClauseCalls, job[x].at = "written", job[x].clause = k, job[x].op = op, ClauseMove
        PROVE  Recorded(k, op)'
    <2>1. CASE job'[x] = job[x]
      BY <1>2, <2>1 DEF Recorded
    <2>2. CASE job'[x] # job[x]
      <3>1. Log(x)
        <4>1. ASSUME NEW c \in ClauseCalls, SettleClauseOp(c) PROVE c = x /\ Log(x)
          BY <1>2, <2>2, <4>1 DEF ClauseInv, SettleClauseOp, Refuse, Reject, Write, FindReplacement,
               WriteSuperseded, Log, Goto
        <4>2. ~ \E d \in Clauses : CreateClause(d)
          BY <2>2 DEF CreateClause
        <4>3. ASSUME NEW c \in ClauseCalls, NEW o \in Operations, NEW d, NEW by, BeginClauseOp(c, o, d, by)
              PROVE  FALSE
          BY <1>2, <2>2, <4>3 DEF ClauseInv, BeginClauseOp, IdleJob
        <4>4. QED
          BY <1>2, <4>1, <4>2, <4>3 DEF ClauseMove
      <3>2. job[x] \in Jobs
        BY <1>2 DEF ClauseInv, IdleJob
      <3>3. clauseLog' = Append(clauseLog, [clause |-> k, op |-> op])
        BY <1>2, <3>1 DEF Log
      <3>4. clauseLog'[Len(clauseLog) + 1] = [clause |-> k, op |-> op]
            /\ Len(clauseLog) + 1 \in DOMAIN clauseLog'
        <4> DEFINE r == [clause |-> k, op |-> op]
        <4>1. r \in ClauseRecords
          BY <1>2, <3>2 DEF Jobs, ClauseRecords
        <4> HIDE DEF r
        <4>2. clauseLog' = Append(clauseLog, r)
          BY <3>3 DEF r
        <4>3. clauseLog'[Len(clauseLog) + 1] = r /\ Len(clauseLog) + 1 \in DOMAIN clauseLog'
          BY <4>1, <4>2 DEF ClauseInv
        <4>4. QED
          BY <4>3 DEF r
      <3>5. QED
        BY <3>4 DEF Recorded
    <2>3. QED
      BY <2>1, <2>2
  <1>3. ASSUME NEW i \in DOMAIN clauseLog, clauseLog[i] = [clause |-> k, op |-> op], ClauseMove
        PROVE  Recorded(k, op)'
    <2>1. \/ clauseLog' = clauseLog
          \/ \E r \in ClauseRecords : clauseLog' = Append(clauseLog, r)
      <3>1. QED
        BY <1>3, LogGrows DEF ClauseMove, CreateClause, BeginClauseOp
    <2>2. i \in DOMAIN clauseLog' /\ clauseLog'[i] = clauseLog[i]
      BY <2>1 DEF ClauseInv
    <2>3. QED
      BY <1>3, <2>2 DEF Recorded
  <1>4. QED
    BY <1>1, <1>2, <1>3 DEF Recorded

\* An approval is never forgotten.
LEMMA ApprovedStays ==
  ASSUME ClauseInv, ClauseMove \/ UNCHANGED clauseVars
  PROVE  Approved \subseteq Approved'
  BY RecordedStays DEF Approved

\* No step of the clause service leaves ClauseInv: a status that compiles is written by approve,
\* or by activate after a status that was approved had been read.
LEMMA ClauseKept == ClauseInv /\ ClauseMove => ClauseInv'
  <1> SUFFICES ASSUME ClauseInv, ClauseMove PROVE ClauseInv'
    OBVIOUS
  <1> DEFINE Typed == /\ status \in [Clauses -> Statuses]
                      /\ clauseLog \in Seq(ClauseRecords)
                      /\ job \in [ClauseCalls -> Jobs \cup {IdleJob}]
             Backed == \A k \in Clauses : Compilable(status[k]) => k \in Approved
             Read == \A c \in ClauseCalls : job[c].at = "read" /\ Compilable(job[c].seen) =>
                       job[c].clause \in Approved
  <1>1. Approved \subseteq Approved'
    BY ApprovedStays
  <1>2. ASSUME NEW k \in Clauses, CreateClause(k) PROVE Typed' /\ Backed' /\ Read'
    <2>1. Typed'
      BY <1>2 DEF CreateClause, ClauseInv, Statuses, ClauseStatuses
    <2>2. Backed'
      BY <1>1, <1>2 DEF CreateClause, ClauseInv, Compilable
    <2>3. Read'
      <3>1. ASSUME NEW c \in ClauseCalls, job[c].at = "read" PROVE job[c].clause \in Clauses
        BY <3>1 DEF ClauseInv, IdleJob, Jobs
      <3>2. QED
        BY <1>1, <1>2, <3>1 DEF CreateClause, ClauseInv
    <2>4. QED
      BY <2>1, <2>2, <2>3
  <1>3. ASSUME NEW c \in ClauseCalls, NEW op \in Operations, NEW k \in Clauses, NEW by \in Clauses,
               BeginClauseOp(c, op, k, by)
        PROVE  Typed' /\ Backed' /\ Read'
    <2> DEFINE j == [at |-> "read", op |-> op, clause |-> k, by |-> by, seen |-> status[k]]
    <2>1. j \in Jobs /\ j.at = "read" /\ j.clause = k /\ j.seen = status[k]
      BY DEF ClauseInv, Statuses, Jobs
    <2>2. job' = [job EXCEPT ![c] = j] /\ UNCHANGED <<status, clauseLog>>
      BY <1>3 DEF BeginClauseOp
    <2> HIDE DEF j
    <2>3. Typed'
      BY <2>1, <2>2 DEF ClauseInv
    <2>4. Backed'
      BY <1>1, <2>2 DEF ClauseInv
    <2>5. Read'
      <3>1. ASSUME NEW d \in ClauseCalls, job'[d].at = "read", Compilable(job'[d].seen)
            PROVE  job'[d].clause \in Approved'
        <4>1. CASE d = c
          <5>1. job'[d] = j
            BY <2>2, <4>1 DEF ClauseInv
          <5>2. k \in Approved
            BY <2>1, <3>1, <5>1 DEF ClauseInv
          <5>3. QED
            BY <1>1, <2>1, <5>1, <5>2
        <4>2. CASE d # c
          <5>1. job'[d] = job[d]
            BY <2>2, <4>2 DEF ClauseInv
          <5>2. job[d].clause \in Clauses
            BY <3>1, <5>1 DEF ClauseInv, IdleJob, Jobs
          <5>3. QED
            BY <1>1, <3>1, <5>1, <5>2 DEF ClauseInv
        <4>3. QED
          BY <4>1, <4>2
      <3>2. QED
        BY <3>1
    <2>6. QED
      BY <2>3, <2>4, <2>5
  <1>4. ASSUME NEW c \in ClauseCalls, SettleClauseOp(c) PROVE Typed' /\ Backed' /\ Read'
    <2>1. PICK at \in {"replacement", "written", "returned", "thrown"} : Goto(c, at)
      BY <1>4 DEF SettleClauseOp, Refuse, Reject, Write, FindReplacement, WriteSuperseded, Log
    <2>2. job[c].at # "idle"
      BY <1>4 DEF SettleClauseOp, Refuse, Reject, Write, FindReplacement, WriteSuperseded, Log
    <2>3. /\ job' \in [ClauseCalls -> Jobs \cup {IdleJob}]
          /\ job[c] \in Jobs /\ job'[c].at = at
          /\ job'[c].op = job[c].op /\ job'[c].clause = job[c].clause /\ job'[c].seen = job[c].seen
          /\ \A d \in ClauseCalls \ {c} : job'[d] = job[d]
      BY <2>1, <2>2, Moved DEF ClauseInv
    <2>4. Read'
      <3>1. ASSUME NEW d \in ClauseCalls, job'[d].at = "read" PROVE job'[d] = job[d] /\ job[d].clause \in Clauses
        <4>1. d # c
          BY <2>3, <3>1
        <4>2. job'[d] = job[d]
          BY <2>3, <4>1
        <4>3. QED
          BY <3>1, <4>2 DEF ClauseInv, IdleJob, Jobs
      <3>2. QED
        BY <1>1, <3>1 DEF ClauseInv
    <2>5. clauseLog' \in Seq(ClauseRecords)
      BY <1>4, LogGrows DEF ClauseInv
    <2>6. status' \in [Clauses -> Statuses] /\ Backed'
      <3>1. CASE Write(c)
        <4>1. /\ job[c].at = "read" /\ job[c].op \in {"approve", "activate"}
              /\ Allowed(job[c].op, job[c].seen)
              /\ status' = [status EXCEPT ![job[c].clause] = Target(job[c].op)]
              /\ job'[c].at = "written"
          <5>1. Goto(c, "written")
            BY <3>1 DEF Write
          <5>2. job'[c].at = "written"
            BY <2>2, <5>1, Moved DEF ClauseInv
          <5>3. QED
            BY <3>1, <5>2 DEF Write
        <4>2. job[c].clause \in Clauses /\ job[c].seen \in Statuses /\ Target(job[c].op) \in Statuses
          BY <2>3, <4>1 DEF Jobs, Target, Statuses, ClauseStatuses
        <4>3. job[c].clause \in Approved'
          <5>1. CASE job[c].op = "approve"
            <6>1. job'[c].at = "written" /\ job'[c].op = "approve" /\ job'[c].clause = job[c].clause
              BY <2>3, <4>1, <5>1
            <6>2. QED
              BY <4>2, <6>1 DEF Approved, Recorded
          <5>2. CASE job[c].op = "activate"
            <6>1. job[c].seen = "approved"
              BY <4>1, <4>2, <5>2 DEF Allowed, Target, VALID_TRANSITIONS, Statuses, ClauseStatuses
            <6>2. QED
              BY <1>1, <4>1, <4>2, <6>1 DEF ClauseInv, Compilable
          <5>3. QED
            BY <4>1, <5>1, <5>2
        <4>4. \A k \in Clauses : k # job[c].clause => status'[k] = status[k]
          BY <4>1 DEF ClauseInv
        <4>5. QED
          BY <1>1, <4>1, <4>2, <4>3, <4>4 DEF ClauseInv
      <3>2. CASE WriteSuperseded(c)
        <4>1. status' = [status EXCEPT ![job[c].clause] = "superseded"]
          BY <3>2 DEF WriteSuperseded
        <4>2. QED
          BY <1>1, <4>1 DEF ClauseInv, Compilable, Statuses, ClauseStatuses
      <3>3. CASE UNCHANGED status
        BY <1>1, <3>3 DEF ClauseInv
      <3>4. QED
        BY <1>4, <3>1, <3>2, <3>3 DEF SettleClauseOp, Refuse, Reject, FindReplacement, Log
    <2>7. QED
      BY <2>3, <2>4, <2>5, <2>6
  <1>5. Typed' /\ Backed' /\ Read'
    BY <1>2, <1>3, <1>4 DEF ClauseMove
  <1>6. QED
    BY <1>5 DEF ClauseInv

-----------------------------------------------------------------------------
(* Rule sets                                                               *)

\* What is made of approved clauses stays so.
LEMMA SoundStays ==
  ASSUME Approved \subseteq Approved'
  PROVE  Sound \subseteq Sound'
  <1> DEFINE R == [clause : Approved, expression : Expressions]
             S == [clause : Approved', expression : Expressions]
  <1>1. R \subseteq S
    OBVIOUS
  <1> HIDE DEF R, S
  <1>2. Seq(R) \subseteq Seq(S)
    BY <1>1, SeqMonotonic
  <1>3. Sound = Seq(R) /\ Sound' = Seq(S)
    BY DEF Sound, R, S
  <1>4. QED
    BY <1>2, <1>3

LEMMA SoundType == Sound \subseteq Seq(Expected)
  <1> DEFINE R == [clause : Approved, expression : Expressions]
  <1>1. R \subseteq Expected
    BY DEF Approved, Expected
  <1> HIDE DEF R
  <1>2. Seq(R) \subseteq Seq(Expected)
    BY <1>1, SeqMonotonic
  <1>3. QED
    BY <1>2 DEF Sound, R

\* A set of naturals has a least element, and a bounded one a largest.
LEMMA LeastExists ==
  ASSUME NEW U \in SUBSET Nat, U # {}
  PROVE  \E u \in U : \A v \in U : u <= v
  <1> DEFINE R == OpToRel(<, Nat)
  <1>1. \A v, w \in Nat : v < w => <<v, w>> \in R
    BY DEF OpToRel
  <1>2. IsWellFoundedOn(R, Nat)
    BY NatLessThanWellFounded
  <1> HIDE DEF R
  <1>3. PICK u \in U : \A v \in U : ~(<<v, u>> \in R)
    BY <1>2, WFMin
  <1>4. ASSUME NEW v \in U PROVE u <= v
    <2>1. u \in Nat /\ v \in Nat /\ ~(<<v, u>> \in R)
      BY <1>3
    <2>2. ~(v < u)
      BY <1>1, <2>1
    <2>3. QED
      BY <2>1, <2>2
  <1>5. QED
    BY <1>4

LEMMA LargestExists ==
  ASSUME NEW n \in Nat, NEW S \in SUBSET (1..n), S # {}
  PROVE  LargestOf(S) \in S
  <1> DEFINE U == {u \in Nat : \A m \in S : u >= m}
  <1>1. n \in U
    OBVIOUS
  <1>2. PICK u \in U : \A v \in U : u <= v
    <2> HIDE DEF U
    <2>1. U \in SUBSET Nat
      BY DEF U
    <2>2. QED
      BY <1>1, <2>1, LeastExists
  <1>3. u \in Nat /\ \A m \in S : m \in Nat /\ m >= 1 /\ u >= m
    OBVIOUS
  <1>4. u \in S
    <2>1. SUFFICES ASSUME u \notin S PROVE FALSE
      OBVIOUS
    <2>2. u >= 1
      <3>1. PICK m \in S : TRUE
        OBVIOUS
      <3>2. QED
        BY <1>3, <3>1
    <2>3. \A m \in S : u # m
      BY <2>1
    <2>4. u - 1 \in Nat /\ \A m \in S : u - 1 >= m
      BY <1>3, <2>2, <2>3
    <2>5. u - 1 \in U
      BY <2>4
    <2>6. QED
      BY <1>2, <1>3, <2>5
  <1>5. QED
    BY <1>3, <1>4 DEF LargestOf

\* The next version of a name is at most the id the next record gets.
LEMMA NextVersionType ==
  ASSUME SetInv, NEW name
  PROVE  nextVersion(name) \in 1..(Len(sets) + 1)
  <1>1. Len(sets) \in Nat /\ DOMAIN sets = 1..Len(sets)
    BY DEF SetInv
  <1>2. VersionsOf(name) \in SUBSET (1..Len(sets))
    BY <1>1 DEF SetInv, VersionsOf
  <1>3. VersionsOf(name) # {} => LargestOf(VersionsOf(name)) \in 1..Len(sets)
    BY <1>1, <1>2, LargestExists
  <1>4. QED
    BY <1>1, <1>3 DEF nextVersion

\* What a call in flight carries, by the await it is at.
LEMMA SetJobKinds ==
  ASSUME NEW j \in SetJobs
  PROVE  /\ j.at \in {"idle", "returned", "versioned", "created", "found", "current", "copied",
                    "activated"}
         /\ j.at = "versioned" => /\ j.name \in SetNames /\ j.version \in Nat
                                  /\ j.clauses \in ClauseLists
         /\ j.at \in {"created", "found", "current", "copied"} => j.id \in Nat
         /\ j.at \in {"current", "copied"} => j.current \in Nat
  BY DEF SetJobs

\* The active set findActive returns is a set, or none is.
LEMMA FindActiveType ==
  ASSUME SetInv
  PROVE  findActive \in {0} \cup DOMAIN sets
  <1>1. CASE Active = {}
    BY <1>1 DEF findActive
  <1>2. CASE Active # {}
    <2>1. Len(sets) \in Nat /\ DOMAIN sets = 1..Len(sets)
      BY DEF SetInv
    <2>2. Active \subseteq DOMAIN sets
      BY DEF Active
    <2>3. \E i \in Active : \A j \in Active : i <= j
      <3>1. Active \in SUBSET Nat
        BY <2>1, <2>2
      <3>2. QED
        BY <1>2, <3>1, LeastExists
    <2>4. QED
      BY <1>2, <2>2, <2>3 DEF findActive
  <1>3. QED
    BY <1>1, <1>2

\* A step that lets one call move on and may add a record leaves the other calls safe.
LEMMA SetJobMoves ==
  ASSUME SetInv, Approved \subseteq Approved', NEW c \in SetCalls, NEW j \in SetJobs,
         setJob' = [setJob EXCEPT ![c] = j], ruleStore' = ruleStore,
         sets' \in Seq(SetRecords), Len(sets) <= Len(sets'), Len(sets') <= MaxSets,
         \A i \in DOMAIN sets' : sets'[i].version \in 1..i,
         SetJobSafe(c)',
         j.at = "created" => \A d \in SetCalls \ {c} : setJob[d].at = "created" => setJob[d].id # j.id
  PROVE  SetInv'
  <1>1. /\ setJob' \in [SetCalls -> SetJobs] /\ setJob'[c] = j
        /\ \A d \in SetCalls \ {c} : setJob'[d] = setJob[d]
    BY DEF SetInv
  <1>2. /\ Len(sets) \in Nat /\ Len(sets') \in Nat
        /\ DOMAIN sets = 1..Len(sets) /\ DOMAIN sets' = 1..Len(sets')
    BY DEF SetInv
  <1>3. DOMAIN sets \subseteq DOMAIN sets' /\ 1..(Len(sets) + 1) \subseteq 1..(Len(sets') + 1)
    BY <1>2
  <1>4. Sound \subseteq Sound'
    BY SoundStays
  <1>5. ASSUME NEW d \in SetCalls PROVE SetJobSafe(d)'
    <2>1. CASE d = c
      BY <2>1
    <2>2. CASE d # c
      <3>1. SetJobSafe(d) /\ setJob'[d] = setJob[d]
        BY <1>1, <2>2 DEF SetInv
      <3>2. QED
        BY <1>3, <1>4, <3>1 DEF SetJobSafe
    <2>3. QED
      BY <2>1, <2>2
  <1>6. ASSUME NEW d \in SetCalls, NEW e \in SetCalls, setJob'[d].at = "created",
               setJob'[e].at = "created", setJob'[d].id = setJob'[e].id
        PROVE  d = e
    BY <1>1, <1>6 DEF SetInv
  <1>7. \A i \in DOMAIN ruleStore' : ruleStore'[i] \in Sound'
    BY <1>4 DEF SetInv
  <1>8. DOMAIN ruleStore' \subseteq DOMAIN sets'
    BY <1>3 DEF SetInv
  <1>9. QED
    BY <1>1, <1>5, <1>6, <1>7, <1>8 DEF SetInv

\* What happens elsewhere leaves the sets as they are.
LEMMA SetsUntouched ==
  ASSUME SetInv, Approved \subseteq Approved', UNCHANGED setVars
  PROVE  SetInv'
  <1>1. Sound \subseteq Sound'
    BY SoundStays
  <1>2. \A c \in SetCalls : SetJobSafe(c)'
    BY <1>1 DEF SetInv, SetJobSafe, setVars
  <1>3. \A i \in DOMAIN ruleStore' : ruleStore'[i] \in Sound'
    BY <1>1 DEF SetInv, setVars
  <1>4. QED
    BY <1>2, <1>3 DEF SetInv, setVars

\* A step that only lets one call move on.
LEMMA SetJobOnly ==
  ASSUME SetInv, Approved \subseteq Approved', NEW c \in SetCalls, NEW j \in SetJobs,
         setJob' = [setJob EXCEPT ![c] = j], UNCHANGED <<sets, ruleStore>>,
         SetJobSafe(c)', j.at # "created"
  PROVE  SetInv'
  <1>1. /\ sets' \in Seq(SetRecords) /\ Len(sets) <= Len(sets') /\ Len(sets') <= MaxSets
        /\ \A i \in DOMAIN sets' : sets'[i].version \in 1..i
    BY DEF SetInv
  <1>2. QED
    BY <1>1, SetJobMoves

LEMMA BeginCreateKept ==
  ASSUME SetInv, UNCHANGED clauseVars, NEW c \in SetCalls, NEW name \in SetNames, NEW rules \in Sound,
         NEW clauses \in ClauseLists, BeginCreate(c, name, rules, clauses)
  PROVE  SetInv'
  <1> DEFINE j == [at |-> "versioned", name |-> name, version |-> nextVersion(name),
                   rules |-> rules, clauses |-> clauses]
  <1>0. Approved' = Approved
    BY DEF Approved, Recorded, clauseVars
  <1>1. nextVersion(name) \in 1..(Len(sets) + 1)
    BY NextVersionType
  <1>2. rules \in Seq(Expected)
    BY SoundType
  <1>3. Len(sets) \in Nat
    BY DEF SetInv
  <1>4. /\ j \in SetJobs /\ j.at = "versioned" /\ j.version = nextVersion(name) /\ j.rules = rules
    BY <1>1, <1>2, <1>3 DEF SetJobs
  <1>5. setJob' = [setJob EXCEPT ![c] = j] /\ sets' = sets /\ ruleStore' = ruleStore
    BY DEF BeginCreate
  <1> HIDE DEF j
  <1>6. setJob'[c] = j /\ Sound' = Sound
    BY <1>0, <1>5 DEF SetInv, Sound
  <1>7. SetJobSafe(c)'
    BY <1>1, <1>4, <1>5, <1>6 DEF SetJobSafe
  <1>8. QED
    BY <1>0, <1>4, <1>5, <1>7, SetJobOnly

LEMMA BeginActivateKept ==
  ASSUME SetInv, UNCHANGED clauseVars, NEW c \in SetCalls, NEW id \in DOMAIN sets, BeginActivate(c, id)
  PROVE  SetInv'
  <1> DEFINE j == [at |-> "found", id |-> id]
  <1>1. Approved' = Approved
    BY DEF Approved, Recorded, clauseVars
  <1>2. Len(sets) \in Nat /\ id \in Nat
    BY DEF SetInv
  <1>3. j \in SetJobs /\ j.at = "found" /\ j.id = id
    BY <1>2 DEF SetJobs
  <1>4. setJob' = [setJob EXCEPT ![c] = j] /\ sets' = sets /\ ruleStore' = ruleStore
    BY DEF BeginActivate
  <1> HIDE DEF j
  <1>5. setJob'[c] = j
    BY <1>4 DEF SetInv
  <1>6. SetJobSafe(c)'
    BY <1>3, <1>4, <1>5 DEF SetJobSafe
  <1>7. QED
    BY <1>1, <1>3, <1>4, <1>6, SetJobOnly

LEMMA CreateSetKept ==
  ASSUME SetInv, UNCHANGED clauseVars, NEW c \in SetCalls, CreateSet(c)
  PROVE  SetInv'
  <1> DEFINE new == [name |-> setJob[c].name, version |-> setJob[c].version, active |-> FALSE,
                     clauses |-> setJob[c].clauses, of |-> Len(sets) + 1]
             j == [at |-> "created", id |-> Len(sets'), rules |-> setJob[c].rules]
  <1>0. Approved' = Approved /\ Sound' = Sound
    BY DEF Approved, Sound, Recorded, clauseVars
  <1>1. /\ setJob[c] \in SetJobs /\ setJob[c].at = "versioned" /\ Len(sets) < MaxSets
        /\ SetJobSafe(c)
    BY DEF SetInv, CreateSet
  <1>2. /\ new \in SetRecords /\ new.version = setJob[c].version
        /\ new.version \in 1..(Len(sets) + 1)
    <2>1. Len(sets) + 1 \in Nat
      BY DEF SetInv
    <2>2. QED
      BY <1>1, <2>1, SetJobKinds DEF SetRecords, SetJobSafe
  <1>3. sets' = Append(sets, new) /\ setJob' = [setJob EXCEPT ![c] = j] /\ ruleStore' = ruleStore
    BY DEF CreateSet
  <1> HIDE DEF new
  <1>4. /\ sets \in Seq(SetRecords) /\ Len(sets) \in Nat /\ Len(sets') = Len(sets) + 1
        /\ sets' \in Seq(SetRecords) /\ DOMAIN sets = 1..Len(sets) /\ DOMAIN sets' = 1..Len(sets')
        /\ sets'[Len(sets')] = new /\ \A i \in DOMAIN sets : sets'[i] = sets[i]
    BY <1>2, <1>3 DEF SetInv
  <1>5. Len(sets) <= Len(sets') /\ Len(sets') <= MaxSets
    BY <1>1, <1>4, MaxSetsAssumption
  <1>6. \A i \in DOMAIN sets' : sets'[i].version \in 1..i
    <2>1. ASSUME NEW i \in DOMAIN sets' PROVE sets'[i].version \in 1..i
      <3>1. i \in DOMAIN sets \/ i = Len(sets) + 1
        BY <1>4
      <3>2. QED
        BY <1>2, <1>4, <3>1 DEF SetInv
    <2>2. QED
      BY <2>1
  <1>7. /\ j \in SetJobs /\ j.at = "created" /\ j.id = Len(sets) + 1 /\ j.rules = setJob[c].rules
        /\ setJob[c].rules \in Sound
    BY <1>1, <1>4, SoundType DEF SetJobs, SetJobSafe
  <1> HIDE DEF j
  <1>8. setJob'[c] = j
    BY <1>3 DEF SetInv
  <1>9. j.id \in DOMAIN sets' /\ j.id \notin DOMAIN ruleStore
    BY <1>4, <1>7 DEF SetInv
  <1>10. SetJobSafe(c)'
    BY <1>0, <1>3, <1>7, <1>8, <1>9 DEF SetJobSafe
  <1>11. \A d \in SetCalls \ {c} : setJob[d].at = "created" => setJob[d].id # j.id
    BY <1>4, <1>7 DEF SetInv, SetJobSafe
  <1>12. QED
    BY <1>0, <1>3, <1>4, <1>5, <1>6, <1>7, <1>10, <1>11, SetJobMoves

LEMMA StoreRulesKept ==
  ASSUME SetInv, UNCHANGED clauseVars, NEW c \in SetCalls, StoreRules(c)
  PROVE  SetInv'
  <1> DEFINE j == [at |-> "returned"]
  <1>0. Approved' = Approved /\ Sound' = Sound
    BY DEF Approved, Sound, Recorded, clauseVars
  <1>1. /\ setJob[c].at = "created" /\ setJob[c].id \in DOMAIN sets
        /\ setJob[c].id \notin DOMAIN ruleStore /\ setJob[c].rules \in Sound
    BY DEF SetInv, SetJobSafe, StoreRules
  <1>2. setJob' = [setJob EXCEPT ![c] = j] /\ sets' = sets /\ j \in SetJobs /\ j.at = "returned"
    BY DEF StoreRules, SetJobs
  <1> HIDE DEF j
  <1>3. /\ setJob' \in [SetCalls -> SetJobs] /\ setJob'[c] = j
        /\ \A d \in SetCalls \ {c} : setJob'[d] = setJob[d]
    BY <1>2 DEF SetInv
  <1>4. /\ DOMAIN ruleStore' = DOMAIN ruleStore \cup {setJob[c].id}
        /\ ruleStore'[setJob[c].id] = setJob[c].rules
        /\ \A i \in DOMAIN ruleStore : ruleStore'[i] = ruleStore[i]
    BY <1>1 DEF StoreRules
  <1>5. ASSUME NEW d \in SetCalls PROVE SetJobSafe(d)'
    <2>1. CASE d = c
      BY <1>2, <1>3, <2>1 DEF SetJobSafe
    <2>2. CASE d # c
      <3>1. SetJobSafe(d) /\ setJob'[d] = setJob[d]
        BY <1>3, <2>2 DEF SetInv
      <3>2. setJob[d].at = "created" => setJob[d].id # setJob[c].id
        BY <1>1, <2>2 DEF SetInv
      <3>3. QED
        BY <1>0, <1>2, <1>4, <3>1, <3>2 DEF SetJobSafe
    <2>3. QED
      BY <2>1, <2>2
  <1>6. ASSUME NEW d \in SetCalls, NEW e \in SetCalls, setJob'[d].at = "created",
               setJob'[e].at = "created", setJob'[d].id = setJob'[e].id
        PROVE  d = e
    <2>1. d # c /\ e # c
      BY <1>2, <1>3, <1>6
    <2>2. QED
      BY <1>3, <1>6, <2>1 DEF SetInv
  <1>7. \A i \in DOMAIN ruleStore' : ruleStore'[i] \in Sound'
    BY <1>0, <1>1, <1>4 DEF SetInv
  <1>8. DOMAIN ruleStore' \subseteq DOMAIN sets'
    BY <1>1, <1>2, <1>4 DEF SetInv
  <1>9. QED
    BY <1>2, <1>3, <1>5, <1>6, <1>7, <1>8 DEF SetInv

LEMMA FindCurrentKept ==
  ASSUME SetInv, UNCHANGED clauseVars, NEW c \in SetCalls, FindCurrent(c)
  PROVE  SetInv'
  <1> DEFINE raced == \E d \in SetCalls : Switching(d)
             j == [at |-> "current", id |-> setJob[c].id, current |-> findActive, raced |-> raced]
  <1>1. Approved' = Approved
    BY DEF Approved, Recorded, clauseVars
  <1>2. setJob[c].at = "found" /\ setJob[c].id \in DOMAIN sets
    BY DEF SetInv, SetJobSafe, FindCurrent
  <1>3. findActive \in {0} \cup DOMAIN sets
    BY FindActiveType
  <1>4. setJob[c].id \in Nat /\ findActive \in Nat
    BY <1>2, <1>3 DEF SetInv
  <1>5. /\ j \in SetJobs /\ j.at = "current" /\ j.id = setJob[c].id /\ j.current = findActive
    <2>1. raced \in BOOLEAN
      OBVIOUS
    <2> HIDE DEF raced
    <2>2. QED
      BY <1>4, <2>1 DEF SetJobs
  <1>6. setJob' = [setJob EXCEPT ![c] = j] /\ UNCHANGED <<sets, ruleStore>>
    BY DEF FindCurrent
  <1> HIDE DEF j
  <1>7. setJob'[c] = j
    BY <1>6 DEF SetInv
  <1>8. SetJobSafe(c)'
    BY <1>2, <1>3, <1>5, <1>6, <1>7 DEF SetJobSafe
  <1>9. QED
    BY <1>1, <1>5, <1>6, <1>8, SetJobOnly

LEMMA CopyCurrentKept ==
  ASSUME SetInv, UNCHANGED clauseVars, NEW c \in SetCalls, CopyCurrent(c)
  PROVE  SetInv'
  <1> DEFINE cur == setJob[c].current
             new == [sets[cur] EXCEPT !.active = FALSE]
             j == [setJob[c] EXCEPT !.at = "copied"]
  <1>0. Approved' = Approved
    BY DEF Approved, Recorded, clauseVars
  <1>1. /\ setJob[c].at = "current" /\ setJob[c].id \in DOMAIN sets /\ cur \in DOMAIN sets
        /\ Len(sets) < MaxSets
    BY DEF SetInv, SetJobSafe, CopyCurrent, Replaces
  <1>2. sets[cur] \in SetRecords /\ sets[cur].version \in 1..cur
    BY <1>1 DEF SetInv
  <1>3. new \in SetRecords /\ new.version = sets[cur].version
    BY <1>2 DEF SetRecords
  <1>4. setJob[c] \in [at : {"current", "copied"}, id : Nat, current : Nat, raced : BOOLEAN]
    BY <1>1 DEF SetInv, SetJobs
  <1>5. /\ j \in SetJobs /\ j.at = "copied" /\ j.id = setJob[c].id /\ j.current = cur
    BY <1>4 DEF SetJobs
  <1>6. sets' = Append(sets, new) /\ setJob' = [setJob EXCEPT ![c] = j] /\ ruleStore' = ruleStore
    BY DEF CopyCurrent
  <1> HIDE DEF new, j
  <1>7. /\ sets \in Seq(SetRecords) /\ Len(sets) \in Nat /\ Len(sets') = Len(sets) + 1
        /\ sets' \in Seq(SetRecords) /\ DOMAIN sets = 1..Len(sets) /\ DOMAIN sets' = 1..Len(sets')
        /\ sets'[Len(sets')] = new /\ \A i \in DOMAIN sets : sets'[i] = sets[i]
    BY <1>3, <1>6 DEF SetInv
  <1>8. Len(sets) <= Len(sets') /\ Len(sets') <= MaxSets
    BY <1>1, <1>7, MaxSetsAssumption
  <1>9. \A i \in DOMAIN sets' : sets'[i].version \in 1..i
    <2>1. ASSUME NEW i \in DOMAIN sets' PROVE sets'[i].version \in 1..i
      <3>1. i \in DOMAIN sets \/ i = Len(sets) + 1
        BY <1>7
      <3>2. cur <= Len(sets) + 1
        BY <1>1, <1>7
      <3>3. QED
        BY <1>1, <1>2, <1>3, <1>7, <3>1, <3>2 DEF SetInv
    <2>2. QED
      BY <2>1
  <1>10. setJob'[c] = j
    BY <1>6 DEF SetInv
  <1>11. DOMAIN sets \subseteq DOMAIN sets'
    BY <1>7
  <1>12. SetJobSafe(c)'
    BY <1>1, <1>5, <1>10, <1>11 DEF SetJobSafe
  <1>13. QED
    BY <1>0, <1>5, <1>6, <1>7, <1>8, <1>9, <1>12, SetJobMoves

\* Switching changes the active flags only.
LEMMA Switched ==
  ASSUME SetInv, NEW id, NEW current, SwitchTo(id, current)
  PROVE  /\ sets' \in Seq(SetRecords) /\ Len(sets') = Len(sets)
         /\ \A i \in DOMAIN sets' : sets'[i].version \in 1..i
         /\ DOMAIN sets' = DOMAIN sets
         /\ \A i \in DOMAIN sets :
              /\ sets'[i].active <=> i = id \/ (sets[i].active /\ i # current)
              /\ sets'[i].of = sets[i].of
  <1>1. sets \in Seq(SetRecords) /\ Len(sets) \in Nat /\ DOMAIN sets = 1..Len(sets)
    BY DEF SetInv
  <1> DEFINE on(i) == i = id \/ (sets[i].active /\ i # current)
             s(i) == [sets[i] EXCEPT !.active = on(i)]
  <1>2. sets' = [i \in 1..Len(sets) |-> s(i)]
    BY <1>1 DEF SwitchTo
  <1>3. ASSUME NEW i \in 1..Len(sets)
        PROVE  /\ s(i) \in SetRecords /\ s(i).version = sets[i].version /\ s(i).active = on(i)
               /\ s(i).of = sets[i].of
    <2> DEFINE b == on(i)
    <2>1. sets[i] \in SetRecords /\ b \in BOOLEAN
      BY <1>1
    <2> HIDE DEF b
    <2>2. LET t == [sets[i] EXCEPT !.active = b] IN
          t \in SetRecords /\ t.version = sets[i].version /\ t.active = b /\ t.of = sets[i].of
      BY <2>1 DEF SetRecords
    <2>3. QED
      BY <2>2 DEF b
  <1> HIDE DEF s
  <1>4. sets' \in Seq(SetRecords) /\ Len(sets') = Len(sets) /\ DOMAIN sets' = 1..Len(sets)
    BY <1>1, <1>2, <1>3, IsASeq
  <1>5. \A i \in DOMAIN sets : /\ sets'[i].version = sets[i].version
                              /\ sets'[i].active = on(i) /\ sets'[i].of = sets[i].of
    BY <1>1, <1>2, <1>3
  <1>6. QED
    BY <1>1, <1>4, <1>5 DEF SetInv

LEMMA ActivateKept ==
  ASSUME SetInv, UNCHANGED clauseVars, NEW c \in SetCalls, Activate(c)
  PROVE  SetInv'
  <1> DEFINE j == [at |-> "activated", raced |-> setJob[c].raced]
  <1>1. Approved' = Approved
    BY DEF Approved, Recorded, clauseVars
  <1>2. j \in SetJobs /\ j.at = "activated"
    <2>1. setJob[c].raced \in BOOLEAN
      BY DEF SetInv, SetJobs, Activate
    <2>2. QED
      BY <2>1 DEF SetJobs
  <1>3. setJob' = [setJob EXCEPT ![c] = j] /\ ruleStore' = ruleStore
    BY DEF Activate
  <1> HIDE DEF j
  <1>4. /\ sets' \in Seq(SetRecords) /\ Len(sets') = Len(sets)
        /\ \A i \in DOMAIN sets' : sets'[i].version \in 1..i
    BY Switched DEF Activate
  <1>5. Len(sets) <= Len(sets') /\ Len(sets') <= MaxSets
    BY <1>4 DEF SetInv
  <1>6. setJob'[c] = j
    BY <1>3 DEF SetInv
  <1>7. SetJobSafe(c)'
    BY <1>2, <1>6 DEF SetJobSafe
  <1>8. QED
    BY <1>1, <1>2, <1>3, <1>4, <1>5, <1>7, SetJobMoves

LEMMA SettleSetOpKept ==
  ASSUME SetInv, UNCHANGED clauseVars, NEW c \in SetCalls, SettleSetOp(c)
  PROVE  SetInv'
  BY CreateSetKept, StoreRulesKept, FindCurrentKept, CopyCurrentKept, ActivateKept DEF SettleSetOp

-----------------------------------------------------------------------------
(* Compilations                                                            *)

\* A clause read with a status that compiles gives rules of an approved clause, any other none.
LEMMA RulesAreSound ==
  ASSUME NEW k \in Clauses, NEW seen, Compilable(seen) => k \in Approved
  PROVE  RulesFrom(k, seen) \in Sound
  <1> DEFINE R == [clause : Approved, expression : Expressions]
             e == expressionOf(Content[k])
             r == [clause |-> k, expression |-> e]
  <1>1. CASE Compilable(seen) /\ e # NoExpression
    <2>1. e \in Expressions
      BY <1>1, ContentAssumption
    <2>2. RulesFrom(k, seen) = <<r>>
      BY <1>1 DEF RulesFrom
    <2>3. r \in R
      BY <1>1, <2>1
    <2> HIDE DEF r, R
    <2>4. <<r>> \in Seq(R)
      BY <2>3
    <2>5. QED
      BY <2>2, <2>4 DEF Sound, R
  <1>2. CASE ~(Compilable(seen) /\ e # NoExpression)
    <2>1. RulesFrom(k, seen) = <<>>
      BY <1>2 DEF RulesFrom
    <2>2. QED
      BY <2>1 DEF Sound
  <1>3. QED
    BY <1>1, <1>2

\* The parts of the invariant about one compilation.
CompileSafe(c) ==
  /\ compiling[c].at = "looking" /\ Compilable(compiling[c].seen) =>
       Head(compiling[c].todo) \in Approved
  /\ compiling[c].at \in {"looking", "compiled"} => compiling[c].rules \in Sound

LEMMA CompileMoves ==
  ASSUME CompileInv, Approved \subseteq Approved', NEW c \in Compiles, NEW j \in Compilings,
         compiling' = [compiling EXCEPT ![c] = j], CompileSafe(c)'
  PROVE  CompileInv'
  <1>1. /\ compiling' \in [Compiles -> Compilings]
        /\ \A d \in Compiles \ {c} : compiling'[d] = compiling[d]
    BY DEF CompileInv
  <1>2. Sound \subseteq Sound'
    BY SoundStays
  <1>3. ASSUME NEW d \in Compiles PROVE CompileSafe(d)'
    <2>1. CASE d = c
      BY <2>1
    <2>2. CASE d # c
      BY <1>1, <1>2, <2>2 DEF CompileInv, CompileSafe
    <2>3. QED
      BY <2>1, <2>2
  <1>4. QED
    BY <1>1, <1>3 DEF CompileInv, CompileSafe

LEMMA CompileUntouched ==
  ASSUME CompileInv, Approved \subseteq Approved', UNCHANGED compiling
  PROVE  CompileInv'
  <1>1. Sound \subseteq Sound'
    BY SoundStays
  <1>2. QED
    BY <1>1 DEF CompileInv

LEMMA BeginCompileKept ==
  ASSUME ClauseInv, CompileInv, NEW c \in Compiles, NEW ids \in ClauseLists, BeginCompile(c, ids)
  PROVE  CompileInv'
  <1> DEFINE j == [at |-> "looking", ids |-> ids, todo |-> ids, seen |-> status[Head(ids)],
                   rules |-> <<>>]
  <1>1. Approved' = Approved /\ Sound' = Sound
    BY DEF Approved, Sound, Recorded, BeginCompile, clauseVars
  <1>2. ids \in NonEmpty /\ Head(ids) \in Clauses
    BY ClauseListsAssumption, HeadTailProperties DEF NonEmpty
  <1>3. <<>> \in Seq(Expected) /\ <<>> \in Sound
    BY DEF Sound
  <1>4. status[Head(ids)] \in Statuses
    BY <1>2 DEF ClauseInv
  <1>5. /\ j \in Compilings /\ j.at = "looking" /\ j.todo = ids /\ j.seen = status[Head(ids)]
        /\ j.rules = <<>>
    BY <1>2, <1>3, <1>4 DEF Compilings
  <1>6. compiling' = [compiling EXCEPT ![c] = j]
    BY DEF BeginCompile
  <1> HIDE DEF j
  <1>7. compiling'[c] = j
    BY <1>6 DEF CompileInv
  <1>8. CompileSafe(c)'
    BY <1>1, <1>2, <1>3, <1>5, <1>7 DEF CompileSafe, ClauseInv
  <1>9. QED
    BY <1>1, <1>5, <1>6, <1>8, CompileMoves

LEMMA RestOfList ==
  ASSUME NEW s \in Seq(Clauses), s # <<>>, Len(s) # 1
  PROVE  Tail(s) \in NonEmpty /\ Head(Tail(s)) = s[2] /\ s[2] \in Clauses
  <1>1. Len(s) \in Nat \ {0}
    BY EmptySeq
  <1>2. Len(s) >= 2
    <2>1. \A n \in Nat \ {0} : n # 1 => n >= 2
      OBVIOUS
    <2>2. QED
      BY <1>1, <2>1
  <1>3. /\ Tail(s) \in Seq(Clauses) /\ Len(Tail(s)) = Len(s) - 1
        /\ \A i \in 1..Len(Tail(s)) : Tail(s)[i] = s[i + 1]
    BY HeadTailProperties
  <1>4. Len(Tail(s)) # 0 /\ Tail(s)[1] = s[2]
    BY <1>1, <1>2, <1>3
  <1>5. Tail(s) # <<>>
    BY <1>4, EmptySeq
  <1>6. Head(Tail(s)) = Tail(s)[1]
    BY <1>3, <1>5
  <1>7. s[2] \in Clauses
    BY <1>1, <1>2, ElementOfSeq
  <1>8. QED
    BY <1>3, <1>4, <1>5, <1>6, <1>7 DEF NonEmpty

LEMMA CompileClauseKept ==
  ASSUME ClauseInv, CompileInv, NEW c \in Compiles, CompileClause(c)
  PROVE  CompileInv'
  <1>0. PICK made \in {<<>>, RulesFrom(Head(compiling[c].todo), compiling[c].seen)} :
          compiling' = [compiling EXCEPT ![c] =
            IF Len(compiling[c].todo) = 1
            THEN [at |-> "compiled", ids |-> compiling[c].ids, rules |-> compiling[c].rules \o made]
            ELSE [compiling[c] EXCEPT !.todo = Tail(compiling[c].todo),
                                      !.seen = status[compiling[c].todo[2]],
                                      !.rules = compiling[c].rules \o made]]
    BY DEF CompileClause, CompileInv
  <1> DEFINE todo == compiling[c].todo
             seen == compiling[c].seen
             rules == compiling[c].rules \o made
             done == [at |-> "compiled", ids |-> compiling[c].ids, rules |-> rules]
             more == [compiling[c] EXCEPT !.todo = Tail(todo), !.seen = status[todo[2]], !.rules = rules]
  <1>1. Approved' = Approved /\ Sound' = Sound
    BY DEF Approved, Sound, Recorded, CompileClause, clauseVars
  <1>2. /\ compiling[c] \in [at : {"looking"}, ids : ClauseLists, todo : NonEmpty, seen : Statuses,
                             rules : Seq(Expected)]
        /\ Compilable(seen) => Head(todo) \in Approved
        /\ compiling[c].rules \in Sound
    BY DEF CompileInv, CompileClause, Compilings
  <1>3. todo \in Seq(Clauses) /\ todo # <<>>
    BY <1>2 DEF NonEmpty
  <1>4. Head(todo) \in Clauses
    BY <1>3, HeadTailProperties
  <1>5. made \in Sound
    <2>1. <<>> \in Sound
      BY DEF Sound
    <2>2. QED
      BY <1>0, <1>2, <1>4, <2>1, RulesAreSound
  <1>6. rules \in Sound /\ rules \in Seq(Expected)
    <2>1. rules \in Sound
      BY <1>2, <1>5, ConcatProperties DEF Sound
    <2>2. QED
      BY <2>1, SoundType
  <1> HIDE DEF rules
  <1>7. CASE Len(todo) = 1
    <2>1. done \in Compilings /\ done.at = "compiled" /\ done.rules = rules
      BY <1>2, <1>6 DEF Compilings
    <2>2. compiling' = [compiling EXCEPT ![c] = done]
      BY <1>0, <1>7 DEF rules
    <2> HIDE DEF done
    <2>3. compiling'[c] = done
      BY <2>2 DEF CompileInv
    <2>4. CompileSafe(c)'
      BY <1>1, <1>6, <2>1, <2>3 DEF CompileSafe
    <2>5. QED
      BY <1>1, <2>1, <2>2, <2>4, CompileMoves
  <1>8. CASE Len(todo) # 1
    <2>1. /\ Tail(todo) \in NonEmpty /\ Head(Tail(todo)) = todo[2] /\ todo[2] \in Clauses
      BY <1>3, <1>8, RestOfList
    <2>2. status[todo[2]] \in Statuses
      BY <2>1 DEF ClauseInv
    <2>3. /\ more \in Compilings /\ more.at = "looking" /\ more.todo = Tail(todo)
          /\ more.seen = status[todo[2]] /\ more.rules = rules
      <3> DEFINE t == Tail(todo)
                 n == status[todo[2]]
                 x == [compiling[c] EXCEPT !.todo = t]
                 y == [x EXCEPT !.seen = n]
      <3>1. t \in NonEmpty /\ n \in Statuses /\ more = [y EXCEPT !.rules = rules]
        BY <2>1, <2>2
      <3> DEFINE Looking == [at : {"looking"}, ids : ClauseLists, todo : NonEmpty, seen : Statuses,
                             rules : Seq(Expected)]
      <3> HIDE DEF t, n, more
      <3>2. x \in Looking /\ x.todo = t
        BY <1>2, <3>1
      <3> HIDE DEF x
      <3>3. y \in Looking /\ y.todo = t /\ y.seen = n
        BY <3>1, <3>2
      <3> HIDE DEF y
      <3>4. /\ more \in Looking /\ more.at = "looking" /\ more.todo = t /\ more.seen = n
            /\ more.rules = rules
        BY <1>6, <3>1, <3>3
      <3>5. QED
        BY <3>4 DEF Compilings, t, n
    <2>4. compiling' = [compiling EXCEPT ![c] = more]
      BY <1>0, <1>8 DEF rules
    <2> HIDE DEF more
    <2>5. compiling'[c] = more
      BY <2>4 DEF CompileInv
    <2>6. CompileSafe(c)'
      BY <1>1, <1>6, <2>1, <2>3, <2>5 DEF CompileSafe, ClauseInv
    <2>7. QED
      BY <1>1, <2>3, <2>4, <2>6, CompileMoves
  <1>9. QED
    BY <1>7, <1>8

\* Publishing hands over sound rules and leaves the compilation published.
LEMMA PublishKept ==
  ASSUME CompileInv, SetInv, NEW c \in Compiles, NEW call \in SetCalls, NEW name \in SetNames,
         Publish(c, call, name)
  PROVE  CompileInv' /\ SetInv'
  <1> DEFINE j == [at |-> "published"]
  <1>1. Approved' = Approved /\ UNCHANGED clauseVars
    BY DEF Approved, Recorded, Publish, clauseVars
  <1>2. /\ compiling[c].at = "compiled" /\ compiling[c].rules \in Sound
        /\ compiling[c].ids \in ClauseLists
    BY DEF CompileInv, Publish, Compilings
  <1>3. SetInv'
    BY <1>1, <1>2, BeginCreateKept DEF Publish
  <1>4. j \in Compilings /\ j.at = "published"
    BY DEF Compilings
  <1>5. compiling' = [compiling EXCEPT ![c] = j]
    BY DEF Publish
  <1> HIDE DEF j
  <1>6. compiling'[c] = j
    BY <1>5 DEF CompileInv
  <1>7. CompileSafe(c)'
    BY <1>4, <1>6 DEF CompileSafe
  <1>8. QED
    BY <1>1, <1>3, <1>4, <1>5, <1>7, CompileMoves

-----------------------------------------------------------------------------
(* Evaluations                                                             *)

\* Stored rules are never replaced, and a record remains what it is a record of.
StoreGrows ==
  /\ \A i \in DOMAIN ruleStore : i \in DOMAIN ruleStore' /\ ruleStore'[i] = ruleStore[i]
  /\ \A i \in DOMAIN sets : i \in DOMAIN sets' /\ sets'[i].of = sets[i].of

LEMMA StoreOnlyGrows ==
  ASSUME SetInv, NEW c \in SetCalls, SettleSetOp(c)
  PROVE  StoreGrows
  <1>1. CASE StoreRules(c)
    <2>1. setJob[c].id \notin DOMAIN ruleStore
      BY <1>1 DEF SetInv, SetJobSafe, StoreRules
    <2>2. QED
      BY <1>1, <2>1 DEF StoreRules, StoreGrows
  <1>2. CASE FindCurrent(c)
    BY <1>2 DEF FindCurrent, StoreGrows
  <1>3. ASSUME NEW r, sets' = Append(sets, r), ruleStore' = ruleStore PROVE StoreGrows
    <2>1. \A i \in DOMAIN sets : i \in DOMAIN sets' /\ sets'[i] = sets[i]
      BY <1>3 DEF SetInv
    <2>2. QED
      BY <1>3, <2>1 DEF StoreGrows
  <1>4. CASE CreateSet(c) \/ CopyCurrent(c)
    BY <1>3, <1>4 DEF CreateSet, CopyCurrent
  <1>5. CASE Activate(c)
    BY <1>5, Switched DEF Activate, StoreGrows
  <1>6. QED
    BY <1>1, <1>2, <1>4, <1>5 DEF SettleSetOp

-----------------------------------------------------------------------------
(* Records and their rules                                                 *)

\* A step of a call that neither was nor comes to be about to store rules.
LEMMA StoringStays ==
  ASSUME SetInv, NEW c \in SetCalls, setJob[c].at # "created", NEW j, j.at # "created",
         setJob' = [setJob EXCEPT ![c] = j], NEW i
  PROVE  Storing(i)' <=> Storing(i)
  <1>1. setJob'[c] = j /\ \A d \in SetCalls \ {c} : setJob'[d] = setJob[d]
    BY DEF SetInv
  <1>2. QED
    BY <1>1 DEF Storing

LEMMA LinkedUntouched ==
  ASSUME SetLinked, UNCHANGED setVars
  PROVE  SetLinked'
  BY DEF SetLinked, Original, Storing, setVars

\* A call begins.
LEMMA LinkedBegin ==
  ASSUME SetInv, SetLinked, NEW c \in SetCalls, setJob[c] = IdleSetJob, NEW j, j.at # "created",
         setJob' = [setJob EXCEPT ![c] = j], UNCHANGED <<sets, ruleStore>>
  PROVE  SetLinked'
  <1>1. setJob[c].at # "created"
    BY DEF IdleSetJob
  <1>2. \A i : Storing(i)' <=> Storing(i)
    BY <1>1, StoringStays
  <1>3. QED
    BY <1>2 DEF SetLinked, Original

LEMMA LinkedKept ==
  ASSUME SetInv, SetLinked, NEW c \in SetCalls, SettleSetOp(c)
  PROVE  SetLinked'
  <1>0. Len(sets) \in Nat /\ DOMAIN sets = 1..Len(sets) /\ DOMAIN ruleStore \subseteq DOMAIN sets
    BY DEF SetInv
  <1>1. CASE CreateSet(c)
    <2> DEFINE new == [name |-> setJob[c].name, version |-> setJob[c].version, active |-> FALSE,
                       clauses |-> setJob[c].clauses, of |-> Len(sets) + 1]
               j == [at |-> "created", id |-> Len(sets'), rules |-> setJob[c].rules]
    <2>1. /\ setJob[c].at = "versioned" /\ sets' = Append(sets, new) /\ new.of = Len(sets) + 1
          /\ setJob' = [setJob EXCEPT ![c] = j] /\ ruleStore' = ruleStore
          /\ j.at = "created" /\ j.id = Len(sets')
      BY <1>1 DEF CreateSet
    <2> HIDE DEF new, j
    <2>2. /\ Len(sets') = Len(sets) + 1 /\ DOMAIN sets' = 1..(Len(sets) + 1)
          /\ sets'[Len(sets) + 1] = new /\ \A i \in DOMAIN sets : sets'[i] = sets[i]
      BY <2>1 DEF SetInv
    <2>3. setJob'[c] = j /\ \A d \in SetCalls \ {c} : setJob'[d] = setJob[d]
      BY <2>1 DEF SetInv
    <2>4. \A i \in DOMAIN sets : Storing(i)' <=> Storing(i)
      BY <1>0, <2>1, <2>2, <2>3 DEF Storing
    <2>5. \A i : i = Len(sets) + 1 => Storing(i)'
      BY <2>1, <2>2, <2>3 DEF Storing
    <2>6. ASSUME NEW i \in DOMAIN sets'
          PROVE  sets'[i].of \in 1..i /\ (Original(i)' <=> i \in DOMAIN ruleStore' \/ Storing(i)')
      <3>1. CASE i \in DOMAIN sets
        BY <2>1, <2>2, <2>4, <3>1 DEF SetLinked, Original
      <3>2. CASE i = Len(sets) + 1
        BY <1>0, <2>1, <2>2, <2>5, <3>2 DEF Original
      <3>3. QED
        BY <1>0, <2>2, <3>1, <3>2
    <2>7. QED
      BY <2>6 DEF SetLinked
  <1>2. CASE StoreRules(c)
    <2>1. /\ setJob[c].at = "created" /\ sets' = sets
          /\ DOMAIN ruleStore' = DOMAIN ruleStore \cup {setJob[c].id}
      BY <1>2 DEF StoreRules
    <2>2. setJob'[c].at = "returned" /\ \A d \in SetCalls \ {c} : setJob'[d] = setJob[d]
      BY <1>2 DEF StoreRules, SetInv
    <2>3. ASSUME NEW i
          PROVE  (i \in DOMAIN ruleStore' \/ Storing(i)') <=> (i \in DOMAIN ruleStore \/ Storing(i))
      BY <2>1, <2>2 DEF Storing
    <2>4. QED
      BY <2>1, <2>3 DEF SetLinked, Original
  <1>3. CASE FindCurrent(c)
    <2> DEFINE j == [at |-> "current", id |-> setJob[c].id, current |-> findActive,
                     raced |-> \E d \in SetCalls : Switching(d)]
    <2>1. /\ setJob[c].at # "created" /\ j.at # "created" /\ setJob' = [setJob EXCEPT ![c] = j]
          /\ UNCHANGED <<sets, ruleStore>>
      BY <1>3 DEF FindCurrent
    <2> HIDE DEF j
    <2>2. \A i : Storing(i)' <=> Storing(i)
      BY <2>1, StoringStays
    <2>3. QED
      BY <2>1, <2>2 DEF SetLinked, Original
  <1>4. CASE CopyCurrent(c)
    <2> DEFINE cur == setJob[c].current
               new == [sets[cur] EXCEPT !.active = FALSE]
               j == [setJob[c] EXCEPT !.at = "copied"]
    <2>1. /\ setJob[c].at = "current" /\ cur \in DOMAIN sets
          /\ sets' = Append(sets, new) /\ setJob' = [setJob EXCEPT ![c] = j] /\ ruleStore' = ruleStore
      BY <1>4 DEF SetInv, SetJobSafe, CopyCurrent, Replaces
    <2>2. setJob[c] \in [at : {"current", "copied"}, id : Nat, current : Nat, raced : BOOLEAN]
      BY <2>1 DEF SetInv, SetJobs
    <2>3. j.at = "copied"
      BY <2>2
    <2>4. new.of = sets[cur].of
      <3>1. sets[cur] \in SetRecords
        BY <2>1 DEF SetInv
      <3>2. QED
        BY <3>1 DEF SetRecords
    <2> HIDE DEF new, j
    <2>5. \A i : Storing(i)' <=> Storing(i)
      BY <2>1, <2>3, StoringStays
    <2>6. /\ DOMAIN sets' = 1..(Len(sets) + 1) /\ sets'[Len(sets) + 1] = new
          /\ \A i \in DOMAIN sets : sets'[i] = sets[i]
      BY <2>1 DEF SetInv
    <2>7. ~Storing(Len(sets) + 1) /\ Len(sets) + 1 \notin DOMAIN ruleStore
      BY <1>0 DEF Storing, SetInv, SetJobSafe
    <2>8. sets[cur].of \in 1..cur /\ cur \in 1..Len(sets)
      BY <1>0, <2>1 DEF SetLinked
    <2>9. ASSUME NEW i \in DOMAIN sets'
          PROVE  sets'[i].of \in 1..i /\ (Original(i)' <=> i \in DOMAIN ruleStore' \/ Storing(i)')
      <3>1. CASE i \in DOMAIN sets
        BY <2>1, <2>5, <2>6, <3>1 DEF SetLinked, Original
      <3>2. CASE i = Len(sets) + 1
        <4>1. sets'[i].of \in 1..i /\ sets'[i].of # i
          BY <1>0, <2>4, <2>6, <2>8, <3>2
        <4>2. QED
          BY <2>1, <2>5, <2>7, <3>2, <4>1 DEF Original
      <3>3. QED
        BY <1>0, <2>6, <3>1, <3>2
    <2>10. QED
      BY <2>9 DEF SetLinked
  <1>5. CASE Activate(c)
    <2> DEFINE j == [at |-> "activated", raced |-> setJob[c].raced]
    <2>1. /\ setJob[c].at # "created" /\ j.at # "created" /\ setJob' = [setJob EXCEPT ![c] = j]
          /\ ruleStore' = ruleStore
      BY <1>5 DEF Activate
    <2> HIDE DEF j
    <2>2. \A i : Storing(i)' <=> Storing(i)
      BY <2>1, StoringStays
    <2>3. DOMAIN sets' = DOMAIN sets /\ \A i \in DOMAIN sets : sets'[i].of = sets[i].of
      BY <1>5, Switched DEF Activate
    <2>4. QED
      BY <2>1, <2>2, <2>3 DEF SetLinked, Original
  <1>6. QED
    BY <1>1, <1>2, <1>3, <1>4, <1>5 DEF SettleSetOp

-----------------------------------------------------------------------------
(* What an evaluation returned                                             *)

\* What an evaluation returned: sound rules, those of its set.
FlowSafe(f) ==
  /\ flow[f].at \in {"finding", "returned"} => flow[f].set \in {0} \cup DOMAIN sets
  /\ flow[f].at = "returned" =>
    /\ flow[f].rules \in Sound
    /\ flow[f].set = 0 => flow[f].outcome = "skipped" /\ flow[f].rules = <<>>
    /\ flow[f].set # 0 => flow[f].outcome # "skipped" /\ Followed(f)

LEMMA FlowsStay ==
  ASSUME FlowInv, Approved \subseteq Approved', StoreGrows, NEW f \in Flows, flow'[f] = flow[f]
  PROVE  FlowSafe(f)'
  <1>1. Sound \subseteq Sound'
    BY SoundStays
  <1>2. FlowSafe(f)
    BY DEF FlowInv, FlowSafe
  <1>3. flow[f].set \in DOMAIN sets => (Original(flow[f].set)' <=> Original(flow[f].set))
    BY DEF Original, StoreGrows
  <1>4. flow[f].set \in DOMAIN sets /\ Followed(f) => Followed(f)'
    BY <1>3 DEF Followed, StoreGrows
  <1>5. QED
    BY <1>1, <1>2, <1>4 DEF FlowSafe, StoreGrows

LEMMA FlowUntouched ==
  ASSUME FlowInv, Approved \subseteq Approved', StoreGrows, UNCHANGED flow
  PROVE  FlowInv'
  <1>1. \A f \in Flows : FlowSafe(f)'
    BY FlowsStay
  <1>2. QED
    BY <1>1 DEF FlowInv, FlowSafe

LEMMA FlowMoves ==
  ASSUME FlowInv, Approved \subseteq Approved', StoreGrows, NEW f \in Flows, NEW j \in FlowStates,
         flow' = [flow EXCEPT ![f] = j], FlowSafe(f)'
  PROVE  FlowInv'
  <1>1. /\ flow' \in [Flows -> FlowStates]
        /\ \A g \in Flows \ {f} : flow'[g] = flow[g]
    BY DEF FlowInv
  <1>2. \A g \in Flows : FlowSafe(g)'
    BY <1>1, FlowsStay
  <1>3. QED
    BY <1>1, <1>2 DEF FlowInv, FlowSafe

LEMMA BeginFlowKept ==
  ASSUME SetInv, FlowInv, NEW f \in Flows, NEW d \in Contexts, BeginFlow(f, d)
  PROVE  FlowInv'
  <1> DEFINE j == [at |-> "finding", context |-> d, set |-> findActive]
  <1>1. Approved' = Approved /\ StoreGrows
    BY DEF Approved, Recorded, StoreGrows, BeginFlow, clauseVars, setVars
  <1>2. findActive \in Nat
    BY FindActiveType DEF SetInv
  <1>3. j \in FlowStates /\ j.at = "finding" /\ j.set \in {0} \cup DOMAIN sets
    BY <1>2, FindActiveType DEF FlowStates
  <1>4. flow' = [flow EXCEPT ![f] = j]
    BY DEF BeginFlow
  <1> HIDE DEF j
  <1>5. flow'[f] = j
    BY <1>4 DEF FlowInv
  <1>6. FlowSafe(f)'
    BY <1>1, <1>3, <1>5 DEF FlowSafe, StoreGrows
  <1>7. QED
    BY <1>1, <1>3, <1>4, <1>6, FlowMoves

LEMMA EnforceKept ==
  ASSUME SetInv, SetLinked, FlowInv, NEW f \in Flows, Enforce(f)
  PROVE  FlowInv'
  <1> DEFINE d == flow[f].context
             set == flow[f].set
             rules == IF set = 0 THEN <<>> ELSE getRulesForSet(set)
             outcome == IF set = 0 THEN "skipped"
                        ELSE IF BlockedBy(rules, d) = {} THEN "passed" ELSE "blocked"
             early == Storing(set)
             j == [at |-> "returned", context |-> d, set |-> set, rules |-> rules, early |-> early,
                   outcome |-> outcome]
  <1>1. /\ Approved' = Approved /\ Sound' = Sound /\ StoreGrows /\ ruleStore' = ruleStore
        /\ sets' = sets
    BY DEF Approved, Sound, Recorded, StoreGrows, Enforce, clauseVars, setVars
  <1>2. d \in Contexts /\ set \in Nat /\ set \in {0} \cup DOMAIN sets
    BY DEF FlowInv, FlowStates, Enforce
  <1>3. <<>> \in Sound
    BY DEF Sound
  <1>4. /\ rules \in Sound
        /\ set = 0 => rules = <<>>
        /\ set # 0 /\ set \notin DOMAIN ruleStore => rules = <<>>
        /\ set # 0 /\ set \in DOMAIN ruleStore => rules = ruleStore[set]
    BY <1>3 DEF getRulesForSet, SetInv
  <1>5. rules \in Seq(Expected)
    BY <1>4, SoundType
  <1>6. early \in BOOLEAN
    BY DEF Storing
  <1>7. set # 0 => /\ Original(set) <=> set \in DOMAIN ruleStore \/ early
                   /\ early => set \notin DOMAIN ruleStore
    BY <1>2 DEF SetLinked, Storing, SetInv, SetJobSafe
  <1> HIDE DEF rules, early
  <1>8. /\ outcome \in Outcomes
        /\ set = 0 <=> outcome = "skipped"
        /\ set # 0 => outcome = IF BlockedBy(rules, d) = {} THEN "passed" ELSE "blocked"
        /\ set # 0 /\ rules = <<>> => outcome = "passed"
    <2>1. rules = <<>> => BlockedBy(rules, d) = {}
      BY DEF BlockedBy, Range
    <2>2. QED
      BY <2>1 DEF Outcomes
  <1> HIDE DEF outcome
  <1>9. /\ j \in FlowStates /\ j.at = "returned" /\ j.set = set /\ j.rules = rules
        /\ j.outcome = outcome /\ j.context = d /\ j.early = early
    BY <1>2, <1>5, <1>6, <1>8 DEF FlowStates
  <1>10. flow' = [flow EXCEPT ![f] = j]
    BY DEF Enforce, rules, outcome, early
  <1> HIDE DEF j
  <1>11. flow'[f] = j
    BY <1>10 DEF FlowInv
  <1>12. set # 0 => (Original(set)' <=> Original(set))
    BY <1>1, <1>9, <1>11 DEF Original
  <1>13. set # 0 => Followed(f)'
    <2>1. CASE set \in DOMAIN ruleStore
      BY <1>1, <1>4, <1>7, <1>8, <1>9, <1>11, <1>12, <2>1 DEF Followed
    <2>2. CASE set \notin DOMAIN ruleStore
      BY <1>4, <1>7, <1>8, <1>9, <1>11, <1>12, <2>2 DEF Followed
    <2>3. QED
      BY <2>1, <2>2
  <1>14. FlowSafe(f)'
    BY <1>1, <1>2, <1>4, <1>8, <1>9, <1>11, <1>13 DEF FlowSafe
  <1>15. QED
    BY <1>1, <1>9, <1>10, <1>14, FlowMoves

-----------------------------------------------------------------------------
(* The system                                                              *)

LEMMA InitSafe == Init => IInv
  <1> SUFFICES ASSUME Init PROVE IInv
    OBVIOUS
  <1>1. ClauseInv
    BY DEF Init, ClauseInit, ClauseInv, Statuses, IdleJob, Compilable
  <1>2. SetInv
    <2>1. sets = <<>> /\ ruleStore = <<>> /\ setJob = [c \in SetCalls |-> IdleSetJob]
      BY DEF Init, SetInit
    <2>2. IdleSetJob \in SetJobs /\ IdleSetJob.at = "idle"
      BY DEF IdleSetJob, SetJobs
    <2>3. sets \in Seq(SetRecords) /\ Len(sets) = 0 /\ DOMAIN sets = {} /\ DOMAIN ruleStore = {}
      BY <2>1
    <2>4. QED
      BY <2>1, <2>2, <2>3, MaxSetsAssumption DEF SetInv, SetJobSafe
  <1>3. CompileInv
    BY DEF Init, CompileInv, IdleCompile, Compilings
  <1>4. FlowInv
    BY DEF Init, FlowInv, IdleFlow, FlowStates
  <1>5. SetLinked
    BY DEF Init, SetInit, SetLinked
  <1>6. QED
    BY <1>1, <1>2, <1>3, <1>4, <1>5 DEF IInv

\* A step of the clause service, with everything else as it was.
LEMMA ClauseMoveSafe ==
  ASSUME IInv, ClauseMove, UNCHANGED <<setVars, compiling, flow>>
  PROVE  IInv'
  <1>1. ClauseInv' /\ Approved \subseteq Approved'
    BY ClauseKept, ApprovedStays DEF IInv
  <1>2. SetInv'
    BY <1>1, SetsUntouched DEF IInv
  <1>3. CompileInv'
    BY <1>1, CompileUntouched DEF IInv
  <1>4. FlowInv'
    <2>1. StoreGrows
      BY DEF StoreGrows, setVars
    <2>2. QED
      BY <1>1, <2>1, FlowUntouched DEF IInv
  <1>5. SetLinked'
    BY LinkedUntouched DEF IInv
  <1>6. QED
    BY <1>1, <1>2, <1>3, <1>4, <1>5 DEF IInv

\* What leaves the clause service alone leaves its invariant and the approvals.
LEMMA ClausesUntouched ==
  ASSUME ClauseInv, UNCHANGED clauseVars
  PROVE  ClauseInv' /\ Approved' = Approved
  BY DEF ClauseInv, Approved, Recorded, clauseVars

LEMMA NextSafe == IInv /\ [Next]_vars => IInv'
  <1> SUFFICES ASSUME IInv, [Next]_vars PROVE IInv'
    OBVIOUS
  <1>0. ClauseInv /\ SetInv /\ SetLinked /\ CompileInv /\ FlowInv
    BY DEF IInv
  <1>1. CASE UNCHANGED vars
    <2>1. ClauseInv' /\ Approved' = Approved /\ StoreGrows
      BY <1>0, <1>1, ClausesUntouched DEF vars, StoreGrows, setVars
    <2>2. SetInv' /\ SetLinked' /\ CompileInv' /\ FlowInv'
      BY <1>0, <1>1, <2>1, SetsUntouched, LinkedUntouched, CompileUntouched, FlowUntouched DEF vars
    <2>3. QED
      BY <2>1, <2>2 DEF IInv
  <1>2. ASSUME NEW k \in Clauses, NewClause(k) PROVE IInv'
    BY <1>2, ClauseMoveSafe DEF NewClause, ClauseMove
  <1>3. ASSUME NEW c \in ClauseCalls, ClauseStep(c) PROVE IInv'
    BY <1>3, ClauseMoveSafe DEF ClauseStep, ClauseMove
  <1>4. ASSUME NEW c \in ClauseCalls, NEW op \in Operations, NEW k \in Clauses, NEW by \in Clauses,
               BeginClauseOp(c, op, k, by), UNCHANGED <<setVars, compiling, flow>>
        PROVE  IInv'
    BY <1>4, ClauseMoveSafe DEF ClauseMove
  <1>5. ASSUME NEW c \in SetCalls, NEW id \in DOMAIN sets, BeginActivate(c, id),
               UNCHANGED <<clauseVars, compiling, flow>>
        PROVE  IInv'
    <2>1. ClauseInv' /\ Approved' = Approved /\ StoreGrows
      BY <1>0, <1>5, ClausesUntouched DEF StoreGrows, BeginActivate
    <2>2. SetInv'
      BY <1>0, <1>5, BeginActivateKept
    <2>5. SetLinked'
      <3> DEFINE j == [at |-> "found", id |-> id]
      <3>1. /\ setJob[c] = IdleSetJob /\ j.at # "created" /\ setJob' = [setJob EXCEPT ![c] = j]
            /\ UNCHANGED <<sets, ruleStore>>
        BY <1>5 DEF BeginActivate
      <3> HIDE DEF j
      <3>2. QED
        BY <1>0, <3>1, LinkedBegin
    <2>3. CompileInv' /\ FlowInv'
      BY <1>0, <1>5, <2>1, CompileUntouched, FlowUntouched
    <2>4. QED
      BY <2>1, <2>2, <2>3, <2>5 DEF IInv
  <1>6. ASSUME NEW c \in SetCalls, SetStep(c) PROVE IInv'
    <2>1. ClauseInv' /\ Approved' = Approved /\ StoreGrows
      BY <1>0, <1>6, ClausesUntouched, StoreOnlyGrows DEF SetStep
    <2>2. SetInv' /\ SetLinked'
      BY <1>0, <1>6, SettleSetOpKept, LinkedKept DEF SetStep
    <2>3. CompileInv' /\ FlowInv'
      BY <1>0, <1>6, <2>1, CompileUntouched, FlowUntouched DEF SetStep
    <2>4. QED
      BY <2>1, <2>2, <2>3 DEF IInv
  <1>7. ASSUME NEW c \in Compiles,
               \/ CompileClause(c)
               \/ \E ids \in ClauseLists : BeginCompile(c, ids)
        PROVE  IInv'
    <2>1. UNCHANGED <<clauseVars, setVars, flow>>
      BY <1>7 DEF CompileClause, BeginCompile
    <2>2. ClauseInv' /\ Approved' = Approved /\ StoreGrows
      BY <1>0, <2>1, ClausesUntouched DEF StoreGrows, setVars
    <2>3. CompileInv'
      BY <1>0, <1>7, CompileClauseKept, BeginCompileKept
    <2>4. SetInv' /\ SetLinked' /\ FlowInv'
      BY <1>0, <2>1, <2>2, SetsUntouched, LinkedUntouched, FlowUntouched
    <2>5. QED
      BY <2>2, <2>3, <2>4 DEF IInv
  <1>8. ASSUME NEW c \in Compiles, NEW call \in SetCalls, NEW name \in SetNames,
               Publish(c, call, name)
        PROVE  IInv'
    <2>1. ClauseInv' /\ Approved' = Approved /\ StoreGrows
      BY <1>0, <1>8, ClausesUntouched DEF StoreGrows, Publish, BeginCreate
    <2>2. SetInv' /\ CompileInv'
      BY <1>0, <1>8, PublishKept
    <2>3. FlowInv'
      BY <1>0, <1>8, <2>1, FlowUntouched DEF Publish
    <2>4. SetLinked'
      <3> DEFINE j == [at |-> "versioned", name |-> name, version |-> nextVersion(name),
                       rules |-> compiling[c].rules, clauses |-> compiling[c].ids]
      <3>1. /\ setJob[call] = IdleSetJob /\ j.at # "created"
            /\ setJob' = [setJob EXCEPT ![call] = j] /\ UNCHANGED <<sets, ruleStore>>
        BY <1>8 DEF Publish, BeginCreate
      <3> HIDE DEF j
      <3>2. QED
        BY <1>0, <3>1, LinkedBegin
    <2>5. QED
      BY <2>1, <2>2, <2>3, <2>4 DEF IInv
  <1>9. ASSUME NEW f \in Flows, Enforce(f) \/ \E d \in Contexts : BeginFlow(f, d) PROVE IInv'
    <2>1. UNCHANGED <<clauseVars, setVars, compiling>>
      BY <1>9 DEF Enforce, BeginFlow
    <2>2. ClauseInv' /\ Approved' = Approved
      BY <1>0, <2>1, ClausesUntouched
    <2>3. FlowInv'
      BY <1>0, <1>9, EnforceKept, BeginFlowKept
    <2>4. SetInv' /\ SetLinked' /\ CompileInv'
      BY <1>0, <2>1, <2>2, SetsUntouched, LinkedUntouched, CompileUntouched
    <2>5. QED
      BY <2>2, <2>3, <2>4 DEF IInv
  <1>10. CASE Next
    <2>1. ASSUME BeginCall PROVE IInv'
      BY <2>1, <1>4, <1>5, <1>7, <1>8, <1>9 DEF BeginCall
    <2>2. QED
      BY <1>10, <2>1, <1>2, <1>3, <1>6, <1>7, <1>9 DEF Next
  <1>11. QED
    BY <1>1, <1>10

LEMMA Always == Spec => []IInv
  BY InitSafe, NextSafe, PTL DEF Spec

-----------------------------------------------------------------------------
(* The active set                                                          *)

SomeRaced == \E c \in SetCalls : Raced(c)

\* While no activation raced, one at a time is between its look and its write, and what it found is
\* the active set, if there is one.
OneSwitches ==
  /\ \A i, j \in Active : i = j
  /\ \A c \in SetCalls : Switching(c) => Active \subseteq {setJob[c].current}
  /\ \A c, d \in SetCalls : Switching(c) /\ Switching(d) => c = d
ActiveInv == SomeRaced \/ OneSwitches

\* A new record is not active.
LEMMA AppendInactive ==
  ASSUME SetInv, NEW r, r.active = FALSE, sets' = Append(sets, r)
  PROVE  Active' = Active
  <1>1. /\ DOMAIN sets = 1..Len(sets) /\ Len(sets) \in Nat /\ DOMAIN sets' = 1..(Len(sets) + 1)
        /\ sets'[Len(sets) + 1] = r /\ \A i \in DOMAIN sets : sets'[i] = sets[i]
    BY DEF SetInv
  <1>2. ASSUME NEW i PROVE i \in Active' <=> i \in Active
    BY <1>1 DEF Active
  <1>3. QED
    BY <1>2

\* A call that is not activating comes to no point of activating, and the active sets stay.
LEMMA ActiveUntouched ==
  ASSUME SetInv, ActiveInv, Active' = Active, NEW c \in SetCalls, NEW j,
         setJob[c].at \notin {"current", "copied", "activated"},
         j.at \notin {"current", "copied", "activated"},
         setJob' = [setJob EXCEPT ![c] = j]
  PROVE  ActiveInv'
  <1>1. setJob'[c] = j /\ \A d \in SetCalls \ {c} : setJob'[d] = setJob[d]
    BY DEF SetInv
  <1>2. \A d \in SetCalls :
          (Raced(d)' <=> Raced(d)) /\ (Switching(d)' <=> Switching(d))
    BY <1>1 DEF Raced, Switching
  <1>3. \A d \in SetCalls : Switching(d) => setJob'[d] = setJob[d]
    BY <1>1 DEF Switching
  <1>4. CASE SomeRaced
    BY <1>2, <1>4 DEF SomeRaced, ActiveInv
  <1>5. CASE OneSwitches
    BY <1>2, <1>3, <1>5 DEF OneSwitches, ActiveInv
  <1>6. QED
    BY <1>4, <1>5 DEF ActiveInv

LEMMA FindCurrentActive ==
  ASSUME SetInv, ActiveInv, NEW c \in SetCalls, FindCurrent(c)
  PROVE  ActiveInv'
  <1> DEFINE raced == \E d \in SetCalls : Switching(d)
             j == [at |-> "current", id |-> setJob[c].id, current |-> findActive, raced |-> raced]
  <1>1. /\ setJob[c].at = "found" /\ setJob' = [setJob EXCEPT ![c] = j] /\ sets' = sets
        /\ j.at = "current" /\ j.current = findActive /\ (j.raced <=> raced)
    BY DEF FindCurrent
  <1> HIDE DEF raced, j
  <1>2. setJob'[c] = j /\ \A d \in SetCalls \ {c} : setJob'[d] = setJob[d]
    BY <1>1 DEF SetInv
  <1>3. Active' = Active
    BY <1>1 DEF Active
  <1>4. CASE SomeRaced
    <2>1. PICK d \in SetCalls : Raced(d)
      BY <1>4 DEF SomeRaced
    <2>2. d # c
      BY <1>1, <2>1 DEF Raced
    <2>3. Raced(d)'
      BY <1>2, <2>1, <2>2 DEF Raced
    <2>4. QED
      BY <2>3 DEF SomeRaced, ActiveInv
  <1>5. CASE raced
    <2>1. Raced(c)'
      BY <1>1, <1>2, <1>5 DEF Raced
    <2>2. QED
      BY <2>1 DEF SomeRaced, ActiveInv
  <1>6. CASE ~raced /\ OneSwitches
    <2>1. \A d \in SetCalls : Switching(d)' => d = c
      BY <1>2, <1>6 DEF Switching, raced
    <2>2. Active \subseteq {findActive}
      <3>1. ASSUME NEW i \in Active PROVE i = findActive
        <4>1. \A k \in Active : k = i
          BY <1>6, <3>1 DEF OneSwitches
        <4>2. i \in Nat
          BY DEF Active, SetInv
        <4>3. \E k \in Active : \A m \in Active : k <= m
          BY <3>1, <4>1, <4>2
        <4>4. findActive \in Active
          BY <3>1, <4>3 DEF findActive
        <4>5. QED
          BY <4>1, <4>4
      <3>2. QED
        BY <3>1
    <2>3. \A d \in SetCalls : Switching(d)' => Active' \subseteq {setJob'[d].current}
      BY <1>1, <1>2, <1>3, <2>1, <2>2
    <2>4. OneSwitches'
      BY <1>3, <1>6, <2>1, <2>3 DEF OneSwitches
    <2>5. QED
      BY <2>4 DEF ActiveInv
  <1>7. QED
    BY <1>4, <1>5, <1>6 DEF ActiveInv

LEMMA CopyCurrentActive ==
  ASSUME SetInv, ActiveInv, NEW c \in SetCalls, CopyCurrent(c)
  PROVE  ActiveInv'
  <1> DEFINE cur == setJob[c].current
             new == [sets[cur] EXCEPT !.active = FALSE]
             j == [setJob[c] EXCEPT !.at = "copied"]
  <1>1. /\ setJob[c].at = "current" /\ cur \in DOMAIN sets
        /\ sets' = Append(sets, new) /\ setJob' = [setJob EXCEPT ![c] = j]
    BY DEF SetInv, SetJobSafe, CopyCurrent, Replaces
  <1>2. setJob[c] \in [at : {"current", "copied"}, id : Nat, current : Nat, raced : BOOLEAN]
    BY <1>1 DEF SetInv, SetJobs
  <1>3. j.at = "copied" /\ j.current = setJob[c].current /\ j.raced = setJob[c].raced
    BY <1>2
  <1>4. new.active = FALSE
    <2>1. sets[cur] \in SetRecords
      BY <1>1 DEF SetInv
    <2>2. QED
      BY <2>1 DEF SetRecords
  <1> HIDE DEF new, j
  <1>5. Active' = Active
    BY <1>1, <1>4, AppendInactive
  <1>6. setJob'[c] = j /\ \A d \in SetCalls \ {c} : setJob'[d] = setJob[d]
    BY <1>1 DEF SetInv
  <1>7. \A d \in SetCalls : /\ (Raced(d)' <=> Raced(d)) /\ (Switching(d)' <=> Switching(d))
                            /\ Switching(d) => setJob'[d].current = setJob[d].current
    BY <1>1, <1>3, <1>6 DEF Raced, Switching
  <1>8. CASE SomeRaced
    BY <1>7, <1>8 DEF SomeRaced, ActiveInv
  <1>9. CASE OneSwitches
    BY <1>5, <1>7, <1>9 DEF OneSwitches, ActiveInv
  <1>10. QED
    BY <1>8, <1>9 DEF ActiveInv

\* The write of the only activation that had looked leaves the set it activates and no other.
LEMMA ActivateActive ==
  ASSUME SetInv, ActiveInv, NEW c \in SetCalls, Activate(c)
  PROVE  ActiveInv'
  <1> DEFINE id == setJob[c].id
             cur == setJob[c].current
             j == [at |-> "activated", raced |-> setJob[c].raced]
  <1>1. /\ Switching(c) /\ SwitchTo(id, cur) /\ setJob' = [setJob EXCEPT ![c] = j]
        /\ j.at = "activated" /\ j.raced = setJob[c].raced
    BY DEF Activate, Switching
  <1> HIDE DEF j
  <1>2. setJob'[c] = j /\ \A d \in SetCalls \ {c} : setJob'[d] = setJob[d]
    BY <1>1 DEF SetInv
  <1>3. CASE SomeRaced
    <2>1. PICK d \in SetCalls : Raced(d)
      BY <1>3 DEF SomeRaced
    <2>2. Raced(d)'
      BY <1>1, <1>2, <2>1 DEF Raced
    <2>3. QED
      BY <2>2 DEF SomeRaced, ActiveInv
  <1>4. CASE OneSwitches
    <2>1. Active \subseteq {cur}
      BY <1>1, <1>4 DEF OneSwitches
    <2>2. /\ DOMAIN sets' = DOMAIN sets
          /\ \A i \in DOMAIN sets : sets'[i].active <=> i = id \/ (sets[i].active /\ i # cur)
      BY <1>1, Switched
    <2>3. \A i \in Active' : i = id
      BY <2>1, <2>2 DEF Active
    <2>4. \A d \in SetCalls : ~Switching(d)'
      BY <1>1, <1>2, <1>4 DEF OneSwitches, Switching
    <2>5. OneSwitches'
      BY <2>3, <2>4 DEF OneSwitches
    <2>6. QED
      BY <2>5 DEF ActiveInv
  <1>5. QED
    BY <1>3, <1>4 DEF ActiveInv

LEMMA SetStepActive ==
  ASSUME SetInv, ActiveInv, NEW c \in SetCalls, SettleSetOp(c)
  PROVE  ActiveInv'
  <1>1. CASE CreateSet(c)
    <2> DEFINE new == [name |-> setJob[c].name, version |-> setJob[c].version, active |-> FALSE,
                       clauses |-> setJob[c].clauses, of |-> Len(sets) + 1]
               j == [at |-> "created", id |-> Len(sets'), rules |-> setJob[c].rules]
    <2>1. /\ setJob[c].at = "versioned" /\ setJob' = [setJob EXCEPT ![c] = j] /\ j.at = "created"
          /\ sets' = Append(sets, new) /\ new.active = FALSE
      BY <1>1 DEF CreateSet
    <2> HIDE DEF new, j
    <2>2. Active' = Active
      BY <2>1, AppendInactive
    <2>3. QED
      BY <2>1, <2>2, ActiveUntouched
  <1>2. CASE StoreRules(c)
    <2> DEFINE j == [at |-> "returned"]
    <2>1. /\ setJob[c].at = "created" /\ setJob' = [setJob EXCEPT ![c] = j] /\ j.at = "returned"
          /\ Active' = Active
      BY <1>2 DEF StoreRules, Active
    <2> HIDE DEF j
    <2>2. QED
      BY <2>1, ActiveUntouched
  <1>3. QED
    BY <1>1, <1>2, FindCurrentActive, CopyCurrentActive, ActivateActive DEF SettleSetOp

LEMMA ActiveKept == IInv /\ ActiveInv /\ [Next]_vars => ActiveInv'
  <1> SUFFICES ASSUME SetInv, ActiveInv, [Next]_vars PROVE ActiveInv'
    BY DEF IInv
  <1>1. ASSUME UNCHANGED setVars PROVE ActiveInv'
    BY <1>1 DEF ActiveInv, SomeRaced, OneSwitches, Raced, Switching, Active, setVars
  <1>2. ASSUME NEW c \in SetCalls, NEW id \in DOMAIN sets, BeginActivate(c, id) PROVE ActiveInv'
    <2> DEFINE j == [at |-> "found", id |-> id]
    <2>1. /\ setJob[c].at = "idle" /\ setJob' = [setJob EXCEPT ![c] = j] /\ j.at = "found"
          /\ Active' = Active
      BY <1>2 DEF BeginActivate, IdleSetJob, Active
    <2> HIDE DEF j
    <2>2. QED
      BY <2>1, ActiveUntouched
  <1>3. ASSUME NEW c \in Compiles, NEW call \in SetCalls, NEW name \in SetNames,
               Publish(c, call, name)
        PROVE  ActiveInv'
    <2> DEFINE j == [at |-> "versioned", name |-> name, version |-> nextVersion(name),
                     rules |-> compiling[c].rules, clauses |-> compiling[c].ids]
    <2>1. /\ setJob[call].at = "idle" /\ setJob' = [setJob EXCEPT ![call] = j] /\ j.at = "versioned"
          /\ Active' = Active
      BY <1>3 DEF Publish, BeginCreate, IdleSetJob, Active
    <2> HIDE DEF j
    <2>2. QED
      BY <2>1, ActiveUntouched
  <1>4. CASE BeginCall
    BY <1>1, <1>2, <1>3, <1>4 DEF BeginCall, BeginCompile, BeginFlow
  <1>5. CASE Next
    BY <1>1, <1>4, <1>5, SetStepActive
    DEF Next, NewClause, ClauseStep, SetStep, CompileClause, Enforce
  <1>6. QED
    BY <1>1, <1>5 DEF vars

-----------------------------------------------------------------------------
(* Theorems                                                                *)

\* Clauses, sets, compilations and evaluations keep their types, whatever calls are in flight.
THEOREM TypeCorrect == Spec => []TypeOK
  <1>1. IInv => TypeOK
    <2> SUFFICES ASSUME IInv PROVE TypeOK
      OBVIOUS
    <2>1. /\ status \in [Clauses -> ClauseStatuses \cup {"none"}]
          /\ clauseLog \in Seq([clause : Clauses, op : Operations])
          /\ \A c \in ClauseCalls : job[c] \in Jobs \cup {IdleJob}
      BY DEF IInv, ClauseInv, Statuses, ClauseRecords
    <2>2. sets \in Seq([name : SetNames, version : 1..MaxSets, active : BOOLEAN,
                        clauses : ClauseLists, of : 1..MaxSets])
      <3> DEFINE R == [name : SetNames, version : 1..MaxSets, active : BOOLEAN, clauses : ClauseLists,
                      of : 1..MaxSets]
      <3>1. /\ sets \in Seq(SetRecords) /\ Len(sets) \in Nat /\ Len(sets) <= MaxSets
            /\ DOMAIN sets = 1..Len(sets) /\ \A i \in DOMAIN sets : sets[i].version \in 1..i /\ sets[i].of \in 1..i
        BY DEF IInv, SetInv, SetLinked
      <3>2. ASSUME NEW i \in 1..Len(sets) PROVE sets[i] \in R
        <4>1. sets[i] \in SetRecords /\ sets[i].version \in 1..MaxSets /\ sets[i].of \in 1..MaxSets
          BY <3>1, MaxSetsAssumption
        <4>2. QED
          BY <4>1 DEF SetRecords
      <3> HIDE DEF R
      <3>3. sets \in Seq(R)
        BY <3>1, <3>2
      <3>4. QED
        BY <3>3 DEF R
    <2>3. /\ DOMAIN ruleStore \subseteq DOMAIN sets
          /\ \A i \in DOMAIN ruleStore : ruleStore[i] \in Seq(Expected)
      BY SoundType DEF IInv, SetInv
    <2>4. \A c \in SetCalls : setJob[c].at \in {"idle", "versioned", "created", "found", "current",
                                               "copied", "returned", "activated"}
      BY SetJobKinds DEF IInv, SetInv
    <2>5. \A c \in Compiles : compiling[c].at \in {"idle", "looking", "compiled", "published"}
      BY DEF IInv, CompileInv, Compilings
    <2>6. \A f \in Flows : flow[f].at = "returned" => flow[f].rules \in Seq(Expected)
      BY SoundType DEF IInv, FlowInv
    <2>7. QED
      BY <2>1, <2>2, <2>3, <2>4, <2>5, <2>6 DEF TypeOK
  <1>2. QED
    BY <1>1, Always, PTL

\* Whatever approvals, compilations, publications and activations race, each rule that can be
\* enforced comes from a clause that someone approved.
THEOREM OnlyApprovedIsEnforced == Spec => []EnforcedWasApproved
  <1>1. IInv => EnforcedWasApproved
    <2> SUFFICES ASSUME IInv, NEW rule \in RulesInUse PROVE Recorded(rule.clause, "approve")
      BY DEF EnforcedWasApproved
    <2>1. ASSUME NEW rules \in Sound, rule \in Range(rules) PROVE Recorded(rule.clause, "approve")
      <3> DEFINE R == [clause : Approved, expression : Expressions]
      <3>1. PICK i \in DOMAIN rules : rule = rules[i]
        BY <2>1 DEF Range
      <3>2. rule \in R
        <4> HIDE DEF R
        <4>1. rules \in Seq(R)
          BY DEF Sound, R
        <4>2. QED
          BY <3>1, <4>1
      <3>3. rule.clause \in Approved
        BY <3>2
      <3>4. QED
        BY <3>3 DEF Approved
    <2>2. <<>> \in Sound
      BY DEF Sound
    <2>3. \A i \in DOMAIN sets : getRulesForSet(i) \in Sound
      BY <2>2 DEF IInv, SetInv, getRulesForSet
    <2>4. \A f \in Flows : flow[f].at = "returned" => flow[f].rules \in Sound
      BY DEF IInv, FlowInv
    <2>5. \/ \E i \in DOMAIN sets : rule \in Range(getRulesForSet(i))
          \/ \E f \in Flows : flow[f].at = "returned" /\ rule \in Range(flow[f].rules)
      BY DEF RulesInUse
    <2>6. QED
      BY <2>1, <2>3, <2>4, <2>5
  <1>2. QED
    BY <1>1, Always, PTL

\* An evaluation follows the rules of the set it found active, all of them, unless it came before
\* they were stored or the set is the copy of a replaced one.
THEOREM FlowsFollowTheirSet == Spec => []FlowFollowsRules
  <1>1. IInv => FlowFollowsRules
    <2> SUFFICES ASSUME IInv, NEW f \in Flows, flow[f].at = "returned", flow[f].set # 0
                 PROVE  IF Original(flow[f].set) /\ ~flow[f].early
                        THEN Follows(f, flow[f].set)
                        ELSE flow[f].rules = <<>> /\ flow[f].outcome = "passed"
      BY DEF FlowFollowsRules
    <2>1. Followed(f)
      BY DEF IInv, FlowInv
    <2>2. CASE ~(Original(flow[f].set) /\ ~flow[f].early)
      BY <2>1, <2>2 DEF Followed
    <2>3. CASE Original(flow[f].set) /\ ~flow[f].early
      <3>1. /\ flow[f].rules = getRulesForSet(flow[f].set)
            /\ flow[f].outcome = IF BlockedBy(flow[f].rules, flow[f].context) = {}
                                 THEN "passed" ELSE "blocked"
        BY <2>1, <2>3 DEF Followed, getRulesForSet
      <3>2. BlockedBy(flow[f].rules, flow[f].context) = {} <=>
              \A i \in DOMAIN flow[f].rules :
                Result[flow[f].rules[i].expression, flow[f].context] = "pass"
        BY DEF BlockedBy, Range
      <3>3. QED
        BY <2>3, <3>1, <3>2 DEF Follows
    <2>4. QED
      BY <2>2, <2>3
  <1>2. QED
    BY <1>1, Always, PTL

\* A tenant has one active set as long as no two activations overlap, however many there are and
\* whatever is compiled, published and evaluated meanwhile.
THEOREM SequentialActivationsReplace == Spec => []OneActiveUnlessRaced
  <1>1. Init => ActiveInv
    BY DEF Init, SetInit, ActiveInv, OneSwitches, Active, Switching, IdleSetJob
  <1>2. ActiveInv => OneActiveUnlessRaced
    BY DEF ActiveInv, SomeRaced, OneSwitches, OneActiveUnlessRaced
  <1>3. QED
    BY <1>1, <1>2, Always, ActiveKept, PTL DEF Spec

\* A superseded clause is given another status only by a call that had read it before.
THEOREM OnlyRacersRevive == Spec => RevivedOnlyByRacers
  <1> DEFINE A == \A k \in Clauses :
                    status[k] = "superseded" /\ status'[k] # "superseded" =>
                      \E c \in ClauseCalls : /\ job[c].clause = k /\ job[c].seen # "superseded"
                                            /\ job'[c].at = "written"
  <1>1. IInv /\ [Next]_vars => [A]_vars
    <2> SUFFICES ASSUME IInv, Next, NEW k \in Clauses, status[k] = "superseded",
                        status'[k] # "superseded"
                 PROVE  \E c \in ClauseCalls : /\ job[c].clause = k /\ job[c].seen # "superseded"
                                               /\ job'[c].at = "written"
      OBVIOUS
    <2>1. status \in [Clauses -> Statuses] /\ job \in [ClauseCalls -> Jobs \cup {IdleJob}]
      BY DEF IInv, ClauseInv
    <2>2. PICK c \in ClauseCalls : SettleClauseOp(c)
      <3>1. ~ \E d \in Clauses : NewClause(d)
        BY <2>1 DEF NewClause, CreateClause
      <3>2. ~BeginCall
        BY DEF BeginCall, BeginClauseOp, BeginCompile, Publish, BeginFlow, clauseVars
      <3>3. \A x \in SetCalls : ~SetStep(x)
        BY DEF SetStep, clauseVars
      <3>4. (\A x \in Compiles : ~CompileClause(x)) /\ (\A f \in Flows : ~Enforce(f))
        BY DEF CompileClause, Enforce, clauseVars
      <3>5. QED
        BY <3>1, <3>2, <3>3, <3>4 DEF Next, ClauseStep
    <2>3. Write(c)
      BY <2>1, <2>2 DEF SettleClauseOp, Refuse, Reject, FindReplacement, WriteSuperseded, Log
    <2>4. job[c].clause = k
      BY <2>1, <2>3 DEF Write
    <2>5. job[c].seen # "superseded"
      BY <2>3 DEF Write, Allowed, Target, VALID_TRANSITIONS
    <2>6. job'[c].at = "written"
      BY <2>1, <2>3, Moved DEF Write
    <2>7. QED
      BY <2>4, <2>5, <2>6
  <1>2. QED
    BY <1>1, Always, PTL DEF Spec, RevivedOnlyByRacers
=============================================================================
