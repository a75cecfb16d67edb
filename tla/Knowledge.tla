----------------------------- MODULE Knowledge -----------------------------
(***************************************************************************)
(* From clauses to enforcement (src/src/knowledge): clauses are approved   *)
(* and superseded, compiled into rules, published as a rule set, activated *)
(* and enforced on decision contexts, all concurrently.  The repository's  *)
(* callers chain the parts: what compile returns is given to createRuleSet.*)
(***************************************************************************)
EXTENDS ClauseLifecycle, RuleSets, CompiledRules

CONSTANTS
  Content,     \* the content of each clause: [clauseType, text, controls, structured]
  ClauseLists, \* the lists of clause ids compile is called with
  Compiles,    \* calls of compile
  Flows,       \* calls of EnforcementFlow.execute
  MaxCalls     \* bound on the calls made, of all kinds

ASSUME ClauseListsAssumption == ClauseLists \subseteq Seq(Clauses) \ {<<>>}

\* What compiles, compiles to one of the expressions.
ASSUME ContentAssumption ==
  \A k \in Clauses : expressionOf(Content[k]) \in Expressions \cup {NoExpression}

VARIABLES
  compiling, \* where each call of compile is
  flow       \* where each call of the enforcement flow is

vars == <<clauseVars, setVars, compiling, flow>>

IdleCompile == [at |-> "idle"]
IdleFlow == [at |-> "idle"]

-----------------------------------------------------------------------------
(* compile                                                                 *)

\* The loop's findById is called as soon as the clause before has been dealt with.
BeginCompile(c, ids) ==
  /\ compiling[c] = IdleCompile
  /\ compiling' = [compiling EXCEPT ![c] =
       [at |-> "looking", ids |-> ids, todo |-> ids, seen |-> status[Head(ids)], rules |-> <<>>]]
  /\ UNCHANGED <<clauseVars, setVars, flow>>

\* Mutant of Compilable: only drafts that were never saved are turned away.
Compilable_any(seen) == seen # "none"

Compilable(seen) == seen \in {"approved", "active"}

\* Mutant of RulesFrom: an ambiguous clause makes a rule, of whatever its text gives.
RulesFrom_guessed(k, seen) ==
  IF Compilable(seen)
  THEN <<[clause |-> k, expression |-> analyzeClauseForPattern(Content[k])]>> ELSE <<>>

RulesFrom(k, seen) ==
  IF Compilable(seen) /\ expressionOf(Content[k]) # NoExpression
  THEN <<[clause |-> k, expression |-> expressionOf(Content[k])]>> ELSE <<>>

\* One clause: not found, draft or superseded is an error, no expression is ambiguous, and what a
\* repository or provider throws is caught as an error too.
CompileClause(c) ==
  /\ compiling[c].at = "looking"
  /\ \E made \in {<<>>, RulesFrom(Head(compiling[c].todo), compiling[c].seen)} :
       LET todo == compiling[c].todo
           rules == compiling[c].rules \o made IN
       compiling' = [compiling EXCEPT ![c] =
         IF Len(todo) = 1 THEN [at |-> "compiled", ids |-> @.ids, rules |-> rules]
         ELSE [@ EXCEPT !.todo = Tail(todo), !.seen = status[todo[2]], !.rules = rules]]
  /\ UNCHANGED <<clauseVars, setVars, flow>>

\* The caller publishes what was compiled.
Publish(c, call, name) ==
  /\ compiling[c].at = "compiled"
  /\ compiling' = [compiling EXCEPT ![c] = [at |-> "published"]]
  /\ BeginCreate(call, name, compiling[c].rules, compiling[c].ids)
  /\ UNCHANGED <<clauseVars, flow>>

-----------------------------------------------------------------------------
(* EnforcementFlow.execute and enforceActive                               *)

BeginFlow(f, d) ==
  /\ flow[f] = IdleFlow
  /\ flow' = [flow EXCEPT ![f] = [at |-> "finding", context |-> d, set |-> findActive]]
  /\ UNCHANGED <<clauseVars, setVars, compiling>>

\* Mutant of Enforce: the rules fetched are those of the set that is active by now.
Enforce_refetching(f) ==
  LET d == flow[f].context
      rules == IF findActive = 0 THEN <<>> ELSE getRulesForSet(findActive) IN
  /\ flow[f].at = "finding"
  /\ flow' = [flow EXCEPT ![f] =
       [at |-> "returned", context |-> d, set |-> flow[f].set, rules |-> rules,
        early |-> Storing(flow[f].set),
        outcome |-> IF flow[f].set = 0 THEN "skipped"
                    ELSE IF BlockedBy(rules, d) = {} THEN "passed" ELSE "blocked"]]
  /\ UNCHANGED <<clauseVars, setVars, compiling>>

\* No active set: skipped.  Otherwise the rules are fetched and evaluated without an await; the
\* clause texts looked up afterwards only enrich the evidence.  "early" is history: the call that
\* created the set had not yet stored its rules.
Enforce(f) ==
  LET d == flow[f].context
      set == flow[f].set
      rules == IF set = 0 THEN <<>> ELSE getRulesForSet(set) IN
  /\ flow[f].at = "finding"
  /\ flow' = [flow EXCEPT ![f] =
       [at |-> "returned", context |-> d, set |-> set, rules |-> rules, early |-> Storing(set),
        outcome |-> IF set = 0 THEN "skipped"
                    ELSE IF BlockedBy(rules, d) = {} THEN "passed" ELSE "blocked"]]
  /\ UNCHANGED <<clauseVars, setVars, compiling>>

-----------------------------------------------------------------------------

Init ==
  /\ ClauseInit
  /\ SetInit
  /\ compiling = [c \in Compiles |-> IdleCompile]
  /\ flow = [f \in Flows |-> IdleFlow]

Begun(calls, where) == Cardinality({c \in calls : where[c].at # "idle"})
CallsBegun == Begun(ClauseCalls, job) + Begun(SetCalls, setJob) + Begun(Compiles, compiling)
                + Begun(Flows, flow)

BeginCall ==
  \/ /\ \E c \in ClauseCalls, op \in Operations, k, by \in Clauses : BeginClauseOp(c, op, k, by)
     /\ UNCHANGED <<setVars, compiling, flow>>
  \/ /\ \E c \in SetCalls, id \in DOMAIN sets : BeginActivate(c, id)
     /\ UNCHANGED <<clauseVars, compiling, flow>>
  \/ \E c \in Compiles, ids \in ClauseLists : BeginCompile(c, ids)
  \/ \E c \in Compiles, call \in SetCalls, name \in SetNames : Publish(c, call, name)
  \/ \E f \in Flows, d \in Contexts : BeginFlow(f, d)

ClauseStep(c) == SettleClauseOp(c) /\ UNCHANGED <<setVars, compiling, flow>>
SetStep(c) == SettleSetOp(c) /\ UNCHANGED <<clauseVars, compiling, flow>>

NewClause(k) == CreateClause(k) /\ UNCHANGED <<setVars, compiling, flow>>

Next ==
  \/ \E k \in Clauses : NewClause(k)
  \/ CallsBegun < MaxCalls /\ BeginCall
  \/ \E c \in ClauseCalls : ClauseStep(c)
  \/ \E c \in SetCalls : SetStep(c)
  \/ \E c \in Compiles : CompileClause(c)
  \/ \E f \in Flows : Enforce(f)

Spec == Init /\ [][Next]_vars

-----------------------------------------------------------------------------
(* Properties                                                              *)

Expected == [clause : Clauses, expression : Expressions]

TypeOK ==
  /\ status \in [Clauses -> ClauseStatuses \cup {"none"}]
  /\ clauseLog \in Seq([clause : Clauses, op : Operations])
  /\ \A c \in ClauseCalls : job[c] \in Jobs \cup {IdleJob}
  /\ sets \in Seq([name : SetNames, version : 1..MaxSets, active : BOOLEAN,
                   clauses : ClauseLists, of : 1..MaxSets])
  /\ DOMAIN ruleStore \subseteq DOMAIN sets
  /\ \A i \in DOMAIN ruleStore : ruleStore[i] \in Seq(Expected)
  /\ \A c \in SetCalls : setJob[c].at \in {"idle", "versioned", "created", "found", "current",
                                          "copied", "returned", "activated"}
  /\ \A c \in Compiles : compiling[c].at \in {"idle", "looking", "compiled", "published"}
  /\ \A f \in Flows : flow[f].at = "returned" => flow[f].rules \in Seq(Expected)

\* The operation op on clause k is in the approval log, or is about to be: a status never stands
\* without the record of who gave it, whichever operations raced.
Recorded(k, op) ==
  \/ \E i \in DOMAIN clauseLog : clauseLog[i] = [clause |-> k, op |-> op]
  \/ \E c \in ClauseCalls : job[c].at = "written" /\ job[c].op = op /\ job[c].clause = k

\* A superseded clause comes back to life only through an operation that had read it before it
\* was superseded (isValidTransition judges a status read before the await).
RevivedOnlyByRacers ==
  [][\A k \in Clauses :
       status[k] = "superseded" /\ status'[k] # "superseded" =>
         \E c \in ClauseCalls : /\ job[c].clause = k /\ job[c].seen # "superseded"
                               /\ job'[c].at = "written"]_vars

RulesInUse ==
  (UNION {Range(getRulesForSet(i)) : i \in DOMAIN sets})
    \cup (UNION {Range(flow[f].rules) : f \in {g \in Flows : flow[g].at = "returned"}})

\* Every rule that can be enforced comes from a clause someone approved: a draft, a rejected
\* clause or one superseded as a draft is never compiled (clause-approval.service.ts:6).
EnforcedWasApproved == \A rule \in RulesInUse : Recorded(rule.clause, "approve")

Original(id) == sets[id].of = id

\* The evaluation f judged by the rules that set id was created with, and by nothing else.
Follows(f, id) ==
  LET compiled == getRulesForSet(id) IN
  /\ flow[f].rules = compiled
  /\ flow[f].outcome = "passed" <=>
       \A i \in DOMAIN compiled : Result[compiled[i].expression, flow[f].context] = "pass"

\* A decision that compiled rules block is blocked by a rule of the set that was active when it was
\* evaluated, that its context does not satisfy, and one that passes satisfies all of them.  Only
\* two kinds of set pass everything instead: one activated before the call that created it had
\* stored its rules, and the copy that an activation made of the set it replaced, which was never
\* given any (compiled-rule-set.repository.ts:76-79 and 105-113).
FlowFollowsRules ==
  \A f \in Flows :
    flow[f].at = "returned" /\ flow[f].set # 0 =>
      IF Original(flow[f].set) /\ ~flow[f].early
      THEN Follows(f, flow[f].set)
      ELSE flow[f].rules = <<>> /\ flow[f].outcome = "passed"

\* An activation that looked for the active set while another one had looked and not yet written.
Raced(c) == setJob[c].at \in {"current", "copied", "activated"} /\ setJob[c].raced

\* A tenant has one active rule set at a time (docs/CLAUSE-SCHEMA-REFERENCE.md:281) as long as no two
\* activations overlap: each deactivates the set it found, whatever else is called between its
\* steps.  Two that overlap leave two sets active (compiled-rule-set.repository.ts:101-118), and a
\* later one deactivates only the first of them.
OneActiveUnlessRaced == (\E c \in SetCalls : Raced(c)) \/ \A i, j \in Active : i = j

=============================================================================
