---------------------------- MODULE MCKnowledge ----------------------------
(***************************************************************************)
(* Two clauses, from the empty repositories, from a deployment that has    *)
(* one set active and a second one ready, or from one whose second set has *)
(* a record and no rules yet, and any three calls of compile,              *)
(* createRuleSet, activateRuleSet, the approval service and the            *)
(* enforcement flow at once: enough for two activations and an evaluation, *)
(* two operations on a clause while it is compiled, and so on.             *)
(***************************************************************************)
EXTENDS Knowledge

CONSTANTS k1, k2, n1, x1, x2, s1, s2, p1, f1

MCClauses == {k1, k2}
MCClauseCalls == {x1, x2}
MCSetNames == {n1}
MCSetCalls == {s1, s2}
MCCompiles == {p1}
MCFlows == {f1}
MCClauseLists == {<<k1>>, <<k2>>, <<k1, k2>>}

\* One clause prohibits a jurisdiction in its text and has a control that says nothing, the other
\* has a structured expression: a limit, or an urgent case whose check throws on a bad pattern.
Vacuous == [type |-> "evidence_field_required", params |-> [field |-> "amount"]]
Prohibition == [clauseType |-> "prohibition", controls |-> <<Vacuous>>,
                structured |-> NoExpression,
                text |-> [says |-> "prohibited in", jurisdictions |-> {"X"}]]

Cap == mapControlToExpression([type |-> "amount_threshold", params |-> [maxAmount |-> 1, currency |-> "EUR"]])
Urgent == [type |-> "regex_match", field |-> "urgency", accepted |-> {"high"}, valid |-> FALSE]
Either == [type |-> "composite_or", rules |-> <<Cap, Urgent>>]
Capped == [clauseType |-> "obligation", controls |-> <<>>, structured |-> Either,
           text |-> [says |-> "nothing"]]

MCContent == [k \in MCClauses |-> IF k = k1 THEN Prohibition ELSE Capped]

MCExpressions == {mapClauseTypeToExpression(Prohibition), Cap, Urgent, Either}

In(jurisdiction, amount, currency, urgency) ==
  [fields |-> [jurisdiction |-> Text(jurisdiction), amount |-> amount,
               amount_currency |-> currency, urgency |-> urgency],
   lists |-> <<>>]

MCContexts == {In("X", Number(1), Text("EUR"), Missing), In("Y", Number(2), Text("EUR"), Text("high")),
               In("X", Number(1), Text("EUR"), Text("high")), In("X", Number(1), Text("USD"), Missing)}

\* What sequential calls leave: both clauses approved, the first one active, a set compiled from
\* each, the first one active; the second one's rules are stored, or about to be.
Deployed ==
  /\ status = [k \in Clauses |-> IF k = k1 THEN "active" ELSE "approved"]
  /\ clauseLog = <<[clause |-> k1, op |-> "approve"], [clause |-> k1, op |-> "activate"],
                   [clause |-> k2, op |-> "approve"]>>
  /\ job = [c \in ClauseCalls |-> IdleJob]
  /\ sets = <<[name |-> n1, version |-> 1, active |-> TRUE, clauses |-> <<k1>>, of |-> 1],
              [name |-> n1, version |-> 2, active |-> FALSE, clauses |-> <<k2>>, of |-> 2]>>
  /\ LET first == <<[clause |-> k1, expression |-> mapClauseTypeToExpression(Prohibition)]>>
         second == <<[clause |-> k2, expression |-> Either]>> IN
     \/ ruleStore = <<first, second>> /\ setJob = [c \in SetCalls |-> IdleSetJob]
     \/ /\ ruleStore = <<first>>
        /\ setJob = [c \in SetCalls |-> IF c = s1 THEN [at |-> "created", id |-> 2, rules |-> second]
                                       ELSE IdleSetJob]
  /\ compiling = [c \in Compiles |-> IdleCompile]
  /\ flow = [f \in Flows |-> IdleFlow]

MCSpec == (Init \/ Deployed) /\ [][Next]_vars
=============================================================================
