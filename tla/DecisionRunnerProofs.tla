------------------------ MODULE DecisionRunnerProofs ------------------------
(***************************************************************************)
(* Theorems about DecisionRunner, for any set of calls and any             *)
(* configurations.  The order of the stages is what makes the pipeline     *)
(* fail closed, so the inductive invariant says what each await already    *)
(* guarantees: what is known at it and what has been let pass; a second    *)
(* one says what the evidence holds at it; and last, the pipeline          *)
(* implements DecisionGate.                                                *)
(***************************************************************************)
EXTENDS DecisionRunner, TLAPS

\* What each await guarantees of one call: before finalize there is no verdict, each stage was
\* reached by passing the ones before it, and only a cleared call is run.
CallSafe(c) ==
  /\ phase[c] \in {"idle", "gate", "policy", "flow", "inputs", "pattern", "evaluate"}
       => verdict[c] = "none"
  /\ phase[c] = "policy" => gate[c] \in GateStatuses
  /\ phase[c] = "flow" =>
       /\ gate[c] \in {"pass", "warn"}
       /\ observed[c] \in PolicyVerdicts
       /\ Effective(config[c].mode, observed[c]) = "allow"
  /\ phase[c] \in {"inputs", "pattern", "evaluate"} \/ verdict[c] \in {"completed", "failed"}
       => Cleared(c)

\* The inductive invariant.
IInv == TypeOK /\ \A c \in Calls : CallSafe(c)

-----------------------------------------------------------------------------

\* A record of an operation and a value the pipeline writes makes a chain of records.
LEMMA StepIsChain ==
  ASSUME NEW op \in Operations, NEW value \in Values
  PROVE  Step(op, value) \in Seq(Records)
BY DEF Step, Records

\* Appending a chain to a chain makes a chain.
LEMMA ChainsConcatenate ==
  ASSUME NEW s \in Seq(Records), NEW t \in Seq(Records)
  PROVE  s \o t \in Seq(Records)
OBVIOUS

\* A pattern run starts at one of its steps or has already failed closed.
LEMMA FirstStepType ==
  ASSUME NEW binding
  PROVE  FirstStep(binding) \in PatternSteps \cup AutonomyStatuses
BY DEF FirstStep, PatternSteps, AutonomyStatuses

\* A reply moves a pattern run to another step or ends it.
LEMMA AfterReplyType ==
  ASSUME NEW binding, NEW step \in PatternSteps, NEW reply \in Replies
  PROVE  AfterReply(binding, step, reply) \in PatternSteps \cup AutonomyStatuses
<1>1. Settled(reply) \in PatternSteps \cup AutonomyStatuses
  BY DEF Settled, PatternSteps, AutonomyStatuses
<1>2. AfterReviewed(step, reply) \in PatternSteps \cup AutonomyStatuses
  BY DEF AfterReviewed, PatternSteps, AutonomyStatuses
<1>3. AfterTribunal(binding.lazy, step, reply) \in PatternSteps \cup AutonomyStatuses
  BY <1>1 DEF AfterTribunal, PatternSteps, AutonomyStatuses
<1>4. AfterHybrid(binding.roles, step, reply) \in PatternSteps \cup AutonomyStatuses
  BY DEF AfterHybrid, PatternSteps, AutonomyStatuses
<1>5. QED
  BY <1>1, <1>2, <1>3, <1>4 DEF AfterReply

\* The effective verdict is a policy verdict.
LEMMA EffectiveType ==
  ASSUME NEW mode, NEW raw \in PolicyVerdicts
  PROVE  Effective(mode, raw) \in PolicyVerdicts
BY DEF Effective, PolicyVerdicts

\* The status of a verdict is one the log knows.
LEMMA StatusType ==
  ASSUME NEW ruling
  PROVE  verdictToStatus(ruling) \in {"generated", "pending", "failed", "blocked"}
BY DEF verdictToStatus
-----------------------------------------------------------------------------
(* Type correctness                                                        *)

\* The three variables every way out of a stage assigns keep their types.
StageTyped ==
  /\ phase' \in [Calls -> Phases]
  /\ evidence' \in [Calls -> Seq(Records)]
  /\ verdict' \in [Calls -> Verdicts \cup {"none"}]

\* Going on to the next await keeps the types.
LEMMA ContinueTyped ==
  ASSUME TypeOK, NEW c \in Calls, NEW from, NEW to \in Phases, NEW chain \in Seq(Records),
         Continue(c, from, to, chain)
  PROVE  StageTyped
BY DEF TypeOK, Continue, Await, StageTyped

\* Finalizing keeps the types.
LEMMA FinalizeTyped ==
  ASSUME TypeOK, NEW c \in Calls, NEW from, NEW chain \in Seq(Records), NEW ruling \in Verdicts,
         Finalize(c, from, chain, ruling)
  PROVE  StageTyped
<1>1. Step("decision_finalized", ruling) \in Seq(Records)
  BY StepIsChain DEF Operations, Values
<1>2. chain \o Step("decision_finalized", ruling) \in Seq(Records)
  BY <1>1, ChainsConcatenate
<1>3. "log" \in Phases
  BY DEF Phases
<1>4. QED
  BY <1>2, <1>3 DEF TypeOK, Finalize, Await, StageTyped

\* The catch block keeps the types.
LEMMA FailTyped ==
  ASSUME TypeOK, NEW c \in Calls, NEW from, NEW chain \in Seq(Records), Fail(c, from, chain)
  PROVE  StageTyped
<1>1. Step("execution_failed", "") \in Seq(Records)
  BY StepIsChain DEF Operations, Values
<1>2. chain \o Step("execution_failed", "") \in Seq(Records)
  BY <1>1, ChainsConcatenate
<1>3. "failed" \in Verdicts
  BY DEF Verdicts
<1>4. QED
  BY <1>2, <1>3, FinalizeTyped DEF Fail

\* Passing the last check keeps the types.
LEMMA ProceedTyped ==
  ASSUME TypeOK, NEW c \in Calls, NEW from, NEW chain \in Seq(Records), Proceed(c, from, chain)
  PROVE  StageTyped
<1>1. "safe_block" \in Verdicts /\ "inputs" \in Phases
  BY DEF Verdicts, Phases
<1>2. QED
  BY <1>1, FinalizeTyped, ContinueTyped DEF Proceed

\* The initial state is well typed.
LEMMA TypeInit == Init => TypeOK
BY DEF Init, TypeOK, Phases

\* The quality gate's reply.
LEMMA GateTyped ==
  ASSUME TypeOK, NEW c \in Calls, NEW status \in GateStatuses, GateReplies(c, status)
  PROVE  TypeOK'
<1>1. Step("quality_gate_checked", status) \in Seq(Records)
  BY StepIsChain DEF Operations, Values
<1>2. evidence[c] \o Step("quality_gate_checked", status) \in Seq(Records)
  BY <1>1, ChainsConcatenate DEF TypeOK
<1>3. StageTyped
  BY <1>2, ContinueTyped DEF GateReplies, Phases
<1>4. QED
  BY <1>3 DEF GateReplies, TypeOK, StageTyped

\* The evidence of policy and routing is a chain of records.
LEMMA JudgedIsChain ==
  ASSUME TypeOK, NEW c \in Calls, NEW shown \in PolicyVerdicts
  PROVE  Judged(c, shown) \in Seq(Records)
<1>1. Step("policy_evaluated", shown) \in Seq(Records)
  BY StepIsChain DEF Operations, Values
<1>2. config[c] \in DeploymentType
  BY ConfigurationsAssumption DEF TypeOK
<1>3. ASSUME Resolved(config[c]) PROVE Step("route_resolved", config[c].class) \in Seq(Records)
  <2>1. config[c].class \in Values
    BY <1>2, <1>3 DEF Resolved, DeploymentType, Values
  <2>2. QED
    BY <2>1, StepIsChain DEF Operations
<1>4. (IF Resolved(config[c]) THEN Step("route_resolved", config[c].class) ELSE <<>>)
        \in Seq(Records)
  BY <1>3
<1>5. evidence[c] \o Step("policy_evaluated", shown) \in Seq(Records)
  BY <1>1, ChainsConcatenate DEF TypeOK
<1>6. QED
  BY <1>4, <1>5, ChainsConcatenate DEF Judged

\* The PDP's reply.
LEMMA PolicyTyped ==
  ASSUME TypeOK, NEW c \in Calls, NEW raw \in PolicyVerdicts, PolicyReplies(c, raw)
  PROVE  TypeOK'
<1> DEFINE chain == Judged(c, Effective(config[c].mode, raw))
<1>1. chain \in Seq(Records)
  BY EffectiveType, JudgedIsChain
<1>2. "blocked" \in Verdicts /\ "approval_required" \in Verdicts /\ "flow" \in Phases
  BY DEF Verdicts, Phases
<1>3. \/ Finalize(c, "policy", chain, "blocked")
      \/ Finalize(c, "policy", chain, "approval_required")
      \/ Continue(c, "policy", "flow", chain)
      \/ Proceed(c, "policy", chain)
  BY DEF PolicyReplies
<1> HIDE DEF chain
<1>4. StageTyped
  BY <1>1, <1>2, <1>3, FinalizeTyped, ContinueTyped, ProceedTyped
<1>5. QED
  BY <1>4 DEF PolicyReplies, TypeOK, StageTyped

\* The enforcement flow's reply.
LEMMA FlowTyped ==
  ASSUME TypeOK, NEW c \in Calls, NEW outcome \in FlowOutcomes, FlowReplies(c, outcome)
  PROVE  TypeOK'
<1> DEFINE chain == evidence[c] \o (IF outcome = "skipped" THEN <<>>
                                   ELSE Step("clause_enforcement_evaluated", outcome))
<1>1. (IF outcome = "skipped" THEN <<>> ELSE Step("clause_enforcement_evaluated", outcome))
        \in Seq(Records)
  <2>1. Step("clause_enforcement_evaluated", outcome) \in Seq(Records)
    BY StepIsChain DEF Operations, Values
  <2>2. QED
    BY <2>1
<1>2. chain \in Seq(Records)
  BY <1>1, ChainsConcatenate DEF TypeOK
<1>3. "blocked" \in Verdicts
  BY DEF Verdicts
<1>4. Finalize(c, "flow", chain, "blocked") \/ Proceed(c, "flow", chain)
  BY DEF FlowReplies
<1> HIDE DEF chain
<1>5. StageTyped
  BY <1>2, <1>3, <1>4, FinalizeTyped, ProceedTyped
<1>6. QED
  BY <1>5 DEF FlowReplies, TypeOK, StageTyped

\* gatherInputs settles, either way the decision goes.
LEMMA InputsTyped ==
  ASSUME TypeOK, NEW c \in Calls, InputsResolve(c) \/ InputsDispatch(c)
  PROVE  TypeOK'
<1> DEFINE chain == evidence[c] \o Step("inputs_gathered", "")
           resolved == chain \o Step("deterministic_resolution", "")
<1>1. Step("inputs_gathered", "") \in Seq(Records)
  BY StepIsChain DEF Operations, Values
<1>2. chain \in Seq(Records)
  BY <1>1, ChainsConcatenate DEF TypeOK
<1>3. Step("deterministic_resolution", "") \in Seq(Records)
  BY StepIsChain DEF Operations, Values
<1> HIDE DEF chain
<1>4. resolved \in Seq(Records)
  BY <1>2, <1>3, ChainsConcatenate
<1>5. "completed" \in Verdicts /\ "pattern" \in Phases /\ "evaluate" \in Phases
  BY DEF Verdicts, Phases
<1>6. CASE InputsResolve(c)
  <2>1. Finalize(c, "inputs", resolved, "completed") \/ Fail(c, "inputs", chain)
    BY <1>6 DEF InputsResolve, chain
  <2> HIDE DEF resolved
  <2>2. StageTyped
    BY <2>1, <1>2, <1>4, <1>5, FinalizeTyped, FailTyped
  <2>3. QED
    BY <1>6, <2>2 DEF InputsResolve, TypeOK, StageTyped
<1>7. CASE InputsDispatch(c)
  <2>1. \/ Continue(c, "inputs", "pattern", chain)
        \/ Continue(c, "inputs", "evaluate", chain)
        \/ Fail(c, "inputs", chain)
    BY <1>7 DEF InputsDispatch, chain
  <2>2. StageTyped
    BY <2>1, <1>2, <1>5, ContinueTyped, FailTyped
  <2>3. asking \in [Calls -> PatternSteps \cup AutonomyStatuses \cup {"none"}]
    BY DEF TypeOK
  <2>4. \/ asking' = asking
        \/ asking' = [asking EXCEPT ![c] = FirstStep(config[c].binding)]
    BY <1>7 DEF InputsDispatch
  <2>5. FirstStep(config[c].binding) \in PatternSteps \cup AutonomyStatuses
    BY FirstStepType
  <2> HIDE DEF resolved
  <2>6. asking' \in [Calls -> PatternSteps \cup AutonomyStatuses \cup {"none"}]
    <3> DEFINE Here == PatternSteps \cup AutonomyStatuses \cup {"none"}
               start == FirstStep(config[c].binding)
    <3>1. start \in Here
      BY <2>5
    <3> HIDE DEF Here, start
    <3>2. [asking EXCEPT ![c] = start] \in [Calls -> Here]
      BY <2>3, <3>1 DEF Here
    <3>3. QED
      BY <2>3, <2>4, <3>2 DEF Here, start
  <2>7. QED
    BY <1>7, <2>2, <2>6 DEF InputsDispatch, TypeOK, StageTyped
<1>8. QED
  BY <1>6, <1>7

\* A pattern run ends, and its output is parsed or not.
LEMMA PatternTyped ==
  ASSUME TypeOK, NEW c \in Calls, PatternReturns(c)
  PROVE  TypeOK'
<1> DEFINE chain == evidence[c] \o Step("pattern_executed", asking[c])
<1>1. Step("pattern_executed", asking[c]) \in Seq(Records)
  BY StepIsChain DEF PatternReturns, Operations, Values
<1>2. chain \in Seq(Records)
  BY <1>1, ChainsConcatenate DEF TypeOK
<1>3. "completed" \in Verdicts /\ "safe_block" \in Verdicts
  BY DEF Verdicts
<1>4. \/ Finalize(c, "pattern", chain, "safe_block")
      \/ Finalize(c, "pattern", chain, "completed")
      \/ Fail(c, "pattern", chain)
  BY DEF PatternReturns
<1> HIDE DEF chain
<1>5. StageTyped
  BY <1>2, <1>3, <1>4, FinalizeTyped, FailTyped
<1>6. QED
  BY <1>5 DEF PatternReturns, TypeOK, StageTyped

\* The decision's own evaluate() settles, or it or gatherInputs throws.
LEMMA EvaluateTyped ==
  ASSUME TypeOK, NEW c \in Calls, EvaluateReplies(c) \/ ExecutionThrows(c)
  PROVE  TypeOK'
<1>1. evidence[c] \in Seq(Records)
  BY DEF TypeOK
<1>2. "completed" \in Verdicts
  BY DEF Verdicts
<1>3. StageTyped
  BY <1>1, <1>2, FinalizeTyped, FailTyped DEF EvaluateReplies, ExecutionThrows
<1>4. QED
  BY <1>3 DEF EvaluateReplies, ExecutionThrows, TypeOK, StageTyped

\* Initiation, a rejection before execution, a model's reply and the log's.
LEMMA OtherTyped ==
  ASSUME TypeOK, NEW c \in Calls
  PROVE  /\ Initiate(c) => TypeOK'
         /\ Rejects(c) => TypeOK'
         /\ \A reply \in Replies : ModelReplies(c, reply) => TypeOK'
         /\ LogAccepts(c) => TypeOK'
         /\ LogRefuses(c) => TypeOK'
<1>1. ASSUME Initiate(c) PROVE TypeOK'
  <2>1. Step("decision_initiated", "") \in Seq(Records)
    BY StepIsChain DEF Operations, Values
  <2>2. StageTyped
    BY <1>1, <2>1, ContinueTyped DEF Initiate, Phases
  <2>3. QED
    BY <1>1, <2>2 DEF Initiate, TypeOK, StageTyped
<1>2. ASSUME Rejects(c) PROVE TypeOK'
  BY <1>2 DEF Rejects, Await, TypeOK, Phases
<1>3. ASSUME NEW reply \in Replies, ModelReplies(c, reply) PROVE TypeOK'
  <2>1. asking' \in [Calls -> PatternSteps \cup AutonomyStatuses \cup {"none"}]
    BY <1>3, AfterReplyType DEF ModelReplies, TypeOK
  <2>2. QED
    BY <1>3, <2>1 DEF ModelReplies, TypeOK
<1>4. ASSUME LogAccepts(c) PROVE TypeOK'
  <2>1. [call |-> c, status |-> verdictToStatus(verdict[c])]
          \in [call : Calls, status : {"generated", "pending", "failed", "blocked"}]
    BY StatusType
  <2>2. log' \in Seq([call : Calls, status : {"generated", "pending", "failed", "blocked"}])
    BY <1>4, <2>1 DEF LogAccepts, TypeOK
  <2>3. phase' \in [Calls -> Phases]
    BY <1>4 DEF LogAccepts, Await, TypeOK, Phases
  <2>4. QED
    BY <1>4, <2>2, <2>3 DEF LogAccepts, TypeOK
<1>5. ASSUME LogRefuses(c) PROVE TypeOK'
  BY <1>5 DEF LogRefuses, Await, TypeOK, Phases
<1>6. QED
  BY <1>1, <1>2, <1>3, <1>4, <1>5

\* Every step keeps the types.
LEMMA TypeNext == TypeOK /\ [Next]_vars => TypeOK'
<1> SUFFICES ASSUME TypeOK, [Next]_vars PROVE TypeOK'
  OBVIOUS
<1>1. CASE UNCHANGED vars
  BY <1>1 DEF vars, TypeOK
<1>2. ASSUME NEW c \in Calls, Initiate(c) \/ Advance(c) PROVE TypeOK'
  BY <1>2, GateTyped, PolicyTyped, FlowTyped, InputsTyped, PatternTyped, EvaluateTyped,
     OtherTyped DEF Advance
<1>3. QED
  BY <1>1, <1>2 DEF Next

\* Type correctness: every variable keeps its type, in any number of concurrent calls.
THEOREM TypeCorrect == Spec => []TypeOK
<1>1. QED
  BY TypeInit, TypeNext, PTL DEF Spec

-----------------------------------------------------------------------------
(* Only a cleared call is executed                                         *)

\* A step of call c leaves the other calls safe.
LEMMA OthersSafe ==
  ASSUME NEW x \in Calls, CallSafe(x), config' = config,
         phase'[x] = phase[x], gate'[x] = gate[x], observed'[x] = observed[x],
         rules'[x] = rules[x], verdict'[x] = verdict[x]
  PROVE  CallSafe(x)'
BY DEF CallSafe, Cleared

\* Going on from a stage touches only the phase of that call.
LEMMA ContinueFrame ==
  ASSUME TypeOK, NEW c \in Calls, NEW from, NEW to, NEW chain, Continue(c, from, to, chain)
  PROVE  /\ phase[c] = from /\ phase'[c] = to /\ verdict' = verdict
         /\ \A x \in Calls \ {c} : phase'[x] = phase[x]
BY DEF TypeOK, Continue, Await

\* Finalizing touches only the phase and the verdict of that call.
LEMMA FinalizeFrame ==
  ASSUME TypeOK, NEW c \in Calls, NEW from, NEW chain, NEW ruling,
         Finalize(c, from, chain, ruling)
  PROVE  /\ phase[c] = from /\ phase'[c] = "log" /\ verdict'[c] = ruling
         /\ \A x \in Calls \ {c} : phase'[x] = phase[x] /\ verdict'[x] = verdict[x]
BY DEF TypeOK, Finalize, Await

\* A call that is let pass by all stages is cleared when it goes on, and refused otherwise.
LEMMA ProceedFrame ==
  ASSUME TypeOK, NEW c \in Calls, NEW from, NEW chain, Proceed(c, from, chain)
  PROVE  /\ phase[c] = from
         /\ \/ phase'[c] = "log" /\ verdict'[c] = "safe_block"
            \/ phase'[c] = "inputs" /\ verdict'[c] = verdict[c] /\ ~SoftAbort(config[c])
         /\ \A x \in Calls \ {c} : phase'[x] = phase[x] /\ verdict'[x] = verdict[x]
BY ContinueFrame, FinalizeFrame DEF Proceed

\* No call is past the initial state, so none is executed.
LEMMA SafeInit == Init => \A c \in Calls : CallSafe(c)
BY DEF Init, CallSafe

\* The quality gate's reply records the status that the next stage relies on.
LEMMA GateSafe ==
  ASSUME IInv, NEW c \in Calls, NEW status \in GateStatuses, GateReplies(c, status)
  PROVE  \A x \in Calls : CallSafe(x)'
<1> SUFFICES ASSUME NEW x \in Calls PROVE CallSafe(x)'
  OBVIOUS
<1>1. /\ phase[c] = "gate" /\ phase'[c] = "policy" /\ verdict' = verdict
      /\ \A y \in Calls \ {c} : phase'[y] = phase[y]
  BY ContinueFrame DEF IInv, GateReplies
<1>2. gate'[c] = status /\ \A y \in Calls \ {c} : gate'[y] = gate[y]
  BY DEF IInv, TypeOK, GateReplies
<1>3. CASE x = c
  BY <1>1, <1>2, <1>3 DEF IInv, CallSafe
<1>4. CASE x # c
  BY <1>1, <1>2, <1>4, OthersSafe DEF IInv, GateReplies
<1>5. QED
  BY <1>3, <1>4

\* The PDP's reply: only an effective allow with a gate that did not fail goes on.
LEMMA PolicySafe ==
  ASSUME IInv, NEW c \in Calls, NEW raw \in PolicyVerdicts, PolicyReplies(c, raw)
  PROVE  \A x \in Calls : CallSafe(x)'
<1> SUFFICES ASSUME NEW x \in Calls PROVE CallSafe(x)'
  OBVIOUS
<1> DEFINE chain == Judged(c, Effective(config[c].mode, raw))
<1>1. TypeOK /\ config' = config /\ gate' = gate /\ rules' = rules
  BY DEF IInv, PolicyReplies
<1>2. observed'[c] = raw /\ \A y \in Calls \ {c} : observed'[y] = observed[y]
  BY <1>1 DEF TypeOK, PolicyReplies
<1>3. \/ /\ \/ Finalize(c, "policy", chain, "blocked")
            \/ Finalize(c, "policy", chain, "approval_required")
      \/ /\ Effective(config[c].mode, raw) = "allow" /\ gate[c] # "fail"
         /\ \/ Continue(c, "policy", "flow", chain)
            \/ ~config[c].flow /\ Proceed(c, "policy", chain)
  BY DEF PolicyReplies
<1> HIDE DEF chain
<1>4. /\ phase[c] = "policy"
      /\ \/ phase'[c] = "log" /\ verdict'[c] \in {"blocked", "approval_required", "safe_block"}
         \/ /\ Effective(config[c].mode, raw) = "allow" /\ gate[c] # "fail"
            /\ verdict'[c] = verdict[c]
            /\ \/ phase'[c] = "flow"
               \/ phase'[c] = "inputs" /\ ~config[c].flow /\ ~SoftAbort(config[c])
      /\ \A y \in Calls \ {c} : phase'[y] = phase[y] /\ verdict'[y] = verdict[y]
  BY <1>1, <1>3, ContinueFrame, FinalizeFrame, ProceedFrame
<1>5. CASE x = c
  BY <1>1, <1>2, <1>4, <1>5 DEF IInv, CallSafe, Cleared, GateStatuses
<1>6. CASE x # c
  BY <1>1, <1>2, <1>4, <1>6, OthersSafe DEF IInv
<1>7. QED
  BY <1>5, <1>6

\* The enforcement flow's reply: only an outcome that does not block goes on.
LEMMA FlowSafe ==
  ASSUME IInv, NEW c \in Calls, NEW outcome \in FlowOutcomes, FlowReplies(c, outcome)
  PROVE  \A x \in Calls : CallSafe(x)'
<1> SUFFICES ASSUME NEW x \in Calls PROVE CallSafe(x)'
  OBVIOUS
<1> DEFINE chain == evidence[c] \o (IF outcome = "skipped" THEN <<>>
                                   ELSE Step("clause_enforcement_evaluated", outcome))
<1>1. TypeOK /\ config' = config /\ gate' = gate /\ observed' = observed
  BY DEF IInv, FlowReplies
<1>2. rules'[c] = outcome /\ \A y \in Calls \ {c} : rules'[y] = rules[y]
  BY <1>1 DEF TypeOK, FlowReplies
<1>3. \/ Finalize(c, "flow", chain, "blocked")
      \/ outcome # "blocked" /\ Proceed(c, "flow", chain)
  BY DEF FlowReplies
<1> HIDE DEF chain
<1>4. /\ phase[c] = "flow"
      /\ \/ phase'[c] = "log" /\ verdict'[c] \in {"blocked", "safe_block"}
         \/ /\ outcome # "blocked" /\ verdict'[c] = verdict[c]
            /\ phase'[c] = "inputs" /\ ~SoftAbort(config[c])
      /\ \A y \in Calls \ {c} : phase'[y] = phase[y] /\ verdict'[y] = verdict[y]
  BY <1>1, <1>3, FinalizeFrame, ProceedFrame
<1>5. CASE x = c
  BY <1>1, <1>2, <1>4, <1>5 DEF IInv, CallSafe, Cleared, FlowOutcomes
<1>6. CASE x # c
  BY <1>1, <1>2, <1>4, <1>6, OthersSafe DEF IInv
<1>7. QED
  BY <1>5, <1>6

\* A cleared call stays cleared while it is executed, because nothing it was cleared by changes.
LEMMA ExecutionSafe ==
  ASSUME IInv, NEW c \in Calls, UNCHANGED <<config, gate, observed, rules>>,
         phase[c] \in {"inputs", "pattern", "evaluate"},
         \/ phase'[c] \in {"inputs", "pattern", "evaluate"} /\ verdict'[c] = verdict[c]
         \/ phase'[c] = "log",
         \A x \in Calls \ {c} : phase'[x] = phase[x] /\ verdict'[x] = verdict[x]
  PROVE  \A x \in Calls : CallSafe(x)'
<1> SUFFICES ASSUME NEW x \in Calls PROVE CallSafe(x)'
  OBVIOUS
<1>1. CASE x = c
  BY <1>1 DEF IInv, CallSafe, Cleared
<1>2. CASE x # c
  BY <1>2, OthersSafe DEF IInv
<1>3. QED
  BY <1>1, <1>2

\* gatherInputs settles, or throws.
LEMMA InputsSafe ==
  ASSUME IInv, NEW c \in Calls, InputsResolve(c) \/ InputsDispatch(c) \/ ExecutionThrows(c)
  PROVE  \A x \in Calls : CallSafe(x)'
<1>1. TypeOK
  BY DEF IInv
<1>2. \E from \in {"inputs", "evaluate"} : \E chain :
        \/ Continue(c, from, "pattern", chain)
        \/ Continue(c, from, "evaluate", chain)
        \/ \E ruling : Finalize(c, from, chain, ruling)
  BY DEF InputsResolve, InputsDispatch, ExecutionThrows, Fail
<1>3. UNCHANGED <<config, gate, observed, rules>>
  BY DEF InputsResolve, InputsDispatch, ExecutionThrows
<1>4. QED
  BY <1>1, <1>2, <1>3, ContinueFrame, FinalizeFrame, ExecutionSafe

\* A pattern run or the decision's evaluate() ends.
LEMMA ResultSafe ==
  ASSUME IInv, NEW c \in Calls, PatternReturns(c) \/ EvaluateReplies(c)
  PROVE  \A x \in Calls : CallSafe(x)'
<1>1. TypeOK
  BY DEF IInv
<1>2. \E from \in {"pattern", "evaluate"} : \E chain, ruling : Finalize(c, from, chain, ruling)
  BY DEF PatternReturns, EvaluateReplies, Fail
<1>3. UNCHANGED <<config, gate, observed, rules>>
  BY DEF PatternReturns, EvaluateReplies
<1>4. QED
  BY <1>1, <1>2, <1>3, FinalizeFrame, ExecutionSafe

\* The steps that neither judge nor execute a call.
LEMMA OtherSafe ==
  ASSUME IInv, NEW c \in Calls,
         \/ Initiate(c) \/ Rejects(c) \/ LogAccepts(c) \/ LogRefuses(c)
         \/ \E reply \in Replies : ModelReplies(c, reply)
  PROVE  \A x \in Calls : CallSafe(x)'
<1> SUFFICES ASSUME NEW x \in Calls PROVE CallSafe(x)'
  OBVIOUS
<1>1. TypeOK /\ UNCHANGED <<config, gate, observed, rules, verdict>>
  BY DEF IInv, Initiate, Continue, Rejects, LogAccepts, LogRefuses, ModelReplies
<1>2. /\ \/ phase[c] = "idle" /\ phase'[c] = "gate"
         \/ phase'[c] \in {"rejected", "done"}
         \/ phase' = phase
      /\ \A y \in Calls \ {c} : phase'[y] = phase[y]
  BY <1>1 DEF TypeOK, Initiate, Continue, Rejects, LogAccepts, LogRefuses, ModelReplies, Await
<1>3. CASE x = c
  BY <1>1, <1>2, <1>3 DEF IInv, CallSafe, Cleared
<1>4. CASE x # c
  BY <1>1, <1>2, <1>4, OthersSafe DEF IInv
<1>5. QED
  BY <1>3, <1>4

\* Every step keeps the inductive invariant.
LEMMA SafeNext == IInv /\ [Next]_vars => IInv'
<1> SUFFICES ASSUME IInv, [Next]_vars PROVE IInv'
  OBVIOUS
<1>1. TypeOK'
  BY TypeNext DEF IInv
<1>2. CASE UNCHANGED vars
  BY <1>1, <1>2, OthersSafe DEF vars, IInv
<1>3. ASSUME NEW c \in Calls, Initiate(c) \/ Advance(c) PROVE \A x \in Calls : CallSafe(x)'
  BY <1>3, GateSafe, PolicySafe, FlowSafe, InputsSafe, ResultSafe, OtherSafe DEF Advance
<1>4. QED
  BY <1>1, <1>2, <1>3 DEF Next, IInv

\* Fail closed: a decision is executed, and ends completed or failed, only if the quality gate,
\* the policy verdict, the compiled rules and the soft aborts all let it pass.
THEOREM FailClosed == Spec => []ExecutionCleared
<1>1. Init => IInv
  BY TypeInit, SafeInit DEF IInv
<1>2. IInv => ExecutionCleared
  BY DEF IInv, CallSafe, ExecutionCleared
<1>3. QED
  BY <1>1, <1>2, SafeNext, PTL DEF Spec

-----------------------------------------------------------------------------
(* The evidence accounts for the verdict                                   *)

\* The value of a record that has none.
NoValue == ""

\* A chain of records holds this one, and what an auditor derives from the chain.
Has(chain, op, value) == \E i \in DOMAIN chain : chain[i] = [op |-> op, value |-> value]
Explained(chain) ==
  CASE Has(chain, "policy_evaluated", "deny")                     -> "blocked"
    [] Has(chain, "policy_evaluated", "approve_required")         -> "approval_required"
    [] \/ Has(chain, "clause_enforcement_evaluated", "blocked")
       \/ /\ Has(chain, "policy_evaluated", "allow")
          /\ Has(chain, "quality_gate_checked", "fail")           -> "blocked"
    [] Has(chain, "execution_failed", NoValue)                         -> "failed"
    [] /\ Has(chain, "inputs_gathered", NoValue) /\ ~Has(chain, "execution_failed", NoValue)
       /\ ~Has(chain, "pattern_executed", "safe_block")           -> "completed"
    [] OTHER                                                      -> "safe_block"

\* Before the policy has judged, and after it let the call pass, with nothing against it since.
Unjudged(chain) ==
  /\ \A value : ~Has(chain, "policy_evaluated", value)
  /\ ~Has(chain, "clause_enforcement_evaluated", "blocked") /\ ~Has(chain, "execution_failed", NoValue)
  /\ ~Has(chain, "inputs_gathered", NoValue) /\ ~Has(chain, "pattern_executed", "safe_block")
LetPass(chain) ==
  /\ Has(chain, "policy_evaluated", "allow")
  /\ ~Has(chain, "policy_evaluated", "deny") /\ ~Has(chain, "policy_evaluated", "approve_required")
  /\ ~Has(chain, "quality_gate_checked", "fail")
  /\ ~Has(chain, "clause_enforcement_evaluated", "blocked") /\ ~Has(chain, "execution_failed", NoValue)
  /\ ~Has(chain, "pattern_executed", "safe_block")

\* What each await guarantees of the evidence of one call, and what its verdict owes to it.
CallExplained(c) ==
  /\ phase[c] \in {"idle", "gate"} =>
       Unjudged(evidence[c]) /\ ~Has(evidence[c], "quality_gate_checked", "fail")
  /\ phase[c] = "policy" =>
       Unjudged(evidence[c]) /\ (Has(evidence[c], "quality_gate_checked", "fail") <=> gate[c] = "fail")
  /\ phase[c] \in {"flow", "inputs"} =>
       LetPass(evidence[c]) /\ ~Has(evidence[c], "inputs_gathered", NoValue)
  /\ phase[c] \in {"pattern", "evaluate"} =>
       LetPass(evidence[c]) /\ Has(evidence[c], "inputs_gathered", NoValue)
  /\ verdict[c] # "none" => verdict[c] = Explained(evidence[c])

EInv == IInv /\ \A c \in Calls : CallExplained(c)

\* The values that the pipeline records.
LEMMA RecordedValues ==
  /\ NoValue \in Values /\ GateStatuses \subseteq Values /\ PolicyVerdicts \subseteq Values
  /\ FlowOutcomes \subseteq Values /\ Verdicts \subseteq Values /\ AutonomyStatuses \subseteq Values
  /\ RouteClasses \subseteq Values
BY DEF NoValue, Values

\* A chain holds what its two parts hold.
LEMMA HasConcat ==
  ASSUME NEW s \in Seq(Records), NEW t \in Seq(Records), NEW op, NEW value
  PROVE  Has(s \o t, op, value) <=> Has(s, op, value) \/ Has(t, op, value)
<1> DEFINE record == [op |-> op, value |-> value]
<1>1. /\ DOMAIN s = 1..Len(s) /\ DOMAIN t = 1..Len(t) /\ Len(s) \in Nat /\ Len(t) \in Nat
      /\ DOMAIN (s \o t) = 1..(Len(s) + Len(t))
      /\ \A i \in 1..(Len(s) + Len(t)) :
           (s \o t)[i] = IF i <= Len(s) THEN s[i] ELSE t[i - Len(s)]
  OBVIOUS
<1>2. ASSUME Has(s \o t, op, value)  PROVE  Has(s, op, value) \/ Has(t, op, value)
  <2>1. PICK i \in 1..(Len(s) + Len(t)) : (s \o t)[i] = record
    BY <1>1, <1>2 DEF Has
  <2>2. CASE i <= Len(s)
    BY <1>1, <2>1, <2>2 DEF Has
  <2>3. CASE ~(i <= Len(s))
    <3>1. i - Len(s) \in 1..Len(t) /\ t[i - Len(s)] = record
      BY <1>1, <2>1, <2>3
    <3> QED
      BY <1>1, <3>1 DEF Has
  <2> QED
    BY <2>2, <2>3
<1>3. ASSUME Has(s, op, value)  PROVE  Has(s \o t, op, value)
  <2>1. PICK i \in 1..Len(s) : s[i] = record
    BY <1>1, <1>3 DEF Has
  <2>2. i \in 1..(Len(s) + Len(t)) /\ (s \o t)[i] = record
    BY <1>1, <2>1
  <2> QED
    BY <1>1, <2>2 DEF Has
<1>4. ASSUME Has(t, op, value)  PROVE  Has(s \o t, op, value)
  <2>1. PICK i \in 1..Len(t) : t[i] = record
    BY <1>1, <1>4 DEF Has
  <2>2. Len(s) + i \in 1..(Len(s) + Len(t)) /\ ~(Len(s) + i <= Len(s)) /\ (Len(s) + i) - Len(s) = i
    BY <1>1
  <2>3. (s \o t)[Len(s) + i] = record
    BY <1>1, <2>1, <2>2
  <2> QED
    BY <1>1, <2>2, <2>3 DEF Has
<1> QED
  BY <1>2, <1>3, <1>4

LEMMA HasStep ==
  ASSUME NEW op, NEW value, NEW o, NEW v
  PROVE  Has(Step(o, v), op, value) <=> o = op /\ v = value
<1>1. DOMAIN Step(o, v) = {1} /\ Step(o, v)[1] = [op |-> o, value |-> v]
  BY DEF Step
<1> QED
  BY <1>1 DEF Has

\* One more record is all that a step adds to what a chain holds.
LEMMA HasAdded ==
  ASSUME NEW s \in Seq(Records), NEW o \in Operations, NEW v \in Values
  PROVE  /\ s \o Step(o, v) \in Seq(Records)
         /\ \A op, value : Has(s \o Step(o, v), op, value) <=> Has(s, op, value) \/ (op = o /\ value = v)
<1>1. Step(o, v) \in Seq(Records)
  BY StepIsChain
<1> DEFINE t == Step(o, v)
<1>2. \A op, value : Has(t, op, value) <=> op = o /\ value = v
  BY HasStep
<1> HIDE DEF t
<1>3. s \o t \in Seq(Records)
  BY <1>1, ChainsConcatenate DEF t
<1>4. \A op, value : Has(s \o t, op, value) <=> Has(s, op, value) \/ Has(t, op, value)
  BY <1>1, HasConcat DEF t
<1> QED
  BY <1>2, <1>3, <1>4 DEF t

\* The record of the verdict itself explains nothing.
LEMMA FinalExplainsNothing ==
  ASSUME NEW s \in Seq(Records), NEW ruling \in Verdicts
  PROVE  Explained(s \o Step("decision_finalized", ruling)) = Explained(s)
<1>1. "decision_finalized" \in Operations /\ ruling \in Values
  BY RecordedValues DEF Operations
<1>2. ASSUME NEW op \in Operations \ {"decision_finalized"}, NEW value
      PROVE  Has(s \o Step("decision_finalized", ruling), op, value) <=> Has(s, op, value)
  BY <1>1, HasAdded
<1>3. {"policy_evaluated", "clause_enforcement_evaluated", "quality_gate_checked", "execution_failed",
       "inputs_gathered", "pattern_executed"} \subseteq Operations \ {"decision_finalized"}
  BY DEF Operations
<1> QED
  BY <1>2, <1>3 DEF Explained

\* What the chain of a call that was let pass explains, before and after its inputs are there.
LEMMA Explanations ==
  ASSUME NEW s
  PROVE  /\ LetPass(s) /\ ~Has(s, "inputs_gathered", NoValue) => Explained(s) = "safe_block"
         /\ LetPass(s) /\ Has(s, "inputs_gathered", NoValue) => Explained(s) = "completed"
BY DEF Explained, LetPass

LEMMA FailureExplained ==
  ASSUME NEW s \in Seq(Records), LetPass(s)
  PROVE  Explained(s \o Step("execution_failed", NoValue)) = "failed"
<1>1. "execution_failed" \in Operations /\ NoValue \in Values
  BY RecordedValues DEF Operations
<1> DEFINE t == s \o Step("execution_failed", NoValue)
<1>2. \A op, value : Has(t, op, value) <=> Has(s, op, value) \/ (op = "execution_failed" /\ value = NoValue)
  BY <1>1, HasAdded
<1> HIDE DEF t
<1> QED
  BY <1>2 DEF Explained, LetPass, t

-----------------------------------------------------------------------------
\* A step of call c leaves the evidence and the verdicts of the others.
LEMMA OthersExplained ==
  ASSUME NEW x \in Calls, CallExplained(x), phase'[x] = phase[x], gate'[x] = gate[x],
         evidence'[x] = evidence[x], verdict'[x] = verdict[x]
  PROVE  CallExplained(x)'
BY DEF CallExplained

\* A call that is finalized with what its chain explains.
LEMMA FinalizeExplained ==
  ASSUME TypeOK, \A x \in Calls : CallExplained(x), NEW c \in Calls, NEW from, NEW ruling \in Verdicts,
         NEW chain \in Seq(Records), Finalize(c, from, chain, ruling), ruling = Explained(chain),
         \A x \in Calls \ {c} : gate'[x] = gate[x]
  PROVE  \A x \in Calls : CallExplained(x)'
<1>1. /\ phase'[c] = "log" /\ verdict'[c] = ruling
      /\ evidence'[c] = chain \o Step("decision_finalized", ruling)
      /\ \A x \in Calls \ {c} : /\ phase'[x] = phase[x] /\ verdict'[x] = verdict[x]
                                /\ evidence'[x] = evidence[x]
  BY DEF TypeOK, Finalize, Await
<1>2. verdict'[c] = Explained(evidence'[c])
  BY <1>1, FinalExplainsNothing
<1>3. CallExplained(c)'
  BY <1>1, <1>2 DEF CallExplained
<1> QED
  BY <1>1, <1>3, OthersExplained

\* A call that goes on with a chain that the next await may rely on.
LEMMA ContinueExplained ==
  ASSUME TypeOK, \A x \in Calls : CallExplained(x) /\ CallSafe(x), NEW c \in Calls, NEW from, NEW to,
         NEW chain, Continue(c, from, to, chain), phase[c] \notin {"log", "done", "rejected"},
         \A x \in Calls \ {c} : gate'[x] = gate[x],
         \/ to = "gate" /\ Unjudged(chain) /\ ~Has(chain, "quality_gate_checked", "fail")
         \/ /\ to = "policy" /\ Unjudged(chain)
            /\ Has(chain, "quality_gate_checked", "fail") <=> gate'[c] = "fail"
         \/ to \in {"flow", "inputs"} /\ LetPass(chain) /\ ~Has(chain, "inputs_gathered", NoValue)
         \/ to \in {"pattern", "evaluate"} /\ LetPass(chain) /\ Has(chain, "inputs_gathered", NoValue)
  PROVE  \A x \in Calls : CallExplained(x)'
<1>1. /\ phase'[c] = to /\ evidence'[c] = chain /\ verdict' = verdict
      /\ \A x \in Calls \ {c} : phase'[x] = phase[x] /\ evidence'[x] = evidence[x]
  BY DEF TypeOK, Continue, Await
<1>2. verdict[c] = "none"
  <2>1. phase[c] \in Phases /\ CallSafe(c)
    BY DEF TypeOK
  <2> QED
    BY <2>1 DEF CallSafe, Phases
<1>3. CallExplained(c)'
  BY <1>1, <1>2 DEF CallExplained
<1> QED
  BY <1>1, <1>3, OthersExplained

LEMMA FailExplained ==
  ASSUME TypeOK, \A x \in Calls : CallExplained(x), NEW c \in Calls, NEW from, UNCHANGED gate,
         NEW chain \in Seq(Records), Fail(c, from, chain), LetPass(chain)
  PROVE  \A x \in Calls : CallExplained(x)'
<1> DEFINE failed == chain \o Step("execution_failed", NoValue)
<1>1. failed \in Seq(Records) /\ "failed" \in Verdicts
  BY HasAdded, RecordedValues DEF Operations, Verdicts
<1>2. Explained(failed) = "failed" /\ Finalize(c, from, failed, "failed")
  BY FailureExplained DEF Fail, NoValue
<1> HIDE DEF failed
<1> QED
  BY <1>1, <1>2, FinalizeExplained

LEMMA ProceedExplained ==
  ASSUME IInv, \A x \in Calls : CallExplained(x), NEW c \in Calls, NEW from \in {"policy", "flow"},
         UNCHANGED gate, NEW chain \in Seq(Records), Proceed(c, from, chain), LetPass(chain),
         ~Has(chain, "inputs_gathered", NoValue)
  PROVE  \A x \in Calls : CallExplained(x)'
<1>1. TypeOK /\ (\A x \in Calls : CallSafe(x)) /\ phase[c] = from
  BY DEF IInv, Proceed, Finalize, Continue, Await
<1>2. CASE Finalize(c, from, chain, "safe_block")
  BY <1>1, <1>2, Explanations, FinalizeExplained DEF Verdicts
<1>3. CASE Continue(c, from, "inputs", chain)
  BY <1>1, <1>3, ContinueExplained
<1> QED
  BY <1>2, <1>3 DEF Proceed

-----------------------------------------------------------------------------
LEMMA StartExplained ==
  ASSUME EInv, NEW c \in Calls, Initiate(c)
  PROVE  \A x \in Calls : CallExplained(x)'
<1> DEFINE chain == Step("decision_initiated", NoValue)
<1>1. Continue(c, "idle", "gate", chain) /\ UNCHANGED gate /\ phase[c] = "idle"
  BY DEF Initiate, Continue, Await, NoValue
<1>2. Unjudged(chain) /\ ~Has(chain, "quality_gate_checked", "fail")
  BY HasStep DEF Unjudged
<1> HIDE DEF chain
<1> QED
  BY <1>1, <1>2, ContinueExplained DEF EInv, IInv

LEMMA GateExplained ==
  ASSUME EInv, NEW c \in Calls, NEW status \in GateStatuses, GateReplies(c, status)
  PROVE  \A x \in Calls : CallExplained(x)'
<1> DEFINE chain == evidence[c] \o Step("quality_gate_checked", status)
<1>1. /\ Continue(c, "gate", "policy", chain) /\ phase[c] = "gate"
      /\ gate'[c] = status /\ \A x \in Calls \ {c} : gate'[x] = gate[x]
  BY DEF EInv, IInv, TypeOK, GateReplies, Continue, Await
<1>2. Unjudged(evidence[c]) /\ ~Has(evidence[c], "quality_gate_checked", "fail")
  BY <1>1 DEF EInv, CallExplained
<1>3. \A op, value : Has(chain, op, value) <=>
        Has(evidence[c], op, value) \/ (op = "quality_gate_checked" /\ value = status)
  BY HasAdded, RecordedValues DEF EInv, IInv, TypeOK, Operations
<1> HIDE DEF chain
<1>4. Unjudged(chain) /\ (Has(chain, "quality_gate_checked", "fail") <=> gate'[c] = "fail")
  BY <1>1, <1>2, <1>3 DEF Unjudged
<1> QED
  BY <1>1, <1>4, ContinueExplained DEF EInv, IInv

LEMMA PolicyExplained ==
  ASSUME EInv, NEW c \in Calls, NEW raw \in PolicyVerdicts, PolicyReplies(c, raw)
  PROVE  \A x \in Calls : CallExplained(x)'
<1> DEFINE shown == Effective(config[c].mode, raw)
           chain == Judged(c, shown)
<1>1. /\ TypeOK /\ (\A x \in Calls : CallExplained(x) /\ CallSafe(x)) /\ UNCHANGED gate
      /\ phase[c] = "policy" /\ shown \in PolicyVerdicts
  BY EffectiveType DEF EInv, IInv, PolicyReplies, Finalize, Continue, Proceed, Await
<1>2. \/ shown = "deny" /\ Finalize(c, "policy", chain, "blocked")
      \/ shown = "approve_required" /\ Finalize(c, "policy", chain, "approval_required")
      \/ shown = "allow" /\ gate[c] = "fail" /\ Finalize(c, "policy", chain, "blocked")
      \/ shown = "allow" /\ gate[c] # "fail" /\ Continue(c, "policy", "flow", chain)
      \/ shown = "allow" /\ gate[c] # "fail" /\ Proceed(c, "policy", chain)
  BY DEF PolicyReplies
<1>3. /\ Unjudged(evidence[c])
      /\ Has(evidence[c], "quality_gate_checked", "fail") <=> gate[c] = "fail"
  BY <1>1 DEF CallExplained
<1>4. chain \in Seq(Records)
  BY <1>1, JudgedIsChain
<1>5. ASSUME NEW op \in Operations \ {"route_resolved"}, NEW value
      PROVE  Has(chain, op, value) <=> Has(evidence[c], op, value) \/ (op = "policy_evaluated" /\ value = shown)
  <2> DEFINE judged == evidence[c] \o Step("policy_evaluated", shown)
  <2>1. /\ judged \in Seq(Records)
        /\ Has(judged, op, value) <=> Has(evidence[c], op, value) \/ (op = "policy_evaluated" /\ value = shown)
    <3>1. evidence[c] \in Seq(Records) /\ shown \in Values
      BY <1>1, RecordedValues DEF TypeOK
    <3>2. "policy_evaluated" \in Operations
      BY DEF Operations
    <3> HIDE DEF shown
    <3> QED
      BY <3>1, <3>2, HasAdded
  <2>2. config[c] \in DeploymentType
    BY <1>1, ConfigurationsAssumption DEF TypeOK
  <2>3. CASE Resolved(config[c])
    <3>1. config[c].class \in Values
      BY <2>2, <2>3, RecordedValues DEF Resolved, DeploymentType
    <3>2. chain = judged \o Step("route_resolved", config[c].class)
      BY <2>3 DEF Judged
    <3> HIDE DEF judged, chain
    <3> QED
      BY <2>1, <3>1, <3>2, HasAdded DEF Operations
  <2>4. CASE ~Resolved(config[c])
    <3>1. chain = judged \o <<>>
      BY <2>4 DEF Judged
    <3>2. chain = judged
      BY <2>1, <3>1
    <3> QED
      BY <2>1, <3>2
  <2> QED
    BY <2>3, <2>4
<1>6. {"policy_evaluated", "clause_enforcement_evaluated", "quality_gate_checked", "execution_failed",
       "inputs_gathered", "pattern_executed"} \subseteq Operations \ {"route_resolved"}
  BY DEF Operations
<1> HIDE DEF shown, chain
<1>7. /\ \A value : Has(chain, "policy_evaluated", value) <=> value = shown
      /\ Has(chain, "quality_gate_checked", "fail") <=> gate[c] = "fail"
      /\ ~Has(chain, "clause_enforcement_evaluated", "blocked") /\ ~Has(chain, "execution_failed", NoValue)
      /\ ~Has(chain, "inputs_gathered", NoValue) /\ ~Has(chain, "pattern_executed", "safe_block")
  BY <1>3, <1>5, <1>6 DEF Unjudged
<1>8. /\ shown = "deny" => Explained(chain) = "blocked"
      /\ shown = "approve_required" => Explained(chain) = "approval_required"
      /\ shown = "allow" /\ gate[c] = "fail" => Explained(chain) = "blocked"
  BY <1>7 DEF Explained
<1>9. shown = "allow" /\ gate[c] # "fail" => LetPass(chain) /\ ~Has(chain, "inputs_gathered", NoValue)
  BY <1>7 DEF LetPass
<1>10. "blocked" \in Verdicts /\ "approval_required" \in Verdicts
  BY DEF Verdicts
<1>11. CASE \/ shown = "deny" /\ Finalize(c, "policy", chain, "blocked")
            \/ shown = "approve_required" /\ Finalize(c, "policy", chain, "approval_required")
            \/ shown = "allow" /\ gate[c] = "fail" /\ Finalize(c, "policy", chain, "blocked")
  BY <1>1, <1>4, <1>8, <1>10, <1>11, FinalizeExplained
<1>12. CASE shown = "allow" /\ gate[c] # "fail" /\ Continue(c, "policy", "flow", chain)
  BY <1>1, <1>9, <1>12, ContinueExplained
<1>13. CASE shown = "allow" /\ gate[c] # "fail" /\ Proceed(c, "policy", chain)
  BY <1>1, <1>4, <1>9, <1>13, ProceedExplained DEF EInv
<1> QED
  BY <1>2, <1>11, <1>12, <1>13

LEMMA FlowExplained ==
  ASSUME EInv, NEW c \in Calls, NEW outcome \in FlowOutcomes, FlowReplies(c, outcome)
  PROVE  \A x \in Calls : CallExplained(x)'
<1> DEFINE chain == evidence[c] \o (IF outcome = "skipped" THEN <<>>
                                   ELSE Step("clause_enforcement_evaluated", outcome))
<1>1. /\ TypeOK /\ (\A x \in Calls : CallExplained(x)) /\ UNCHANGED gate /\ phase[c] = "flow"
      /\ \/ outcome = "blocked" /\ Finalize(c, "flow", chain, "blocked")
         \/ outcome # "blocked" /\ Proceed(c, "flow", chain)
  BY DEF EInv, IInv, FlowReplies, Finalize, Continue, Proceed, Await
<1>2. LetPass(evidence[c]) /\ ~Has(evidence[c], "inputs_gathered", NoValue) /\ evidence[c] \in Seq(Records)
  BY <1>1 DEF CallExplained, TypeOK
<1>3. /\ chain \in Seq(Records)
      /\ \A op, value : Has(chain, op, value) <=>
           \/ Has(evidence[c], op, value)
           \/ outcome # "skipped" /\ op = "clause_enforcement_evaluated" /\ value = outcome
  <2>1. CASE outcome = "skipped"
    <3>1. chain = evidence[c]
      BY <1>2, <2>1
    <3> QED
      BY <1>2, <2>1, <3>1
  <2>2. CASE outcome # "skipped"
    <3>1. chain = evidence[c] \o Step("clause_enforcement_evaluated", outcome)
      BY <2>2
    <3>2. "clause_enforcement_evaluated" \in Operations /\ outcome \in Values
      BY RecordedValues DEF Operations
    <3> HIDE DEF chain
    <3> QED
      BY <1>2, <2>2, <3>1, <3>2, HasAdded
  <2> QED
    BY <2>1, <2>2
<1> HIDE DEF chain
<1>4. CASE outcome = "blocked" /\ Finalize(c, "flow", chain, "blocked")
  <2>1. Explained(chain) = "blocked"
    BY <1>2, <1>3, <1>4 DEF Explained, LetPass
  <2> QED
    BY <1>1, <1>3, <1>4, <2>1, FinalizeExplained DEF Verdicts
<1>5. CASE outcome # "blocked" /\ Proceed(c, "flow", chain)
  <2>1. LetPass(chain) /\ ~Has(chain, "inputs_gathered", NoValue)
    BY <1>2, <1>3, <1>5 DEF LetPass
  <2> QED
    BY <1>1, <1>3, <1>5, <2>1, ProceedExplained DEF EInv
<1> QED
  BY <1>1, <1>4, <1>5

LEMMA InputsExplained ==
  ASSUME EInv, NEW c \in Calls, InputsResolve(c) \/ InputsDispatch(c)
  PROVE  \A x \in Calls : CallExplained(x)'
<1> DEFINE chain == evidence[c] \o Step("inputs_gathered", NoValue)
           resolved == chain \o Step("deterministic_resolution", NoValue)
<1>1. /\ TypeOK /\ (\A x \in Calls : CallExplained(x) /\ CallSafe(x)) /\ UNCHANGED gate
      /\ phase[c] = "inputs"
  BY DEF EInv, IInv, InputsResolve, InputsDispatch, Finalize, Continue, Fail, Await
<1>2. LetPass(evidence[c]) /\ evidence[c] \in Seq(Records)
  BY <1>1 DEF CallExplained, TypeOK
<1>3. /\ chain \in Seq(Records)
      /\ \A op, value : Has(chain, op, value) <=>
           Has(evidence[c], op, value) \/ (op = "inputs_gathered" /\ value = NoValue)
  BY <1>2, HasAdded, RecordedValues DEF Operations
<1>4. \/ Finalize(c, "inputs", resolved, "completed")
      \/ Continue(c, "inputs", "pattern", chain) \/ Continue(c, "inputs", "evaluate", chain)
      \/ Fail(c, "inputs", chain)
  BY DEF InputsResolve, InputsDispatch, NoValue
<1> HIDE DEF chain
<1>5. LetPass(chain) /\ Has(chain, "inputs_gathered", NoValue)
  BY <1>2, <1>3 DEF LetPass
<1>6. /\ resolved \in Seq(Records)
      /\ \A op, value : Has(resolved, op, value) <=>
           Has(chain, op, value) \/ (op = "deterministic_resolution" /\ value = NoValue)
  BY <1>3, HasAdded, RecordedValues DEF Operations
<1> HIDE DEF resolved
<1>7. CASE Finalize(c, "inputs", resolved, "completed")
  <2>1. LetPass(resolved) /\ Has(resolved, "inputs_gathered", NoValue)
    BY <1>5, <1>6 DEF LetPass
  <2>2. Explained(resolved) = "completed"
    BY <2>1, Explanations
  <2> QED
    BY <1>1, <1>6, <1>7, <2>2, FinalizeExplained DEF Verdicts
<1>8. CASE Continue(c, "inputs", "pattern", chain) \/ Continue(c, "inputs", "evaluate", chain)
  BY <1>1, <1>5, <1>8, ContinueExplained
<1>9. CASE Fail(c, "inputs", chain)
  BY <1>1, <1>3, <1>5, <1>9, FailExplained
<1> QED
  BY <1>4, <1>7, <1>8, <1>9

LEMMA ResultExplained ==
  ASSUME EInv, NEW c \in Calls, PatternReturns(c) \/ EvaluateReplies(c) \/ ExecutionThrows(c)
  PROVE  \A x \in Calls : CallExplained(x)'
<1> DEFINE chain == evidence[c] \o Step("pattern_executed", asking[c])
<1>1. /\ TypeOK /\ (\A x \in Calls : CallExplained(x)) /\ UNCHANGED gate
      /\ phase[c] \in {"inputs", "pattern", "evaluate"}
  BY DEF EInv, IInv, PatternReturns, EvaluateReplies, ExecutionThrows, Finalize, Fail, Await
<1>2. LetPass(evidence[c]) /\ evidence[c] \in Seq(Records)
  BY <1>1 DEF CallExplained, TypeOK
<1>3. CASE ExecutionThrows(c)
  <2>1. PICK from \in {"inputs", "evaluate"} : Fail(c, from, evidence[c])
    BY <1>3 DEF ExecutionThrows
  <2> QED
    BY <1>1, <1>2, <2>1, FailExplained
<1>4. CASE EvaluateReplies(c)
  <2>1. Finalize(c, "evaluate", evidence[c], "completed") /\ phase[c] = "evaluate"
    BY <1>4 DEF EvaluateReplies, Finalize, Await
  <2>2. Explained(evidence[c]) = "completed"
    BY <1>1, <2>1, Explanations DEF CallExplained
  <2> QED
    BY <1>1, <1>2, <2>1, <2>2, FinalizeExplained DEF Verdicts
<1>5. CASE PatternReturns(c)
  <2>1. /\ asking[c] \in AutonomyStatuses /\ phase[c] = "pattern"
        /\ \/ asking[c] = "safe_block" /\ Finalize(c, "pattern", chain, "safe_block")
           \/ asking[c] # "safe_block" /\ Finalize(c, "pattern", chain, "completed")
           \/ asking[c] # "safe_block" /\ Fail(c, "pattern", chain)
    BY <1>5 DEF PatternReturns, Finalize, Fail, Await
  <2>2. Has(evidence[c], "inputs_gathered", NoValue)
    BY <1>1, <2>1 DEF CallExplained
  <2>3. /\ chain \in Seq(Records)
        /\ \A op, value : Has(chain, op, value) <=>
             Has(evidence[c], op, value) \/ (op = "pattern_executed" /\ value = asking[c])
    <3>1. "pattern_executed" \in Operations /\ asking[c] \in Values
      BY <2>1, RecordedValues DEF Operations
    <3> QED
      BY <1>2, <3>1, HasAdded
  <2> HIDE DEF chain
  <2>4. Has(chain, "inputs_gathered", NoValue)
    BY <2>2, <2>3
  <2>5. CASE asking[c] = "safe_block" /\ Finalize(c, "pattern", chain, "safe_block")
    <3>1. Explained(chain) = "safe_block"
      BY <1>2, <2>3, <2>5 DEF Explained, LetPass
    <3> QED
      BY <1>1, <2>3, <2>5, <3>1, FinalizeExplained DEF Verdicts
  <2>6. asking[c] # "safe_block" => LetPass(chain)
    BY <1>2, <2>3 DEF LetPass
  <2>7. CASE asking[c] # "safe_block" /\ Finalize(c, "pattern", chain, "completed")
    <3>1. Explained(chain) = "completed"
      BY <2>4, <2>6, <2>7, Explanations
    <3> QED
      BY <1>1, <2>3, <2>7, <3>1, FinalizeExplained DEF Verdicts
  <2>8. CASE asking[c] # "safe_block" /\ Fail(c, "pattern", chain)
    BY <1>1, <2>3, <2>6, <2>8, FailExplained
  <2> QED
    BY <2>1, <2>5, <2>7, <2>8
<1> QED
  BY <1>3, <1>4, <1>5

\* The steps that write no evidence and rule on nothing.
LEMMA OtherExplained ==
  ASSUME EInv, NEW c \in Calls,
         \/ Rejects(c) \/ LogAccepts(c) \/ LogRefuses(c)
         \/ \E reply \in Replies : ModelReplies(c, reply)
  PROVE  \A x \in Calls : CallExplained(x)'
<1> SUFFICES ASSUME NEW x \in Calls PROVE CallExplained(x)'
  OBVIOUS
<1>1. UNCHANGED <<gate, evidence, verdict>>
  BY DEF Rejects, LogAccepts, LogRefuses, ModelReplies
<1>2. phase'[x] = phase[x] \/ phase'[x] \in {"rejected", "done"}
  BY DEF EInv, IInv, TypeOK, Rejects, LogAccepts, LogRefuses, ModelReplies, Await
<1>3. CallExplained(x)
  BY DEF EInv
<1> QED
  BY <1>1, <1>2, <1>3 DEF CallExplained

LEMMA ExplainedInit == Init => \A c \in Calls : CallExplained(c)
<1> SUFFICES ASSUME Init, NEW c \in Calls  PROVE  CallExplained(c)
  OBVIOUS
<1>1. evidence[c] = <<>> /\ phase[c] = "idle" /\ verdict[c] = "none"
  BY DEF Init
<1>2. \A op, value : ~Has(evidence[c], op, value)
  BY <1>1 DEF Has
<1> QED
  BY <1>1, <1>2 DEF CallExplained, Unjudged

LEMMA ExplainedNext == EInv /\ [Next]_vars => EInv'
<1> SUFFICES ASSUME EInv, [Next]_vars PROVE EInv'
  OBVIOUS
<1>1. IInv'
  BY SafeNext DEF EInv
<1>2. CASE UNCHANGED vars
  BY <1>1, <1>2, OthersExplained DEF vars, EInv
<1>3. ASSUME NEW c \in Calls, Initiate(c) \/ Advance(c) PROVE \A x \in Calls : CallExplained(x)'
  BY <1>3, StartExplained, GateExplained, PolicyExplained, FlowExplained, InputsExplained,
     ResultExplained, OtherExplained DEF Advance
<1> QED
  BY <1>1, <1>2, <1>3 DEF Next, EInv

\* The evidence chain alone tells an auditor the verdict of every finalized call, whichever early
\* return, pattern result or exception it went through, and whatever other calls were in flight.
THEOREM EvidenceExplains == Spec => []EvidenceExplainsVerdict
<1>1. Init => EInv
  BY TypeInit, SafeInit, ExplainedInit DEF EInv, IInv
<1>2. EInv => EvidenceExplainsVerdict
  <2>1. \A c : ExplainedVerdict(c) = Explained(evidence[c])
    BY DEF ExplainedVerdict, Explained, Says, Has, NoValue
  <2> QED
    BY <2>1 DEF EInv, CallExplained, EvidenceExplainsVerdict
<1> QED
  BY <1>1, <1>2, ExplainedNext, PTL DEF Spec

-----------------------------------------------------------------------------
(* Every step of the pipeline is a step of DecisionGate, or leaves it as it is *)

\* What the gate sees of the pipeline.
stages == [x \in Calls |-> Stage(x)]
raised == [x \in Calls |-> Raised(x)]

\* A reply that has not come has raised nothing.
Unheard(c) ==
  /\ phase[c] \in {"idle", "gate"} => gate[c] = "none"
  /\ phase[c] \in {"idle", "gate", "policy"} => observed[c] = "none"
  /\ phase[c] \in {"idle", "gate", "policy", "flow"} => rules[c] = "none"

GInv == IInv /\ \A c \in Calls : Unheard(c)

-----------------------------------------------------------------------------
(* The mapping                                                             *)

\* The verdict that objections are judged by: none before the PDP has replied.
Shown(c) == IF observed[c] = "none" THEN "none" ELSE Effective(config[c].mode, observed[c])

LEMMA RaisedIs ==
  ASSUME NEW c
  PROVE  /\ Raised(c) \subseteq {"deny", "approval", "gate", "rules", "soft"}
         /\ "deny" \in Raised(c) <=> Shown(c) = "deny"
         /\ "approval" \in Raised(c) <=> Shown(c) = "approve_required"
         /\ "gate" \in Raised(c) <=> gate[c] = "fail"
         /\ "rules" \in Raised(c) <=> rules[c] = "blocked"
         /\ "soft" \in Raised(c) <=> Shown(c) # "none" /\ SoftAbort(config[c])
  BY DEF Raised, Shown

LEMMA RaisedIsNext ==
  ASSUME NEW c
  PROVE  /\ Raised(c)' \subseteq {"deny", "approval", "gate", "rules", "soft"}
         /\ "deny" \in Raised(c)' <=> Shown(c)' = "deny"
         /\ "approval" \in Raised(c)' <=> Shown(c)' = "approve_required"
         /\ "gate" \in Raised(c)' <=> gate'[c] = "fail"
         /\ "rules" \in Raised(c)' <=> rules'[c] = "blocked"
         /\ "soft" \in Raised(c)' <=> Shown(c)' # "none" /\ SoftAbort(config'[c])
  BY DEF Raised, Shown, SoftAbort, SkipsModel, Resolved

\* A step of one call changes what the gate sees of that call only.
LEMMA StagesMove ==
  ASSUME NEW c \in Calls, NEW s, Stage(c)' = s, \A x \in Calls \ {c} : Stage(x)' = Stage(x)
  PROVE  stages' = [stages EXCEPT ![c] = s] /\ stages[c] = Stage(c)
  BY DEF stages

LEMMA RaisedMoves ==
  ASSUME NEW c \in Calls, NEW s, Raised(c)' = s, \A x \in Calls \ {c} : Raised(x)' = Raised(x)
  PROVE  raised' = [raised EXCEPT ![c] = s] /\ raised[c] = Raised(c)
  BY DEF raised

-----------------------------------------------------------------------------
(* The steps of a call                                                     *)

\* What a step of call c leaves of the other calls is all that the gate sees of them.
Others(c) ==
  /\ config' = config
  /\ \A x \in Calls \ {c} : /\ phase'[x] = phase[x] /\ gate'[x] = gate[x]
                            /\ observed'[x] = observed[x] /\ rules'[x] = rules[x]

LEMMA OthersSeen ==
  ASSUME NEW c \in Calls, Others(c), NEW x \in Calls \ {c}
  PROVE  Stage(x)' = Stage(x) /\ Raised(x)' = Raised(x)
  <1>1. Stage(x)' = Stage(x)
    BY DEF Others, Stage
  <1>2. Raised(x)' = Raised(x)
    BY DEF Others, Raised
  <1>3. QED
    BY <1>1, <1>2

\* What the gate sees of a step of call c.
LEMMA Seen ==
  ASSUME NEW c \in Calls, Others(c)
  PROVE  /\ stages' = [stages EXCEPT ![c] = Stage(c)'] /\ stages[c] = Stage(c)
         /\ raised' = [raised EXCEPT ![c] = Raised(c)'] /\ raised[c] = Raised(c)
         /\ Stage(c)' = Stage(c) => stages' = stages
         /\ Raised(c)' = Raised(c) => raised' = raised
         /\ Raised(c)' \subseteq Gate!Objections
  <1>1. /\ stages' = [stages EXCEPT ![c] = Stage(c)'] /\ stages[c] = Stage(c)
        /\ raised' = [raised EXCEPT ![c] = Raised(c)'] /\ raised[c] = Raised(c)
    BY OthersSeen, StagesMove, RaisedMoves
  <1>2. Raised(c)' = Raised(c) => raised' = raised
    BY OthersSeen DEF raised
  <1>3. Stage(c)' = Stage(c) => stages' = stages
    BY OthersSeen DEF stages
  <1>4. Raised(c)' \subseteq Gate!Objections
    BY DEF Raised, Gate!Objections
  <1>5. QED
    BY <1>1, <1>2, <1>3, <1>4

LEMMA Stutters ==
  ASSUME NEW c \in Calls, Others(c), Stage(c)' = Stage(c), Raised(c)' = Raised(c),
         UNCHANGED <<verdict, log>>
  PROVE  UNCHANGED Gate!gateVars
  BY Seen DEF Gate!gateVars, stages, raised

LEMMA Hears ==
  ASSUME NEW c \in Calls, Others(c), Stage(c) = "open", Stage(c)' = "open",
         Raised(c) \subseteq Raised(c)', UNCHANGED <<verdict, log>>
  PROVE  Gate!Hear(c)
  <1> DEFINE new == Raised(c)'
  <1>1. raised' = [raised EXCEPT ![c] = @ \cup new] /\ new \in SUBSET Gate!Objections
    BY Seen
  <1>2. stages[c] = "open" /\ stages' = [stages EXCEPT ![c] = "open"]
    BY Seen
  <1> HIDE DEF new
  <1>3. QED
    BY <1>1, <1>2 DEF Gate!Hear, Gate!Move, stages, raised

LEMMA Clears ==
  ASSUME NEW c \in Calls, Others(c), Stage(c) = "open", Stage(c)' = "cleared",
         Raised(c) = {}, Raised(c)' = {}, UNCHANGED <<verdict, log>>
  PROVE  Gate!Clear(c)
  <1>1. raised' = raised /\ raised[c] = {}
    BY Seen
  <1>2. stages[c] = "open" /\ stages' = [stages EXCEPT ![c] = "cleared"]
    BY Seen
  <1>3. QED
    BY <1>1, <1>2 DEF Gate!Clear, Gate!Move, stages, raised

LEMMA Refuses ==
  ASSUME NEW c \in Calls, Others(c), Stage(c) = "open", Stage(c)' = "ruled",
         Raised(c) \subseteq Raised(c)', Raised(c)' # {},
         verdict' = [verdict EXCEPT ![c] = Gate!Refusal(Raised(c)')], log' = log
  PROVE  Gate!Refuse(c)
  <1> DEFINE new == Raised(c)'
  <1>1. /\ raised' = [raised EXCEPT ![c] = @ \cup new] /\ new \in SUBSET Gate!Objections
        /\ raised[c] \cup new = new /\ new # {}
    BY Seen
  <1>2. stages[c] = "open" /\ stages' = [stages EXCEPT ![c] = "ruled"]
    BY Seen
  <1>3. verdict' = [verdict EXCEPT ![c] = Gate!Refusal(raised[c] \cup new)]
    BY <1>1
  <1> HIDE DEF new
  <1>4. QED
    BY <1>1, <1>2, <1>3 DEF Gate!Refuse, Gate!Move, stages, raised

LEMMA Concludes ==
  ASSUME NEW c \in Calls, Others(c), Stage(c) = "cleared", Stage(c)' = "ruled",
         Raised(c)' = Raised(c), NEW ruling \in {"completed", "safe_block", "failed"},
         verdict' = [verdict EXCEPT ![c] = ruling], log' = log
  PROVE  Gate!Conclude(c)
  <1>1. stages[c] = "cleared" /\ stages' = [stages EXCEPT ![c] = "ruled"] /\ raised' = raised
    BY Seen
  <1>2. QED
    BY <1>1 DEF Gate!Conclude, Gate!Conclusions, Gate!Move, stages, raised

LEMMA RejectsThem ==
  ASSUME NEW c \in Calls, Others(c), Stage(c) \in {"open", "ruled"}, Stage(c)' = "rejected",
         Raised(c)' = Raised(c), UNCHANGED <<verdict, log>>
  PROVE  Gate!Reject(c)
  <1>1. /\ stages[c] \in {"open", "ruled"} /\ stages' = [stages EXCEPT ![c] = "rejected"]
        /\ raised' = raised
    BY Seen
  <1>2. QED
    BY <1>1 DEF Gate!Reject, Gate!Move, stages, raised

LEMMA RecordsIt ==
  ASSUME NEW c \in Calls, Others(c), Stage(c) = "ruled", Stage(c)' = "recorded",
         Raised(c)' = Raised(c), verdict' = verdict,
         log' = Append(log, [call |-> c, status |-> verdictToStatus(verdict[c])])
  PROVE  Gate!Record(c)
  <1>1. stages[c] = "ruled" /\ stages' = [stages EXCEPT ![c] = "recorded"] /\ raised' = raised
    BY Seen
  <1>2. verdictToStatus(verdict[c]) = Gate!LedgerStatus(verdict[c])
    BY DEF verdictToStatus, Gate!LedgerStatus
  <1>3. QED
    BY <1>1, <1>2 DEF Gate!Record, Gate!Move, stages, raised

-----------------------------------------------------------------------------
(* The steps of the pipeline                                               *)

LEMMA UnheardInit == Init => \A c \in Calls : Unheard(c)
  BY DEF Init, Unheard

\* A step that leaves the replies of a call alone, or hears one of them, leaves the later ones unheard.
LEMMA UnheardKept ==
  ASSUME NEW c \in Calls, Others(c), \A x \in Calls : Unheard(x), Unheard(c)'
  PROVE  \A x \in Calls : Unheard(x)'
  <1>1. ASSUME NEW x \in Calls \ {c} PROVE Unheard(x)'
    BY <1>1 DEF Others, Unheard
  <1>2. QED
    BY <1>1

\* The step the gate takes for a step of call c, which leaves no later reply heard.
Ruled(c) ==
  /\ \A x \in Calls : Unheard(x)'
  /\ \/ UNCHANGED Gate!gateVars
     \/ Gate!Hear(c) \/ Gate!Clear(c) \/ Gate!Refuse(c) \/ Gate!Conclude(c)
     \/ Gate!Record(c) \/ Gate!Reject(c)

\* The quality gate's reply is heard.
LEMMA GateIsHeard ==
  ASSUME GInv, NEW c \in Calls, NEW status \in GateStatuses, GateReplies(c, status)
  PROVE  Ruled(c)
  <1>1. /\ phase[c] = "gate" /\ phase'[c] = "policy" /\ verdict' = verdict
        /\ \A x \in Calls \ {c} : phase'[x] = phase[x]
    BY ContinueFrame DEF GInv, IInv, GateReplies
  <1>2. /\ gate'[c] = status /\ \A x \in Calls \ {c} : gate'[x] = gate[x]
        /\ UNCHANGED <<config, observed, rules, log>>
    BY DEF GInv, IInv, TypeOK, GateReplies
  <1>3. Others(c)
    BY <1>1, <1>2 DEF Others
  <1>4. Unheard(c)'
    BY <1>1, <1>2 DEF GInv, Unheard
  <1>5. Stage(c) = "open" /\ Stage(c)' = "open"
    BY <1>1 DEF Stage
  <1>6. Raised(c) = {}
    <2>1. gate[c] = "none" /\ observed[c] = "none" /\ rules[c] = "none"
      BY <1>1 DEF GInv, Unheard
    <2>2. QED
      BY <2>1, RaisedIs DEF Shown
  <1>7. Gate!Hear(c)
    BY <1>1, <1>2, <1>3, <1>5, <1>6, Hears
  <1>8. QED
    BY <1>3, <1>4, <1>7, UnheardKept DEF GInv, Ruled

\* The verdict that the raised objections call for.
LEMMA Refusals ==
  ASSUME NEW R
  PROVE  /\ "deny" \in R => Gate!Refusal(R) = "blocked"
         /\ "deny" \notin R /\ "approval" \in R => Gate!Refusal(R) = "approval_required"
         /\ "deny" \notin R /\ "approval" \notin R /\ ("gate" \in R \/ "rules" \in R)
              => Gate!Refusal(R) = "blocked"
         /\ R \cap {"deny", "approval", "gate", "rules"} = {} => Gate!Refusal(R) = "safe_block"
  BY DEF Gate!Refusal

\* Finalizing an open call refuses it, with the verdict its objections call for.
LEMMA FinalizeRefuses ==
  ASSUME TypeOK, NEW c \in Calls, NEW from \in {"policy", "flow"}, NEW chain, NEW ruling,
         Finalize(c, from, chain, ruling), Others(c), log' = log,
         Raised(c) \subseteq Raised(c)', Raised(c)' # {}, Gate!Refusal(Raised(c)') = ruling
  PROVE  Gate!Refuse(c)
  <1>1. phase[c] = from /\ phase'[c] = "log" /\ verdict' = [verdict EXCEPT ![c] = ruling]
    BY DEF TypeOK, Finalize, Await
  <1>2. Stage(c) = "open" /\ Stage(c)' = "ruled"
    BY <1>1 DEF Stage
  <1>3. QED
    BY <1>1, <1>2, Refuses

\* An open call that proceeds is refused for a soft abort, or cleared because nothing was raised.
LEMMA ProceedIsRuled ==
  ASSUME TypeOK, NEW c \in Calls, NEW from \in {"policy", "flow"}, NEW chain, Proceed(c, from, chain),
         Others(c), log' = log, Raised(c) \subseteq Raised(c)',
         Raised(c)' \cap {"deny", "approval", "gate", "rules"} = {}, Shown(c)' # "none"
  PROVE  Gate!Refuse(c) \/ Gate!Clear(c)
  <1>1. config' = config
    BY DEF Others
  <1>2. CASE SoftAbort(config[c]) /\ Finalize(c, from, chain, "safe_block")
    <2>1. "soft" \in Raised(c)'
      BY <1>1, <1>2, RaisedIsNext
    <2>2. QED
      BY <1>2, <2>1, Refusals, FinalizeRefuses
  <1>3. CASE ~SoftAbort(config[c]) /\ Continue(c, from, "inputs", chain)
    <2>1. "soft" \notin Raised(c)'
      BY <1>1, <1>3, RaisedIsNext
    <2>2. Raised(c)' = {} /\ Raised(c) = {}
      BY <2>1, RaisedIsNext
    <2>3. phase[c] = from /\ phase'[c] = "inputs" /\ verdict' = verdict
      BY <1>3, ContinueFrame
    <2>4. Stage(c) = "open" /\ Stage(c)' = "cleared"
      BY <2>3 DEF Stage
    <2>5. QED
      BY <2>2, <2>3, <2>4, Clears
  <1>4. QED
    BY <1>2, <1>3 DEF Proceed

\* The PDP's reply refuses the call, clears it, or is heard.
LEMMA PolicyIsRuled ==
  ASSUME GInv, NEW c \in Calls, NEW raw \in PolicyVerdicts, PolicyReplies(c, raw)
  PROVE  Ruled(c)
  <1> DEFINE shown == Effective(config[c].mode, raw)
             chain == Judged(c, shown)
  <1>1. TypeOK /\ UNCHANGED <<config, gate, rules, log>>
    BY DEF GInv, IInv, PolicyReplies
  <1>2. observed'[c] = raw /\ \A x \in Calls \ {c} : observed'[x] = observed[x]
    BY <1>1 DEF TypeOK, PolicyReplies
  <1>3. \/ shown = "deny" /\ Finalize(c, "policy", chain, "blocked")
        \/ shown = "approve_required" /\ Finalize(c, "policy", chain, "approval_required")
        \/ shown = "allow" /\ gate[c] = "fail" /\ Finalize(c, "policy", chain, "blocked")
        \/ shown = "allow" /\ gate[c] # "fail" /\ Continue(c, "policy", "flow", chain)
        \/ shown = "allow" /\ gate[c] # "fail" /\ Proceed(c, "policy", chain)
    BY DEF PolicyReplies
  <1> HIDE DEF chain
  <1>4. /\ phase[c] = "policy" /\ phase'[c] \in {"log", "flow", "inputs"}
        /\ \A x \in Calls \ {c} : phase'[x] = phase[x]
    BY <1>1, <1>3, ContinueFrame, FinalizeFrame, ProceedFrame
  <1>5. Others(c)
    BY <1>1, <1>2, <1>4 DEF Others
  <1>6. gate[c] \in GateStatuses /\ observed[c] = "none" /\ rules[c] = "none"
    BY <1>4 DEF GInv, IInv, CallSafe, Unheard
  <1>7. Unheard(c)'
    BY <1>1, <1>4, <1>6 DEF Unheard
  <1>8. Shown(c) = "none" /\ Shown(c)' = shown
    BY <1>1, <1>2, <1>6 DEF Shown, PolicyVerdicts
  <1>9. shown \in {"deny", "approve_required", "allow"}
    BY EffectiveType DEF PolicyVerdicts
  <1> HIDE DEF shown
  <1>10. Raised(c) \subseteq Raised(c)'
    BY <1>1, <1>6, <1>8, RaisedIs, RaisedIsNext
  <1>11. CASE shown = "deny" /\ Finalize(c, "policy", chain, "blocked")
    <2>1. "deny" \in Raised(c)'
      BY <1>8, <1>11, RaisedIsNext
    <2>2. Gate!Refuse(c)
      BY <1>1, <1>5, <1>10, <1>11, <2>1, Refusals, FinalizeRefuses
    <2>3. QED
      BY <1>5, <1>7, <2>2, UnheardKept DEF GInv, Ruled
  <1>12. CASE shown = "approve_required" /\ Finalize(c, "policy", chain, "approval_required")
    <2>1. "approval" \in Raised(c)' /\ "deny" \notin Raised(c)'
      BY <1>8, <1>12, RaisedIsNext
    <2>2. Gate!Refuse(c)
      BY <1>1, <1>5, <1>10, <1>12, <2>1, Refusals, FinalizeRefuses
    <2>3. QED
      BY <1>5, <1>7, <2>2, UnheardKept DEF GInv, Ruled
  <1>13. CASE shown = "allow" /\ gate[c] = "fail" /\ Finalize(c, "policy", chain, "blocked")
    <2>1. "gate" \in Raised(c)' /\ "deny" \notin Raised(c)' /\ "approval" \notin Raised(c)'
      BY <1>1, <1>8, <1>13, RaisedIsNext
    <2>2. Gate!Refuse(c)
      BY <1>1, <1>5, <1>10, <1>13, <2>1, Refusals, FinalizeRefuses
    <2>3. QED
      BY <1>5, <1>7, <2>2, UnheardKept DEF GInv, Ruled
  <1>14. CASE shown = "allow" /\ gate[c] # "fail" /\ Continue(c, "policy", "flow", chain)
    <2>1. phase'[c] = "flow" /\ verdict' = verdict
      BY <1>1, <1>14, ContinueFrame
    <2>2. Stage(c) = "open" /\ Stage(c)' = "open"
      BY <1>4, <2>1 DEF Stage
    <2>3. Gate!Hear(c)
      BY <1>1, <1>5, <1>10, <2>1, <2>2, Hears
    <2>4. QED
      BY <1>5, <1>7, <2>3, UnheardKept DEF GInv, Ruled
  <1>15. CASE shown = "allow" /\ gate[c] # "fail" /\ Proceed(c, "policy", chain)
    <2>1. Raised(c)' \cap {"deny", "approval", "gate", "rules"} = {}
      BY <1>1, <1>6, <1>8, <1>15, RaisedIsNext
    <2>2. Gate!Refuse(c) \/ Gate!Clear(c)
      BY <1>1, <1>5, <1>8, <1>10, <1>15, <2>1, ProceedIsRuled
    <2>3. QED
      BY <1>5, <1>7, <2>2, UnheardKept DEF GInv, Ruled
  <1>16. QED
    BY <1>3, <1>11, <1>12, <1>13, <1>14, <1>15

\* The enforcement flow's reply refuses the call or clears it.
LEMMA FlowIsRuled ==
  ASSUME GInv, NEW c \in Calls, NEW outcome \in FlowOutcomes, FlowReplies(c, outcome)
  PROVE  Ruled(c)
  <1> DEFINE chain == evidence[c] \o (IF outcome = "skipped" THEN <<>>
                                     ELSE Step("clause_enforcement_evaluated", outcome))
  <1>1. TypeOK /\ UNCHANGED <<config, gate, observed, log>>
    BY DEF GInv, IInv, FlowReplies
  <1>2. rules'[c] = outcome /\ \A x \in Calls \ {c} : rules'[x] = rules[x]
    BY <1>1 DEF TypeOK, FlowReplies
  <1>3. \/ outcome = "blocked" /\ Finalize(c, "flow", chain, "blocked")
        \/ outcome # "blocked" /\ Proceed(c, "flow", chain)
    BY DEF FlowReplies
  <1> HIDE DEF chain
  <1>4. /\ phase[c] = "flow" /\ phase'[c] \in {"log", "inputs"}
        /\ \A x \in Calls \ {c} : phase'[x] = phase[x]
    BY <1>1, <1>3, FinalizeFrame, ProceedFrame
  <1>5. Others(c)
    BY <1>1, <1>2, <1>4 DEF Others
  <1>6. gate[c] \in {"pass", "warn"} /\ Shown(c) = "allow" /\ rules[c] = "none"
    BY <1>4 DEF GInv, IInv, CallSafe, Unheard, Shown, PolicyVerdicts
  <1>7. Unheard(c)'
    BY <1>4 DEF Unheard
  <1>8. Shown(c)' = "allow"
    BY <1>1, <1>6 DEF Shown
  <1>9. Raised(c) \subseteq Raised(c)'
    BY <1>1, <1>6, <1>8, RaisedIs, RaisedIsNext
  <1>10. "deny" \notin Raised(c)' /\ "approval" \notin Raised(c)' /\ "gate" \notin Raised(c)'
    BY <1>1, <1>6, <1>8, RaisedIsNext
  <1>11. CASE outcome = "blocked" /\ Finalize(c, "flow", chain, "blocked")
    <2>1. "rules" \in Raised(c)'
      BY <1>2, <1>11, RaisedIsNext
    <2>2. Gate!Refuse(c)
      BY <1>1, <1>5, <1>9, <1>10, <1>11, <2>1, Refusals, FinalizeRefuses
    <2>3. QED
      BY <1>5, <1>7, <2>2, UnheardKept DEF GInv, Ruled
  <1>12. CASE outcome # "blocked" /\ Proceed(c, "flow", chain)
    <2>1. "rules" \notin Raised(c)'
      BY <1>2, <1>12, RaisedIsNext
    <2>2. Gate!Refuse(c) \/ Gate!Clear(c)
      BY <1>1, <1>5, <1>8, <1>9, <1>10, <1>12, <2>1, ProceedIsRuled
    <2>3. QED
      BY <1>5, <1>7, <2>2, UnheardKept DEF GInv, Ruled
  <1>13. QED
    BY <1>3, <1>11, <1>12

\* A step that hears no reply and moves no call but c raises nothing.
LEMMA NothingRaised ==
  ASSUME NEW c \in Calls, UNCHANGED <<config, gate, observed, rules>>,
         \A x \in Calls \ {c} : phase'[x] = phase[x]
  PROVE  Others(c) /\ Raised(c)' = Raised(c)
  <1>1. Others(c)
    BY DEF Others
  <1>2. Raised(c)' = Raised(c)
    BY DEF Raised
  <1>3. QED
    BY <1>1, <1>2

\* The decision is run: the call is concluded, or goes on cleared.
LEMMA ExecutionIsRuled ==
  ASSUME GInv, NEW c \in Calls,
         \/ InputsResolve(c) \/ InputsDispatch(c) \/ PatternReturns(c)
         \/ EvaluateReplies(c) \/ ExecutionThrows(c)
  PROVE  Ruled(c)
  <1>1. TypeOK /\ UNCHANGED <<config, gate, observed, rules, log>>
    BY DEF GInv, IInv, InputsResolve, InputsDispatch, PatternReturns, EvaluateReplies, ExecutionThrows
  <1>0. PICK from \in {"inputs", "pattern", "evaluate"} : \E chain :
          \/ \E to \in {"pattern", "evaluate"} : Continue(c, from, to, chain)
          \/ \E ruling \in {"completed", "safe_block", "failed"} : Finalize(c, from, chain, ruling)
    BY DEF InputsResolve, InputsDispatch, PatternReturns, EvaluateReplies, ExecutionThrows, Fail
  <1>2. PICK chain :
          \/ \E to \in {"pattern", "evaluate"} : Continue(c, from, to, chain)
          \/ \E ruling \in {"completed", "safe_block", "failed"} : Finalize(c, from, chain, ruling)
    BY <1>0
  <1>3. CASE \E to \in {"pattern", "evaluate"} : Continue(c, from, to, chain)
    <2>1. /\ phase[c] = from /\ phase'[c] \in {"pattern", "evaluate"} /\ verdict' = verdict
          /\ \A x \in Calls \ {c} : phase'[x] = phase[x]
      BY <1>1, <1>3, ContinueFrame
    <2>2. Others(c) /\ Raised(c)' = Raised(c)
      BY <1>1, <2>1, NothingRaised
    <2>3. Stage(c)' = Stage(c)
      BY <2>1 DEF Stage
    <2>4. UNCHANGED Gate!gateVars
      BY <1>1, <2>1, <2>2, <2>3, Stutters
    <2>5. Unheard(c)'
      BY <2>1 DEF Unheard
    <2>6. QED
      BY <2>2, <2>4, <2>5, UnheardKept DEF GInv, Ruled
  <1>4. CASE \E ruling \in {"completed", "safe_block", "failed"} : Finalize(c, from, chain, ruling)
    <2>1. PICK ruling \in {"completed", "safe_block", "failed"} : Finalize(c, from, chain, ruling)
      BY <1>4
    <2>2. /\ phase[c] = from /\ phase'[c] = "log" /\ verdict' = [verdict EXCEPT ![c] = ruling]
          /\ \A x \in Calls \ {c} : phase'[x] = phase[x]
      BY <1>1, <2>1, FinalizeFrame DEF Finalize
    <2>3. Others(c) /\ Raised(c)' = Raised(c)
      BY <1>1, <2>2, NothingRaised
    <2>4. Stage(c) = "cleared" /\ Stage(c)' = "ruled"
      BY <2>2 DEF Stage
    <2>5. Gate!Conclude(c)
      BY <1>1, <2>2, <2>3, <2>4, Concludes
    <2>6. Unheard(c)'
      BY <2>2 DEF Unheard
    <2>7. QED
      BY <2>3, <2>5, <2>6, UnheardKept DEF GInv, Ruled
  <1>5. QED
    BY <1>2, <1>3, <1>4

\* The steps that neither judge a call nor run its decision.
LEMMA OtherIsRuled ==
  ASSUME GInv, NEW c \in Calls,
         \/ Initiate(c) \/ Rejects(c) \/ LogAccepts(c) \/ LogRefuses(c)
         \/ \E reply \in Replies : ModelReplies(c, reply)
  PROVE  Ruled(c)
  <1>1. TypeOK /\ UNCHANGED <<config, gate, observed, rules, verdict>>
    BY DEF GInv, IInv, Initiate, Continue, Rejects, LogAccepts, LogRefuses, ModelReplies
  <1>2. \A x \in Calls \ {c} : phase'[x] = phase[x]
    BY <1>1 DEF TypeOK, Initiate, Continue, Rejects, LogAccepts, LogRefuses, ModelReplies, Await
  <1>3. Others(c) /\ Raised(c)' = Raised(c)
    BY <1>1, <1>2, NothingRaised
  <1>4. Unheard(c)' /\ (\/ UNCHANGED Gate!gateVars \/ Gate!Record(c) \/ Gate!Reject(c))
    <2>1. CASE Initiate(c)
      <3>1. phase[c] = "idle" /\ phase'[c] = "gate" /\ log' = log
        BY <1>1, <2>1 DEF TypeOK, Initiate, Continue, Await
      <3>2. Stage(c)' = Stage(c)
        BY <3>1 DEF Stage
      <3>3. Unheard(c)'
        BY <1>1, <3>1 DEF GInv, Unheard
      <3>4. QED
        BY <1>1, <1>3, <3>1, <3>2, <3>3, Stutters
    <2>2. CASE \E reply \in Replies : ModelReplies(c, reply)
      <3>1. phase' = phase /\ log' = log
        BY <2>2 DEF ModelReplies
      <3>2. Stage(c)' = Stage(c)
        BY <3>1 DEF Stage
      <3>3. Unheard(c)'
        BY <1>1, <3>1 DEF GInv, Unheard
      <3>4. QED
        BY <1>1, <1>3, <3>1, <3>2, <3>3, Stutters
    <2>3. CASE Rejects(c) \/ LogRefuses(c)
      <3>1. /\ phase[c] \in {"gate", "policy", "flow", "log"} /\ phase'[c] = "rejected"
            /\ log' = log
        BY <1>1, <2>3 DEF TypeOK, Rejects, LogRefuses, Await
      <3>2. Stage(c) \in {"open", "ruled"} /\ Stage(c)' = "rejected"
        BY <3>1 DEF Stage
      <3>3. Unheard(c)'
        BY <3>1 DEF Unheard
      <3>4. QED
        BY <1>1, <1>3, <3>1, <3>2, <3>3, RejectsThem
    <2>4. CASE LogAccepts(c)
      <3>1. /\ phase[c] = "log" /\ phase'[c] = "done"
            /\ log' = Append(log, [call |-> c, status |-> verdictToStatus(verdict[c])])
        BY <1>1, <2>4 DEF TypeOK, LogAccepts, Await
      <3>2. Stage(c) = "ruled" /\ Stage(c)' = "recorded"
        BY <3>1 DEF Stage
      <3>3. Unheard(c)'
        BY <3>1 DEF Unheard
      <3>4. QED
        BY <1>1, <1>3, <3>1, <3>2, <3>3, RecordsIt
    <2>5. QED
      BY <2>1, <2>2, <2>3, <2>4
  <1>5. QED
    BY <1>3, <1>4, UnheardKept DEF GInv, Ruled

\* Every step of the pipeline is a step of the gate or a stutter.
LEMMA NextIsRuled == GInv /\ [Next]_vars => GInv' /\ [Gate!Next]_(Gate!gateVars)
  <1> SUFFICES ASSUME GInv, [Next]_vars PROVE GInv' /\ [Gate!Next]_(Gate!gateVars)
    OBVIOUS
  <1>1. IInv'
    BY SafeNext DEF GInv
  <1>2. CASE UNCHANGED vars
    <2>1. \A c \in Calls : Unheard(c)'
      BY <1>2 DEF GInv, Unheard, vars
    <2>2. UNCHANGED Gate!gateVars
      <3>1. \A c \in Calls : Stage(c)' = Stage(c) /\ Raised(c)' = Raised(c)
        BY <1>2 DEF vars, Stage, Raised
      <3>2. QED
        BY <1>2, <3>1 DEF vars, Gate!gateVars
    <2>3. QED
      BY <1>1, <2>1, <2>2 DEF GInv
  <1>3. ASSUME NEW c \in Calls, Initiate(c) \/ Advance(c) PROVE Ruled(c)
    BY <1>3, GateIsHeard, PolicyIsRuled, FlowIsRuled, ExecutionIsRuled, OtherIsRuled DEF Advance
  <1>4. CASE Next
    BY <1>1, <1>3, <1>4 DEF Next, Ruled, GInv, Gate!Next
  <1>5. QED
    BY <1>2, <1>4

\* The pipeline starts as the gate does.
LEMMA InitIsGates == Init => GInv /\ Gate!Init
  <1> SUFFICES ASSUME Init PROVE GInv /\ Gate!Init
    OBVIOUS
  <1>1. GInv
    BY TypeInit, SafeInit, UnheardInit DEF IInv, GInv
  <1>2. ASSUME NEW c \in Calls PROVE Stage(c) = "open" /\ Raised(c) = {}
    <2>1. phase[c] = "idle" /\ gate[c] = "none" /\ observed[c] = "none" /\ rules[c] = "none"
      BY DEF Init
    <2>2. Raised(c) = {}
      BY <2>1, RaisedIs DEF Shown
    <2>3. QED
      BY <2>1, <2>2 DEF Stage
  <1>3. Gate!Init
    BY <1>2 DEF Init, Gate!Init
  <1>4. QED
    BY <1>1, <1>3

\* Each call is ruled on once, as the objections raised in it require, only a call without any is
\* cleared, and what is recorded is what was ruled: in any number of concurrent calls.
THEOREM PipelineImplementsGate == Spec => ImplementsGate
  <1>1. QED
    BY InitIsGates, NextIsRuled, PTL DEF Spec, ImplementsGate, Gate!Spec
=============================================================================
