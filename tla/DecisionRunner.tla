--------------------------- MODULE DecisionRunner ---------------------------
(***************************************************************************)
(* DecisionRunner.execute (src/src/decisions/decision-runner.ts): quality  *)
(* gate, policy, routing, compiled rules, execution and the decision log,  *)
(* for any number of calls in flight.  The runner is asynchronous: between *)
(* two awaits a call runs alone, and each await is an interleaving point,  *)
(* so an action is what happens from the settling of one promise to the    *)
(* next await.  The replies of the collaborators (quality gate, PDP,       *)
(* enforcement flow, decision template, model gateway, log) are            *)
(* nondeterministic, rejections included.                                  *)
(***************************************************************************)
EXTENDS TrustPatterns, Sequences, Naturals

CONSTANTS
  Calls,          \* the calls of execute()
  Configurations  \* which runner, surface and context each call may be made with

RouteClasses == {"deterministic_only", "deterministic_first_a5_on_uncertain",
                 "deterministic_guardrail_then_a5", "a5_default_with_deterministic_validator",
                 "a5_plus_frontier_shadow", "frontier_or_human_required",
                 "not_ready_data_or_policy_gap"}

DeploymentType ==
  [ loaded    : BOOLEAN,                        \* a route config is loaded
    class     : RouteClasses \cup {"unrouted"}, \* the surface's class in it
    extractor : {"none", "throws", "decides", "doubts", "abstains"},
    binding   : Bindings \cup {NoBinding},
    gateway   : BOOLEAN,                        \* a model gateway is injected
    flow      : BOOLEAN,                        \* an enforcement flow is injected
    mode      : {"enforce", "observe"} ]

ASSUME ConfigurationsAssumption == Configurations \subseteq [Calls -> DeploymentType]

VARIABLES
  config,   \* the deployment of each call, fixed
  phase,    \* the await a call is at
  gate,     \* QualityGateStatus, "none" before it is known
  observed, \* raw policy verdict (observedVerdict), "none" before it is known
  rules,    \* EnforcementFlowOutcome, "none" before it is known
  asking,   \* the pattern step a call awaits, or the pattern's autonomyStatus
  evidence, \* the records of the call's EvidenceRecorder, [op, value] each
  verdict,  \* DecisionVerdict, "none" before finalize
  log       \* DecisionLogRepository: [call, status] records in order of append

vars == <<config, phase, gate, observed, rules, asking, evidence, verdict, log>>

Phases == {"idle", "gate", "policy", "flow", "inputs", "pattern", "evaluate", "log",
           "done", "rejected"}
GateStatuses == {"pass", "warn", "fail"}
PolicyVerdicts == {"allow", "deny", "approve_required"}
FlowOutcomes == {"passed", "blocked", "skipped"}
Verdicts == {"completed", "blocked", "approval_required", "safe_block", "failed"}

Operations == {"decision_initiated", "quality_gate_checked", "policy_evaluated",
               "route_resolved", "clause_enforcement_evaluated", "inputs_gathered",
               "deterministic_resolution", "pattern_executed", "execution_failed",
               "decision_finalized"}
Values == {""} \cup GateStatuses \cup PolicyVerdicts \cup FlowOutcomes \cup Verdicts
          \cup AutonomyStatuses \cup RouteClasses
Records == [op : Operations, value : Values]
Step(op, value) == <<[op |-> op, value |-> value]>>

-----------------------------------------------------------------------------
(* Routing and abort conditions                                            *)

SafeBlockClasses == {"not_ready_data_or_policy_gap", "frontier_or_human_required"}
DeterministicClasses == {"deterministic_only", "deterministic_first_a5_on_uncertain"}

\* RuntimeRouteResolver.resolve gives no resolution for a surface that is not in the config.
Resolved(d) == d.loaded /\ d.class # "unrouted"

\* skipModelCall of the resolution: also true, with no candidate decision, for safe-block classes.
SkipsModel(d) ==
  Resolved(d) /\ \/ d.class \in SafeBlockClasses
                 \/ d.class \in DeterministicClasses /\ d.extractor = "decides"

\* The resolution carries a candidate whose decision is not null.
HasCandidate(d) ==
  Resolved(d) /\ d.class \in DeterministicClasses /\ d.extractor \in {"decides", "doubts"}

\* The soft conditions NO_ROUTE and MODEL_UNAVAILABLE of checkAbortConditions.
SoftAbort(d) == \/ d.loaded /\ ~Resolved(d)
                \/ Resolved(d) /\ ~SkipsModel(d) /\ ~d.gateway

\* The verdict the pipeline acts on: observe mode shadows every non-allow verdict.
Effective(mode, raw) == IF mode = "observe" THEN "allow" ELSE raw

-----------------------------------------------------------------------------
(* Pieces of the actions                                                   *)

Await(c, from, to) == phase[c] = from /\ phase' = [phase EXCEPT ![c] = to]

\* finalize up to its await of decisionLog.append.
Finalize(c, from, chain, ruling) ==
  /\ Await(c, from, "log")
  /\ evidence' = [evidence EXCEPT ![c] = chain \o Step("decision_finalized", ruling)]
  /\ verdict' = [verdict EXCEPT ![c] = ruling]

\* On to the next await of the try block, whose evidence so far is chain.
Continue(c, from, to, chain) ==
  /\ Await(c, from, to)
  /\ evidence' = [evidence EXCEPT ![c] = chain]
  /\ UNCHANGED verdict

\* Mutants of Fail and Proceed: the catch block records nothing, the soft aborts are not checked.
Fail_unrecorded(c, from, chain) == Finalize(c, from, chain, "failed")
Proceed_unchecked(c, from, chain) == Continue(c, from, "inputs", chain)

\* The catch block.
Fail(c, from, chain) == Finalize(c, from, chain \o Step("execution_failed", ""), "failed")

\* After policy, gate and compiled rules let the call pass: soft aborts, then gatherInputs.
Proceed(c, from, chain) ==
  \/ SoftAbort(config[c]) /\ Finalize(c, from, chain, "safe_block")
  \/ ~SoftAbort(config[c]) /\ Continue(c, from, "inputs", chain)

-----------------------------------------------------------------------------
(* Actions                                                                 *)

Initiate(c) ==
  /\ Continue(c, "idle", "gate", Step("decision_initiated", ""))
  /\ UNCHANGED <<config, gate, observed, rules, asking, log>>

GateReplies(c, status) ==
  /\ Continue(c, "gate", "policy", evidence[c] \o Step("quality_gate_checked", status))
  /\ gate' = [gate EXCEPT ![c] = status]
  /\ UNCHANGED <<config, observed, rules, asking, log>>

\* The evidence of the policy and routing stages.
Judged(c, shown) ==
  evidence[c] \o Step("policy_evaluated", shown)
    \o (IF Resolved(config[c]) THEN Step("route_resolved", config[c].class) ELSE <<>>)

PolicyReplies(c, raw) ==
  LET shown == Effective(config[c].mode, raw)
      chain == Judged(c, shown) IN
  /\ \/ shown = "deny" /\ Finalize(c, "policy", chain, "blocked")
     \/ shown = "approve_required" /\ Finalize(c, "policy", chain, "approval_required")
     \/ shown = "allow" /\ gate[c] = "fail" /\ Finalize(c, "policy", chain, "blocked")
     \/ /\ shown = "allow" /\ gate[c] # "fail" /\ config[c].flow
        /\ Continue(c, "policy", "flow", chain)
     \/ /\ shown = "allow" /\ gate[c] # "fail" /\ ~config[c].flow
        /\ Proceed(c, "policy", chain)
  /\ observed' = [observed EXCEPT ![c] = raw]
  /\ UNCHANGED <<config, gate, rules, asking, log>>

\* Mutant of FlowReplies: a blocked outcome is only recorded.
FlowReplies_advisory(c, outcome) ==
  /\ Proceed(c, "flow", evidence[c] \o Step("clause_enforcement_evaluated", outcome))
  /\ rules' = [rules EXCEPT ![c] = outcome]
  /\ UNCHANGED <<config, gate, observed, asking, log>>

\* EnforcementFlow.execute records its evaluation, except when no rule set is active.
FlowReplies(c, outcome) ==
  LET chain == evidence[c] \o (IF outcome = "skipped" THEN <<>>
                               ELSE Step("clause_enforcement_evaluated", outcome)) IN
  /\ \/ outcome = "blocked" /\ Finalize(c, "flow", chain, "blocked")
     \/ outcome # "blocked" /\ Proceed(c, "flow", chain)
  /\ rules' = [rules EXCEPT ![c] = outcome]
  /\ UNCHANGED <<config, gate, observed, asking, log>>

\* The quality gate, the PDP or the flow rejects: execute rejects, and nothing is logged.
Rejects(c) ==
  /\ \E from \in {"gate", "policy", "flow"} : Await(c, from, "rejected")
  /\ UNCHANGED <<config, gate, observed, rules, asking, evidence, verdict, log>>

Deterministic(d) == SkipsModel(d) /\ HasCandidate(d)

\* gatherInputs settles and the candidate decision is used, if it parses.
InputsResolve(c) ==
  LET chain == evidence[c] \o Step("inputs_gathered", "") IN
  /\ Deterministic(config[c])
  /\ \/ Finalize(c, "inputs", chain \o Step("deterministic_resolution", ""), "completed")
     \/ Fail(c, "inputs", chain)
  /\ UNCHANGED <<config, gate, observed, rules, asking, log>>

\* gatherInputs settles and the decision goes to the trust surface or to its own evaluate().
InputsDispatch(c) ==
  LET chain == evidence[c] \o Step("inputs_gathered", "") IN
  /\ ~Deterministic(config[c])
  /\ \/ /\ config[c].gateway
        /\ Continue(c, "inputs", "pattern", chain)
        /\ asking' = [asking EXCEPT ![c] = FirstStep(config[c].binding)]
     \/ /\ ~config[c].gateway
        /\ Continue(c, "inputs", "evaluate", chain)
        /\ UNCHANGED asking
     \/ config[c].gateway /\ Fail(c, "inputs", chain) /\ UNCHANGED asking  \* buildPrompt throws
  /\ UNCHANGED <<config, gate, observed, rules, log>>

ModelReplies(c, reply) ==
  /\ phase[c] = "pattern" /\ asking[c] \in PatternSteps
  /\ reply \in RepliesAt(asking[c])
  /\ asking' = [asking EXCEPT ![c] = AfterReply(config[c].binding, asking[c], reply)]
  /\ UNCHANGED <<config, phase, gate, observed, rules, evidence, verdict, log>>

\* The pattern's result: only safe_block stops, any other output is parsed.
PatternReturns(c) ==
  LET chain == evidence[c] \o Step("pattern_executed", asking[c]) IN
  /\ asking[c] \in AutonomyStatuses
  /\ \/ asking[c] = "safe_block" /\ Finalize(c, "pattern", chain, "safe_block")
     \/ asking[c] # "safe_block" /\ Finalize(c, "pattern", chain, "completed")
     \/ asking[c] # "safe_block" /\ Fail(c, "pattern", chain)
  /\ UNCHANGED <<config, gate, observed, rules, asking, log>>

EvaluateReplies(c) ==
  /\ Finalize(c, "evaluate", evidence[c], "completed")
  /\ UNCHANGED <<config, gate, observed, rules, asking, log>>

\* gatherInputs or evaluate rejects.
ExecutionThrows(c) ==
  /\ \E from \in {"inputs", "evaluate"} : Fail(c, from, evidence[c])
  /\ UNCHANGED <<config, gate, observed, rules, asking, log>>

\* Mutant of verdictToStatus: the verdict is logged as it is.
verdictToStatus_raw(ruling) == ruling

verdictToStatus(ruling) ==
  CASE ruling = "completed"         -> "generated"
    [] ruling = "approval_required" -> "pending"
    [] ruling = "failed"            -> "failed"
    [] OTHER                        -> "blocked"

LogAccepts(c) ==
  /\ Await(c, "log", "done")
  /\ log' = Append(log, [call |-> c, status |-> verdictToStatus(verdict[c])])
  /\ UNCHANGED <<config, gate, observed, rules, asking, evidence, verdict>>

\* The append rejects.  finalize is returned, not awaited, so the catch does not see it.
LogRefuses(c) ==
  /\ Await(c, "log", "rejected")
  /\ UNCHANGED <<config, gate, observed, rules, asking, evidence, verdict, log>>

Init ==
  /\ config \in Configurations
  /\ phase = [c \in Calls |-> "idle"]
  /\ gate = [c \in Calls |-> "none"]
  /\ observed = [c \in Calls |-> "none"]
  /\ rules = [c \in Calls |-> "none"]
  /\ asking = [c \in Calls |-> "none"]
  /\ evidence = [c \in Calls |-> <<>>]
  /\ verdict = [c \in Calls |-> "none"]
  /\ log = <<>>

\* One await of the call settles.
Advance(c) ==
  \/ \E status \in GateStatuses : GateReplies(c, status)
  \/ \E raw \in PolicyVerdicts : PolicyReplies(c, raw)
  \/ \E outcome \in FlowOutcomes : FlowReplies(c, outcome)
  \/ Rejects(c)
  \/ InputsResolve(c)
  \/ InputsDispatch(c)
  \/ \E reply \in Replies : ModelReplies(c, reply)
  \/ PatternReturns(c)
  \/ EvaluateReplies(c)
  \/ ExecutionThrows(c)
  \/ LogAccepts(c)
  \/ LogRefuses(c)

Next == \E c \in Calls : Initiate(c) \/ Advance(c)

\* Every promise a call awaits settles: the repositories are local, and the promises of the
\* decision template and of the host's gateway are assumed to settle (ModelGateway says when
\* those of this repository's gateway do).
Fairness == \A c \in Calls : WF_vars(Advance(c))

Spec == Init /\ [][Next]_vars
FairSpec == Spec /\ Fairness

-----------------------------------------------------------------------------
(* Properties                                                              *)

TypeOK ==
  /\ config \in Configurations
  /\ phase \in [Calls -> Phases]
  /\ gate \in [Calls -> GateStatuses \cup {"none"}]
  /\ observed \in [Calls -> PolicyVerdicts \cup {"none"}]
  /\ rules \in [Calls -> FlowOutcomes \cup {"none"}]
  /\ asking \in [Calls -> PatternSteps \cup AutonomyStatuses \cup {"none"}]
  /\ evidence \in [Calls -> Seq(Records)]
  /\ verdict \in [Calls -> Verdicts \cup {"none"}]
  /\ log \in Seq([call : Calls, status : {"generated", "pending", "failed", "blocked"}])

\* Nothing the pipeline consulted speaks against running the decision.
Cleared(c) ==
  /\ gate[c] \in {"pass", "warn"}
  /\ observed[c] \in PolicyVerdicts /\ Effective(config[c].mode, observed[c]) = "allow"
  /\ config[c].flow => rules[c] \in {"passed", "skipped"}
  /\ ~SoftAbort(config[c])

\* A decision template is given its inputs, or a model is called, only for a call that every
\* stage let pass, and only such a call ends completed or failed (the early returns of execute).
ExecutionCleared ==
  \A c \in Calls :
    phase[c] \in {"inputs", "pattern", "evaluate"} \/ verdict[c] \in {"completed", "failed"}
      => Cleared(c)

Says(c, op, value) == \E i \in DOMAIN evidence[c] : evidence[c][i] = [op |-> op, value |-> value]

\* The verdict an auditor derives from the evidence records alone.
ExplainedVerdict(c) ==
  CASE Says(c, "policy_evaluated", "deny")                     -> "blocked"
    [] Says(c, "policy_evaluated", "approve_required")         -> "approval_required"
    [] \/ Says(c, "clause_enforcement_evaluated", "blocked")
       \/ /\ Says(c, "policy_evaluated", "allow")
          /\ Says(c, "quality_gate_checked", "fail")           -> "blocked"
    [] Says(c, "execution_failed", "")                         -> "failed"
    [] /\ Says(c, "inputs_gathered", "") /\ ~Says(c, "execution_failed", "")
       /\ ~Says(c, "pattern_executed", "safe_block")           -> "completed"
    [] OTHER                                                   -> "safe_block"

\* The evidence chain of a finalized call accounts for its verdict, whichever of the early
\* returns, pattern results or exceptions the call went through.
EvidenceExplainsVerdict ==
  \A c \in Calls : verdict[c] # "none" => verdict[c] = ExplainedVerdict(c)

\* Every call that starts is answered or rejected.
CallsSettle == \A c \in Calls : phase[c] # "idle" ~> phase[c] \in {"done", "rejected"}

\* The pipeline implements DecisionGate.
Stage(c) ==
  CASE phase[c] \in {"idle", "gate", "policy", "flow"}  -> "open"
    [] phase[c] \in {"inputs", "pattern", "evaluate"}   -> "cleared"
    [] phase[c] = "log"                                 -> "ruled"
    [] phase[c] = "done"                                -> "recorded"
    [] OTHER                                            -> "rejected"

Raised(c) ==
  LET shown == IF observed[c] = "none" THEN "none" ELSE Effective(config[c].mode, observed[c])
      raises == [ deny     |-> shown = "deny",
                  approval |-> shown = "approve_required",
                  gate     |-> gate[c] = "fail",
                  rules    |-> rules[c] = "blocked",
                  soft     |-> shown # "none" /\ SoftAbort(config[c]) ]
  IN {o \in DOMAIN raises : raises[o]}

Gate == INSTANCE DecisionGate WITH
          stage      <- [c \in Calls |-> Stage(c)],
          objections <- [c \in Calls |-> Raised(c)],
          ruling     <- verdict,
          ledger     <- log

\* Each call is ruled on once, as its objections require, and recorded as ruled.
ImplementsGate == Gate!Spec

\* What the resolution itself says of a surface of a safe-block class (runtime-route-resolver.ts:77),
\* and docs/TRUST-ROUTING-GUIDE.md:148-149: it is safe-blocked, or a human decides, with no model
\* call.  Its candidate has no decision, so that the runner takes neither that nor the block.
SafeBlockRouteNeverCompletes ==
  \A c \in Calls :
    Resolved(config[c]) /\ config[c].class \in SafeBlockClasses => verdict[c] # "completed"
=============================================================================
