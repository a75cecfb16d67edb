-------------------------- MODULE MCDecisionRunner --------------------------
(***************************************************************************)
(* Two calls in flight.  The first goes through one of eleven deployments, *)
(* one for each way through execute: routing loaded or not, each kind of   *)
(* route class and extractor, each pattern with and without its roles,     *)
(* with and without a gateway and an enforcement flow, enforce and         *)
(* observe.  The second is a plain call interleaved with it: calls share   *)
(* the log and nothing else.                                               *)
(***************************************************************************)
EXTENDS DecisionRunner

CONSTANTS c1, c2

MCCalls == {c1, c2}

Plain == [loaded |-> FALSE, class |-> "unrouted", extractor |-> "none",
          binding |-> NoBinding, gateway |-> FALSE, flow |-> FALSE, mode |-> "enforce"]

Bind(pattern, roles, lazy) == [pattern |-> pattern, roles |-> roles, lazy |-> lazy]

Single == Bind("single_model", {"primary"}, FALSE)
Reviewed == Bind("primary_reviewer", {"primary", "reviewer"}, FALSE)
Tribunal == Bind("tribunal", {"assessor1", "assessor2", "arbiter"}, TRUE)
Hybrid == Bind("a5_hybrid", {"primary", "challenger", "judge"}, FALSE)
ShortHybrid == Bind("a5_hybrid", {"primary"}, FALSE)

Modelled(class, extractor, binding) ==
  [Plain EXCEPT !.loaded = TRUE, !.class = class, !.extractor = extractor,
                !.binding = binding, !.gateway = TRUE]

Deployments ==
  { Plain,
    [Plain EXCEPT !.loaded = TRUE, !.mode = "observe"],
    [Plain EXCEPT !.gateway = TRUE, !.binding = Single, !.flow = TRUE],
    [Plain EXCEPT !.loaded = TRUE, !.class = "deterministic_only", !.extractor = "decides"],
    [Plain EXCEPT !.loaded = TRUE, !.class = "deterministic_only", !.extractor = "doubts",
                  !.flow = TRUE],
    [Plain EXCEPT !.loaded = TRUE, !.class = "frontier_or_human_required", !.mode = "observe",
                  !.flow = TRUE],
    Modelled("deterministic_first_a5_on_uncertain", "abstains", Hybrid),
    Modelled("a5_plus_frontier_shadow", "none", Reviewed),
    Modelled("not_ready_data_or_policy_gap", "none", Tribunal),
    Modelled("a5_default_with_deterministic_validator", "none", ShortHybrid),
    Modelled("deterministic_guardrail_then_a5", "none", Bind("tribunal", {"assessor1"}, FALSE)) }

MCConfigurations == {[c \in MCCalls |-> IF c = c1 THEN d ELSE Plain] : d \in Deployments}
=============================================================================
