----------------------------- MODULE PolicyRules -----------------------------
(***************************************************************************)
(* What a policy rule says of an action, and what a set of rules says      *)
(* (src/src/policy).  A glob pattern is the set of actions it matches, and *)
(* an optional number is a set that holds it or is empty, so that a check  *)
(* against a number that is not given is a quantifier over nothing.        *)
(***************************************************************************)
EXTENDS Naturals

VerdictResults == {"allow", "deny", "approve_required"}
EnforcementPoints == {"pre_decision", "action_dispatch", "post_execution"}

\* actionTypePattern, the role scope, the limits, the window and the verdict of a PolicyRule.
RuleOf(Actions, Roles, Numbers) ==
  [ actions   : SUBSET Actions,
    point     : EnforcementPoints,
    roles     : SUBSET Roles,              \* requiredRoles
    all       : BOOLEAN,                   \* roleMatchMode is 'all'
    maxAmount : SUBSET Numbers, minQuality : SUBSET Numbers, minConfidence : SUBSET Numbers,
    window    : SUBSET (Numbers \X Numbers), \* timeWindowStart and timeWindowEnd
    approval  : BOOLEAN,                   \* requireApproval
    default   : VerdictResults ]           \* defaultVerdict ?? 'allow'

\* requiredRoles says whom the rule is about.
Scoped(rule, ctx) ==
  \/ rule.roles = {}
  \/ ctx.roles # {} /\ IF rule.all THEN rule.roles \subseteq ctx.roles
                                   ELSE rule.roles \cap ctx.roles # {}

Applies(rule, ctx) == ctx.action \in rule.actions /\ ctx.point = rule.point /\ Scoped(rule, ctx)

\* A number that the context does not give breaches no limit.
Breaches(rule, ctx) ==
  \/ \E max \in rule.maxAmount, n \in ctx.impact : n > max
  \/ \E min \in rule.minQuality, n \in ctx.quality : n < min
  \/ \E min \in rule.minConfidence, n \in ctx.confidence : n < min

Outside(rule, ctx) == \E w \in rule.window : ctx.time < w[1] \/ ctx.time > w[2]

\* evaluateRule, for a rule that applies.
VerdictOf(rule, ctx) ==
  CASE Breaches(rule, ctx) -> IF rule.approval THEN "approve_required" ELSE "deny"
    [] ~Breaches(rule, ctx) /\ Outside(rule, ctx) -> "deny"
    [] ~Breaches(rule, ctx) /\ ~Outside(rule, ctx) /\ rule.approval -> "approve_required"
    [] OTHER -> rule.default

\* Deny wins, then approve_required; no result at all is an allow.
arbitrate(results) ==
  IF "deny" \in results THEN "deny"
  ELSE IF "approve_required" \in results THEN "approve_required" ELSE "allow"

\* PolicyDecisionPoint.evaluate, with or without the deny-unknown wrapper around it.
evaluate(rules, denyUnknown, ctx) ==
  LET matched == {rule \in rules : Applies(rule, ctx)} IN
  IF denyUnknown /\ matched = {} THEN "deny"
  ELSE arbitrate({VerdictOf(rule, ctx) : rule \in matched})
=============================================================================
