--------------------------- MODULE CompiledRules ---------------------------
(***************************************************************************)
(* Compiled rules: what policy-rule-compiler.service.ts makes of a clause  *)
(* and its controls, and what compiled-rule-evaluator.ts makes of a rule   *)
(* and a decision context.                                                 *)
(*                                                                         *)
(* A context maps each field path to a value, absent fields to Missing.    *)
(* Text is a set of strings the code tells apart, dates are instants, and  *)
(* what a clause's text says is the phrase its regular expression finds.   *)
(***************************************************************************)
EXTENDS Integers, Sequences, SequencesExt

CONSTANTS
  Expressions, \* the rule expressions considered, with the parts of every composite
  Contexts     \* decision contexts: [fields |-> ..., lists |-> ...]

Composite(e) == e.type \in {"composite_and", "composite_or"}

ASSUME ClosedAssumption == \A e \in Expressions : Composite(e) => Range(e.rules) \subseteq Expressions

\* The values of a context, of one shape so that any two compare.
Value(kind, num, text, items) == [kind |-> kind, num |-> num, text |-> text, items |-> items]
Missing     == Value("missing", 0, "", {})
Number(n)   == Value("number", n, "", {})
Text(s)     == Value("string", 0, s, {})
Boolean(b)  == Value("boolean", IF b THEN 1 ELSE 0, "", {})

-----------------------------------------------------------------------------
(* Evaluation: one operator per expression type of evaluateWithDiagnostic. *)

Compare(operator, a, b) ==
  \/ operator = "gt"  /\ a > b
  \/ operator = "gte" /\ a >= b
  \/ operator = "lt"  /\ a < b
  \/ operator = "lte" /\ a <= b
  \/ operator = "eq"  /\ a = b
  \/ operator = "neq" /\ a # b

Threshold(e, ctx) == ctx[e.field].kind = "number" /\ Compare(e.operator, ctx[e.field].num, e.value)

InRange(e, ctx) ==
  LET v == ctx[e.field] IN
  /\ v.kind = "number"
  /\ IF e.inclusive THEN v.num \in e.min..e.max ELSE v.num > e.min /\ v.num < e.max

\* enum_match and jurisdiction_match are the same test.
OneOf(e, ctx) == ctx[e.field].kind = "string" /\ ctx[e.field].text \in e.allowed

\* string_match and regex_match: the texts the pattern, case rule or flags accept.
\* A pattern that is no regular expression throws (see Throws).
Matches(e, ctx) == ctx[e.field].kind = "string" /\ ctx[e.field].text \in e.accepted

BooleanRequired(e, ctx) == ctx[e.field] = Boolean(e.required)

FieldPresence(e, ctx) ==
  IF e.allRequired THEN \A f \in e.fields : ctx[f] # Missing
                   ELSE \E f \in e.fields : ctx[f] # Missing

\* Without sanctions data the match passes.
SanctionsMatch(e, ctx, lists) ==
  /\ ctx[e.field].kind = "string"
  /\ \A l \in e.lists \cap DOMAIN lists : ctx[e.field].text \notin lists[l]

DateRange(e, ctx) ==
  LET v == ctx[e.field] IN
  /\ v.kind = "string" /\ v.text = "date"
  /\ e.after # 0 => v.num > e.after
  /\ e.before # 0 => v.num < e.before

\* amount_limit and count_limit; a limit with a currency needs the one the context has for its field.
Limit(e, ctx) ==
  /\ ctx[e.field].kind = "number"
  /\ e.currency # "" => ctx[e.field \o "_currency"] = Text(e.currency)
  /\ ctx[e.field].num <= e.max

RoleRequired(e, ctx) ==
  LET v == ctx[e.field] IN
  /\ v.kind = "array"
  /\ IF e.anyOf THEN e.roles \cap v.items # {} ELSE e.roles \subseteq v.items

\* A list that is not in the context's list data has no members.
ListMembership(e, ctx, lists) ==
  LET v == ctx[e.field] IN
  /\ v.kind = "string"
  /\ e.mustBePresent <=> e.list \in DOMAIN lists /\ v.text \in lists[e.list]

Leaf(e, ctx, lists) ==
  CASE e.type = "threshold"                                -> Threshold(e, ctx)
    [] e.type = "range"                                    -> InRange(e, ctx)
    [] e.type \in {"enum_match", "jurisdiction_match"}     -> OneOf(e, ctx)
    [] e.type \in {"string_match", "regex_match"}          -> Matches(e, ctx)
    [] e.type = "boolean_required"                         -> BooleanRequired(e, ctx)
    [] e.type = "field_presence"                           -> FieldPresence(e, ctx)
    [] e.type = "sanctions_match"                          -> SanctionsMatch(e, ctx, lists)
    [] e.type = "date_range"                               -> DateRange(e, ctx)
    [] e.type \in {"amount_limit", "count_limit"}          -> Limit(e, ctx)
    [] e.type = "role_required"                            -> RoleRequired(e, ctx)
    [] e.type = "list_membership"                          -> ListMembership(e, ctx, lists)

\* new RegExp throws on a bad pattern, once the field is known to hold a string.
Throws(e, ctx) == e.type = "regex_match" /\ ctx[e.field].kind = "string" /\ ~e.valid

\* CompiledRuleEvaluator.evaluate: every part of a composite is evaluated, and an exception in
\* any of them makes the whole rule an error, which does not pass.
Result[e \in Expressions, d \in Contexts] ==
  IF Composite(e)
  THEN LET results == {Result[part, d] : part \in Range(e.rules)} IN
       IF "error" \in results THEN "error"
       ELSE IF e.type = "composite_and" THEN IF "fail" \in results THEN "fail" ELSE "pass"
       ELSE IF "pass" \in results THEN "pass" ELSE "fail"
  ELSE IF Throws(e, d.fields) THEN "error"
  ELSE IF Leaf(e, d.fields, d.lists) THEN "pass" ELSE "fail"

\* buildEnforcementResult: the rules of a set that did not pass.
BlockedBy(rules, d) == {rule \in Range(rules) : Result[rule.expression, d] # "pass"}

-----------------------------------------------------------------------------
(* Compilation                                                             *)

\* What is derived from a clause that matches no pattern.
NoExpression == [type |-> "none"]

Param(p, key, default) == IF key \in DOMAIN p THEN p[key] ELSE default

threshold(field, operator, value) ==
  [type |-> "threshold", field |-> field, operator |-> operator, value |-> value]
roleRequired(field, roles) ==
  [type |-> "role_required", field |-> field, roles |-> roles, anyOf |-> FALSE]
fieldPresence(fields) == [type |-> "field_presence", fields |-> fields, allRequired |-> TRUE]

\* mapControlToExpression: a control is [type, params], its params a record of the given keys.
\* The forbidden labels themselves are not part of the expression, only the list's name is.
mapControlToExpression(control) ==
  LET p == control.params IN
  CASE control.type = "amount_threshold" /\ "maxAmount" \in DOMAIN p ->
         [type |-> "amount_limit", field |-> Param(p, "field", "amount"), max |-> p.maxAmount,
          currency |-> Param(p, "currency", "")]
    [] /\ control.type = "amount_threshold" /\ "maxAmount" \notin DOMAIN p
       /\ {"operator", "value"} \subseteq DOMAIN p ->
         threshold(Param(p, "field", "amount"), p.operator, p.value)
    [] control.type = "sanctions_hold" ->
         [type |-> "sanctions_match", field |-> Param(p, "field", "entity_name"),
          lists |-> Param(p, "sanctionsLists", {"OFAC", "EU", "UN"})]
    [] control.type = "dual_authorization_required" ->
         roleRequired(Param(p, "field", "approvers"), Param(p, "requiredRoles", {"approver"}))
    [] control.type = "evidence_field_required" /\ Param(p, "fields", {}) # {} ->
         fieldPresence(p.fields)
    [] control.type = "decision_label_forbidden" /\ Param(p, "forbiddenValues", {}) # {} ->
         [type |-> "list_membership", field |-> Param(p, "field", "decision_label"),
          list |-> "_forbidden_decision_labels", mustBePresent |-> FALSE]
    [] OTHER -> NoExpression

\* mapClauseTypeToExpression: what the text says is the record [says, ...] of the first regular
\* expression that matches it.  The jurisdictions of a prohibition become the allowed ones.
mapClauseTypeToExpression(clause) ==
  LET text == clause.text IN
  CASE clause.clauseType = "threshold" /\ text.says = "above" -> threshold("amount", "lte", text.value)
    [] clause.clauseType = "threshold" /\ text.says = "below" -> threshold("amount", "lt", text.value)
    [] clause.clauseType = "evidence_requirement" /\ text.says = "requires" -> fieldPresence(text.fields)
    [] clause.clauseType = "prohibition" /\ text.says = "prohibited in" ->
         [type |-> "jurisdiction_match", field |-> "jurisdiction", allowed |-> text.jurisdictions]
    [] clause.clauseType = "approval_requirement" /\ text.says = "approval by" ->
         roleRequired("approvers", text.roles)
    [] OTHER -> NoExpression

\* analyzeClauseForPattern: the first control that maps to an expression, else the clause's text.
analyzeClauseForPattern(clause) ==
  LET mapped == SelectSeq([i \in DOMAIN clause.controls |-> mapControlToExpression(clause.controls[i])],
                          LAMBDA e : e # NoExpression)
  IN IF mapped # <<>> THEN Head(mapped) ELSE mapClauseTypeToExpression(clause)

\* compile, once the status has been checked: a structured expression is used as it is.
expressionOf(clause) ==
  IF clause.structured # NoExpression THEN clause.structured ELSE analyzeClauseForPattern(clause)
=============================================================================
