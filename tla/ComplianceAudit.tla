-------------------------- MODULE ComplianceAudit ---------------------------
(***************************************************************************)
(* The compliance audit (src/src/skills/audit): what a report says of a    *)
(* set of logged decisions, the policy rules, the trust suite and the      *)
(* evidence chains.  Nothing here changes state.  A confidence is counted  *)
(* in tenths; a gap names the decisions it is about.                       *)
(***************************************************************************)
EXTENDS Naturals, FiniteSets, FiniteSetsExt

CONSTANTS
  Tools,        \* tool names of decisions
  Sensitive,    \* those whose name says so: db.*, payment.*, *.delete, ...
  Surfaces,     \* ids of surfaces
  TrustPolicy,  \* risk tier of each surface with a trust policy
  Bound,        \* surfaces with a binding
  Correlations, \* correlation ids
  Ids           \* ids of decisions

Statuses == {"generated", "blocked", "failed", "pending"}
Decisions ==
  [id : Ids, surface : Surfaces, toolName : Tools, status : Statuses, confidence : 0..10,
   correlationId : Correlations]

\* The audit makes a regular expression of a rule's glob and escapes nothing: the tools it finds the
\* rule for are not those the rule is applied to (globMatches), nor more nor less; and of some globs
\* no regular expression can be made.
Rules ==
  {r \in [matched : SUBSET Tools, applied : SUBSET Tools, parses : BOOLEAN, classA : BOOLEAN,
          requireApproval : BOOLEAN, enabled : BOOLEAN] : r.parses \/ r.matched = {}}

Severities == {"critical", "warning", "info"}
Gap(severity, category, subject, ds) ==
  [severity |-> severity, category |-> category, subject |-> subject, decisions |-> ds]

ToolsOf(ds) == {d.toolName : d \in ds}
SurfacesOf(ds) == {d.surface : d \in ds}
OfTool(ds, tool) == {d \in ds : d.toolName = tool}
OfSurface(ds, surface) == {d \in ds : d.surface = surface}
Enabled(rules) == {r \in rules : r.enabled}
Covered(rules, tool) == \E r \in rules : tool \in r.matched

classifyToolSeverity(tool, surfaces) ==
  IF \/ tool \in Sensitive
     \/ \E s \in surfaces \cap DOMAIN TrustPolicy : TrustPolicy[s] = "critical"
  THEN "critical" ELSE "warning"

\* Mutant: disabled rules count as coverage.
detectMissingPolicyGaps_disabled(ds, rules) ==
  {Gap(classifyToolSeverity(tool, SurfacesOf(OfTool(ds, tool))), "missing_policy", tool, OfTool(ds, tool)) :
     tool \in {t \in ToolsOf(ds) : ~Covered(rules, t)}}

detectMissingPolicyGaps(ds, rules) ==
  {Gap(classifyToolSeverity(tool, SurfacesOf(OfTool(ds, tool))), "missing_policy", tool, OfTool(ds, tool)) :
     tool \in {t \in ToolsOf(ds) : ~Covered(Enabled(rules), t)}}

\* A surface without a trust policy is reported for that, and not for its binding as well.
detectMissingTrustTierGaps(ds) ==
  LET untrusted == SurfacesOf(ds) \ DOMAIN TrustPolicy
      unbound == (SurfacesOf(ds) \ Bound) \ untrusted IN
  {Gap("critical", "missing_trust_tier", s, OfSurface(ds, s)) : s \in untrusted}
    \cup {Gap("warning", "missing_trust_tier", s, OfSurface(ds, s)) : s \in unbound}

LOW_CONFIDENCE_THRESHOLD == 7

\* Per surface; critical when the mean is below 0.4.
lowConfidenceSeverity(low) ==
  IF MapThenSumSet(LAMBDA d : d.confidence, low) < 4 * Cardinality(low) THEN "critical" ELSE "warning"

detectLowConfidenceGaps(ds) ==
  LET low == {d \in ds : d.status = "generated" /\ d.confidence < LOW_CONFIDENCE_THRESHOLD} IN
  {Gap(lowConfidenceSeverity(OfSurface(low, s)), "low_confidence", s, OfSurface(low, s)) : s \in SurfacesOf(low)}

\* Tools without any rule, not even a disabled one.
detectUnauditedToolGaps(ds, rules) ==
  {Gap("info", "unaudited_tool", tool, OfTool(ds, tool)) :
     tool \in {t \in ToolsOf(ds) : ~Covered(rules, t)}}

\* What an enabled rule of class A puts to approval and was decided at once.
detectBypassedGovernanceGaps(ds, rules) ==
  LET By(rule) == {d \in ds : d.toolName \in rule.matched /\ d.status = "generated"} IN
  {Gap("critical", "bypassed_governance", rule, By(rule)) :
     rule \in {r \in Enabled(rules) : r.classA /\ r.requireApproval /\ By(r) # {}}}

\* Of the chains of the decisions' correlations, existing says which there are and valid which
\* verify.  A chain that is not there was not tampered with.
detectEvidenceIntegrityGaps(ds, existing, valid) ==
  {Gap("critical", "evidence_integrity", c, {d \in ds : d.correlationId = c}) :
     c \in ({d.correlationId : d \in ds} \cap existing) \ valid}

\* Math.round of a share in per cent.
Percent(part, whole) == (200 * part + whole) \div (2 * whole)

calculatePolicyCoverage(ds, rules) ==
  IF ds = {} THEN 100
  ELSE Percent(Cardinality({d \in ds : Covered(Enabled(rules), d.toolName)}), Cardinality(ds))

\* Mutant: a chain that is not there is intact, and yet not checked.
calculateEvidenceIntegrity_absent(ds, existing, valid) ==
  LET all == {d.correlationId : d \in ds} IN
  IF all \cap existing = {} THEN 100
  ELSE Percent(Cardinality(all \ (existing \ valid)), Cardinality(all \cap existing))

calculateEvidenceIntegrity(ds, existing, valid) ==
  LET checked == {d.correlationId : d \in ds} \cap existing IN
  IF checked = {} THEN 100 ELSE Percent(Cardinality(checked \cap valid), Cardinality(checked))

detectGaps(ds, rules, existing, valid, integrity) ==
  detectMissingPolicyGaps(ds, rules) \cup detectMissingTrustTierGaps(ds)
    \cup detectLowConfidenceGaps(ds) \cup detectUnauditedToolGaps(ds, rules)
    \cup detectBypassedGovernanceGaps(ds, rules)
    \cup IF integrity THEN detectEvidenceIntegrityGaps(ds, existing, valid) ELSE {}

\* new RegExp throws on a rule that has none.  Rules are tried until one matches, those of class A
\* all: with a tool that no rule matches, or a rule of class A, it comes to that whatever the order
\* of the rules, and otherwise it may.
Malformed(rules) == {r \in rules : ~r.parses}
MustThrow(ds, rules) ==
  \/ \E r \in Malformed(Enabled(rules)) : r.classA /\ r.requireApproval
  \/ Malformed(rules) # {} /\ \E tool \in ToolsOf(ds) : ~Covered(rules, tool)
MayThrow(ds, rules) == MustThrow(ds, rules) \/ (Malformed(rules) # {} /\ ds # {})

\* One for each category that has a gap, or that there is none.
generateRecommendations(gaps) ==
  IF gaps = {} THEN {"no_gaps"} ELSE {g.category : g \in gaps}

\* runAudit is about the decisions of the surfaces it is asked of, or about all if it names none.
Requested(log, request) ==
  IF request.surfaces = {} THEN log ELSE {d \in log : d.surface \in request.surfaces}

summarized(ds, rules, gaps, existing, valid, integrity) ==
  [ totalDecisions    |-> Cardinality(ds),
    policyCoverage    |-> calculatePolicyCoverage(ds, rules),
    evidenceIntegrity |-> IF integrity THEN calculateEvidenceIntegrity(ds, existing, valid) ELSE 100,
    gapCount          |-> [s \in Severities |-> Cardinality({g \in gaps : g.severity = s})],
    recommendations   |-> generateRecommendations(gaps) ]

\* checkEvidenceIntegrity, of named correlations: here a chain that is not there is broken.
checkEvidenceIntegrity(asked, existing, valid) ==
  [intact |-> asked \cap existing \cap valid, broken |-> asked \ (existing \cap valid)]
=============================================================================
