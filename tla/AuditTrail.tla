----------------------------- MODULE AuditTrail -----------------------------
(***************************************************************************)
(* The audit trail of one tenant: evidence chains, versions of clauses and *)
(* the decision log grow, the rules change, and a replay or an audit reads *)
(* them all; an audit awaits between the log, the rules and the chains, so *)
(* that all of them can change under it.  append hands the stored record   *)
(* to its caller and getChain the live chain, and the stored lists can be  *)
(* changed behind the service's back: what a record holds, hashed or not,  *)
(* a record lost, doubled or out of place, with no hash made anew.  The    *)
(* chains and the log are in memory, so a restart loses both.              *)
(***************************************************************************)
EXTENDS HashChains, ComplianceAudit, SequencesExt

CONSTANTS
  Clauses,      \* ids of clauses
  Evidence,     \* what the sink is given: evaluations and executions
  RuleSets,     \* sets of rules the tenant may have
  MaxRecords,   \* bound of a chain
  MaxWork,      \* bound of the steps that change anything
  Requests      \* audits that are asked for

NotAudited == [kind |-> "none"]
Failed == [kind |-> "error"]

ASSUME AuditAssumption ==
  /\ DOMAIN Normalized = Texts
  /\ Sensitive \subseteq Tools /\ DOMAIN TrustPolicy \subseteq Surfaces /\ Bound \subseteq Surfaces
  /\ Evidence \subseteq [id : Ids, surface : Surfaces, toolName : Tools, correlationId : Correlations,
                         verdict : {"allow", "deny", "approve_required", "none"}, confidence : 0..10]
  /\ RuleSets \subseteq SUBSET Rules /\ RuleSets # {}
  /\ \A set \in RuleSets : IsFiniteSet(set)
  /\ Requests \subseteq [surfaces : SUBSET Surfaces, integrity : BOOLEAN]
  /\ MaxRecords \in Nat /\ MaxWork \in Nat

VARIABLES
  chains,   \* the evidence chain of each correlation, Empty when there is none
  versions, \* the version chain of each clause, Empty when there is none
  log,      \* the decision log
  rules,    \* the tenant's policy rules
  report,   \* the audit under way, or what the last step reported
  appended, \* records appended to each chain since the service started, as append made them
  written,  \* versions appended to each clause's chain since then
  work      \* steps so far

trail == <<chains, versions, log, rules, appended, written, work>>
vars == <<trail, report>>

Init ==
  /\ chains = [c \in Correlations |-> Empty]
  /\ versions = [c \in Clauses |-> Empty]
  /\ log = {}
  /\ rules \in RuleSets
  /\ report = NotAudited
  /\ appended = [c \in Correlations |-> <<>>]
  /\ written = [c \in Clauses |-> <<>>]
  /\ work = 0

\* An audit has read the log, then the rules, then the chains; then it is done.
Reading == {"decisions", "rules", "gaps"}
Count == work < MaxWork /\ work' = work + 1
Work ==
  /\ Count
  /\ report' = IF report.kind \in Reading THEN report ELSE NotAudited

AppendEvidence(c, content) ==
  /\ Work
  /\ Len(chains[c].records) < MaxRecords
  /\ chains' = [chains EXCEPT ![c] = append(@, content)]
  /\ appended' = [appended EXCEPT ![c] = Append(@, Last(chains'[c].records))]
  /\ UNCHANGED <<versions, log, rules, written>>

AppendVersion(c, text) ==
  /\ Work
  /\ Len(versions[c].records) < MaxRecords
  /\ versions' = [versions EXCEPT ![c] = appendVersion(@, text)]
  /\ written' = [written EXCEPT ![c] = Append(@, Last(versions'[c].records))]
  /\ UNCHANGED <<chains, log, rules, appended>>

\* recordEvaluation and recordExecution of the sink: only a denial is logged as blocked.  The
\* decision runner logs a confidence of its own; the sink's is 1.
RecordDecision(e) ==
  /\ Work
  /\ \A d \in log : d.id # e.id
  /\ log' = log \cup
       {[id |-> e.id, surface |-> e.surface, toolName |-> e.toolName,
         status |-> IF e.verdict = "deny" THEN "blocked" ELSE "generated",
         confidence |-> e.confidence, correlationId |-> e.correlationId]}
  /\ UNCHANGED <<chains, versions, rules, appended, written>>

ChangeRules ==
  /\ Work
  /\ rules' \in RuleSets \ {rules}
  /\ UNCHANGED <<chains, versions, log, appended, written>>

\* A stored list with one record put for another, lost, doubled or exchanged with its neighbour.
Altered(list, field, values) ==
  {[list EXCEPT ![i][field] = x] : i \in DOMAIN list, x \in values}
    \cup {[list EXCEPT ![i].label = l] : i \in DOMAIN list, l \in Labels}
    \cup {RemoveAt(list, i) : i \in DOMAIN list}
    \cup {InsertAt(list, i, list[i]) : i \in DOMAIN list}
    \cup {[list EXCEPT ![i] = list[i + 1], ![i + 1] = list[i]] : i \in 1..(Len(list) - 1)}

AlterEvidence(c) ==
  /\ Work
  /\ chains[c] # Empty
  /\ \E list \in Altered(chains[c].records, "content", Contents) :
       chains' = [chains EXCEPT ![c].records = list]
  /\ UNCHANGED <<versions, log, rules, appended, written>>

AlterVersions(c) ==
  /\ Work
  /\ versions[c] # Empty
  /\ \E list \in Altered(versions[c].records, "text", Texts) :
       versions' = [versions EXCEPT ![c].records = list]
  /\ UNCHANGED <<chains, log, rules, appended, written>>

Restart ==
  /\ Count
  /\ report' = NotAudited
  /\ chains' = [c \in Correlations |-> Empty] /\ appended' = [c \in Correlations |-> <<>>]
  /\ versions' = [c \in Clauses |-> Empty] /\ written' = [c \in Clauses |-> <<>>]
  /\ log' = {} /\ UNCHANGED rules

Existing == {c \in Correlations : chains[c] # Empty}
\* EvidenceChainService.verify of each.
Valid == {c \in Existing : verifyChain(chains[c].records)}

\* runAudit, for dc_audit_run, dc_audit_gaps and the audit command: each read is of its moment.
StartAudit(request) ==
  /\ report.kind \notin Reading
  /\ report' = [kind |-> "decisions", of |-> request, decisions |-> Requested(log, request)]
  /\ UNCHANGED trail

ReadRules ==
  /\ report.kind = "decisions"
  /\ report' = [kind |-> "rules", of |-> report.of, decisions |-> report.decisions, rules |-> rules]
  /\ UNCHANGED trail

FindGaps ==
  /\ report.kind = "rules" /\ ~MustThrow(report.decisions, report.rules)
  /\ report' = [kind |-> "gaps", of |-> report.of, decisions |-> report.decisions, rules |-> report.rules,
                gaps |-> detectGaps(report.decisions, report.rules, Existing, Valid, report.of.integrity)]
  /\ UNCHANGED trail

FailAudit ==
  /\ report.kind = "rules" /\ MayThrow(report.decisions, report.rules)
  /\ report' = Failed
  /\ UNCHANGED trail

ReportAudit ==
  /\ report.kind = "gaps"
  /\ report' = [kind |-> "audit", of |-> report.of, decisions |-> report.decisions, rules |-> report.rules,
                gaps |-> report.gaps,
                summary |-> summarized(report.decisions, report.rules, report.gaps, Existing, Valid,
                                       report.of.integrity)]
  /\ UNCHANGED trail

\* dc_audit_evidence.
AuditEvidence(asked) ==
  /\ report.kind \notin Reading
  /\ report' = [kind |-> "evidence", of |-> asked, says |-> checkEvidenceIntegrity(asked, Existing, Valid)]
  /\ UNCHANGED trail

\* HistoricalReplayService.replay: without a chain it verifies an empty one.  It throws when it does
\* not find the decision, or the decision's rule set.  The snapshot of that set is left out.
Replay(id) ==
  /\ report.kind \notin Reading
  /\ \/ \E d \in {e \in log : e.id = id} :
          report' = [kind |-> "replay", of |-> d, says |-> verifyChain(chains[d.correlationId].records)]
     \/ report' = Failed
  /\ UNCHANGED trail

Next ==
  \/ \E c \in Correlations, content \in Contents : AppendEvidence(c, content)
  \/ \E c \in Clauses, text \in Texts : AppendVersion(c, text)
  \/ \E e \in Evidence : RecordDecision(e)
  \/ ChangeRules
  \/ \E c \in Correlations : AlterEvidence(c)
  \/ \E c \in Clauses : AlterVersions(c)
  \/ Restart
  \/ \E request \in Requests : StartAudit(request)
  \/ ReadRules
  \/ FindGaps
  \/ FailAudit
  \/ ReportAudit
  \/ \E asked \in SUBSET Correlations : AuditEvidence(asked)
  \/ \E id \in Ids : Replay(id)

Spec == Init /\ [][Next]_vars

-----------------------------------------------------------------------------
(* Properties *)

\* Every variable keeps its kind; the log holds one record for each id; what a report counts is
\* what it names, its per cents are per cents, and its gaps are about decisions it was asked of.
TypeOK ==
  /\ \A c \in Correlations : ContentsOf(chains[c].records) \in Seq(Contents)
  /\ \A c \in Clauses : TextsOf(versions[c].records) \in Seq(Range(Normalized))
  /\ log \subseteq Decisions /\ Cardinality({d.id : d \in log}) = Cardinality(log)
  /\ rules \in RuleSets
  /\ report.kind \in {"gaps", "audit"} =>
       \A g \in report.gaps : g.decisions # {} /\ g.decisions \subseteq report.decisions
  /\ report.kind = "audit" =>
       /\ report.summary.policyCoverage \in 0..100 /\ report.summary.evidenceIntegrity \in 0..100
       /\ LET count == report.summary.gapCount
          IN Cardinality(report.gaps) = count["critical"] + count["warning"] + count["info"]

\* A list that verifies is a beginning of what was appended: nothing that is hashed was rewritten
\* (but for what the normalization of a text forgives), nothing lost from the middle, doubled or put
\* out of place.  That its end is missing does not show, nor does a change of the ids, tenant or
\* effective date that no hash covers (verifyChain of both services).
VerifiedIsAPrefix ==
  /\ \A c \in Valid : IsPrefix(Hashed(chains[c].records), appended[c])
  /\ \A c \in Clauses :
       verifyVersions(versions[c].records) =>
         IsPrefix(TextsOf(versions[c].records), TextsOf(written[c]))

\* What was damaged and must not verify: a lost end and the unhashed fields are left out.
Damaged(c) == c \in Existing /\ ~IsPrefix(Hashed(chains[c].records), appended[c])
\* The rules that put a decision to approval.
Holding(d, ruleSet) ==
  {r \in ruleSet : r.enabled /\ r.classA /\ r.requireApproval /\ d.toolName \in r.applied}
In(d, category) ==
  \E g \in report'.gaps : g.category = category /\ g.severity = "critical" /\ d \in g.decisions
Finding == report'.kind = "gaps" /\ report.kind = "rules"

\* Just found: a decision whose evidence is damaged is in a critical gap, and so is one that was
\* logged as made though an enabled rule of class A puts it to approval, if the audit's regular
\* expression finds the decision as the matcher of the rules does.
FindsAll ==
  Finding => \A d \in report.decisions :
    /\ report.of.integrity /\ Damaged(d.correlationId) => In(d, "evidence_integrity")
    /\ d.status = "generated" /\ (\E r \in Holding(d, report.rules) : d.toolName \in r.matched) =>
         In(d, "bypassed_governance")

\* Just summed up: the coverage is full when and only when at most one decision in two hundred is in
\* a gap for want of an enabled rule; the share is rounded (Math.round), so that a report can say
\* 100 % beside such a gap.
Uncovered == UNION {g.decisions : g \in {h \in report.gaps : h.category = "missing_policy"}}
CountsAll ==
  report'.kind = "audit" /\ report.kind = "gaps" =>
    (report'.summary.policyCoverage = 100 <=> 200 * Cardinality(Uncovered) <= Cardinality(report.decisions))

ReplaysIntact == report'.kind = "replay" /\ report'.says => ~Damaged(report'.of.correlationId)

\* A report can be relied on for the moment at which it read: it has the gaps there were as far as
\* hashes and regular expressions show them, its coverage agrees with them, and damaged evidence does
\* not replay (runAudit, HistoricalReplayService.replay).
ReportsAreComplete == [][FindsAll /\ CountsAll /\ ReplaysIntact]_report
=============================================================================
