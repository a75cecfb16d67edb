---------------------------- MODULE MCAuditTrail ----------------------------
(***************************************************************************)
(* Chains of three records and a handful of steps, which is what losing,   *)
(* doubling or exchanging two of them and appending on takes.  One surface *)
(* has neither a trust policy nor a binding; the texts "a" and "b" differ  *)
(* in blanks only.  The rules' globs are "payment.send(eu)", which as a    *)
(* regular expression matches "payment.sendeu", "*", which as a glob       *)
(* matches no dot, "payment.*" and "mail(", which is none.                 *)
(***************************************************************************)
EXTENDS AuditTrail

MCNormalized == [t \in Texts |-> IF t = "c" THEN "c" ELSE "a"]
MCTrustPolicy == [s \in {"billing"} |-> "critical"]

MCEvidence ==
  { [id |-> "d1", surface |-> "billing", toolName |-> "payment.send(eu)", correlationId |-> "k1",
     verdict |-> "approve_required", confidence |-> 10],
    [id |-> "d2", surface |-> "chat", toolName |-> "mail.send", correlationId |-> "k1",
     verdict |-> "allow", confidence |-> 3],
    [id |-> "d3", surface |-> "billing", toolName |-> "payment.send(eu)", correlationId |-> "k2",
     verdict |-> "deny", confidence |-> 10] }

MCRule(matched, applied, parses, classA, enabled) ==
  [matched |-> matched, applied |-> applied, parses |-> parses, classA |-> classA,
   requireApproval |-> classA, enabled |-> enabled]
MCRuleSets ==
  { {MCRule({}, {"payment.send(eu)"}, TRUE, TRUE, TRUE),
     MCRule({"payment.send(eu)", "mail.send"}, {}, TRUE, FALSE, FALSE)},
    {MCRule({"payment.send(eu)"}, {"payment.send(eu)"}, TRUE, TRUE, TRUE),
     MCRule({}, {}, FALSE, FALSE, FALSE)} }

MCRequests ==
  { [surfaces |-> {}, integrity |-> TRUE], [surfaces |-> {"billing"}, integrity |-> FALSE] }
=============================================================================
