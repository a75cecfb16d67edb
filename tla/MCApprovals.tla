---------------------------- MODULE MCApprovals ----------------------------
(***************************************************************************)
(* One request, two attempts to resolve it, a CEO and another agent, three *)
(* instants and a restart.  Two attempts suffice for every race on a       *)
(* request, because an attempt reads it once and writes it once; requests  *)
(* share nothing, so one of them shows what any does.  The submissions are *)
(* approval with and without each part of a break-glass, one that expires  *)
(* at the second instant and one that does not, and rejection by either.   *)
(***************************************************************************)
EXTENDS Approvals

CONSTANTS r1, a1, a2, ceo, clerk

MCRequests == {r1}
MCAttempts == {a1, a2}
MCAgents == {ceo, clerk}
MCCEOs == {ceo}

Given(who, decision, breakGlass) ==
  [id |-> r1, decision |-> decision, resolvedBy |-> who, breakGlass |-> breakGlass]

BreakGlass(reason, expiresAt) == [given |-> TRUE, reason |-> reason, expiresAt |-> expiresAt]

MCSubmissions ==
  { Given(clerk, "approved", NoBreakGlass), Given(clerk, "approved", BreakGlass(TRUE, 2)),
    Given(ceo, "approved", NoBreakGlass), Given(ceo, "approved", BreakGlass(FALSE, 2)),
    Given(ceo, "approved", BreakGlass(TRUE, 1)), Given(ceo, "approved", BreakGlass(TRUE, 2)),
    Given(ceo, "rejected", NoBreakGlass), Given(clerk, "rejected", NoBreakGlass) }

MCDeadlines == {1}
=============================================================================
