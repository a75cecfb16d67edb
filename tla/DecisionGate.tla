---------------------------- MODULE DecisionGate ----------------------------
(***************************************************************************)
(* What the decision pipeline promises its callers, with no stage of the   *)
(* pipeline in sight: a call hears objections, is either cleared (only if  *)
(* there is none) or refused with the verdict the objections call for,     *)
(* only a cleared call is concluded by running the decision, each call is  *)
(* ruled on at most once, and the ledger gains exactly one entry when the  *)
(* ruling is recorded.  DecisionRunner implements it (DecisionRunner!Gate).*)
(***************************************************************************)
EXTENDS Sequences

CONSTANT Calls

VARIABLES
  stage,      \* "open", "cleared", "ruled", "recorded" or "rejected", per call
  objections, \* what speaks against running the decision, per call
  ruling,     \* the verdict of a call, "none" before it is ruled on
  ledger      \* the decision log: a sequence of [call, status]

gateVars == <<stage, objections, ruling, ledger>>

Objections == {"deny", "approval", "gate", "rules", "soft"}

\* The verdict a set of objections calls for: policy first, then data, then availability.
Refusal(raised) ==
  IF "deny" \in raised THEN "blocked"
  ELSE IF "approval" \in raised THEN "approval_required"
  ELSE IF raised \cap {"gate", "rules"} # {} THEN "blocked" ELSE "safe_block"

Conclusions == {"completed", "safe_block", "failed"}

LedgerStatus(verdict) ==
  CASE verdict = "completed"         -> "generated"
    [] verdict = "approval_required" -> "pending"
    [] verdict = "failed"            -> "failed"
    [] OTHER                         -> "blocked"

Init ==
  /\ stage = [c \in Calls |-> "open"]
  /\ objections = [c \in Calls |-> {}]
  /\ ruling = [c \in Calls |-> "none"]
  /\ ledger = <<>>

Move(c, from, to) == stage[c] \in from /\ stage' = [stage EXCEPT ![c] = to]

Hear(c) ==
  /\ Move(c, {"open"}, "open")
  /\ \E raised \in SUBSET Objections : objections' = [objections EXCEPT ![c] = @ \cup raised]
  /\ UNCHANGED <<ruling, ledger>>

Clear(c) ==
  /\ Move(c, {"open"}, "cleared")
  /\ objections[c] = {}
  /\ UNCHANGED <<objections, ruling, ledger>>

Refuse(c) ==
  /\ Move(c, {"open"}, "ruled")
  /\ \E raised \in SUBSET Objections :
       /\ objections[c] \cup raised # {}
       /\ objections' = [objections EXCEPT ![c] = @ \cup raised]
       /\ ruling' = [ruling EXCEPT ![c] = Refusal(objections[c] \cup raised)]
  /\ UNCHANGED ledger

Conclude(c) ==
  /\ Move(c, {"cleared"}, "ruled")
  /\ \E verdict \in Conclusions : ruling' = [ruling EXCEPT ![c] = verdict]
  /\ UNCHANGED <<objections, ledger>>

Record(c) ==
  /\ Move(c, {"ruled"}, "recorded")
  /\ ledger' = Append(ledger, [call |-> c, status |-> LedgerStatus(ruling[c])])
  /\ UNCHANGED <<objections, ruling>>

Reject(c) ==
  /\ Move(c, {"open", "ruled"}, "rejected")
  /\ UNCHANGED <<objections, ruling, ledger>>

Next == \E c \in Calls :
  Hear(c) \/ Clear(c) \/ Refuse(c) \/ Conclude(c) \/ Record(c) \/ Reject(c)

Spec == Init /\ [][Next]_gateVars
=============================================================================
