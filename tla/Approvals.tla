----------------------------- MODULE Approvals -----------------------------
(***************************************************************************)
(* Approval requests and their resolution (src/src/approval and the two    *)
(* approval repositories).  resolveApprovalRequest awaits findById before  *)
(* it decides, and the SQLite repository awaits a second findById before   *)
(* its UPDATE, so attempts on the same request interleave between reading  *)
(* and writing it.  Time is a bounded clock; a restart drops the attempts  *)
(* in flight and, with the in-memory repository, the requests.             *)
(***************************************************************************)
EXTENDS Naturals

CONSTANTS
  Requests,    \* ids of approval requests
  Attempts,    \* calls of resolveApprovalRequest
  Agents,      \* identities that request and resolve
  CEOs,        \* the agents whose registry roles include 'ceo'
  Submissions, \* the inputs resolveApprovalRequest is called with
  Deadlines,   \* the expiresAt of the requests created
  MaxTime,     \* bound of the clock
  MaxRestarts  \* bound of the restarts

Times == 0..MaxTime
Decisions == {"approved", "rejected"}

\* breakGlass of the input: absent, or a reason that is blank or not and an expiry timestamp.
NoBreakGlass == [given |-> FALSE, reason |-> FALSE, expiresAt |-> 0]
BreakGlasses == {NoBreakGlass} \cup [given : {TRUE}, reason : BOOLEAN, expiresAt : Times]

Inputs == [id : Requests, decision : Decisions, resolvedBy : Agents, breakGlass : BreakGlasses]

ASSUME ApprovalAssumption ==
  /\ CEOs \subseteq Agents
  /\ MaxTime \in Nat /\ MaxRestarts \in Nat
  /\ Submissions \subseteq Inputs
  /\ Deadlines \subseteq Times

\* An ApprovalRequest, pending or resolved; Absent is findById's null.
Absent == [status |-> "absent"]
Unresolved == [by |-> "none", at |-> 0]
ApprovalRequests ==
  [status : {"pending"}, requestedBy : Agents, expiresAt : Times, resolved : {Unresolved}]
    \cup [status : Decisions, requestedBy : Agents, expiresAt : Times,
          resolved : [by : Agents, at : Times]]

NoInput == [decision |-> "none"]
Codes == {"ok", "not_found", "already_resolved", "separation_of_duties"}

VARIABLES
  backend,  \* the repository in use: "memory" or "sqlite"
  requests, \* its contents
  stage,    \* "idle", "checking", "writing", "answered" or "lost", per attempt
  input,    \* ResolveApprovalInput of the attempt
  existing, \* what the attempt's findById returned
  checked,  \* when the attempt's separation of duties was checked (history)
  stamp,    \* resolvedAt of the attempt
  answer,   \* code of its ResolveApprovalResult
  clock,
  restarts

vars == <<backend, requests, stage, input, existing, checked, stamp, answer, clock, restarts>>

-----------------------------------------------------------------------------

\* Mutant of checkSeparationOfDuties: the break-glass expiry is compared with <.
checkSeparationOfDuties_late(requester, resolver, breakGlass, now) ==
  \/ requester # resolver
  \/ breakGlass.given /\ resolver \in CEOs /\ breakGlass.reason /\ breakGlass.expiresAt >= now

\* Self-approval needs break-glass, the CEO role, a reason and an expiry in the future.
checkSeparationOfDuties(requester, resolver, breakGlass, now) ==
  \/ requester # resolver
  \/ breakGlass.given /\ resolver \in CEOs /\ breakGlass.reason /\ breakGlass.expiresAt > now

Answer(a, code) ==
  /\ stage' = [stage EXCEPT ![a] = "answered"]
  /\ answer' = [answer EXCEPT ![a] = code]

\* Mutant of updateStatus: only the status is written.
updateStatus_anonymous(a, at) ==
  requests' = [requests EXCEPT ![input[a].id].status = input[a].decision]

\* The write of updateStatus: it replaces status and resolution, whatever they are by now.
updateStatus(a, at) ==
  requests' = [requests EXCEPT ![input[a].id] =
    [@ EXCEPT !.status = input[a].decision,
              !.resolved = [by |-> input[a].resolvedBy, at |-> at]]]

Init ==
  /\ backend \in {"memory", "sqlite"}
  /\ requests = [r \in Requests |-> Absent]
  /\ stage = [a \in Attempts |-> "idle"]
  /\ input = [a \in Attempts |-> NoInput]
  /\ existing = [a \in Attempts |-> Absent]
  /\ checked = [a \in Attempts |-> 0]
  /\ stamp = [a \in Attempts |-> 0]
  /\ answer = [a \in Attempts |-> "none"]
  /\ clock = 0
  /\ restarts = 0

Create(r, who, expiresAt) ==
  /\ requests[r] = Absent
  /\ requests' = [requests EXCEPT ![r] = [status |-> "pending", requestedBy |-> who,
                                          expiresAt |-> expiresAt, resolved |-> Unresolved]]
  /\ UNCHANGED <<backend, stage, input, existing, checked, stamp, answer, clock, restarts>>

\* resolveApprovalRequest is called; its findById reads at once and is then awaited.
Submit(a, given) ==
  /\ stage[a] = "idle"
  /\ stage' = [stage EXCEPT ![a] = "checking"]
  /\ input' = [input EXCEPT ![a] = given]
  /\ existing' = [existing EXCEPT ![a] = requests[given.id]]
  /\ UNCHANGED <<backend, requests, checked, stamp, answer, clock, restarts>>

SeparationRefuses(a) ==
  /\ input[a].decision = "approved"
  /\ ~checkSeparationOfDuties(existing[a].requestedBy, input[a].resolvedBy,
                              input[a].breakGlass, clock)

\* The early returns, judged on what was read.
Refuse(a) ==
  /\ stage[a] = "checking"
  /\ \/ existing[a] = Absent /\ Answer(a, "not_found")
     \/ existing[a] # Absent /\ existing[a].status # "pending" /\ Answer(a, "already_resolved")
     \/ /\ existing[a] # Absent /\ existing[a].status = "pending"
        /\ SeparationRefuses(a)
        /\ Answer(a, "separation_of_duties")
  /\ UNCHANGED <<backend, requests, input, existing, checked, stamp, clock, restarts>>

\* Mutant of Passes: the status that was read is not looked at.
Passes_resolved(a) ==
  stage[a] = "checking" /\ existing[a] # Absent /\ ~SeparationRefuses(a)

Passes(a) ==
  /\ stage[a] = "checking"
  /\ existing[a] # Absent /\ existing[a].status = "pending" /\ ~SeparationRefuses(a)

\* The clock is read for the check and once more for resolvedAt: nothing is awaited between the
\* two, but time passes.
Stamp(a, at) ==
  /\ at \in clock..MaxTime
  /\ clock' = at
  /\ checked' = [checked EXCEPT ![a] = clock]
  /\ stamp' = [stamp EXCEPT ![a] = at]

\* updateStatus of the in-memory repository: no await before the write.
Resolve(a, at) ==
  /\ backend = "memory"
  /\ Passes(a)
  /\ Stamp(a, at)
  /\ updateStatus(a, at)
  /\ Answer(a, "ok")
  /\ UNCHANGED <<backend, input, existing, restarts>>

\* updateStatus of the SQLite repository: it awaits findById, then runs the UPDATE.
StartUpdate(a, at) ==
  /\ backend = "sqlite"
  /\ Passes(a)
  /\ Stamp(a, at)
  /\ stage' = [stage EXCEPT ![a] = "writing"]
  /\ UNCHANGED <<backend, requests, input, existing, answer, restarts>>

RunUpdate(a) ==
  /\ stage[a] = "writing"
  /\ updateStatus(a, stamp[a])
  /\ Answer(a, "ok")
  /\ UNCHANGED <<backend, input, existing, checked, stamp, clock, restarts>>

Tick ==
  /\ clock < MaxTime
  /\ clock' = clock + 1
  /\ UNCHANGED <<backend, requests, stage, input, existing, checked, stamp, answer, restarts>>

\* The process restarts.  The in-memory store is rebuilt empty, so that a request created later
\* may stand under the same model id.
Restart ==
  /\ restarts < MaxRestarts
  /\ restarts' = restarts + 1
  /\ stage' = [a \in Attempts |-> IF stage[a] \in {"checking", "writing"} THEN "lost" ELSE stage[a]]
  /\ requests' = IF backend = "sqlite" THEN requests ELSE [r \in Requests |-> Absent]
  /\ UNCHANGED <<backend, input, existing, checked, stamp, answer, clock>>

Settle(a) ==
  \/ Refuse(a)
  \/ \E at \in Times : Resolve(a, at) \/ StartUpdate(a, at)
  \/ RunUpdate(a)

Next ==
  \/ \E r \in Requests, who \in Agents, expiresAt \in Deadlines : Create(r, who, expiresAt)
  \/ \E a \in Attempts, given \in Submissions : Submit(a, given)
  \/ \E a \in Attempts : Settle(a)
  \/ Tick
  \/ Restart

Spec == Init /\ [][Next]_vars

-----------------------------------------------------------------------------
(* Properties                                                              *)

TypeOK ==
  /\ backend \in {"memory", "sqlite"}
  /\ requests \in [Requests -> ApprovalRequests \cup {Absent}]
  /\ stage \in [Attempts -> {"idle", "checking", "writing", "answered", "lost"}]
  /\ input \in [Attempts -> Inputs \cup {NoInput}]
  /\ existing \in [Attempts -> ApprovalRequests \cup {Absent}]
  /\ checked \in [Attempts -> Times]
  /\ stamp \in [Attempts -> Times]
  /\ answer \in [Attempts -> Codes \cup {"none"}]
  /\ clock \in Times
  /\ restarts \in 0..MaxRestarts

\* The attempt a wrote the resolution request r holds.
Wrote(a, r) ==
  /\ answer[a] = "ok"
  /\ input[a].id = r
  /\ input[a].decision = requests[r].status
  /\ requests[r].resolved = [by |-> input[a].resolvedBy, at |-> stamp[a]]

\* Whatever attempts raced, a request that is approved was approved by someone else than its
\* requester, or by a CEO with a reason, whose break-glass was still to expire when it was checked
\* and who signed no earlier than that.  The signature itself may be later than the expiry: the
\* code reads the clock again for it (approval-routing.ts:83, resolve-approval.ts:72).
SeparationOfDuties ==
  \A r \in Requests :
    requests[r].status = "approved" =>
      \/ requests[r].resolved.by # requests[r].requestedBy
      \/ /\ requests[r].resolved.by \in CEOs
         /\ \E a \in Attempts : /\ Wrote(a, r)
                                /\ input[a].breakGlass.reason
                                /\ checked[a] < input[a].breakGlass.expiresAt
                                /\ checked[a] <= requests[r].resolved.at

\* A request that has been resolved is only ever overwritten by an attempt that had read it while
\* it was pending: a call made after the resolution changes nothing (resolve-approval.ts:44-46).
OverwrittenOnlyByRacers ==
  [][\A r \in Requests :
       requests[r].status \in Decisions /\ requests'[r] \notin {requests[r], Absent} =>
         \E a \in Attempts : /\ stage[a] \in {"checking", "writing"}
                             /\ input[a].id = r
                             /\ existing[a].status = "pending"
                             /\ answer'[a] = "ok"]_vars

=============================================================================
