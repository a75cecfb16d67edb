--------------------------- MODULE ApprovalsProofs ---------------------------
(***************************************************************************)
(* Theorems about Approvals, for any requests, attempts, agents, CEOs and  *)
(* submissions, over either repository and across restarts.  An attempt    *)
(* judges what it read and writes later; the inductive invariant says what *)
(* of its reading cannot have changed by then.                             *)
(***************************************************************************)
EXTENDS Approvals, TLAPS

InFlight(a) == stage[a] \in {"checking", "writing"}

\* What an attempt in flight still knows: the request it read exists and has the requester it had;
\* an attempt that is writing had read it pending and passed the separation of duties when that was
\* checked, not after its stamp; and only an attempt that is over has an answer.
AttemptSafe(a) ==
  /\ InFlight(a) => input[a] \in Inputs
  /\ InFlight(a) /\ existing[a] # Absent =>
       /\ requests[input[a].id] # Absent
       /\ requests[input[a].id].requestedBy = existing[a].requestedBy
  /\ stage[a] = "writing" =>
       /\ existing[a] # Absent /\ existing[a].status = "pending"
       /\ checked[a] <= stamp[a]
       /\ input[a].decision = "approved" =>
            checkSeparationOfDuties(existing[a].requestedBy, input[a].resolvedBy,
                                    input[a].breakGlass, checked[a])
  /\ stage[a] # "answered" => answer[a] = "none"

\* The inductive invariant.
IInv == TypeOK /\ (\A a \in Attempts : AttemptSafe(a)) /\ SeparationOfDuties

-----------------------------------------------------------------------------
(* Requests                                                                *)

\* A request that exists has a requester and is pending or decided.
LEMMA RequestKinds ==
  ASSUME NEW x \in ApprovalRequests
  PROVE  /\ x # Absent
         /\ x.status \in {"pending"} \cup Decisions
         /\ x.requestedBy \in Agents
         /\ x.expiresAt \in Times
  BY DEF ApprovalRequests, Absent, Decisions

\* What updateStatus makes of a request.
ResolvedAs(x, decision, who, at) ==
  [x EXCEPT !.status = decision, !.resolved = [by |-> who, at |-> at]]

LEMMA Resolution ==
  ASSUME NEW x \in ApprovalRequests, NEW decision \in Decisions, NEW who \in Agents, NEW at \in Times
  PROVE  /\ ResolvedAs(x, decision, who, at) \in ApprovalRequests
         /\ ResolvedAs(x, decision, who, at).status = decision
         /\ ResolvedAs(x, decision, who, at).requestedBy = x.requestedBy
         /\ ResolvedAs(x, decision, who, at).resolved = [by |-> who, at |-> at]
  <1> DEFINE y == [status |-> decision, requestedBy |-> x.requestedBy, expiresAt |-> x.expiresAt,
                   resolved |-> [by |-> who, at |-> at]]
  <1>1. ASSUME NEW S, NEW R,
               x \in [status : S, requestedBy : Agents, expiresAt : Times, resolved : R]
        PROVE  ResolvedAs(x, decision, who, at) = y
    <2>1. PICK s \in S, q \in Agents, e \in Times, z \in R :
            x = [status |-> s, requestedBy |-> q, expiresAt |-> e, resolved |-> z]
      BY <1>1
    <2> DEFINE res == [by |-> who, at |-> at]
               x1 == [x EXCEPT !.status = decision]
    <2>2. ResolvedAs(x, decision, who, at) = [x1 EXCEPT !.resolved = res]
      BY DEF ResolvedAs
    <2>3. /\ y = [status |-> decision, requestedBy |-> x.requestedBy, expiresAt |-> x.expiresAt,
                  resolved |-> res]
          /\ x.requestedBy = q /\ x.expiresAt = e
      BY <2>1
    <2> HIDE DEF res, y
    <2>4. x1 = [status |-> decision, requestedBy |-> q, expiresAt |-> e, resolved |-> z]
      BY <2>1
    <2> HIDE DEF x1
    <2>5. [x1 EXCEPT !.resolved = res]
            = [status |-> decision, requestedBy |-> q, expiresAt |-> e, resolved |-> res]
      BY <2>4
    <2>6. QED
      BY <2>2, <2>3, <2>5
  <1>2. ResolvedAs(x, decision, who, at) = y
    BY <1>1 DEF ApprovalRequests
  <1>3. y \in ApprovalRequests
    BY RequestKinds DEF ApprovalRequests
  <1>4. QED
    BY <1>2, <1>3

\* updateStatus changes one request, which keeps its requester.
LEMMA Updated ==
  ASSUME TypeOK, NEW a \in Attempts, input[a] \in Inputs, requests[input[a].id] # Absent,
         NEW at \in Times, updateStatus(a, at)
  PROVE  LET r == input[a].id IN
         /\ r \in Requests
         /\ requests' \in [Requests -> ApprovalRequests \cup {Absent}]
         /\ \A q \in Requests \ {r} : requests'[q] = requests[q]
         /\ requests'[r] # Absent
         /\ requests'[r].requestedBy = requests[r].requestedBy
         /\ requests'[r].status = input[a].decision
         /\ requests'[r].resolved = [by |-> input[a].resolvedBy, at |-> at]
  <1> DEFINE r == input[a].id
             y == ResolvedAs(requests[r], input[a].decision, input[a].resolvedBy, at)
  <1>1. r \in Requests /\ input[a].decision \in Decisions /\ input[a].resolvedBy \in Agents
    BY DEF Inputs
  <1>2. requests[r] \in ApprovalRequests
    BY <1>1 DEF TypeOK
  <1>3. /\ y \in ApprovalRequests
        /\ y.status = input[a].decision /\ y.requestedBy = requests[r].requestedBy
        /\ y.resolved = [by |-> input[a].resolvedBy, at |-> at]
    BY <1>1, <1>2, Resolution
  <1>4. requests' = [requests EXCEPT ![r] = y]
    BY DEF updateStatus, ResolvedAs
  <1>5. y # Absent
    BY <1>3, RequestKinds
  <1> HIDE DEF y, r
  <1>6. /\ requests' \in [Requests -> ApprovalRequests \cup {Absent}]
        /\ \A q \in Requests \ {r} : requests'[q] = requests[q]
        /\ requests'[r] = y
    BY <1>1, <1>3, <1>4 DEF TypeOK
  <1>7. QED
    BY <1>1, <1>3, <1>5, <1>6 DEF r

\* Every break-glass has an expiry, 0 where none is given.
LEMMA BreakGlassExpires ==
  ASSUME NEW b \in BreakGlasses
  PROVE  b.expiresAt \in Times
  <1>1. CASE b = NoBreakGlass
    <2>1. b.expiresAt = 0 /\ 0 \in Times
      BY <1>1, ApprovalAssumption DEF NoBreakGlass, Times
    <2>2. QED
      BY <2>1
  <1>2. CASE b \in [given : {TRUE}, reason : BOOLEAN, expiresAt : Times]
    BY <1>2
  <1>3. QED
    BY <1>1, <1>2 DEF BreakGlasses

-----------------------------------------------------------------------------
(* The steps                                                               *)

LEMMA InitSafe == Init => IInv
  BY ApprovalAssumption
     DEF Init, IInv, TypeOK, AttemptSafe, InFlight, SeparationOfDuties, Absent, Times

\* A request is created.
LEMMA CreateSafe ==
  ASSUME IInv, NEW r \in Requests, NEW who \in Agents, NEW expiresAt \in Deadlines,
         Create(r, who, expiresAt)
  PROVE  IInv'
  <1> DEFINE x == [status |-> "pending", requestedBy |-> who, expiresAt |-> expiresAt,
                   resolved |-> Unresolved]
  <1>1. x \in ApprovalRequests /\ x.status = "pending"
    BY ApprovalAssumption DEF ApprovalRequests
  <1>2. /\ requests[r] = Absent /\ requests' = [requests EXCEPT ![r] = x]
        /\ UNCHANGED <<backend, stage, input, existing, checked, stamp, answer, clock, restarts>>
    BY DEF Create
  <1> HIDE DEF x
  <1>3. TypeOK'
    BY <1>1, <1>2 DEF IInv, TypeOK
  <1>4. requests'[r] = x /\ \A q \in Requests \ {r} : requests'[q] = requests[q]
    BY <1>2 DEF IInv, TypeOK
  <1>5. \A a \in Attempts : AttemptSafe(a)'
    <2> SUFFICES ASSUME NEW a \in Attempts PROVE AttemptSafe(a)'
      OBVIOUS
    <2>1. InFlight(a) => input[a].id \in Requests
      BY DEF IInv, AttemptSafe, Inputs
    <2>2. QED
      BY <1>2, <1>4, <2>1 DEF IInv, AttemptSafe, InFlight
  <1>6. SeparationOfDuties'
    BY <1>1, <1>2, <1>4 DEF IInv, SeparationOfDuties, Wrote
  <1>7. QED
    BY <1>3, <1>5, <1>6 DEF IInv

\* An attempt that is not answered wrote nothing.
LEMMA AnsweredWrote ==
  ASSUME IInv, NEW a \in Attempts, stage[a] # "answered", NEW r
  PROVE  ~Wrote(a, r)
  BY DEF IInv, AttemptSafe, Wrote

\* A step that changes no request, and nothing of the attempts that are answered, undoes nothing.
LEMMA SeparationKept ==
  ASSUME IInv, UNCHANGED requests,
         \A a \in Attempts : stage[a] = "answered" =>
           /\ answer'[a] = answer[a] /\ input'[a] = input[a]
           /\ stamp'[a] = stamp[a] /\ checked'[a] = checked[a]
  PROVE  SeparationOfDuties'
  <1>1. \A a \in Attempts, r \in Requests : Wrote(a, r) =>
          Wrote(a, r)' /\ input'[a] = input[a] /\ checked'[a] = checked[a]
    BY AnsweredWrote DEF Wrote
  <1>2. QED
    BY <1>1 DEF IInv, SeparationOfDuties

\* A call of resolveApprovalRequest begins: it reads the request.
LEMMA SubmitSafe ==
  ASSUME IInv, NEW a \in Attempts, NEW given \in Submissions, Submit(a, given)
  PROVE  IInv'
  <1>1. given \in Inputs
    BY ApprovalAssumption
  <1>2. /\ stage[a] = "idle"
        /\ stage' = [stage EXCEPT ![a] = "checking"] /\ input' = [input EXCEPT ![a] = given]
        /\ existing' = [existing EXCEPT ![a] = requests[given.id]]
        /\ UNCHANGED <<backend, requests, checked, stamp, answer, clock, restarts>>
    BY DEF Submit
  <1>3. requests[given.id] \in ApprovalRequests \cup {Absent}
    BY <1>1 DEF IInv, TypeOK, Inputs
  <1>4. TypeOK'
    BY <1>1, <1>2, <1>3 DEF IInv, TypeOK
  <1>5. \A b \in Attempts : AttemptSafe(b)'
    <2> SUFFICES ASSUME NEW b \in Attempts PROVE AttemptSafe(b)'
      OBVIOUS
    <2>1. CASE b = a
      BY <1>1, <1>2, <2>1 DEF IInv, TypeOK, AttemptSafe, InFlight
    <2>2. CASE b # a
      BY <1>2, <2>2 DEF IInv, TypeOK, AttemptSafe, InFlight
    <2>3. QED
      BY <2>1, <2>2
  <1>6. SeparationOfDuties'
    BY <1>2, SeparationKept DEF IInv, TypeOK
  <1>7. QED
    BY <1>4, <1>5, <1>6 DEF IInv

\* The early returns.
LEMMA RefuseSafe ==
  ASSUME IInv, NEW a \in Attempts, Refuse(a)
  PROVE  IInv'
  <1>1. PICK code \in Codes :
          /\ stage[a] = "checking" /\ stage' = [stage EXCEPT ![a] = "answered"]
          /\ answer' = [answer EXCEPT ![a] = code]
          /\ UNCHANGED <<backend, requests, input, existing, checked, stamp, clock, restarts>>
    BY DEF Refuse, Answer, Codes
  <1>2. TypeOK'
    BY <1>1 DEF IInv, TypeOK
  <1>3. \A b \in Attempts : AttemptSafe(b)'
    BY <1>1 DEF IInv, TypeOK, AttemptSafe, InFlight
  <1>4. SeparationOfDuties'
    BY <1>1, SeparationKept DEF IInv, TypeOK
  <1>5. QED
    BY <1>2, <1>3, <1>4 DEF IInv

\* A write of updateStatus by an attempt whose reading was pending and passed the check before the
\* stamp: of the memory repository in the step of the check, of SQLite in a later one.
LEMMA WriteSafe ==
  ASSUME IInv, NEW a \in Attempts, InFlight(a), existing[a] # Absent,
         NEW now \in Times, NEW at \in Times, now <= at,
         input[a].decision = "approved" =>
           checkSeparationOfDuties(existing[a].requestedBy, input[a].resolvedBy,
                                   input[a].breakGlass, now),
         updateStatus(a, at), Answer(a, "ok"), stamp' = [stamp EXCEPT ![a] = at],
         checked' = [checked EXCEPT ![a] = now], clock' \in Times,
         UNCHANGED <<backend, input, existing, restarts>>
  PROVE  IInv'
  <1> DEFINE r == input[a].id
  <1>1. /\ TypeOK /\ input[a] \in Inputs /\ requests[r] # Absent
        /\ requests[r].requestedBy = existing[a].requestedBy
    BY DEF IInv, AttemptSafe
  <1>2. /\ r \in Requests
        /\ requests' \in [Requests -> ApprovalRequests \cup {Absent}]
        /\ \A q \in Requests \ {r} : requests'[q] = requests[q]
        /\ requests'[r] # Absent
        /\ requests'[r].requestedBy = requests[r].requestedBy
        /\ requests'[r].status = input[a].decision
        /\ requests'[r].resolved = [by |-> input[a].resolvedBy, at |-> at]
    BY <1>1, Updated
  <1>3. stage' = [stage EXCEPT ![a] = "answered"] /\ answer' = [answer EXCEPT ![a] = "ok"]
    BY DEF Answer
  <1>4. TypeOK'
    BY <1>1, <1>2, <1>3 DEF TypeOK, Codes
  <1>5. \A b \in Attempts : AttemptSafe(b)'
    <2> SUFFICES ASSUME NEW b \in Attempts PROVE AttemptSafe(b)'
      OBVIOUS
    <2>1. CASE b = a
      BY <1>1, <1>3, <2>1 DEF TypeOK, AttemptSafe, InFlight
    <2>2. CASE b # a
      <3>1. InFlight(b) => input[b].id \in Requests
        BY DEF IInv, AttemptSafe, Inputs
      <3>2. /\ stage'[b] = stage[b] /\ answer'[b] = answer[b] /\ stamp'[b] = stamp[b]
            /\ checked'[b] = checked[b] /\ input'[b] = input[b] /\ existing'[b] = existing[b]
        BY <1>1, <1>3, <2>2 DEF TypeOK
      <3>3. \A q \in Requests : requests[q] # Absent =>
              requests'[q] # Absent /\ requests'[q].requestedBy = requests[q].requestedBy
        BY <1>2
      <3>4. AttemptSafe(b)
        BY DEF IInv
      <3>5. QED
        BY <3>1, <3>2, <3>3, <3>4 DEF AttemptSafe, InFlight
    <2>3. QED
      BY <2>1, <2>2
  <1>6. SeparationOfDuties'
    <2> SUFFICES ASSUME NEW q \in Requests, requests'[q].status = "approved"
                 PROVE  \/ requests'[q].resolved.by # requests'[q].requestedBy
                        \/ /\ requests'[q].resolved.by \in CEOs
                           /\ \E b \in Attempts :
                                /\ Wrote(b, q)'
                                /\ input'[b].breakGlass.reason
                                /\ checked'[b] < input'[b].breakGlass.expiresAt
                                /\ checked'[b] <= requests'[q].resolved.at
      BY DEF SeparationOfDuties
    <2>1. CASE q # r
      <3>1. \A b \in Attempts : Wrote(b, q) => b # a
        BY AnsweredWrote DEF InFlight
      <3>2. \A b \in Attempts : Wrote(b, q) =>
              Wrote(b, q)' /\ input'[b] = input[b] /\ checked'[b] = checked[b]
        BY <1>1, <1>2, <1>3, <2>1, <3>1 DEF Wrote, TypeOK
      <3>3. requests'[q] = requests[q]
        BY <1>2, <2>1
      <3>4. QED
        BY <3>2, <3>3 DEF IInv, SeparationOfDuties
    <2>2. CASE q = r
      <3>1. checkSeparationOfDuties(existing[a].requestedBy, input[a].resolvedBy,
                                    input[a].breakGlass, now)
        BY <1>2, <2>2
      <3>2. CASE existing[a].requestedBy # input[a].resolvedBy
        BY <1>1, <1>2, <2>2, <3>2
      <3>3. CASE existing[a].requestedBy = input[a].resolvedBy
        <4>1. /\ input[a].resolvedBy \in CEOs /\ input[a].breakGlass.reason
              /\ input[a].breakGlass.expiresAt > now
          BY <3>1, <3>3 DEF checkSeparationOfDuties
        <4>3. Wrote(a, r)' /\ checked'[a] = now
          BY <1>1, <1>2, <1>3 DEF Wrote, TypeOK
        <4>4. input[a].breakGlass.expiresAt \in Nat /\ now \in Nat
          <5>1. input[a].breakGlass \in BreakGlasses
            BY <1>1 DEF Inputs
          <5>2. QED
            BY <5>1, BreakGlassExpires DEF Times
        <4>5. QED
          BY <1>2, <2>2, <4>1, <4>3, <4>4
      <3>4. QED
        BY <3>2, <3>3
    <2>3. QED
      BY <2>1, <2>2
  <1>7. QED
    BY <1>4, <1>5, <1>6 DEF IInv

\* The steps of an attempt between its reading and its answer.
LEMMA SettleSafe ==
  ASSUME IInv, NEW a \in Attempts, Settle(a)
  PROVE  IInv'
  <1>1. clock \in Times
    BY DEF IInv, TypeOK
  <1>2. ASSUME Passes(a)
        PROVE  /\ InFlight(a) /\ existing[a] # Absent /\ existing[a].status = "pending"
               /\ input[a].decision = "approved" =>
                    checkSeparationOfDuties(existing[a].requestedBy, input[a].resolvedBy,
                                            input[a].breakGlass, clock)
    BY <1>2 DEF Passes, SeparationRefuses, InFlight
  <1>3. CASE Refuse(a)
    BY <1>3, RefuseSafe
  <1>8. ASSUME NEW at \in Times, Stamp(a, at)
        PROVE  /\ clock <= at /\ clock' \in Times
               /\ checked' = [checked EXCEPT ![a] = clock] /\ stamp' = [stamp EXCEPT ![a] = at]
    BY <1>1, <1>8, ApprovalAssumption DEF Stamp, Times
  <1>4. ASSUME NEW at \in Times, Resolve(a, at) PROVE IInv'
    BY <1>1, <1>2, <1>4, <1>8, WriteSafe DEF Resolve
  <1>5. ASSUME NEW at \in Times, StartUpdate(a, at) PROVE IInv'
    <2>1. /\ Passes(a) /\ stage' = [stage EXCEPT ![a] = "writing"]
          /\ clock <= at /\ clock' \in Times /\ checked' = [checked EXCEPT ![a] = clock]
          /\ stamp' = [stamp EXCEPT ![a] = at] /\ stage[a] = "checking"
          /\ UNCHANGED <<backend, requests, input, existing, answer, restarts>>
      BY <1>5, <1>8 DEF StartUpdate, Passes
    <2>2. TypeOK'
      BY <1>1, <2>1 DEF IInv, TypeOK
    <2>3. \A b \in Attempts : AttemptSafe(b)'
      <3> SUFFICES ASSUME NEW b \in Attempts PROVE AttemptSafe(b)'
        OBVIOUS
      <3>1. CASE b = a
        BY <1>2, <2>1, <3>1 DEF IInv, TypeOK, AttemptSafe, InFlight
      <3>2. CASE b # a
        BY <2>1, <3>2 DEF IInv, TypeOK, AttemptSafe, InFlight
      <3>3. QED
        BY <3>1, <3>2
    <2>4. SeparationOfDuties'
      BY <2>1, SeparationKept DEF IInv, TypeOK
    <2>5. QED
      BY <2>2, <2>3, <2>4 DEF IInv
  <1>6. CASE RunUpdate(a)
    <2>1. /\ stage[a] = "writing" /\ stamp[a] \in Times /\ checked[a] \in Times
          /\ stamp' = [stamp EXCEPT ![a] = stamp[a]]
          /\ checked' = [checked EXCEPT ![a] = checked[a]] /\ clock' \in Times
      BY <1>6 DEF RunUpdate, IInv, TypeOK
    <2>2. QED
      BY <1>6, <2>1, WriteSafe DEF RunUpdate, InFlight, IInv, AttemptSafe
  <1>7. QED
    BY <1>3, <1>4, <1>5, <1>6 DEF Settle

\* The clock changes nothing that has been judged.
LEMMA TickSafe ==
  ASSUME IInv, Tick
  PROVE  IInv'
  <1>1. /\ clock' \in Times
        /\ UNCHANGED <<backend, requests, stage, input, existing, checked, stamp, answer, restarts>>
    BY ApprovalAssumption DEF IInv, TypeOK, Tick, Times
  <1>2. TypeOK'
    BY <1>1 DEF IInv, TypeOK
  <1>3. \A a \in Attempts : AttemptSafe(a)'
    BY <1>1 DEF IInv, AttemptSafe, InFlight
  <1>4. SeparationOfDuties'
    BY <1>1, SeparationKept
  <1>5. QED
    BY <1>2, <1>3, <1>4 DEF IInv

\* A restart loses the attempts in flight, and with the memory repository every request, so that
\* no attempt is left that knows of a request that is gone.
LEMMA RestartSafe ==
  ASSUME IInv, Restart
  PROVE  IInv'
  <1>1. /\ stage' = [a \in Attempts |-> IF InFlight(a) THEN "lost" ELSE stage[a]]
        /\ requests' = requests \/ requests' = [r \in Requests |-> Absent]
        /\ UNCHANGED <<backend, input, existing, checked, stamp, answer, clock>>
    BY DEF Restart, InFlight
  <1>2. restarts' \in 0..MaxRestarts
    BY ApprovalAssumption DEF IInv, TypeOK, Restart
  <1>3. TypeOK'
    <2>1. stage' \in [Attempts -> {"idle", "checking", "writing", "answered", "lost"}]
      BY <1>1 DEF IInv, TypeOK
    <2>2. requests' \in [Requests -> ApprovalRequests \cup {Absent}]
      BY <1>1 DEF IInv, TypeOK
    <2>3. QED
      BY <1>1, <1>2, <2>1, <2>2 DEF IInv, TypeOK
  <1>4. \A a \in Attempts : AttemptSafe(a)'
    BY <1>1 DEF IInv, AttemptSafe, InFlight
  <1>5. SeparationOfDuties'
    <2>1. CASE requests' = requests
      BY <1>1, <2>1, SeparationKept
    <2>2. CASE requests' = [r \in Requests |-> Absent]
      BY <2>2 DEF SeparationOfDuties, Absent
    <2>3. QED
      BY <1>1, <2>1, <2>2
  <1>6. QED
    BY <1>3, <1>4, <1>5 DEF IInv

\* Every step keeps the inductive invariant.
LEMMA SafeNext == IInv /\ [Next]_vars => IInv'
  <1> SUFFICES ASSUME IInv, [Next]_vars PROVE IInv'
    OBVIOUS
  <1>1. CASE UNCHANGED vars
    BY <1>1 DEF vars, IInv, TypeOK, AttemptSafe, InFlight, SeparationOfDuties, Wrote
  <1>2. CASE Next
    BY <1>2, CreateSafe, SubmitSafe, SettleSafe, TickSafe, RestartSafe DEF Next
  <1>3. QED
    BY <1>1, <1>2

-----------------------------------------------------------------------------
(* Theorems                                                                *)

LEMMA AlwaysSafe == Spec => []IInv
  BY InitSafe, SafeNext, PTL DEF Spec

\* Every variable keeps its type.
THEOREM TypeCorrect == Spec => []TypeOK
  <1>1. IInv => TypeOK
    BY DEF IInv
  <1>2. QED
    BY <1>1, AlwaysSafe, PTL

\* Nobody approves a request of their own but a CEO, with a reason and a break-glass that was still
\* to expire when it was checked, and never signs before that check: for any number of attempts racing, over either repository, across restarts.
THEOREM DutiesStaySeparate == Spec => []SeparationOfDuties
  <1>1. IInv => SeparationOfDuties
    BY DEF IInv
  <1>2. QED
    BY <1>1, AlwaysSafe, PTL

\* A resolved request is replaced by nobody but an attempt that had read it while it was pending.
THEOREM OnlyRacersOverwrite == Spec => OverwrittenOnlyByRacers
  <1> DEFINE Raced(r) == \E a \in Attempts : /\ stage[a] \in {"checking", "writing"}
                                             /\ input[a].id = r
                                             /\ existing[a].status = "pending"
                                             /\ answer'[a] = "ok"
  <1>1. ASSUME IInv, [Next]_vars, NEW r \in Requests,
               requests[r].status \in Decisions, requests'[r] \notin {requests[r], Absent}
        PROVE  Raced(r)
    <2>1. ASSUME NEW a \in Attempts, InFlight(a), existing[a] # Absent,
                 existing[a].status = "pending", NEW at \in Times, updateStatus(a, at),
                 Answer(a, "ok")
          PROVE  Raced(r)
      <3>1. input[a].id = r
        BY <1>1, <2>1, Updated DEF IInv, AttemptSafe
      <3>2. answer'[a] = "ok"
        BY <1>1, <2>1 DEF IInv, TypeOK, Answer
      <3>3. QED
        BY <2>1, <3>1, <3>2 DEF InFlight
    <2>2. ASSUME NEW a \in Attempts, Settle(a) PROVE Raced(r)
      <3>1. ASSUME NEW at \in Times, Resolve(a, at) PROVE Raced(r)
        BY <2>1, <3>1, <1>1 DEF Resolve, Passes, InFlight, IInv, TypeOK
      <3>2. CASE RunUpdate(a)
        <4>1. /\ InFlight(a) /\ existing[a] # Absent /\ existing[a].status = "pending"
              /\ stamp[a] \in Times
          BY <1>1, <2>2, <3>2 DEF RunUpdate, InFlight, IInv, AttemptSafe, TypeOK
        <4>2. QED
          BY <2>1, <2>2, <3>2, <4>1 DEF RunUpdate
      <3>3. CASE Refuse(a) \/ \E at \in Times : StartUpdate(a, at)
        BY <1>1, <3>3 DEF Refuse, StartUpdate
      <3>4. QED
        BY <2>2, <3>1, <3>2, <3>3 DEF Settle
    <2>3. ASSUME NEW q \in Requests, NEW who \in Agents, NEW expiresAt \in Deadlines,
                 Create(q, who, expiresAt)
          PROVE  FALSE
      <3>1. q # r
        BY <1>1, <2>3 DEF Create, Absent, Decisions
      <3>2. QED
        BY <1>1, <2>3, <3>1 DEF Create, IInv, TypeOK
    <2>4. ASSUME Restart PROVE FALSE
      BY <1>1, <2>4 DEF Restart
    <2>5. CASE UNCHANGED requests
      BY <1>1, <2>5
    <2>6. QED
      BY <1>1, <2>2, <2>3, <2>4, <2>5 DEF Next, Submit, Tick, vars
  <1>2. IInv /\ [Next]_vars =>
          [\A r \in Requests :
             requests[r].status \in Decisions /\ requests'[r] \notin {requests[r], Absent} =>
               Raced(r)]_vars
    BY <1>1
  <1>3. QED
    BY <1>2, AlwaysSafe, PTL DEF Spec, OverwrittenOnlyByRacers
=============================================================================
