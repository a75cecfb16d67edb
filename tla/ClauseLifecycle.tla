-------------------------- MODULE ClauseLifecycle --------------------------
(***************************************************************************)
(* ClauseApprovalService over a clause repository                          *)
(* (src/src/knowledge/clauses).  Every operation awaits findById, judges   *)
(* the status it read, awaits update and then appends to the approval log, *)
(* so operations on a clause interleave; supersede awaits one read more.   *)
(***************************************************************************)
EXTENDS Sequences, Naturals

CONSTANTS
  Clauses,    \* ids of policy clauses
  ClauseCalls \* calls of the service

VARIABLES
  status,    \* ClauseStatus of each clause, "none" before it is created
  clauseLog, \* approvalLog: [clause, op] records in order of push
  job        \* where each call is

clauseVars == <<status, clauseLog, job>>

ClauseStatuses == {"draft", "approved", "active", "superseded"}
Operations == {"approve", "activate", "reject", "supersede"}

\* A call: the await it is at, the operation, its clause and the replacement of a supersede,
\* and the status findById returned.
IdleJob == [at |-> "idle"]
Jobs == [at : {"read", "replacement", "written", "returned", "thrown"}, op : Operations,
         clause : Clauses, by : Clauses, seen : ClauseStatuses \cup {"none"}]

\* Mutant of VALID_TRANSITIONS: a superseded clause can be activated again.
VALID_TRANSITIONS_reversible ==
  [draft |-> {"approved", "superseded"}, approved |-> {"active", "superseded"},
   active |-> {"superseded"}, superseded |-> {"active"}, none |-> {}]

VALID_TRANSITIONS ==
  [draft |-> {"approved", "superseded"}, approved |-> {"active", "superseded"},
   active |-> {"superseded"}, superseded |-> {}, none |-> {}]

Target(op) == CASE op = "approve" -> "approved" [] op = "activate" -> "active"
                [] op = "supersede" -> "superseded" [] OTHER -> "rejected"

\* What the operation requires of the status it read.
Allowed(op, seen) ==
  IF op = "reject" THEN seen = "draft" ELSE Target(op) \in VALID_TRANSITIONS[seen]

Goto(c, at) == job' = [job EXCEPT ![c].at = at]

-----------------------------------------------------------------------------

\* The repository's create; the lifecycle starts with drafts.
CreateClause(k) ==
  /\ status[k] = "none"
  /\ status' = [status EXCEPT ![k] = "draft"]
  /\ UNCHANGED <<clauseLog, job>>

\* Only supersede names a second clause.
BeginClauseOp(c, op, k, by) ==
  /\ job[c] = IdleJob
  /\ op = "supersede" \/ by = k
  /\ job' = [job EXCEPT ![c] = [at |-> "read", op |-> op, clause |-> k, by |-> by,
                                seen |-> status[k]]]
  /\ UNCHANGED <<status, clauseLog>>

Refuse(c) ==
  /\ job[c].at = "read" /\ ~Allowed(job[c].op, job[c].seen)
  /\ Goto(c, "thrown")
  /\ UNCHANGED <<status, clauseLog>>

\* A rejection is only logged: the clause keeps its status.
Reject(c) ==
  /\ job[c].at = "read" /\ job[c].op = "reject" /\ Allowed("reject", job[c].seen)
  /\ clauseLog' = Append(clauseLog, [clause |-> job[c].clause, op |-> "reject"])
  /\ Goto(c, "returned")
  /\ UNCHANGED status

\* approve and activate write the status at once; update overwrites whatever it is by now.
Write(c) ==
  /\ job[c].at = "read" /\ job[c].op \in {"approve", "activate"}
  /\ Allowed(job[c].op, job[c].seen)
  /\ status' = [status EXCEPT ![job[c].clause] = Target(job[c].op)]
  /\ Goto(c, "written")
  /\ UNCHANGED clauseLog

\* supersede reads the replacement first.
FindReplacement(c) ==
  /\ job[c].at = "read" /\ job[c].op = "supersede" /\ Allowed("supersede", job[c].seen)
  /\ Goto(c, IF status[job[c].by] = "none" THEN "thrown" ELSE "replacement")
  /\ UNCHANGED <<status, clauseLog>>

WriteSuperseded(c) ==
  /\ job[c].at = "replacement"
  /\ status' = [status EXCEPT ![job[c].clause] = "superseded"]
  /\ Goto(c, "written")
  /\ UNCHANGED clauseLog

Log(c) ==
  /\ job[c].at = "written"
  /\ clauseLog' = Append(clauseLog, [clause |-> job[c].clause, op |-> job[c].op])
  /\ Goto(c, "returned")
  /\ UNCHANGED status

ClauseInit ==
  /\ status = [k \in Clauses |-> "none"]
  /\ clauseLog = <<>>
  /\ job = [c \in ClauseCalls |-> IdleJob]

SettleClauseOp(c) ==
  Refuse(c) \/ Reject(c) \/ Write(c) \/ FindReplacement(c) \/ WriteSuperseded(c) \/ Log(c)

=============================================================================
