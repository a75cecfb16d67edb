---------------------------- MODULE Observations ----------------------------
(***************************************************************************)
(* Records of the decision log and the report over those that observe mode *)
(* left in it (src/src/decisions/observations.ts).                         *)
(***************************************************************************)
EXTENDS Naturals, Sequences, FiniteSets

\* toolName, status, and output.observedDecision and output.enforcementMode where they are given.
RecordType(Tools) ==
  [ tool     : Tools,
    status   : {"generated", "pending", "blocked", "failed"},
    observed : SUBSET {"allow", "deny", "approve_required"},
    mode     : SUBSET {"observe", "enforce"} ]

\* findAll with a LIMIT and no ORDER BY: a scan of the table, from its oldest row.
findAll(log, limit) == SubSeq(log, 1, IF Len(log) < limit THEN Len(log) ELSE limit)

\* Mutant of parseObserveRecord: a would-be approval is no observation.
parseObserveRecord_denials(record) == record.mode = {"observe"} /\ record.observed = {"deny"}

\* A shadowed verdict that would not have been an allow.
parseObserveRecord(record) ==
  record.mode = {"observe"} /\ record.observed \in {{"deny"}, {"approve_required"}}

Keys(records) ==
  {<<records[i].tool, records[i].observed>> : i \in {j \in DOMAIN records : parseObserveRecord(records[j])}}

\* totalObservations, observeRecordsScanned and the count of each group.
aggregateObservations(records) ==
  [ total   |-> Cardinality({i \in DOMAIN records : parseObserveRecord(records[i])}),
    scanned |-> Cardinality({i \in DOMAIN records : records[i].mode = {"observe"}}),
    groups  |-> [k \in Keys(records) |->
                   Cardinality({i \in DOMAIN records : /\ parseObserveRecord(records[i])
                                                       /\ records[i].tool = k[1]
                                                       /\ records[i].observed = k[2]})] ]

\* Only a tool with a read-style name that is often denied is worth allowing.
recommendFromObservations(summary, readStyle, frequent) ==
  [k \in DOMAIN summary.groups |->
     IF k[1] \in readStyle /\ k[2] = {"deny"} /\ summary.groups[k] >= frequent
     THEN "consider_allowing" ELSE "keep_blocking"]
=============================================================================
