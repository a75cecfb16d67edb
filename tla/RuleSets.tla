------------------------------ MODULE RuleSets ------------------------------
(***************************************************************************)
(* The versioned rule-set repository over the in-memory base repository    *)
(* (src/src/knowledge/compiler/compiled-rule-set.repository.ts).  Records  *)
(* are never removed, so a set's id is its place in insertion order, the   *)
(* order findActive searches in.  Creation and activation await between    *)
(* what they read and what they write.                                     *)
(***************************************************************************)
EXTENDS Sequences, Naturals

CONSTANTS
  SetNames, \* names of rule sets
  SetCalls, \* calls of createRuleSet and activateRuleSet
  MaxSets   \* bound on the records created

ASSUME MaxSetsAssumption == MaxSets \in Nat

VARIABLES
  sets,      \* the records: [name, version, active, clauses, of], where "of" is the id of the
             \* record that was given rules: a history copy has that of what it copies (history)
  ruleStore, \* the Map from set ids to their rules
  setJob     \* where each call is

setVars == <<sets, ruleStore, setJob>>

IdleSetJob == [at |-> "idle"]

LargestOf(S) == CHOOSE n \in S : \A m \in S : n >= m

VersionsOf(name) == {sets[i].version : i \in {j \in DOMAIN sets : sets[j].name = name}}

nextVersion(name) == IF VersionsOf(name) = {} THEN 1 ELSE LargestOf(VersionsOf(name)) + 1

\* findActive: the id of the first active record, 0 if there is none.
Active == {i \in DOMAIN sets : sets[i].active}
findActive == IF Active = {} THEN 0 ELSE CHOOSE i \in Active : \A j \in Active : i <= j

\* The rules of set id are still to be stored by the call that created it.
Storing(id) == \E c \in SetCalls : setJob[c].at = "created" /\ setJob[c].id = id

getRulesForSet(id) == IF id \in DOMAIN ruleStore THEN ruleStore[id] ELSE <<>>

-----------------------------------------------------------------------------

\* createRuleSet up to its await of findByTenant.
BeginCreate(c, name, rules, clauses) ==
  /\ setJob[c] = IdleSetJob
  /\ setJob' = [setJob EXCEPT ![c] =
       [at |-> "versioned", name |-> name, version |-> nextVersion(name),
        rules |-> rules, clauses |-> clauses]]
  /\ UNCHANGED <<sets, ruleStore>>

\* The record exists from here on, without its rules.
CreateSet(c) ==
  /\ setJob[c].at = "versioned" /\ Len(sets) < MaxSets
  /\ sets' = Append(sets, [name |-> setJob[c].name, version |-> setJob[c].version,
                           active |-> FALSE, clauses |-> setJob[c].clauses,
                           of |-> Len(sets) + 1])
  /\ setJob' = [setJob EXCEPT ![c] = [at |-> "created", id |-> Len(sets'),
                                      rules |-> setJob[c].rules]]
  /\ UNCHANGED ruleStore

StoreRules(c) ==
  /\ setJob[c].at = "created"
  /\ ruleStore' = [i \in DOMAIN ruleStore \cup {setJob[c].id} |->
                     IF i = setJob[c].id THEN setJob[c].rules ELSE ruleStore[i]]
  /\ setJob' = [setJob EXCEPT ![c] = [at |-> "returned"]]
  /\ UNCHANGED sets

\* activateRuleSet of an existing record; the record of an unknown id is null, a return.
BeginActivate(c, id) ==
  /\ setJob[c] = IdleSetJob
  /\ setJob' = [setJob EXCEPT ![c] = [at |-> "found", id |-> id]]
  /\ UNCHANGED <<sets, ruleStore>>

\* The activation d has looked for the active set and not yet written the flags.
Switching(d) == setJob[d].at \in {"current", "copied"}

\* "raced" is history: this activation looked while another one was between its look and its write.
FindCurrent(c) ==
  /\ setJob[c].at = "found"
  /\ setJob' = [setJob EXCEPT ![c] = [at |-> "current", id |-> setJob[c].id, current |-> findActive,
                                      raced |-> \E d \in SetCalls : Switching(d)]]
  /\ UNCHANGED <<sets, ruleStore>>

Replaces(c) == setJob[c].current \notin {0, setJob[c].id}

\* The history copy of the set to deactivate: a record of its own, with no rules.
CopyCurrent(c) ==
  /\ setJob[c].at = "current" /\ Replaces(c) /\ Len(sets) < MaxSets
  /\ sets' = Append(sets, [sets[setJob[c].current] EXCEPT !.active = FALSE])
  /\ setJob' = [setJob EXCEPT ![c].at = "copied"]
  /\ UNCHANGED ruleStore

\* Mutant of SwitchTo: the set found active is copied to the history and left active.
SwitchTo_kept(id, current) ==
  sets' = [i \in DOMAIN sets |-> [sets[i] EXCEPT !.active = i = id \/ @]]

\* The two Object.assign calls on the records that were read.
SwitchTo(id, current) ==
  sets' = [i \in DOMAIN sets |-> [sets[i] EXCEPT !.active = i = id \/ (@ /\ i # current)]]

Activate(c) ==
  /\ \/ setJob[c].at = "copied"
     \/ setJob[c].at = "current" /\ ~Replaces(c)
  /\ SwitchTo(setJob[c].id, setJob[c].current)
  /\ setJob' = [setJob EXCEPT ![c] = [at |-> "activated", raced |-> setJob[c].raced]]
  /\ UNCHANGED ruleStore

SetInit ==
  /\ sets = <<>>
  /\ ruleStore = <<>>
  /\ setJob = [c \in SetCalls |-> IdleSetJob]

SettleSetOp(c) ==
  CreateSet(c) \/ StoreRules(c) \/ FindCurrent(c) \/ CopyCurrent(c) \/ Activate(c)
=============================================================================
