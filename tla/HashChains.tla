----------------------------- MODULE HashChains -----------------------------
(***************************************************************************)
(* Hash-linked chains (src/src/integrity): the evidence of a decision and  *)
(* the versions of a clause.  Each record carries the hash of the one      *)
(* before it and a hash of itself with that; verification walks the list.  *)
(* A hash is kept as what was hashed: no two things share one.  A record   *)
(* has fields besides that no hash covers, kept together as its label.     *)
(***************************************************************************)
EXTENDS Naturals, Sequences

CONSTANTS
  Contents,   \* what evidence holds: payload, operation type and time
  Texts,      \* texts of clauses
  Normalized  \* each text with its line ends and the blanks before them made alike

\* The unhashed fields of a record, as the service made them or with another value.
Labels == {"own", "other"}

Hash(x) == <<"sha256", x>>
\* The hash before the first record: null in the code, and no hash of anything.
NoHash == <<>>

\* A chain before its first record; the service keeps none that has had none.
Empty == [records |-> <<>>, headHash |-> NoHash]
Pushed(chain, record, hash) == [records |-> Append(chain.records, record), headHash |-> hash]

\* EvidenceChainService.
hashChainEntry(sequence, previousHash, content) == Hash(<<sequence, previousHash, content>>)

\* The label is the record's id, correlation id and tenant.
EvidenceRecord(sequence, previousHash, content) ==
  [sequence |-> sequence, content |-> content, previousHash |-> previousHash,
   auditHash |-> hashChainEntry(sequence, previousHash, content), label |-> "own"]

append(chain, content) ==
  LET record == EvidenceRecord(Len(chain.records), chain.headHash, content)
  IN Pushed(chain, record, record.auditHash)

\* verifyChain stops at the first record that is not linked or not hashed as it should be; the
\* head hash is not looked at.
Linked(records, i) ==
  records[i].previousHash = IF i = 1 THEN NoHash ELSE records[i - 1].auditHash
\* Mutant: a record is checked by itself, not with the one before it.
Intact_unlinked(records, i) ==
  records[i].auditHash =
    hashChainEntry(records[i].sequence, records[i].previousHash, records[i].content)
Intact(records, i) ==
  /\ Linked(records, i)
  /\ records[i].auditHash =
       hashChainEntry(records[i].sequence, records[i].previousHash, records[i].content)
verifyChain(records) == \A i \in DOMAIN records : Intact(records, i)

\* ClauseVersionChainService.
hashVersion(version, normalizedHash, previous) == Hash(<<version, normalizedHash, previous>>)

\* The label is the version's effective date, tenant and correlation id; the clause's id, which is
\* hashed, is that of the chain.
ClauseVersion(version, previous, text) ==
  [version |-> version, text |-> text, normalizedHash |-> Hash(Normalized[text]),
   previousVersionHash |-> previous,
   chainHash |-> hashVersion(version, Hash(Normalized[text]), previous), label |-> "own"]

appendVersion(chain, text) ==
  LET version == ClauseVersion(Len(chain.records) + 1, chain.headHash, text)
  IN Pushed(chain, version, version.chainHash)

IntactVersion(versions, i) ==
  /\ versions[i].previousVersionHash = IF i = 1 THEN NoHash ELSE versions[i - 1].chainHash
  /\ versions[i].normalizedHash = Hash(Normalized[versions[i].text])
  /\ versions[i].chainHash =
       hashVersion(versions[i].version, versions[i].normalizedHash, versions[i].previousVersionHash)
verifyVersions(versions) == \A i \in DOMAIN versions : IntactVersion(versions, i)

\* Records as they are but for the fields that no hash covers.
Hashed(records) == [i \in DOMAIN records |-> [records[i] EXCEPT !.label = "own"]]
ContentsOf(records) == [i \in DOMAIN records |-> records[i].content]
TextsOf(versions) == [i \in DOMAIN versions |-> Normalized[versions[i].text]]
=============================================================================
