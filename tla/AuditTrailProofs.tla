-------------------------- MODULE AuditTrailProofs --------------------------
(***************************************************************************)
(* Theorems about AuditTrail, for any correlations, contents, texts, rules *)
(* and decisions and chains of any length: whatever was altered, lost,     *)
(* doubled or exchanged, a list that verifies is a beginning of what was   *)
(* appended, and a report is complete for the moment of its reads.         *)
(***************************************************************************)
EXTENDS AuditTrail, SequenceTheorems, FiniteSetTheorems, WellFoundedInduction, TLAPS

WithContent(r, x, l) ==
  [sequence |-> r.sequence, content |-> x, previousHash |-> r.previousHash, auditHash |-> r.auditHash,
   label |-> l]
\* What a stored list can hold after any alterations: a record that was appended, as it was but
\* for its content and its label.
StoredEvidence(history) == {WithContent(history[k], x, l) : k \in DOMAIN history, x \in Contents, l \in Labels}
\* The hash of the last record, and that before the k-th.
LastHash(history) == IF history = <<>> THEN NoHash ELSE history[Len(history)].auditHash
HashBefore(history, k) == IF k = 1 THEN NoHash ELSE history[k - 1].auditHash

\* What was appended is linked by hashes of which no two are the same.
EvidenceAppended(history) ==
  /\ history \in Seq(StoredEvidence(history))
  /\ \A k \in DOMAIN history : \E n \in Nat, x \in Contents :
       history[k] = EvidenceRecord(n, HashBefore(history, k), x)
  /\ \A j, k \in DOMAIN history : history[j].auditHash = history[k].auditHash => j = k
EvidenceKept(chain, history) ==
  /\ chain = [records |-> chain.records, headHash |-> LastHash(history)]
  /\ chain.records \in Seq(StoredEvidence(history))
EvidenceOK ==
  /\ chains = [c \in Correlations |-> chains[c]] /\ appended = [c \in Correlations |-> appended[c]]
  /\ \A c \in Correlations : EvidenceAppended(appended[c]) /\ EvidenceKept(chains[c], appended[c])

\* The same of the versions of clauses, of which the text can be altered.
WithText(r, t, l) ==
  [version |-> r.version, text |-> t, normalizedHash |-> r.normalizedHash,
   previousVersionHash |-> r.previousVersionHash, chainHash |-> r.chainHash, label |-> l]
StoredVersions(history) == {WithText(history[k], t, l) : k \in DOMAIN history, t \in Texts, l \in Labels}
LastChainHash(history) == IF history = <<>> THEN NoHash ELSE history[Len(history)].chainHash
ChainHashBefore(history, k) == IF k = 1 THEN NoHash ELSE history[k - 1].chainHash
VersionsWritten(history) ==
  /\ history \in Seq(StoredVersions(history))
  /\ \A k \in DOMAIN history : \E n \in Nat, t \in Texts :
       history[k] = ClauseVersion(n, ChainHashBefore(history, k), t)
  /\ \A j, k \in DOMAIN history : history[j].chainHash = history[k].chainHash => j = k
VersionsKept(chain, history) ==
  /\ chain = [records |-> chain.records, headHash |-> LastChainHash(history)]
  /\ chain.records \in Seq(StoredVersions(history))
VersionsOK ==
  /\ versions = [c \in Clauses |-> versions[c]] /\ written = [c \in Clauses |-> written[c]]
  /\ \A c \in Clauses : VersionsWritten(written[c]) /\ VersionsKept(versions[c], written[c])

\* What was logged, and what an audit has read and found so far.
LogOK == log \subseteq Decisions /\ IsFiniteSet(log) /\ Cardinality({d.id : d \in log}) = Cardinality(log)
ReportOK ==
  /\ report.kind \in Reading \cup {"audit"} => IsFiniteSet(report.decisions)
  /\ report.kind \in {"rules", "gaps", "audit"} => report.rules \in RuleSets
  /\ report.kind \in {"gaps", "audit"} => \E existing, valid \in SUBSET Correlations :
       report.gaps = detectGaps(report.decisions, report.rules, existing, valid, report.of.integrity)
  /\ report.kind = "audit" => \E existing, valid \in SUBSET Correlations :
       report.summary = summarized(report.decisions, report.rules, report.gaps, existing, valid,
                                   report.of.integrity)
ChainsOK == EvidenceOK /\ VersionsOK
IInv == ChainsOK /\ LogOK /\ rules \in RuleSets /\ ReportOK

-----------------------------------------------------------------------------
(* Lists *)

\* A non-empty set of numbers has a least one.
LEMMA Least ==
  ASSUME NEW S, S \subseteq Nat, S # {}
  PROVE  \E x \in S : \A y \in S : x <= y
<1>1. PICK x \in S : \A y \in S : ~(<<y, x>> \in OpToRel(<, Nat))
  BY NatLessThanWellFounded, WFMin
<1>2. ASSUME NEW y \in S PROVE x <= y
  <2>1. CASE y < x
    <3>1. <<y, x>> \in OpToRel(<, Nat)
      BY <2>1 DEF OpToRel
    <3> QED BY <1>1, <3>1
  <2>2. CASE ~(y < x)
    <3>1. x \in Nat /\ y \in Nat
      OBVIOUS
    <3> QED BY <2>2, <3>1
  <2> QED BY <2>1, <2>2
<1> QED BY <1>2

\* A list over a set is one over any larger set.
LEMMA Larger ==
  ASSUME NEW S, NEW T, S \subseteq T, NEW list \in Seq(S)
  PROVE  list \in Seq(T)
<1>1. /\ Len(list) \in Nat /\ DOMAIN list = 1..Len(list)
      /\ \A i \in 1..Len(list) : list[i] \in T
  BY ElementOfSeq
<1>2. list \in [1..Len(list) -> T]
  BY <1>1, SeqDef
<1> QED BY <1>1, <1>2, SeqDef

\* What Altered makes of a list over a set is over that set, if the set is closed under the change
\* of a field and of the label.
LEMMA AlteredKeeps ==
  ASSUME NEW S, NEW list \in Seq(S), NEW field, NEW values,
         \A r \in S : \A x \in values : [r EXCEPT ![field] = x] \in S,
         \A r \in S : \A l \in Labels : [r EXCEPT !.label = l] \in S,
         NEW new \in Altered(list, field, values)
  PROVE  new \in Seq(S)
<1>1. CASE \E i \in DOMAIN list : \E x \in values : new = [list EXCEPT ![i][field] = x]
  <2>1. PICK i \in DOMAIN list, x \in values : new = [list EXCEPT ![i] = [list[i] EXCEPT ![field] = x]]
    BY <1>1
  <2>2. list[i] \in S
    OBVIOUS
  <2>3. [list[i] EXCEPT ![field] = x] \in S
    BY <2>2
  <2> QED BY <2>1, <2>3
<1>0. CASE \E i \in DOMAIN list : \E l \in Labels : new = [list EXCEPT ![i].label = l]
  <2>1. PICK i \in DOMAIN list, l \in Labels : new = [list EXCEPT ![i] = [list[i] EXCEPT !.label = l]]
    BY <1>0
  <2>2. list[i] \in S
    OBVIOUS
  <2>3. [list[i] EXCEPT !.label = l] \in S
    BY <2>2
  <2> QED BY <2>1, <2>3
<1>2. CASE \E i \in DOMAIN list : new = RemoveAt(list, i)
  BY <1>2 DEF RemoveAt
<1>3. CASE \E i \in DOMAIN list : new = InsertAt(list, i, list[i])
  <2>0. DOMAIN list = 1..Len(list)
    OBVIOUS
  <2>1. PICK i \in 1..Len(list) : new = SubSeq(list, 1, i - 1) \o <<list[i]>> \o SubSeq(list, i, Len(list))
    BY <1>3, <2>0 DEF InsertAt
  <2>2. SubSeq(list, 1, i - 1) \in Seq(S) /\ <<list[i]>> \in Seq(S) /\ SubSeq(list, i, Len(list)) \in Seq(S)
    OBVIOUS
  <2> QED BY <2>1, <2>2
<1>4. CASE \E i \in 1..(Len(list) - 1) : new = [list EXCEPT ![i] = list[i + 1], ![i + 1] = list[i]]
  <2>1. PICK i \in 1..(Len(list) - 1) : new = [list EXCEPT ![i] = list[i + 1], ![i + 1] = list[i]]
    BY <1>4
  <2>2. list[i] \in S /\ list[i + 1] \in S
    OBVIOUS
  <2> QED BY <2>1, <2>2
<1> QED BY <1>0, <1>1, <1>2, <1>3, <1>4 DEF Altered

\* m records that are those at some places of a chain of n different hashes, and each of which is
\* linked to the one before it in the list.
LinkedAt(n, m, hash, at) ==
  /\ at \in [1..m -> 1..n]
  /\ \A k \in 1..n : hash[k] # NoHash
  /\ \A j, k \in 1..n : hash[j] = hash[k] => j = k
  /\ \A i \in 1..m : (IF at[i] = 1 THEN NoHash ELSE hash[at[i] - 1]) =
                     (IF i = 1 THEN NoHash ELSE hash[at[i - 1]])

\* Such records stand at their own places.
LEMMA InPlace ==
  ASSUME NEW n \in Nat, NEW m \in Nat, NEW hash, NEW at, LinkedAt(n, m, hash, at)
  PROVE  m <= n /\ \A i \in 1..m : at[i] = i
<1> USE DEF LinkedAt
<1>1. \A i \in 1..m : at[i] = i
  <2> DEFINE astray == {i \in 1..m : at[i] # i}
  <2> SUFFICES ASSUME astray # {} PROVE FALSE
    OBVIOUS
  <2>0. astray \subseteq Nat
    OBVIOUS
  <2>1. PICK i \in astray : \A j \in astray : i <= j
    <3> HIDE DEF astray
    <3> QED BY <2>0, Least
  <2>2. CASE i = 1
    <3>1. at[1] \in 1..n /\ at[1] # 1 /\ hash[at[1] - 1] = NoHash
      BY <2>2
    <3> QED BY <3>1
  <2>3. CASE i # 1
    <3>1. i - 1 \in 1..m /\ at[i - 1] = i - 1 /\ i - 1 \in 1..n /\ at[i] \in 1..n
      BY <2>1, <2>3
    <3>2. (IF at[i] = 1 THEN NoHash ELSE hash[at[i] - 1]) = hash[i - 1]
      BY <2>3, <3>1
    <3>3. at[i] # 1 /\ hash[at[i] - 1] = hash[i - 1]
      BY <3>1, <3>2
    <3>4. at[i] - 1 \in 1..n
      BY <3>1, <3>3
    <3>5. at[i] - 1 = i - 1
      BY <3>1, <3>3, <3>4
    <3> QED BY <3>1, <3>5
  <2> QED BY <2>2, <2>3
<1>2. m = 0 \/ m = at[m]
  BY <1>1
<1> QED BY <1>1, <1>2

-----------------------------------------------------------------------------
(* Evidence *)

\* A record that was appended is stored as it was.
LEMMA EvidenceStored ==
  ASSUME NEW history, NEW k \in DOMAIN history, NEW s, NEW p, NEW x \in Contents,
         history[k] = EvidenceRecord(s, p, x)
  PROVE  history[k] \in StoredEvidence(history)
<1>1. "own" \in Labels
  BY DEF Labels
<1>2. WithContent(EvidenceRecord(s, p, x), x, "own") = EvidenceRecord(s, p, x)
  BY DEF EvidenceRecord, WithContent
<1>3. history[k] = WithContent(history[k], x, "own")
  BY <1>2
<1> QED BY <1>1, <1>3 DEF StoredEvidence

\* Evidence that verifies is, but for what no hash covers, a beginning of what was appended.
LEMMA VerifiedEvidence ==
  ASSUME NEW history, EvidenceAppended(history), NEW records \in Seq(StoredEvidence(history)),
         verifyChain(records)
  PROVE  IsPrefix(Hashed(records), history)
<1> DEFINE n == Len(history)
           m == Len(records)
           hash == [k \in 1..n |-> history[k].auditHash]
           Of(i, k) == /\ records[i].sequence = history[k].sequence
                       /\ records[i].previousHash = history[k].previousHash
                       /\ records[i].auditHash = history[k].auditHash
                       /\ \E x \in Contents, l \in Labels :
                            records[i] = WithContent(history[k], x, l)
           at == [i \in 1..m |-> CHOOSE k \in 1..n : Of(i, k)]
<1>1. n \in Nat /\ m \in Nat /\ DOMAIN history = 1..n /\ DOMAIN records = 1..m
  BY DEF EvidenceAppended
<1>2. \A k \in 1..n : \E s \in Nat, x \in Contents : history[k] = EvidenceRecord(s, HashBefore(history, k), x)
  BY <1>1 DEF EvidenceAppended
<1>3. ASSUME NEW i \in 1..m
      PROVE  \E k \in 1..n : Of(i, k)
  <2>1. records[i] \in StoredEvidence(history)
    BY <1>1
  <2>2. \E k \in 1..n : \E y \in Contents, l \in Labels :
          records[i] = WithContent(history[k], y, l)
    BY <1>1, <2>1 DEF StoredEvidence
  <2>5. PICK k \in 1..n : \E y \in Contents, l \in Labels :
          records[i] = WithContent(history[k], y, l)
    BY <2>2
  <2>3. PICK s \in Nat, x \in Contents : history[k] = EvidenceRecord(s, HashBefore(history, k), x)
    BY <1>2
  <2>4. Of(i, k)
    BY <2>5, <2>3 DEF EvidenceRecord, WithContent
  <2> QED BY <2>4
<1>4. \A i \in 1..m : at[i] \in 1..n /\ Of(i, at[i])
  BY <1>3
<1>5. \A k \in 1..n : hash[k] # NoHash
  <2> SUFFICES ASSUME NEW k \in 1..n PROVE history[k].auditHash # NoHash
    OBVIOUS
  <2>1. PICK s \in Nat, x \in Contents : history[k] = EvidenceRecord(s, HashBefore(history, k), x)
    BY <1>2
  <2> QED BY <2>1 DEF EvidenceRecord, WithContent, hashChainEntry, Hash, NoHash
<1>6. \A j, k \in 1..n : hash[j] = hash[k] => j = k
  BY <1>1 DEF EvidenceAppended
<1>7. \A k \in 1..n : history[k].previousHash = IF k = 1 THEN NoHash ELSE hash[k - 1]
  <2> SUFFICES ASSUME NEW k \in 1..n
               PROVE  history[k].previousHash = IF k = 1 THEN NoHash ELSE hash[k - 1]
    OBVIOUS
  <2>1. PICK s \in Nat, x \in Contents : history[k] = EvidenceRecord(s, HashBefore(history, k), x)
    BY <1>2
  <2>2. history[k].previousHash = HashBefore(history, k)
    BY <2>1 DEF EvidenceRecord, WithContent
  <2>3. k # 1 => k - 1 \in 1..n
    BY <1>1
  <2> QED BY <2>2, <2>3 DEF HashBefore
<1>8. \A i \in 1..m : records[i].previousHash = IF i = 1 THEN NoHash ELSE records[i - 1].auditHash
  BY <1>1 DEF verifyChain, Intact, Linked
<1>9. \A i \in 1..m : (IF at[i] = 1 THEN NoHash ELSE hash[at[i] - 1]) =
                      (IF i = 1 THEN NoHash ELSE hash[at[i - 1]])
  <2> SUFFICES ASSUME NEW i \in 1..m
               PROVE  (IF at[i] = 1 THEN NoHash ELSE hash[at[i] - 1]) =
                      (IF i = 1 THEN NoHash ELSE hash[at[i - 1]])
    OBVIOUS
  <2>1. records[i].previousHash = IF at[i] = 1 THEN NoHash ELSE hash[at[i] - 1]
    BY <1>4, <1>7
  <2>2. i # 1 => i - 1 \in 1..m
    BY <1>1
  <2>3. i # 1 => records[i - 1].auditHash = hash[at[i - 1]]
    BY <1>4, <2>2
  <2> QED BY <1>8, <2>1, <2>3
<1>10. m <= n /\ \A i \in 1..m : at[i] = i
  <2>1. at \in [1..m -> 1..n]
    BY <1>4
  <2>2. LinkedAt(n, m, hash, at)
    <3> HIDE DEF hash, at, n, m
    <3> QED BY <1>5, <1>6, <1>9, <2>1 DEF LinkedAt
  <2> HIDE DEF hash, at, n, m
  <2> QED BY <1>1, <2>2, InPlace
<1>11. \A i \in 1..m : [records[i] EXCEPT !.label = "own"] = history[i]
  <2> SUFFICES ASSUME NEW i \in 1..m PROVE [records[i] EXCEPT !.label = "own"] = history[i]
    OBVIOUS
  <2>0. i \in 1..n
    BY <1>1, <1>10
  <2>1. PICK s \in Nat, x \in Contents : history[i] = EvidenceRecord(s, HashBefore(history, i), x)
    BY <1>2, <2>0
  <2>2. Of(i, i)
    <3> HIDE DEF Of, at, n, m
    <3> QED BY <1>4, <1>10
  <2>3. \E y \in Contents : \E l \in Labels : records[i] = WithContent(history[i], y, l)
    BY <2>2
  <2>8. PICK y \in Contents : \E l \in Labels : records[i] = WithContent(history[i], y, l)
    BY <2>3
  <2>9. PICK l \in Labels : records[i] = WithContent(history[i], y, l)
    BY <2>8
  <2>4. records[i] = WithContent(EvidenceRecord(s, HashBefore(history, i), x), y, l)
    BY <2>1, <2>9
  <2>5. records[i].auditHash = hashChainEntry(s, HashBefore(history, i), y)
    <3>1. records[i].auditHash =
            hashChainEntry(records[i].sequence, records[i].previousHash, records[i].content)
      BY <1>1 DEF verifyChain, Intact
    <3>2. /\ records[i].sequence = s /\ records[i].previousHash = HashBefore(history, i)
          /\ records[i].content = y
      BY <2>4 DEF EvidenceRecord, WithContent
    <3> QED BY <3>1, <3>2
  <2>6. records[i].auditHash = hashChainEntry(s, HashBefore(history, i), x)
    BY <2>4 DEF EvidenceRecord, WithContent
  <2>7. x = y
    BY <2>5, <2>6 DEF hashChainEntry, Hash
  <2> QED BY <2>1, <2>4, <2>7 DEF EvidenceRecord, WithContent
<1> DEFINE hashed == Hashed(records)
<1>12. hashed = [i \in 1..m |-> history[i]]
  BY <1>1, <1>11 DEF Hashed
<1>13. Len(hashed) = m /\ SubSeq(hashed, 1, m) = SubSeq(history, 1, m)
  <2> HIDE DEF hashed, n, m
  <2>1. m <= n
    BY <1>10
  <2>2. Len(hashed) = m
    BY <1>1, <1>12
  <2>3. SubSeq(hashed, 1, m) = [i \in 1..m |-> history[i]]
    BY <1>1, <1>12
  <2>4. SubSeq(history, 1, m) = [i \in 1..m |-> history[i]]
    BY <1>1, <2>1
  <2> QED BY <2>2, <2>3, <2>4
<1> HIDE DEF hashed
<1>14. IsPrefix(hashed, history)
  BY <1>10, <1>13 DEF IsPrefix
<1> QED BY <1>14 DEF hashed

\* Appending links a record to the one before it, by a hash that no record had.
LEMMA EvidenceGrows ==
  ASSUME NEW chain, NEW history, EvidenceAppended(history), EvidenceKept(chain, history),
         NEW x \in Contents, NEW longer, longer = Append(history, Last(append(chain, x).records))
  PROVE  EvidenceAppended(longer) /\ EvidenceKept(append(chain, x), longer)
<1> DEFINE n == Len(history)
           s == Len(chain.records)
           new == EvidenceRecord(s, LastHash(history), x)
           list == Append(chain.records, new)
<1>1. /\ n \in Nat /\ s \in Nat /\ DOMAIN history = 1..n
      /\ chain.headHash = LastHash(history) /\ chain.records \in Seq(StoredEvidence(history))
      /\ history \in Seq(StoredEvidence(history))
  BY DEF EvidenceAppended, EvidenceKept
<1>2. append(chain, x) = [records |-> list, headHash |-> new.auditHash]
  BY <1>1 DEF append, Pushed
<1> HIDE DEF new
<1>3. Last(append(chain, x).records) = new
  BY <1>1, <1>2 DEF Last
<1>4. longer = Append(history, new)
  BY <1>3
<1>5. /\ Len(longer) = n + 1 /\ DOMAIN longer = 1..(n + 1) /\ longer[n + 1] = new /\ longer # <<>>
      /\ \A k \in 1..n : longer[k] = history[k]
  BY <1>1, <1>4
<1>6. \A k \in 1..(n + 1) : \E r \in Nat, y \in Contents :
        longer[k] = EvidenceRecord(r, HashBefore(longer, k), y)
  <2> SUFFICES ASSUME NEW k \in 1..(n + 1)
               PROVE  \E r \in Nat, y \in Contents :
                        longer[k] = EvidenceRecord(r, HashBefore(longer, k), y)
    OBVIOUS
  <2>1. CASE k \in 1..n
    <3>1. k # 1 => k - 1 \in 1..n
      BY <1>1, <2>1
    <3>2. HashBefore(longer, k) = HashBefore(history, k)
      BY <1>5, <3>1 DEF HashBefore
    <3> QED BY <1>1, <1>5, <2>1, <3>2 DEF EvidenceAppended
  <2>2. CASE k = n + 1
    <3>1. HashBefore(longer, k) = LastHash(history)
      <4>1. CASE n = 0
        BY <1>1, <2>2, <4>1 DEF HashBefore, LastHash
      <4>2. CASE n # 0
        <5>1. n \in 1..n /\ k # 1 /\ k - 1 = n /\ history # <<>>
          BY <1>1, <2>2, <4>2
        <5> QED BY <1>5, <5>1 DEF HashBefore, LastHash
      <4> QED BY <4>1, <4>2
    <3>2. longer[k] = EvidenceRecord(s, HashBefore(longer, k), x)
      BY <1>5, <2>2, <3>1 DEF new
    <3> QED BY <1>1, <3>2
  <2> QED BY <1>1, <2>1, <2>2
<1>7. \A k \in 1..n : history[k].auditHash # new.auditHash
  <2> SUFFICES ASSUME NEW k \in 1..n, history[k].auditHash = new.auditHash PROVE FALSE
    OBVIOUS
  <2>1. PICK r \in Nat, y \in Contents : history[k] = EvidenceRecord(r, HashBefore(history, k), y)
    BY <1>1 DEF EvidenceAppended
  <2>2. HashBefore(history, k) = LastHash(history)
    BY <2>1 DEF new, EvidenceRecord, hashChainEntry, Hash
  <2>3. n \in 1..n /\ history # <<>>
    BY <1>1
  <2>4. PICK q \in Nat, z \in Contents : history[n] = EvidenceRecord(q, HashBefore(history, n), z)
    BY <1>1, <2>3 DEF EvidenceAppended
  <2>5. LastHash(history) = history[n].auditHash /\ history[n].auditHash # NoHash
    BY <2>3, <2>4 DEF LastHash, EvidenceRecord, hashChainEntry, Hash, NoHash
  <2>6. k # 1 /\ history[k - 1].auditHash = history[n].auditHash
    BY <2>2, <2>5 DEF HashBefore
  <2>7. k - 1 \in 1..n /\ k - 1 # n
    BY <1>1, <2>6
  <2> QED BY <1>1, <2>3, <2>6, <2>7 DEF EvidenceAppended
<1>8. \A j, k \in 1..(n + 1) : longer[j].auditHash = longer[k].auditHash => j = k
  <2>1. \A j, k \in 1..n : longer[j].auditHash = longer[k].auditHash => j = k
    BY <1>1, <1>5 DEF EvidenceAppended
  <2>2. \A k \in 1..n : longer[k].auditHash # longer[n + 1].auditHash
    BY <1>5, <1>7
  <2> QED BY <1>1, <2>1, <2>2
<1>9. StoredEvidence(history) \subseteq StoredEvidence(longer)
  <2>1. \A k \in DOMAIN history : k \in DOMAIN longer /\ longer[k] = history[k]
    BY <1>1, <1>5
  <2> QED BY <2>1 DEF StoredEvidence
<1>10. new \in StoredEvidence(longer)
  <2>1. n + 1 \in DOMAIN longer /\ longer[n + 1] = EvidenceRecord(s, LastHash(history), x)
    BY <1>1, <1>5 DEF new
  <2> QED BY <1>5, <2>1, EvidenceStored
<1>11. longer \in Seq(StoredEvidence(longer)) /\ list \in Seq(StoredEvidence(longer))
  <2>1. history \in Seq(StoredEvidence(longer)) /\ chain.records \in Seq(StoredEvidence(longer))
    BY <1>1, <1>9, Larger
  <2> QED BY <1>4, <1>10, <2>1
<1>12. LastHash(longer) = new.auditHash
  BY <1>5 DEF LastHash
<1>13. EvidenceAppended(longer)
  BY <1>5, <1>6, <1>8, <1>11 DEF EvidenceAppended
<1> DEFINE grown == [records |-> list, headHash |-> new.auditHash]
<1>14. EvidenceKept(grown, longer)
  BY <1>11, <1>12 DEF EvidenceKept
<1>15. append(chain, x) = grown
  BY <1>2
<1> HIDE DEF grown
<1> QED BY <1>13, <1>14, <1>15

\* A chain of which the list was altered is kept as before; and a change to a record's content or
\* label stays in what can be stored.
LEMMA EvidenceAltered ==
  ASSUME NEW chain, NEW history, EvidenceAppended(history), EvidenceKept(chain, history),
         NEW list \in Altered(chain.records, "content", Contents)
  PROVE  EvidenceKept([chain EXCEPT !.records = list], history)
<1>1. \A r \in StoredEvidence(history), x \in Contents : [r EXCEPT !["content"] = x] \in StoredEvidence(history)
  <2> SUFFICES ASSUME NEW r \in StoredEvidence(history), NEW x \in Contents
               PROVE  [r EXCEPT !["content"] = x] \in StoredEvidence(history)
    OBVIOUS
  <2>1. PICK k \in DOMAIN history : \E y \in Contents, l \in Labels :
          r = WithContent(history[k], y, l)
    BY DEF StoredEvidence
  <2>2. PICK n \in Nat, z \in Contents : history[k] = EvidenceRecord(n, HashBefore(history, k), z)
    BY DEF EvidenceAppended
  <2>3. PICK l \in Labels : [r EXCEPT !["content"] = x] = WithContent(history[k], x, l)
    BY <2>1, <2>2 DEF EvidenceRecord, WithContent
  <2> QED BY <2>3 DEF StoredEvidence
<1>4. \A r \in StoredEvidence(history), l \in Labels : [r EXCEPT !.label = l] \in StoredEvidence(history)
  <2> SUFFICES ASSUME NEW r \in StoredEvidence(history), NEW l \in Labels
               PROVE  [r EXCEPT !.label = l] \in StoredEvidence(history)
    OBVIOUS
  <2>1. PICK k \in DOMAIN history : \E y \in Contents, o \in Labels :
          r = WithContent(history[k], y, o)
    BY DEF StoredEvidence
  <2>2. PICK n \in Nat, z \in Contents : history[k] = EvidenceRecord(n, HashBefore(history, k), z)
    BY DEF EvidenceAppended
  <2>3. PICK y \in Contents : [r EXCEPT !.label = l] = WithContent(history[k], y, l)
    BY <2>1, <2>2 DEF EvidenceRecord, WithContent
  <2> QED BY <2>3 DEF StoredEvidence
<1>2. chain.records \in Seq(StoredEvidence(history))
  BY DEF EvidenceKept
<1>3. list \in Seq(StoredEvidence(history))
  BY <1>1, <1>2, <1>4, AlteredKeeps
<1> QED BY <1>3 DEF EvidenceKept

\* Nothing appended, nothing kept.
LEMMA EvidenceStarts ==
  EvidenceAppended(<<>>) /\ EvidenceKept(Empty, <<>>)
<1>1. <<>> \in Seq(StoredEvidence(<<>>)) /\ DOMAIN <<>> = {}
  OBVIOUS
<1>2. EvidenceAppended(<<>>)
  BY <1>1 DEF EvidenceAppended
<1>3. Empty.records = <<>> /\ LastHash(<<>>) = NoHash
  BY DEF Empty, LastHash
<1>4. Empty = [records |-> Empty.records, headHash |-> LastHash(<<>>)]
  BY <1>3 DEF Empty
<1> QED BY <1>1, <1>2, <1>3, <1>4 DEF EvidenceKept

-----------------------------------------------------------------------------
(* Versions *)

\* Versions that verify are, but for what the normalization forgives, a beginning of what was
\* written.
LEMMA VerifiedVersions ==
  ASSUME NEW history, VersionsWritten(history), NEW records \in Seq(StoredVersions(history)),
         verifyVersions(records)
  PROVE  IsPrefix(TextsOf(records), TextsOf(history))
<1> DEFINE n == Len(history)
           m == Len(records)
           hash == [k \in 1..n |-> history[k].chainHash]
           Of(i, k) == /\ records[i].normalizedHash = history[k].normalizedHash
                       /\ records[i].previousVersionHash = history[k].previousVersionHash
                       /\ records[i].chainHash = history[k].chainHash
           at == [i \in 1..m |-> CHOOSE k \in 1..n : Of(i, k)]
<1>1. n \in Nat /\ m \in Nat /\ DOMAIN history = 1..n /\ DOMAIN records = 1..m
  BY DEF VersionsWritten
<1>2. \A k \in 1..n : \E v \in Nat, t \in Texts : history[k] = ClauseVersion(v, ChainHashBefore(history, k), t)
  BY <1>1 DEF VersionsWritten
<1>3. ASSUME NEW i \in 1..m
      PROVE  \E k \in 1..n : Of(i, k)
  <2>1. records[i] \in StoredVersions(history)
    BY <1>1
  <2>2. PICK k \in 1..n : \E u \in Texts, l \in Labels :
          records[i] = WithText(history[k], u, l)
    BY <1>1, <2>1 DEF StoredVersions
  <2>3. PICK v \in Nat, t \in Texts : history[k] = ClauseVersion(v, ChainHashBefore(history, k), t)
    BY <1>2
  <2>4. Of(i, k)
    BY <2>2, <2>3 DEF ClauseVersion, WithText
  <2> QED BY <2>4
<1>4. \A i \in 1..m : at[i] \in 1..n /\ Of(i, at[i])
  BY <1>3
<1>5. \A k \in 1..n :
        /\ history[k].chainHash # NoHash
        /\ history[k].previousVersionHash = ChainHashBefore(history, k)
        /\ history[k].normalizedHash = Hash(Normalized[history[k].text])
  <2> SUFFICES ASSUME NEW k \in 1..n
               PROVE  /\ history[k].chainHash # NoHash
                      /\ history[k].previousVersionHash = ChainHashBefore(history, k)
                      /\ history[k].normalizedHash = Hash(Normalized[history[k].text])
    OBVIOUS
  <2>1. PICK v \in Nat, t \in Texts : history[k] = ClauseVersion(v, ChainHashBefore(history, k), t)
    BY <1>2
  <2>2. history[k].chainHash # NoHash
    BY <2>1 DEF ClauseVersion, WithText, hashVersion, Hash, NoHash
  <2> QED BY <2>1, <2>2 DEF ClauseVersion, WithText
<1>6. \A j, k \in 1..n : hash[j] = hash[k] => j = k
  BY <1>1 DEF VersionsWritten
<1>7. \A k \in 1..n : history[k].previousVersionHash = IF k = 1 THEN NoHash ELSE hash[k - 1]
  <2> SUFFICES ASSUME NEW k \in 1..n
               PROVE  history[k].previousVersionHash = IF k = 1 THEN NoHash ELSE hash[k - 1]
    OBVIOUS
  <2>1. k # 1 => k - 1 \in 1..n
    BY <1>1
  <2> QED BY <1>5, <2>1 DEF ChainHashBefore
<1>8. \A i \in 1..m :
        /\ records[i].previousVersionHash = IF i = 1 THEN NoHash ELSE records[i - 1].chainHash
        /\ records[i].normalizedHash = Hash(Normalized[records[i].text])
  BY <1>1 DEF verifyVersions, IntactVersion
<1>9. \A i \in 1..m : (IF at[i] = 1 THEN NoHash ELSE hash[at[i] - 1]) =
                      (IF i = 1 THEN NoHash ELSE hash[at[i - 1]])
  <2> SUFFICES ASSUME NEW i \in 1..m
               PROVE  (IF at[i] = 1 THEN NoHash ELSE hash[at[i] - 1]) =
                      (IF i = 1 THEN NoHash ELSE hash[at[i - 1]])
    OBVIOUS
  <2>1. records[i].previousVersionHash = IF at[i] = 1 THEN NoHash ELSE hash[at[i] - 1]
    BY <1>4, <1>7
  <2>2. i # 1 => i - 1 \in 1..m
    BY <1>1
  <2>3. i # 1 => records[i - 1].chainHash = hash[at[i - 1]]
    BY <1>4, <2>2
  <2> QED BY <1>8, <2>1, <2>3
<1>10. m <= n /\ \A i \in 1..m : at[i] = i
  <2>1. at \in [1..m -> 1..n] /\ \A k \in 1..n : hash[k] # NoHash
    BY <1>4, <1>5
  <2>2. LinkedAt(n, m, hash, at)
    <3> HIDE DEF hash, at, n, m
    <3> QED BY <1>6, <1>9, <2>1 DEF LinkedAt
  <2> HIDE DEF hash, at, n, m
  <2> QED BY <1>1, <2>2, InPlace
<1>11. \A i \in 1..m : i \in 1..n /\ Normalized[records[i].text] = Normalized[history[i].text]
  <2> SUFFICES ASSUME NEW i \in 1..m
               PROVE  i \in 1..n /\ Normalized[records[i].text] = Normalized[history[i].text]
    OBVIOUS
  <2>1. i \in 1..n
    BY <1>1, <1>10
  <2>2. Of(i, i)
    <3> HIDE DEF Of, at, n, m
    <3> QED BY <1>4, <1>10
  <2>3. Hash(Normalized[records[i].text]) = Hash(Normalized[history[i].text])
    BY <1>5, <1>8, <2>1, <2>2
  <2> QED BY <2>1, <2>3 DEF Hash
<1> DEFINE short == TextsOf(records)
           long == TextsOf(history)
<1>12. /\ short = [i \in 1..m |-> Normalized[records[i].text]]
       /\ long = [i \in 1..n |-> Normalized[history[i].text]]
  BY <1>1 DEF TextsOf
<1>13. Len(short) = m /\ Len(long) = n
  BY <1>1, <1>12
<1>14. SubSeq(short, 1, m) = SubSeq(long, 1, m)
  BY <1>1, <1>10, <1>11, <1>12
<1> HIDE DEF short, long
<1>15. IsPrefix(short, long)
  BY <1>10, <1>13, <1>14 DEF IsPrefix
<1> QED BY <1>15 DEF short, long

\* A version that was written is stored as it was.
LEMMA VersionStored ==
  ASSUME NEW history, NEW k \in DOMAIN history, NEW v, NEW p, NEW t \in Texts,
         history[k] = ClauseVersion(v, p, t)
  PROVE  history[k] \in StoredVersions(history)
<1>1. "own" \in Labels
  BY DEF Labels
<1>2. WithText(ClauseVersion(v, p, t), t, "own") = ClauseVersion(v, p, t)
  BY DEF ClauseVersion, WithText
<1>3. history[k] = WithText(history[k], t, "own")
  BY <1>2
<1> QED BY <1>1, <1>3 DEF StoredVersions

\* Appending links a version to the one before it, by a hash that no version had.
LEMMA VersionsGrow ==
  ASSUME NEW chain, NEW history, VersionsWritten(history), VersionsKept(chain, history),
         NEW x \in Texts, NEW longer, longer = Append(history, Last(appendVersion(chain, x).records))
  PROVE  VersionsWritten(longer) /\ VersionsKept(appendVersion(chain, x), longer)
<1> DEFINE n == Len(history)
           s == Len(chain.records) + 1
           new == ClauseVersion(s, LastChainHash(history), x)
           list == Append(chain.records, new)
<1>1. /\ n \in Nat /\ s \in Nat /\ DOMAIN history = 1..n
      /\ chain.headHash = LastChainHash(history) /\ chain.records \in Seq(StoredVersions(history))
      /\ history \in Seq(StoredVersions(history))
  BY DEF VersionsWritten, VersionsKept
<1>2. appendVersion(chain, x) = [records |-> list, headHash |-> new.chainHash]
  BY <1>1 DEF appendVersion, Pushed
<1> HIDE DEF new
<1>3. Last(appendVersion(chain, x).records) = new
  BY <1>1, <1>2 DEF Last
<1>4. longer = Append(history, new)
  BY <1>3
<1>5. /\ Len(longer) = n + 1 /\ DOMAIN longer = 1..(n + 1) /\ longer[n + 1] = new /\ longer # <<>>
      /\ \A k \in 1..n : longer[k] = history[k]
  BY <1>1, <1>4
<1>6. \A k \in 1..(n + 1) : \E r \in Nat, y \in Texts :
        longer[k] = ClauseVersion(r, ChainHashBefore(longer, k), y)
  <2> SUFFICES ASSUME NEW k \in 1..(n + 1)
               PROVE  \E r \in Nat, y \in Texts :
                        longer[k] = ClauseVersion(r, ChainHashBefore(longer, k), y)
    OBVIOUS
  <2>1. CASE k \in 1..n
    <3>1. k # 1 => k - 1 \in 1..n
      BY <1>1, <2>1
    <3>2. ChainHashBefore(longer, k) = ChainHashBefore(history, k)
      BY <1>5, <3>1 DEF ChainHashBefore
    <3> QED BY <1>1, <1>5, <2>1, <3>2 DEF VersionsWritten
  <2>2. CASE k = n + 1
    <3>1. ChainHashBefore(longer, k) = LastChainHash(history)
      <4>1. CASE n = 0
        BY <1>1, <2>2, <4>1 DEF ChainHashBefore, LastChainHash
      <4>2. CASE n # 0
        <5>1. n \in 1..n /\ k # 1 /\ k - 1 = n /\ history # <<>>
          BY <1>1, <2>2, <4>2
        <5> QED BY <1>5, <5>1 DEF ChainHashBefore, LastChainHash
      <4> QED BY <4>1, <4>2
    <3>2. longer[k] = ClauseVersion(s, ChainHashBefore(longer, k), x)
      BY <1>5, <2>2, <3>1 DEF new
    <3> QED BY <1>1, <3>2
  <2> QED BY <1>1, <2>1, <2>2
<1>7. \A k \in 1..n : history[k].chainHash # new.chainHash
  <2> SUFFICES ASSUME NEW k \in 1..n, history[k].chainHash = new.chainHash PROVE FALSE
    OBVIOUS
  <2>1. PICK r \in Nat, y \in Texts : history[k] = ClauseVersion(r, ChainHashBefore(history, k), y)
    BY <1>1 DEF VersionsWritten
  <2>2. ChainHashBefore(history, k) = LastChainHash(history)
    BY <2>1 DEF new, ClauseVersion, hashVersion, Hash
  <2>3. n \in 1..n /\ history # <<>>
    BY <1>1
  <2>4. PICK q \in Nat, z \in Texts : history[n] = ClauseVersion(q, ChainHashBefore(history, n), z)
    BY <1>1, <2>3 DEF VersionsWritten
  <2>5. LastChainHash(history) = history[n].chainHash /\ history[n].chainHash # NoHash
    BY <2>3, <2>4 DEF LastChainHash, ClauseVersion, hashVersion, Hash, NoHash
  <2>6. k # 1 /\ history[k - 1].chainHash = history[n].chainHash
    BY <2>2, <2>5 DEF ChainHashBefore
  <2>7. k - 1 \in 1..n /\ k - 1 # n
    BY <1>1, <2>6
  <2> QED BY <1>1, <2>3, <2>6, <2>7 DEF VersionsWritten
<1>8. \A j, k \in 1..(n + 1) : longer[j].chainHash = longer[k].chainHash => j = k
  <2>1. \A j, k \in 1..n : longer[j].chainHash = longer[k].chainHash => j = k
    BY <1>1, <1>5 DEF VersionsWritten
  <2>2. \A k \in 1..n : longer[k].chainHash # longer[n + 1].chainHash
    BY <1>5, <1>7
  <2> QED BY <1>1, <2>1, <2>2
<1>9. StoredVersions(history) \subseteq StoredVersions(longer)
  <2>1. \A k \in DOMAIN history : k \in DOMAIN longer /\ longer[k] = history[k]
    BY <1>1, <1>5
  <2> QED BY <2>1 DEF StoredVersions
<1>10. new \in StoredVersions(longer)
  <2>1. n + 1 \in DOMAIN longer /\ longer[n + 1] = ClauseVersion(s, LastChainHash(history), x)
    BY <1>1, <1>5 DEF new
  <2> QED BY <1>5, <2>1, VersionStored
<1>11. longer \in Seq(StoredVersions(longer)) /\ list \in Seq(StoredVersions(longer))
  <2>1. history \in Seq(StoredVersions(longer)) /\ chain.records \in Seq(StoredVersions(longer))
    BY <1>1, <1>9, Larger
  <2> QED BY <1>4, <1>10, <2>1
<1>12. LastChainHash(longer) = new.chainHash
  BY <1>5 DEF LastChainHash
<1>13. VersionsWritten(longer)
  BY <1>5, <1>6, <1>8, <1>11 DEF VersionsWritten
<1> DEFINE grown == [records |-> list, headHash |-> new.chainHash]
<1>14. VersionsKept(grown, longer)
  BY <1>11, <1>12 DEF VersionsKept
<1>15. appendVersion(chain, x) = grown
  BY <1>2
<1> HIDE DEF grown
<1> QED BY <1>13, <1>14, <1>15

\* A chain of which the list was altered is kept as before; and a change to a version's text or
\* label stays in what can be stored.
LEMMA VersionsAltered ==
  ASSUME NEW chain, NEW history, VersionsWritten(history), VersionsKept(chain, history),
         NEW list \in Altered(chain.records, "text", Texts)
  PROVE  VersionsKept([chain EXCEPT !.records = list], history)
<1>1. \A r \in StoredVersions(history), x \in Texts : [r EXCEPT !["text"] = x] \in StoredVersions(history)
  <2> SUFFICES ASSUME NEW r \in StoredVersions(history), NEW x \in Texts
               PROVE  [r EXCEPT !["text"] = x] \in StoredVersions(history)
    OBVIOUS
  <2>1. PICK k \in DOMAIN history : \E y \in Texts, l \in Labels :
          r = WithText(history[k], y, l)
    BY DEF StoredVersions
  <2>2. PICK n \in Nat, z \in Texts : history[k] = ClauseVersion(n, ChainHashBefore(history, k), z)
    BY DEF VersionsWritten
  <2>3. PICK l \in Labels : [r EXCEPT !["text"] = x] = WithText(history[k], x, l)
    BY <2>1, <2>2 DEF ClauseVersion, WithText
  <2> QED BY <2>3 DEF StoredVersions
<1>4. \A r \in StoredVersions(history), l \in Labels : [r EXCEPT !.label = l] \in StoredVersions(history)
  <2> SUFFICES ASSUME NEW r \in StoredVersions(history), NEW l \in Labels
               PROVE  [r EXCEPT !.label = l] \in StoredVersions(history)
    OBVIOUS
  <2>1. PICK k \in DOMAIN history : \E y \in Texts, o \in Labels :
          r = WithText(history[k], y, o)
    BY DEF StoredVersions
  <2>2. PICK n \in Nat, z \in Texts : history[k] = ClauseVersion(n, ChainHashBefore(history, k), z)
    BY DEF VersionsWritten
  <2>3. PICK y \in Texts : [r EXCEPT !.label = l] = WithText(history[k], y, l)
    BY <2>1, <2>2 DEF ClauseVersion, WithText
  <2> QED BY <2>3 DEF StoredVersions
<1>2. chain.records \in Seq(StoredVersions(history))
  BY DEF VersionsKept
<1>3. list \in Seq(StoredVersions(history))
  BY <1>1, <1>2, <1>4, AlteredKeeps
<1> QED BY <1>3 DEF VersionsKept

\* Nothing written, nothing kept.
LEMMA VersionsStart ==
  VersionsWritten(<<>>) /\ VersionsKept(Empty, <<>>)
<1>1. <<>> \in Seq(StoredVersions(<<>>)) /\ DOMAIN <<>> = {}
  OBVIOUS
<1>2. VersionsWritten(<<>>)
  BY <1>1 DEF VersionsWritten
<1>3. Empty.records = <<>> /\ LastChainHash(<<>>) = NoHash
  BY DEF Empty, LastChainHash
<1>4. Empty = [records |-> Empty.records, headHash |-> LastChainHash(<<>>)]
  BY <1>3 DEF Empty
<1> QED BY <1>1, <1>2, <1>3, <1>4 DEF VersionsKept

-----------------------------------------------------------------------------
(* The chains, step by step *)

LEMMA ChainsInit == Init => ChainsOK
<1> SUFFICES ASSUME Init PROVE ChainsOK
  OBVIOUS
<1>1. EvidenceOK
  BY EvidenceStarts DEF Init, EvidenceOK
<1>2. VersionsOK
  BY VersionsStart DEF Init, VersionsOK
<1> QED BY <1>1, <1>2 DEF ChainsOK

\* The chains are kept up by every step.
LEMMA ChainsStep == ChainsOK /\ [Next]_vars => ChainsOK'
<1> SUFFICES ASSUME ChainsOK, [Next]_vars PROVE ChainsOK'
  OBVIOUS
<1> USE DEF ChainsOK
<1>1. ASSUME NEW c \in Correlations, NEW x \in Contents, AppendEvidence(c, x)
      PROVE  ChainsOK'
  <2>1. EvidenceAppended(appended[c]) /\ EvidenceKept(chains[c], appended[c])
    BY DEF EvidenceOK
  <2> DEFINE chain == append(chains[c], x)
             longer == Append(appended[c], Last(chain.records))
  <2>2. EvidenceAppended(longer) /\ EvidenceKept(chain, longer)
    BY <2>1, EvidenceGrows
  <2> HIDE DEF chain
  <2>3. chains' = [chains EXCEPT ![c] = chain]
    BY <1>1 DEF AppendEvidence, chain
  <2>4. chains'[c] = chain
    BY <2>3 DEF EvidenceOK
  <2>5. appended' = [appended EXCEPT ![c] = longer]
    BY <1>1, <2>4 DEF AppendEvidence
  <2> HIDE DEF longer
  <2>6. EvidenceOK'
    BY <2>2, <2>3, <2>5 DEF EvidenceOK
  <2>7. VersionsOK'
    BY <1>1 DEF AppendEvidence, VersionsOK
  <2> QED BY <2>6, <2>7
<1>2. ASSUME NEW c \in Clauses, NEW t \in Texts, AppendVersion(c, t)
      PROVE  ChainsOK'
  <2>1. VersionsWritten(written[c]) /\ VersionsKept(versions[c], written[c])
    BY DEF VersionsOK
  <2> DEFINE chain == appendVersion(versions[c], t)
             longer == Append(written[c], Last(chain.records))
  <2>2. VersionsWritten(longer) /\ VersionsKept(chain, longer)
    BY <2>1, VersionsGrow
  <2> HIDE DEF chain
  <2>3. versions' = [versions EXCEPT ![c] = chain]
    BY <1>2 DEF AppendVersion, chain
  <2>4. versions'[c] = chain
    BY <2>3 DEF VersionsOK
  <2>5. written' = [written EXCEPT ![c] = longer]
    BY <1>2, <2>4 DEF AppendVersion
  <2> HIDE DEF longer
  <2>6. VersionsOK'
    BY <2>2, <2>3, <2>5 DEF VersionsOK
  <2>7. EvidenceOK'
    BY <1>2 DEF AppendVersion, EvidenceOK
  <2> QED BY <2>6, <2>7
<1>3. ASSUME NEW c \in Correlations, AlterEvidence(c)
      PROVE  ChainsOK'
  <2>1. EvidenceAppended(appended[c]) /\ EvidenceKept(chains[c], appended[c])
    BY DEF EvidenceOK
  <2>2. PICK list \in Altered(chains[c].records, "content", Contents) :
          chains' = [chains EXCEPT ![c].records = list]
    BY <1>3 DEF AlterEvidence
  <2> DEFINE chain == [chains[c] EXCEPT !.records = list]
  <2>3. EvidenceKept(chain, appended[c])
    BY <2>1, EvidenceAltered
  <2>4. chains' = [chains EXCEPT ![c] = chain]
    BY <2>2
  <2> HIDE DEF chain
  <2>5. EvidenceOK'
    BY <1>3, <2>3, <2>4 DEF EvidenceOK, AlterEvidence
  <2>6. VersionsOK'
    BY <1>3 DEF AlterEvidence, VersionsOK
  <2> QED BY <2>5, <2>6
<1>4. ASSUME NEW c \in Clauses, AlterVersions(c)
      PROVE  ChainsOK'
  <2>1. VersionsWritten(written[c]) /\ VersionsKept(versions[c], written[c])
    BY DEF VersionsOK
  <2>2. PICK list \in Altered(versions[c].records, "text", Texts) :
          versions' = [versions EXCEPT ![c].records = list]
    BY <1>4 DEF AlterVersions
  <2> DEFINE chain == [versions[c] EXCEPT !.records = list]
  <2>3. VersionsKept(chain, written[c])
    BY <2>1, VersionsAltered
  <2>4. versions' = [versions EXCEPT ![c] = chain]
    BY <2>2
  <2> HIDE DEF chain
  <2>5. VersionsOK'
    BY <1>4, <2>3, <2>4 DEF VersionsOK, AlterVersions
  <2>6. EvidenceOK'
    BY <1>4 DEF AlterVersions, EvidenceOK
  <2> QED BY <2>5, <2>6
<1>5. CASE Restart
  BY <1>5, EvidenceStarts, VersionsStart DEF Restart, EvidenceOK, VersionsOK
<1>6. CASE UNCHANGED <<chains, versions, appended, written>>
  BY <1>6 DEF EvidenceOK, VersionsOK
<1>7. CASE \/ \E e \in Evidence : RecordDecision(e)
           \/ ChangeRules
           \/ \E request \in Requests : StartAudit(request)
           \/ ReadRules
           \/ FindGaps
           \/ FailAudit
           \/ ReportAudit
           \/ \E asked \in SUBSET Correlations : AuditEvidence(asked)
           \/ \E id \in Ids : Replay(id)
           \/ UNCHANGED vars
  <2>1. UNCHANGED <<chains, versions, appended, written>>
    BY <1>7 DEF RecordDecision, ChangeRules, StartAudit, ReadRules, FindGaps, FailAudit, ReportAudit,
                AuditEvidence, Replay, vars, trail
  <2> QED BY <1>6, <2>1
<1> QED BY <1>1, <1>2, <1>3, <1>4, <1>5, <1>7 DEF Next

\* From the invariant: what verifies is a beginning.
LEMMA VerifiedPrefixes == ChainsOK => VerifiedIsAPrefix
<1> SUFFICES ASSUME ChainsOK PROVE VerifiedIsAPrefix
  OBVIOUS
<1>1. ASSUME NEW c \in Valid
      PROVE  IsPrefix(Hashed(chains[c].records), appended[c])
  <2>1. c \in Correlations /\ verifyChain(chains[c].records)
    BY DEF Valid, Existing
  <2> QED BY <2>1, VerifiedEvidence DEF ChainsOK, EvidenceOK, EvidenceKept
<1>2. ASSUME NEW c \in Clauses, verifyVersions(versions[c].records)
      PROVE  IsPrefix(TextsOf(versions[c].records), TextsOf(written[c]))
  BY <1>2, VerifiedVersions DEF ChainsOK, VersionsOK, VersionsKept
<1> QED BY <1>1, <1>2 DEF VerifiedIsAPrefix

-----------------------------------------------------------------------------
(* Gaps and figures of a report *)

LEMMA OfToolIsAbout ==
  ASSUME NEW ds, NEW tool \in ToolsOf(ds)
  PROVE  OfTool(ds, tool) \in (SUBSET ds) \ {{}}
BY DEF ToolsOf, OfTool

LEMMA OfSurfaceIsAbout ==
  ASSUME NEW ds, NEW low \in SUBSET ds, NEW s \in SurfacesOf(low)
  PROVE  OfSurface(low, s) \in (SUBSET ds) \ {{}}
BY DEF SurfacesOf, OfSurface

\* Every gap has a severity and is about some of the decisions, and only one detector makes those
\* of its category.
LEMMA GapsAreAbout ==
  ASSUME NEW ds, NEW ruleSet, NEW existing, NEW valid, NEW integrity,
         NEW g \in detectGaps(ds, ruleSet, existing, valid, integrity)
  PROVE  /\ g.severity \in Severities /\ g.decisions # {} /\ g.decisions \subseteq ds
         /\ g.category = "missing_policy" => g \in detectMissingPolicyGaps(ds, ruleSet)
<1> USE DEF Gap, Severities
<1>1. CASE g \in detectMissingPolicyGaps(ds, ruleSet)
  <2>1. PICK tool \in ToolsOf(ds) :
          g = Gap(classifyToolSeverity(tool, SurfacesOf(OfTool(ds, tool))), "missing_policy", tool, OfTool(ds, tool))
    BY <1>1 DEF detectMissingPolicyGaps
  <2>2. g.decisions = OfTool(ds, tool) /\ g.severity = classifyToolSeverity(tool, SurfacesOf(OfTool(ds, tool)))
    BY <2>1
  <2>3. g.severity \in {"critical", "warning"}
    BY <2>2 DEF classifyToolSeverity
  <2> QED BY <1>1, <2>2, <2>3, OfToolIsAbout
<1>2. CASE g \in detectMissingTrustTierGaps(ds)
  <2>1. PICK s \in SurfacesOf(ds), severity \in {"critical", "warning"} :
          g = Gap(severity, "missing_trust_tier", s, OfSurface(ds, s))
    BY <1>2 DEF detectMissingTrustTierGaps
  <2> QED BY <2>1, OfSurfaceIsAbout
<1>3. CASE g \in detectLowConfidenceGaps(ds)
  <2> DEFINE low == {d \in ds : d.status = "generated" /\ d.confidence < LOW_CONFIDENCE_THRESHOLD}
  <2>1. low \in SUBSET ds
    OBVIOUS
  <2>2. PICK s \in SurfacesOf(low) :
          g = Gap(lowConfidenceSeverity(OfSurface(low, s)), "low_confidence", s, OfSurface(low, s))
    BY <1>3 DEF detectLowConfidenceGaps
  <2>3. lowConfidenceSeverity(OfSurface(low, s)) \in {"critical", "warning"}
    BY Zenon DEF lowConfidenceSeverity
  <2> HIDE DEF low
  <2> QED BY <2>1, <2>2, <2>3, OfSurfaceIsAbout
<1>4. CASE g \in detectUnauditedToolGaps(ds, ruleSet)
  <2>1. PICK tool \in ToolsOf(ds) : g = Gap("info", "unaudited_tool", tool, OfTool(ds, tool))
    BY <1>4 DEF detectUnauditedToolGaps
  <2> QED BY <2>1, OfToolIsAbout
<1>5. CASE g \in detectBypassedGovernanceGaps(ds, ruleSet)
  BY <1>5 DEF detectBypassedGovernanceGaps
<1>6. CASE g \in detectEvidenceIntegrityGaps(ds, existing, valid)
  BY <1>6 DEF detectEvidenceIntegrityGaps
<1> QED BY <1>1, <1>2, <1>3, <1>4, <1>5, <1>6 DEF detectGaps

\* A function has finitely many values on a finite set.
LEMMA ValuesFinite ==
  ASSUME NEW S, IsFiniteSet(S), NEW f
  PROVE  IsFiniteSet({f[x] : x \in S})
<1> DEFINE T == {f[x] : x \in S}
           g == [x \in S |-> f[x]]
<1>1. g \in Surjection(S, T)
  BY DEF Surjection
<1> HIDE DEF T, g
<1>2. IsFiniteSet(T)
  BY <1>1, FS_Surjection
<1> QED BY <1>2 DEF T

LEMMA ToolsFinite ==
  ASSUME NEW ds, IsFiniteSet(ds)
  PROVE  /\ IsFiniteSet(ToolsOf(ds)) /\ IsFiniteSet(SurfacesOf(ds))
         /\ IsFiniteSet({d.correlationId : d \in ds})
<1> DEFINE tool == [d \in ds |-> d.toolName]
           surface == [d \in ds |-> d.surface]
           correlation == [d \in ds |-> d.correlationId]
<1>1. /\ ToolsOf(ds) = {tool[d] : d \in ds} /\ SurfacesOf(ds) = {surface[d] : d \in ds}
      /\ {d.correlationId : d \in ds} = {correlation[d] : d \in ds}
  BY DEF ToolsOf, SurfacesOf
<1> HIDE DEF tool, surface, correlation
<1>2. IsFiniteSet({tool[d] : d \in ds})
  BY ValuesFinite
<1>3. IsFiniteSet({surface[d] : d \in ds})
  BY ValuesFinite
<1>4. IsFiniteSet({correlation[d] : d \in ds})
  BY ValuesFinite
<1> QED BY <1>1, <1>2, <1>3, <1>4

\* Finitely many decisions and rules have finitely many gaps.
LEMMA GapsFinite ==
  ASSUME NEW ds, NEW ruleSet, NEW existing, NEW valid, NEW integrity,
         IsFiniteSet(ds), IsFiniteSet(ruleSet)
  PROVE  IsFiniteSet(detectGaps(ds, ruleSet, existing, valid, integrity))
<1>1. IsFiniteSet(detectMissingPolicyGaps(ds, ruleSet))
  <2> DEFINE S == {tool \in ToolsOf(ds) : ~Covered(Enabled(ruleSet), tool)}
             G(tool) == Gap(classifyToolSeverity(tool, SurfacesOf(OfTool(ds, tool))), "missing_policy", tool,
                            OfTool(ds, tool))
             f == [tool \in S |-> G(tool)]
  <2>1. IsFiniteSet(S)
    BY ToolsFinite, FS_Subset
  <2>2. detectMissingPolicyGaps(ds, ruleSet) = {f[tool] : tool \in S}
    BY DEF detectMissingPolicyGaps
  <2> HIDE DEF S, f
  <2> QED BY <2>1, <2>2, ValuesFinite
<1>2. IsFiniteSet(detectMissingTrustTierGaps(ds))
  <2> DEFINE untrusted == SurfacesOf(ds) \ DOMAIN TrustPolicy
             unbound == (SurfacesOf(ds) \ Bound) \ untrusted
             f == [s \in untrusted |-> Gap("critical", "missing_trust_tier", s, OfSurface(ds, s))]
             h == [s \in unbound |-> Gap("warning", "missing_trust_tier", s, OfSurface(ds, s))]
  <2>1. IsFiniteSet(untrusted) /\ IsFiniteSet(unbound)
    BY ToolsFinite, FS_Subset
  <2>2. detectMissingTrustTierGaps(ds) = {f[s] : s \in untrusted} \cup {h[s] : s \in unbound}
    BY DEF detectMissingTrustTierGaps
  <2> HIDE DEF untrusted, unbound, f, h
  <2>3. IsFiniteSet({f[s] : s \in untrusted}) /\ IsFiniteSet({h[s] : s \in unbound})
    BY <2>1, ValuesFinite
  <2> QED BY <2>2, <2>3, FS_Union
<1>3. IsFiniteSet(detectLowConfidenceGaps(ds))
  <2> DEFINE low == {d \in ds : d.status = "generated" /\ d.confidence < LOW_CONFIDENCE_THRESHOLD}
             G(s) == Gap(lowConfidenceSeverity(OfSurface(low, s)), "low_confidence", s, OfSurface(low, s))
             f == [s \in SurfacesOf(low) |-> G(s)]
  <2>1. IsFiniteSet(low)
    BY FS_Subset
  <2>2. detectLowConfidenceGaps(ds) = {f[s] : s \in SurfacesOf(low)}
    BY DEF detectLowConfidenceGaps
  <2> HIDE DEF low, f
  <2>3. IsFiniteSet(SurfacesOf(low))
    BY <2>1, ToolsFinite
  <2>4. IsFiniteSet({f[s] : s \in SurfacesOf(low)})
    BY <2>3, ValuesFinite
  <2> QED BY <2>2, <2>4
<1>4. IsFiniteSet(detectUnauditedToolGaps(ds, ruleSet))
  <2> DEFINE S == {tool \in ToolsOf(ds) : ~Covered(ruleSet, tool)}
             f == [tool \in S |-> Gap("info", "unaudited_tool", tool, OfTool(ds, tool))]
  <2>1. IsFiniteSet(S)
    BY ToolsFinite, FS_Subset
  <2>2. detectUnauditedToolGaps(ds, ruleSet) = {f[tool] : tool \in S}
    BY DEF detectUnauditedToolGaps
  <2> HIDE DEF S, f
  <2> QED BY <2>1, <2>2, ValuesFinite
<1>5. IsFiniteSet(detectBypassedGovernanceGaps(ds, ruleSet))
  <2> DEFINE By(rule) == {d \in ds : d.toolName \in rule.matched /\ d.status = "generated"}
             strict == {r \in Enabled(ruleSet) : r.classA /\ r.requireApproval /\ By(r) # {}}
             f == [r \in strict |-> Gap("critical", "bypassed_governance", r, By(r))]
  <2>1. strict \in SUBSET ruleSet
    BY DEF Enabled
  <2>2. detectBypassedGovernanceGaps(ds, ruleSet) = {f[r] : r \in strict}
    BY DEF detectBypassedGovernanceGaps
  <2> HIDE DEF strict, f
  <2>3. IsFiniteSet(strict)
    BY <2>1, FS_Subset
  <2> QED BY <2>2, <2>3, ValuesFinite
<1>6. IsFiniteSet(detectEvidenceIntegrityGaps(ds, existing, valid))
  <2> DEFINE broken == ({d.correlationId : d \in ds} \cap existing) \ valid
             f == [c \in broken |-> Gap("critical", "evidence_integrity", c, {d \in ds : d.correlationId = c})]
  <2>1. broken \in SUBSET {d.correlationId : d \in ds}
    OBVIOUS
  <2>2. detectEvidenceIntegrityGaps(ds, existing, valid) = {f[c] : c \in broken}
    BY DEF detectEvidenceIntegrityGaps
  <2> HIDE DEF broken, f
  <2>3. IsFiniteSet(broken)
    BY <2>1, ToolsFinite, FS_Subset
  <2> QED BY <2>2, <2>3, ValuesFinite
<1> DEFINE a == detectMissingPolicyGaps(ds, ruleSet)
           b == detectMissingTrustTierGaps(ds)
           c == detectLowConfidenceGaps(ds)
           d == detectUnauditedToolGaps(ds, ruleSet)
           e == detectBypassedGovernanceGaps(ds, ruleSet)
           f == IF integrity THEN detectEvidenceIntegrityGaps(ds, existing, valid) ELSE {}
<1>7. IsFiniteSet(f)
  BY <1>6, FS_EmptySet
<1> HIDE DEF a, b, c, d, e, f
<1>8. IsFiniteSet(a \cup b \cup c \cup d \cup e \cup f)
  BY <1>1, <1>2, <1>3, <1>4, <1>5, <1>7, FS_Union DEF a, b, c, d, e
<1> QED BY <1>8 DEF detectGaps, a, b, c, d, e, f

\* The share in per cent of a part, rounded, is one, and is 100 when what is missing is at most a
\* two-hundredth.
LEMMA Division ==
  ASSUME NEW a \in Nat, NEW b \in Nat, b > 0
  PROVE  a \div b \in Nat /\ b * (a \div b) <= a /\ a < b * (a \div b) + b
OBVIOUS

LEMMA PercentBounds ==
  ASSUME NEW part \in Nat, NEW whole \in Nat, part <= whole, whole # 0
  PROVE  /\ Percent(part, whole) \in 0..100
         /\ Percent(part, whole) = 100 <=> 200 * (whole - part) <= whole
<1> DEFINE a == 200 * part + whole
           b == 2 * whole
           q == a \div b
<1>1. a \in Nat /\ b \in Nat /\ b > 0
  OBVIOUS
<1>2. q \in Nat /\ b * q <= a /\ a < b * q + b
  BY <1>1, Division
<1>3. q <= 100
  BY <1>2
<1>4. q = 100 <=> 200 * (whole - part) <= whole
  BY <1>2, <1>3
<1> QED BY <1>2, <1>3, <1>4 DEF Percent

\* Decisions are uncovered if and only if they are in a gap for a missing policy.
LEMMA MissingPolicyGapsAre ==
  ASSUME NEW ds, NEW ruleSet, NEW existing, NEW valid, NEW integrity, NEW gaps,
         gaps = detectGaps(ds, ruleSet, existing, valid, integrity)
  PROVE  UNION {g.decisions : g \in {h \in gaps : h.category = "missing_policy"}} =
           ds \ {d \in ds : Covered(Enabled(ruleSet), d.toolName)}
<1> DEFINE G(tool) == Gap(classifyToolSeverity(tool, SurfacesOf(OfTool(ds, tool))), "missing_policy", tool,
                          OfTool(ds, tool))
           open == {tool \in ToolsOf(ds) : ~Covered(Enabled(ruleSet), tool)}
<1>1. detectMissingPolicyGaps(ds, ruleSet) = {G(tool) : tool \in open}
  BY DEF detectMissingPolicyGaps
<1>2. {h \in gaps : h.category = "missing_policy"} = detectMissingPolicyGaps(ds, ruleSet)
  <2>1. detectMissingPolicyGaps(ds, ruleSet) \subseteq gaps
    BY DEF detectGaps
  <2>2. \A h \in detectMissingPolicyGaps(ds, ruleSet) : h.category = "missing_policy"
    BY <1>1 DEF Gap
  <2> QED BY <2>1, <2>2, GapsAreAbout
<1>3. {g.decisions : g \in {G(tool) : tool \in open}} = {OfTool(ds, tool) : tool \in open}
  <2>1. \A tool \in open : G(tool).decisions = OfTool(ds, tool)
    BY DEF Gap
  <2> HIDE DEF G, open
  <2> QED BY <2>1
<1>4. ASSUME NEW d
      PROVE  d \in UNION {OfTool(ds, tool) : tool \in open} <=>
               d \in ds /\ ~Covered(Enabled(ruleSet), d.toolName)
  <2>1. ASSUME d \in ds, ~Covered(Enabled(ruleSet), d.toolName)
        PROVE  d \in UNION {OfTool(ds, tool) : tool \in open}
    <3>1. d.toolName \in open /\ d \in OfTool(ds, d.toolName)
      BY <2>1 DEF ToolsOf, OfTool
    <3> HIDE DEF open
    <3> QED BY <3>1
  <2>2. ASSUME NEW tool \in open, d \in OfTool(ds, tool)
        PROVE  d \in ds /\ ~Covered(Enabled(ruleSet), d.toolName)
    BY <2>2 DEF OfTool
  <2> HIDE DEF open
  <2> QED BY <2>1, <2>2
<1> HIDE DEF G, open
<1>5. UNION {g.decisions : g \in {h \in gaps : h.category = "missing_policy"}} =
        UNION {OfTool(ds, tool) : tool \in open}
  BY <1>1, <1>2, <1>3
<1> QED BY <1>4, <1>5
\* The share of the covered decisions.
LEMMA CoverageIs ==
  ASSUME NEW ds, IsFiniteSet(ds), NEW ruleSet, NEW uncovered,
         uncovered = ds \ {d \in ds : Covered(Enabled(ruleSet), d.toolName)}
  PROVE  /\ calculatePolicyCoverage(ds, ruleSet) \in 0..100
         /\ calculatePolicyCoverage(ds, ruleSet) = 100 <=> 200 * Cardinality(uncovered) <= Cardinality(ds)
<1> DEFINE covered == {d \in ds : Covered(Enabled(ruleSet), d.toolName)}
           whole == Cardinality(ds)
           part == Cardinality(covered)
<1>1. whole \in Nat /\ (whole = 0 <=> ds = {})
  BY FS_CardinalityType, FS_EmptySet
<1>2. covered \in SUBSET ds /\ uncovered = ds \ covered
  OBVIOUS
<1> HIDE DEF covered
<1>3. IsFiniteSet(covered) /\ part \in Nat /\ part <= whole
  BY <1>2, FS_Subset, FS_CardinalityType
<1>4. ds \cap covered = covered
  BY <1>2
<1>5. Cardinality(uncovered) = whole - part
  BY <1>2, <1>4, FS_Difference
<1>6. CASE ds = {}
  <2>1. calculatePolicyCoverage(ds, ruleSet) = 100 /\ Cardinality(uncovered) = 0 /\ whole = 0
    BY <1>1, <1>2, <1>6, FS_EmptySet DEF calculatePolicyCoverage
  <2> QED BY <2>1
<1>7. CASE ds # {}
  <2>1. calculatePolicyCoverage(ds, ruleSet) = Percent(part, whole)
    BY <1>7 DEF calculatePolicyCoverage, covered
  <2> HIDE DEF part, whole
  <2>2. Percent(part, whole) \in 0..100 /\ (Percent(part, whole) = 100 <=> 200 * (whole - part) <= whole)
    BY <1>1, <1>3, <1>7, PercentBounds
  <2> QED BY <1>5, <2>1, <2>2 DEF whole
<1> QED BY <1>6, <1>7

LEMMA IntegrityIs ==
  ASSUME NEW ds, IsFiniteSet(ds), NEW existing, NEW valid
  PROVE  calculateEvidenceIntegrity(ds, existing, valid) \in 0..100
<1> DEFINE checked == {d.correlationId : d \in ds} \cap existing
           part == Cardinality(checked \cap valid)
           whole == Cardinality(checked)
<1>1. IsFiniteSet(checked)
  BY ToolsFinite, FS_Intersection
<1>2. calculateEvidenceIntegrity(ds, existing, valid) = IF checked = {} THEN 100 ELSE Percent(part, whole)
  BY DEF calculateEvidenceIntegrity
<1> HIDE DEF checked
<1>3. part \in Nat /\ whole \in Nat /\ part <= whole /\ (whole = 0 <=> checked = {})
  BY <1>1, FS_Intersection, FS_CardinalityType, FS_EmptySet
<1> HIDE DEF part, whole
<1>4. checked # {} => Percent(part, whole) \in 0..100
  BY <1>3, PercentBounds
<1> QED BY <1>2, <1>4

\* Gaps of three severities are counted in three parts.
LEMMA GapsInThree ==
  ASSUME NEW gaps, IsFiniteSet(gaps), \A g \in gaps : g.severity \in Severities,
         NEW count, count = [s \in Severities |-> Cardinality({g \in gaps : g.severity = s})]
  PROVE  Cardinality(gaps) = count["critical"] + count["warning"] + count["info"]
<1> DEFINE a == {g \in gaps : g.severity = "critical"}
           b == {g \in gaps : g.severity = "warning"}
           c == {g \in gaps : g.severity = "info"}
<1>1. count["critical"] = Cardinality(a) /\ count["warning"] = Cardinality(b) /\ count["info"] = Cardinality(c)
  BY DEF Severities
<1>2. gaps = (a \cup b) \cup c /\ a \cap b = {} /\ (a \cup b) \cap c = {}
  BY DEF Severities
<1>3. a \in SUBSET gaps /\ b \in SUBSET gaps /\ c \in SUBSET gaps
  OBVIOUS
<1> HIDE DEF a, b, c
<1>4. /\ IsFiniteSet(a) /\ IsFiniteSet(b) /\ IsFiniteSet(c)
      /\ Cardinality(a) \in Nat /\ Cardinality(b) \in Nat /\ Cardinality(c) \in Nat
  BY <1>3, FS_Subset, FS_CardinalityType
<1>5. IsFiniteSet(a \cup b) /\ Cardinality(a \cup b) = Cardinality(a) + Cardinality(b)
  <2>1. /\ IsFiniteSet(a \cup b)
        /\ Cardinality(a \cup b) = Cardinality(a) + Cardinality(b) - Cardinality({})
    BY <1>2, <1>4, FS_Union
  <2> QED BY <1>4, <2>1, FS_EmptySet
<1>6. Cardinality((a \cup b) \cup c) = Cardinality(a \cup b) + Cardinality(c)
  <2>1. Cardinality((a \cup b) \cup c) = Cardinality(a \cup b) + Cardinality(c) - Cardinality({})
    BY <1>2, <1>4, <1>5, FS_Union
  <2> QED BY <1>4, <1>5, <2>1, FS_EmptySet
<1> QED BY <1>1, <1>2, <1>5, <1>6

-----------------------------------------------------------------------------
(* The log and the report, step by step *)

LEMMA LogStep ==
  ASSUME LogOK, NEW e \in Evidence, RecordDecision(e)
  PROVE  LogOK'
<1> DEFINE d == [id |-> e.id, surface |-> e.surface, toolName |-> e.toolName,
                 status |-> IF e.verdict = "deny" THEN "blocked" ELSE "generated",
                 confidence |-> e.confidence, correlationId |-> e.correlationId]
           ids == {x.id : x \in log}
<1>1. log' = log \cup {d} /\ d.id \notin ids
  BY DEF RecordDecision
<1>2. d \in Decisions
  BY AuditAssumption DEF Decisions, Statuses
<1>3. {x.id : x \in log'} = ids \cup {d.id}
  BY <1>1
<1>4. d \notin log
  BY <1>1
<1> HIDE DEF d
<1>5. IsFiniteSet(log') /\ Cardinality(log') = Cardinality(log) + 1
  BY <1>1, <1>4, FS_AddElement DEF LogOK
<1>6. IsFiniteSet(ids)
  <2> DEFINE f == [x \in log |-> x.id]
  <2>1. ids = {f[x] : x \in log}
    OBVIOUS
  <2> HIDE DEF f, ids
  <2> QED BY <2>1, ValuesFinite DEF LogOK
<1>7. Cardinality(ids \cup {d.id}) = Cardinality(ids) + 1
  <2> HIDE DEF ids
  <2> QED BY <1>1, <1>6, FS_AddElement
<1>8. Cardinality({x.id : x \in log'}) = Cardinality(log')
  BY <1>3, <1>5, <1>7 DEF LogOK
<1>9. log' \subseteq Decisions
  BY <1>1, <1>2 DEF LogOK
<1> QED BY <1>5, <1>8, <1>9 DEF LogOK

\* A step of the trail leaves an audit under way as it is and ends any other report.
LEMMA WorkReports ==
  ASSUME ReportOK, Work
  PROVE  ReportOK'
<1>1. CASE report' = report
  BY <1>1 DEF ReportOK
<1>2. CASE report' = NotAudited
  BY <1>2 DEF ReportOK, NotAudited, Reading
<1> QED BY <1>1, <1>2 DEF Work

\* The invariant holds at the start and is kept by every step.
LEMMA InvInit == Init => IInv
<1> SUFFICES ASSUME Init PROVE IInv
  OBVIOUS
<1>1. LogOK
  <2>1. log = {} /\ {d.id : d \in log} = {}
    BY DEF Init
  <2> QED BY <2>1, FS_EmptySet DEF LogOK
<1>2. ReportOK
  BY DEF Init, ReportOK, NotAudited, Reading
<1> QED BY <1>1, <1>2, ChainsInit DEF Init, IInv

LEMMA InvStep == IInv /\ [Next]_vars => IInv'
<1> SUFFICES ASSUME IInv, [Next]_vars PROVE IInv'
  OBVIOUS
<1>1. ChainsOK /\ LogOK /\ rules \in RuleSets /\ ReportOK
  BY DEF IInv
<1>2. ChainsOK'
  BY <1>1, ChainsStep
<1>3. log' = log => LogOK'
  BY <1>1 DEF LogOK
<1>4. CASE /\ Work
           /\ \/ \E c \in Correlations, content \in Contents : AppendEvidence(c, content)
              \/ \E c \in Clauses, text \in Texts : AppendVersion(c, text)
              \/ ChangeRules
              \/ \E c \in Correlations : AlterEvidence(c)
              \/ \E c \in Clauses : AlterVersions(c)
  <2>1. log' = log /\ rules' \in RuleSets
    BY <1>1, <1>4 DEF AppendEvidence, AppendVersion, ChangeRules, AlterEvidence, AlterVersions
  <2> QED BY <1>1, <1>2, <1>3, <1>4, <2>1, WorkReports DEF IInv
<1>5. CASE \E e \in Evidence : RecordDecision(e)
  <2>1. Work /\ rules' = rules
    BY <1>5 DEF RecordDecision
  <2>2. LogOK'
    BY <1>1, <1>5, LogStep
  <2> QED BY <1>1, <1>2, <2>1, <2>2, WorkReports DEF IInv
<1>6. CASE Restart
  <2>1. report' = NotAudited /\ rules' = rules /\ log' = {}
    BY <1>6 DEF Restart
  <2>2. {d.id : d \in log'} = {}
    BY <2>1
  <2>3. LogOK'
    BY <2>1, <2>2, FS_EmptySet DEF LogOK
  <2>4. ReportOK'
    BY <2>1 DEF ReportOK, NotAudited, Reading
  <2> QED BY <1>1, <1>2, <2>1, <2>3, <2>4 DEF IInv
<1>7. ASSUME UNCHANGED trail, ReportOK'
      PROVE  IInv'
  <2>1. log' = log /\ rules' = rules
    BY <1>7 DEF trail
  <2> QED BY <1>1, <1>2, <1>3, <1>7, <2>1 DEF IInv
<1>8. ASSUME NEW request \in Requests, StartAudit(request)
      PROVE  IInv'
  <2>1. Requested(log, request) \in SUBSET log
    BY DEF Requested
  <2>2. IsFiniteSet(Requested(log, request))
    BY <1>1, <2>1, FS_Subset DEF LogOK
  <2>3. ReportOK'
    BY <1>8, <2>2 DEF StartAudit, ReportOK
  <2> QED BY <1>7, <1>8, <2>3 DEF StartAudit
<1>9. CASE ReadRules
  <2>1. ReportOK'
    BY <1>1, <1>9 DEF ReadRules, ReportOK, Reading
  <2> QED BY <1>7, <1>9, <2>1 DEF ReadRules
<1>10. CASE FindGaps
  <2>1. Existing \in SUBSET Correlations /\ Valid \in SUBSET Correlations
    BY DEF Existing, Valid
  <2>2. ReportOK'
    BY <1>1, <1>10, <2>1 DEF FindGaps, ReportOK, Reading
  <2> QED BY <1>7, <1>10, <2>2 DEF FindGaps
<1>11. CASE ReportAudit
  <2>1. Existing \in SUBSET Correlations /\ Valid \in SUBSET Correlations
    BY DEF Existing, Valid
  <2>2. ReportOK'
    BY <1>1, <1>11, <2>1 DEF ReportAudit, ReportOK, Reading
  <2> QED BY <1>7, <1>11, <2>2 DEF ReportAudit
<1>12. CASE \/ \E asked \in SUBSET Correlations : AuditEvidence(asked)
            \/ \E id \in Ids : Replay(id)
            \/ FailAudit
  <2>1. report'.kind \in {"evidence", "replay", "error"} /\ UNCHANGED trail
    BY <1>12 DEF AuditEvidence, Replay, FailAudit, Failed
  <2>2. ReportOK'
    BY <2>1 DEF ReportOK, Reading
  <2> QED BY <1>7, <2>1, <2>2
<1>13. CASE UNCHANGED vars
  <2>1. ReportOK'
    BY <1>1, <1>13 DEF ReportOK, vars
  <2> QED BY <1>7, <1>13, <2>1 DEF vars
<1>14. /\ \A c, x : AppendEvidence(c, x) => Work
       /\ \A c, x : AppendVersion(c, x) => Work
       /\ \A c : AlterEvidence(c) \/ AlterVersions(c) => Work
       /\ ChangeRules => Work
  BY DEF AppendEvidence, AppendVersion, AlterEvidence, AlterVersions, ChangeRules
<1> QED BY <1>4, <1>5, <1>6, <1>8, <1>9, <1>10, <1>11, <1>12, <1>13, <1>14 DEF Next

LEMMA Invariant == Spec => []IInv
BY InvInit, InvStep, PTL DEF Spec
-----------------------------------------------------------------------------
(* Theorems *)

\* Whatever is altered, lost, doubled or exchanged, and whatever is appended after: evidence that
\* verifies is, but for its unhashed fields, a beginning of the records that were appended, and the
\* texts of versions that verify are, but for their normalization, a beginning of those that were
\* written (verifyChain of both services).
THEOREM VerifiedIsAlwaysAPrefix == Spec => []VerifiedIsAPrefix
<1>1. IInv => VerifiedIsAPrefix
  BY VerifiedPrefixes DEF IInv
<1> QED BY <1>1, Invariant, PTL

LEMMA ListsTyped ==
  ASSUME ChainsOK
  PROVE  /\ \A c \in Correlations : ContentsOf(chains[c].records) \in Seq(Contents)
         /\ \A c \in Clauses : TextsOf(versions[c].records) \in Seq(Range(Normalized))
<1>1. ASSUME NEW c \in Correlations
      PROVE  ContentsOf(chains[c].records) \in Seq(Contents)
  <2> DEFINE list == chains[c].records
             history == appended[c]
  <2>1. list \in Seq(StoredEvidence(history)) /\ EvidenceAppended(history)
    BY DEF ChainsOK, EvidenceOK, EvidenceKept
  <2>2. \A r \in StoredEvidence(history) : r.content \in Contents
    <3> SUFFICES ASSUME NEW r \in StoredEvidence(history) PROVE r.content \in Contents
      OBVIOUS
    <3>0. PICK k \in DOMAIN history : \E x \in Contents, l \in Labels :
            r = WithContent(history[k], x, l)
      BY DEF StoredEvidence
    <3>1. PICK n \in Nat, y \in Contents : history[k] = EvidenceRecord(n, HashBefore(history, k), y)
      BY <2>1 DEF EvidenceAppended
    <3> QED BY <3>0, <3>1 DEF EvidenceRecord, WithContent
  <2> HIDE DEF list, history
  <2>3. Len(list) \in Nat /\ DOMAIN list = 1..Len(list) /\ \A i \in 1..Len(list) : list[i].content \in Contents
    BY <2>1, <2>2, ElementOfSeq
  <2>4. ContentsOf(list) \in [1..Len(list) -> Contents]
    BY <2>3 DEF ContentsOf
  <2> QED BY <2>3, <2>4, SeqDef DEF list
<1>2. ASSUME NEW c \in Clauses
      PROVE  TextsOf(versions[c].records) \in Seq(Range(Normalized))
  <2> DEFINE list == versions[c].records
             history == written[c]
  <2>1. list \in Seq(StoredVersions(history)) /\ VersionsWritten(history)
    BY DEF ChainsOK, VersionsOK, VersionsKept
  <2>2. \A r \in StoredVersions(history) : Normalized[r.text] \in Range(Normalized)
    <3> SUFFICES ASSUME NEW r \in StoredVersions(history) PROVE Normalized[r.text] \in Range(Normalized)
      OBVIOUS
    <3>0. PICK k \in DOMAIN history : \E t \in Texts, l \in Labels :
            r = WithText(history[k], t, l)
      BY DEF StoredVersions
    <3>1. PICK n \in Nat, u \in Texts : history[k] = ClauseVersion(n, ChainHashBefore(history, k), u)
      BY <2>1 DEF VersionsWritten
    <3>2. PICK t \in Texts : r.text = t
      BY <3>0, <3>1 DEF ClauseVersion, WithText
    <3>3. Normalized[t] \in Range(Normalized)
      BY AuditAssumption DEF Range
    <3> QED BY <3>2, <3>3
  <2> HIDE DEF list, history
  <2>3. /\ Len(list) \in Nat /\ DOMAIN list = 1..Len(list)
        /\ \A i \in 1..Len(list) : Normalized[list[i].text] \in Range(Normalized)
    BY <2>1, <2>2, ElementOfSeq
  <2>4. TextsOf(list) \in [1..Len(list) -> Range(Normalized)]
    BY <2>3 DEF TextsOf
  <2> QED BY <2>3, <2>4, SeqDef DEF list
<1> QED BY <1>1, <1>2

\* What a report counts is what it names, whatever it is about.
LEMMA ReportTyped ==
  ASSUME ReportOK
  PROVE  /\ report.kind \in {"gaps", "audit"} =>
              \A g \in report.gaps : g.decisions # {} /\ g.decisions \subseteq report.decisions
         /\ report.kind = "audit" =>
              /\ report.summary.policyCoverage \in 0..100 /\ report.summary.evidenceIntegrity \in 0..100
              /\ LET count == report.summary.gapCount
                 IN Cardinality(report.gaps) = count["critical"] + count["warning"] + count["info"]
<1>1. ASSUME report.kind \in {"gaps", "audit"}
      PROVE  /\ \A g \in report.gaps : g.decisions # {} /\ g.decisions \subseteq report.decisions
             /\ \A g \in report.gaps : g.severity \in Severities
             /\ IsFiniteSet(report.decisions) /\ IsFiniteSet(report.gaps)
  <2>1. PICK existing \in SUBSET Correlations, valid \in SUBSET Correlations :
          report.gaps = detectGaps(report.decisions, report.rules, existing, valid, report.of.integrity)
    BY <1>1 DEF ReportOK
  <2>2. IsFiniteSet(report.decisions) /\ report.rules \in RuleSets
    BY <1>1 DEF ReportOK, Reading
  <2>3. IsFiniteSet(report.rules)
    BY <2>2, AuditAssumption
  <2>4. IsFiniteSet(report.gaps)
    BY <2>1, <2>2, <2>3, GapsFinite
  <2> QED BY <2>1, <2>2, <2>4, GapsAreAbout
<1>2. ASSUME report.kind = "audit"
      PROVE  /\ report.summary.policyCoverage \in 0..100 /\ report.summary.evidenceIntegrity \in 0..100
             /\ LET count == report.summary.gapCount
                IN Cardinality(report.gaps) = count["critical"] + count["warning"] + count["info"]
  <2>1. PICK existing \in SUBSET Correlations, valid \in SUBSET Correlations :
          report.summary = summarized(report.decisions, report.rules, report.gaps, existing, valid,
                                      report.of.integrity)
    BY <1>2 DEF ReportOK
  <2> DEFINE count == report.summary.gapCount
  <2>2. /\ report.summary.policyCoverage = calculatePolicyCoverage(report.decisions, report.rules)
        /\ report.summary.evidenceIntegrity =
             IF report.of.integrity THEN calculateEvidenceIntegrity(report.decisions, existing, valid) ELSE 100
        /\ count = [s \in Severities |-> Cardinality({g \in report.gaps : g.severity = s})]
    BY <2>1 DEF summarized
  <2>3. /\ IsFiniteSet(report.decisions) /\ IsFiniteSet(report.gaps)
        /\ \A g \in report.gaps : g.severity \in Severities
    BY <1>1, <1>2
  <2>4. report.summary.policyCoverage \in 0..100
    <3>1. PICK rest : rest = report.decisions \ {d \in report.decisions :
                                                  Covered(Enabled(report.rules), d.toolName)}
      OBVIOUS
    <3> QED BY <2>2, <2>3, <3>1, CoverageIs
  <2>5. report.summary.evidenceIntegrity \in 0..100
    BY <2>2, <2>3, IntegrityIs
  <2> HIDE DEF count
  <2>6. Cardinality(report.gaps) = count["critical"] + count["warning"] + count["info"]
    BY <2>2, <2>3, GapsInThree
  <2> QED BY <2>4, <2>5, <2>6 DEF count
<1> QED BY <1>1, <1>2

\* The log holds one record for each id, and the gaps and figures of a report are about the
\* decisions it was asked of, add up, and are per cents, for any decisions and rules.
THEOREM AlwaysTypeOK == Spec => []TypeOK
<1>1. IInv => TypeOK
  <2> SUFFICES ASSUME IInv PROVE TypeOK
    OBVIOUS
  <2>1. ChainsOK /\ LogOK /\ rules \in RuleSets /\ ReportOK
    BY DEF IInv
  <2> QED BY <2>1, ListsTyped, ReportTyped DEF TypeOK, LogOK
<1> QED BY <1>1, Invariant, PTL

\* Evidence that verifies is not damaged.
LEMMA ValidIsUndamaged ==
  ASSUME ChainsOK, NEW c \in Correlations, verifyChain(chains[c].records)
  PROVE  ~Damaged(c)
BY VerifiedPrefixes DEF Damaged, VerifiedIsAPrefix, Valid

\* What an audit has just found of the damaged evidence and of what rules put to approval.
LEMMA GapsAreComplete ==
  ASSUME ChainsOK, report.kind = "rules", FindGaps, NEW d \in report.decisions
  PROVE  /\ report.of.integrity /\ Damaged(d.correlationId) => In(d, "evidence_integrity")
         /\ d.status = "generated" /\ (\E r \in Holding(d, report.rules) : d.toolName \in r.matched) =>
              In(d, "bypassed_governance")
<1> DEFINE ds == report.decisions
           ruleSet == report.rules
<1>1. report'.gaps = detectGaps(ds, ruleSet, Existing, Valid, report.of.integrity)
  BY DEF FindGaps
<1>2. ASSUME report.of.integrity, Damaged(d.correlationId)
      PROVE  In(d, "evidence_integrity")
  <2> DEFINE c == d.correlationId
             g == Gap("critical", "evidence_integrity", c, {e \in ds : e.correlationId = c})
  <2>1. c \in Existing /\ c \in Correlations
    BY <1>2 DEF Damaged, Existing
  <2>2. c \notin Valid
    BY <1>2, <2>1, ValidIsUndamaged DEF Valid
  <2>3. c \in ({e.correlationId : e \in ds} \cap Existing) \ Valid
    BY <2>1, <2>2
  <2>4. g \in detectEvidenceIntegrityGaps(ds, Existing, Valid)
    BY <2>3 DEF detectEvidenceIntegrityGaps
  <2>5. g \in report'.gaps
    BY <1>1, <1>2, <2>4 DEF detectGaps
  <2>6. g.category = "evidence_integrity" /\ g.severity = "critical" /\ d \in g.decisions
    BY DEF Gap
  <2> QED BY <2>5, <2>6 DEF In
<1>3. ASSUME d.status = "generated", NEW r \in Holding(d, ruleSet), d.toolName \in r.matched
      PROVE  In(d, "bypassed_governance")
  <2>1. r \in ruleSet /\ r.enabled /\ r.classA /\ r.requireApproval
    BY DEF Holding
  <2> DEFINE By(rule) == {e \in ds : e.toolName \in rule.matched /\ e.status = "generated"}
             g == Gap("critical", "bypassed_governance", r, By(r))
  <2>3. d \in By(r)
    BY <1>3
  <2>4. r \in {q \in Enabled(ruleSet) : q.classA /\ q.requireApproval /\ By(q) # {}}
    BY <2>1, <2>3 DEF Enabled
  <2>5. g \in detectBypassedGovernanceGaps(ds, ruleSet)
    BY <2>4 DEF detectBypassedGovernanceGaps
  <2>6. g \in report'.gaps
    BY <1>1, <2>5 DEF detectGaps
  <2>7. g.category = "bypassed_governance" /\ g.severity = "critical" /\ d \in g.decisions
    BY <2>3 DEF Gap
  <2> QED BY <2>6, <2>7 DEF In
<1> QED BY <1>2, <1>3

\* A report can be relied on for the moment of its reads (runAudit, HistoricalReplayService.replay):
\* it has a critical gap for all damaged evidence and for all that an enabled rule puts to approval
\* if its regular expression finds it, its coverage is full just when at most one decision in two hundred is in a gap, and damaged
\* evidence does not replay.
THEOREM ReportsAreAlwaysComplete == Spec => ReportsAreComplete
<1>1. IInv /\ [Next]_vars => [FindsAll /\ CountsAll /\ ReplaysIntact]_report
  <2> SUFFICES ASSUME IInv, Next, report' # report
               PROVE  FindsAll /\ CountsAll /\ ReplaysIntact
    BY DEF vars
  <2>1. ChainsOK /\ LogOK /\ ReportOK
    BY DEF IInv
  <2>2. CASE report' = NotAudited
    BY <2>2 DEF NotAudited, Finding, FindsAll, CountsAll, ReplaysIntact
  <2>3. CASE \E request \in Requests : StartAudit(request)
    BY <2>3 DEF StartAudit, Finding, FindsAll, CountsAll, ReplaysIntact
  <2>4. CASE ReadRules
    BY <2>4 DEF ReadRules, Finding, FindsAll, CountsAll, ReplaysIntact
  <2>5. CASE FindGaps
    <3>1. report.kind = "rules" /\ report'.kind = "gaps"
      BY <2>5 DEF FindGaps
    <3>2. FindsAll
      BY <2>1, <2>5, <3>1, GapsAreComplete DEF FindsAll
    <3> QED BY <3>1, <3>2 DEF CountsAll, ReplaysIntact
  <2>6. CASE ReportAudit
    <3>1. report.kind = "gaps" /\ report'.kind = "audit"
      BY <2>6 DEF ReportAudit
    <3>2. PICK existing \in SUBSET Correlations, valid \in SUBSET Correlations :
            report.gaps = detectGaps(report.decisions, report.rules, existing, valid, report.of.integrity)
      BY <2>1, <3>1 DEF ReportOK
    <3>3. Uncovered = report.decisions \ {d \in report.decisions : Covered(Enabled(report.rules), d.toolName)}
      BY <3>2, MissingPolicyGapsAre DEF Uncovered
    <3>4. report'.summary.policyCoverage = calculatePolicyCoverage(report.decisions, report.rules)
      BY <2>6 DEF ReportAudit, summarized
    <3>5. IsFiniteSet(report.decisions)
      BY <2>1, <3>1 DEF ReportOK, Reading
    <3>6. report'.summary.policyCoverage = 100 <=>
            200 * Cardinality(Uncovered) <= Cardinality(report.decisions)
      BY <3>3, <3>4, <3>5, CoverageIs
    <3> QED BY <3>1, <3>6 DEF Finding, FindsAll, CountsAll, ReplaysIntact
  <2>7. CASE \E asked \in SUBSET Correlations : AuditEvidence(asked)
    BY <2>7 DEF AuditEvidence, Finding, FindsAll, CountsAll, ReplaysIntact
  <2>8. ASSUME NEW id \in Ids, Replay(id)
        PROVE  FindsAll /\ CountsAll /\ ReplaysIntact
    <3>1. CASE report' = Failed
      BY <3>1 DEF Failed, Finding, FindsAll, CountsAll, ReplaysIntact
    <3>2. CASE report' # Failed
      <4>1. PICK d \in log : report' = [kind |-> "replay", of |-> d,
                                        says |-> verifyChain(chains[d.correlationId].records)]
        BY <2>8, <3>2 DEF Replay
      <4>2. d.correlationId \in Correlations
        BY <2>1 DEF LogOK, Decisions
      <4> QED BY <2>1, <4>1, <4>2, ValidIsUndamaged DEF Finding, FindsAll, CountsAll, ReplaysIntact
    <3> QED BY <3>1, <3>2
  <2>11. CASE FailAudit
    BY <2>11 DEF FailAudit, Failed, Finding, FindsAll, CountsAll, ReplaysIntact
  <2>9. Work => report' = NotAudited
    BY DEF Work
  <2>10. /\ \A c, x : AppendEvidence(c, x) \/ AppendVersion(c, x) => Work
         /\ \A c : AlterEvidence(c) \/ AlterVersions(c) \/ RecordDecision(c) => Work
         /\ ChangeRules => Work
         /\ Restart => report' = NotAudited
    BY DEF AppendEvidence, AppendVersion, RecordDecision, ChangeRules, AlterEvidence, AlterVersions, Restart
  <2> QED BY <2>2, <2>3, <2>4, <2>5, <2>6, <2>7, <2>8, <2>9, <2>10, <2>11 DEF Next
<1>2. Spec => [][FindsAll /\ CountsAll /\ ReplaysIntact]_report
  BY <1>1, Invariant, PTL DEF Spec
<1> QED BY <1>2 DEF ReportsAreComplete
=============================================================================
