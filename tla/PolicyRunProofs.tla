--------------------------- MODULE PolicyRunProofs ---------------------------
(***************************************************************************)
(* Proofs about PolicyRun, for any domains, addresses, TTLs, transaction   *)
(* size and set of faults.                                                 *)
(*                                                                         *)
(* The properties speak of the end of runPolicy, of the cache, or of both. *)
(* IInv follows what they depend on through the phases: the domains from   *)
(* the cache check to the answers, the addresses from the answers over the *)
(* transactions to the snapshot, and the ages of rows and answers.         *)
(***************************************************************************)
EXTENDS PolicyRun, TLAPS

\* Answers belong to domains of the policy, and to the steps from the resolver
\* to the end of the cache work; a valid one has an address.
AnswersInv ==
    /\ phase = "idle" => toResolve = {}
    /\ phase \in {"idle", "check"} => Answered = {}
    /\ Answered \subseteq policyDomains
    /\ \A d \in Domains : answers[d].status = "valid" <=> answers[d].ips # {}

\* An answer that is not written yet is no older than the records it will
\* replace: nothing writes records between the two.
AgesInv ==
    phase \in {"resolve", "upsert"} =>
        \A d \in Answered, a \in Addrs :
            records[d][a] # NoRow => records[d][a] >= answers[d].age

\* A record row waits for its transaction with its domain row in place.
RowsInv ==
    phase = "records" => \A da \in rows : domains[da[1]].status # "none"

\* Every domain of the policy is fresh, answered or still asked for, and only
\* a done context or a closed resolver loses one.
CoverageInv ==
    /\ phase = "resolve" => policyDomains \subseteq fresh \cup Answered \cup toResolve
    /\ phase \in {"upsert", "records", "snapshot"} =>
          policyDomains \subseteq fresh \cup Answered \/ ctxDone \/ closed
    /\ ExportComplete

\* Every address of an answer is a record or a row still to be written, until
\* a vacuum comes in between.
StoredInv ==
    /\ phase \in {"records", "snapshot"} /\ ~vacuumed =>
          \A d \in Answered : \A a \in answers[d].ips :
              records[d][a] # NoRow \/ (phase = "records" /\ <<d, a>> \in rows)
    /\ AnswersExported

FilesInv ==
    /\ phase = "export6" => files["v4"] = "new"
    /\ RoutesFollowFiles

\* A valid domain has a record, or a row of an upsert in progress.
HeldInv ==
    ~disturbed =>
        \A d \in Domains : domains[d].status = "valid" =>
            \/ HasRecords(d)
            \/ phase = "records" /\ \E a \in Addrs : <<d, a>> \in rows

IInv ==
    /\ TypeOK
    /\ RecordsNotNewer
    /\ AnswersInv
    /\ AgesInv
    /\ RowsInv
    /\ CoverageInv
    /\ StoredInv
    /\ FilesInv
    /\ HeldInv

-----------------------------------------------------------------------------
USE PolicyRunAssumption

\* Growing older keeps two ages in their order and in their range.
LEMMA OlderMonotone ==
    ASSUME NEW m \in 0..MaxAge, NEW n \in 0..MaxAge, m <= n
    PROVE  /\ Older(m) \in 0..MaxAge /\ Older(n) \in 0..MaxAge
           /\ Older(m) <= Older(n)
  BY DEF Older

\* A domain row, a record and an answer have their types.
LEMMA RowTypes ==
    ASSUME TypeOK, NEW d \in Domains
    PROVE  /\ domains[d].status \in Statuses /\ domains[d].age \in 0..MaxAge
           /\ answers[d].status \in Statuses /\ answers[d].age \in 0..MaxAge
           /\ answers[d].ips \subseteq Addrs
           /\ \A a \in Addrs : records[d][a] = NoRow \/ records[d][a] \in 0..MaxAge
  BY DEF TypeOK

\* A domain row that has grown older is a domain row.
LEMMA AgedRow ==
    ASSUME NEW r \in [status : Statuses, age : 0..MaxAge]
    PROVE  [r EXCEPT !.age = Older(@)] \in [status : Statuses, age : 0..MaxAge]
<1>1. Older(r.age) \in 0..MaxAge
  BY OlderMonotone
<1>2. QED
  BY <1>1

\* A write that does not complete leaves each file old, new or torn.
LEMMA HalfWrittenType ==
    ASSUME TypeOK, NEW f \in Families, NEW now \in HalfWritten(f)
    PROVE  now \in [Families -> {"old", "new", "torn"}]
<1>1. PICK c \in {files[f], "torn"} : now = [files EXCEPT ![f] = c]
  BY DEF HalfWritten
<1>2. c \in {"old", "new", "torn"}
  BY <1>1 DEF TypeOK
<1>3. QED
  BY <1>1, <1>2 DEF TypeOK

\* However runPolicy ends, what it leaves behind satisfies the invariant,
\* provided that an upsert cut in half is remembered as such.
LEMMA LeaveInv ==
    ASSUME IInv, NEW now \in [Families -> {"old", "new", "torn"}], Leave(now),
           UNCHANGED <<domains, records>>,
           closed' \in BOOLEAN, disturbed' \in BOOLEAN,
           ~disturbed' => ~disturbed /\ phase # "records"
    PROVE  IInv'
<1> USE DEF IInv, Leave
<1>1. TypeOK'
  <2>1. answers' \in [Domains -> [status : Statuses, ips : SUBSET Addrs,
                                  age : 0..MaxAge]]
    <3>1. NoAnswer \in [status : Statuses, ips : SUBSET Addrs, age : 0..MaxAge]
      BY DEF NoAnswer, Statuses
    <3>2. QED
      BY <3>1
  <2>2. files' \in [Families -> {"old", "new", "torn"}]
    OBVIOUS
  <2>3. QED
    BY <2>1, <2>2 DEF TypeOK, Phases
<1>2. RecordsNotNewer'
  BY DEF RecordsNotNewer
<1>3. \A d \in Domains : answers'[d] = NoAnswer
  OBVIOUS
<1>4. AnswersInv'
  BY <1>3 DEF AnswersInv, Answered, NoAnswer
<1>5. AgesInv' /\ RowsInv' /\ StoredInv' /\ FilesInv' /\ CoverageInv'
  BY DEF AgesInv, RowsInv, StoredInv, FilesInv, CoverageInv, ExportComplete,
         AnswersExported, RoutesFollowFiles
<1>6. HeldInv'
  BY DEF HeldInv, HasRecords
<1>7. QED
  BY <1>1, <1>2, <1>4, <1>5, <1>6

\* IInv is preserved by every step of the policy run and of its surroundings.
LEMMA InvStep == IInv /\ [Next]_vars => IInv'
<1> SUFFICES ASSUME IInv, [Next]_vars PROVE IInv'
  OBVIOUS
<1>0. /\ TypeOK /\ RecordsNotNewer /\ AnswersInv /\ AgesInv /\ RowsInv
      /\ CoverageInv /\ StoredInv /\ FilesInv /\ HeldInv
  BY DEF IInv
<1>1. ASSUME NEW ds \in SUBSET Domains, Begin(ds) PROVE IInv'
  <2> USE <1>0, <1>1 DEF Begin
  <2>1. TypeOK'
    BY DEF TypeOK, Phases, AnswersInv
  <2>2. RecordsNotNewer'
    BY DEF RecordsNotNewer
  <2>3. AnswersInv'
    BY DEF AnswersInv, Answered
  <2>4. AgesInv'
    BY DEF AgesInv
  <2>5. RowsInv'
    BY DEF RowsInv
  <2>6. CoverageInv'
    BY DEF CoverageInv, ExportComplete, AnswersInv, Answered
  <2>7. StoredInv'
    BY DEF StoredInv, AnswersExported, AnswersInv, Answered
  <2>8. FilesInv'
    BY DEF FilesInv, RoutesFollowFiles
  <2>9. HeldInv'
    BY DEF HeldInv, HasRecords
  <2>10. QED
    BY <2>1, <2>2, <2>3, <2>4, <2>5, <2>6, <2>7, <2>8, <2>9 DEF IInv
<1>2. ASSUME Check PROVE IInv'
  <2> USE <1>0, <1>2 DEF Check
  <2>1. TypeOK'
    BY DEF TypeOK, Phases
  <2>2. RecordsNotNewer'
    BY DEF RecordsNotNewer
  <2>3. AnswersInv'
    BY DEF AnswersInv, Answered
  <2>4. AgesInv'
    BY DEF AgesInv, AnswersInv, Answered
  <2>5. RowsInv'
    BY DEF RowsInv
  <2>6. CoverageInv'
    BY DEF CoverageInv, ExportComplete, TypeOK
  <2>7. StoredInv'
    BY DEF StoredInv, AnswersExported, AnswersInv, Answered
  <2>8. FilesInv'
    BY DEF FilesInv, RoutesFollowFiles
  <2>9. HeldInv'
    BY DEF HeldInv, HasRecords
  <2>10. QED
    BY <2>1, <2>2, <2>3, <2>4, <2>5, <2>6, <2>7, <2>8, <2>9 DEF IInv
<1>3. ASSUME NEW d \in Domains, Answer(d) PROVE IInv'
  <2> USE <1>0, <1>3 DEF Answer
  <2>1. PICK s \in Statuses \ {"none"}, ips \in SUBSET Addrs :
           /\ s = "valid" <=> ips # {}
           /\ answers' = [answers EXCEPT ![d] = [status |-> s, ips |-> ips, age |-> 0]]
    OBVIOUS
  <2>2. [status |-> s, ips |-> ips, age |-> 0]
           \in [status : Statuses, ips : SUBSET Addrs, age : 0..MaxAge]
    BY <2>1
  <2>3. /\ answers'[d] = [status |-> s, ips |-> ips, age |-> 0]
        /\ \A e \in Domains \ {d} : answers'[e] = answers[e]
    BY <2>1 DEF TypeOK
  <2>4. Answered' = Answered \cup {d}
    BY <2>1, <2>3 DEF Answered
  <2>5. TypeOK'
    BY <2>1, <2>2 DEF TypeOK
  <2>6. RecordsNotNewer'
    BY DEF RecordsNotNewer
  <2>7. AnswersInv'
    BY <2>1, <2>3, <2>4 DEF AnswersInv, TypeOK
  <2>8. AgesInv'
    <3>1. ASSUME NEW e \in Domains, e \in Answered \/ e = d,
                 NEW a \in Addrs, records[e][a] # NoRow
          PROVE  records[e][a] >= answers'[e].age
      BY <2>1, <2>3, <3>1, RowTypes DEF AgesInv
    <3>2. QED
      BY <2>4, <3>1 DEF AgesInv, Answered
  <2>9. RowsInv'
    BY DEF RowsInv
  <2>10. CoverageInv'
    BY <2>4 DEF CoverageInv, ExportComplete, TypeOK
  <2>11. StoredInv'
    BY DEF StoredInv, AnswersExported, Answered
  <2>12. FilesInv'
    BY DEF FilesInv, RoutesFollowFiles
  <2>13. HeldInv'
    BY DEF HeldInv, HasRecords
  <2>14. QED
    BY <2>5, <2>6, <2>7, <2>8, <2>9, <2>10, <2>11, <2>12, <2>13 DEF IInv
<1>4. ASSUME ResultsEnd PROVE IInv'
  <2> USE <1>0, <1>4 DEF ResultsEnd
  <2>1. TypeOK'
    BY DEF TypeOK, Phases
  <2>2. RecordsNotNewer'
    BY DEF RecordsNotNewer
  <2>3. AnswersInv'
    BY DEF AnswersInv, Answered
  <2>4. AgesInv'
    BY DEF AgesInv, Answered
  <2>5. RowsInv'
    BY DEF RowsInv
  <2>6. CoverageInv'
    BY DEF CoverageInv, ExportComplete, Answered
  <2>7. StoredInv'
    BY DEF StoredInv, AnswersExported, Answered
  <2>8. FilesInv'
    BY DEF FilesInv, RoutesFollowFiles
  <2>9. HeldInv'
    BY DEF HeldInv, HasRecords
  <2>10. QED
    BY <2>1, <2>2, <2>3, <2>4, <2>5, <2>6, <2>7, <2>8, <2>9 DEF IInv
<1>5. ASSUME EnsureDomains PROVE IInv'
  <2> USE <1>0, <1>5 DEF EnsureDomains
  <2>1. \A d \in Domains : domains'[d] = IF d \in Answered
             THEN [status |-> answers[d].status, age |-> answers[d].age]
             ELSE domains[d]
    OBVIOUS
  <2>2. \A d \in Domains : answers[d].ips # {} => d \in Answered
    BY DEF AnswersInv, Answered
  <2>3. \A d \in Domains, a \in Addrs : <<d, a>> \in rows' <=> a \in answers[d].ips
    OBVIOUS
  <2>4. TypeOK'
    <3>1. domains' \in [Domains -> [status : Statuses, age : 0..MaxAge]]
      BY RowTypes DEF TypeOK
    <3>2. QED
      BY <3>1 DEF TypeOK, Phases
  <2>5. RecordsNotNewer'
    BY <2>1, <2>2 DEF RecordsNotNewer, AgesInv, Answered
  <2>6. AnswersInv'
    BY DEF AnswersInv, Answered
  <2>7. AgesInv'
    BY DEF AgesInv, Answered
  <2>8. RowsInv'
    BY <2>1, <2>2, <2>3 DEF RowsInv, Answered
  <2>9. CoverageInv'
    BY DEF CoverageInv, ExportComplete, Answered
  <2>10. StoredInv'
    BY <2>2, <2>3, RowTypes DEF StoredInv, AnswersExported, Answered
  <2>11. FilesInv'
    BY DEF FilesInv, RoutesFollowFiles
  <2>12. HeldInv'
    <3> SUFFICES ASSUME ~disturbed, NEW d \in Domains, domains'[d].status = "valid"
                 PROVE  \/ HasRecords(d)'
                        \/ phase' = "records" /\ \E a \in Addrs : <<d, a>> \in rows'
      BY DEF HeldInv
    <3>1. CASE d \in Answered
      <4>1. answers[d].ips # {} /\ answers[d].ips \subseteq Addrs
        BY <2>1, <3>1, RowTypes DEF AnswersInv
      <4>2. PICK a \in Addrs : <<d, a>> \in rows'
        BY <2>3, <4>1
      <4>3. QED
        BY <4>2
    <3>2. CASE d \notin Answered
      BY <2>1, <3>2 DEF HeldInv, HasRecords
    <3>3. QED
      BY <3>1, <3>2
  <2>13. QED
    BY <2>4, <2>5, <2>6, <2>7, <2>8, <2>9, <2>10, <2>11, <2>12 DEF IInv
<1>6. ASSUME UpsertRecords PROVE IInv'
  <2> USE <1>0, <1>6 DEF UpsertRecords
  <2>1. PICK b \in SUBSET rows : records' = Upserted(b) /\ rows' = rows \ b
    BY DEF Batches
  <2>2. \A d \in Domains, a \in Addrs :
           records'[d][a] = IF <<d, a>> \in b THEN domains[d].age ELSE records[d][a]
    BY <2>1 DEF Upserted
  <2>3. \A d \in Domains, a \in Addrs : <<d, a>> \in b => domains[d].status # "none"
    BY <2>1 DEF RowsInv
  <2>4. \A d \in Domains, a \in Addrs :
           records'[d][a] = NoRow => records[d][a] = NoRow /\ <<d, a>> \notin b
    BY <2>2, RowTypes DEF NoRow
  <2>5. TypeOK'
    <3>1. records' \in [Domains -> [Addrs -> {NoRow} \cup 0..MaxAge]]
      BY <2>1, RowTypes DEF Upserted, TypeOK
    <3>2. QED
      BY <2>1, <3>1 DEF TypeOK, Phases
  <2>6. RecordsNotNewer'
    <3> SUFFICES ASSUME NEW d \in Domains, NEW a \in Addrs, records'[d][a] # NoRow
                 PROVE  domains[d].status # "none" /\ records'[d][a] >= domains[d].age
      BY DEF RecordsNotNewer
    <3>1. domains[d].age \in Int
      BY RowTypes
    <3>2. CASE <<d, a>> \in b
      BY <2>2, <2>3, <3>1, <3>2
    <3>3. CASE <<d, a>> \notin b
      BY <2>2, <3>3 DEF RecordsNotNewer
    <3>4. QED
      BY <3>2, <3>3
  <2>7. AnswersInv'
    BY DEF AnswersInv, Answered
  <2>8. AgesInv'
    BY DEF AgesInv, Answered
  <2>9. RowsInv'
    BY <2>1 DEF RowsInv
  <2>10. CoverageInv'
    BY DEF CoverageInv, ExportComplete, Answered
  <2>11. StoredInv'
    BY <2>1, <2>2, <2>4, RowTypes DEF StoredInv, AnswersExported, Answered
  <2>12. FilesInv'
    BY DEF FilesInv, RoutesFollowFiles
  <2>13. HeldInv'
    <3> SUFFICES ASSUME ~disturbed, NEW d \in Domains, domains[d].status = "valid"
                 PROVE  \/ HasRecords(d)'
                        \/ phase' = "records" /\ \E a \in Addrs : <<d, a>> \in rows'
      BY DEF HeldInv
    <3>1. CASE HasRecords(d)
      BY <2>2, <2>4, <3>1 DEF HasRecords
    <3>2. CASE \E a \in Addrs : <<d, a>> \in rows
      <4>1. PICK a \in Addrs : <<d, a>> \in rows
        BY <3>2
      <4>2. CASE <<d, a>> \in b
        BY <2>2, <2>4, <4>2 DEF HasRecords
      <4>3. CASE <<d, a>> \notin b
        BY <2>1, <4>1, <4>3
      <4>4. QED
        BY <4>2, <4>3
    <3>3. QED
      BY <3>1, <3>2 DEF HeldInv
  <2>14. QED
    BY <2>5, <2>6, <2>7, <2>8, <2>9, <2>10, <2>11, <2>12, <2>13 DEF IInv
<1>7. ASSUME SnapshotForDomains PROVE IInv'
  <2> USE <1>0, <1>7 DEF SnapshotForDomains
  <2>1. TypeOK'
    BY DEF TypeOK, Phases
  <2>2. RecordsNotNewer'
    BY DEF RecordsNotNewer
  <2>3. AnswersInv'
    BY DEF AnswersInv, Answered
  <2>4. AgesInv'
    BY DEF AgesInv, Answered
  <2>5. RowsInv'
    BY DEF RowsInv
  <2>6. CoverageInv'
    BY DEF CoverageInv, ExportComplete, Answered
  <2>7. StoredInv'
    <3> SUFFICES ASSUME ~vacuumed, NEW d \in Answered, NEW a \in answers[d].ips
                 PROVE  a \in out'
      BY DEF StoredInv, AnswersExported, Answered
    <3>1. d \in policyDomains /\ a \in Addrs
      BY RowTypes DEF AnswersInv, Answered
    <3>2. records[d][a] # NoRow
      BY DEF StoredInv
    <3>3. QED
      BY <3>1, <3>2
  <2>8. FilesInv'
    BY DEF FilesInv, RoutesFollowFiles
  <2>9. HeldInv'
    BY DEF HeldInv, HasRecords
  <2>10. QED
    BY <2>1, <2>2, <2>3, <2>4, <2>5, <2>6, <2>7, <2>8, <2>9 DEF IInv
<1>8. ASSUME WriteFile("export4", "v4", "export6") PROVE IInv'
  <2> USE <1>0, <1>8 DEF WriteFile
  <2>1. TypeOK'
    BY DEF TypeOK, Phases
  <2>2. RecordsNotNewer'
    BY DEF RecordsNotNewer
  <2>3. AnswersInv'
    BY DEF AnswersInv, Answered
  <2>4. AgesInv'
    BY DEF AgesInv, Answered
  <2>5. RowsInv'
    BY DEF RowsInv
  <2>6. CoverageInv'
    BY DEF CoverageInv, ExportComplete, Answered
  <2>7. StoredInv'
    BY DEF StoredInv, AnswersExported, Answered
  <2>8. FilesInv'
    BY DEF FilesInv, RoutesFollowFiles, TypeOK, Families
  <2>9. HeldInv'
    BY DEF HeldInv, HasRecords
  <2>10. QED
    BY <2>1, <2>2, <2>3, <2>4, <2>5, <2>6, <2>7, <2>8, <2>9 DEF IInv
<1>9. ASSUME WriteFile("export6", "v6", "apply") PROVE IInv'
  <2> USE <1>0, <1>9 DEF WriteFile
  <2>1. TypeOK'
    BY DEF TypeOK, Phases
  <2>2. RecordsNotNewer'
    BY DEF RecordsNotNewer
  <2>3. AnswersInv'
    BY DEF AnswersInv, Answered
  <2>4. AgesInv'
    BY DEF AgesInv, Answered
  <2>5. RowsInv'
    BY DEF RowsInv
  <2>6. CoverageInv'
    BY DEF CoverageInv, ExportComplete, Answered
  <2>7. StoredInv'
    BY DEF StoredInv, AnswersExported, Answered
  <2>8. FilesInv'
    BY DEF FilesInv, RoutesFollowFiles, TypeOK, Families
  <2>9. HeldInv'
    BY DEF HeldInv, HasRecords
  <2>10. QED
    BY <2>1, <2>2, <2>3, <2>4, <2>5, <2>6, <2>7, <2>8, <2>9 DEF IInv
<1>10. ASSUME CloseResolver PROVE IInv'
  <2> USE <1>0, <1>10 DEF CloseResolver
  <2>1. TypeOK'
    BY DEF TypeOK, Phases
  <2>2. RecordsNotNewer'
    BY DEF RecordsNotNewer
  <2>3. AnswersInv'
    BY DEF AnswersInv, Answered
  <2>4. AgesInv'
    BY DEF AgesInv, Answered
  <2>5. RowsInv'
    BY DEF RowsInv
  <2>6. CoverageInv'
    BY DEF CoverageInv, ExportComplete, Answered
  <2>7. StoredInv'
    BY DEF StoredInv, AnswersExported, Answered
  <2>8. FilesInv'
    BY DEF FilesInv, RoutesFollowFiles
  <2>9. HeldInv'
    BY DEF HeldInv, HasRecords
  <2>10. QED
    BY <2>1, <2>2, <2>3, <2>4, <2>5, <2>6, <2>7, <2>8, <2>9 DEF IInv
<1>11. ASSUME Tick PROVE IInv'
  <2> USE <1>0, <1>11 DEF Tick
  <2>1. \A d \in Domains :
           /\ domains'[d].status = domains[d].status
           /\ domains[d].status # "none" => domains'[d].age = Older(domains[d].age)
    BY DEF TypeOK, NoDomain
  <2>2. \A d \in Domains, a \in Addrs :
           /\ records'[d][a] = NoRow <=> records[d][a] = NoRow
           /\ records[d][a] # NoRow => records'[d][a] = Older(records[d][a])
    BY OlderMonotone, RowTypes DEF NoRow
  <2>3. \A d \in Domains :
           /\ answers'[d].status = answers[d].status /\ answers'[d].ips = answers[d].ips
           /\ d \in Answered /\ phase \in {"resolve", "upsert"} =>
                 answers'[d].age = Older(answers[d].age)
    BY DEF TypeOK
  <2>4. Answered' = Answered
    BY <2>3 DEF Answered
  <2>5. TypeOK'
    <3>1. domains' \in [Domains -> [status : Statuses, age : 0..MaxAge]]
      <4>1. NoDomain \in [status : Statuses, age : 0..MaxAge]
        BY DEF NoDomain, Statuses
      <4>2. \A d \in Domains : [domains[d] EXCEPT !.age = Older(@)]
                                  \in [status : Statuses, age : 0..MaxAge]
        BY AgedRow DEF TypeOK
      <4>3. QED
        BY <4>1, <4>2 DEF TypeOK
    <3>2. records' \in [Domains -> [Addrs -> {NoRow} \cup 0..MaxAge]]
      BY OlderMonotone, RowTypes
    <3>3. answers' \in [Domains -> [status : Statuses, ips : SUBSET Addrs,
                                    age : 0..MaxAge]]
      <4>1. ASSUME NEW d \in Domains
            PROVE  [answers[d] EXCEPT !.age = Older(@)]
                      \in [status : Statuses, ips : SUBSET Addrs, age : 0..MaxAge]
        <5>1. Older(answers[d].age) \in 0..MaxAge
          BY OlderMonotone, RowTypes
        <5>2. QED
          BY <5>1 DEF TypeOK
      <4>2. QED
        BY <4>1 DEF TypeOK
    <3>4. QED
      BY <3>1, <3>2, <3>3 DEF TypeOK
  <2>6. RecordsNotNewer'
    <3> SUFFICES ASSUME NEW d \in Domains, NEW a \in Addrs, records'[d][a] # NoRow
                 PROVE  domains'[d].status # "none" /\ records'[d][a] >= domains'[d].age
      BY DEF RecordsNotNewer
    <3>1. records[d][a] # NoRow
      BY <2>2
    <3>2. domains[d].status # "none" /\ records[d][a] >= domains[d].age
      BY <3>1 DEF RecordsNotNewer
    <3>3. Older(records[d][a]) >= Older(domains[d].age)
      BY <3>1, <3>2, OlderMonotone, RowTypes
    <3>4. QED
      BY <2>1, <2>2, <3>1, <3>2, <3>3
  <2>7. AnswersInv'
    BY <2>3, <2>4 DEF AnswersInv
  <2>8. AgesInv'
    <3> SUFFICES ASSUME phase \in {"resolve", "upsert"}, NEW d \in Answered,
                        NEW a \in Addrs, records'[d][a] # NoRow
                 PROVE  records'[d][a] >= answers'[d].age
      BY <2>4 DEF AgesInv
    <3>1. d \in Domains /\ records[d][a] # NoRow
      BY <2>2 DEF Answered
    <3>2. records[d][a] >= answers[d].age
      BY <3>1 DEF AgesInv
    <3>3. Older(records[d][a]) >= Older(answers[d].age)
      BY <3>1, <3>2, OlderMonotone, RowTypes
    <3>4. QED
      BY <2>2, <2>3, <3>1, <3>3
  <2>9. RowsInv'
    BY <2>1 DEF RowsInv, TypeOK
  <2>10. CoverageInv'
    BY <2>4 DEF CoverageInv, ExportComplete
  <2>11. StoredInv'
    <3>1. /\ phase \in {"records", "snapshot"} /\ ~vacuumed =>
                \A d \in Answered : \A a \in answers'[d].ips :
                   records'[d][a] # NoRow \/ (phase = "records" /\ <<d, a>> \in rows)
          /\ phase = "caps" /\ ~vacuumed =>
                \A d \in Answered : answers'[d].ips \subseteq out
      BY <2>2, <2>3, RowTypes DEF StoredInv, AnswersExported, Answered
    <3>2. QED
      BY <2>4, <3>1 DEF StoredInv, AnswersExported
  <2>12. FilesInv'
    BY DEF FilesInv, RoutesFollowFiles
  <2>13. HeldInv'
    BY <2>1, <2>2 DEF HeldInv, HasRecords
  <2>14. QED
    BY <2>5, <2>6, <2>7, <2>8, <2>9, <2>10, <2>11, <2>12, <2>13 DEF IInv
<1>12. ASSUME Vacuum PROVE IInv'
  <2> USE <1>0, <1>12 DEF Vacuum
  <2>1. TypeOK'
    BY DEF TypeOK, Phases
  <2>2. RecordsNotNewer'
    BY DEF RecordsNotNewer
  <2>3. AnswersInv'
    BY DEF AnswersInv, Answered
  <2>4. AgesInv'
    BY DEF AgesInv, Answered
  <2>5. RowsInv'
    BY DEF RowsInv
  <2>6. CoverageInv'
    BY DEF CoverageInv, ExportComplete, Answered
  <2>7. StoredInv'
    BY DEF StoredInv, AnswersExported, Answered
  <2>8. FilesInv'
    BY DEF FilesInv, RoutesFollowFiles
  <2>9. HeldInv'
    BY DEF HeldInv, HasRecords
  <2>10. QED
    BY <2>1, <2>2, <2>3, <2>4, <2>5, <2>6, <2>7, <2>8, <2>9 DEF IInv
<1>13. ASSUME Cancel PROVE IInv'
  <2> USE <1>0, <1>13 DEF Cancel
  <2>1. TypeOK'
    BY DEF TypeOK, Phases
  <2>2. RecordsNotNewer'
    BY DEF RecordsNotNewer
  <2>3. AnswersInv'
    BY DEF AnswersInv, Answered
  <2>4. AgesInv'
    BY DEF AgesInv, Answered
  <2>5. RowsInv'
    BY DEF RowsInv
  <2>6. CoverageInv'
    BY DEF CoverageInv, ExportComplete, Answered
  <2>7. StoredInv'
    BY DEF StoredInv, AnswersExported, Answered
  <2>8. FilesInv'
    BY DEF FilesInv, RoutesFollowFiles
  <2>9. HeldInv'
    BY DEF HeldInv, HasRecords
  <2>10. QED
    BY <2>1, <2>2, <2>3, <2>4, <2>5, <2>6, <2>7, <2>8, <2>9 DEF IInv
<1>14. ASSUME CacheFails(ctxDone) \/ CacheFails("db" \in Faults) PROVE IInv'
  BY <1>0, <1>14, LeaveInv DEF CacheFails, TypeOK
<1>15. ASSUME Caps PROVE IInv'
  <2>1. CASE Leave(files)
    BY <1>0, <1>15, <2>1, LeaveInv DEF Caps, TypeOK
  <2>2. CASE /\ phase' = "export4"
             /\ answers' = [d \in Domains |-> NoAnswer]
             /\ toResolve' = {} /\ fresh' = {}
             /\ UNCHANGED <<policyDomains, rows, out, ctxDone, files, vacuumed>>
    <3> USE <1>0, <1>15, <2>2 DEF Caps
    <3>1. TypeOK'
      <4>1. NoAnswer \in [status : Statuses, ips : SUBSET Addrs, age : 0..MaxAge]
        BY DEF NoAnswer, Statuses
      <4>2. QED
        BY <4>1 DEF TypeOK, Phases
    <3>2. \A d \in Domains : answers'[d] = NoAnswer
      OBVIOUS
    <3>3. RecordsNotNewer' /\ HeldInv'
      BY DEF RecordsNotNewer, HeldInv, HasRecords
    <3>4. AnswersInv'
      BY <3>2 DEF AnswersInv, Answered, NoAnswer
    <3>5. AgesInv' /\ RowsInv' /\ CoverageInv' /\ StoredInv' /\ FilesInv'
      BY DEF AgesInv, RowsInv, CoverageInv, StoredInv, FilesInv, ExportComplete,
             AnswersExported, RoutesFollowFiles
    <3>6. QED
      BY <3>1, <3>3, <3>4, <3>5 DEF IInv
  <2>3. QED
    BY <1>15, <2>1, <2>2 DEF Caps
<1>16. ASSUME NEW at \in {"export4", "export6"}, NEW f \in Families,
              WriteFileFails(at, f)
       PROVE  IInv'
  <2>1. PICK now \in HalfWritten(f) : Leave(now)
    BY <1>16 DEF WriteFileFails
  <2>2. now \in [Families -> {"old", "new", "torn"}]
    BY <1>0, HalfWrittenType
  <2>3. QED
    BY <1>0, <1>16, <2>1, <2>2, LeaveInv DEF WriteFileFails, TypeOK
<1>17. ASSUME ApplyPolicy PROVE IInv'
  BY <1>0, <1>17, LeaveInv DEF ApplyPolicy, TypeOK
<1>18. ASSUME Crash PROVE IInv'
  <2>1. PICK now \in HalfWritten("v4") \cup HalfWritten("v6") \cup {files} : Leave(now)
    BY <1>18 DEF Crash
  <2>2. now \in [Families -> {"old", "new", "torn"}]
    BY <1>0, HalfWrittenType DEF Families, TypeOK
  <2>3. QED
    BY <1>0, <1>18, <2>1, <2>2, LeaveInv DEF Crash, TypeOK
<1>19. CASE UNCHANGED vars
  <2> USE <1>0, <1>19 DEF vars
  <2>1. TypeOK' /\ RecordsNotNewer' /\ AnswersInv' /\ AgesInv' /\ RowsInv'
    BY DEF TypeOK, RecordsNotNewer, AnswersInv, AgesInv, RowsInv, Answered
  <2>2. CoverageInv' /\ StoredInv' /\ FilesInv' /\ HeldInv'
    BY DEF CoverageInv, StoredInv, FilesInv, HeldInv, ExportComplete, Answered,
           AnswersExported, RoutesFollowFiles, HasRecords
  <2>3. QED
    BY <2>1, <2>2 DEF IInv
<1>20. QED
  BY <1>1, <1>2, <1>3, <1>4, <1>5, <1>6, <1>7, <1>8, <1>9, <1>10, <1>11, <1>12,
     <1>13, <1>14, <1>15, <1>16, <1>17, <1>18, <1>19
     DEF Next, Progress, Failure, Families

\* The strengthening of the properties of runPolicy is an invariant.
THEOREM Invariance == Spec => []IInv
<1>1. Init => IInv
  <2> SUFFICES ASSUME Init PROVE IInv
    OBVIOUS
  <2> USE DEF Init
  <2>1. TypeOK
    <3>1. /\ NoAnswer \in [status : Statuses, ips : SUBSET Addrs, age : 0..MaxAge]
          /\ NoDomain \in [status : Statuses, age : 0..MaxAge]
      BY DEF NoAnswer, NoDomain, Statuses
    <3>2. /\ answers \in [Domains -> [status : Statuses, ips : SUBSET Addrs,
                                      age : 0..MaxAge]]
          /\ domains \in [Domains -> [status : Statuses, age : 0..MaxAge]]
          /\ records \in [Domains -> [Addrs -> {NoRow} \cup 0..MaxAge]]
      BY <3>1
    <3>3. files \in [Families -> {"old", "new", "torn"}]
      OBVIOUS
    <3>4. QED
      BY <3>2, <3>3 DEF TypeOK, Phases
  <2>2. RecordsNotNewer /\ AnswersInv
    BY DEF RecordsNotNewer, AnswersInv, Answered, NoAnswer
  <2>3. AgesInv /\ RowsInv /\ CoverageInv /\ StoredInv /\ FilesInv
    BY DEF AgesInv, RowsInv, CoverageInv, StoredInv, FilesInv, ExportComplete,
           AnswersExported, RoutesFollowFiles
  <2>4. HeldInv
    BY DEF HeldInv, NoDomain
  <2>5. QED
    BY <2>1, <2>2, <2>3, <2>4 DEF IInv
<1>2. IInv /\ [Next]_vars => IInv'
  BY InvStep
<1>3. QED
  BY <1>1, <1>2, PTL DEF Spec

\* Every step of runPolicy and around it keeps every variable in its type.
THEOREM TypeCorrect == Spec => []TypeOK
  BY Invariance, PTL DEF IInv

\* The domain row, which is all NeedsRefresh reads, is never older than a
\* record of the domain, however resolves, vacuums and failures interleave.
THEOREM RecordsNotNewerHolds == Spec => []RecordsNotNewer
  BY Invariance, PTL DEF IInv

\* A cancelled run never exports part of its policy's domains.
THEOREM ExportCompleteHolds == Spec => []ExportComplete
  BY Invariance, PTL DEF IInv, CoverageInv

\* Every address this run was told is in what it exports, whatever the size
\* of the transactions, unless a vacuum came in between.
THEOREM AnswersExportedHolds == Spec => []AnswersExported
  BY Invariance, PTL DEF IInv, StoredInv

\* Routes are changed only after both files of the run are complete.
THEOREM RoutesFollowFilesHolds == Spec => []RoutesFollowFiles
  BY Invariance, PTL DEF IInv, FilesInv

\* Without a vacuum and an upsert cut in half a valid domain has records, so
\* that the domain row alone may decide whether it is stale.
THEOREM ValidHasRecordsHolds == Spec => []ValidHasRecords
<1>1. IInv => ValidHasRecords
  BY DEF IInv, HeldInv, ValidHasRecords
<1>2. QED
  BY <1>1, Invariance, PTL
=============================================================================
