------------------------------ MODULE CliProofs ------------------------------
(***************************************************************************)
(* Proofs about Cli with its parts SourceStore and FileExporter, for any   *)
(* number of processes, versions, chunks, commands and faults.             *)
(*                                                                         *)
(* The store has no lock across processes: everything rests on which inode *)
(* has which name, and on who may still write to it.  TempInv says so, up  *)
(* to the harm that breaks it.  The exporter decides by a sidecar whether  *)
(* to write a file; AgreeInv and PlacedInv say when that decision is good. *)
(***************************************************************************)
EXTENDS Cli, FiniteSetTheorems, TLAPS

\* What a store holds at each point of Get: a descriptor only while it writes,
\* a version from the answer to the sidecar, an offset inside the body.
HoldsInv ==
  \A p \in Users :
    /\ store[p].pc = "write" <=> store[p].ino # 0
    /\ store[p].pc \in Fetching => store[p].got # 0
    /\ store[p].pc \in {"get", "create"} => store[p].pos = 0
    /\ store[p].pc = "write" => store[p].pos < Chunks

\* The stores that have made or will move the temporary.
Writing(p) == store[p].pc \in {"write", "rename"}

\* As long as no two stores had the temporary open together: the writer's
\* inode is not the file, it has the temporary's name unless someone removed
\* that name, and it holds what the writer has written.
TempInv ==
  "shared" \notin harm =>
    /\ \A p, q \in Users : Writing(p) /\ Writing(q) => p = q
    /\ cached # 0 => cached # temp
    /\ \A p \in Users : store[p].pc = "write" =>
         /\ store[p].ino # cached
         /\ temp # 0 => temp = store[p].ino
         /\ \A k \in 1 .. store[p].pos : data[store[p].ino][k] = store[p].got
    /\ \A p \in Users : store[p].pc = "rename" /\ temp # 0 =>
         data[temp] = Whole(store[p].got)

\* Without any of the harms one store fetches at a time, and the file is the
\* version of the store that is about to write the sidecar.
SidecarInv ==
  harm = {} =>
    /\ \A p, q \in Users :
         store[p].pc \in Fetching /\ store[q].pc \in Fetching => p = q
    /\ \A p \in Users : store[p].pc = "save" =>
         cached # 0 /\ data[cached] = Whole(store[p].got)

\* The file and its sidecar come and go in this order.
MetaInv ==
  /\ \A p \in Users : store[p].pc = "save" /\ cached = 0 => "removed" \in harm
  /\ cached # 0 /\ meta = 0 =>
       "unsaved" \in harm \/ \E p \in Users : store[p].pc = "save"
  /\ \A p \in Users : store[p].current = 0 => store[p].early \/ "unsaved" \in harm

StoreInv ==
  /\ StoreTypeOK
  /\ HoldsInv
  /\ TempInv
  /\ SidecarInv
  /\ MetaInv
  /\ FileWhole
  /\ SidecarDescribes
  /\ MetadataFollowsFile

-----------------------------------------------------------------------------
\* A call that has read the sidecar of family f and has not written it.
Open(p, f) == write[p].pc \in {"rename", "sidecar"} /\ Fam(p) = f

\* A call has content from its beginning, and a file to replace in "rename".
CallInv ==
  \A p \in Writers :
    /\ write[p].pc # "off" => write[p].content \in Contents
    /\ write[p].pc = "rename" => write[p].changed

\* Calls for one file that overlap know of each other.
AloneInv ==
  \A p, q \in Writers, f \in Names :
    p # q /\ Open(p, f) /\ Open(q, f) => ~write[p].alone

\* A call that had the file to itself finds its content in place when it comes
\* to the sidecar.
PlacedInv ==
  \A p \in Writers :
    write[p].pc = "sidecar" /\ write[p].alone /\ (write[p].changed \/ ~skewed[Fam(p)]) =>
      file[Fam(p)] = write[p].content

\* Between calls the sidecar describes the file or says nothing.
AgreeInv ==
  \A f \in Names :
    ~skewed[f] /\ (\A p \in Writers : ~(write[p].pc = "sidecar" /\ Fam(p) = f /\ write[p].changed)) =>
      sha[f] \in {file[f], Nothing}

ExportInv ==
  /\ ExportTypeOK
  /\ CallInv
  /\ AloneInv
  /\ PlacedInv
  /\ AgreeInv

IInv == StoreInv /\ ExportInv /\ TypeOK

-----------------------------------------------------------------------------
USE StoreAssumption, ProcessAssumption, ContentAssumption

StoreRecs == [pc : StorePCs, current : Versions \cup {0},
              got : Versions \cup {0}, ino : Inodes \cup {0},
              pos : 0 .. Chunks, early : BOOLEAN]

\* The fields of a store have their types.
LEMMA StoreFields ==
  ASSUME StoreTypeOK, NEW p \in Users
  PROVE  /\ store[p] \in StoreRecs
         /\ store[p].pc \in StorePCs /\ store[p].current \in Versions \cup {0}
         /\ store[p].got \in Versions \cup {0} /\ store[p].ino \in Inodes \cup {0}
         /\ store[p].pos \in 0 .. Chunks /\ store[p].early \in BOOLEAN
<1>1. store[p] \in StoreRecs
  BY DEF StoreTypeOK, StoreRecs
<1>2. QED
  BY <1>1 DEF StoreRecs

\* Dropping the contents of inodes that nothing refers to keeps the others.
LEMMA KeptData ==
  ASSUME NEW d \in [Inodes -> Bodies], NEW c, NEW t, NEW s
  PROVE  /\ Kept(d, c, t, s) \in [Inodes -> Bodies]
         /\ \A i \in Inodes : i \in Live(c, t, s) => Kept(d, c, t, s)[i] = d[i]
<1>1. Empty \in Bodies
  BY DEF Empty, Bodies
<1>2. QED
  BY <1>1 DEF Kept

\* There is an inode for a new temporary: the names and the descriptors of
\* the stores cannot use up Cardinality(Users) + 2.
LEMMA FreshInodeExists ==
  ASSUME StoreTypeOK, temp = 0
  PROVE  FreshInode \in Inodes /\ FreshInode \notin Live(cached, temp, store)
<1> DEFINE Held == {store[p].ino : p \in Users}
           f == [p \in Users |-> store[p].ino]
           Used == Held \cup {cached}
           n == Cardinality(Users)
<1>1. f \in Surjection(Users, Held)
  BY DEF Surjection
<1>2. IsFiniteSet(Held) /\ Cardinality(Held) <= n
  BY <1>1, FS_Surjection
<1>3. Cardinality(Held) \in Nat /\ n \in Nat
  BY <1>2, FS_CardinalityType
<1>4. IsFiniteSet(Used) /\ Cardinality(Used) <= n + 1
  <2>1. /\ IsFiniteSet(Used)
        /\ Cardinality(Used) = IF cached \in Held THEN Cardinality(Held)
                               ELSE Cardinality(Held) + 1
    BY <1>2, FS_AddElement
  <2> HIDE DEF Used, Held, n
  <2>2. QED
    BY <1>2, <1>3, <2>1
<1>5. Cardinality(Inodes) = n + 2
  <2>1. 1 \in Int /\ n + 2 \in Int /\ ~(1 > n + 2)
    BY <1>3
  <2>2. Cardinality(1 .. n + 2) = (n + 2) - 1 + 1
    BY <2>1, FS_Interval
  <2>3. QED
    BY <1>3, <2>2 DEF Inodes
<1>6. ~(Inodes \subseteq Used)
  <2>1. ASSUME Inodes \subseteq Used PROVE FALSE
    <3>1. Cardinality(Inodes) <= Cardinality(Used)
      BY <1>4, <2>1, FS_Subset
    <3>2. Cardinality(Used) \in Nat
      BY <1>4, FS_CardinalityType
    <3> HIDE DEF Used, n
    <3>3. QED
      BY <1>3, <1>4, <1>5, <3>1, <3>2
  <2>2. QED
    BY <2>1
<1>7. 0 \notin Inodes
  BY <1>3 DEF Inodes
<1>8. \E i \in Inodes : i \notin Live(cached, temp, store)
  BY <1>6, <1>7 DEF Live
<1>9. QED
  BY <1>8 DEF FreshInode

\* A step after which store p holds nothing: Get has returned in one of its
\* ways, or the store is new, gone or dead.  The temporary keeps its name or
\* loses it, inodes that are still referred to keep their contents, and a
\* store that ends before its sidecar is remembered.
LEMMA StoreLetsGo ==
  ASSUME StoreInv, NEW p \in Users, NEW s \in StoreRecs,
         store' = [store EXCEPT ![p] = s],
         s.pc \in {"off", "get", "ok", "failed"}, s.ino = 0,
         s.pc = "get" => s.pos = 0,
         s.current = 0 => s.early \/ "unsaved" \in harm',
         temp' \in {temp, 0}, UNCHANGED <<server, cached>>,
         data' \in [Inodes -> Bodies],
         \A i \in Inodes : i \in Live(cached, temp', store') => data'[i] = data[i],
         meta' \in {meta, 0}, meta' # meta => "unsaved" \in harm',
         harm \subseteq harm', harm' \subseteq harm \cup {"unsaved"},
         store[p].pc = "save" => "unsaved" \in harm'
  PROVE  StoreInv'
<1> USE DEF StoreInv
<1>1. StoreTypeOK'
  BY DEF StoreTypeOK, StoreRecs
<1>2. /\ store'[p] = s
      /\ \A q \in Users \ {p} : store'[q] = store[q]
  BY DEF StoreTypeOK
<1>3. HoldsInv'
  BY <1>2 DEF HoldsInv, Fetching
<1>4. cached # 0 => data'[cached] = data[cached]
  BY DEF Live, StoreTypeOK
<1>5. temp' # 0 => temp' = temp /\ data'[temp] = data[temp]
  BY DEF Live, StoreTypeOK
<1>6. \A q \in Users \ {p} : store[q].ino # 0 => data'[store[q].ino] = data[store[q].ino]
  <2>1. ASSUME NEW q \in Users \ {p}, store[q].ino # 0
        PROVE  data'[store[q].ino] = data[store[q].ino]
    <3>1. store[q].ino \in Inodes
      BY <2>1, StoreFields
    <3>2. store[q].ino \in Live(cached, temp', store')
      BY <1>2 DEF Live
    <3>3. QED
      BY <3>1, <3>2
  <2>2. QED
    BY <2>1
<1>7. TempInv'
  <2> SUFFICES ASSUME "shared" \notin harm PROVE TempInv'
    BY DEF TempInv
  <2>1. \A q, r \in Users : Writing(q)' /\ Writing(r)' => q = r
    BY <1>2 DEF TempInv, Writing
  <2>2. cached' # 0 => cached' # temp'
    BY DEF TempInv
  <2>3. ASSUME NEW q \in Users, store'[q].pc = "write"
        PROVE  /\ store'[q].ino # cached'
               /\ temp' # 0 => temp' = store'[q].ino
               /\ \A k \in 1 .. store'[q].pos : data'[store'[q].ino][k] = store'[q].got
    <3>1. q # p /\ store'[q] = store[q] /\ store[q].ino # 0
      BY <1>2, <2>3 DEF HoldsInv
    <3>2. QED
      BY <1>5, <1>6, <2>3, <3>1 DEF TempInv
  <2>4. ASSUME NEW q \in Users, store'[q].pc = "rename", temp' # 0
        PROVE  data'[temp'] = Whole(store'[q].got)
    BY <1>2, <1>5, <2>4 DEF TempInv
  <2>5. QED
    BY <2>1, <2>2, <2>3, <2>4 DEF TempInv
<1>8. SidecarInv'
  BY <1>2, <1>4 DEF SidecarInv, Fetching
<1>9. MetaInv'
  BY <1>2 DEF MetaInv
<1>10. FileWhole'
  BY <1>4 DEF FileWhole
<1>11. SidecarDescribes'
  BY <1>2, <1>4 DEF SidecarDescribes
<1>12. MetadataFollowsFile'
  BY <1>2, <1>9 DEF MetadataFollowsFile, MetaInv
<1>13. QED
  BY <1>1, <1>3, <1>7, <1>8, <1>9, <1>10, <1>11, <1>12

\* Returned leaves a store that holds nothing.
LEMMA ReturnedStore ==
  ASSUME StoreTypeOK, NEW p \in Users, NEW how \in {"ok", "failed"}
  PROVE  /\ Returned(store[p], how) \in StoreRecs
         /\ Returned(store[p], how).pc = how
         /\ Returned(store[p], how).ino = 0
         /\ Returned(store[p], how).current = store[p].current
         /\ Returned(store[p], how).early = store[p].early
<1>1. store[p] \in StoreRecs /\ how \in StorePCs
  BY StoreFields DEF StorePCs
<1>2. 0 \in 0 .. Chunks
  OBVIOUS
<1>3. QED
  BY <1>1, <1>2 DEF Returned, StoreRecs

\* Every way in which Get returns without having replaced the file.
LEMMA StoreReturns ==
  ASSUME StoreInv, NEW p \in Users, NEW t \in {temp, 0}, fallback(p, t),
         store[p].pc # "save"
  PROVE  StoreInv'
<1> DEFINE s == Returned(store[p], FileOr("failed"))
           st == [store EXCEPT ![p] = s]
<1>1. StoreTypeOK /\ FileOr("failed") \in {"ok", "failed"}
  BY DEF StoreInv, FileOr
<1>2. /\ s \in StoreRecs /\ s.pc \in {"ok", "failed"} /\ s.ino = 0
      /\ s.current = store[p].current /\ s.early = store[p].early
  BY <1>1, ReturnedStore
<1>3. s.current = 0 => s.early \/ "unsaved" \in harm
  BY <1>2 DEF StoreInv, MetaInv
<1>4. /\ store' = st /\ temp' = t /\ data' = Kept(data, cached, t, st)
      /\ UNCHANGED <<server, cached, meta, harm>>
  BY DEF fallback
<1>5. /\ data' \in [Inodes -> Bodies]
      /\ \A i \in Inodes : i \in Live(cached, temp', store') => data'[i] = data[i]
  BY <1>1, <1>4, KeptData DEF StoreTypeOK
<1> HIDE DEF s
<1>6. QED
  BY <1>2, <1>3, <1>4, <1>5, StoreLetsGo

\* NewHTTPStore, and the two ways in which Get returns without a request or
\* with a 304.
LEMMA StoreLooks ==
  ASSUME StoreInv, NEW p \in Users,
         NewHTTPStore(p) \/ GetCached(p) \/ NotModified(p)
  PROVE  StoreInv'
<1>0. StoreTypeOK /\ data \in [Inodes -> Bodies]
  BY DEF StoreInv, StoreTypeOK
<1>1. ASSUME NewHTTPStore(p) PROVE StoreInv'
  <2> DEFINE e == (cached = 0 \/ \E q \in Users : store[q].pc = "save")
             s == [NoStore EXCEPT !.pc = "get", !.current = meta, !.early = e]
  <2>1. /\ s \in StoreRecs /\ s.pc = "get" /\ s.ino = 0 /\ s.pos = 0
        /\ s.current = meta /\ s.early = e
    <3>1. 0 \in 0 .. Chunks /\ e \in BOOLEAN
      OBVIOUS
    <3>2. QED
      BY <1>0, <3>1 DEF NoStore, StoreRecs, StorePCs, StoreTypeOK
  <2>2. s.current = 0 => s.early \/ "unsaved" \in harm
    BY <2>1 DEF StoreInv, MetaInv
  <2>3. /\ store' = [store EXCEPT ![p] = s] /\ store[p].pc = "off"
        /\ UNCHANGED <<server, cached, temp, data, meta, harm>>
    BY <1>1 DEF NewHTTPStore
  <2> HIDE DEF s
  <2>4. QED
    BY <1>0, <2>1, <2>2, <2>3, StoreLetsGo
<1>2. ASSUME GetCached(p) \/ NotModified(p) PROVE StoreInv'
  <2> DEFINE s == Returned(store[p], FileOr("failed"))
  <2>1. FileOr("failed") \in {"ok", "failed"}
    BY DEF FileOr
  <2>2. /\ s \in StoreRecs /\ s.pc \in {"ok", "failed"} /\ s.ino = 0
        /\ s.current = store[p].current /\ s.early = store[p].early
    BY <1>0, <2>1, ReturnedStore
  <2>3. s.current = 0 => s.early \/ "unsaved" \in harm
    BY <2>2 DEF StoreInv, MetaInv
  <2>4. /\ store' = [store EXCEPT ![p] = s] /\ store[p].pc = "get"
        /\ UNCHANGED <<server, cached, temp, data, meta, harm>>
    BY <1>2 DEF GetCached, NotModified
  <2> HIDE DEF s
  <2>5. QED
    BY <1>0, <2>2, <2>3, <2>4, StoreLetsGo
<1>3. QED
  BY <1>1, <1>2

\* The ways in which a request, a download or a rename fails.
LEMMA StoreFails ==
  ASSUME StoreInv, NEW p \in Users,
         RequestFails(p) \/ DownloadFails(p) \/ RenameFails(p)
  PROVE  StoreInv'
<1>1. /\ store[p].pc # "save"
      /\ fallback(p, temp) \/ fallback(p, 0)
  BY DEF RequestFails, DownloadFails, RenameFails
<1>2. QED
  BY <1>1, StoreReturns

\* The sidecar is not written, or the process that has the store exits or dies.
LEMMA StoreEnds ==
  ASSUME StoreInv, NEW p \in Users,
         \/ saveMetadataFails(p) \/ StoreDies(p)
         \/ StoreReleased(p) /\ store[p].pc \in {"ok", "failed"}
  PROVE  StoreInv'
<1>0. StoreTypeOK /\ data \in [Inodes -> Bodies]
  BY DEF StoreInv, StoreTypeOK
<1>1. /\ NoStore \in StoreRecs /\ NoStore.pc = "off" /\ NoStore.ino = 0
      /\ NoStore.early
  <2>1. 0 \in 0 .. Chunks
    OBVIOUS
  <2>2. QED
    BY <2>1 DEF NoStore, StoreRecs, StorePCs
<1>2. ASSUME saveMetadataFails(p) PROVE StoreInv'
  <2> DEFINE s == Returned(store[p], "ok")
  <2>1. s \in StoreRecs /\ s.pc = "ok" /\ s.ino = 0
    BY <1>0, ReturnedStore
  <2>2. /\ store' = [store EXCEPT ![p] = s] /\ harm' = harm \cup {"unsaved"}
        /\ meta' \in {meta, 0} /\ UNCHANGED <<server, cached, temp, data>>
    BY <1>2 DEF saveMetadataFails
  <2> HIDE DEF s
  <2>3. QED
    BY <1>0, <2>1, <2>2, StoreLetsGo
<1>3. ASSUME StoreDies(p) PROVE StoreInv'
  <2> DEFINE st == [store EXCEPT ![p] = NoStore]
  <2>1. /\ store' = st /\ data' = Kept(data, cached, temp, st)
        /\ UNCHANGED <<server, cached, temp>>
    BY <1>3 DEF StoreDies
  <2>2. /\ data' \in [Inodes -> Bodies]
        /\ \A i \in Inodes : i \in Live(cached, temp', store') => data'[i] = data[i]
    BY <1>0, <2>1, KeptData
  <2>3. /\ meta' \in {meta, 0}
        /\ meta' # meta => "unsaved" \in harm'
        /\ harm \subseteq harm' /\ harm' \subseteq harm \cup {"unsaved"}
        /\ store[p].pc = "save" => "unsaved" \in harm'
    BY <1>3 DEF StoreDies
  <2>4. QED
    BY <1>1, <2>1, <2>2, <2>3, StoreLetsGo
<1>4. ASSUME StoreReleased(p), store[p].pc \in {"ok", "failed"} PROVE StoreInv'
  BY <1>0, <1>1, <1>4, StoreLetsGo DEF StoreReleased
<1>5. QED
  BY <1>2, <1>3, <1>4

\* 200: the store is about to fetch.
LEMMA StoreAccepts ==
  ASSUME StoreInv, NEW p \in Users, Accepted(p)
  PROVE  StoreInv'
<1> USE DEF StoreInv
<1>0. /\ store[p].pc = "get" /\ store[p].ino = 0 /\ server \in Versions /\ 0 \notin Versions
      /\ UNCHANGED <<server, cached, temp, data, meta>>
  BY StoreFields DEF Accepted, HoldsInv, StoreTypeOK
<1> DEFINE s == [store[p] EXCEPT !.pc = "create", !.got = server]
<1>1. /\ s \in StoreRecs
      /\ s.pc = "create" /\ s.got = server /\ s.ino = 0 /\ s.pos = store[p].pos
      /\ s.current = store[p].current /\ s.early = store[p].early
  <2>1. store[p] \in StoreRecs
    BY StoreFields
  <2>2. QED
    BY <1>0, <2>1 DEF StoreRecs, StorePCs
<1>2. /\ store'[p] = s /\ store' \in [Users -> StoreRecs]
      /\ \A q \in Users \ {p} : store'[q] = store[q]
  <2>1. store' = [store EXCEPT ![p] = s]
    BY DEF Accepted
  <2> HIDE DEF s
  <2>2. QED
    BY <1>1, <2>1 DEF StoreTypeOK, StoreRecs
<1> HIDE DEF s
<1>3. /\ harm' = harm \/ harm' = harm \cup {"overlap"}
      /\ harm' = {} => \A q \in Users \ {p} : store[q].pc \notin Fetching
  BY DEF Accepted
<1>4. StoreTypeOK'
  BY <1>0, <1>2, <1>3 DEF StoreTypeOK, StoreRecs
<1>5. HoldsInv'
  BY <1>0, <1>1, <1>2 DEF HoldsInv, Fetching
<1>6. TempInv'
  BY <1>0, <1>1, <1>2, <1>3 DEF TempInv, Writing
<1>7. SidecarInv'
  BY <1>0, <1>1, <1>2, <1>3 DEF SidecarInv, Fetching
<1>8. MetaInv'
  BY <1>0, <1>1, <1>2, <1>3 DEF MetaInv
<1>9. FileWhole' /\ SidecarDescribes'
  BY <1>0, <1>1, <1>2, <1>3 DEF FileWhole, SidecarDescribes
<1>10. MetadataFollowsFile'
  BY <1>0, <1>1, <1>2, <1>3 DEF MetadataFollowsFile
<1>11. QED
  BY <1>4, <1>5, <1>6, <1>7, <1>8, <1>9, <1>10

\* os.Create: an inode of its own, or the one that has the temporary's name.
LEMMA StoreCreates ==
  ASSUME StoreInv, NEW p \in Users, Create(p)
  PROVE  StoreInv'
<1> USE DEF StoreInv
<1> DEFINE i == IF temp # 0 THEN temp ELSE FreshInode
<1>0. /\ store[p].pc = "create" /\ store[p].pos = 0 /\ Empty \in Bodies
      /\ UNCHANGED <<server, cached, meta>>
  BY DEF Create, HoldsInv, Empty, Bodies
<1>1. i \in Inodes /\ i # 0
  <2>1. CASE temp # 0
    BY <2>1 DEF StoreTypeOK
  <2>2. CASE temp = 0
    BY <2>2, FreshInodeExists DEF Live
  <2>3. QED
    BY <2>1, <2>2
<1>2. "shared" \notin harm => i # cached
  <2>1. CASE temp # 0
    BY <2>1 DEF TempInv
  <2>2. CASE temp = 0
    BY <2>2, FreshInodeExists DEF Live
  <2>3. QED
    BY <2>1, <2>2
<1>3. /\ temp' = i /\ data' = [data EXCEPT ![i] = Empty]
      /\ store' = [store EXCEPT ![p].pc = "write", ![p].ino = i]
  BY DEF Create
<1> HIDE DEF i
<1> DEFINE s == [store[p] EXCEPT !.pc = "write", !.ino = i]
<1>4. /\ s \in StoreRecs
      /\ s.pc = "write" /\ s.got = store[p].got /\ s.ino = i /\ s.pos = 0
      /\ s.current = store[p].current /\ s.early = store[p].early
  <2>1. store[p] \in StoreRecs
    BY StoreFields
  <2>2. QED
    BY <1>0, <1>1, <2>1 DEF StoreRecs, StorePCs
<1>5. /\ store'[p] = s /\ store' \in [Users -> StoreRecs]
      /\ \A q \in Users \ {p} : store'[q] = store[q]
  <2>1. store' = [store EXCEPT ![p] = s]
    BY <1>3
  <2> HIDE DEF s
  <2>2. QED
    BY <1>4, <2>1 DEF StoreTypeOK, StoreRecs
<1> HIDE DEF s
<1>6. /\ harm' = harm \/ harm' = harm \cup {"shared"}
      /\ "shared" \notin harm' => \A q \in Users \ {p} : ~Writing(q)
  BY DEF Create, Writing
<1>7. /\ data' \in [Inodes -> Bodies]
      /\ \A j \in Inodes : j # i => data'[j] = data[j]
  BY <1>0, <1>1, <1>3 DEF StoreTypeOK
<1>8. "shared" \notin harm /\ cached # 0 => data'[cached] = data[cached]
  BY <1>2, <1>7 DEF StoreTypeOK
<1>9. StoreTypeOK'
  BY <1>0, <1>1, <1>3, <1>5, <1>6, <1>7 DEF StoreTypeOK, StoreRecs
<1>10. HoldsInv'
  BY <1>0, <1>1, <1>4, <1>5 DEF HoldsInv, Fetching
<1>11. TempInv'
  BY <1>0, <1>1, <1>2, <1>3, <1>4, <1>5, <1>6 DEF TempInv, Writing
<1>12. SidecarInv'
  BY <1>0, <1>4, <1>5, <1>6, <1>8 DEF SidecarInv, Fetching
<1>13. MetaInv'
  BY <1>0, <1>4, <1>5, <1>6 DEF MetaInv
<1>14. FileWhole' /\ SidecarDescribes'
  BY <1>0, <1>4, <1>5, <1>6, <1>8 DEF FileWhole, SidecarDescribes
<1>15. MetadataFollowsFile'
  BY <1>0, <1>4, <1>5, <1>6 DEF MetadataFollowsFile
<1>16. QED
  BY <1>9, <1>10, <1>11, <1>12, <1>13, <1>14, <1>15

\* A write of the body.  It goes to the writer's own inode, which is not the
\* file; the last one makes that inode one version.
LEMMA StoreWrites ==
  ASSUME StoreInv, NEW p \in Users, Write(p)
  PROVE  StoreInv'
<1> USE DEF StoreInv
<1> DEFINE k == store[p].pos + 1
           i == store[p].ino
           g == store[p].got
           n == IF k = Chunks THEN "rename" ELSE "write"
           j == IF k = Chunks THEN 0 ELSE i
<1>0. /\ store[p].pc = "write" /\ i \in Inodes /\ i # 0 /\ g \in Versions
      /\ store[p].pos \in Nat /\ k \in 1 .. Chunks
      /\ UNCHANGED <<server, cached, temp, meta, harm>>
  <2>1. store[p].pc = "write" /\ UNCHANGED <<server, cached, temp, meta, harm>>
    BY DEF Write
  <2>2. i # 0 /\ g # 0 /\ store[p].pos < Chunks
    BY <2>1 DEF HoldsInv, Fetching
  <2>3. i \in Inodes /\ g \in Versions /\ store[p].pos \in 0 .. Chunks
    BY <2>2, StoreFields
  <2>4. QED
    BY <2>1, <2>2, <2>3
<1>1. /\ data' = [data EXCEPT ![i][k] = g]
      /\ store' = [store EXCEPT ![p].pos = k, ![p].pc = n, ![p].ino = j]
  BY DEF Write
<1> DEFINE s == [store[p] EXCEPT !.pos = k, !.pc = n, !.ino = j]
<1>2. /\ s \in StoreRecs
      /\ s.pc = n /\ s.got = g /\ s.ino = j /\ s.pos = k
      /\ s.current = store[p].current /\ s.early = store[p].early
  <2>1. store[p] \in StoreRecs /\ k \in 0 .. Chunks /\ n \in StorePCs /\ j \in Inodes \cup {0}
    BY <1>0, StoreFields DEF StorePCs
  <2> HIDE DEF k, n, j
  <2>2. QED
    BY <2>1 DEF StoreRecs
<1>3. /\ store'[p] = s /\ store' \in [Users -> StoreRecs]
      /\ \A q \in Users \ {p} : store'[q] = store[q]
  <2>1. store' = [store EXCEPT ![p] = s]
    BY <1>1
  <2> HIDE DEF s
  <2>2. QED
    BY <1>2, <2>1 DEF StoreTypeOK, StoreRecs
<1> HIDE DEF s
<1>4. /\ data' \in [Inodes -> Bodies]
      /\ \A a \in Inodes : a # i => data'[a] = data[a]
      /\ data'[i][k] = g
      /\ \A b \in 1 .. Chunks : b # k => data'[i][b] = data[i][b]
  <2>1. data[i] \in Bodies /\ data \in [Inodes -> Bodies]
    BY <1>0 DEF StoreTypeOK
  <2>2. [data[i] EXCEPT ![k] = g] \in Bodies
    BY <1>0, <2>1 DEF Bodies
  <2>3. data' = [data EXCEPT ![i] = [data[i] EXCEPT ![k] = g]]
    BY <1>1
  <2> HIDE DEF k, g
  <2>4. data'[i] = [data[i] EXCEPT ![k] = g]
    BY <1>0, <2>1, <2>3
  <2>5. QED
    BY <1>0, <2>1, <2>2, <2>3, <2>4 DEF Bodies
<1>5. "shared" \notin harm =>
        \A b \in 1 .. k : data'[i][b] = g
  BY <1>0, <1>4 DEF TempInv
<1>6. "shared" \notin harm /\ k = Chunks => data'[i] = Whole(g)
  <2> SUFFICES ASSUME "shared" \notin harm, k = Chunks PROVE data'[i] = Whole(g)
    OBVIOUS
  <2>1. data'[i] \in Bodies /\ Whole(g) \in Bodies
    BY <1>0, <1>4 DEF Whole, Bodies
  <2>2. \A b \in 1 .. Chunks : data'[i][b] = Whole(g)[b]
    BY <1>5 DEF Whole
  <2>3. QED
    BY <2>1, <2>2 DEF Bodies
<1>7. "shared" \notin harm /\ cached # 0 => data'[cached] = data[cached]
  BY <1>0, <1>4 DEF TempInv, StoreTypeOK
<1>8. /\ n \in {"write", "rename"}
      /\ n = "write" => j = i /\ k < Chunks
      /\ n = "rename" => j = 0 /\ k = Chunks
  BY <1>0
<1> HIDE DEF k, i, g, n, j
<1>9. StoreTypeOK'
  BY <1>0, <1>3, <1>4 DEF StoreTypeOK, StoreRecs
<1>10. HoldsInv'
  <2>1. g # 0
    BY <1>0
  <2>2. QED
    BY <1>0, <1>2, <1>3, <1>8, <2>1 DEF HoldsInv, Fetching
<1>11. TempInv'
  <2> SUFFICES ASSUME "shared" \notin harm PROVE TempInv'
    BY <1>0 DEF TempInv
  <2>1. \A q \in Users \ {p} : ~Writing(q) /\ ~Writing(q)'
    BY <1>0, <1>3 DEF TempInv, Writing
  <2>2. cached' # 0 => cached' # temp'
    BY <1>0 DEF TempInv
  <2>3. i # cached /\ (temp # 0 => temp = i)
    BY <1>0 DEF TempInv, i
  <2>4. ASSUME NEW q \in Users, store'[q].pc = "write"
        PROVE  /\ store'[q].ino # cached'
               /\ temp' # 0 => temp' = store'[q].ino
               /\ \A b \in 1 .. store'[q].pos : data'[store'[q].ino][b] = store'[q].got
    <3>1. q = p
      BY <2>1, <2>4 DEF Writing
    <3>2. store'[q].ino = i /\ store'[q].pos = k /\ store'[q].got = g
      BY <1>2, <1>3, <1>8, <2>4, <3>1
    <3>3. QED
      BY <1>0, <1>5, <2>3, <3>2
  <2>5. ASSUME NEW q \in Users, store'[q].pc = "rename", temp' # 0
        PROVE  data'[temp'] = Whole(store'[q].got)
    <3>1. q = p
      BY <2>1, <2>5 DEF Writing
    <3>2. k = Chunks /\ store'[q].got = g
      BY <1>2, <1>3, <1>8, <2>5, <3>1
    <3>3. QED
      BY <1>0, <1>6, <2>3, <2>5, <3>2
  <2>6. \A q, r \in Users : Writing(q)' /\ Writing(r)' => q = r
    BY <2>1
  <2>7. QED
    BY <2>2, <2>4, <2>5, <2>6 DEF TempInv
<1>12. SidecarInv'
  BY <1>0, <1>2, <1>3, <1>7, <1>8 DEF SidecarInv, Fetching
<1>13. MetaInv'
  BY <1>0, <1>2, <1>3, <1>8 DEF MetaInv
<1>14. FileWhole' /\ SidecarDescribes'
  BY <1>0, <1>2, <1>3, <1>7, <1>8 DEF FileWhole, SidecarDescribes
<1>15. MetadataFollowsFile'
  BY <1>0, <1>2, <1>3, <1>8 DEF MetadataFollowsFile
<1>16. QED
  BY <1>9, <1>10, <1>11, <1>12, <1>13, <1>14, <1>15

\* os.Rename: the temporary becomes the file.
LEMMA StoreRenames ==
  ASSUME StoreInv, NEW p \in Users, Rename(p)
  PROVE  StoreInv'
<1> USE DEF StoreInv
<1> DEFINE g == store[p].got
           s == [store[p] EXCEPT !.pc = "save", !.current = g]
           st == [store EXCEPT ![p] = s]
<1>0. /\ store[p].pc = "rename" /\ temp \in Inodes /\ temp # 0
      /\ g \in Versions /\ g # 0 /\ store[p].ino = 0
      /\ cached' = temp /\ temp' = 0 /\ UNCHANGED <<server, meta, harm>>
  <2>1. /\ store[p].pc = "rename" /\ temp # 0
        /\ cached' = temp /\ temp' = 0 /\ UNCHANGED <<server, meta, harm>>
    BY DEF Rename
  <2>2. g # 0 /\ store[p].ino = 0
    BY <2>1 DEF HoldsInv, Fetching
  <2>3. QED
    BY <2>1, <2>2, StoreFields DEF StoreTypeOK
<1>1. store' = st /\ data' = Kept(data, temp, 0, st)
  BY DEF Rename
<1>2. /\ s \in StoreRecs
      /\ s.pc = "save" /\ s.got = g /\ s.ino = 0 /\ s.pos = store[p].pos
      /\ s.current = g /\ s.early = store[p].early
  <2>1. store[p] \in StoreRecs
    BY StoreFields
  <2> HIDE DEF g
  <2>2. s \in StoreRecs /\ s.ino = store[p].ino /\ s.got = store[p].got
    BY <1>0, <2>1 DEF StoreRecs, StorePCs
  <2>3. QED
    BY <1>0, <2>1, <2>2 DEF StoreRecs, g
<1>3. /\ store'[p] = s /\ store' \in [Users -> StoreRecs]
      /\ \A q \in Users \ {p} : store'[q] = store[q]
  <2> HIDE DEF s
  <2>1. QED
    BY <1>1, <1>2 DEF StoreTypeOK, StoreRecs
<1>4. /\ data' \in [Inodes -> Bodies]
      /\ \A a \in Inodes : a \in Live(temp, 0, store') => data'[a] = data[a]
  BY <1>1, KeptData DEF StoreTypeOK
<1> HIDE DEF s, g
<1>5. data'[temp] = data[temp]
  BY <1>0, <1>4 DEF Live
<1>6. "shared" \notin harm => data[temp] = Whole(g)
  BY <1>0 DEF TempInv, g
<1>7. StoreTypeOK'
  BY <1>0, <1>3, <1>4 DEF StoreTypeOK, StoreRecs
<1>8. HoldsInv'
  BY <1>0, <1>2, <1>3 DEF HoldsInv, Fetching
<1>9. "shared" \notin harm => \A q \in Users : ~Writing(q)'
  BY <1>0, <1>2, <1>3 DEF TempInv, Writing
<1>10. TempInv'
  BY <1>0, <1>9 DEF TempInv, Writing
<1>11. SidecarInv'
  <2> SUFFICES ASSUME harm = {} PROVE SidecarInv'
    BY <1>0 DEF SidecarInv
  <2>1. \A q \in Users \ {p} : store'[q].pc \notin Fetching
    BY <1>0, <1>3 DEF SidecarInv, Fetching
  <2>2. QED
    BY <1>0, <1>2, <1>3, <1>5, <1>6, <2>1 DEF SidecarInv, Fetching
<1>12. MetaInv'
  BY <1>0, <1>2, <1>3 DEF MetaInv
<1>13. FileWhole' /\ SidecarDescribes'
  BY <1>0, <1>2, <1>3, <1>5, <1>6 DEF FileWhole, SidecarDescribes
<1>14. MetadataFollowsFile'
  BY <1>0, <1>2, <1>3 DEF MetadataFollowsFile
<1>15. QED
  BY <1>7, <1>8, <1>10, <1>11, <1>12, <1>13, <1>14

\* saveMetadata: the sidecar names the version that was moved into place.
LEMMA StoreSaves ==
  ASSUME StoreInv, NEW p \in Users, saveMetadata(p)
  PROVE  StoreInv'
<1> USE DEF StoreInv
<1> DEFINE g == store[p].got
           s == Returned(store[p], "ok")
<1>0. /\ store[p].pc = "save" /\ g \in Versions /\ g # 0 /\ meta' = g
      /\ UNCHANGED <<server, cached, temp, data, harm>>
  <2>1. /\ store[p].pc = "save" /\ meta' = g
        /\ UNCHANGED <<server, cached, temp, data, harm>>
    BY DEF saveMetadata
  <2>2. QED
    BY <2>1, StoreFields DEF HoldsInv, Fetching
<1>1. /\ s \in StoreRecs /\ s.pc = "ok" /\ s.ino = 0
      /\ s.current = store[p].current /\ s.early = store[p].early
  BY ReturnedStore
<1>2. /\ store'[p] = s /\ store' \in [Users -> StoreRecs]
      /\ \A q \in Users \ {p} : store'[q] = store[q]
  <2>1. store' = [store EXCEPT ![p] = s]
    BY DEF saveMetadata
  <2> HIDE DEF s
  <2>2. QED
    BY <1>1, <2>1 DEF StoreTypeOK, StoreRecs
<1>3. harm = {} => cached # 0 /\ data[cached] = Whole(g)
  BY <1>0 DEF SidecarInv
<1> HIDE DEF s, g
<1>4. StoreTypeOK'
  BY <1>0, <1>2 DEF StoreTypeOK, StoreRecs
<1>5. HoldsInv'
  BY <1>1, <1>2 DEF HoldsInv, Fetching
<1>6. TempInv'
  BY <1>0, <1>1, <1>2 DEF TempInv, Writing
<1>7. SidecarInv'
  BY <1>0, <1>1, <1>2 DEF SidecarInv, Fetching
<1>8. MetaInv'
  BY <1>0, <1>1, <1>2 DEF MetaInv
<1>9. FileWhole' /\ SidecarDescribes'
  BY <1>0, <1>3 DEF FileWhole, SidecarDescribes
<1>10. MetadataFollowsFile'
  BY <1>0, <1>1, <1>2, <1>8 DEF MetadataFollowsFile, MetaInv
<1>11. QED
  BY <1>4, <1>5, <1>6, <1>7, <1>8, <1>9, <1>10

\* What happens around the stores: a release, the removal of the file, or
\* nothing.
LEMMA StoreSurroundings ==
  ASSUME StoreInv,
         (\E v \in Versions : Publish(v)) \/ FileRemoved \/ UNCHANGED storeVars
  PROVE  StoreInv'
<1> USE DEF StoreInv
<1>1. ASSUME NEW v \in Versions, Publish(v) PROVE StoreInv'
  <2>1. server' \in Versions /\ UNCHANGED <<cached, temp, data, meta, store, harm>>
    BY <1>1 DEF Publish
  <2>2. StoreTypeOK'
    BY <2>1 DEF StoreTypeOK
  <2>3. QED
    BY <2>1, <2>2 DEF HoldsInv, TempInv, Writing, SidecarInv, MetaInv, FileWhole,
                      SidecarDescribes, MetadataFollowsFile
<1>2. ASSUME FileRemoved PROVE StoreInv'
  <2>1. /\ cached' = 0 /\ harm' = harm \cup {"removed"}
        /\ data' = Kept(data, 0, temp, store)
        /\ UNCHANGED <<server, temp, meta, store>>
    BY <1>2 DEF FileRemoved
  <2>2. /\ data' \in [Inodes -> Bodies]
        /\ \A i \in Inodes : i \in Live(0, temp, store) => data'[i] = data[i]
    BY <2>1, KeptData DEF StoreTypeOK
  <2>3. StoreTypeOK'
    BY <2>1, <2>2 DEF StoreTypeOK
  <2>4. HoldsInv'
    BY <2>1 DEF HoldsInv
  <2>5. temp # 0 => data'[temp] = data[temp]
    BY <2>2 DEF Live, StoreTypeOK
  <2>6. ASSUME NEW q \in Users, store[q].pc = "write"
        PROVE  store[q].ino # 0 /\ data'[store[q].ino] = data[store[q].ino]
    <3>1. store[q].ino # 0 /\ store[q].ino \in Inodes
      BY <2>6, StoreFields DEF HoldsInv
    <3>2. store[q].ino \in Live(0, temp, store)
      BY DEF Live
    <3>3. QED
      BY <2>2, <3>1, <3>2
  <2>7. TempInv'
    BY <2>1, <2>5, <2>6 DEF TempInv, Writing
  <2>8. SidecarInv' /\ MetaInv' /\ FileWhole' /\ SidecarDescribes'
    BY <2>1 DEF SidecarInv, MetaInv, FileWhole, SidecarDescribes
  <2>9. MetadataFollowsFile'
    BY <2>1 DEF MetadataFollowsFile
  <2>10. QED
    BY <2>3, <2>4, <2>7, <2>8, <2>9
<1>3. ASSUME UNCHANGED storeVars PROVE StoreInv'
  <2>1. UNCHANGED <<server, cached, temp, data, meta, store, harm>>
    BY <1>3 DEF storeVars
  <2>2. StoreTypeOK'
    BY <2>1 DEF StoreTypeOK
  <2>3. QED
    BY <2>1, <2>2 DEF HoldsInv, TempInv, Writing, SidecarInv, MetaInv, FileWhole,
                      SidecarDescribes, MetadataFollowsFile
<1>4. QED
  BY <1>1, <1>2, <1>3

-----------------------------------------------------------------------------
WriteRecs ==
  [pc : {"off", "temp", "compare", "rename", "sidecar", "done", "error"},
   fam : 1 .. Len(Families), content : Contents \cup {Nothing},
   changed : BOOLEAN, unchanged : BOOLEAN, alone : BOOLEAN]

\* The fields of a call have their types, and its family is one of the two.
LEMMA WriteFields ==
  ASSUME ExportTypeOK, NEW p \in Writers
  PROVE  /\ write[p] \in WriteRecs
         /\ write[p].pc \in {"off", "temp", "compare", "rename", "sidecar", "done", "error"}
         /\ write[p].fam \in {1, 2} /\ write[p].content \in Contents \cup {Nothing}
         /\ write[p].changed \in BOOLEAN /\ write[p].unchanged \in BOOLEAN
         /\ write[p].alone \in BOOLEAN
         /\ Fam(p) \in Names
<1>1. write[p] \in WriteRecs
  BY DEF ExportTypeOK, WriteRecs
<1>2. Len(Families) = 2 /\ Families[1] = "ipv4" /\ Families[2] = "ipv6"
  BY DEF Families
<1>3. write[p].fam \in {1, 2}
  BY <1>1, <1>2 DEF WriteRecs
<1>4. Fam(p) \in Names
  BY <1>2, <1>3 DEF Fam, Names
<1>5. QED
  BY <1>1, <1>3, <1>4 DEF WriteRecs

\* A step after which call p has no sidecar open.  A call that replaced the
\* file and does not write the sidecar is remembered.
LEMMA ExportLetsGo ==
  ASSUME ExportInv, NEW p \in Writers, NEW w \in WriteRecs,
         write' = [write EXCEPT ![p] = w],
         w.pc \notin {"rename", "sidecar"},
         w.pc # "off" => w.content \in Contents,
         file' = file,
         sha' = sha \/ sha' = [sha EXCEPT ![Fam(p)] = Nothing],
         skewed' = skewed \/ skewed' = [skewed EXCEPT ![Fam(p)] = TRUE],
         write[p].pc = "sidecar" /\ write[p].changed => skewed'[Fam(p)]
  PROVE  ExportInv'
<1> USE DEF ExportInv
<1>0. Fam(p) \in Names
  BY WriteFields
<1>1. ExportTypeOK'
  BY <1>0 DEF ExportTypeOK, WriteRecs
<1>2. /\ write'[p] = w
      /\ \A q \in Writers \ {p} : write'[q] = write[q] /\ Fam(q)' = Fam(q)
  BY DEF ExportTypeOK, Fam
<1>3. \A f \in Names : /\ sha'[f] \in {sha[f], Nothing}
                       /\ ~skewed'[f] => ~skewed[f]
  BY <1>0 DEF ExportTypeOK
<1>4. CallInv'
  BY <1>2 DEF CallInv
<1>5. AloneInv'
  BY <1>2 DEF AloneInv, Open
<1>6. PlacedInv'
  <2>1. \A q \in Writers : Fam(q) \in Names
    BY WriteFields
  <2>2. QED
    BY <1>2, <1>3, <2>1 DEF PlacedInv
<1>7. AgreeInv'
  <2> SUFFICES ASSUME NEW f \in Names, ~skewed'[f],
                      \A q \in Writers : ~(write'[q].pc = "sidecar" /\ Fam(q)' = f /\ write'[q].changed)
               PROVE  sha'[f] \in {file'[f], Nothing}
    BY DEF AgreeInv
  <2>1. \A q \in Writers : ~(write[q].pc = "sidecar" /\ Fam(q) = f /\ write[q].changed)
    BY <1>2
  <2>2. sha[f] \in {file[f], Nothing}
    BY <1>3, <2>1 DEF AgreeInv
  <2>3. QED
    BY <1>3, <2>2
<1>8. QED
  BY <1>1, <1>4, <1>5, <1>6, <1>7

\* The call begins, its temporary is complete, or it returns or dies.
LEMMA ExportEndsOrBegins ==
  ASSUME ExportInv, NEW p \in Writers,
         \/ \E c \in Contents : WriteBegins(p, c)
         \/ TempWritten(p) \/ WriteFails(p) \/ WriterDies(p)
         \/ WriterReleased(p) /\ write[p].pc \in {"done", "error"}
  PROVE  ExportInv'
<1>0. ExportTypeOK /\ CallInv
  BY DEF ExportInv
<1>1. /\ write[p] \in WriteRecs /\ Fam(p) \in Names
      /\ write[p].pc # "off" => write[p].content \in Contents
  BY <1>0, WriteFields DEF CallInv
<1>2. NoWrite \in WriteRecs /\ NoWrite.pc = "off"
  <2>1. 1 \in 1 .. Len(Families)
    BY DEF Families
  <2>2. QED
    BY <2>1 DEF NoWrite, WriteRecs
<1>3. ASSUME NEW c \in Contents, WriteBegins(p, c) PROVE ExportInv'
  <2> DEFINE w == [NoWrite EXCEPT !.pc = "temp", !.content = c]
  <2>1. w \in WriteRecs /\ w.pc = "temp" /\ w.content = c
    BY <1>2 DEF WriteRecs, NoWrite
  <2>2. /\ write' = [write EXCEPT ![p] = w] /\ write[p].pc = "off"
        /\ UNCHANGED <<file, sha, skewed>>
    BY <1>3 DEF WriteBegins
  <2> HIDE DEF w
  <2>3. QED
    BY <2>1, <2>2, ExportLetsGo
<1>4. ASSUME TempWritten(p) PROVE ExportInv'
  <2> DEFINE w == [write[p] EXCEPT !.pc = "compare"]
  <2>1. w \in WriteRecs /\ w.pc = "compare" /\ w.content = write[p].content
    BY <1>1 DEF WriteRecs
  <2>2. /\ write' = [write EXCEPT ![p] = w] /\ write[p].pc = "temp"
        /\ UNCHANGED <<file, sha, skewed>>
    BY <1>4 DEF TempWritten
  <2> HIDE DEF w
  <2>3. QED
    BY <1>1, <2>1, <2>2, ExportLetsGo
<1>5. ASSUME /\ sha' \in IF write[p].pc = "sidecar" THEN {sha, [sha EXCEPT ![Fam(p)] = Nothing]}
                         ELSE {sha}
             /\ skewed' = [skewed EXCEPT ![Fam(p)] =
                             @ \/ (write[p].pc = "sidecar" /\ write[p].changed)]
      PROVE  /\ sha' = sha \/ sha' = [sha EXCEPT ![Fam(p)] = Nothing]
             /\ skewed' = skewed \/ skewed' = [skewed EXCEPT ![Fam(p)] = TRUE]
             /\ write[p].pc = "sidecar" /\ write[p].changed => skewed'[Fam(p)]
  <2>1. skewed \in [Names -> BOOLEAN]
    BY <1>0 DEF ExportTypeOK
  <2>2. CASE write[p].pc = "sidecar" /\ write[p].changed
    BY <1>1, <1>5, <2>1, <2>2
  <2>3. CASE ~(write[p].pc = "sidecar" /\ write[p].changed)
    <3>1. skewed' = [skewed EXCEPT ![Fam(p)] = @]
      BY <1>1, <1>5, <2>1, <2>3
    <3>2. QED
      BY <1>1, <1>5, <2>1, <2>3, <3>1
  <2>4. QED
    BY <2>2, <2>3
<1>6. ASSUME WriteFails(p) PROVE ExportInv'
  <2> DEFINE w == [write[p] EXCEPT !.pc = "error"]
  <2>1. w \in WriteRecs /\ w.pc = "error" /\ w.content = write[p].content
    BY <1>1 DEF WriteRecs
  <2>2. write' = [write EXCEPT ![p] = w] /\ write[p].pc # "off" /\ file' = file
    BY <1>6 DEF WriteFails
  <2>3. /\ sha' = sha \/ sha' = [sha EXCEPT ![Fam(p)] = Nothing]
        /\ skewed' = skewed \/ skewed' = [skewed EXCEPT ![Fam(p)] = TRUE]
        /\ write[p].pc = "sidecar" /\ write[p].changed => skewed'[Fam(p)]
    BY <1>5, <1>6 DEF WriteFails
  <2> HIDE DEF w
  <2>4. QED
    BY <1>1, <2>1, <2>2, <2>3, ExportLetsGo
<1>7. ASSUME WriterDies(p) PROVE ExportInv'
  <2>1. write' = [write EXCEPT ![p] = NoWrite] /\ file' = file
    BY <1>7 DEF WriterDies
  <2>2. /\ sha' = sha \/ sha' = [sha EXCEPT ![Fam(p)] = Nothing]
        /\ skewed' = skewed \/ skewed' = [skewed EXCEPT ![Fam(p)] = TRUE]
        /\ write[p].pc = "sidecar" /\ write[p].changed => skewed'[Fam(p)]
    BY <1>5, <1>7 DEF WriterDies
  <2>3. QED
    BY <1>2, <2>1, <2>2, ExportLetsGo
<1>8. ASSUME WriterReleased(p), write[p].pc \in {"done", "error"} PROVE ExportInv'
  <2>1. write' = [write EXCEPT ![p] = NoWrite] /\ UNCHANGED <<file, sha, skewed>>
    BY <1>8 DEF WriterReleased
  <2>2. QED
    BY <1>2, <1>8, <2>1, ExportLetsGo
<1>9. QED
  BY <1>3, <1>4, <1>6, <1>7, <1>8

\* The comparison.  A call that is alone and finds its digest in the sidecar
\* has its content in the file.
LEMMA ExportCompares ==
  ASSUME ExportInv, NEW p \in Writers, Compare(p)
  PROVE  ExportInv'
<1> USE DEF ExportInv
<1> DEFINE f == Fam(p)
           ch == (sha[f] # write[p].content)
           others == Contending(p, f)
           w == [write[p] EXCEPT !.pc = IF ch THEN "rename" ELSE "sidecar",
                                 !.changed = ch, !.alone = (others = {})]
<1>0. /\ write[p].pc = "compare" /\ UNCHANGED <<file, sha, skewed>>
      /\ write' = [q \in Writers |->
           CASE q = p         -> w
             [] q \in others  -> [write[q] EXCEPT !.alone = FALSE]
             [] OTHER         -> write[q]]
  BY DEF Compare, Compared
<1>1. /\ write[p] \in WriteRecs /\ f \in Names /\ write[p].content \in Contents
  BY <1>0, WriteFields DEF CallInv
<1>2. /\ w \in WriteRecs /\ w.pc = (IF ch THEN "rename" ELSE "sidecar")
      /\ w.changed = ch /\ w.alone = (others = {})
      /\ w.content = write[p].content /\ w.fam = write[p].fam
  <2> HIDE DEF ch, others
  <2>1. ch \in BOOLEAN
    BY DEF ch
  <2>2. QED
    BY <1>1, <2>1 DEF WriteRecs
<1>3. p \notin others
  BY DEF Contending
<1>4. \A q \in others : q \in Writers \ {p} /\ Open(q, f)
  BY DEF Contending, Open
<1>5. \A q \in Writers \ {p} : Open(q, f) => q \in others
  BY DEF Contending, Open
<1> HIDE DEF w, others
<1>6. write'[p] = w
  BY <1>0, <1>3
<1>7. ASSUME NEW q \in Writers \ {p}
      PROVE  /\ write'[q] \in WriteRecs
             /\ write'[q].pc = write[q].pc /\ write'[q].fam = write[q].fam
             /\ write'[q].content = write[q].content /\ write'[q].changed = write[q].changed
             /\ write'[q].alone => write[q].alone
             /\ q \in others => ~write'[q].alone
  <2>0. write[q] \in WriteRecs
    BY WriteFields
  <2>1. CASE q \in others
    <3>1. write'[q] = [write[q] EXCEPT !.alone = FALSE]
      BY <1>0, <2>1
    <3>2. QED
      BY <2>0, <3>1 DEF WriteRecs
  <2>2. CASE q \notin others
    <3>1. write'[q] = write[q]
      BY <1>0, <2>2
    <3>2. QED
      BY <2>0, <2>2, <3>1
  <2>3. QED
    BY <2>1, <2>2
<1>8. /\ Fam(p)' = f
      /\ \A q \in Writers \ {p} : Fam(q)' = Fam(q) /\ Fam(q) \in Names
  BY <1>2, <1>6, <1>7, WriteFields DEF Fam
<1>9. ExportTypeOK'
  <2>1. write' \in [Writers -> WriteRecs]
    <3>1. \A q \in Writers : write'[q] \in WriteRecs
      BY <1>2, <1>6, <1>7
    <3>2. QED
      BY <1>0, <3>1
  <2>2. QED
    BY <1>0, <2>1 DEF ExportTypeOK, WriteRecs
<1>10. CallInv'
  <2>1. ASSUME NEW q \in Writers
        PROVE  /\ write'[q].pc # "off" => write'[q].content \in Contents
               /\ write'[q].pc = "rename" => write'[q].changed
    <3>1. CASE q = p
      BY <1>1, <1>2, <1>6, <3>1
    <3>2. CASE q # p
      BY <1>7, <3>2 DEF CallInv
    <3>3. QED
      BY <3>1, <3>2
  <2>2. QED
    BY <2>1 DEF CallInv
<1> HIDE DEF ch
<1>11. AloneInv'
  <2> SUFFICES ASSUME NEW q \in Writers, NEW r \in Writers, NEW h \in Names,
                      q # r, Open(q, h)', Open(r, h)'
               PROVE  ~write'[q].alone
    BY DEF AloneInv
  <2>1. CASE q = p
    <3>1. Open(r, f) /\ r # p
      BY <1>7, <1>8, <2>1 DEF Open
    <3>2. QED
      BY <1>2, <1>5, <1>6, <2>1, <3>1
  <2>2. CASE r = p
    <3>1. Open(q, f) /\ q # p
      BY <1>7, <1>8, <2>2 DEF Open
    <3>2. QED
      BY <1>5, <1>7, <3>1
  <2>3. CASE q # p /\ r # p
    <3>1. Open(q, h) /\ Open(r, h)
      BY <1>7, <1>8, <2>3 DEF Open
    <3>2. QED
      BY <1>7, <2>3, <3>1 DEF AloneInv
  <2>4. QED
    BY <2>1, <2>2, <2>3
<1>12. PlacedInv'
  <2> SUFFICES ASSUME NEW q \in Writers, write'[q].pc = "sidecar", write'[q].alone,
                      write'[q].changed \/ ~skewed'[Fam(q)']
               PROVE  file'[Fam(q)'] = write'[q].content
    BY DEF PlacedInv
  <2>1. CASE q = p
    <3>1. ~ch /\ others = {} /\ ~skewed[f]
      BY <1>0, <1>2, <1>6, <1>8, <2>1
    <3>2. sha[f] = write[p].content
      BY <3>1 DEF ch
    <3>3. \A r \in Writers : ~(write[r].pc = "sidecar" /\ Fam(r) = f /\ write[r].changed)
      BY <1>0, <1>5, <3>1 DEF Open
    <3>4. sha[f] \in {file[f], Nothing}
      BY <1>1, <3>1, <3>3 DEF AgreeInv
    <3>5. file[f] = write[p].content
      BY <1>1, <3>2, <3>4
    <3>6. QED
      BY <1>0, <1>2, <1>6, <1>8, <2>1, <3>5
  <2>2. CASE q # p
    BY <1>0, <1>7, <1>8, <2>2 DEF PlacedInv
  <2>3. QED
    BY <2>1, <2>2
<1>13. AgreeInv'
  <2> SUFFICES ASSUME NEW h \in Names, ~skewed'[h],
                      \A q \in Writers : ~(write'[q].pc = "sidecar" /\ Fam(q)' = h /\ write'[q].changed)
               PROVE  sha'[h] \in {file'[h], Nothing}
    BY DEF AgreeInv
  <2>1. \A q \in Writers : ~(write[q].pc = "sidecar" /\ Fam(q) = h /\ write[q].changed)
    BY <1>0, <1>7, <1>8
  <2>2. QED
    BY <1>0, <2>1 DEF AgreeInv
<1>14. QED
  BY <1>9, <1>10, <1>11, <1>12, <1>13

\* The rename, which either leads to the sidecar or ends the call.
LEMMA ExportRenames ==
  ASSUME ExportInv, NEW p \in Writers, RenameTemp(p)
  PROVE  ExportInv'
<1> USE DEF ExportInv
<1> DEFINE f == Fam(p)
<1>0. /\ write[p].pc = "rename" /\ sha' = sha
      /\ file' = [file EXCEPT ![f] = write[p].content]
  BY DEF RenameTemp
<1>1. /\ write[p] \in WriteRecs /\ f \in Names /\ write[p].content \in Contents
      /\ write[p].changed
  BY <1>0, WriteFields DEF CallInv
<1>2. PICK n \in {"sidecar", "error"} :
        /\ write' = [write EXCEPT ![p].pc = n]
        /\ n = "sidecar" => skewed' = skewed
        /\ n = "error" => skewed' = [skewed EXCEPT ![f] = TRUE]
  BY DEF RenameTemp
<1> DEFINE w == [write[p] EXCEPT !.pc = n]
<1>3. /\ w \in WriteRecs /\ w.pc = n /\ w.changed /\ w.alone = write[p].alone
      /\ w.content = write[p].content /\ w.fam = write[p].fam
  BY <1>1 DEF WriteRecs
<1>4. write' = [write EXCEPT ![p] = w]
  BY <1>2
<1> HIDE DEF w
<1>5. /\ write'[p] = w /\ Fam(p)' = f
      /\ \A q \in Writers \ {p} : write'[q] = write[q] /\ Fam(q)' = Fam(q) /\ Fam(q) \in Names
  BY <1>3, <1>4, WriteFields DEF ExportTypeOK, Fam
<1>6. /\ file'[f] = write[p].content
      /\ \A h \in Names : h # f => file'[h] = file[h] /\ skewed'[h] = skewed[h]
      /\ n = "error" => skewed'[f]
  BY <1>0, <1>1, <1>2 DEF ExportTypeOK
<1>7. ExportTypeOK'
  <2>1. file' \in [Names -> Contents \cup {Nothing}] /\ sha' \in [Names -> Contents \cup {Nothing}]
    BY <1>0, <1>1 DEF ExportTypeOK
  <2>2. skewed' \in [Names -> BOOLEAN]
    BY <1>2 DEF ExportTypeOK
  <2>3. write' \in [Writers -> WriteRecs]
    BY <1>3, <1>4 DEF ExportTypeOK, WriteRecs
  <2>4. QED
    BY <2>1, <2>2, <2>3 DEF ExportTypeOK, WriteRecs
<1> HIDE DEF f
<1>8. CallInv'
  BY <1>1, <1>3, <1>5 DEF CallInv
<1>9. Open(p, f)
  BY <1>0 DEF Open, f
<1>10. AloneInv'
  <2> SUFFICES ASSUME NEW q \in Writers, NEW r \in Writers, NEW h \in Names,
                      q # r, Open(q, h)', Open(r, h)'
               PROVE  ~write'[q].alone
    BY DEF AloneInv
  <2>1. Open(q, h) /\ Open(r, h)
    BY <1>3, <1>5, <1>9 DEF Open
  <2>2. write'[q].alone = write[q].alone
    BY <1>3, <1>5
  <2>3. QED
    BY <2>1, <2>2 DEF AloneInv
<1>11. \A q \in Writers \ {p} : Open(q, f) => ~write[q].alone
  BY <1>1, <1>9 DEF AloneInv
<1>12. PlacedInv'
  <2> SUFFICES ASSUME NEW q \in Writers, write'[q].pc = "sidecar", write'[q].alone,
                      write'[q].changed \/ ~skewed'[Fam(q)']
               PROVE  file'[Fam(q)'] = write'[q].content
    BY DEF PlacedInv
  <2>1. CASE q = p
    BY <1>3, <1>5, <1>6, <2>1
  <2>2. CASE q # p
    <3>1. write'[q] = write[q] /\ Fam(q)' = Fam(q) /\ Fam(q) \in Names
      BY <1>5, <2>2
    <3>2. Fam(q) # f
      BY <1>11, <2>2, <3>1 DEF Open
    <3>3. QED
      BY <1>6, <3>1, <3>2 DEF PlacedInv
  <2>3. QED
    BY <2>1, <2>2
<1>13. AgreeInv'
  <2> SUFFICES ASSUME NEW h \in Names, ~skewed'[h],
                      \A q \in Writers : ~(write'[q].pc = "sidecar" /\ Fam(q)' = h /\ write'[q].changed)
               PROVE  sha'[h] \in {file'[h], Nothing}
    BY DEF AgreeInv
  <2>1. h # f
    BY <1>3, <1>5, <1>6
  <2>2. \A q \in Writers : ~(write[q].pc = "sidecar" /\ Fam(q) = h /\ write[q].changed)
    BY <1>0, <1>5
  <2>3. QED
    BY <1>0, <1>6, <2>1, <2>2 DEF AgreeInv
<1>14. QED
  BY <1>7, <1>8, <1>10, <1>12, <1>13

\* The sidecar is written: a call that keeps the file unskewed had it to
\* itself, and its content is in place.
LEMMA ExportSidecar ==
  ASSUME ExportInv, NEW p \in Writers, SidecarWritten(p)
  PROVE  /\ ExportInv'
         /\ skewed'[Fam(p)] \/ file'[Fam(p)] = write[p].content
<1> USE DEF ExportInv
<1> DEFINE f == Fam(p)
           n == IF write[p].fam < Len(Families) THEN "temp" ELSE "done"
           m == IF write[p].fam < Len(Families) THEN write[p].fam + 1 ELSE write[p].fam
           w == [write[p] EXCEPT !.unchanged = @ /\ ~write[p].changed, !.pc = n, !.fam = m]
<1>0. /\ write[p].pc = "sidecar" /\ file' = file
      /\ sha' = [sha EXCEPT ![f] = write[p].content]
      /\ skewed' = [skewed EXCEPT ![f] = ~write[p].alone \/ (@ /\ ~write[p].changed)]
  BY DEF SidecarWritten
<1>1. /\ write[p] \in WriteRecs /\ f \in Names /\ write[p].content \in Contents
      /\ write[p].fam \in {1, 2}
  BY <1>0, WriteFields DEF CallInv
<1>2. w \in WriteRecs /\ w.pc = n /\ w.content = write[p].content
  <2>1. Len(Families) = 2
    BY DEF Families
  <2>2. n \in {"temp", "done"} /\ m \in 1 .. Len(Families)
    BY <1>1, <2>1
  <2>3. (write[p].unchanged /\ ~write[p].changed) \in BOOLEAN
    OBVIOUS
  <2> HIDE DEF n, m
  <2>4. QED
    BY <1>1, <2>2, <2>3 DEF WriteRecs
<1>3. write' = [write EXCEPT ![p] = w]
  BY DEF SidecarWritten
<1>4. n \in {"temp", "done"}
  OBVIOUS
<1> HIDE DEF w, n, m
<1>5. /\ write'[p] = w
      /\ \A q \in Writers \ {p} : write'[q] = write[q] /\ Fam(q)' = Fam(q) /\ Fam(q) \in Names
  BY <1>2, <1>3, WriteFields DEF ExportTypeOK, Fam
<1>6. /\ sha'[f] = write[p].content
      /\ skewed'[f] = (~write[p].alone \/ (skewed[f] /\ ~write[p].changed))
      /\ \A h \in Names : h # f => sha'[h] = sha[h] /\ skewed'[h] = skewed[h]
  BY <1>0, <1>1 DEF ExportTypeOK
<1>7. ExportTypeOK'
  <2>1. file' \in [Names -> Contents \cup {Nothing}] /\ sha' \in [Names -> Contents \cup {Nothing}]
    BY <1>0, <1>1 DEF ExportTypeOK
  <2>2. skewed' \in [Names -> BOOLEAN]
    <3>1. (~write[p].alone \/ (skewed[f] /\ ~write[p].changed)) \in BOOLEAN
      OBVIOUS
    <3>2. QED
      BY <1>0, <3>1 DEF ExportTypeOK
  <2>3. write' \in [Writers -> WriteRecs]
    BY <1>2, <1>3 DEF ExportTypeOK, WriteRecs
  <2>4. QED
    BY <2>1, <2>2, <2>3 DEF ExportTypeOK, WriteRecs
<1>8. skewed'[f] \/ file[f] = write[p].content
  BY <1>0, <1>6 DEF PlacedInv
<1> HIDE DEF f
<1>9. CallInv'
  BY <1>1, <1>2, <1>4, <1>5 DEF CallInv
<1>10. Open(p, f)
  BY <1>0 DEF Open, f
<1>11. AloneInv'
  <2> SUFFICES ASSUME NEW q \in Writers, NEW r \in Writers, NEW h \in Names,
                      q # r, Open(q, h)', Open(r, h)'
               PROVE  ~write'[q].alone
    BY DEF AloneInv
  <2>1. q # p /\ r # p
    BY <1>2, <1>4, <1>5 DEF Open
  <2>2. Open(q, h) /\ Open(r, h) /\ write'[q] = write[q]
    BY <1>5, <2>1 DEF Open
  <2>3. QED
    BY <2>2 DEF AloneInv
<1>12. \A q \in Writers \ {p} : Open(q, f) => ~write[q].alone
  BY <1>1, <1>10 DEF AloneInv
<1>13. PlacedInv'
  <2> SUFFICES ASSUME NEW q \in Writers, write'[q].pc = "sidecar", write'[q].alone,
                      write'[q].changed \/ ~skewed'[Fam(q)']
               PROVE  file'[Fam(q)'] = write'[q].content
    BY DEF PlacedInv
  <2>1. q # p
    BY <1>2, <1>4, <1>5
  <2>2. write'[q] = write[q] /\ Fam(q)' = Fam(q) /\ Fam(q) \in Names
    BY <1>5, <2>1
  <2>3. Fam(q) # f
    BY <1>12, <2>1, <2>2 DEF Open
  <2>4. QED
    BY <1>0, <1>6, <2>2, <2>3 DEF PlacedInv
<1>14. AgreeInv'
  <2> SUFFICES ASSUME NEW h \in Names, ~skewed'[h],
                      \A q \in Writers : ~(write'[q].pc = "sidecar" /\ Fam(q)' = h /\ write'[q].changed)
               PROVE  sha'[h] \in {file'[h], Nothing}
    BY DEF AgreeInv
  <2>1. CASE h = f
    BY <1>0, <1>6, <1>8, <2>1
  <2>2. CASE h # f
    <3>1. \A q \in Writers : ~(write[q].pc = "sidecar" /\ Fam(q) = h /\ write[q].changed)
      BY <1>5, <2>2 DEF f
    <3>2. QED
      BY <1>0, <1>6, <2>2, <3>1 DEF AgreeInv
  <2>3. QED
    BY <2>1, <2>2
<1>15. QED
  BY <1>0, <1>7, <1>8, <1>9, <1>11, <1>13, <1>14 DEF f

\* A removed file is known to be separated from its sidecar, and a call that is
\* about to write that sidecar knows that it was not alone.
LEMMA ExportRemoves ==
  ASSUME ExportInv, NEW f \in Names, ExportRemoved(f)
  PROVE  ExportInv'
<1>1. ExportTypeOK /\ CallInv /\ AloneInv /\ PlacedInv /\ AgreeInv
  BY DEF ExportInv
<1>2. /\ file' = [file EXCEPT ![f] = Nothing] /\ sha' = sha
      /\ skewed' = [skewed EXCEPT ![f] = TRUE]
      /\ write' = [q \in Writers |->
                     IF write[q].pc = "sidecar" /\ Fam(q) = f
                     THEN [write[q] EXCEPT !.alone = FALSE] ELSE write[q]]
  BY DEF ExportRemoved
<1>3. ASSUME NEW q \in Writers
      PROVE  /\ write'[q] \in WriteRecs /\ Fam(q)' = Fam(q)
             /\ write'[q].pc = write[q].pc /\ write'[q].content = write[q].content
             /\ write'[q].changed = write[q].changed
             /\ write'[q].alone => write[q].alone
             /\ write[q].pc = "sidecar" /\ Fam(q) = f => ~write'[q].alone
  <2>1. write[q] \in WriteRecs
    BY <1>1, WriteFields
  <2>2. CASE write[q].pc = "sidecar" /\ Fam(q) = f
    <3>1. write'[q] = [write[q] EXCEPT !.alone = FALSE]
      BY <1>2, <2>2
    <3>2. QED
      BY <2>1, <3>1 DEF WriteRecs, Fam
  <2>3. CASE ~(write[q].pc = "sidecar" /\ Fam(q) = f)
    <3>1. write'[q] = write[q]
      BY <1>2, <2>3
    <3>2. QED
      BY <2>1, <2>3, <3>1 DEF Fam
  <2>4. QED
    BY <2>2, <2>3
<1>4. /\ skewed'[f] /\ \A h \in Names : h # f => file'[h] = file[h] /\ skewed'[h] = skewed[h]
  BY <1>1, <1>2 DEF ExportTypeOK
<1>5. ExportTypeOK'
  <2>1. write' \in [Writers -> WriteRecs]
    BY <1>2, <1>3
  <2>2. file' \in [Names -> Contents \cup {Nothing}] /\ skewed' \in [Names -> BOOLEAN]
    BY <1>1, <1>2 DEF ExportTypeOK
  <2>3. QED
    BY <1>1, <1>2, <2>1, <2>2 DEF ExportTypeOK, WriteRecs
<1>6. CallInv' /\ AloneInv'
  BY <1>1, <1>3 DEF CallInv, AloneInv, Open
<1>7. PlacedInv'
  <2> SUFFICES ASSUME NEW q \in Writers, write'[q].pc = "sidecar", write'[q].alone,
                      write'[q].changed \/ ~skewed'[Fam(q)']
               PROVE  file'[Fam(q)'] = write'[q].content
    BY DEF PlacedInv
  <2>1. Fam(q) \in Names /\ Fam(q) # f
    BY <1>1, <1>3, WriteFields
  <2>2. file[Fam(q)] = write[q].content
    BY <1>1, <1>3, <1>4, <2>1 DEF PlacedInv
  <2>3. QED
    BY <1>3, <1>4, <2>1, <2>2
<1>8. AgreeInv'
  <2> SUFFICES ASSUME NEW h \in Names, ~skewed'[h],
                      \A q \in Writers :
                         ~(write'[q].pc = "sidecar" /\ Fam(q)' = h /\ write'[q].changed)
               PROVE  sha'[h] \in {file'[h], Nothing}
    BY DEF AgreeInv
  <2>1. h # f
    BY <1>4
  <2>2. \A q \in Writers : ~(write[q].pc = "sidecar" /\ Fam(q) = h /\ write[q].changed)
    BY <1>3
  <2>3. sha[h] \in {file[h], Nothing}
    BY <1>1, <1>4, <2>1, <2>2 DEF AgreeInv
  <2>4. QED
    BY <1>2, <1>4, <2>1, <2>3
<1>9. QED
  BY <1>5, <1>6, <1>7, <1>8 DEF ExportInv

\* Nothing happens to the exports.
LEMMA ExportStutters ==
  ASSUME ExportInv, UNCHANGED exportVars
  PROVE  ExportInv'
<1>1. UNCHANGED <<file, sha, write, skewed>>
  BY DEF exportVars
<1>2. \A p \in Writers : Fam(p)' = Fam(p)
  BY <1>1 DEF Fam
<1>3. ExportTypeOK' /\ CallInv'
  BY <1>1 DEF ExportInv, ExportTypeOK, CallInv
<1>4. AloneInv' /\ PlacedInv' /\ AgreeInv'
  BY <1>1, <1>2 DEF ExportInv, AloneInv, PlacedInv, AgreeInv, Open
<1>5. QED
  BY <1>3, <1>4 DEF ExportInv

-----------------------------------------------------------------------------
(* The whole system *)

CommandRecs ==
  [name : {"none", "dump", "resolve", "export"},
   pc : {"idle", "fetch", "upsert", "export"},
   loaded : SUBSET (Versions \cup {Garbled})]

CommandTypeOK ==
  /\ command \in [Users -> CommandRecs]
  /\ db \subseteq Versions \cup {Garbled}
  /\ commands \in 0 .. MaxCommands /\ faults \in 0 .. MaxFaults

\* A command is a record, and has loaded versions of the cache file.
LEMMA CommandFields ==
  ASSUME CommandTypeOK, NEW p \in Users
  PROVE  command[p] \in CommandRecs /\ command[p].loaded \subseteq Versions \cup {Garbled}
<1>1. command[p] \in CommandRecs
  BY DEF CommandTypeOK
<1>2. QED
  BY <1>1 DEF CommandRecs

\* A process exits.
LEMMA ProcessEnds ==
  ASSUME CommandTypeOK, NEW p \in Users, Ended(p)
  PROVE  command' \in [Users -> CommandRecs]
<1>1. Idle \in CommandRecs
  BY DEF Idle, CommandRecs
<1>2. QED
  BY <1>1 DEF Ended, CommandTypeOK

\* What the file parses to is a version or garbled.
LEMMA ParsedVersions ==
  ASSUME NEW body, NEW r \in Parsed(body), r # << >>
  PROVE  r[1] \in Versions \cup {Garbled}
BY DEF Parsed

\* The bounds on faults and commands.
LEMMA Counters ==
  ASSUME CommandTypeOK
  PROVE  /\ Faultless => faults' \in 0 .. MaxFaults
         /\ Fault => faults' \in 0 .. MaxFaults
         /\ commands < MaxCommands /\ commands' = commands + 1 => commands' \in 0 .. MaxCommands
BY BoundAssumption DEF CommandTypeOK, Faultless, Fault

\* Every step keeps the types of the commands, their database and counters.
LEMMA CommandStep ==
  ASSUME CommandTypeOK, [Next]_vars
  PROVE  CommandTypeOK'
<1>1. ASSUME NEW p \in Users, NEW name \in {"dump", "resolve"}, Start(p, name)
      PROVE  CommandTypeOK'
  <2> DEFINE c == [Idle EXCEPT !.name = name, !.pc = "fetch"]
  <2>1. c \in CommandRecs
    BY DEF Idle, CommandRecs
  <2>2. command' = [command EXCEPT ![p] = c]
    BY <1>1 DEF Start
  <2> HIDE DEF c
  <2>3. command' \in [Users -> CommandRecs]
    BY <2>1, <2>2 DEF CommandTypeOK
  <2>4. QED
    BY <1>1, <2>3, Counters DEF Start, CommandTypeOK
<1>2. ASSUME NEW p \in Users, Fetch(p) \/ FetchFails(p) \/ Exporting(p)
      PROVE  CommandTypeOK'
  BY <1>2, Counters DEF Fetch, FetchFails, Exporting, cliVars, CommandTypeOK
<1>3. ASSUME NEW p \in Users, FetchFatal(p) \/ ExportEnds(p) PROVE CommandTypeOK'
  BY <1>3, ProcessEnds DEF FetchFatal, ExportEnds, CommandTypeOK
<1>4. ASSUME NEW p \in Users, Load(p) PROVE CommandTypeOK'
  <2>1. command' \in [Users -> CommandRecs]
    <3>1. CASE Ended(p)
      BY <3>1, ProcessEnds
    <3>2. CASE ~Ended(p)
      <4>1. PICK r \in Parsed(data[cached]) :
              /\ r # << >>
              /\ command' = [command EXCEPT ![p].pc = "upsert", ![p].loaded = {r[1]}]
        BY <1>4, <3>2 DEF Load
      <4> DEFINE l == {r[1]}
                 c == [command[p] EXCEPT !.pc = "upsert", !.loaded = l]
      <4>2. l \in SUBSET (Versions \cup {Garbled})
        BY <4>1, ParsedVersions
      <4>3. command' = [command EXCEPT ![p] = c]
        BY <4>1
      <4> HIDE DEF l
      <4>4. c \in CommandRecs
        BY <4>2, CommandFields DEF CommandRecs
      <4> HIDE DEF c
      <4>5. QED
        BY <4>3, <4>4 DEF CommandTypeOK
    <3>3. QED
      BY <3>1, <3>2
  <2>2. QED
    BY <1>4, <2>1 DEF Load, CommandTypeOK
<1>5. ASSUME NEW p \in Users, UpsertBatch(p) PROVE CommandTypeOK'
  <2>1. command' \in [Users -> CommandRecs]
    BY <1>5, ProcessEnds DEF UpsertBatch
  <2>2. db' \subseteq Versions \cup {Garbled}
    BY <1>5, CommandFields DEF UpsertBatch, CommandTypeOK
  <2>3. QED
    BY <1>5, <2>1, <2>2, Counters DEF UpsertBatch, CommandTypeOK
<1>6. ASSUME NEW p \in Users, NEW agg \in AggLevels, StartExport(p, agg)
      PROVE  CommandTypeOK'
  <2> DEFINE c == [Idle EXCEPT !.name = "export", !.pc = "export"]
  <2>1. c \in CommandRecs
    BY DEF Idle, CommandRecs
  <2>2. command' = [command EXCEPT ![p] = c]
    BY <1>6 DEF StartExport
  <2> HIDE DEF c
  <2>3. command' \in [Users -> CommandRecs]
    BY <2>1, <2>2 DEF CommandTypeOK
  <2>4. QED
    BY <1>6, <2>3, Counters DEF StartExport, CommandTypeOK
<1>7. ASSUME NEW p \in Users, Dies(p) PROVE CommandTypeOK'
  BY <1>7, ProcessEnds, Counters DEF Dies, CommandTypeOK
<1>8. ASSUME (\E v \in Versions : Released(v)) \/ Removed PROVE CommandTypeOK'
  BY <1>8, Counters DEF Released, Removed, CommandTypeOK
<1>9. ASSUME Quiet \/ UNCHANGED vars PROVE CommandTypeOK'
  BY <1>9 DEF Quiet, vars, cliVars, CommandTypeOK
<1>10. QED
  BY <1>1, <1>2, <1>3, <1>4, <1>5, <1>6, <1>7, <1>8, <1>9 DEF Next

\* Every step keeps the invariant of the store.
LEMMA StoreStep ==
  ASSUME StoreInv, [Next]_vars
  PROVE  StoreInv'
<1>1. ASSUME NEW p \in Users,
             \/ \E name \in {"dump", "resolve"} : Start(p, name)
             \/ Fetch(p) \/ FetchFails(p)
      PROVE  StoreInv'
  <2>1. \/ NewHTTPStore(p) \/ GetCached(p) \/ NotModified(p)
        \/ RequestFails(p) \/ DownloadFails(p) \/ RenameFails(p) \/ saveMetadataFails(p)
        \/ Accepted(p) \/ Create(p) \/ Write(p) \/ Rename(p) \/ saveMetadata(p)
    BY <1>1 DEF Start, Fetch, FetchFails
  <2>2. QED
    BY <2>1, StoreLooks, StoreFails, StoreEnds, StoreAccepts, StoreCreates, StoreWrites,
       StoreRenames, StoreSaves
<1>2. ASSUME NEW p \in Users, FetchFatal(p) \/ Load(p) \/ Dies(p) PROVE StoreInv'
  BY <1>2, StoreEnds DEF FetchFatal, Load, Dies
<1>3. ASSUME NEW p \in Users,
             \/ UpsertBatch(p) \/ \E agg \in AggLevels : StartExport(p, agg)
             \/ Exporting(p) \/ ExportEnds(p)
      PROVE  StoreInv'
  <2>1. UNCHANGED storeVars
    BY <1>3 DEF UpsertBatch, StartExport, Exporting, ExportEnds, storeVars
  <2>2. QED
    BY <2>1, StoreSurroundings
<1>4. ASSUME (\E v \in Versions : Released(v)) \/ Removed PROVE StoreInv'
  BY <1>4, StoreSurroundings DEF Released, Removed
<1>5. ASSUME Quiet \/ UNCHANGED vars PROVE StoreInv'
  <2>1. UNCHANGED storeVars
    BY <1>5 DEF Quiet, vars
  <2>2. QED
    BY <2>1, StoreSurroundings
<1>6. QED
  BY <1>1, <1>2, <1>3, <1>4, <1>5 DEF Next

\* Every step keeps the invariant of the exporter.
LEMMA ExportStep ==
  ASSUME ExportInv, CommandTypeOK, [Next]_vars
  PROVE  ExportInv'
<1>1. ASSUME NEW p \in Users, NEW agg \in AggLevels, StartExport(p, agg) PROVE ExportInv'
  <2>1. <<db, agg>> \in Contents
    BY DEF CommandTypeOK
  <2>2. WriteBegins(p, <<db, agg>>)
    BY <1>1 DEF StartExport
  <2>3. QED
    BY <2>1, <2>2, ExportEndsOrBegins
<1>2. ASSUME NEW p \in Users, Exporting(p) PROVE ExportInv'
  BY <1>2, ExportEndsOrBegins, ExportCompares, ExportRenames, ExportSidecar
     DEF Exporting, WriteStep
<1>3. ASSUME NEW p \in Users, ExportEnds(p) \/ Dies(p) PROVE ExportInv'
  BY <1>3, ExportEndsOrBegins DEF ExportEnds, Dies
<1>4. ASSUME NEW p \in Users,
             \/ \E name \in {"dump", "resolve"} : Start(p, name)
             \/ Fetch(p) \/ FetchFails(p) \/ FetchFatal(p) \/ Load(p) \/ UpsertBatch(p)
      PROVE  ExportInv'
  <2>1. UNCHANGED exportVars
    BY <1>4 DEF Start, Fetch, FetchFails, FetchFatal, Load, UpsertBatch, exportVars
  <2>2. QED
    BY <2>1, ExportStutters
<1>5. ASSUME (\E v \in Versions : Released(v)) \/ Removed \/ Quiet \/ UNCHANGED vars
      PROVE  ExportInv'
  <2>1. UNCHANGED exportVars \/ \E f \in Names : ExportRemoved(f)
    BY <1>5 DEF Released, Removed, Quiet, vars, exportVars
  <2>2. QED
    BY <2>1, ExportStutters, ExportRemoves
<1>6. QED
  BY <1>1, <1>2, <1>3, <1>4, <1>5 DEF Next

\* The invariant holds at first.
LEMMA CliInit ==
  ASSUME Init
  PROVE  StoreInv /\ ExportInv /\ CommandTypeOK
<1>1. /\ server \in Versions /\ cached = 0 /\ temp = 0 /\ meta = 0 /\ harm = {}
      /\ data = [i \in Inodes |-> Empty] /\ store = [p \in Users |-> NoStore]
  BY DEF Init, StoreInit
<1>2. /\ NoStore \in StoreRecs /\ NoStore.pc = "off" /\ NoStore.ino = 0 /\ NoStore.early
      /\ Empty \in Bodies
  <2>1. 0 \in 0 .. Chunks
    OBVIOUS
  <2>2. QED
    BY <2>1 DEF NoStore, StoreRecs, StorePCs, Empty, Bodies
<1>3. StoreTypeOK
  BY <1>1, <1>2 DEF StoreTypeOK, StoreRecs
<1>4. \A p \in Users : store[p] = NoStore
  BY <1>1
<1>5. HoldsInv /\ TempInv /\ SidecarInv
  BY <1>1, <1>2, <1>4 DEF HoldsInv, TempInv, Writing, SidecarInv, Fetching
<1>6. MetaInv /\ FileWhole /\ SidecarDescribes /\ MetadataFollowsFile
  BY <1>1, <1>2, <1>4 DEF MetaInv, FileWhole, SidecarDescribes, MetadataFollowsFile
<1>7. /\ file = [f \in Names |-> Nothing] /\ sha = [f \in Names |-> Nothing]
      /\ write = [p \in Writers |-> NoWrite] /\ skewed = [f \in Names |-> FALSE]
  BY DEF Init, ExportInit
<1>8. NoWrite \in WriteRecs /\ NoWrite.pc = "off"
  <2>1. 1 \in 1 .. Len(Families)
    BY DEF Families
  <2>2. QED
    BY <2>1 DEF NoWrite, WriteRecs
<1>9. ExportTypeOK
  BY <1>7, <1>8 DEF ExportTypeOK, WriteRecs
<1>10. \A p \in Writers : write[p].pc = "off"
  BY <1>7, <1>8
<1>11. CallInv /\ AloneInv /\ PlacedInv /\ AgreeInv
  BY <1>7, <1>10 DEF CallInv, AloneInv, PlacedInv, AgreeInv, Open
<1>12. CommandTypeOK
  <2>1. Idle \in CommandRecs
    BY DEF Idle, CommandRecs
  <2>2. QED
    BY <2>1, BoundAssumption DEF Init, CommandTypeOK
<1>13. QED
  BY <1>3, <1>5, <1>6, <1>9, <1>11, <1>12 DEF StoreInv, ExportInv

\* The invariants of the store, the exporter and the commands hold of every
\* command line behaviour.
THEOREM Invariance == Spec => []IInv
<1>1. Init => IInv
  BY CliInit DEF IInv, StoreInv, ExportInv, CommandTypeOK, CommandRecs, TypeOK
<1>2. IInv /\ [Next]_vars => IInv'
  <2> SUFFICES ASSUME IInv, [Next]_vars PROVE IInv'
    OBVIOUS
  <2>1. StoreInv /\ ExportInv /\ CommandTypeOK
    BY DEF IInv, TypeOK, CommandTypeOK, CommandRecs
  <2>2. StoreInv' /\ ExportInv' /\ CommandTypeOK'
    BY <2>1, StoreStep, ExportStep, CommandStep
  <2>3. TypeOK'
    BY <2>2 DEF StoreInv, ExportInv, CommandTypeOK, CommandRecs, TypeOK
  <2>4. QED
    BY <2>2, <2>3 DEF IInv
<1>3. QED
  BY <1>1, <1>2, PTL DEF Spec

\* The variables have their types, whatever the commands do to each other's
\* files.
THEOREM TypeCorrect == Spec => []TypeOK
<1>1. IInv => TypeOK
  BY DEF IInv
<1>2. QED
  BY <1>1, Invariance, PTL

\* The file under dlc.dat's name is one version, for any number of stores that
\* die or fail anywhere, until two have its temporary open (store.go:155).
THEOREM FileWholeHolds == Spec => []FileWhole
<1>1. IInv => FileWhole
  BY DEF IInv, StoreInv
<1>2. QED
  BY <1>1, Invariance, PTL

\* Without overlapping fetches, unsaved sidecars and removals the sidecar names
\* the version that the file holds.
THEOREM SidecarDescribesHolds == Spec => []SidecarDescribes
<1>1. IInv => SidecarDescribes
  BY DEF IInv, StoreInv
<1>2. QED
  BY <1>1, Invariance, PTL

\* Metadata without a file comes from removing the file, and a Get that
\* succeeds without metadata from an unsaved sidecar or a store older than it.
THEOREM MetadataFollowsFileHolds == Spec => []MetadataFollowsFile
<1>1. IInv => MetadataFollowsFile
  BY DEF IInv, StoreInv
<1>2. QED
  BY <1>1, Invariance, PTL

\* A call of Write that is through with a family leaves its content in the
\* file, unless file and sidecar had been, or are then known to be, separated.
THEOREM ExportLandsHolds == Spec => ExportLands
<1> DEFINE A == \A p \in Writers :
       write[p].pc = "sidecar" /\ write'[p].pc \in {"temp", "done"} =>
         skewed[Fam(p)] \/ skewed'[Fam(p)] \/ file'[Fam(p)] = write[p].content
<1>1. IInv /\ [Next]_vars => [A]_exportVars
  <2> SUFFICES ASSUME IInv, [Next]_vars, ~UNCHANGED exportVars,
                      NEW q \in Writers, write[q].pc = "sidecar",
                      write'[q].pc \in {"temp", "done"}
               PROVE  skewed'[Fam(q)] \/ file'[Fam(q)] = write[q].content
    OBVIOUS
  <2>0. ExportInv /\ ExportTypeOK
    BY DEF IInv, ExportInv
  <2>1. ASSUME NEW p \in Users, SidecarWritten(p)
        PROVE  skewed'[Fam(q)] \/ file'[Fam(q)] = write[q].content
    <3>1. q = p
      BY <2>0, <2>1 DEF SidecarWritten, ExportTypeOK
    <3>2. QED
      BY <2>0, <2>1, <3>1, ExportSidecar
  <2>2. ASSUME NEW p \in Users, WriteFails(p) \/ WriterDies(p) \/ WriterReleased(p)
        PROVE  FALSE
    <3>1. CASE q = p
      BY <2>0, <2>2, <3>1, WriteFields
         DEF WriteFails, WriterDies, WriterReleased, ExportTypeOK, NoWrite, WriteRecs
    <3>2. CASE q # p
      BY <2>0, <2>2, <3>2 DEF WriteFails, WriterDies, WriterReleased, ExportTypeOK
    <3>3. QED
      BY <3>1, <3>2
  <2>3. ASSUME NEW p \in Users, TempWritten(p) \/ RenameTemp(p) \/ \E c : WriteBegins(p, c)
        PROVE  FALSE
    <3>1. q # p
      BY <2>3 DEF TempWritten, RenameTemp, WriteBegins
    <3>2. QED
      BY <2>0, <2>3, <3>1 DEF TempWritten, RenameTemp, WriteBegins, ExportTypeOK
  <2>4. ASSUME NEW p \in Users, Compare(p) PROVE FALSE
    <3>1. q # p
      BY <2>4 DEF Compare
    <3>2. write'[q] = write[q] \/ write'[q] = [write[q] EXCEPT !.alone = FALSE]
      BY <2>4, <3>1 DEF Compare, Compared
    <3>3. write[q] \in WriteRecs
      BY <2>0, WriteFields
    <3>4. QED
      BY <3>2, <3>3 DEF WriteRecs
  <2>5. ASSUME Removed PROVE FALSE
    <3>1. PICK f \in Names : ExportRemoved(f)
      BY <2>5 DEF Removed
    <3>2. write'[q] = write[q] \/ write'[q] = [write[q] EXCEPT !.alone = FALSE]
      BY <3>1 DEF ExportRemoved
    <3>3. write[q] \in WriteRecs
      BY <2>0, WriteFields
    <3>4. QED
      BY <3>2, <3>3 DEF WriteRecs
  <2>6. \/ \E p \in Users : \/ SidecarWritten(p) \/ WriteFails(p) \/ WriterDies(p)
                            \/ WriterReleased(p) \/ TempWritten(p) \/ RenameTemp(p)
                            \/ Compare(p) \/ \E c : WriteBegins(p, c)
    <3>1. ASSUME NEW p \in Users
          PROVE  /\ \A name : ~Start(p, name)
                 /\ ~Fetch(p) /\ ~FetchFails(p) /\ ~FetchFatal(p) /\ ~Load(p) /\ ~UpsertBatch(p)
      BY DEF Start, Fetch, FetchFails, FetchFatal, Load, UpsertBatch, exportVars
    <3>2. /\ \A v : ~Released(v)
          /\ ~Removed /\ ~Quiet /\ ~UNCHANGED vars
      BY <2>5 DEF Released, Quiet, vars, exportVars
    <3>3. \E p \in Users : \/ \E agg \in AggLevels : StartExport(p, agg)
                           \/ Exporting(p) \/ ExportEnds(p) \/ Dies(p)
      BY <3>1, <3>2 DEF Next
    <3>4. QED
      BY <3>3 DEF StartExport, Exporting, WriteStep, ExportEnds, Dies
  <2>7. QED
    BY <2>1, <2>2, <2>3, <2>4, <2>6
<1>2. QED
  BY <1>1, Invariance, PTL DEF Spec, ExportLands
=============================================================================
