----------------------------- MODULE SourceStore -----------------------------
(***************************************************************************)
(* internal/source: the local copy of dlc.dat.  Every pipeline run and     *)
(* every `d2ip dump` or `d2ip resolve` makes an HTTPStore of its own; each *)
(* has a mutex and a copy of the metadata of its own, and all of them      *)
(* share three names on disk: the file, its temporary and its metadata     *)
(* sidecar.  A user p of this module is one such store in one process; its *)
(* mutex makes it one sequence of steps.                                   *)
(*                                                                         *)
(* The file system is modelled with inodes, because os.Create truncates    *)
(* the file another store is writing, and os.Rename moves it under that    *)
(* store's hands.                                                          *)
(***************************************************************************)
EXTENDS Integers, FiniteSets

CONSTANTS
  Users,      \* the stores
  Versions,   \* the published versions of dlc.dat; 0 stands for none
  Chunks      \* writes that a download takes

ASSUME StoreAssumption ==
  /\ IsFiniteSet(Users) /\ Users # {}
  /\ Versions \subseteq Nat \ {0} /\ Versions # {}
  /\ Chunks \in Nat \ {0}

Inodes == 1 .. Cardinality(Users) + 2

\* The bytes of an inode: for each chunk the version it comes from, 0 where
\* nothing has been written.
Bodies == [1 .. Chunks -> Versions \cup {0}]

Empty == [k \in 1 .. Chunks |-> 0]

Whole(v) == [k \in 1 .. Chunks |-> v]

VARIABLES
  server,   \* the version that the URL serves
  cached,   \* the inode at cachePath, 0 if there is none
  temp,     \* the inode at cachePath + ".tmp", 0 if there is none
  data,     \* [Inodes -> Bodies]
  meta,     \* the version in the metadata sidecar; 0 if it is missing or
            \* does not parse, which NewHTTPStore treats alike
  store,    \* [Users -> record]: pc, current, got, ino and pos of each store
  harm      \* history: what has happened that the code does not guard against

storeVars == <<server, cached, temp, data, meta, store, harm>>

\* "get" before the decision, "create", "write", "rename" and "save" inside
\* fetchLocked, "ok" and "failed" when Get has returned.
StorePCs == {"off", "get", "create", "write", "rename", "save", "ok", "failed"}

Fetching == {"create", "write", "rename", "save"}

NoStore == [pc |-> "off", current |-> 0, got |-> 0, ino |-> 0, pos |-> 0, early |-> TRUE]

StoreInit ==
  /\ server \in Versions
  /\ cached = 0 /\ temp = 0
  /\ data = [i \in Inodes |-> Empty]
  /\ meta = 0
  /\ store = [p \in Users |-> NoStore]
  /\ harm = {}

-----------------------------------------------------------------------------
(* Names and inodes *)

\* The inodes that a name or a descriptor refers to, with the names c and t
\* and the stores s.
Live(c, t, s) == {c, t} \cup {s[p].ino : p \in Users}

\* The contents of an inode that nothing refers to are gone.
Kept(d, c, t, s) == [i \in Inodes |-> IF i \in Live(c, t, s) THEN d[i] ELSE Empty]

FreshInode == CHOOSE i \in Inodes : i \notin Live(cached, temp, store)

-----------------------------------------------------------------------------
(* NewHTTPStore, Get and ForceRefresh *)

\* NewHTTPStore, with loadMetadata.  `early` remembers, for the properties,
\* that a file, or its sidecar, was still to come.
NewHTTPStore(p) ==
  /\ store[p].pc = "off"
  /\ store' = [store EXCEPT ![p] = [NoStore EXCEPT !.pc = "get", !.current = meta,
                                                   !.early =
                   cached = 0 \/ \E q \in Users : store[q].pc = "save"]]
  /\ UNCHANGED <<server, cached, temp, data, meta, harm>>

\* The store s after Get has returned: the temporary, if it had one, is
\* closed.
Returned(s, how) == [s EXCEPT !.pc = how, !.ino = 0, !.pos = 0, !.got = 0]

\* Whether path and current are returned, which all exits decide by a Stat.
FileOr(how) == IF cached # 0 THEN "ok" ELSE how

\* Get with maxAge 0, or with metadata younger than maxAge: no request.
GetCached(p) ==
  /\ store[p].pc = "get"
  /\ \E zero \in BOOLEAN :
       /\ zero \/ (store[p].current # 0 /\ cached # 0)
       /\ store' = [store EXCEPT ![p] = Returned(@, FileOr("failed"))]
  /\ UNCHANGED <<server, cached, temp, data, meta, harm>>

\* fallback: the request or the download failed.  The temporary is removed,
\* whoever wrote it, and the file that is there, if any, is returned.
fallback(p, t) ==
  LET s == [store EXCEPT ![p] = Returned(@, FileOr("failed"))]
  IN /\ temp' = t
     /\ store' = s
     /\ data' = Kept(data, cached, t, s)
     /\ UNCHANGED <<server, cached, meta, harm>>

\* No answer, or one that is neither 200 nor 304.
RequestFails(p) == store[p].pc = "get" /\ fallback(p, temp)

\* 304: the ETag sent is that of the version served.
NotModified(p) ==
  /\ store[p].pc = "get"
  /\ store[p].current = server
  /\ store' = [store EXCEPT ![p] = Returned(@, FileOr("failed"))]
  /\ UNCHANGED <<server, cached, temp, data, meta, harm>>

\* 200: another version than the one whose ETag was sent.
Accepted(p) ==
  /\ store[p].pc = "get"
  /\ store[p].current # server
  /\ store' = [store EXCEPT ![p].pc = "create", ![p].got = server]
  /\ harm' = IF \E q \in Users \ {p} : store[q].pc \in Fetching
             THEN harm \cup {"overlap"} ELSE harm
  /\ UNCHANGED <<server, cached, temp, data, meta>>

-----------------------------------------------------------------------------
(* The download *)

\* os.Create of the temporary: the one that is there is truncated, not
\* replaced.
Create(p) ==
  /\ store[p].pc = "create"
  /\ LET i == IF temp # 0 THEN temp ELSE FreshInode
     IN /\ temp' = i
        /\ data' = [data EXCEPT ![i] = Empty]
        /\ store' = [store EXCEPT ![p].pc = "write", ![p].ino = i]
  /\ harm' = IF \E q \in Users \ {p} : store[q].pc \in {"write", "rename"}
             THEN harm \cup {"shared"} ELSE harm
  /\ UNCHANGED <<server, cached, meta>>

\* io.Copy, one write at a time, each at the offset this store has reached.
\* After the last one the file is synced and closed.
Write(p) ==
  /\ store[p].pc = "write"
  /\ LET k == store[p].pos + 1
     IN /\ data' = [data EXCEPT ![store[p].ino][k] = store[p].got]
        /\ store' = [store EXCEPT ![p].pos = k,
                                  ![p].pc = IF k = Chunks THEN "rename" ELSE "write",
                                  ![p].ino = IF k = Chunks THEN 0 ELSE @]
  /\ UNCHANGED <<server, cached, temp, meta, harm>>

\* Mutant: a write error is taken for the end of the body.
WriteFailsTakenForEnd(p) ==
  /\ store[p].pc \in {"create", "write"}
  /\ store' = [store EXCEPT ![p].pc = "rename", ![p].ino = 0]
  /\ UNCHANGED <<server, cached, temp, data, meta, harm>>

\* The directory, the file, the body or the sync fails.
DownloadFails(p) == store[p].pc \in {"create", "write"} /\ fallback(p, 0)

\* os.Rename and the new metadata in memory.  It moves the inode that has the
\* temporary's name now.
Rename(p) ==
  /\ store[p].pc = "rename"
  /\ temp # 0
  /\ LET s == [store EXCEPT ![p].pc = "save", ![p].current = store[p].got]
     IN /\ cached' = temp /\ temp' = 0
        /\ store' = s
        /\ data' = Kept(data, temp, 0, s)
  /\ UNCHANGED <<server, meta, harm>>

\* Mutant: an error of os.Rename is ignored.
RenameFailsGoesOn(p) ==
  /\ store[p].pc = "rename"
  /\ temp' = 0
  /\ store' = [store EXCEPT ![p].pc = "save", ![p].current = store[p].got]
  /\ data' = Kept(data, cached, 0, store)
  /\ UNCHANGED <<server, cached, meta, harm>>

\* It fails for want of the temporary, among other reasons.
RenameFails(p) == store[p].pc = "rename" /\ fallback(p, 0)

\* Mutant: the sidecar is not written.
SaveNothing(p) ==
  /\ store[p].pc = "save"
  /\ store' = [store EXCEPT ![p] = Returned(@, "ok")]
  /\ UNCHANGED <<server, cached, temp, data, meta, harm>>

\* saveMetadata.  An error is logged and Get succeeds.
saveMetadata(p) ==
  /\ store[p].pc = "save"
  /\ meta' = store[p].got
  /\ store' = [store EXCEPT ![p] = Returned(@, "ok")]
  /\ UNCHANGED <<server, cached, temp, data, harm>>

\* os.WriteFile fails before or after it has truncated the sidecar.
saveMetadataFails(p) ==
  /\ store[p].pc = "save"
  /\ meta' \in {meta, 0}
  /\ store' = [store EXCEPT ![p] = Returned(@, "ok")]
  /\ harm' = harm \cup {"unsaved"}
  /\ UNCHANGED <<server, cached, temp, data>>

-----------------------------------------------------------------------------
(* The store's user and its surroundings *)

\* The process that p belongs to dies.  Inside saveMetadata the sidecar may
\* be left empty.
StoreDies(p) ==
  LET s == [store EXCEPT ![p] = NoStore]
  IN /\ store' = s
     /\ data' = Kept(data, cached, temp, s)
     /\ meta' \in IF store[p].pc = "save" THEN {meta, 0} ELSE {meta}
     /\ harm' = IF store[p].pc = "save" THEN harm \cup {"unsaved"} ELSE harm
     /\ UNCHANGED <<server, cached, temp>>

\* The process is done with the store.
StoreReleased(p) ==
  /\ store' = [store EXCEPT ![p] = NoStore]
  /\ UNCHANGED <<server, cached, temp, data, meta, harm>>

\* Another version is released, or an older one again.
Publish(v) ==
  /\ v # server
  /\ server' = v
  /\ UNCHANGED <<cached, temp, data, meta, store, harm>>

\* Someone removes the file and leaves the sidecar: the default path is in
\* /tmp.
FileRemoved ==
  /\ cached # 0
  /\ cached' = 0
  /\ data' = Kept(data, 0, temp, store)
  /\ harm' = harm \cup {"removed"}
  /\ UNCHANGED <<server, temp, meta, store>>

-----------------------------------------------------------------------------
(* Properties *)

\* The variables of the store have their types.
StoreTypeOK ==
  /\ server \in Versions /\ meta \in Versions \cup {0}
  /\ {cached, temp} \subseteq Inodes \cup {0}
  /\ data \in [Inodes -> Bodies]
  /\ store \in [Users -> [pc : StorePCs, current : Versions \cup {0},
                          got : Versions \cup {0}, ino : Inodes \cup {0},
                          pos : 0 .. Chunks, early : BOOLEAN]]
  /\ harm \subseteq {"overlap", "shared", "unsaved", "removed"}

\* The file that Get returns is one version from its first byte to its last,
\* whatever fails or dies on the way, as long as no two stores have had the
\* temporary open together: "atomic file replacement" (store.go:1) is for one
\* writer at a time, since the name of the temporary is fixed (store.go:155).
FileWhole ==
  cached # 0 /\ "shared" \notin harm => \E v \in Versions : data[cached] = Whole(v)

\* The sidecar describes the file: it names the version the file holds, and a
\* 304 for that version vouches for the file.  It takes a store that ends
\* between the rename and the sidecar, two fetches at the same time, or the
\* removal of the file, to separate the two; no failing request, download or
\* rename does, nor a death at any other point (store.go:153-180).
SidecarDescribes ==
  harm = {} /\ (\A p \in Users : store[p].pc # "save") =>
    IF cached = 0 THEN meta = 0 ELSE data[cached] = Whole(meta)

\* Metadata without a file, for which the server answers 304 and every Get
\* fails (store.go:146), comes from removing the file and from nothing else.
\* A Get that succeeds without metadata, whose caller then slices an empty
\* digest (main.go:365, 466) and panics, comes from a sidecar that was not
\* saved, or from a store that is older than the sidecar.
MetadataFollowsFile ==
  /\ meta # 0 /\ cached = 0 => "removed" \in harm
  /\ \A p \in Users :
       store[p].pc = "ok" /\ store[p].current = 0 =>
         store[p].early \/ "unsaved" \in harm
=============================================================================
