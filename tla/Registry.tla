------------------------------- MODULE Registry -------------------------------
(***************************************************************************)
(* sourcereg.DBRegistry: the table of sources in SQLite, the map of live   *)
(* source objects, the registry's RWMutex and one RWMutex per object, as   *)
(* AddSource, RemoveSource, LoadAll, ListSources, ListCategories,          *)
(* GetDomains/GetPrefixes, the refresh handler and Close at shutdown use   *)
(* them from several goroutines.                                           *)
(*                                                                         *)
(* A source's configuration is its prefix and its provider.  An object is  *)
(* named after the operation that created it and its source id.            *)
(*                                                                         *)
(* A Go RWMutex prefers writers: once Lock is called no new RLock succeeds *)
(* until that writer has come and gone.  A lock is therefore two sets: w,  *)
(* the goroutine inside or waiting in Lock, and r, those holding an RLock. *)
(* A read section without a blocking call in it is one step.               *)
(***************************************************************************)
EXTENDS Naturals, FiniteSets

CONSTANTS Threads,   \* goroutines: API requests and pipeline runs
          Ids,       \* source ids
          Offered,   \* the configurations requests carry
          Wanted,    \* the prefixes whose categories are asked for
          MaxOps,    \* bound on the operations started
          Faults     \* subset of {"db", "create", "load"}

Providers == {"plaintext", "v2flygeosite", "ipverse", "v2flygeoip", "mmdb"}

ASSUME RegistryAssumption ==
    /\ \A c \in Offered : DOMAIN c = {"prefix", "provider"}
                          /\ c.provider \in Providers
    /\ MaxOps \in Nat
    /\ Faults \subseteq {"db", "create", "load"}

VARIABLES db,     \* id |-> {} or {its configuration}: table sources
          mem,    \* id |-> operation that created its live object, or 0
          objs,   \* object |-> its configuration, data, reader and lock
          regW, regR,           \* the registry's RWMutex
          pc, op,               \* goroutine |-> where it is, its operation
          num,                  \* goroutine |-> number of its operation
          cur,                  \* goroutine |-> object it works on
          pend,                 \* goroutine |-> objects it has yet to visit
          found,                \* goroutine |-> objects with categories to list
          broken,               \* goroutine |-> rows.Err() will report
          solo,                 \* goroutine |-> no other writer since it began
          agree,                \* map and table cannot have parted
          calm,                 \* no overlap and no fault so far
          down,                 \* Close has returned: the process is at its end
          ops                   \* operations started

locals == <<op, num, cur, pend, found, broken>>
ghosts == <<solo, agree, calm>>
bounds == <<down, ops>>
vars == <<db, mem, objs, regW, regR, pc, op, num, cur, pend, found, broken,
          solo, agree, calm, down, ops>>

Objects == (1..MaxOps) \X Ids
Nobody == <<0, 0>>
Blank == [cfg |-> {}, loaded |-> FALSE, reader |-> "none", w |-> {}, r |-> {}]
The(S) == CHOOSE x \in S : TRUE
Live == {<<mem[id], id>> : id \in {i \in Ids : mem[i] # 0}}
Provider(o) == The(objs[o].cfg).provider

\* Info of these providers calls Categories while it holds its own RLock
Nested == {"ipverse", "v2flygeoip", "mmdb"}
InfoNests(o) == Provider(o) \in Nested

\* their categories are configured, the others' come from the data they loaded
Configured == {"plaintext", "ipverse"}
\* they fetch without their lock, and replace the old data only on success
FetchesFirst == {"v2flygeosite"}
\* they keep a file open, from a Load until Close or the next Load
OpensReader == {"mmdb"}

Writers == {"add", "remove", "loadall"}     \* change the table or the map
Mutators == Writers \cup {"refresh", "shut"}

Idle == [name |-> "none"]
Operations ==
    [name : {"add"}, id : Ids, cfg : Offered]
        \cup [name : {"remove", "refresh"}, id : Ids]
        \cup [name : {"loadall", "list", "cats", "shut"}]
        \cup [name : {"get"}, prefix : Wanted]

-----------------------------------------------------------------------------
Init ==
    /\ db = [id \in Ids |-> {}]
    /\ mem = [id \in Ids |-> 0]
    /\ objs = [o \in Objects |-> Blank]
    /\ regW = {} /\ regR = {}
    /\ pc = [t \in Threads |-> "idle"]
    /\ op = [t \in Threads |-> Idle]
    /\ num = [t \in Threads |-> 0]
    /\ cur = [t \in Threads |-> Nobody]
    /\ pend = [t \in Threads |-> {}]
    /\ found = [t \in Threads |-> {}]
    /\ broken = [t \in Threads |-> FALSE]
    /\ solo = [t \in Threads |-> TRUE]
    /\ agree = TRUE /\ calm = TRUE
    /\ down = FALSE /\ ops = 0

Goto(t, label) == pc' = [pc EXCEPT ![t] = label]
Visit(t, o) == cur' = [cur EXCEPT ![t] = o]
Leave(t) == pend' = [pend EXCEPT ![t] = @ \ {cur[t]}]

Return(t) ==
    /\ Goto(t, "idle")
    /\ op' = [op EXCEPT ![t] = Idle]
    /\ num' = [num EXCEPT ![t] = 0]
    /\ cur' = [cur EXCEPT ![t] = Nobody]
    /\ pend' = [pend EXCEPT ![t] = {}]
    /\ found' = [found EXCEPT ![t] = {}]
    /\ broken' = [broken EXCEPT ![t] = FALSE]

InFlight(names) == {t \in Threads : op[t].name \in names}

Entry == [add |-> "insert", remove |-> "lock", loadall |-> "query",
          list |-> "rlock", cats |-> "rlock", get |-> "rlock",
          refresh |-> "lookup", shut |-> "lock"]

\* AddSource creates its object first, before it touches table or map
Start(t, o) ==
    /\ pc[t] = "idle" /\ ops < MaxOps
    /\ o.name = "shut" => InFlight({"shut"}) = {}
    /\ ops' = ops + 1
    /\ op' = [op EXCEPT ![t] = o]
    /\ num' = [num EXCEPT ![t] = ops + 1]
    /\ Goto(t, Entry[o.name])
    /\ objs' = IF o.name = "add"
               THEN [objs EXCEPT ![<<ops + 1, o.id>>].cfg = {o.cfg}] ELSE objs
    /\ solo' = [u \in Threads |->
                  IF u = t THEN InFlight(Writers) = {}
                  ELSE u \in InFlight(Writers)
                        => solo[u] /\ o.name \notin Writers]
    /\ agree' = (agree /\ (o.name \in Writers => InFlight(Writers) = {}))
    /\ calm' = (calm /\ (o.name \in Mutators => InFlight(Mutators) = {}))
    /\ UNCHANGED <<db, mem, regW, regR, cur, pend, found, broken, down>>

-----------------------------------------------------------------------------
(* The table.                                                              *)

\* AddSource's upsert; column prefix is UNIQUE
Insert(t) ==
    /\ pc[t] = "insert"
    /\ LET taken == \E id \in Ids \ {op[t].id} :
                        \E c \in db[id] : c.prefix = op[t].cfg.prefix
       IN  \/ /\ ~taken
              /\ db' = [db EXCEPT ![op[t].id] = {op[t].cfg}]
              /\ Goto(t, "lock")
              /\ UNCHANGED locals
           \/ /\ taken \/ "db" \in Faults
              /\ Return(t)
              /\ UNCHANGED db
    /\ UNCHANGED <<mem, objs, regW, regR, ghosts, bounds>>

\* Mutant: only the map forgets the source.
DeleteSkipped(t) ==
    /\ pc[t] = "delete"
    /\ Goto(t, "close")
    /\ UNCHANGED <<db, mem, objs, regW, regR, locals, ghosts, bounds>>

\* RemoveSource's delete, after the map; on error it returns without Close
Delete(t) ==
    /\ pc[t] = "delete"
    /\ \/ /\ db' = [db EXCEPT ![op[t].id] = {}]
          /\ Goto(t, "close")
          /\ UNCHANGED <<locals, ghosts>>
       \/ /\ "db" \in Faults
          /\ Return(t)
          /\ agree' = FALSE /\ calm' = FALSE
          /\ UNCHANGED <<db, solo>>
    /\ UNCHANGED <<mem, objs, regW, regR, bounds>>

\* LoadAll reads the rows and creates an object for each it can; rows may
\* break off early, which it notices only after the loads
Query(t) ==
    /\ pc[t] = "query"
    /\ LET rows == {id \in Ids : db[id] # {}}
       IN  \/ \E made \in SUBSET rows, b \in BOOLEAN :
              /\ b => "db" \in Faults
              /\ made # rows => b \/ "create" \in Faults
              /\ made = {} => rows = {} \/ b    \* else: all rows malformed
              /\ LET new == {<<num[t], id>> : id \in made}
                 IN  /\ pend' = [pend EXCEPT ![t] = new]
                     /\ objs' = [o \in Objects |->
                                   IF o \in new
                                   THEN [objs[o] EXCEPT !.cfg = db[o[2]]]
                                   ELSE objs[o]]
              /\ broken' = [broken EXCEPT ![t] = b]
              /\ agree' = (agree /\ made = rows)
              /\ solo' = [solo EXCEPT ![t] = @ /\ made = rows]
              /\ calm' = (calm /\ ~b)
              /\ Goto(t, "next")
              /\ UNCHANGED <<op, num, cur, found>>
           \/ /\ "db" \in Faults \/ ("create" \in Faults /\ rows # {})
              /\ Return(t)
              /\ UNCHANGED <<objs, ghosts>>
    /\ UNCHANGED <<db, mem, regW, regR, bounds>>

\* LoadAll's loop over the new objects, and what follows it
NextLoad(t) ==
    /\ pc[t] = "next"
    /\ \/ \E o \in pend[t] : /\ Visit(t, o) /\ Goto(t, "info")
                             /\ UNCHANGED <<op, num, pend, found, broken>>
       \/ /\ pend[t] = {} /\ ~broken[t]
          /\ Goto(t, "lock") /\ UNCHANGED locals
       \/ /\ pend[t] = {} /\ broken[t] /\ Return(t)
    /\ UNCHANGED <<db, mem, objs, regW, regR, ghosts, bounds>>

-----------------------------------------------------------------------------
(* The map: r.mu.Lock, change it, Unlock; then close what was taken out.   *)

Lock(t) ==
    /\ pc[t] = "lock" /\ regW = {}
    /\ regW' = {t}
    /\ Goto(t, "swap")
    /\ UNCHANGED <<db, mem, objs, regR, locals, ghosts, bounds>>

Swapped(t, name, map, next) ==
    /\ pc[t] = "swap" /\ op[t].name = name /\ regR = {}
    /\ mem' = map
    /\ pend' = [pend EXCEPT ![t] = {o \in Live : map[o[2]] # o[1]}]
    /\ regW' = {}
    /\ Goto(t, next)
    /\ UNCHANGED <<db, objs, regR, op, num, cur, found, broken, bounds>>

AddSwap(t) == /\ Swapped(t, "add", [mem EXCEPT ![op[t].id] = num[t]], "close")
              /\ UNCHANGED ghosts

RemoveSwap(t) == /\ Swapped(t, "remove", [mem EXCEPT ![op[t].id] = 0], "delete")
                 /\ UNCHANGED ghosts

\* the new map replaces the old one whole, whatever happened to that meanwhile
LoadAllSwap(t) ==
    /\ Swapped(t, "loadall",
               [id \in Ids |-> IF objs[<<num[t], id>>].cfg = {} THEN 0
                               ELSE num[t]], "close")
    /\ agree' = solo[t]
    /\ UNCHANGED <<solo, calm>>

\* Mutant: what was taken out is not closed.
CloseForgotten(t) ==
    /\ pc[t] = "close"
    /\ \E o \in pend[t] : pend' = [pend EXCEPT ![t] = @ \ {o}]
    /\ UNCHANGED <<db, mem, objs, regW, regR, pc, op, num, cur, found, broken, ghosts,
                   bounds>>

\* Close does something only where there is a reader, and takes the lock to do it
Close(t) ==
    /\ pc[t] = "close"
    /\ \E o \in pend[t] :
         \/ /\ Provider(o) \notin OpensReader
            /\ pend' = [pend EXCEPT ![t] = @ \ {o}]
            /\ UNCHANGED <<objs, pc, cur>>
         \/ /\ Provider(o) \in OpensReader /\ objs[o].w = {}
            /\ objs' = [objs EXCEPT ![o].w = {t}]
            /\ Visit(t, o) /\ Goto(t, "closing")
            /\ UNCHANGED pend
    /\ UNCHANGED <<db, mem, regW, regR, op, num, found, broken, ghosts, bounds>>

CloseReader(t) ==
    /\ pc[t] = "closing" /\ objs[cur[t]].r = {}
    /\ objs' = [objs EXCEPT ![cur[t]].w = {},
                            ![cur[t]].reader = IF @ = "none" THEN @ ELSE "closed"]
    /\ Leave(t)
    /\ Goto(t, "close")
    /\ UNCHANGED <<db, mem, regW, regR, op, num, cur, found, broken, ghosts, bounds>>

\* AddSource goes on to load its object; the others are done
Closed(t) ==
    /\ pc[t] = "close" /\ pend[t] = {} /\ op[t].name # "shut"
    /\ \/ /\ op[t].name = "add"
          /\ Visit(t, <<num[t], op[t].id>>) /\ Goto(t, "info")
          /\ UNCHANGED <<op, num, pend, found, broken>>
       \/ /\ op[t].name # "add" /\ Return(t)
    /\ UNCHANGED <<db, mem, objs, regW, regR, ghosts, bounds>>

\* DBRegistry.Close, deferred by serve: the objects are closed one by one with
\* the registry's lock held
ShutBegin(t) ==
    /\ pc[t] = "swap" /\ op[t].name = "shut" /\ regR = {}
    /\ pend' = [pend EXCEPT ![t] = Live]
    /\ Goto(t, "close")
    /\ UNCHANGED <<db, mem, objs, regW, regR, op, num, cur, found, broken,
                   ghosts, bounds>>

\* ... and nothing but closing the database is left to do
ShutEnd(t) ==
    /\ pc[t] = "close" /\ op[t].name = "shut" /\ pend[t] = {}
    /\ mem' = [id \in Ids |-> 0]
    /\ regW' = {}
    /\ down' = TRUE
    /\ agree' = FALSE
    /\ Return(t)
    /\ UNCHANGED <<db, objs, regR, solo, calm, ops>>

-----------------------------------------------------------------------------
(* Info and Load of a provider.                                            *)

\* every provider says Enabled: true, so AddSource and LoadAll go on to Load
AfterInfo(t) ==
    \/ /\ op[t].name \in {"add", "loadall"}
       /\ Goto(t, "load") /\ UNCHANGED locals
    \/ /\ op[t].name = "list"
       /\ Goto(t, "each") /\ Leave(t) /\ UNCHANGED <<op, num, cur, found, broken>>
    \/ /\ op[t].name = "cats" /\ Goto(t, "get") /\ UNCHANGED locals
    \/ /\ op[t].name = "refresh" /\ Return(t)

Info(t) ==
    /\ pc[t] = "info" /\ objs[cur[t]].w = {}
    /\ \/ /\ ~InfoNests(cur[t])
          /\ AfterInfo(t)
          /\ UNCHANGED objs
       \/ /\ InfoNests(cur[t])
          /\ objs' = [objs EXCEPT ![cur[t]].r = @ \cup {t}]
          /\ Goto(t, "categories") /\ UNCHANGED locals
    /\ UNCHANGED <<db, mem, regW, regR, ghosts, bounds>>

\* the second RLock of the same mutex: a writer that came in between keeps it
\* out, and waits for it
InfoCategories(t) ==
    /\ pc[t] = "categories" /\ objs[cur[t]].w = {}
    /\ objs' = [objs EXCEPT ![cur[t]].r = @ \ {t}]
    /\ AfterInfo(t)
    /\ UNCHANGED <<db, mem, regW, regR, ghosts, bounds>>

LoadLock(t) ==
    /\ pc[t] = "load" /\ objs[cur[t]].w = {}
    /\ objs' = [objs EXCEPT ![cur[t]].w = {t}]
    /\ Goto(t, "locked")
    /\ UNCHANGED <<db, mem, regW, regR, locals, ghosts, bounds>>

\* Old data is thrown away before new data is fetched.  (plaintext does so when
\* its file could be opened; its category does not depend on the data.)
LoadBegin(t) ==
    /\ pc[t] = "locked" /\ objs[cur[t]].r = {}
    /\ objs' = [objs EXCEPT ![cur[t]].loaded =
                    @ /\ Provider(cur[t]) \in FetchesFirst]
    /\ Goto(t, "loading")
    /\ UNCHANGED <<db, mem, regW, regR, locals, ghosts, bounds>>

AfterLoad(t, ok) ==
    \/ /\ op[t].name = "loadall"
       /\ Goto(t, "next") /\ Leave(t) /\ UNCHANGED <<op, num, cur, found, broken>>
    \/ /\ op[t].name = "refresh" /\ ok
       /\ Goto(t, "info") /\ UNCHANGED locals
    \/ /\ op[t].name = "add" \/ (op[t].name = "refresh" /\ ~ok)
       /\ Return(t)

\* a load that fails late has opened the reader, and may keep part of the data
LoadEnd(t) ==
    /\ pc[t] = "loading"
    /\ \E ok, opened, part \in BOOLEAN :
         /\ ~ok => "load" \in Faults
         /\ opened => Provider(cur[t]) \in OpensReader
         /\ ok /\ Provider(cur[t]) \in OpensReader => opened
         /\ part => ~ok /\ opened
         /\ objs' = [objs EXCEPT ![cur[t]].w = {},
                                 ![cur[t]].loaded = @ \/ ok \/ part,
                                 ![cur[t]].reader = IF opened THEN "open" ELSE @]
         /\ AfterLoad(t, ok)
    /\ UNCHANGED <<db, mem, regW, regR, ghosts, bounds>>

-----------------------------------------------------------------------------
(* Readers.                                                                *)

\* GetSource in the refresh handler
Lookup(t) ==
    /\ pc[t] = "lookup" /\ regW = {}
    /\ \/ /\ mem[op[t].id] # 0
          /\ Visit(t, <<mem[op[t].id], op[t].id>>) /\ Goto(t, "load")
          /\ UNCHANGED <<op, num, pend, found, broken>>
       \/ /\ mem[op[t].id] = 0 /\ Return(t)
    /\ UNCHANGED <<db, mem, objs, regW, regR, ghosts, bounds>>

\* ListSources and findSourceForCategory hold the registry's RLock while they
\* take those of the objects
RLock(t) ==
    /\ pc[t] = "rlock" /\ regW = {}
    /\ regR' = regR \cup {t}
    /\ pend' = [pend EXCEPT ![t] = Live]
    /\ Goto(t, CASE op[t].name = "list" -> "each"
                 [] op[t].name = "cats" -> "collect"
                 [] op[t].name = "get"  -> "scan")
    /\ UNCHANGED <<db, mem, objs, regW, op, num, cur, found, broken, ghosts, bounds>>

ListEach(t) ==
    /\ pc[t] = "each"
    /\ \/ \E o \in pend[t] : /\ Visit(t, o) /\ Goto(t, "info")
                             /\ UNCHANGED <<regR, op, num, pend, found, broken>>
       \/ /\ pend[t] = {} /\ regR' = regR \ {t} /\ Return(t)
    /\ UNCHANGED <<db, mem, objs, regW, ghosts, bounds>>

\* Categories returns something
HasCategories(o) == objs[o].loaded \/ Provider(o) \in Configured

\* the object has a category with that prefix
Owns(o, prefix) == The(objs[o].cfg).prefix = prefix /\ HasCategories(o)

\* ListCategories: Categories of every object under the registry's lock
Collect(t) ==
    /\ pc[t] = "collect"
    /\ \/ \E o \in pend[t] :
            /\ objs[o].w = {}
            /\ pend' = [pend EXCEPT ![t] = @ \ {o}]
            /\ found' = [found EXCEPT ![t] =
                            IF HasCategories(o) THEN @ \cup {o} ELSE @]
            /\ UNCHANGED <<regR, pc>>
       \/ /\ pend[t] = {}
          /\ regR' = regR \ {t}
          /\ Goto(t, "pairs")
          /\ UNCHANGED <<pend, found>>
    /\ UNCHANGED <<db, mem, objs, regW, op, num, cur, broken, ghosts, bounds>>

\* ... then, without it, Info and a lookup for every category of an object
\* that may be out of the map and closed by now; one category stands for all
Pairs(t) ==
    /\ pc[t] = "pairs"
    /\ \/ \E o \in found[t] :
            /\ Visit(t, o)
            /\ found' = [found EXCEPT ![t] = @ \ {o}]
            /\ Goto(t, "info")
            /\ UNCHANGED <<op, num, pend, broken>>
       \/ /\ found[t] = {} /\ Return(t)
    /\ UNCHANGED <<db, mem, objs, regW, regR, ghosts, bounds>>

\* Mutant: the early return forgets RUnlock.
ScanKeepsLock(t) ==
    /\ pc[t] = "scan"
    /\ \/ \E o \in pend[t] :
            /\ objs[o].w = {}
            /\ \/ /\ Owns(o, op[t].prefix)
                  /\ Visit(t, o) /\ Goto(t, "get") /\ UNCHANGED <<regR, pend>>
               \/ /\ ~Owns(o, op[t].prefix)
                  /\ pend' = [pend EXCEPT ![t] = @ \ {o}]
                  /\ UNCHANGED <<regR, cur, pc>>
            /\ UNCHANGED <<op, num, found, broken>>
       \/ /\ pend[t] = {} /\ regR' = regR \ {t} /\ Return(t)
    /\ UNCHANGED <<db, mem, objs, regW, ghosts, bounds>>

Scan(t) ==
    /\ pc[t] = "scan"
    /\ \/ \E o \in pend[t] :
            /\ objs[o].w = {}
            /\ \/ /\ Owns(o, op[t].prefix)
                  /\ regR' = regR \ {t}
                  /\ Visit(t, o) /\ Goto(t, "get") /\ UNCHANGED pend
               \/ /\ ~Owns(o, op[t].prefix)
                  /\ pend' = [pend EXCEPT ![t] = @ \ {o}]
                  /\ UNCHANGED <<regR, cur, pc>>
            /\ UNCHANGED <<op, num, found, broken>>
       \/ /\ pend[t] = {} /\ regR' = regR \ {t} /\ Return(t)
    /\ UNCHANGED <<db, mem, objs, regW, ghosts, bounds>>

\* GetDomains or GetPrefixes of the object found, without the registry's lock
Get(t) ==
    /\ pc[t] = "get" /\ objs[cur[t]].w = {}
    /\ \/ op[t].name = "get" /\ Return(t)
       \/ op[t].name = "cats" /\ Goto(t, "pairs") /\ UNCHANGED locals
    /\ UNCHANGED <<db, mem, objs, regW, regR, ghosts, bounds>>

-----------------------------------------------------------------------------
Step(t) ==
    \/ Insert(t) \/ Delete(t) \/ Query(t) \/ NextLoad(t)
    \/ Lock(t) \/ AddSwap(t) \/ RemoveSwap(t) \/ LoadAllSwap(t)
    \/ Close(t) \/ CloseReader(t) \/ Closed(t) \/ ShutBegin(t) \/ ShutEnd(t)
    \/ Info(t) \/ InfoCategories(t) \/ LoadLock(t) \/ LoadBegin(t) \/ LoadEnd(t)
    \/ Lookup(t) \/ RLock(t) \/ ListEach(t) \/ Scan(t) \/ Get(t)
    \/ Collect(t) \/ Pairs(t)

Next == /\ ~down
        /\ \/ \E t \in Threads, o \in Operations : Start(t, o)
           \/ \E t \in Threads : Step(t)

Spec == Init /\ [][Next]_vars

-----------------------------------------------------------------------------
\* The state is well typed: at most one writer per lock, never inside a lock
\* together with a reader, and every live object has a configuration.
TypeOK ==
    /\ \A id \in Ids : db[id] \subseteq Offered /\ Cardinality(db[id]) <= 1
    /\ mem \in [Ids -> 0..MaxOps]
    /\ regW \subseteq Threads /\ Cardinality(regW) <= 1 /\ regR \subseteq Threads
    /\ \A o \in Objects :
         /\ objs[o].reader \in {"none", "open", "closed"}
         /\ objs[o].w \subseteq Threads /\ Cardinality(objs[o].w) <= 1
         /\ \A t \in Threads : pc[t] = "loading" /\ cur[t] = o
                                => objs[o].w = {t} /\ objs[o].r = {}
    /\ \A o \in Live : objs[o].cfg # {}

\* Unless writers overlapped or the table failed, map and table agree, and a
\* LoadAll that no AddSource, RemoveSource or LoadAll overlapped makes them
\* agree again: every pipeline run starts with one, so a divergence lasts at
\* most until the next undisturbed run.
Agreement ==
    agree /\ InFlight(Writers) = {}
        => \A id \in Ids : db[id] = IF mem[id] = 0 THEN {}
                                    ELSE objs[<<mem[id], id>>].cfg

\* As long as nothing overlaps, every MMDB reader that was opened belongs to a
\* live source or has been closed: replacing, removing, reloading and
\* shutting down leak none.
ReadersClosed ==
    calm /\ InFlight(Mutators) = {}
        => \A o \in Objects : objs[o].reader = "open" => o \in Live

Busy == {t \in Threads : pc[t] # "idle"}

\* t waits for a lock: for a writer to leave it or for its readers to
Waits(t) ==
    \/ pc[t] \in {"lock", "lookup", "rlock"} /\ regW # {}
    \/ pc[t] = "swap" /\ regR # {}
    \/ pc[t] \in {"info", "categories", "load", "get"} /\ objs[cur[t]].w # {}
    \/ pc[t] \in {"locked", "closing"} /\ objs[cur[t]].r # {}
    \/ /\ pc[t] \in {"scan", "collect", "close"} /\ pend[t] # {}
       /\ \A o \in pend[t] : /\ objs[o].w # {}
                             /\ pc[t] # "close" \/ Provider(o) \in OpensReader

\* a goroutine between the two RLocks of Info, with a writer waiting
Trapped == \E t \in Threads : pc[t] = "categories" /\ objs[cur[t]].w # {}

\* The registry's lock, the objects' locks and the order in which they are
\* taken allow no other deadlock than the nested RLock of Info.
NoOtherWedge == Busy # {} => Trapped \/ \E t \in Busy : ~Waits(t)

\* types.go: "Implementations must be safe for concurrent use": the operations
\* in flight never all wait for each other.
NoWedge == Busy # {} => \E t \in Busy : ~Waits(t)
===============================================================================
