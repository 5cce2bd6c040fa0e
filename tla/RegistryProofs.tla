---------------------------- MODULE RegistryProofs ----------------------------
(***************************************************************************)
(* Proofs about Registry, for any number of goroutines, sources and        *)
(* operations.                                                             *)
(*                                                                         *)
(* NoOtherWedge needs to know who is inside each lock (LockInv).           *)
(* Agreement needs the places where table and map differ on purpose        *)
(* (AgreeInv), and ReadersClosed who has opened a reader (DataInv) and who *)
(* is going to close or to bring in an object that the map does not have   *)
(* (CalmInv).  Both rest on the numbers that keep the objects of different *)
(* operations apart (NumInv).  TypeOK needs SingleInv: what stands for an  *)
(* optional value has at most one element.                                 *)
(***************************************************************************)
EXTENDS Registry, FiniteSetTheorems, TLAPS

ObjRecs == [cfg : SUBSET Offered, loaded : BOOLEAN, reader : {"none", "open", "closed"},
            w : SUBSET Threads, r : SUBSET Threads]

Labels == {"idle", "insert", "delete", "query", "next", "lock", "swap", "close", "closing",
           "info", "categories", "load", "locked", "loading", "lookup", "rlock", "each",
           "scan", "get", "collect", "pairs"}

LocalTypes ==
  /\ pc \in [Threads -> Labels]
  /\ op \in [Threads -> Operations \cup {Idle}]
  /\ num \in [Threads -> 0 .. MaxOps]
  /\ cur \in [Threads -> Objects \cup {Nobody}]
  /\ pend \in [Threads -> SUBSET Objects]
  /\ found \in [Threads -> SUBSET Objects]
  /\ broken \in [Threads -> BOOLEAN]

GlobalTypes ==
  /\ db \in [Ids -> SUBSET Offered]
  /\ mem \in [Ids -> 0 .. MaxOps]
  /\ objs \in [Objects -> ObjRecs]
  /\ regW \subseteq Threads /\ regR \subseteq Threads
  /\ solo \in [Threads -> BOOLEAN]
  /\ agree \in BOOLEAN /\ calm \in BOOLEAN /\ down \in BOOLEAN
  /\ ops \in 0 .. MaxOps

\* The operation that a goroutine is in the middle of, by where it is.
Where(t) ==
  LET p == pc[t]
      n == op[t].name
  IN  /\ p = "idle" <=> n = "none"
      /\ p = "insert" => n = "add"
      /\ p = "delete" => n = "remove"
      /\ p \in {"query", "next"} => n = "loadall"
      /\ p \in {"lock", "swap", "close", "closing"} => n \in Writers \cup {"shut"}
      /\ p \in {"load", "locked", "loading"} => n \in {"add", "loadall", "refresh"}
      /\ p \in {"info", "categories"} => n \in {"add", "loadall", "refresh", "list", "cats"}
      /\ p = "lookup" => n = "refresh"
      /\ p = "rlock" => n \in {"list", "cats", "get"}
      /\ p = "each" => n = "list"
      /\ p \in {"collect", "pairs"} => n = "cats"
      /\ p = "scan" => n = "get"
      /\ p = "get" => n \in {"cats", "get"}

\* Where it works on an object, it has one, and its operation has a number.
Busied(t) ==
  /\ pc[t] \in {"info", "categories", "load", "locked", "loading", "get", "closing"} =>
       cur[t] \in Objects
  /\ pc[t] = "closing" => cur[t] \in pend[t]
  /\ pc[t] # "idle" => num[t] # 0

\* The registry's lock: who may hold it or wait inside Lock, who an RLock.
RegistryLock(t) ==
  /\ t \in regW => \/ pc[t] = "swap"
                   \/ op[t].name = "shut" /\ pc[t] \in {"close", "closing"}
  /\ t \in regR => \/ op[t].name = "list" /\ pc[t] \in {"each", "info", "categories"}
                   \/ pc[t] \in {"collect", "scan"}

\* An object's lock.
ObjectLock(t) ==
  \A o \in Objects :
    /\ t \in objs[o].w => pc[t] \in {"locked", "loading", "closing"} /\ cur[t] = o
    /\ t \in objs[o].r => pc[t] = "categories" /\ cur[t] = o

LockInv ==
  /\ LocalTypes
  /\ GlobalTypes
  /\ \A t \in Threads : Where(t) /\ Busied(t) /\ RegistryLock(t) /\ ObjectLock(t)

\* The configuration of the object that operation n made for source id.
Cfg(n, id) == objs[<<n, id>>].cfg

\* Operations have numbers of their own; later ones have made no object, and a
\* LoadAll none before its query.
NumInv ==
  /\ \A t \in Threads : op[t].name # "none" => num[t] \in 1 .. ops
  /\ \A t, u \in Threads :
       op[t].name # "none" /\ op[u].name # "none" /\ num[t] = num[u] => t = u
  /\ \A n \in 1 .. MaxOps, id \in Ids : n > ops => Cfg(n, id) = {}
  /\ \A t \in Threads : pc[t] = "query" => \A id \in Ids : Cfg(num[t], id) = {}

\* The object of an AddSource has the configuration of the request; live ones
\* have one.
CfgInv ==
  /\ \A t \in Threads : op[t].name = "add" => Cfg(num[t], op[t].id) = {op[t].cfg}
  /\ \A id \in Ids : mem[id] # 0 => Cfg(mem[id], id) # {}

\* What the map has for a source.
Held(id) == IF mem[id] = 0 THEN {} ELSE Cfg(mem[id], id)

Writing(t) == op[t].name \in Writers

\* AddSource has changed the table and not the map, RemoveSource the map and
\* not the table.
Between(t) ==
  \/ op[t].name = "add" /\ pc[t] \in {"lock", "swap"}
  \/ op[t].name = "remove" /\ pc[t] = "delete"

\* LoadAll has made its objects and not brought them into the map.
Filling(t) == op[t].name = "loadall" /\ pc[t] \notin {"query", "close", "closing"}

\* A writer that nothing overlapped is the only one.
SoloInv == \A t, u \in Threads : Writing(t) /\ solo[t] /\ Writing(u) => u = t

\* As long as map and table cannot have parted there is one writer, they differ
\* only where it is between the two, and it brings them together.
PartInv ==
  agree =>
    /\ \A t, u \in Threads : Writing(t) /\ Writing(u) => t = u
    /\ \A id \in Ids : db[id] = Held(id) \/ \E t \in Threads : Between(t) /\ op[t].id = id
    /\ \A t \in Threads : Between(t) /\ op[t].name = "add" => db[op[t].id] = {op[t].cfg}
    /\ \A t \in Threads : Between(t) /\ op[t].name = "remove" => mem[op[t].id] = 0

\* The objects of an undisturbed LoadAll are what the table says.
FillInv ==
  \A t \in Threads : Filling(t) /\ solo[t] => \A id \in Ids : Cfg(num[t], id) = db[id]

AgreeInv == NumInv /\ CfgInv /\ SoloInv /\ PartInv /\ FillInv

\* An object with an open reader is one of a provider that opens readers.
OpenInv ==
  \A o \in Objects : objs[o].reader = "open" =>
    objs[o].cfg # {} /\ Provider(o) \in OpensReader

Loads == {"info", "categories", "load", "locked", "loading"}

\* What is loaded exists, and LoadAll loads objects of its own.
LoadsInv(t) ==
  /\ op[t].name \in {"add", "loadall", "refresh"} /\ pc[t] \in Loads => objs[cur[t]].cfg # {}
  /\ op[t].name = "loadall" /\ pc[t] \in Loads \cup {"next"} =>
       \A o \in pend[t] : o[1] = num[t] /\ objs[o].cfg # {}
  /\ op[t].name = "loadall" /\ pc[t] \in Loads => cur[t] \in pend[t]

DataInv == OpenInv /\ \A t \in Threads : LoadsInv(t)

Mutating(t) == op[t].name \in Mutators

\* t is going to close the object, or to bring it into the map.
Keeps(t, o) ==
  \/ pc[t] \in {"delete", "close", "closing"} /\ o \in pend[t]
  \/ Filling(t) /\ o[1] = num[t] /\ objs[o].cfg # {}

\* What the one mutator has to do: every open reader is in the map or its to
\* close or to bring in, and what it loads is in the map.
Mine(t) ==
  /\ \A o \in Objects : objs[o].reader = "open" => o \in Live \/ Keeps(t, o)
  /\ op[t].name = "loadall" /\ pc[t] # "query" => ~broken[t]
  /\ op[t].name = "shut" /\ pc[t] \in {"close", "closing"} =>
       \A o \in Objects : objs[o].reader = "open" => o \in pend[t]
  /\ op[t].name = "add" /\ pc[t] \in {"close", "closing"} => mem[op[t].id] = num[t]
  /\ op[t].name \in {"add", "refresh"} /\ pc[t] \in Loads => cur[t] \in Live

\* As long as nothing overlaps and nothing fails there is at most one mutator,
\* and while there is none every open reader is in the map.
CalmInv ==
  calm =>
    /\ \A t, u \in Threads : Mutating(t) /\ Mutating(u) => t = u
    /\ \A t \in Threads : Mutating(t) => Mine(t)
    /\ (\A t \in Threads : ~Mutating(t)) =>
         \A o \in Objects : objs[o].reader = "open" => o \in Live

\* At most one element.
Single(S) == S = {} \/ \E x : S = {x}

\* A goroutine is alone in the lock it took, and loads with no reader about.
InsideLock(t) ==
  /\ pc[t] \in {"locked", "loading", "closing"} => objs[cur[t]].w = {t}
  /\ pc[t] = "loading" => objs[cur[t]].r = {}

SingleInv ==
  /\ \A t \in Threads : InsideLock(t)
  /\ \A o \in Objects : Single(objs[o].w)
  /\ Single(regW)
  /\ \A id \in Ids : Single(db[id])

-----------------------------------------------------------------------------
USE RegistryAssumption

\* What no step of t changes: the locals of the other goroutines.
Others(t) ==
  \A u \in Threads \ {t} :
    /\ pc'[u] = pc[u] /\ op'[u] = op[u] /\ num'[u] = num[u] /\ cur'[u] = cur[u]
    /\ pend'[u] = pend[u] /\ found'[u] = found[u] /\ broken'[u] = broken[u]

\* The fields of an operation.
LEMMA OpFields ==
  ASSUME NEW o \in Operations \cup {Idle}
  PROVE  /\ o.name \in {"none", "add", "remove", "loadall", "list", "cats", "get", "refresh", "shut"}
         /\ o.name \in {"add", "remove", "refresh"} => o.id \in Ids
         /\ o.name = "add" => o.cfg \in Offered
         /\ o \in Operations => o.name # "none"
BY DEF Operations, Idle

\* Idle is no operation.
LEMMA IdleName == Idle \in Operations \cup {Idle} /\ Idle.name = "none"
BY DEF Idle

\* Return leaves the goroutine idle.
LEMMA Returns ==
  ASSUME LocalTypes, NEW t \in Threads, Return(t)
  PROVE  /\ LocalTypes' /\ Others(t)
         /\ pc'[t] = "idle" /\ op'[t].name = "none" /\ pend'[t] = {}
<1>1. /\ pc' = [pc EXCEPT ![t] = "idle"] /\ op' = [op EXCEPT ![t] = Idle]
      /\ num' = [num EXCEPT ![t] = 0] /\ cur' = [cur EXCEPT ![t] = Nobody]
      /\ pend' = [pend EXCEPT ![t] = {}] /\ found' = [found EXCEPT ![t] = {}]
      /\ broken' = [broken EXCEPT ![t] = FALSE]
  BY DEF Return, Goto
<1>2. 0 \in 0 .. MaxOps /\ "idle" \in Labels
  BY DEF Labels
<1>3. LocalTypes'
  BY <1>1, <1>2, IdleName DEF LocalTypes
<1>4. QED
  BY <1>1, <1>3, IdleName DEF LocalTypes, Others

\* Live objects are objects.
LEMMA LiveObjects ==
  ASSUME GlobalTypes
  PROVE  /\ Live \subseteq Objects
         /\ \A o \in Objects : o \in Live <=> mem[o[2]] = o[1]
         /\ \A id \in Ids : mem[id] # 0 => <<mem[id], id>> \in Objects
<1>1. \A id \in Ids : mem[id] # 0 => <<mem[id], id>> \in Objects
  BY DEF GlobalTypes, Objects
<1>2. Live \subseteq Objects
  BY <1>1 DEF Live
<1>3. ASSUME NEW o \in Objects PROVE o \in Live <=> mem[o[2]] = o[1]
  <2>1. o = <<o[1], o[2]>> /\ o[1] \in 1 .. MaxOps /\ o[2] \in Ids
    BY DEF Objects
  <2>2. o \in Live => mem[o[2]] = o[1]
    BY <2>1 DEF Live
  <2>3. mem[o[2]] = o[1] => o \in Live
    BY <2>1 DEF Live
  <2>4. QED
    BY <2>2, <2>3
<1>4. QED
  BY <1>1, <1>2, <1>3

\* A goroutine that goes to another place in the code.
LEMMA Goes ==
  ASSUME LocalTypes, NEW t \in Threads, NEW l \in Labels, Goto(t, l)
  PROVE  /\ pc' \in [Threads -> Labels] /\ pc'[t] = l
         /\ \A u \in Threads \ {t} : pc'[u] = pc[u]
BY DEF LocalTypes, Goto

-----------------------------------------------------------------------------
(* What a step does to the objects, and to the goroutine that takes it *)

\* Operations work on objects that exist.
LEMMA Visited ==
  ASSUME LockInv, NEW t \in Threads,
         pc[t] \in {"info", "categories", "load", "locked", "loading", "get", "closing"}
  PROVE  cur[t] \in Objects /\ objs[cur[t]] \in ObjRecs
BY DEF LockInv, Busied, GlobalTypes

\* One object's lock or contents change, by a step of the goroutine that works
\* on it; its configuration does not.
ObjStep(t) ==
  /\ objs' \in [Objects -> ObjRecs]
  /\ \A o \in Objects :
       /\ objs'[o].cfg = objs[o].cfg
       /\ objs'[o].w \subseteq objs[o].w \cup {t}
       /\ objs'[o].r \subseteq objs[o].r \cup {t}
       /\ o # cur'[t] => objs'[o] = objs[o]

\* Nothing happens to the objects.
LEMMA ObjSame ==
  ASSUME LockInv, NEW t \in Threads, objs' = objs
  PROVE  ObjStep(t)
BY DEF LockInv, GlobalTypes, ObjStep

\* CloseReader: the lock is free and the reader, if there was one, closed.
LEMMA CloseReaderObj ==
  ASSUME LockInv, NEW t \in Threads, CloseReader(t)
  PROVE  /\ ObjStep(t) /\ cur'[t] = cur[t]
         /\ objs'[cur[t]].w = {} /\ objs'[cur[t]].r = objs[cur[t]].r
         /\ objs'[cur[t]].reader # "open"
<1> DEFINE c == cur[t]
           d == IF objs[c].reader = "none" THEN "none" ELSE "closed"
           x == [objs[c] EXCEPT !.w = {}, !.reader = d]
<1>1. c \in Objects /\ objs[c] \in ObjRecs /\ cur' = cur
  BY Visited DEF CloseReader
<1>2. objs' = [objs EXCEPT ![c] = x]
  BY <1>1 DEF CloseReader
<1>3. d \in {"none", "open", "closed"} /\ d # "open"
  OBVIOUS
<1>4. /\ x \in ObjRecs /\ x.w = {} /\ x.r = objs[c].r /\ x.cfg = objs[c].cfg /\ x.reader = d
  <2> HIDE DEF d
  <2>1. {} \in SUBSET Threads
    OBVIOUS
  <2>2. QED
    BY <1>1, <1>3, <2>1 DEF ObjRecs
<1> HIDE DEF x, d
<1>5. ObjStep(t) /\ objs'[c] = x
  <2>1. objs \in [Objects -> ObjRecs]
    BY DEF LockInv, GlobalTypes
  <2>2. /\ objs' \in [Objects -> ObjRecs] /\ objs'[c] = x
        /\ \A q \in Objects : q # c => objs'[q] = objs[q]
    BY <1>1, <1>2, <1>4, <2>1
  <2>3. QED
    BY <1>1, <1>4, <2>2 DEF ObjStep
<1>6. QED
  BY <1>1, <1>3, <1>4, <1>5

\* Close takes the lock of an object that has a reader, or leaves it alone.
LEMMA CloseObj ==
  ASSUME LockInv, NEW t \in Threads, Close(t)
  PROVE  /\ ObjStep(t)
         /\ \A o \in Objects : objs'[o].reader = objs[o].reader /\ objs'[o].r = objs[o].r
         /\ \/ pc' = pc /\ objs' = objs /\ cur' = cur
            \/ /\ pc' = [pc EXCEPT ![t] = "closing"] /\ cur'[t] \in pend[t]
               /\ cur' = [cur EXCEPT ![t] = cur'[t]]
               /\ objs'[cur'[t]].w = {t} /\ pend' = pend
<1>0. LocalTypes /\ GlobalTypes
  BY DEF LockInv
<1>1. CASE UNCHANGED <<objs, pc, cur>>
  BY <1>1, ObjSame
<1>2. CASE ~UNCHANGED <<objs, pc, cur>>
  <2>1. PICK o \in pend[t] : /\ objs' = [objs EXCEPT ![o].w = {t}]
                             /\ Visit(t, o) /\ Goto(t, "closing") /\ pend' = pend
    BY <1>2 DEF Close
  <2>2. o \in Objects /\ objs[o] \in ObjRecs
    BY <1>0 DEF LocalTypes, GlobalTypes
  <2>3. cur'[t] = o /\ cur' = [cur EXCEPT ![t] = o] /\ pc' = [pc EXCEPT ![t] = "closing"]
    BY <1>0, <2>1 DEF Visit, Goto, LocalTypes
  <2> DEFINE x == [objs[o] EXCEPT !.w = {t}]
  <2>4. /\ x \in ObjRecs /\ x.w = {t} /\ x.r = objs[o].r /\ x.cfg = objs[o].cfg
        /\ x.reader = objs[o].reader
    BY <2>2 DEF ObjRecs
  <2>5. objs' = [objs EXCEPT ![o] = x]
    BY <2>1
  <2> HIDE DEF x
  <2>6. ObjStep(t) /\ objs'[o] = x
    <3>1. x.w \subseteq objs[o].w \cup {t} /\ x.r \subseteq objs[o].r \cup {t}
      BY <2>4
    <3>2. /\ objs' \in [Objects -> ObjRecs] /\ objs'[o] = x
          /\ \A q \in Objects : q # o => objs'[q] = objs[q]
      BY <1>0, <2>2, <2>4, <2>5 DEF GlobalTypes
    <3>3. QED
      BY <2>3, <2>4, <3>1, <3>2 DEF ObjStep
  <2>7. \A q \in Objects : objs'[q].reader = objs[q].reader /\ objs'[q].r = objs[q].r
    BY <2>3, <2>4, <2>6 DEF ObjStep
  <2>8. QED
    BY <2>1, <2>3, <2>4, <2>6, <2>7
<1>3. QED
  BY <1>1, <1>2

\* LoadLock takes the lock; LoadBegin drops old data inside it.
LEMMA LoadLockObj ==
  ASSUME LockInv, NEW t \in Threads, LoadLock(t) \/ LoadBegin(t)
  PROVE  /\ ObjStep(t)
         /\ \A o \in Objects : objs'[o].reader = objs[o].reader /\ objs'[o].r = objs[o].r
         /\ LoadLock(t) => objs'[cur[t]].w = {t}
         /\ LoadBegin(t) => objs'[cur[t]].w = objs[cur[t]].w
<1> DEFINE c == cur[t]
<1>0. objs \in [Objects -> ObjRecs]
  BY DEF LockInv, GlobalTypes
<1>1. c \in Objects /\ objs[c] \in ObjRecs /\ cur' = cur /\ c = cur'[t]
  BY Visited DEF LoadLock, LoadBegin, locals
<1>2. CASE LoadLock(t)
  <2> DEFINE x == [objs[c] EXCEPT !.w = {t}]
  <2>1. /\ x \in ObjRecs /\ x.w = {t} /\ x.r = objs[c].r /\ x.cfg = objs[c].cfg
        /\ x.reader = objs[c].reader
    BY <1>1 DEF ObjRecs
  <2>2. objs' = [objs EXCEPT ![c] = x] /\ pc[t] = "load"
    BY <1>2 DEF LoadLock
  <2> HIDE DEF x
  <2>3. ObjStep(t) /\ objs'[c] = x
    <3>1. x.w \subseteq objs[c].w \cup {t} /\ x.r \subseteq objs[c].r \cup {t}
      BY <2>1
    <3>2. /\ objs' \in [Objects -> ObjRecs] /\ objs'[c] = x
          /\ \A q \in Objects : q # c => objs'[q] = objs[q]
      BY <1>0, <1>1, <2>1, <2>2
    <3>3. QED
      BY <1>1, <2>1, <3>1, <3>2 DEF ObjStep
  <2>4. QED
    BY <1>1, <2>1, <2>2, <2>3 DEF ObjStep, LoadBegin
<1>3. CASE LoadBegin(t)
  <2> DEFINE l == (objs[c].loaded /\ Provider(c) \in FetchesFirst)
             x == [objs[c] EXCEPT !.loaded = l]
  <2>0. l \in BOOLEAN
    OBVIOUS
  <2>1. /\ x \in ObjRecs /\ x.w = objs[c].w /\ x.r = objs[c].r /\ x.cfg = objs[c].cfg
        /\ x.reader = objs[c].reader
    <3> HIDE DEF l
    <3>1. QED
      BY <1>1, <2>0 DEF ObjRecs
  <2>2. objs' = [objs EXCEPT ![c] = x] /\ pc[t] = "locked"
    BY <1>3 DEF LoadBegin
  <2> HIDE DEF x
  <2>3. ObjStep(t) /\ objs'[c] = x
    <3>1. x.w \subseteq objs[c].w \cup {t} /\ x.r \subseteq objs[c].r \cup {t}
      BY <2>1
    <3>2. /\ objs' \in [Objects -> ObjRecs] /\ objs'[c] = x
          /\ \A q \in Objects : q # c => objs'[q] = objs[q]
      BY <1>0, <1>1, <2>1, <2>2
    <3>3. QED
      BY <1>1, <2>1, <3>1, <3>2 DEF ObjStep
  <2>4. QED
    BY <1>1, <2>1, <2>2, <2>3 DEF ObjStep, LoadLock
<1>4. QED
  BY <1>2, <1>3

\* Info takes and gives back the RLock.
LEMMA InfoObj ==
  ASSUME LockInv, NEW t \in Threads, Info(t) \/ InfoCategories(t)
  PROVE  /\ objs' \in [Objects -> ObjRecs]
         /\ \A o \in Objects :
              /\ objs'[o].cfg = objs[o].cfg /\ objs'[o].reader = objs[o].reader
              /\ objs'[o].w = objs[o].w /\ objs'[o].r \subseteq objs[o].r \cup {t}
              /\ o # cur[t] => objs'[o] = objs[o]
         /\ Info(t) => \/ objs' = objs /\ AfterInfo(t)
                       \/ /\ objs'[cur[t]].r = objs[cur[t]].r \cup {t}
                          /\ Goto(t, "categories") /\ UNCHANGED locals
         /\ InfoCategories(t) => objs'[cur[t]].r = objs[cur[t]].r \ {t}
<1> DEFINE c == cur[t]
<1>0. objs \in [Objects -> ObjRecs]
  BY DEF LockInv, GlobalTypes
<1>1. c \in Objects /\ objs[c] \in ObjRecs /\ objs[c].r \in SUBSET Threads
  BY Visited DEF Info, InfoCategories, ObjRecs
<1>2. CASE objs' = objs /\ AfterInfo(t) /\ Info(t)
  BY <1>0, <1>1, <1>2 DEF Info, InfoCategories
<1>3. CASE ~(objs' = objs /\ AfterInfo(t) /\ Info(t))
  <2> DEFINE R == IF pc[t] = "info" THEN objs[c].r \cup {t} ELSE objs[c].r \ {t}
             x == [objs[c] EXCEPT !.r = R]
  <2>1. R \in SUBSET Threads /\ R \subseteq objs[c].r \cup {t}
    BY <1>1
  <2>2. objs' = [objs EXCEPT ![c] = x]
    BY <1>3 DEF Info, InfoCategories
  <2>3. x \in ObjRecs /\ x.w = objs[c].w /\ x.r = R /\ x.cfg = objs[c].cfg /\ x.reader = objs[c].reader
    <3> HIDE DEF R
    <3>1. QED
      BY <1>1, <2>1 DEF ObjRecs
  <2> HIDE DEF x
  <2>4. objs'[c] = x /\ objs' \in [Objects -> ObjRecs] /\ \A o \in Objects : o # c => objs'[o] = objs[o]
    BY <1>0, <1>1, <2>2, <2>3
  <2>5. QED
    BY <1>0, <1>1, <1>3, <2>1, <2>3, <2>4 DEF Info, InfoCategories
<1>4. QED
  BY <1>2, <1>3

\* A load ends: the lock is free, and the reader may be open.
LEMMA LoadEndObj ==
  ASSUME LockInv, NEW t \in Threads, LoadEnd(t)
  PROVE  /\ objs' \in [Objects -> ObjRecs]
         /\ \A o \in Objects :
              /\ objs'[o].cfg = objs[o].cfg
              /\ objs'[o].w \subseteq objs[o].w /\ objs'[o].r = objs[o].r
              /\ o # cur[t] => objs'[o] = objs[o]
              /\ objs'[o].reader = "open" /\ objs[o].reader # "open" =>
                   o = cur[t] /\ Provider(o) \in OpensReader
         /\ objs'[cur[t]].w = {}
<1> DEFINE c == cur[t]
<1>0. objs \in [Objects -> ObjRecs]
  BY DEF LockInv, GlobalTypes
<1>1. c \in Objects /\ objs[c] \in ObjRecs /\ objs[c].loaded \in BOOLEAN
      /\ objs[c].reader \in {"none", "open", "closed"}
  BY Visited DEF LoadEnd, ObjRecs
<1>2. PICK ok, opened, part \in BOOLEAN :
         /\ opened => Provider(c) \in OpensReader
         /\ objs' = [objs EXCEPT ![c].w = {},
                                 ![c].loaded = @ \/ ok \/ part,
                                 ![c].reader = IF opened THEN "open" ELSE @]
  BY DEF LoadEnd
<1> DEFINE l == (objs[c].loaded \/ ok \/ part)
           d == IF opened THEN "open" ELSE objs[c].reader
           x == [objs[c] EXCEPT !.w = {}, !.loaded = l, !.reader = d]
<1>3. l \in BOOLEAN /\ d \in {"none", "open", "closed"} /\ {} \in SUBSET Threads
  BY <1>1
<1>4. objs' = [objs EXCEPT ![c] = x]
  BY <1>2
<1>5. x \in ObjRecs /\ x.w = {} /\ x.r = objs[c].r /\ x.cfg = objs[c].cfg /\ x.reader = d
  <2> HIDE DEF l, d
  <2>1. QED
    BY <1>1, <1>3 DEF ObjRecs
<1> HIDE DEF x
<1>6. objs'[c] = x /\ objs' \in [Objects -> ObjRecs] /\ \A o \in Objects : o # c => objs'[o] = objs[o]
  BY <1>0, <1>1, <1>4, <1>5
<1>7. QED
  BY <1>0, <1>1, <1>2, <1>5, <1>6

\* Locals stay typed when a goroutine goes on with them as they are, with
\* another object, or with another set of objects to visit.
LEMMA GoOn ==
  ASSUME LocalTypes, NEW t \in Threads, NEW l \in Labels, Goto(t, l), UNCHANGED locals
  PROVE  /\ LocalTypes' /\ Others(t) /\ pc'[t] = l
         /\ op'[t] = op[t] /\ num'[t] = num[t] /\ cur'[t] = cur[t] /\ pend'[t] = pend[t]
         /\ found'[t] = found[t] /\ broken'[t] = broken[t]
BY Goes DEF LocalTypes, locals, Others

\* A goroutine goes on with another object.
LEMMA GoVisit ==
  ASSUME LocalTypes, NEW t \in Threads, NEW l \in Labels, Goto(t, l),
         NEW o \in Objects, Visit(t, o), UNCHANGED <<op, num, pend, broken>>,
         found' \in [Threads -> SUBSET Objects],
         \A u \in Threads \ {t} : found'[u] = found[u]
  PROVE  /\ LocalTypes' /\ Others(t) /\ pc'[t] = l
         /\ op'[t] = op[t] /\ num'[t] = num[t] /\ cur'[t] = o /\ pend'[t] = pend[t]
         /\ broken'[t] = broken[t]
BY Goes DEF LocalTypes, Others, Visit

\* A goroutine goes on with another list of objects.
LEMMA GoPend ==
  ASSUME LocalTypes, NEW t \in Threads, NEW l \in Labels, Goto(t, l),
         NEW S \in SUBSET Objects, pend' = [pend EXCEPT ![t] = S],
         UNCHANGED <<op, num, cur, found>>,
         broken' \in [Threads -> BOOLEAN],
         \A u \in Threads \ {t} : broken'[u] = broken[u]
  PROVE  /\ LocalTypes' /\ Others(t) /\ pc'[t] = l
         /\ op'[t] = op[t] /\ num'[t] = num[t] /\ cur'[t] = cur[t] /\ pend'[t] = S
BY Goes DEF LocalTypes, Others

\* A goroutine goes on, done with the object it visited.
LEMMA GoLeave ==
  ASSUME LocalTypes, NEW t \in Threads, NEW l \in Labels, Goto(t, l), Leave(t),
         UNCHANGED <<op, num, cur, found, broken>>
  PROVE  /\ LocalTypes' /\ Others(t) /\ pc'[t] = l
         /\ op'[t] = op[t] /\ num'[t] = num[t] /\ cur'[t] = cur[t]
         /\ pend'[t] = pend[t] \ {cur[t]} /\ broken'[t] = broken[t]
<1> DEFINE S == pend[t] \ {cur[t]}
<1>1. S \in SUBSET Objects /\ pend' = [pend EXCEPT ![t] = S]
  BY DEF LocalTypes, Leave
<1>2. broken' \in [Threads -> BOOLEAN] /\ \A u \in Threads : broken'[u] = broken[u]
  BY DEF LocalTypes
<1> HIDE DEF S
<1>3. /\ LocalTypes' /\ Others(t) /\ pc'[t] = l
      /\ op'[t] = op[t] /\ num'[t] = num[t] /\ cur'[t] = cur[t] /\ pend'[t] = S
  BY <1>1, <1>2, GoPend
<1>4. QED
  BY <1>2, <1>3 DEF S

\* Staying where it is, with fewer objects to visit.
LEMMA StayPend ==
  ASSUME LocalTypes, NEW t \in Threads,
         NEW S \in SUBSET Objects, pend' = [pend EXCEPT ![t] = S],
         UNCHANGED <<pc, op, num, cur, broken>>,
         found' \in [Threads -> SUBSET Objects],
         \A u \in Threads \ {t} : found'[u] = found[u]
  PROVE  /\ LocalTypes' /\ Others(t) /\ pc'[t] = pc[t]
         /\ op'[t] = op[t] /\ num'[t] = num[t] /\ cur'[t] = cur[t] /\ pend'[t] = S
BY DEF LocalTypes, Others

-----------------------------------------------------------------------------
(* The locks *)

\* A step keeps LockInv for the goroutines that do not take it.
LEMMA LockFrame ==
  ASSUME LockInv, NEW t \in Threads, LocalTypes', GlobalTypes', Others(t),
         regW' \subseteq regW \cup {t}, regR' \subseteq regR \cup {t},
         \A o \in Objects : /\ objs'[o].w \subseteq objs[o].w \cup {t}
                            /\ objs'[o].r \subseteq objs[o].r \cup {t},
         Where(t)', Busied(t)', RegistryLock(t)', ObjectLock(t)'
  PROVE  LockInv'
<1>1. ASSUME NEW u \in Threads, u # t
      PROVE  Where(u)' /\ Busied(u)' /\ RegistryLock(u)' /\ ObjectLock(u)'
  <2>0. /\ pc'[u] = pc[u] /\ op'[u] = op[u] /\ cur'[u] = cur[u] /\ pend'[u] = pend[u]
        /\ num'[u] = num[u] /\ Where(u) /\ Busied(u) /\ RegistryLock(u) /\ ObjectLock(u)
    BY <1>1 DEF Others, LockInv
  <2>1. Where(u)'
    BY <2>0 DEF Where
  <2>2. Busied(u)'
    BY <2>0 DEF Busied
  <2>3. RegistryLock(u)'
    BY <1>1, <2>0 DEF RegistryLock
  <2>4. ObjectLock(u)'
    BY <1>1, <2>0 DEF ObjectLock
  <2>5. QED
    BY <2>1, <2>2, <2>3, <2>4
<1>2. QED
  BY <1>1 DEF LockInv

\* A goroutine that returns holds no lock.
LEMMA LockReturn ==
  ASSUME LockInv, NEW t \in Threads, Return(t), GlobalTypes',
         regW' \subseteq regW, regR' \subseteq regR, t \notin regW', t \notin regR',
         \A o \in Objects : /\ objs'[o].w \subseteq objs[o].w \ {t}
                            /\ objs'[o].r \subseteq objs[o].r \ {t}
  PROVE  LockInv'
<1>1. /\ LocalTypes' /\ Others(t)
      /\ pc'[t] = "idle" /\ op'[t].name = "none"
  BY Returns DEF LockInv
<1>2. Where(t)' /\ Busied(t)' /\ RegistryLock(t)' /\ ObjectLock(t)'
  BY <1>1 DEF Where, Busied, RegistryLock, ObjectLock
<1>3. QED
  BY <1>1, <1>2, LockFrame

\* A goroutine outside the locks holds none.
LEMMA Outside ==
  ASSUME LockInv, NEW t \in Threads
  PROVE  /\ pc[t] \notin {"swap", "close", "closing"} => t \notin regW
         /\ pc[t] = "close" /\ op[t].name # "shut" => t \notin regW
         /\ pc[t] \notin {"each", "info", "categories", "collect", "scan"} => t \notin regR
         /\ pc[t] \in {"info", "categories"} /\ op[t].name # "list" => t \notin regR
         /\ pc[t] \notin {"locked", "loading", "closing"} =>
              \A o \in Objects : objs[o].w \subseteq objs[o].w \ {t}
         /\ pc[t] # "categories" => \A o \in Objects : objs[o].r \subseteq objs[o].r \ {t}
         /\ \A o \in Objects : o # cur[t] => /\ objs[o].w \subseteq objs[o].w \ {t}
                                             /\ objs[o].r \subseteq objs[o].r \ {t}
BY DEF LockInv, RegistryLock, ObjectLock

\* A step that changes neither the locks nor the objects.
LEMMA LockGoOn ==
  ASSUME LockInv, NEW t \in Threads, LocalTypes', Others(t),
         UNCHANGED <<objs, regW, regR>>, GlobalTypes',
         op'[t] = op[t], cur'[t] = cur[t] \/ pc[t] \notin {"categories", "locked", "loading", "closing"},
         pc'[t] = pc[t] \/ pc[t] \notin {"swap", "close", "closing", "each", "info", "categories",
                                         "collect", "scan", "locked", "loading"},
         Where(t)', Busied(t)'
  PROVE  LockInv'
<1>1. RegistryLock(t)' /\ ObjectLock(t)'
  BY DEF LockInv, RegistryLock, ObjectLock
<1>2. QED
  BY <1>1, LockFrame

\* The steps on the table, and the choice of the next object to load.
LEMMA LockTable ==
  ASSUME LockInv, NEW t \in Threads, Insert(t) \/ Delete(t) \/ NextLoad(t)
  PROVE  LockInv'
<1> USE DEF LockInv
<1>0. LocalTypes /\ Where(t) /\ Busied(t) /\ op[t] \in Operations \cup {Idle}
  BY DEF LocalTypes
<1>1. /\ UNCHANGED <<mem, objs, regW, regR, solo, down, ops>>
      /\ agree' \in BOOLEAN /\ calm' \in BOOLEAN
      /\ pc[t] \in {"insert", "delete", "next"}
  BY DEF Insert, Delete, NextLoad, ghosts, bounds, GlobalTypes
<1>2. GlobalTypes'
  <2>1. db' \in [Ids -> SUBSET Offered]
    <3>1. CASE Insert(t)
      BY <1>0, <3>1, OpFields DEF Insert, GlobalTypes, Where
    <3>2. CASE Delete(t)
      BY <1>0, <3>2, OpFields DEF Delete, GlobalTypes, Where
    <3>3. CASE NextLoad(t)
      BY <3>3 DEF NextLoad, GlobalTypes
    <3>4. QED
      BY <3>1, <3>2, <3>3
  <2>2. QED
    BY <1>1, <2>1 DEF GlobalTypes
<1>3. CASE Return(t)
  BY <1>1, <1>2, <1>3, LockReturn, Outside
<1>4. ASSUME NEW l \in {"lock", "close"}, Goto(t, l), UNCHANGED locals, ~NextLoad(t) \/ l = "lock"
      PROVE  LockInv'
  <2>1. l \in Labels
    BY DEF Labels
  <2>2. /\ LocalTypes' /\ Others(t) /\ pc'[t] = l
        /\ op'[t] = op[t] /\ num'[t] = num[t] /\ cur'[t] = cur[t] /\ pend'[t] = pend[t]
    BY <1>0, <1>4, <2>1, GoOn
  <2>3. Where(t)' /\ Busied(t)'
    BY <1>0, <1>1, <2>2 DEF Where, Busied, Writers
  <2>4. QED
    BY <1>1, <1>2, <2>2, <2>3, LockGoOn
<1>5. ASSUME NEW o \in pend[t], Visit(t, o), Goto(t, "info"), NextLoad(t),
             UNCHANGED <<op, num, pend, found, broken>>
      PROVE  LockInv'
  <2>1. "info" \in Labels /\ o \in Objects
    BY <1>5 DEF Labels, LocalTypes
  <2>2. /\ LocalTypes' /\ Others(t) /\ pc'[t] = "info"
        /\ op'[t] = op[t] /\ num'[t] = num[t] /\ cur'[t] = o
    BY <1>0, <1>5, <2>1, GoVisit DEF LocalTypes
  <2>3. pc[t] = "next"
    BY <1>5 DEF NextLoad
  <2>4. Where(t)' /\ Busied(t)'
    BY <1>0, <2>1, <2>2, <2>3 DEF Where, Busied
  <2>5. QED
    BY <1>1, <1>2, <2>2, <2>3, <2>4, LockGoOn
<1>6. QED
  <2>1. CASE Insert(t)
    BY <1>3, <1>4, <2>1 DEF Insert, NextLoad
  <2>2. CASE Delete(t)
    BY <1>3, <1>4, <2>2 DEF Delete, NextLoad
  <2>3. CASE NextLoad(t)
    BY <1>3, <1>4, <1>5, <2>3 DEF NextLoad
  <2>4. QED
    BY <2>1, <2>2, <2>3

\* LoadAll's query makes objects; nobody has locked them.
QueryMakes(t, made, b) ==
  /\ pend' = [pend EXCEPT ![t] = {<<num[t], id>> : id \in made}]
  /\ objs' \in [Objects -> ObjRecs]
  /\ \A o \in Objects :
       /\ objs'[o].w = objs[o].w /\ objs'[o].r = objs[o].r
       /\ objs'[o].reader = objs[o].reader
       /\ o \in {<<num[t], id>> : id \in made} => objs'[o].cfg = db[o[2]]
       /\ o \notin {<<num[t], id>> : id \in made} => objs'[o] = objs[o]
  /\ broken' = [broken EXCEPT ![t] = b]
  /\ agree' = (agree /\ made = {id \in Ids : db[id] # {}})
  /\ solo' = [solo EXCEPT ![t] = @ /\ made = {id \in Ids : db[id] # {}}]
  /\ calm' = (calm /\ ~b)
  /\ Goto(t, "next")
  /\ UNCHANGED <<op, num, cur, found>>

\* The query returns, or makes objects.
LEMMA QueryObj ==
  ASSUME LockInv, NEW t \in Threads, Query(t)
  PROVE  \/ Return(t) /\ UNCHANGED <<objs, ghosts>>
         \/ \E made \in SUBSET {id \in Ids : db[id] # {}}, b \in BOOLEAN : QueryMakes(t, made, b)
<1> DEFINE rows == {id \in Ids : db[id] # {}}
<1>0. objs \in [Objects -> ObjRecs] /\ db \in [Ids -> SUBSET Offered]
  BY DEF LockInv, GlobalTypes
<1>1. CASE Return(t) /\ UNCHANGED <<objs, ghosts>>
  BY <1>1
<1>2. CASE ~(Return(t) /\ UNCHANGED <<objs, ghosts>>)
  <2>1. PICK made \in SUBSET rows, b \in BOOLEAN :
          /\ pend' = [pend EXCEPT ![t] = {<<num[t], id>> : id \in made}]
          /\ objs' = [o \in Objects |-> IF o \in {<<num[t], id>> : id \in made}
                                        THEN [objs[o] EXCEPT !.cfg = db[o[2]]] ELSE objs[o]]
          /\ broken' = [broken EXCEPT ![t] = b]
          /\ agree' = (agree /\ made = rows)
          /\ solo' = [solo EXCEPT ![t] = @ /\ made = rows]
          /\ calm' = (calm /\ ~b)
          /\ Goto(t, "next")
          /\ UNCHANGED <<op, num, cur, found>>
    BY <1>2 DEF Query
  <2> DEFINE new == {<<num[t], id>> : id \in made}
  <2>2. \A o \in Objects : o[2] \in Ids
    BY DEF Objects
  <2>3. ASSUME NEW o \in Objects
        PROVE  /\ objs'[o] \in ObjRecs
               /\ objs'[o].w = objs[o].w /\ objs'[o].r = objs[o].r
               /\ objs'[o].reader = objs[o].reader
               /\ o \in new => objs'[o].cfg = db[o[2]]
               /\ o \notin new => objs'[o] = objs[o]
    <3> HIDE DEF new
    <3>1. objs[o] \in ObjRecs /\ db[o[2]] \in SUBSET Offered
      BY <1>0, <2>2
    <3>2. CASE o \in new
      <4>1. objs'[o] = [objs[o] EXCEPT !.cfg = db[o[2]]]
        BY <2>1, <3>2 DEF new
      <4>2. QED
        BY <3>1, <3>2, <4>1 DEF ObjRecs
    <3>3. CASE o \notin new
      <4>1. objs'[o] = objs[o]
        BY <2>1, <3>3 DEF new
      <4>2. QED
        BY <3>1, <3>3, <4>1
    <3>4. QED
      BY <3>2, <3>3
  <2>4. objs' \in [Objects -> ObjRecs]
    <3> HIDE DEF new
    <3>1. objs' = [o \in Objects |-> objs'[o]]
      BY <2>1
    <3>2. QED
      BY <2>3, <3>1
  <2>5. QueryMakes(t, made, b)
    BY <2>1, <2>3, <2>4 DEF QueryMakes
  <2>6. QED
    BY <2>5
<1>3. QED
  BY <1>1, <1>2

\* The query leaves the locks alone.
LEMMA LockQuery ==
  ASSUME LockInv, NEW t \in Threads, Query(t)
  PROVE  LockInv'
<1> USE DEF LockInv
<1>0. /\ LocalTypes /\ GlobalTypes /\ Where(t) /\ pc[t] = "query"
      /\ UNCHANGED <<db, mem, regW, regR, down, ops>>
  BY DEF Query, bounds
<1>1. CASE Return(t) /\ UNCHANGED <<objs, ghosts>>
  <2>1. GlobalTypes'
    BY <1>0, <1>1 DEF GlobalTypes, ghosts
  <2>2. QED
    BY <1>0, <1>1, <2>1, LockReturn, Outside
<1>2. CASE ~(Return(t) /\ UNCHANGED <<objs, ghosts>>)
  <2>1. PICK made \in SUBSET {id \in Ids : db[id] # {}}, b \in BOOLEAN : QueryMakes(t, made, b)
    BY <1>2, QueryObj
  <2>2. /\ solo' \in [Threads -> BOOLEAN] /\ agree' \in BOOLEAN /\ calm' \in BOOLEAN
        /\ broken' \in [Threads -> BOOLEAN] /\ \A u \in Threads \ {t} : broken'[u] = broken[u]
    BY <1>0, <2>1 DEF GlobalTypes, LocalTypes, QueryMakes
  <2>3. GlobalTypes'
    BY <1>0, <2>1, <2>2 DEF GlobalTypes, QueryMakes
  <2> DEFINE S == {<<num[t], id>> : id \in made}
  <2>4. S \in SUBSET Objects
    <3>1. num[t] \in 1 .. MaxOps
      BY <1>0 DEF LocalTypes, Busied
    <3>2. QED
      BY <3>1 DEF Objects
  <2>5. pend' = [pend EXCEPT ![t] = S] /\ Goto(t, "next") /\ UNCHANGED <<op, num, cur, found>>
    BY <2>1 DEF QueryMakes
  <2> HIDE DEF S
  <2>6. /\ LocalTypes' /\ Others(t) /\ pc'[t] = "next"
        /\ op'[t] = op[t] /\ num'[t] = num[t] /\ cur'[t] = cur[t]
    <3>1. "next" \in Labels
      BY DEF Labels
    <3>2. QED
      BY <1>0, <2>2, <2>4, <2>5, <3>1, GoPend
  <2>7. Where(t)' /\ Busied(t)'
    BY <1>0, <2>6 DEF Where, Busied
  <2>8. \A o \in Objects : objs'[o].w = objs[o].w /\ objs'[o].r = objs[o].r
    BY <2>1 DEF QueryMakes
  <2>9. RegistryLock(t)' /\ ObjectLock(t)'
    BY <1>0, <2>6, <2>8 DEF RegistryLock, ObjectLock
  <2>10. QED
    BY <1>0, <2>3, <2>6, <2>7, <2>8, <2>9, LockFrame
<1>3. QED
  BY <1>1, <1>2

\* Start: a goroutine that was idle, and held nothing, begins an operation.
LEMMA StartObj ==
  ASSUME LockInv, NEW t \in Threads, NEW o \in Operations, Start(t, o)
  PROVE  /\ objs' \in [Objects -> ObjRecs]
         /\ \A x \in Objects :
              /\ objs'[x].w = objs[x].w /\ objs'[x].r = objs[x].r
              /\ objs'[x].reader = objs[x].reader
              /\ o.name = "add" /\ x = <<ops + 1, o.id>> => objs'[x].cfg = {o.cfg}
              /\ ~(o.name = "add" /\ x = <<ops + 1, o.id>>) => objs'[x] = objs[x]
         /\ o.name = "add" => <<ops + 1, o.id>> \in Objects
<1>0. objs \in [Objects -> ObjRecs] /\ ops \in 0 .. MaxOps /\ ops < MaxOps
  BY DEF LockInv, GlobalTypes, Start
<1>1. CASE o.name = "add"
  <2> DEFINE c == <<ops + 1, o.id>>
             C == {o.cfg}
             x == [objs[c] EXCEPT !.cfg = C]
  <2>1. C \in SUBSET Offered /\ o.id \in Ids
    BY <1>1, OpFields
  <2>2. c \in Objects /\ objs[c] \in ObjRecs
    BY <1>0, <2>1 DEF Objects
  <2>3. objs' = [objs EXCEPT ![c] = x]
    BY <1>1 DEF Start
  <2> HIDE DEF C
  <2>4. /\ x \in ObjRecs /\ x.w = objs[c].w /\ x.r = objs[c].r /\ x.reader = objs[c].reader
        /\ x.cfg = C
    BY <2>1, <2>2 DEF ObjRecs
  <2> HIDE DEF x, c
  <2>5. objs'[c] = x /\ objs' \in [Objects -> ObjRecs] /\ \A q \in Objects : q # c => objs'[q] = objs[q]
    BY <1>0, <2>2, <2>3, <2>4
  <2>6. ASSUME NEW q \in Objects
        PROVE  /\ objs'[q].w = objs[q].w /\ objs'[q].r = objs[q].r
               /\ objs'[q].reader = objs[q].reader
               /\ q = c => objs'[q].cfg = C
               /\ q # c => objs'[q] = objs[q]
    BY <2>4, <2>5
  <2>7. QED
    BY <1>1, <2>2, <2>5, <2>6 DEF c, C
<1>2. CASE o.name # "add"
  BY <1>0, <1>2 DEF Start
<1>3. QED
  BY <1>1, <1>2

\* What the goroutine is after it has started.
LEMMA StartLocals ==
  ASSUME LockInv, NEW t \in Threads, NEW o \in Operations, Start(t, o)
  PROVE  /\ LocalTypes' /\ Others(t) /\ pc'[t] = Entry[o.name] /\ op'[t] = o
         /\ num'[t] = ops + 1 /\ ops' = ops + 1 /\ ops' \in 1 .. MaxOps
         /\ pend'[t] = pend[t] /\ cur'[t] = cur[t]
<1>0. LocalTypes /\ ops \in 0 .. MaxOps /\ ops < MaxOps
  BY DEF LockInv, GlobalTypes, Start
<1>1. o.name \in {"add", "remove", "loadall", "list", "cats", "get", "refresh", "shut"}
  BY OpFields
<1>2. Entry[o.name] \in Labels
  BY <1>1 DEF Entry, Labels
<1>3. Goto(t, Entry[o.name]) /\ op' = [op EXCEPT ![t] = o] /\ num' = [num EXCEPT ![t] = ops + 1]
      /\ UNCHANGED <<cur, pend, found, broken>> /\ ops' = ops + 1
  BY DEF Start
<1>4. ops + 1 \in 1 .. MaxOps
  BY <1>0
<1>5. QED
  BY <1>0, <1>2, <1>3, <1>4, Goes DEF LocalTypes, Others

\* A goroutine that starts holds no lock.
LEMMA LockStart ==
  ASSUME LockInv, NEW t \in Threads, NEW o \in Operations, Start(t, o)
  PROVE  LockInv'
<1>0. /\ pc[t] = "idle" /\ UNCHANGED <<db, mem, regW, regR, down>> /\ GlobalTypes
      /\ RegistryLock(t) /\ ObjectLock(t)
  BY DEF Start, LockInv
<1>1. /\ LocalTypes' /\ Others(t) /\ pc'[t] = Entry[o.name] /\ op'[t] = o /\ num'[t] = ops + 1
      /\ ops' = ops + 1 /\ ops' \in 1 .. MaxOps
  BY StartLocals
<1>2. /\ objs' \in [Objects -> ObjRecs]
      /\ \A x \in Objects : objs'[x].w = objs[x].w /\ objs'[x].r = objs[x].r
  BY StartObj
<1>3. GlobalTypes'
  <2>1. solo' \in [Threads -> BOOLEAN]
    BY DEF Start
  <2>2. agree' \in BOOLEAN /\ calm' \in BOOLEAN
    BY <1>0 DEF Start, GlobalTypes
  <2>3. QED
    BY <1>0, <1>1, <1>2, <2>1, <2>2 DEF GlobalTypes
<1>4. o.name \in {"add", "remove", "loadall", "list", "cats", "get", "refresh", "shut"}
  BY OpFields
<1>5. Where(t)'
  BY <1>1, <1>4 DEF Where, Entry, Writers
<1>6. Busied(t)'
  <2>1. num'[t] # 0
    BY <1>1
  <2>2. QED
    BY <1>1, <1>4, <2>1 DEF Busied, Entry
<1>7. RegistryLock(t)' /\ ObjectLock(t)'
  BY <1>0, <1>2 DEF RegistryLock, ObjectLock
<1>8. QED
  BY <1>0, <1>1, <1>2, <1>3, <1>5, <1>6, <1>7, LockFrame

\* The map: the writer gets the registry's lock, changes the map, leaves it.
LEMMA LockMap ==
  ASSUME LockInv, NEW t \in Threads,
         Lock(t) \/ AddSwap(t) \/ RemoveSwap(t) \/ LoadAllSwap(t) \/ ShutBegin(t)
  PROVE  LockInv'
<1> USE DEF LockInv
<1>0. /\ LocalTypes /\ GlobalTypes /\ Where(t) /\ Busied(t) /\ RegistryLock(t) /\ ObjectLock(t)
      /\ op[t] \in Operations \cup {Idle}
  BY DEF LocalTypes
<1>1. CASE Lock(t)
  <2>1. /\ pc[t] = "lock" /\ regW' = {t} /\ Goto(t, "swap") /\ UNCHANGED locals
        /\ UNCHANGED <<db, mem, objs, regR, solo, agree, calm, down, ops>>
    BY <1>1 DEF Lock, ghosts, bounds
  <2>2. "swap" \in Labels
    BY DEF Labels
  <2>3. /\ LocalTypes' /\ Others(t) /\ pc'[t] = "swap" /\ op'[t] = op[t] /\ num'[t] = num[t]
        /\ cur'[t] = cur[t]
    BY <1>0, <2>1, <2>2, GoOn
  <2>4. GlobalTypes'
    BY <1>0, <2>1 DEF GlobalTypes
  <2>5. Where(t)' /\ Busied(t)' /\ RegistryLock(t)' /\ ObjectLock(t)'
    BY <1>0, <2>1, <2>3 DEF Where, Busied, RegistryLock, ObjectLock
  <2>6. QED
    BY <2>1, <2>3, <2>4, <2>5, LockFrame
<1>2. CASE ShutBegin(t)
  <2>1. /\ pc[t] = "swap" /\ op[t].name = "shut" /\ pend' = [pend EXCEPT ![t] = Live]
        /\ Goto(t, "close") /\ UNCHANGED <<op, num, cur, found, broken>>
        /\ UNCHANGED <<db, mem, objs, regR, regW, solo, agree, calm, down, ops>>
    BY <1>2 DEF ShutBegin, ghosts, bounds
  <2>2. "close" \in Labels /\ Live \in SUBSET Objects
    BY <1>0, LiveObjects DEF Labels
  <2>3. /\ LocalTypes' /\ Others(t) /\ pc'[t] = "close" /\ op'[t] = op[t] /\ num'[t] = num[t]
        /\ cur'[t] = cur[t]
    BY <1>0, <2>1, <2>2, GoPend DEF LocalTypes
  <2>4. GlobalTypes'
    BY <1>0, <2>1 DEF GlobalTypes
  <2>5. Where(t)' /\ Busied(t)' /\ RegistryLock(t)' /\ ObjectLock(t)'
    BY <1>0, <2>1, <2>3 DEF Where, Busied, RegistryLock, ObjectLock
  <2>6. QED
    BY <2>1, <2>3, <2>4, <2>5, LockFrame
<1>3. ASSUME NEW name \in Writers, NEW map \in [Ids -> 0 .. MaxOps], NEW l \in {"close", "delete"},
             Swapped(t, name, map, l), l = "delete" <=> name = "remove",
             agree' \in BOOLEAN, UNCHANGED <<solo, calm>>
      PROVE  LockInv'
  <2> DEFINE S == {o \in Live : map[o[2]] # o[1]}
  <2>1. /\ pc[t] = "swap" /\ op[t].name = name /\ mem' = map
        /\ pend' = [pend EXCEPT ![t] = S] /\ regW' = {} /\ Goto(t, l)
        /\ UNCHANGED <<db, objs, regR, op, num, cur, found, broken, down, ops>>
    BY <1>3 DEF Swapped, bounds
  <2>2. l \in Labels /\ S \in SUBSET Objects
    BY <1>0, LiveObjects DEF Labels
  <2> HIDE DEF S
  <2>3. /\ LocalTypes' /\ Others(t) /\ pc'[t] = l /\ op'[t] = op[t] /\ num'[t] = num[t]
        /\ cur'[t] = cur[t]
    <3>1. broken' \in [Threads -> BOOLEAN] /\ \A u \in Threads \ {t} : broken'[u] = broken[u]
      BY <1>0, <2>1 DEF LocalTypes
    <3>2. QED
      BY <1>0, <2>1, <2>2, <3>1, GoPend
  <2>4. GlobalTypes'
    BY <1>0, <1>3, <2>1 DEF GlobalTypes
  <2>5. Where(t)' /\ Busied(t)' /\ RegistryLock(t)' /\ ObjectLock(t)'
    BY <1>0, <1>3, <2>1, <2>3 DEF Where, Busied, RegistryLock, ObjectLock, Writers
  <2>6. QED
    BY <2>1, <2>3, <2>4, <2>5, LockFrame
<1>4. num[t] \in 0 .. MaxOps /\ 0 \in 0 .. MaxOps /\ mem \in [Ids -> 0 .. MaxOps]
  BY <1>0 DEF LocalTypes, GlobalTypes
<1>5. CASE AddSwap(t)
  <2>1. [mem EXCEPT ![op[t].id] = num[t]] \in [Ids -> 0 .. MaxOps] /\ "add" \in Writers
    BY <1>4 DEF Writers
  <2>2. agree' \in BOOLEAN /\ UNCHANGED <<solo, calm>>
    BY <1>0, <1>5 DEF AddSwap, ghosts, GlobalTypes
  <2>3. QED
    BY <1>3, <1>5, <2>1, <2>2 DEF AddSwap
<1>6. CASE RemoveSwap(t)
  <2>1. [mem EXCEPT ![op[t].id] = 0] \in [Ids -> 0 .. MaxOps] /\ "remove" \in Writers
    BY <1>4 DEF Writers
  <2>2. agree' \in BOOLEAN /\ UNCHANGED <<solo, calm>>
    BY <1>0, <1>6 DEF RemoveSwap, ghosts, GlobalTypes
  <2>3. QED
    BY <1>3, <1>6, <2>1, <2>2 DEF RemoveSwap
<1>7. CASE LoadAllSwap(t)
  <2> DEFINE map == [id \in Ids |-> IF objs[<<num[t], id>>].cfg = {} THEN 0 ELSE num[t]]
  <2>1. map \in [Ids -> 0 .. MaxOps] /\ "loadall" \in Writers
    BY <1>4 DEF Writers
  <2>2. agree' \in BOOLEAN /\ UNCHANGED <<solo, calm>> /\ Swapped(t, "loadall", map, "close")
    BY <1>0, <1>7 DEF LoadAllSwap, GlobalTypes
  <2> HIDE DEF map
  <2>3. QED
    BY <1>3, <2>1, <2>2
<1>8. QED
  BY <1>1, <1>2, <1>5, <1>6, <1>7

\* Closing what was taken out of the map.
LEMMA LockClose ==
  ASSUME LockInv, NEW t \in Threads, Close(t) \/ CloseReader(t) \/ Closed(t) \/ ShutEnd(t)
  PROVE  LockInv'
<1> USE DEF LockInv
<1>0. /\ LocalTypes /\ GlobalTypes /\ Where(t) /\ Busied(t) /\ RegistryLock(t) /\ ObjectLock(t)
      /\ op[t] \in Operations \cup {Idle} /\ pend[t] \in SUBSET Objects
  BY DEF LocalTypes
<1>1. CASE Close(t)
  <2>1. /\ pc[t] = "close" /\ UNCHANGED <<op, num, found, broken>>
        /\ UNCHANGED <<db, mem, regW, regR, solo, agree, calm, down, ops>>
    BY <1>1 DEF Close, ghosts, bounds
  <2>2. /\ ObjStep(t) /\ \A o \in Objects : objs'[o].r = objs[o].r
    BY <1>1, CloseObj
  <2>3. GlobalTypes'
    BY <1>0, <2>1, <2>2 DEF GlobalTypes, ObjStep
  <2>4. CASE pc' = pc /\ objs' = objs /\ cur' = cur
    <3>1. PICK S \in SUBSET Objects : pend' = [pend EXCEPT ![t] = S]
      <4>1. PICK o \in pend[t] : \/ pend' = [pend EXCEPT ![t] = @ \ {o}]
                                 \/ pend' = pend
        BY <1>1 DEF Close
      <4>2. pend[t] \ {o} \in SUBSET Objects /\ pend[t] \in SUBSET Objects
        BY <1>0
      <4>3. pend' = [pend EXCEPT ![t] = pend[t] \ {o}] \/ pend' = [pend EXCEPT ![t] = pend[t]]
        BY <1>0, <4>1 DEF LocalTypes
      <4>4. QED
        BY <4>2, <4>3
    <3>2. /\ found' \in [Threads -> SUBSET Objects] /\ \A u \in Threads \ {t} : found'[u] = found[u]
      BY <1>0, <2>1 DEF LocalTypes
    <3>3. /\ LocalTypes' /\ Others(t) /\ pc'[t] = pc[t] /\ op'[t] = op[t] /\ num'[t] = num[t]
          /\ cur'[t] = cur[t]
      BY <1>0, <2>1, <2>4, <3>1, <3>2, StayPend
    <3>4. Where(t)' /\ Busied(t)'
      BY <1>0, <2>1, <3>3 DEF Where, Busied
    <3>5. QED
      BY <2>1, <2>3, <2>4, <3>3, <3>4, LockGoOn
  <2>5. CASE /\ pc' = [pc EXCEPT ![t] = "closing"] /\ cur'[t] \in pend[t]
             /\ cur' = [cur EXCEPT ![t] = cur'[t]] /\ pend' = pend
    <3> DEFINE c == cur'[t]
    <3>1. c \in Objects /\ "closing" \in Labels /\ Goto(t, "closing") /\ Visit(t, c)
      BY <1>0, <2>5 DEF Labels, Goto, Visit
    <3>2. /\ found' \in [Threads -> SUBSET Objects] /\ \A u \in Threads \ {t} : found'[u] = found[u]
      BY <1>0, <2>1 DEF LocalTypes
    <3>3. /\ LocalTypes' /\ Others(t) /\ pc'[t] = "closing" /\ op'[t] = op[t] /\ num'[t] = num[t]
          /\ pend'[t] = pend[t]
      <4> HIDE DEF c
      <4>1. QED
        BY <1>0, <2>1, <2>5, <3>1, <3>2, GoVisit
    <3>4. Where(t)' /\ Busied(t)'
      BY <1>0, <2>1, <2>5, <3>1, <3>3 DEF Where, Busied
    <3>5. RegistryLock(t)'
      BY <1>0, <2>1, <3>3 DEF RegistryLock
    <3>6. ObjectLock(t)'
      BY <1>0, <2>1, <2>2, <3>3 DEF ObjectLock, ObjStep
    <3>7. QED
      BY <2>1, <2>2, <2>3, <3>3, <3>4, <3>5, <3>6, LockFrame DEF ObjStep
  <2>6. QED
    BY <1>1, <2>4, <2>5, CloseObj
<1>2. CASE CloseReader(t)
  <2>1. /\ pc[t] = "closing" /\ objs[cur[t]].r = {} /\ Leave(t) /\ Goto(t, "close")
        /\ UNCHANGED <<op, num, cur, found, broken>>
        /\ UNCHANGED <<db, mem, regW, regR, solo, agree, calm, down, ops>>
    BY <1>2 DEF CloseReader, ghosts, bounds
  <2>2. ObjStep(t) /\ cur'[t] = cur[t] /\ objs'[cur[t]].w = {} /\ objs'[cur[t]].r = objs[cur[t]].r
    BY <1>2, CloseReaderObj
  <2>3. GlobalTypes'
    BY <1>0, <2>1, <2>2 DEF GlobalTypes, ObjStep
  <2>4. /\ LocalTypes' /\ Others(t) /\ pc'[t] = "close" /\ op'[t] = op[t] /\ num'[t] = num[t]
    BY <1>0, <2>1, GoLeave DEF Labels
  <2>5. Where(t)' /\ Busied(t)' /\ RegistryLock(t)'
    BY <1>0, <2>1, <2>4 DEF Where, Busied, RegistryLock
  <2>6. ObjectLock(t)'
    BY <1>0, <2>1, <2>2, <2>4 DEF ObjectLock, ObjStep
  <2>7. QED
    BY <2>1, <2>2, <2>3, <2>4, <2>5, <2>6, LockFrame DEF ObjStep
<1>3. CASE Closed(t)
  <2>1. /\ pc[t] = "close" /\ op[t].name # "shut"
        /\ UNCHANGED <<db, mem, objs, regW, regR, solo, agree, calm, down, ops>>
    BY <1>3 DEF Closed, ghosts, bounds
  <2>2. GlobalTypes'
    BY <1>0, <2>1 DEF GlobalTypes
  <2>3. CASE Return(t)
    BY <2>1, <2>2, <2>3, LockReturn, Outside
  <2>4. CASE /\ op[t].name = "add" /\ Visit(t, <<num[t], op[t].id>>) /\ Goto(t, "info")
             /\ UNCHANGED <<op, num, pend, found, broken>>
    <3> DEFINE c == <<num[t], op[t].id>>
    <3>1. c \in Objects /\ "info" \in Labels
      <4>1. num[t] \in 1 .. MaxOps /\ op[t].id \in Ids
        BY <1>0, <2>1, <2>4, OpFields DEF LocalTypes, Busied
      <4>2. QED
        BY <4>1 DEF Objects, Labels
    <3>2. /\ found' \in [Threads -> SUBSET Objects] /\ \A u \in Threads \ {t} : found'[u] = found[u]
      BY <1>0, <2>4 DEF LocalTypes
    <3> HIDE DEF c
    <3>3. Visit(t, c)
      BY <2>4 DEF c
    <3>4. /\ LocalTypes' /\ Others(t) /\ pc'[t] = "info" /\ op'[t] = op[t] /\ num'[t] = num[t]
          /\ cur'[t] = c
      BY <1>0, <2>4, <3>1, <3>2, <3>3, GoVisit
    <3>5. Where(t)' /\ Busied(t)'
      BY <1>0, <2>1, <2>4, <3>1, <3>4 DEF Where, Busied
    <3>6. RegistryLock(t)' /\ ObjectLock(t)'
      BY <1>0, <2>1, <2>4, <3>4 DEF RegistryLock, ObjectLock
    <3>7. QED
      BY <2>1, <2>2, <3>4, <3>5, <3>6, LockFrame
  <2>5. QED
    BY <1>3, <2>3, <2>4 DEF Closed
<1>4. CASE ShutEnd(t)
  <2>1. /\ pc[t] = "close" /\ mem' = [id \in Ids |-> 0] /\ regW' = {} /\ down' = TRUE
        /\ agree' = FALSE /\ Return(t) /\ UNCHANGED <<db, objs, regR, solo, calm, ops>>
    BY <1>4 DEF ShutEnd
  <2>2. GlobalTypes'
    <3>1. 0 \in 0 .. MaxOps
      OBVIOUS
    <3>2. QED
      BY <1>0, <2>1, <3>1 DEF GlobalTypes
  <2>3. QED
    BY <2>1, <2>2, LockReturn, Outside
<1>5. QED
  BY <1>1, <1>2, <1>3, <1>4

\* What follows Info: the locals stay typed and the goroutine has left it.
LEMMA AfterInfoLocals ==
  ASSUME LockInv, NEW t \in Threads, AfterInfo(t), pc[t] \in {"info", "categories"}
  PROVE  /\ LocalTypes' /\ Others(t)
         /\ \/ Return(t) /\ pc'[t] = "idle" /\ op'[t].name = "none" /\ op[t].name = "refresh"
            \/ /\ op'[t] = op[t] /\ num'[t] = num[t] /\ cur'[t] = cur[t] /\ broken'[t] = broken[t]
               /\ \/ pc'[t] = "load" /\ op[t].name \in {"add", "loadall"} /\ pend'[t] = pend[t]
                  \/ pc'[t] = "each" /\ op[t].name = "list"
                  \/ pc'[t] = "get" /\ op[t].name = "cats" /\ pend'[t] = pend[t]
<1>0. LocalTypes /\ pend[t] \in SUBSET Objects
  BY DEF LockInv, LocalTypes
<1>1. CASE Return(t) /\ op[t].name = "refresh"
  BY <1>0, <1>1, Returns
<1>2. ASSUME NEW l \in {"load", "get"}, Goto(t, l), UNCHANGED locals
      PROVE  /\ LocalTypes' /\ Others(t) /\ pc'[t] = l /\ op'[t] = op[t] /\ num'[t] = num[t]
             /\ cur'[t] = cur[t] /\ pend'[t] = pend[t] /\ broken'[t] = broken[t]
  BY <1>0, <1>2, GoOn DEF Labels
<1>3. ASSUME Goto(t, "each"), Leave(t), UNCHANGED <<op, num, cur, found, broken>>
      PROVE  /\ LocalTypes' /\ Others(t) /\ pc'[t] = "each" /\ op'[t] = op[t] /\ num'[t] = num[t]
             /\ cur'[t] = cur[t] /\ broken'[t] = broken[t]
  BY <1>0, <1>3, GoLeave DEF Labels
<1>4. QED
  BY <1>1, <1>2, <1>3 DEF AfterInfo

\* Info: the RLock is taken and given back.
LEMMA LockInfo ==
  ASSUME LockInv, NEW t \in Threads, Info(t) \/ InfoCategories(t)
  PROVE  LockInv'
<1> USE DEF LockInv
<1>0. /\ LocalTypes /\ GlobalTypes /\ Where(t) /\ Busied(t) /\ RegistryLock(t) /\ ObjectLock(t)
  OBVIOUS
<1>1. /\ UNCHANGED <<db, mem, regW, regR, solo, agree, calm, down, ops>>
      /\ pc[t] \in {"info", "categories"} /\ (pc[t] = "categories" => InfoCategories(t))
  BY DEF Info, InfoCategories, ghosts, bounds
<1>2. /\ objs' \in [Objects -> ObjRecs]
      /\ \A o \in Objects : /\ objs'[o].w = objs[o].w /\ objs'[o].r \subseteq objs[o].r \cup {t}
                            /\ o # cur[t] => objs'[o] = objs[o]
  BY InfoObj
<1>3. GlobalTypes'
  BY <1>0, <1>1, <1>2 DEF GlobalTypes
<1>4. CASE AfterInfo(t) /\ \A o \in Objects : t \notin objs'[o].r
  <2>1. /\ LocalTypes' /\ Others(t)
        /\ \/ Return(t) /\ pc'[t] = "idle" /\ op'[t].name = "none" /\ op[t].name = "refresh"
           \/ /\ op'[t] = op[t] /\ num'[t] = num[t] /\ cur'[t] = cur[t]
              /\ \/ pc'[t] = "load" /\ op[t].name \in {"add", "loadall"}
                 \/ pc'[t] = "each" /\ op[t].name = "list"
                 \/ pc'[t] = "get" /\ op[t].name = "cats"
    BY <1>1, <1>4, AfterInfoLocals
  <2>2. Where(t)' /\ Busied(t)'
    BY <1>0, <1>1, <2>1 DEF Where, Busied
  <2>3. RegistryLock(t)'
    BY <1>0, <1>1, <2>1 DEF RegistryLock
  <2>4. ObjectLock(t)'
    BY <1>0, <1>1, <1>2, <1>4, <2>1 DEF ObjectLock
  <2>5. QED
    BY <1>1, <1>2, <1>3, <2>1, <2>2, <2>3, <2>4, LockFrame
<1>5. CASE Info(t) /\ Goto(t, "categories") /\ UNCHANGED locals
  <2>1. /\ LocalTypes' /\ Others(t) /\ pc'[t] = "categories" /\ op'[t] = op[t] /\ num'[t] = num[t]
        /\ cur'[t] = cur[t]
    BY <1>0, <1>5, GoOn DEF Labels
  <2>2. pc[t] = "info"
    BY <1>5 DEF Info
  <2>3. Where(t)' /\ Busied(t)' /\ RegistryLock(t)'
    BY <1>0, <1>1, <2>1, <2>2 DEF Where, Busied, RegistryLock
  <2>4. ObjectLock(t)'
    BY <1>0, <1>2, <2>1, <2>2 DEF ObjectLock
  <2>5. QED
    BY <1>1, <1>2, <1>3, <2>1, <2>3, <2>4, LockFrame
<1>6. CASE Info(t) /\ objs' = objs /\ AfterInfo(t)
  <2>1. pc[t] = "info"
    BY <1>6 DEF Info
  <2>2. \A o \in Objects : t \notin objs'[o].r
    BY <1>0, <1>6, <2>1 DEF ObjectLock
  <2>3. QED
    BY <1>4, <1>6, <2>2
<1>7. CASE InfoCategories(t)
  <2>1. AfterInfo(t) /\ objs'[cur[t]].r = objs[cur[t]].r \ {t}
    BY <1>7, InfoObj DEF InfoCategories
  <2>2. \A o \in Objects : t \notin objs'[o].r
    BY <1>0, <1>2, <2>1 DEF ObjectLock
  <2>3. QED
    BY <1>4, <2>1, <2>2
<1>8. QED
  BY <1>5, <1>6, <1>7, InfoObj

\* What follows a load.
LEMMA AfterLoadLocals ==
  ASSUME LockInv, NEW t \in Threads, NEW ok, AfterLoad(t, ok)
  PROVE  /\ LocalTypes' /\ Others(t)
         /\ \/ Return(t) /\ pc'[t] = "idle" /\ op'[t].name = "none" /\ op[t].name \in {"add", "refresh"}
            \/ /\ op'[t] = op[t] /\ num'[t] = num[t] /\ cur'[t] = cur[t] /\ broken'[t] = broken[t]
               /\ \/ pc'[t] = "next" /\ op[t].name = "loadall" /\ pend'[t] = pend[t] \ {cur[t]}
                  \/ pc'[t] = "info" /\ op[t].name = "refresh" /\ pend'[t] = pend[t]
<1>0. LocalTypes
  BY DEF LockInv
<1>1. CASE Return(t) /\ op[t].name \in {"add", "refresh"}
  BY <1>0, <1>1, Returns
<1>2. CASE op[t].name = "refresh" /\ Goto(t, "info") /\ UNCHANGED locals
  BY <1>0, <1>2, GoOn DEF Labels
<1>3. CASE /\ op[t].name = "loadall" /\ Goto(t, "next") /\ Leave(t)
           /\ UNCHANGED <<op, num, cur, found, broken>>
  BY <1>0, <1>3, GoLeave DEF Labels
<1>4. QED
  BY <1>1, <1>2, <1>3 DEF AfterLoad

\* Load: the lock is taken, kept while loading and given back.
LEMMA LockLoad ==
  ASSUME LockInv, NEW t \in Threads, LoadLock(t) \/ LoadBegin(t) \/ LoadEnd(t)
  PROVE  LockInv'
<1> USE DEF LockInv
<1>0. /\ LocalTypes /\ GlobalTypes /\ Where(t) /\ Busied(t) /\ RegistryLock(t) /\ ObjectLock(t)
  OBVIOUS
<1>1. UNCHANGED <<db, mem, regW, regR, solo, agree, calm, down, ops>>
  BY DEF LoadLock, LoadBegin, LoadEnd, ghosts, bounds
<1>2. CASE LoadLock(t) \/ LoadBegin(t)
  <2>1. PICK l \in {"locked", "loading"} :
          /\ Goto(t, l) /\ UNCHANGED locals /\ pc[t] \in {"load", "locked"}
    BY <1>2 DEF LoadLock, LoadBegin
  <2>2. ObjStep(t) /\ \A o \in Objects : objs'[o].r = objs[o].r
    BY <1>2, LoadLockObj
  <2>3. GlobalTypes'
    BY <1>0, <1>1, <2>2 DEF GlobalTypes, ObjStep
  <2>4. /\ LocalTypes' /\ Others(t) /\ pc'[t] = l /\ op'[t] = op[t] /\ num'[t] = num[t]
        /\ cur'[t] = cur[t]
    BY <1>0, <2>1, GoOn DEF Labels
  <2>5. Where(t)' /\ Busied(t)' /\ RegistryLock(t)'
    BY <1>0, <1>1, <2>1, <2>4 DEF Where, Busied, RegistryLock
  <2>6. ObjectLock(t)'
    BY <1>0, <2>1, <2>2, <2>4 DEF ObjectLock, ObjStep
  <2>7. QED
    BY <1>1, <2>2, <2>3, <2>4, <2>5, <2>6, LockFrame DEF ObjStep
<1>3. CASE LoadEnd(t)
  <2>1. /\ objs' \in [Objects -> ObjRecs]
        /\ \A o \in Objects : /\ objs'[o].w \subseteq objs[o].w /\ objs'[o].r = objs[o].r
                              /\ o # cur[t] => objs'[o] = objs[o]
        /\ objs'[cur[t]].w = {}
    BY <1>3, LoadEndObj
  <2>2. pc[t] = "loading" /\ \E ok \in BOOLEAN : AfterLoad(t, ok)
    BY <1>3 DEF LoadEnd
  <2>3. GlobalTypes'
    BY <1>0, <1>1, <2>1 DEF GlobalTypes
  <2>4. /\ LocalTypes' /\ Others(t)
        /\ \/ Return(t) /\ pc'[t] = "idle" /\ op'[t].name = "none"
           \/ /\ op'[t] = op[t] /\ num'[t] = num[t] /\ cur'[t] = cur[t]
              /\ \/ pc'[t] = "next" /\ op[t].name = "loadall"
                 \/ pc'[t] = "info" /\ op[t].name = "refresh"
    BY <2>2, AfterLoadLocals
  <2>5. Where(t)' /\ Busied(t)' /\ RegistryLock(t)'
    BY <1>0, <1>1, <2>2, <2>4 DEF Where, Busied, RegistryLock
  <2>6. ObjectLock(t)'
    BY <1>0, <2>1, <2>2, <2>4 DEF ObjectLock
  <2>7. QED
    BY <1>1, <2>1, <2>3, <2>4, <2>5, <2>6, LockFrame
<1>4. QED
  BY <1>2, <1>3

\* The readers of the map and of the objects.
LEMMA LockReaders ==
  ASSUME LockInv, NEW t \in Threads,
         Lookup(t) \/ RLock(t) \/ ListEach(t) \/ Scan(t) \/ Get(t) \/ Collect(t) \/ Pairs(t)
  PROVE  LockInv'
<1> USE DEF LockInv
<1>0. /\ LocalTypes /\ GlobalTypes /\ Where(t) /\ Busied(t) /\ RegistryLock(t) /\ ObjectLock(t)
      /\ op[t] \in Operations \cup {Idle} /\ pend[t] \in SUBSET Objects /\ found[t] \in SUBSET Objects
  BY DEF LocalTypes
<1>1. /\ UNCHANGED <<db, mem, objs, regW, solo, agree, calm, down, ops>>
      /\ regR' \subseteq regR \cup {t}
      /\ pc[t] \in {"lookup", "rlock", "each", "scan", "get", "collect", "pairs"}
  BY DEF Lookup, RLock, ListEach, Scan, Get, Collect, Pairs, ghosts, bounds
<1>2. GlobalTypes'
  BY <1>0, <1>1 DEF GlobalTypes
<1>3. ObjectLock(t)'
  BY <1>0, <1>1 DEF ObjectLock
<1>4. ASSUME Return(t), regR' = regR \ {t} \/ (regR' = regR /\ pc[t] \in {"lookup", "get", "pairs"})
      PROVE  LockInv'
  <2>1. t \notin regR' /\ regR' \subseteq regR
    BY <1>4, Outside
  <2>2. QED
    BY <1>1, <1>2, <1>4, <2>1, LockReturn, Outside
<1>5. ASSUME NEW l \in Labels, NEW o \in Objects, Goto(t, l), Visit(t, o),
             UNCHANGED <<op, num, pend, broken>>,
             found' \in [Threads -> SUBSET Objects],
             \A u \in Threads \ {t} : found'[u] = found[u],
             \/ l = "load" /\ pc[t] = "lookup" /\ regR' = regR
             \/ l = "info" /\ pc[t] \in {"each", "pairs"} /\ regR' = regR
             \/ l = "get" /\ pc[t] = "scan" /\ regR' = regR \ {t}
      PROVE  LockInv'
  <2>1. /\ LocalTypes' /\ Others(t) /\ pc'[t] = l /\ op'[t] = op[t] /\ num'[t] = num[t]
        /\ cur'[t] = o
    BY <1>0, <1>5, GoVisit
  <2>2. Where(t)' /\ Busied(t)'
    BY <1>0, <1>5, <2>1 DEF Where, Busied
  <2>3. RegistryLock(t)'
    BY <1>0, <1>1, <1>5, <2>1 DEF RegistryLock, Where
  <2>4. QED
    <3>1. ObjectLock(t)'
      BY <1>0, <1>1, <1>5 DEF ObjectLock
    <3>2. QED
      BY <1>1, <1>2, <2>1, <2>2, <2>3, <3>1, LockFrame
<1>6. CASE Lookup(t)
  <2>1. CASE Return(t)
    BY <1>4, <1>6, <2>1 DEF Lookup
  <2>2. CASE ~Return(t)
    <3> DEFINE c == <<mem[op[t].id], op[t].id>>
    <3>1. /\ mem[op[t].id] # 0 /\ Visit(t, c) /\ Goto(t, "load")
          /\ UNCHANGED <<op, num, pend, found, broken>> /\ regR' = regR /\ pc[t] = "lookup"
      BY <1>6, <2>2 DEF Lookup
    <3>2. op[t].id \in Ids
      BY <1>0, <3>1, OpFields DEF Where
    <3>3. c \in Objects /\ "load" \in Labels
      BY <1>0, <3>1, <3>2, LiveObjects DEF Labels
    <3>4. /\ found' \in [Threads -> SUBSET Objects] /\ \A u \in Threads \ {t} : found'[u] = found[u]
      BY <1>0, <3>1 DEF LocalTypes
    <3> HIDE DEF c
    <3>5. QED
      BY <1>5, <3>1, <3>3, <3>4
  <2>3. QED
    BY <2>1, <2>2
<1>7. CASE RLock(t)
  <2>1. /\ regR' = regR \cup {t} /\ pend' = [pend EXCEPT ![t] = Live]
        /\ UNCHANGED <<op, num, cur, found, broken>> /\ pc[t] = "rlock"
    BY <1>7 DEF RLock
  <2>2. PICK l \in {"each", "collect", "scan"} :
          /\ Goto(t, l)
          /\ l = "each" => op[t].name = "list"
          /\ l = "collect" => op[t].name = "cats"
          /\ l = "scan" => op[t].name = "get"
    BY <1>0, <1>7 DEF RLock, Where
  <2>3. l \in Labels /\ Live \in SUBSET Objects
    BY <1>0, LiveObjects DEF Labels
  <2>4. broken' \in [Threads -> BOOLEAN] /\ \A u \in Threads \ {t} : broken'[u] = broken[u]
    BY <1>0, <2>1 DEF LocalTypes
  <2>5. /\ LocalTypes' /\ Others(t) /\ pc'[t] = l /\ op'[t] = op[t] /\ num'[t] = num[t]
        /\ cur'[t] = cur[t]
    BY <1>0, <2>1, <2>2, <2>3, <2>4, GoPend
  <2>6. Where(t)' /\ Busied(t)'
    BY <1>0, <2>1, <2>2, <2>5 DEF Where, Busied
  <2>7. RegistryLock(t)'
    BY <1>0, <1>1, <2>1, <2>2, <2>5 DEF RegistryLock
  <2>8. ObjectLock(t)'
    BY <1>0, <1>1, <2>1 DEF ObjectLock
  <2>9. QED
    BY <1>1, <1>2, <2>5, <2>6, <2>7, <2>8, LockFrame
<1>8. CASE ListEach(t) \/ Pairs(t)
  <2>1. CASE Return(t) /\ (ListEach(t) => regR' = regR \ {t})
    BY <1>4, <1>8, <2>1 DEF ListEach, Pairs
  <2>2. ASSUME NEW o \in Objects, Visit(t, o), Goto(t, "info"), UNCHANGED <<op, num, pend, broken>>,
               regR' = regR, pc[t] \in {"each", "pairs"},
               \/ found' = found
               \/ found' = [found EXCEPT ![t] = @ \ {o}]
        PROVE  LockInv'
    <3>1. /\ found' \in [Threads -> SUBSET Objects] /\ \A u \in Threads \ {t} : found'[u] = found[u]
      BY <1>0, <2>2 DEF LocalTypes
    <3>2. "info" \in Labels
      BY DEF Labels
    <3>3. QED
      BY <1>5, <2>2, <3>1, <3>2
  <2>3. QED
    BY <1>0, <1>8, <2>1, <2>2 DEF ListEach, Pairs
<1>9. ASSUME NEW o \in Objects, pend' = [pend EXCEPT ![t] = @ \ {o}],
             UNCHANGED <<regR, pc, op, num, cur, broken>>,
             found' \in [Threads -> SUBSET Objects], \A u \in Threads \ {t} : found'[u] = found[u],
             pc[t] \in {"scan", "collect"}
      PROVE  LockInv'
  <2> DEFINE S == pend[t] \ {o}
  <2>1. S \in SUBSET Objects /\ pend' = [pend EXCEPT ![t] = S]
    BY <1>0, <1>9
  <2> HIDE DEF S
  <2>2. /\ LocalTypes' /\ Others(t) /\ pc'[t] = pc[t] /\ op'[t] = op[t] /\ num'[t] = num[t]
        /\ cur'[t] = cur[t]
    BY <1>0, <1>9, <2>1, StayPend
  <2>3. Where(t)' /\ Busied(t)'
    BY <1>0, <1>9, <2>2 DEF Where, Busied
  <2>4. QED
    BY <1>1, <1>2, <1>9, <2>2, <2>3, LockGoOn
<1>10. CASE Scan(t)
  <2>1. CASE Return(t) /\ regR' = regR \ {t}
    BY <1>4, <2>1
  <2>2. CASE ~(Return(t) /\ regR' = regR \ {t})
    <3>1. PICK o \in pend[t] :
            \/ /\ regR' = regR \ {t} /\ Visit(t, o) /\ Goto(t, "get") /\ UNCHANGED pend
            \/ /\ pend' = [pend EXCEPT ![t] = @ \ {o}] /\ UNCHANGED <<regR, cur, pc>>
      BY <1>10, <2>2 DEF Scan
    <3>2. pc[t] = "scan" /\ UNCHANGED <<op, num, found, broken>> /\ o \in Objects /\ "get" \in Labels
      BY <1>0, <1>10, <2>2 DEF Scan, Labels
    <3>3. /\ found' \in [Threads -> SUBSET Objects] /\ \A u \in Threads \ {t} : found'[u] = found[u]
      BY <1>0, <3>2 DEF LocalTypes
    <3>4. QED
      BY <1>5, <1>9, <3>1, <3>2, <3>3
  <2>3. QED
    BY <2>1, <2>2
<1>11. CASE Get(t)
  <2>1. CASE Return(t)
    BY <1>4, <1>11, <2>1 DEF Get
  <2>2. CASE op[t].name = "cats" /\ Goto(t, "pairs") /\ UNCHANGED locals
    <3>1. /\ LocalTypes' /\ Others(t) /\ pc'[t] = "pairs" /\ op'[t] = op[t] /\ num'[t] = num[t]
          /\ cur'[t] = cur[t]
      BY <1>0, <2>2, GoOn DEF Labels
    <3>2. Where(t)' /\ Busied(t)'
      BY <1>0, <1>1, <2>2, <3>1 DEF Where, Busied
    <3>3. pc[t] = "get" /\ regR' = regR
      BY <1>11 DEF Get
    <3>4. QED
      BY <1>1, <1>2, <3>1, <3>2, <3>3, LockGoOn
  <2>3. QED
    BY <1>11, <2>1, <2>2 DEF Get
<1>12. CASE Collect(t)
  <2>1. CASE /\ pend[t] = {} /\ regR' = regR \ {t} /\ Goto(t, "pairs") /\ UNCHANGED <<pend, found>>
             /\ UNCHANGED <<op, num, cur, broken>> /\ pc[t] = "collect"
    <3>1. /\ LocalTypes' /\ Others(t) /\ pc'[t] = "pairs" /\ op'[t] = op[t] /\ num'[t] = num[t]
          /\ cur'[t] = cur[t]
      BY <1>0, <2>1, GoOn DEF Labels, locals
    <3>2. Where(t)' /\ Busied(t)'
      BY <1>0, <2>1, <3>1 DEF Where, Busied
    <3>3. RegistryLock(t)'
      BY <1>0, <1>1, <2>1, <3>1 DEF RegistryLock
    <3>4. ObjectLock(t)'
      BY <1>0, <1>1, <2>1 DEF ObjectLock
    <3>5. QED
      BY <1>1, <1>2, <3>1, <3>2, <3>3, <3>4, LockFrame
  <2>2. ASSUME NEW o \in pend[t], pend' = [pend EXCEPT ![t] = @ \ {o}],
               found' = [found EXCEPT ![t] = IF HasCategories(o) THEN @ \cup {o} ELSE @],
               UNCHANGED <<regR, pc>>, UNCHANGED <<op, num, cur, broken>>, pc[t] = "collect"
        PROVE  LockInv'
    <3>1. o \in Objects
      BY <1>0
    <3>2. /\ found' \in [Threads -> SUBSET Objects] /\ \A u \in Threads \ {t} : found'[u] = found[u]
      BY <1>0, <2>2, <3>1 DEF LocalTypes
    <3>3. QED
      BY <1>9, <2>2, <3>1, <3>2
  <2>3. QED
    BY <1>12, <2>1, <2>2 DEF Collect
<1>13. QED
  BY <1>6, <1>7, <1>8, <1>10, <1>11, <1>12

\* Every step keeps the locks with the goroutines inside them.
LEMMA LockStep ==
  ASSUME LockInv, [Next]_vars
  PROVE  LockInv'
<1>1. ASSUME NEW t \in Threads, Step(t) PROVE LockInv'
  BY <1>1, LockTable, LockQuery, LockMap, LockClose, LockInfo, LockLoad, LockReaders DEF Step
<1>2. CASE UNCHANGED vars
  BY <1>2 DEF vars, LockInv, LocalTypes, GlobalTypes, Where, Busied, RegistryLock, ObjectLock
<1>3. QED
  BY <1>1, <1>2, LockStart DEF Next

\* No lock is held at first.
LEMMA LockInit == ASSUME Init PROVE LockInv
<1>0. Blank \in ObjRecs /\ Blank.w = {} /\ Blank.r = {} /\ 0 \in 0 .. MaxOps /\ "idle" \in Labels
  BY DEF Blank, ObjRecs, Labels
<1>1. LocalTypes
  BY <1>0, IdleName DEF Init, LocalTypes
<1>2. GlobalTypes
  BY <1>0 DEF Init, GlobalTypes
<1>3. ASSUME NEW t \in Threads PROVE Where(t) /\ Busied(t) /\ RegistryLock(t) /\ ObjectLock(t)
  BY <1>0, IdleName DEF Init, Where, Busied, RegistryLock, ObjectLock
<1>4. QED
  BY <1>1, <1>2, <1>3 DEF LockInv

\* The locks of the registry and of its objects are held by the goroutines
\* that are inside them, and by no others.
THEOREM LocksHeld == Spec => []LockInv
<1>1. Init => LockInv
  BY LockInit
<1>2. LockInv /\ [Next]_vars => LockInv'
  BY LockStep
<1>3. QED
  BY <1>1, <1>2, PTL DEF Spec

\* For any number of goroutines, sources and operations: when some goroutine is
\* busy, one of them can go on, unless one is trapped in the nested RLock of
\* Info (registry.go, and the providers' Info).
THEOREM NoOtherWedgeHolds == Spec => []NoOtherWedge
<1>1. LockInv => NoOtherWedge
  <2> SUFFICES ASSUME LockInv, ~Trapped, \A t \in Busy : Waits(t), NEW b \in Busy PROVE FALSE
    BY DEF NoOtherWedge
  <2> USE DEF LockInv
  <2>1. \A t \in Threads : Where(t) /\ Busied(t) /\ RegistryLock(t) /\ ObjectLock(t)
    OBVIOUS
  <2>2. \A t \in Threads : pc[t] # "idle" => Waits(t)
    BY DEF Busy
  <2>3. /\ \A o \in Objects : objs[o].w \subseteq Threads /\ objs[o].r \subseteq Threads
        /\ \A t \in Threads : pend[t] \subseteq Objects
    BY DEF GlobalTypes, LocalTypes, ObjRecs
  \* Nobody is in an object's lock: it would wait for a reader, which is trapped.
  <2>4. ASSUME NEW o \in Objects PROVE objs[o].w = {}
    <3> SUFFICES ASSUME NEW t \in Threads, t \in objs[o].w PROVE FALSE
      BY <2>3
    <3>1. pc[t] \in {"locked", "loading", "closing"} /\ cur[t] = o
      BY <2>1 DEF ObjectLock
    <3>2. Waits(t)
      BY <2>2, <3>1
    <3>3. objs[o].r # {}
      BY <3>1, <3>2 DEF Waits
    <3>4. PICK u \in Threads : u \in objs[o].r
      BY <2>3, <3>3
    <3>5. pc[u] = "categories" /\ cur[u] = o
      BY <2>1, <3>4 DEF ObjectLock
    <3>6. QED
      BY <3>5 DEF Trapped
  \* So nobody waits for an object.
  <2>5. ASSUME NEW t \in Threads, pc[t] # "idle"
        PROVE  \/ pc[t] \in {"lock", "lookup", "rlock"} /\ regW # {}
               \/ pc[t] = "swap" /\ regR # {}
    <3>1. Waits(t)
      BY <2>2, <2>5
    <3>2. ~(pc[t] \in {"info", "categories", "load", "get"} /\ objs[cur[t]].w # {})
      BY <2>1, <2>4 DEF Busied
    <3>3. ~(pc[t] \in {"locked", "closing"} /\ objs[cur[t]].r # {})
      <4> SUFFICES ASSUME pc[t] \in {"locked", "closing"}, objs[cur[t]].r # {} PROVE FALSE
        OBVIOUS
      <4>1. cur[t] \in Objects
        BY <2>1 DEF Busied
      <4>2. PICK u \in Threads : u \in objs[cur[t]].r
        BY <2>3, <4>1
      <4>3. pc[u] = "categories" /\ cur[u] = cur[t]
        BY <2>1, <4>1, <4>2 DEF ObjectLock
      <4>4. Waits(u)
        BY <2>2, <4>3
      <4>5. QED
        BY <2>4, <4>1, <4>3, <4>4 DEF Waits
    <3>4. ~(/\ pc[t] \in {"scan", "collect", "close"} /\ pend[t] # {}
            /\ \A o \in pend[t] : objs[o].w # {})
      BY <2>3, <2>4
    <3>5. QED
      BY <3>1, <3>2, <3>3, <3>4 DEF Waits
  <2>6. regR = {}
    <3> SUFFICES ASSUME NEW t \in Threads, t \in regR PROVE FALSE
      BY DEF GlobalTypes
    <3>1. pc[t] \in {"each", "info", "categories", "collect", "scan"}
      BY <2>1 DEF RegistryLock
    <3>2. QED
      BY <2>5, <3>1
  <2>7. regW = {}
    <3> SUFFICES ASSUME NEW t \in Threads, t \in regW PROVE FALSE
      BY DEF GlobalTypes
    <3>1. pc[t] \in {"swap", "close", "closing"}
      BY <2>1 DEF RegistryLock
    <3>2. QED
      BY <2>5, <2>6, <3>1
  <2>8. QED
    BY <2>5, <2>6, <2>7 DEF Busy
<1>2. QED
  BY <1>1, LocksHeld, PTL

-----------------------------------------------------------------------------
(* What a step leaves alone *)

\* A step changes the locals of the goroutine that takes it, and its operation
\* only by returning.
LEMMA Control ==
  ASSUME LockInv, NEW t \in Threads, Step(t)
  PROVE  /\ Others(t)
         /\ Return(t) \/ UNCHANGED <<op, num>>
<1>0. LocalTypes
  BY DEF LockInv
<1>1. CASE Return(t)
  BY <1>0, <1>1, Returns
<1>2. CASE ~Return(t)
  <2>1. UNCHANGED <<op, num>>
    <3>1. CASE Insert(t) \/ Delete(t) \/ Query(t) \/ NextLoad(t) \/ Lock(t)
      BY <1>2, <3>1 DEF Insert, Delete, Query, NextLoad, Lock, locals
    <3>2. CASE \/ AddSwap(t) \/ RemoveSwap(t) \/ LoadAllSwap(t) \/ Close(t) \/ CloseReader(t)
               \/ Closed(t) \/ ShutBegin(t) \/ ShutEnd(t)
      BY <1>2, <3>2 DEF AddSwap, RemoveSwap, LoadAllSwap, Swapped, Close, CloseReader, Closed,
                        ShutBegin, ShutEnd, locals
    <3>3. CASE Info(t) \/ InfoCategories(t) \/ LoadLock(t) \/ LoadBegin(t) \/ LoadEnd(t)
      BY <1>2, <3>3 DEF Info, InfoCategories, LoadLock, LoadBegin, LoadEnd, AfterInfo, AfterLoad,
                        locals
    <3>4. CASE Lookup(t) \/ RLock(t) \/ ListEach(t) \/ Scan(t) \/ Get(t) \/ Collect(t) \/ Pairs(t)
      BY <1>2, <3>4 DEF Lookup, RLock, ListEach, Scan, Get, Collect, Pairs, locals
    <3>5. QED
      BY <3>1, <3>2, <3>3, <3>4 DEF Step
  <2>2. \A u \in Threads \ {t} : pc'[u] = pc[u]
    <3>1. pc' = pc \/ \E l : Goto(t, l)
      <4>1. CASE Insert(t) \/ Delete(t) \/ Query(t) \/ NextLoad(t) \/ Lock(t)
        BY <1>2, <4>1 DEF Insert, Delete, Query, NextLoad, Lock
      <4>2. CASE \/ AddSwap(t) \/ RemoveSwap(t) \/ LoadAllSwap(t) \/ Close(t) \/ CloseReader(t)
                 \/ Closed(t) \/ ShutBegin(t) \/ ShutEnd(t)
        BY <1>2, <4>2 DEF AddSwap, RemoveSwap, LoadAllSwap, Swapped, Close, CloseReader, Closed,
                          ShutBegin, ShutEnd
      <4>3. CASE Info(t) \/ InfoCategories(t) \/ LoadLock(t) \/ LoadBegin(t) \/ LoadEnd(t)
        BY <1>2, <4>3 DEF Info, InfoCategories, LoadLock, LoadBegin, LoadEnd, AfterInfo, AfterLoad
      <4>4. CASE Lookup(t) \/ RLock(t) \/ ListEach(t) \/ Scan(t) \/ Get(t) \/ Collect(t) \/ Pairs(t)
        BY <1>2, <4>4 DEF Lookup, RLock, ListEach, Scan, Get, Collect, Pairs
      <4>5. QED
        BY <4>1, <4>2, <4>3, <4>4 DEF Step
    <3>2. QED
      BY <1>0, <3>1 DEF Goto, LocalTypes
  <2>3. \A u \in Threads \ {t} : cur'[u] = cur[u]
    <3>1. cur' = cur \/ \E o : Visit(t, o)
      <4>1. CASE Insert(t) \/ Delete(t) \/ Query(t) \/ NextLoad(t) \/ Lock(t)
        BY <1>2, <4>1 DEF Insert, Delete, Query, NextLoad, Lock, locals
      <4>2. CASE \/ AddSwap(t) \/ RemoveSwap(t) \/ LoadAllSwap(t) \/ Close(t) \/ CloseReader(t)
                 \/ Closed(t) \/ ShutBegin(t) \/ ShutEnd(t)
        BY <1>2, <4>2 DEF AddSwap, RemoveSwap, LoadAllSwap, Swapped, Close, CloseReader, Closed,
                          ShutBegin, ShutEnd, locals
      <4>3. CASE Info(t) \/ InfoCategories(t) \/ LoadLock(t) \/ LoadBegin(t) \/ LoadEnd(t)
        BY <1>2, <4>3 DEF Info, InfoCategories, LoadLock, LoadBegin, LoadEnd, AfterInfo, AfterLoad,
                          locals
      <4>4. CASE Lookup(t) \/ RLock(t) \/ ListEach(t) \/ Scan(t) \/ Get(t) \/ Collect(t) \/ Pairs(t)
        BY <1>2, <4>4 DEF Lookup, RLock, ListEach, Scan, Get, Collect, Pairs, locals
      <4>5. QED
        BY <4>1, <4>2, <4>3, <4>4 DEF Step
    <3>2. QED
      BY <1>0, <3>1 DEF Visit, LocalTypes
  <2>4. \A u \in Threads \ {t} : pend'[u] = pend[u]
    <3>1. pend' = pend \/ \E S : pend' = [pend EXCEPT ![t] = S]
      <4>1. CASE Insert(t) \/ Delete(t) \/ Query(t) \/ NextLoad(t) \/ Lock(t)
        BY <1>2, <4>1 DEF Insert, Delete, Query, NextLoad, Lock, locals
      <4>2. CASE \/ AddSwap(t) \/ RemoveSwap(t) \/ LoadAllSwap(t) \/ Close(t) \/ CloseReader(t)
                 \/ Closed(t) \/ ShutBegin(t) \/ ShutEnd(t)
        BY <1>2, <4>2 DEF AddSwap, RemoveSwap, LoadAllSwap, Swapped, Close, CloseReader, Closed,
                          ShutBegin, ShutEnd, Leave, locals
      <4>3. CASE Info(t) \/ InfoCategories(t) \/ LoadLock(t) \/ LoadBegin(t) \/ LoadEnd(t)
        BY <1>2, <4>3 DEF Info, InfoCategories, LoadLock, LoadBegin, LoadEnd, AfterInfo, AfterLoad,
                          Leave, locals
      <4>4. CASE Lookup(t) \/ RLock(t) \/ ListEach(t) \/ Scan(t) \/ Get(t) \/ Collect(t) \/ Pairs(t)
        BY <1>2, <4>4 DEF Lookup, RLock, ListEach, Scan, Get, Collect, Pairs, locals
      <4>5. QED
        BY <4>1, <4>2, <4>3, <4>4 DEF Step
    <3>2. QED
      BY <1>0, <3>1 DEF LocalTypes
  <2>5. \A u \in Threads \ {t} : found'[u] = found[u] /\ broken'[u] = broken[u]
    <3>1. /\ found' = found \/ \E S : found' = [found EXCEPT ![t] = S]
          /\ broken' = broken \/ \E b : broken' = [broken EXCEPT ![t] = b]
      <4>1. CASE Insert(t) \/ Delete(t) \/ Query(t) \/ NextLoad(t) \/ Lock(t)
        BY <1>2, <4>1 DEF Insert, Delete, Query, NextLoad, Lock, locals
      <4>2. CASE \/ AddSwap(t) \/ RemoveSwap(t) \/ LoadAllSwap(t) \/ Close(t) \/ CloseReader(t)
                 \/ Closed(t) \/ ShutBegin(t) \/ ShutEnd(t)
        BY <1>2, <4>2 DEF AddSwap, RemoveSwap, LoadAllSwap, Swapped, Close, CloseReader, Closed,
                          ShutBegin, ShutEnd, locals
      <4>3. CASE Info(t) \/ InfoCategories(t) \/ LoadLock(t) \/ LoadBegin(t) \/ LoadEnd(t)
        BY <1>2, <4>3 DEF Info, InfoCategories, LoadLock, LoadBegin, LoadEnd, AfterInfo, AfterLoad,
                          locals
      <4>4. CASE Lookup(t) \/ RLock(t) \/ ListEach(t) \/ Scan(t) \/ Get(t) \/ Collect(t) \/ Pairs(t)
        BY <1>2, <4>4 DEF Lookup, RLock, ListEach, Scan, Get, Collect, Pairs, locals
      <4>5. QED
        BY <4>1, <4>2, <4>3, <4>4 DEF Step
    <3>2. QED
      BY <1>0, <3>1 DEF LocalTypes
  <2>6. QED
    BY <2>1, <2>2, <2>3, <2>4, <2>5 DEF Others
<1>3. QED
  BY <1>1, <1>2

-----------------------------------------------------------------------------
(* Map and table.  Most steps change neither, nor what the proof says of the *)
(* goroutine that takes them.                                               *)

\* The configurations of the objects, which locks and loads leave alone.
SameCfg == \A o \in Objects : objs'[o].cfg = objs[o].cfg

\* Only LoadAll's query gives objects a configuration.
LEMMA StepCfg ==
  ASSUME LockInv, NEW t \in Threads, Step(t), pc[t] # "query"
  PROVE  SameCfg
<1>1. CASE Close(t)
  BY <1>1, CloseObj DEF ObjStep, SameCfg
<1>2. CASE CloseReader(t)
  BY <1>2, CloseReaderObj DEF ObjStep, SameCfg
<1>3. CASE Info(t) \/ InfoCategories(t)
  BY <1>3, InfoObj DEF SameCfg
<1>4. CASE LoadLock(t) \/ LoadBegin(t)
  BY <1>4, LoadLockObj DEF ObjStep, SameCfg
<1>5. CASE LoadEnd(t)
  BY <1>5, LoadEndObj DEF SameCfg
<1>6. CASE objs' = objs
  BY <1>6 DEF SameCfg
<1>7. QED
  <2>1. CASE \/ Insert(t) \/ Delete(t) \/ NextLoad(t) \/ Lock(t) \/ AddSwap(t) \/ RemoveSwap(t)
             \/ LoadAllSwap(t) \/ Closed(t) \/ ShutBegin(t) \/ ShutEnd(t)
    BY <1>6, <2>1 DEF Insert, Delete, NextLoad, Lock, AddSwap, RemoveSwap, LoadAllSwap, Swapped,
                      Closed, ShutBegin, ShutEnd
  <2>2. CASE Lookup(t) \/ RLock(t) \/ ListEach(t) \/ Scan(t) \/ Get(t) \/ Collect(t) \/ Pairs(t)
    BY <1>6, <2>2 DEF Lookup, RLock, ListEach, Scan, Get, Collect, Pairs
  <2>3. CASE Query(t)
    BY <2>3 DEF Query
  <2>4. QED
    BY <1>1, <1>2, <1>3, <1>4, <1>5, <2>1, <2>2, <2>3 DEF Step

\* A goroutine goes on or is done; it begins nothing.
GoesOn(t) == \/ op'[t] = op[t] /\ num'[t] = num[t]
             \/ op'[t].name = "none"

\* The operation of a goroutine is one of those in the table.
LEMMA OpOf ==
  ASSUME LocalTypes, NEW t \in Threads
  PROVE  /\ op[t].name \in {"add", "remove", "refresh"} => op[t].id \in Ids
         /\ op[t].name = "add" => op[t].cfg \in Offered
         /\ num[t] \in 0 .. MaxOps /\ op[t] \in Operations \cup {Idle}
BY OpFields DEF LocalTypes

\* A number that is in use names objects.
LEMMA Numbered ==
  ASSUME LockInv, NumInv, NEW t \in Threads, op[t].name # "none", NEW id \in Ids
  PROVE  num[t] \in 1 .. MaxOps /\ <<num[t], id>> \in Objects
<1>1. num[t] \in 1 .. ops /\ ops \in 0 .. MaxOps
  BY DEF NumInv, LockInv, GlobalTypes
<1>2. num[t] \in 1 .. MaxOps
  BY <1>1
<1>3. QED
  BY <1>2 DEF Objects

\* Equal configurations mean equal Cfg wherever the invariant looks at it.
LEMMA SameCfgOf ==
  ASSUME SameCfg, NEW n \in 1 .. MaxOps, NEW id \in Ids
  PROVE  objs'[<<n, id>>].cfg = Cfg(n, id)
<1>1. <<n, id>> \in Objects
  BY DEF Objects
<1>2. QED
  BY <1>1 DEF SameCfg, Cfg

\* A step that starts no operation and changes no configuration keeps numbers
\* and objects together.
LEMMA PlainNum ==
  ASSUME LockInv, NumInv, NEW t \in Threads, Others(t), GoesOn(t), SameCfg, ops' = ops,
         pc'[t] # "query"
  PROVE  NumInv'
<1>0. LocalTypes /\ GlobalTypes
  BY DEF LockInv
<1>1. ASSUME NEW u \in Threads, op'[u].name # "none"
      PROVE  op'[u] = op[u] /\ num'[u] = num[u] /\ num[u] \in 1 .. ops
  BY <1>1 DEF GoesOn, Others, NumInv
<1>2. ASSUME NEW u \in Threads, NEW v \in Threads, op'[u].name # "none", op'[v].name # "none",
             num'[u] = num'[v]
      PROVE  u = v
  BY <1>1, <1>2 DEF NumInv
<1>3. ASSUME NEW n \in 1 .. MaxOps, NEW id \in Ids, n > ops' PROVE Cfg(n, id)' = {}
  <2>1. Cfg(n, id) = {}
    BY <1>3 DEF NumInv
  <2>2. objs'[<<n, id>>].cfg = Cfg(n, id)
    BY SameCfgOf
  <2>3. QED
    BY <2>1, <2>2 DEF Cfg
<1>4. ASSUME NEW u \in Threads, pc'[u] = "query", NEW id \in Ids PROVE Cfg(num[u], id)' = {}
  <2>1. u # t /\ pc[u] = "query" /\ num'[u] = num[u]
    BY <1>4 DEF Others
  <2>2. op[u].name = "loadall"
    BY <2>1 DEF LockInv, Where
  <2>3. num[u] \in 1 .. MaxOps
    BY <2>2, Numbered
  <2>4. Cfg(num[u], id) = {}
    BY <2>1 DEF NumInv
  <2>5. objs'[<<num[u], id>>].cfg = Cfg(num[u], id)
    BY <2>3, SameCfgOf
  <2>6. QED
    BY <2>1, <2>4, <2>5 DEF Cfg
<1>5. QED
  BY <1>1, <1>2, <1>3, <1>4 DEF NumInv

\* The same of the objects that requests brought, and of those in the new map.
LEMMA PlainCfg ==
  ASSUME LockInv, NumInv, CfgInv, NEW t \in Threads, Others(t), GoesOn(t), SameCfg,
         mem' \in [Ids -> 0 .. MaxOps], \A id \in Ids : mem'[id] # 0 => Cfg(mem'[id], id) # {}
  PROVE  CfgInv'
<1>0. LocalTypes /\ GlobalTypes
  BY DEF LockInv
<1>1. ASSUME NEW u \in Threads, op'[u].name = "add"
      PROVE  Cfg(num[u], op[u].id)' = {op'[u].cfg}
  <2>1. op'[u] = op[u] /\ num'[u] = num[u]
    BY <1>1 DEF GoesOn, Others
  <2>2. op[u].id \in Ids /\ num[u] \in 1 .. MaxOps
    BY <1>0, <1>1, <2>1, OpOf, Numbered
  <2>3. objs'[<<num[u], op[u].id>>].cfg = Cfg(num[u], op[u].id)
    BY <2>2, SameCfgOf
  <2>4. QED
    BY <1>1, <2>1, <2>3 DEF CfgInv, Cfg
<1>2. ASSUME NEW id \in Ids, mem'[id] # 0 PROVE Cfg(mem[id], id)' # {}
  <2>1. mem'[id] \in 1 .. MaxOps
    BY <1>2
  <2>2. objs'[<<mem'[id], id>>].cfg = Cfg(mem'[id], id)
    BY <2>1, SameCfgOf
  <2>3. QED
    BY <1>2, <2>2 DEF Cfg
<1>3. QED
  BY <1>1, <1>2 DEF CfgInv

\* The same of the writers that nothing overlapped.
LEMMA PlainSolo ==
  ASSUME LockInv, SoloInv, NEW t \in Threads, Others(t), GoesOn(t),
         \A u \in Threads : solo'[u] => solo[u]
  PROVE  SoloInv'
<1>1. ASSUME NEW u \in Threads, Writing(u)' PROVE Writing(u)
  <2>1. op'[u] = op[u]
    BY <1>1 DEF Writing, Writers, GoesOn, Others
  <2>2. QED
    BY <1>1, <2>1 DEF Writing
<1>2. QED
  BY <1>1 DEF SoloInv

\* And of map and table.
LEMMA PlainPart ==
  ASSUME LockInv, PartInv, NEW t \in Threads, Others(t), GoesOn(t), SameCfg,
         db' = db, mem' = mem, agree' => agree, agree => (Between(t)' <=> Between(t))
  PROVE  PartInv'
<1> SUFFICES ASSUME agree' 
    PROVE  /\ \A u, v \in Threads : Writing(u)' /\ Writing(v)' => u = v
           /\ \A id \in Ids : \/ db'[id] = Held(id)'
                              \/ \E u \in Threads : Between(u)' /\ op'[u].id = id
           /\ \A u \in Threads : Between(u)' /\ op'[u].name = "add" => db'[op'[u].id] = {op'[u].cfg}
           /\ \A u \in Threads : Between(u)' /\ op'[u].name = "remove" => mem'[op'[u].id] = 0
  BY DEF PartInv
<1>0. LocalTypes /\ GlobalTypes /\ agree
  BY DEF LockInv
<1>1. ASSUME NEW u \in Threads, Writing(u)' PROVE Writing(u) /\ op'[u] = op[u]
  <2>1. op'[u] = op[u]
    BY <1>1 DEF Writing, Writers, GoesOn, Others
  <2>2. QED
    BY <1>1, <2>1 DEF Writing
<1>2. ASSUME NEW u \in Threads PROVE Between(u)' <=> Between(u)
  <2>1. CASE u = t
    BY <1>0, <2>1
  <2>2. CASE u # t
    BY <2>2 DEF Others, Between
  <2>3. QED
    BY <2>1, <2>2
<1>3. ASSUME NEW u \in Threads, Between(u)' PROVE op'[u] = op[u]
  BY <1>1, <1>3 DEF Between, Writing, Writers
<1>4. ASSUME NEW id \in Ids PROVE Held(id)' = Held(id)
  <2>1. CASE mem[id] = 0
    BY <2>1 DEF Held
  <2>2. CASE mem[id] # 0
    <3>1. mem[id] \in 1 .. MaxOps
      BY <1>0, <2>2 DEF GlobalTypes
    <3>2. objs'[<<mem[id], id>>].cfg = Cfg(mem[id], id)
      BY <3>1, SameCfgOf
    <3>3. QED
      BY <2>2, <3>2 DEF Held, Cfg
  <2>3. QED
    BY <2>1, <2>2
<1>5. \A u, v \in Threads : Writing(u)' /\ Writing(v)' => u = v
  BY <1>0, <1>1 DEF PartInv
<1>6. ASSUME NEW id \in Ids
      PROVE  db'[id] = Held(id)' \/ \E u \in Threads : Between(u)' /\ op'[u].id = id
  <2>1. CASE db[id] = Held(id)
    BY <1>4, <2>1
  <2>2. CASE db[id] # Held(id)
    <3>1. PICK u \in Threads : Between(u) /\ op[u].id = id
      BY <1>0, <2>2 DEF PartInv
    <3>2. QED
      BY <1>2, <1>3, <3>1
  <2>3. QED
    BY <2>1, <2>2
<1>7. ASSUME NEW u \in Threads, Between(u)'
      PROVE  /\ op'[u].name = "add" => db'[op'[u].id] = {op'[u].cfg}
             /\ op'[u].name = "remove" => mem'[op'[u].id] = 0
  BY <1>0, <1>2, <1>3, <1>7 DEF PartInv
<1>8. QED
  BY <1>5, <1>6, <1>7

\* And of the objects a LoadAll has made.
LEMMA PlainFill ==
  ASSUME LockInv, NumInv, FillInv, NEW t \in Threads, Others(t), GoesOn(t), SameCfg,
         db' = db, \A u \in Threads : solo'[u] => solo[u], Filling(t)' => Filling(t)
  PROVE  FillInv'
<1> SUFFICES ASSUME NEW u \in Threads, Filling(u)', solo'[u], NEW id \in Ids
             PROVE  Cfg(num[u], id)' = db[id]
  BY DEF FillInv
<1>1. op'[u] = op[u] /\ num'[u] = num[u]
  BY DEF Filling, GoesOn, Others
<1>2. Filling(u) /\ solo[u]
  <2>1. CASE u = t
    BY <2>1
  <2>2. CASE u # t
    BY <2>2 DEF Others, Filling
  <2>3. QED
    BY <2>1, <2>2
<1>3. num[u] \in 1 .. MaxOps
  BY <1>2, Numbered DEF Filling
<1>4. objs'[<<num[u], id>>].cfg = Cfg(num[u], id)
  BY <1>3, SameCfgOf
<1>5. QED
  BY <1>1, <1>2, <1>4 DEF FillInv, Cfg

\* All of it together.
LEMMA PlainStep ==
  ASSUME LockInv, AgreeInv, NEW t \in Threads, Others(t), GoesOn(t), SameCfg,
         UNCHANGED <<db, mem, solo, ops>>, agree' => agree, pc'[t] # "query",
         agree => (Between(t)' <=> Between(t)), Filling(t)' => Filling(t)
  PROVE  AgreeInv'
<1>1. NumInv'
  BY PlainNum DEF AgreeInv
<1>2. CfgInv'
  BY PlainCfg DEF AgreeInv, CfgInv, LockInv, GlobalTypes
<1>3. SoloInv'
  BY PlainSolo DEF AgreeInv
<1>4. PartInv'
  BY PlainPart DEF AgreeInv
<1>5. FillInv'
  BY PlainFill DEF AgreeInv
<1>6. QED
  BY <1>1, <1>2, <1>3, <1>4, <1>5 DEF AgreeInv

\* An operation ends where map and table are not apart.
LEMMA PlainReturn ==
  ASSUME LockInv, AgreeInv, NEW t \in Threads, Return(t), SameCfg,
         UNCHANGED <<db, mem, solo, ops>>, agree' => agree,
         pc[t] \notin {"lock", "swap", "delete"} \/ ~agree'
  PROVE  AgreeInv'
<1>1. Others(t) /\ pc'[t] = "idle" /\ op'[t].name = "none"
  BY Returns DEF LockInv
<1>2. GoesOn(t) /\ ~Between(t)' /\ ~Filling(t)'
  BY <1>1 DEF GoesOn, Between, Filling
<1>3. CASE pc[t] \notin {"lock", "swap", "delete"}
  <2>1. ~Between(t)
    BY <1>3 DEF Between
  <2>2. QED
    BY <1>1, <1>2, <2>1, PlainStep
<1>4. CASE ~agree'
  <2>1. NumInv' /\ SoloInv' /\ FillInv'
    BY <1>1, <1>2, PlainNum, PlainSolo, PlainFill DEF AgreeInv
  <2>2. CfgInv'
    BY <1>1, <1>2, PlainCfg DEF AgreeInv, CfgInv, LockInv, GlobalTypes
  <2>3. PartInv'
    BY <1>4 DEF PartInv
  <2>4. QED
    BY <2>1, <2>2, <2>3 DEF AgreeInv
<1>5. QED
  BY <1>3, <1>4

\* An operation goes on, away from where map and table are apart and not out of
\* the query.
LEMMA PlainGo ==
  ASSUME LockInv, AgreeInv, NEW t \in Threads, Others(t), UNCHANGED <<op, num>>, SameCfg,
         UNCHANGED <<db, mem, solo, agree, ops>>,
         pc[t] \notin {"swap", "delete", "query"} \/ op[t].name = "shut",
         pc[t] = "lock" => pc'[t] = "swap",
         pc'[t] = "swap" => pc[t] = "lock",
         pc'[t] \notin {"delete", "query"},
         pc'[t] = "lock" => op[t].name = "loadall",
         pc[t] \in {"close", "closing"} => pc'[t] \in {"close", "closing"} \/ op[t].name = "add"
  PROVE  AgreeInv'
<1>1. GoesOn(t) /\ op'[t] = op[t]
  BY DEF GoesOn
<1>2. Between(t)' <=> Between(t)
  BY <1>1 DEF Between
<1>3. Filling(t)' => Filling(t)
  BY <1>1 DEF Filling
<1>4. QED
  BY <1>1, <1>2, <1>3, PlainStep

\* Steps that wait for the registry's lock, close what was taken out, or pick
\* the next object to load.
LEMMA PlainMap ==
  ASSUME LockInv, AgreeInv, NEW t \in Threads, Step(t),
         NextLoad(t) \/ Lock(t) \/ Close(t) \/ CloseReader(t) \/ Closed(t) \/ ShutBegin(t)
  PROVE  AgreeInv'
<1>0. LocalTypes /\ GlobalTypes /\ Where(t) /\ Others(t) /\ (Return(t) \/ UNCHANGED <<op, num>>)
  BY Control DEF LockInv
<1>1. SameCfg
  <2>1. pc[t] # "query"
    BY DEF NextLoad, Lock, Close, CloseReader, Closed, ShutBegin
  <2>2. QED
    BY <2>1, StepCfg
<1>2. UNCHANGED <<db, mem, solo, agree, ops>>
  BY DEF NextLoad, Lock, Close, CloseReader, Closed, ShutBegin, ghosts, bounds
<1>3. CASE Return(t)
  <2>1. pc[t] \in {"next", "close"}
    <3>1. pc'[t] = "idle" /\ op'[t].name = "none"
      BY <1>0, <1>3, Returns
    <3>2. CASE Lock(t) \/ ShutBegin(t)
      <4>1. op' = op /\ op[t].name # "none"
        BY <1>0, <3>2 DEF Lock, ShutBegin, locals, Where
      <4>2. QED
        BY <3>1, <4>1
    <3>3. CASE CloseReader(t)
      <4>1. op' = op /\ op[t].name # "none"
        BY <1>0, <3>3 DEF CloseReader, Where
      <4>2. QED
        BY <3>1, <4>1
    <3>4. CASE NextLoad(t) \/ Close(t) \/ Closed(t)
      BY <3>4 DEF NextLoad, Close, Closed
    <3>5. QED
      BY <3>2, <3>3, <3>4
  <2>2. QED
    BY <1>1, <1>2, <1>3, <2>1, PlainReturn
<1>4. CASE ~Return(t)
  <2>1. UNCHANGED <<op, num>>
    BY <1>0, <1>4
  <2>2. CASE NextLoad(t)
    <3>1. pc[t] = "next" /\ pc'[t] \in {"info", "lock"} /\ op[t].name = "loadall"
      BY <1>0, <1>4, <2>2 DEF NextLoad, Goto, LocalTypes, Where
    <3>2. QED
      BY <1>0, <1>1, <1>2, <2>1, <3>1, PlainGo
  <2>3. CASE Lock(t)
    <3>1. pc[t] = "lock" /\ pc'[t] = "swap"
      BY <1>0, <2>3 DEF Lock, Goto, LocalTypes
    <3>2. QED
      BY <1>0, <1>1, <1>2, <2>1, <3>1, PlainGo
  <2>4. CASE Close(t) \/ CloseReader(t)
    <3>1. pc[t] \in {"close", "closing"} /\ pc'[t] \in {"close", "closing"}
      BY <1>0, <2>4 DEF Close, CloseReader, Goto, LocalTypes
    <3>2. QED
      BY <1>0, <1>1, <1>2, <2>1, <3>1, PlainGo
  <2>5. CASE Closed(t)
    <3>1. pc[t] = "close" /\ pc'[t] = "info" /\ op[t].name = "add"
      BY <1>0, <1>4, <2>5 DEF Closed, Goto, LocalTypes
    <3>2. QED
      BY <1>0, <1>1, <1>2, <2>1, <3>1, PlainGo
  <2>6. CASE ShutBegin(t)
    <3>1. pc[t] = "swap" /\ pc'[t] = "close" /\ op[t].name = "shut"
      BY <1>0, <2>6 DEF ShutBegin, Goto, LocalTypes
    <3>2. QED
      BY <1>0, <1>1, <1>2, <2>1, <3>1, PlainGo
  <2>7. QED
    BY <2>2, <2>3, <2>4, <2>5, <2>6
<1>5. QED
  BY <1>3, <1>4

\* Steps inside a provider, and those of readers of the map.
LEMMA PlainProvider ==
  ASSUME LockInv, AgreeInv, NEW t \in Threads, Step(t),
         \/ Info(t) \/ InfoCategories(t) \/ LoadLock(t) \/ LoadBegin(t) \/ LoadEnd(t)
         \/ Lookup(t) \/ RLock(t) \/ ListEach(t) \/ Scan(t) \/ Get(t) \/ Collect(t) \/ Pairs(t)
  PROVE  AgreeInv'
<1> DEFINE Reads == Lookup(t) \/ RLock(t) \/ ListEach(t) \/ Scan(t) \/ Get(t) \/ Collect(t) \/ Pairs(t)
           Quiet == {"info", "categories", "load", "locked", "loading", "lookup", "rlock", "each",
                     "scan", "get", "collect", "pairs", "next"}
<1>0. LocalTypes /\ GlobalTypes /\ Where(t) /\ Others(t) /\ (Return(t) \/ UNCHANGED <<op, num>>)
  BY Control DEF LockInv
<1>1. pc[t] \in Quiet
  BY DEF Info, InfoCategories, LoadLock, LoadBegin, LoadEnd, Lookup, RLock, ListEach, Scan, Get,
         Collect, Pairs
<1>2. SameCfg
  BY <1>1, StepCfg
<1>3. UNCHANGED <<db, mem, solo, agree, ops>>
  <2>1. CASE Info(t) \/ InfoCategories(t) \/ LoadLock(t) \/ LoadBegin(t) \/ LoadEnd(t)
    BY <2>1 DEF Info, InfoCategories, LoadLock, LoadBegin, LoadEnd, ghosts, bounds
  <2>2. CASE Reads
    BY <2>2 DEF Lookup, RLock, ListEach, Scan, Get, Collect, Pairs, ghosts, bounds
  <2>3. QED
    BY <2>1, <2>2
<1>4. CASE Return(t)
  BY <1>1, <1>2, <1>3, <1>4, PlainReturn
<1>5. CASE ~Return(t)
  <2>1. pc'[t] \in Quiet
    <3>1. CASE Info(t) \/ InfoCategories(t)
      BY <1>0, <1>5, <3>1 DEF Info, InfoCategories, AfterInfo, Goto, LocalTypes
    <3>2. CASE LoadLock(t) \/ LoadBegin(t) \/ LoadEnd(t)
      BY <1>0, <1>5, <3>2 DEF LoadLock, LoadBegin, LoadEnd, AfterLoad, Goto, LocalTypes
    <3>3. CASE Lookup(t) \/ ListEach(t) \/ Scan(t) \/ Get(t) \/ Collect(t) \/ Pairs(t)
      BY <1>0, <1>5, <3>3 DEF Lookup, ListEach, Scan, Get, Collect, Pairs, Goto, LocalTypes
    <3>4. CASE RLock(t)
      <4>1. op[t].name \in {"list", "cats", "get"}
        BY <1>0, <3>4 DEF RLock, Where
      <4>2. QED
        BY <1>0, <3>4, <4>1 DEF RLock, Goto, LocalTypes
    <3>5. QED
      BY <3>1, <3>2, <3>3, <3>4
  <2>2. QED
    BY <1>0, <1>1, <1>2, <1>3, <1>5, <2>1, PlainGo
<1>6. QED
  BY <1>4, <1>5

-----------------------------------------------------------------------------
(* The steps that change the table, the map or the objects' configurations *)

\* While map and table agree, a goroutine that is between the two is the writer.
LEMMA OneBetween ==
  ASSUME PartInv, agree, NEW t \in Threads, Writing(t), NEW u \in Threads, Between(u)
  PROVE  u = t
BY DEF PartInv, Between, Writing, Writers

\* The upsert: the table is ahead of the map.
LEMMA AgreeInsert ==
  ASSUME LockInv, AgreeInv, NEW t \in Threads, Step(t), Insert(t)
  PROVE  AgreeInv'
<1>0. /\ LocalTypes /\ GlobalTypes /\ Where(t) /\ Others(t) /\ pc[t] = "insert"
      /\ UNCHANGED <<mem, objs, solo, agree, ops>> /\ SameCfg
  BY Control DEF LockInv, Insert, ghosts, bounds, SameCfg
<1>1. op[t].name = "add" /\ op[t].id \in Ids
  BY <1>0, OpOf DEF Where
<1>2. CASE Return(t) /\ db' = db
  BY <1>0, <1>2, PlainReturn
<1>3. CASE ~(Return(t) /\ db' = db)
  <2>1. /\ db' = [db EXCEPT ![op[t].id] = {op[t].cfg}] /\ Goto(t, "lock") /\ UNCHANGED locals
    BY <1>3 DEF Insert
  <2>2. pc'[t] = "lock" /\ UNCHANGED <<op, num>> /\ GoesOn(t)
    BY <1>0, <2>1 DEF Goto, LocalTypes, locals, GoesOn
  <2>3. NumInv' /\ SoloInv'
    BY <1>0, <2>2, PlainNum, PlainSolo DEF AgreeInv
  <2>4. CfgInv'
    BY <1>0, <2>2, PlainCfg DEF AgreeInv, CfgInv, GlobalTypes
  <2>5. Writing(t) /\ ~Between(t)
    BY <1>0, <1>1 DEF Writing, Writers, Between
  <2>6. FillInv'
    <3> SUFFICES ASSUME NEW u \in Threads, Filling(u)', solo'[u] PROVE FALSE
      BY DEF FillInv
    <3>1. op[u].name = "loadall" /\ solo[u]
      BY <1>0, <2>2 DEF Filling
    <3>2. u = t
      BY <2>5, <3>1 DEF AgreeInv, SoloInv, Writing, Writers
    <3>3. QED
      BY <1>1, <3>1, <3>2
  <2>7. PartInv'
    <3> SUFFICES ASSUME agree'
        PROVE  /\ \A u, v \in Threads : Writing(u)' /\ Writing(v)' => u = v
               /\ \A id \in Ids : \/ db'[id] = Held(id)'
                                  \/ \E u \in Threads : Between(u)' /\ op'[u].id = id
               /\ \A u \in Threads : Between(u)' /\ op'[u].name = "add" => db'[op'[u].id] = {op'[u].cfg}
               /\ \A u \in Threads : Between(u)' /\ op'[u].name = "remove" => mem'[op'[u].id] = 0
      BY DEF PartInv
    <3>0. PartInv /\ agree
      BY <1>0 DEF AgreeInv
    <3>1. \A u, v \in Threads : Writing(u)' /\ Writing(v)' => u = v
      BY <2>2, <3>0 DEF PartInv, Writing
    <3>2. Between(t)'
      BY <1>1, <2>2 DEF Between
    <3>3. \A u \in Threads : Between(u)' => u = t
      BY <2>2, <2>5, <3>1 DEF Between, Writing, Writers
    <3>4. ASSUME NEW id \in Ids, id # op[t].id PROVE db'[id] = Held(id)'
      <4>1. db[id] = Held(id)
        BY <2>5, <3>0, OneBetween DEF PartInv
      <4>2. db'[id] = db[id] /\ Held(id)' = Held(id)
        BY <1>0, <2>1, <3>4 DEF GlobalTypes, Held, Cfg
      <4>3. QED
        BY <4>1, <4>2
    <3>5. db'[op[t].id] = {op[t].cfg}
      BY <1>0, <1>1, <2>1 DEF GlobalTypes
    <3>6. QED
      BY <1>1, <2>2, <3>1, <3>2, <3>3, <3>4, <3>5
  <2>8. QED
    BY <2>3, <2>4, <2>6, <2>7 DEF AgreeInv
<1>4. QED
  BY <1>2, <1>3

\* The delete: the table follows the map.
LEMMA AgreeDelete ==
  ASSUME LockInv, AgreeInv, NEW t \in Threads, Step(t), Delete(t)
  PROVE  AgreeInv'
<1>0. /\ LocalTypes /\ GlobalTypes /\ Where(t) /\ Others(t) /\ pc[t] = "delete"
      /\ UNCHANGED <<mem, objs, solo, ops>> /\ SameCfg
  BY Control DEF LockInv, Delete, ghosts, bounds, SameCfg
<1>1. op[t].name = "remove" /\ op[t].id \in Ids
  BY <1>0, OpOf DEF Where
<1>2. CASE Return(t) /\ db' = db /\ ~agree'
  BY <1>0, <1>2, PlainReturn
<1>3. CASE ~(Return(t) /\ db' = db /\ ~agree')
  <2>1. /\ db' = [db EXCEPT ![op[t].id] = {}] /\ Goto(t, "close") /\ UNCHANGED locals /\ agree' = agree
    BY <1>3 DEF Delete, ghosts
  <2>2. pc'[t] = "close" /\ UNCHANGED <<op, num>> /\ GoesOn(t)
    BY <1>0, <2>1 DEF Goto, LocalTypes, locals, GoesOn
  <2>3. NumInv' /\ SoloInv'
    BY <1>0, <2>2, PlainNum, PlainSolo DEF AgreeInv
  <2>4. CfgInv'
    BY <1>0, <2>2, PlainCfg DEF AgreeInv, CfgInv, GlobalTypes
  <2>5. Writing(t) /\ Between(t)
    BY <1>0, <1>1 DEF Writing, Writers, Between
  <2>6. FillInv'
    <3> SUFFICES ASSUME NEW u \in Threads, Filling(u)', solo'[u] PROVE FALSE
      BY DEF FillInv
    <3>1. op[u].name = "loadall" /\ solo[u]
      BY <1>0, <2>2 DEF Filling
    <3>2. u = t
      BY <2>5, <3>1 DEF AgreeInv, SoloInv, Writing, Writers
    <3>3. QED
      BY <1>1, <3>1, <3>2
  <2>7. PartInv'
    <3> SUFFICES ASSUME agree'
        PROVE  /\ \A u, v \in Threads : Writing(u)' /\ Writing(v)' => u = v
               /\ \A id \in Ids : db'[id] = Held(id)'
               /\ \A u \in Threads : ~Between(u)'
      BY DEF PartInv
    <3>0. PartInv /\ agree
      BY <2>1 DEF AgreeInv
    <3>1. \A u, v \in Threads : Writing(u)' /\ Writing(v)' => u = v
      BY <2>2, <3>0 DEF PartInv, Writing
    <3>2. ~Between(t)'
      BY <1>1, <2>2 DEF Between
    <3>3. \A u \in Threads : ~Between(u)'
      BY <1>0, <2>2, <2>5, <3>0, <3>2, OneBetween DEF Others, Between
    <3>4. ASSUME NEW id \in Ids PROVE db'[id] = Held(id)'
      <4>1. Held(id)' = Held(id)
        BY <1>0 DEF Held, Cfg
      <4>2. CASE id = op[t].id
        <5>1. mem[id] = 0
          BY <1>1, <2>5, <3>0, <4>2 DEF PartInv
        <5>2. QED
          BY <1>0, <1>1, <2>1, <4>1, <4>2, <5>1 DEF GlobalTypes, Held
      <4>3. CASE id # op[t].id
        <5>1. db[id] = Held(id)
          BY <2>5, <3>0, <4>3, OneBetween DEF PartInv
        <5>2. QED
          BY <1>0, <2>1, <4>1, <4>3, <5>1 DEF GlobalTypes
      <4>4. QED
        BY <4>2, <4>3
    <3>5. QED
      BY <3>1, <3>3, <3>4
  <2>8. QED
    BY <2>3, <2>4, <2>6, <2>7 DEF AgreeInv
<1>4. QED
  BY <1>2, <1>3

\* What the three changes of the map have in common.
LEMMA SwapFacts ==
  ASSUME LockInv, AgreeInv, NEW t \in Threads, Step(t), NEW name \in Writers, NEW map,
         NEW l \in {"close", "delete"}, Swapped(t, name, map, l), solo' = solo
  PROVE  /\ LocalTypes /\ GlobalTypes /\ Others(t) /\ GoesOn(t) /\ SameCfg
         /\ UNCHANGED <<db, objs, op, num, ops>> /\ mem' = map
         /\ pc[t] = "swap" /\ pc'[t] = l /\ op[t].name = name /\ Writing(t) /\ num[t] \in 1 .. MaxOps
         /\ NumInv' /\ SoloInv' /\ FillInv'
<1>1. /\ pc[t] = "swap" /\ op[t].name = name /\ mem' = map /\ Goto(t, l)
      /\ UNCHANGED <<db, objs, op, num, ops>>
  BY DEF Swapped, bounds
<1>2. LocalTypes /\ GlobalTypes /\ Others(t)
  BY Control DEF LockInv
<1>3. pc'[t] = l /\ GoesOn(t) /\ SameCfg /\ Writing(t)
  BY <1>1, <1>2 DEF Goto, LocalTypes, GoesOn, SameCfg, Writing
<1>4. NumInv' /\ SoloInv'
  BY <1>1, <1>2, <1>3, PlainNum, PlainSolo DEF AgreeInv
<1>5. ~Filling(t)' \/ Filling(t)
  BY <1>1, <1>3 DEF Filling
<1>6. FillInv'
  BY <1>1, <1>2, <1>3, <1>5, PlainFill DEF AgreeInv
<1>7. num[t] \in 1 .. MaxOps
  <2>1. num[t] \in 1 .. ops /\ ops \in 0 .. MaxOps
    BY <1>1, <1>2 DEF AgreeInv, NumInv, GlobalTypes, Writers
  <2>2. QED
    BY <2>1
<1>8. QED
  BY <1>1, <1>2, <1>3, <1>4, <1>6, <1>7

\* AddSource changes the map: it follows the table.
LEMMA AgreeAdd ==
  ASSUME LockInv, AgreeInv, NEW t \in Threads, Step(t), AddSwap(t)
  PROVE  AgreeInv'
<1> DEFINE map == [mem EXCEPT ![op[t].id] = num[t]]
<1>0. Swapped(t, "add", map, "close") /\ UNCHANGED <<solo, agree, calm>> /\ "add" \in Writers
  BY DEF AddSwap, ghosts, Writers
<1> HIDE DEF map
<1>1. /\ LocalTypes /\ GlobalTypes /\ Others(t) /\ GoesOn(t) /\ SameCfg
      /\ UNCHANGED <<db, objs, op, num, ops>> /\ mem' = map
      /\ pc[t] = "swap" /\ pc'[t] = "close" /\ op[t].name = "add" /\ Writing(t)
      /\ num[t] \in 1 .. MaxOps /\ NumInv' /\ SoloInv' /\ FillInv'
  BY <1>0, SwapFacts
<1>2. op[t].id \in Ids /\ Cfg(num[t], op[t].id) = {op[t].cfg}
  BY <1>1, OpOf DEF AgreeInv, CfgInv
<1>3. /\ mem' \in [Ids -> 0 .. MaxOps] /\ mem'[op[t].id] = num[t]
      /\ \A id \in Ids : id # op[t].id => mem'[id] = mem[id]
  BY <1>1, <1>2 DEF GlobalTypes, map
<1>4. CfgInv'
  <2>1. \A id \in Ids : mem'[id] # 0 => Cfg(mem'[id], id) # {}
    BY <1>2, <1>3 DEF AgreeInv, CfgInv
  <2>2. QED
    BY <1>1, <1>3, <2>1, PlainCfg DEF AgreeInv
<1>5. PartInv'
  <2> SUFFICES ASSUME agree'
      PROVE  /\ \A u, v \in Threads : Writing(u)' /\ Writing(v)' => u = v
             /\ \A id \in Ids : db'[id] = Held(id)'
             /\ \A u \in Threads : ~Between(u)'
    BY DEF PartInv
  <2>0. PartInv /\ agree /\ Between(t)
    BY <1>0, <1>1 DEF AgreeInv, Between
  <2>1. \A u, v \in Threads : Writing(u)' /\ Writing(v)' => u = v
    BY <1>1, <2>0 DEF PartInv, Writing
  <2>2. \A u \in Threads : ~Between(u)'
    <3>1. ~Between(t)'
      BY <1>1 DEF Between
    <3>2. QED
      BY <1>1, <2>0, <3>1, OneBetween DEF Others, Between
  <2>3. ASSUME NEW id \in Ids PROVE db'[id] = Held(id)'
    <3>1. CASE id = op[t].id
      <4>1. db[id] = {op[t].cfg}
        BY <1>1, <2>0, <3>1 DEF PartInv
      <4>2. Held(id)' = Cfg(num[t], id)
        BY <1>1, <1>3, <3>1 DEF Held, Cfg
      <4>3. QED
        BY <1>1, <1>2, <3>1, <4>1, <4>2
    <3>2. CASE id # op[t].id
      <4>1. db[id] = Held(id)
        BY <1>1, <2>0, <3>2, OneBetween DEF PartInv
      <4>2. QED
        BY <1>1, <1>3, <3>2, <4>1 DEF Held, Cfg
    <3>3. QED
      BY <3>1, <3>2
  <2>4. QED
    BY <2>1, <2>2, <2>3
<1>6. QED
  BY <1>1, <1>4, <1>5 DEF AgreeInv

\* RemoveSource changes the map: it is ahead of the table.
LEMMA AgreeRemove ==
  ASSUME LockInv, AgreeInv, NEW t \in Threads, Step(t), RemoveSwap(t)
  PROVE  AgreeInv'
<1> DEFINE map == [mem EXCEPT ![op[t].id] = 0]
<1>0. Swapped(t, "remove", map, "delete") /\ UNCHANGED <<solo, agree, calm>> /\ "remove" \in Writers
  BY DEF RemoveSwap, ghosts, Writers
<1> HIDE DEF map
<1>1. /\ LocalTypes /\ GlobalTypes /\ Others(t) /\ GoesOn(t) /\ SameCfg
      /\ UNCHANGED <<db, objs, op, num, ops>> /\ mem' = map
      /\ pc[t] = "swap" /\ pc'[t] = "delete" /\ op[t].name = "remove" /\ Writing(t)
      /\ num[t] \in 1 .. MaxOps /\ NumInv' /\ SoloInv' /\ FillInv'
  BY <1>0, SwapFacts
<1>2. op[t].id \in Ids /\ 0 \in 0 .. MaxOps
  BY <1>1, OpOf
<1>3. /\ mem' \in [Ids -> 0 .. MaxOps] /\ mem'[op[t].id] = 0
      /\ \A id \in Ids : id # op[t].id => mem'[id] = mem[id]
  BY <1>1, <1>2 DEF GlobalTypes, map
<1>4. CfgInv'
  <2>1. \A id \in Ids : mem'[id] # 0 => Cfg(mem'[id], id) # {}
    BY <1>3 DEF AgreeInv, CfgInv
  <2>2. QED
    BY <1>1, <1>3, <2>1, PlainCfg DEF AgreeInv
<1>5. PartInv'
  <2> SUFFICES ASSUME agree'
      PROVE  /\ \A u, v \in Threads : Writing(u)' /\ Writing(v)' => u = v
             /\ \A id \in Ids : \/ db'[id] = Held(id)'
                                \/ \E u \in Threads : Between(u)' /\ op'[u].id = id
             /\ \A u \in Threads : Between(u)' => op'[u].name = "remove" /\ mem'[op'[u].id] = 0
    BY DEF PartInv
  <2>0. PartInv /\ agree /\ ~Between(t)
    BY <1>0, <1>1 DEF AgreeInv, Between
  <2>1. \A u, v \in Threads : Writing(u)' /\ Writing(v)' => u = v
    BY <1>1, <2>0 DEF PartInv, Writing
  <2>2. Between(t)' /\ Writing(t)' /\ op'[t] = op[t]
    BY <1>1 DEF Between, Writing
  <2>3. \A u \in Threads : Between(u)' => u = t
    BY <2>1, <2>2 DEF Between, Writing, Writers
  <2>4. ASSUME NEW id \in Ids, id # op[t].id PROVE db'[id] = Held(id)'
    <3>1. db[id] = Held(id)
      BY <1>1, <2>0, OneBetween DEF PartInv
    <3>2. QED
      BY <1>1, <1>3, <2>4, <3>1 DEF Held, Cfg
  <2>5. QED
    BY <1>1, <1>3, <2>1, <2>2, <2>3, <2>4
<1>6. QED
  BY <1>1, <1>4, <1>5 DEF AgreeInv

\* LoadAll replaces the map: by what the table says, if it was alone.
LEMMA AgreeLoadAll ==
  ASSUME LockInv, AgreeInv, NEW t \in Threads, Step(t), LoadAllSwap(t)
  PROVE  AgreeInv'
<1> DEFINE map == [id \in Ids |-> IF Cfg(num[t], id) = {} THEN 0 ELSE num[t]]
<1>0. /\ Swapped(t, "loadall", map, "close") /\ UNCHANGED <<solo, calm>> /\ agree' = solo[t]
      /\ "loadall" \in Writers
  BY DEF LoadAllSwap, Writers, Cfg
<1> HIDE DEF map
<1>1. /\ LocalTypes /\ GlobalTypes /\ Others(t) /\ GoesOn(t) /\ SameCfg
      /\ UNCHANGED <<db, objs, op, num, ops>> /\ mem' = map
      /\ pc[t] = "swap" /\ pc'[t] = "close" /\ op[t].name = "loadall" /\ Writing(t)
      /\ num[t] \in 1 .. MaxOps /\ NumInv' /\ SoloInv' /\ FillInv'
  BY <1>0, SwapFacts
<1>2. /\ mem' \in [Ids -> 0 .. MaxOps]
      /\ \A id \in Ids : mem'[id] = IF Cfg(num[t], id) = {} THEN 0 ELSE num[t]
  BY <1>1 DEF map
<1>3. CfgInv'
  <2>1. \A id \in Ids : mem'[id] # 0 => Cfg(mem'[id], id) # {}
    BY <1>2
  <2>2. QED
    BY <1>1, <1>2, <2>1, PlainCfg DEF AgreeInv
<1>4. PartInv'
  <2> SUFFICES ASSUME agree'
      PROVE  /\ \A u, v \in Threads : Writing(u)' /\ Writing(v)' => u = v
             /\ \A id \in Ids : db'[id] = Held(id)'
             /\ \A u \in Threads : ~Between(u)'
    BY DEF PartInv
  <2>0. solo[t] /\ Filling(t)
    BY <1>0, <1>1 DEF Filling
  <2>1. \A u \in Threads : Writing(u)' => u = t
    BY <1>1, <2>0 DEF AgreeInv, SoloInv, Writing
  <2>2. \A u \in Threads : ~Between(u)'
    <3>1. ~Between(t)'
      BY <1>1 DEF Between
    <3>2. QED
      BY <2>1, <3>1 DEF Between, Writing, Writers
  <2>3. ASSUME NEW id \in Ids PROVE db'[id] = Held(id)'
    <3>1. Cfg(num[t], id) = db[id]
      BY <2>0 DEF AgreeInv, FillInv
    <3>2. CASE Cfg(num[t], id) = {}
      <4>1. mem'[id] = 0
        BY <1>2, <3>2
      <4>2. QED
        BY <1>1, <3>1, <3>2, <4>1 DEF Held
    <3>3. CASE Cfg(num[t], id) # {}
      <4>1. mem'[id] = num[t] /\ num[t] # 0
        BY <1>1, <1>2, <3>3
      <4>2. QED
        BY <1>1, <3>1, <4>1 DEF Held, Cfg
    <3>4. QED
      BY <3>2, <3>3
  <2>4. QED
    BY <2>1, <2>2, <2>3
<1>5. QED
  BY <1>1, <1>3, <1>4 DEF AgreeInv

\* Close at shutdown empties the map; the table stays.
LEMMA AgreeShut ==
  ASSUME LockInv, AgreeInv, NEW t \in Threads, Step(t), ShutEnd(t)
  PROVE  AgreeInv'
<1>1. /\ Return(t) /\ mem' = [id \in Ids |-> 0] /\ agree' = FALSE
      /\ UNCHANGED <<db, objs, solo, ops>> /\ SameCfg
  BY DEF ShutEnd, SameCfg
<1>2. Others(t) /\ pc'[t] = "idle" /\ op'[t].name = "none"
  BY <1>1, Returns DEF LockInv
<1>3. GoesOn(t) /\ ~Filling(t)'
  BY <1>2 DEF GoesOn, Filling
<1>4. NumInv' /\ SoloInv' /\ FillInv'
  BY <1>1, <1>2, <1>3, PlainNum, PlainSolo, PlainFill DEF AgreeInv
<1>5. CfgInv'
  <2>1. mem' \in [Ids -> 0 .. MaxOps] /\ \A id \in Ids : mem'[id] = 0
    BY <1>1
  <2>2. QED
    BY <1>1, <1>2, <1>3, <2>1, PlainCfg DEF AgreeInv
<1>6. PartInv'
  BY <1>1 DEF PartInv
<1>7. QED
  BY <1>4, <1>5, <1>6 DEF AgreeInv

\* LoadAll's query makes an object for every row, out of nothing.
LEMMA AgreeQuery ==
  ASSUME LockInv, AgreeInv, NEW t \in Threads, Step(t), Query(t)
  PROVE  AgreeInv'
<1> DEFINE rows == {id \in Ids : db[id] # {}}
<1>0. /\ LocalTypes /\ GlobalTypes /\ Where(t) /\ Others(t) /\ pc[t] = "query"
      /\ UNCHANGED <<db, mem, ops>>
  BY Control DEF LockInv, Query, bounds
<1>1. op[t].name = "loadall" /\ num[t] \in 1 .. ops /\ ops \in 0 .. MaxOps
  BY <1>0 DEF Where, AgreeInv, NumInv, GlobalTypes
<1>2. CASE Return(t) /\ UNCHANGED <<objs, ghosts>>
  <2>1. SameCfg /\ UNCHANGED <<solo, agree>>
    BY <1>2 DEF SameCfg, ghosts
  <2>2. QED
    BY <1>0, <1>2, <2>1, PlainReturn
<1>3. CASE ~(Return(t) /\ UNCHANGED <<objs, ghosts>>)
  <2>1. PICK made \in SUBSET rows, b \in BOOLEAN : QueryMakes(t, made, b)
    BY <1>3, QueryObj
  <2> DEFINE new == {<<num[t], id>> : id \in made}
  <2>2. /\ UNCHANGED <<op, num>> /\ pc'[t] = "next"
        /\ agree' = (agree /\ made = rows)
        /\ solo'[t] = (solo[t] /\ made = rows) /\ \A u \in Threads \ {t} : solo'[u] = solo[u]
    BY <1>0, <2>1 DEF QueryMakes, Goto, LocalTypes, GlobalTypes
  <2>3. /\ \A o \in Objects : o \in new => objs'[o].cfg = db[o[2]]
        /\ \A o \in Objects : o \notin new => objs'[o] = objs[o]
    BY <2>1 DEF QueryMakes
  <2>4. ASSUME NEW n \in 1 .. MaxOps, NEW id \in Ids
        PROVE  objs'[<<n, id>>].cfg = IF n = num[t] /\ id \in made THEN db[id] ELSE Cfg(n, id)
    <3>1. <<n, id>> \in Objects
      BY DEF Objects
    <3>2. <<n, id>> \in new <=> n = num[t] /\ id \in made
      OBVIOUS
    <3>3. <<n, id>>[2] = id
      OBVIOUS
    <3> HIDE DEF new
    <3>4. QED
      BY <2>3, <3>1, <3>2, <3>3 DEF Cfg
  <2> HIDE DEF new, rows
  <2>5. \A id \in Ids : id \in rows <=> db[id] # {}
    BY DEF rows
  <2>6. made \subseteq rows
    OBVIOUS
  <2>7. ASSUME NEW u \in Threads, u # t, op[u].name # "none", NEW id \in Ids
        PROVE  num[u] \in 1 .. MaxOps /\ objs'[<<num[u], id>>].cfg = Cfg(num[u], id)
    <3>1. num[u] \in 1 .. ops /\ num[u] # num[t]
      BY <1>1, <2>7 DEF AgreeInv, NumInv
    <3>2. num[u] \in 1 .. MaxOps
      BY <1>1, <3>1
    <3>3. QED
      BY <2>4, <3>1, <3>2
  <2>8. ASSUME NEW id \in Ids, mem[id] # 0 PROVE objs'[<<mem[id], id>>].cfg = Cfg(mem[id], id)
    <3>1. mem[id] \in 1 .. MaxOps
      BY <1>0, <2>8 DEF GlobalTypes
    <3>2. mem[id] # num[t]
      BY <1>0, <2>8 DEF AgreeInv, NumInv, CfgInv
    <3>3. QED
      BY <2>4, <3>1, <3>2
  <2>9. NumInv'
    <3>1. \A u \in Threads : op'[u].name # "none" => num'[u] \in 1 .. ops'
      BY <1>0, <2>2 DEF AgreeInv, NumInv
    <3>2. \A u, v \in Threads :
            op'[u].name # "none" /\ op'[v].name # "none" /\ num'[u] = num'[v] => u = v
      BY <2>2 DEF AgreeInv, NumInv
    <3>3. ASSUME NEW n \in 1 .. MaxOps, NEW id \in Ids, n > ops' PROVE Cfg(n, id)' = {}
      <4>1. n # num[t] /\ n > ops
        BY <1>0, <1>1, <3>3
      <4>2. objs'[<<n, id>>].cfg = Cfg(n, id)
        BY <2>4, <4>1
      <4>3. QED
        BY <4>1, <4>2 DEF AgreeInv, NumInv, Cfg
    <3>4. ASSUME NEW u \in Threads, pc'[u] = "query", NEW id \in Ids PROVE Cfg(num[u], id)' = {}
      <4>1. u # t /\ pc[u] = "query" /\ num'[u] = num[u]
        BY <1>0, <2>2, <3>4 DEF Others
      <4>2. op[u].name # "none"
        BY <4>1 DEF LockInv, Where
      <4>3. objs'[<<num[u], id>>].cfg = Cfg(num[u], id)
        BY <2>7, <4>1, <4>2
      <4>4. QED
        BY <4>1, <4>3 DEF AgreeInv, NumInv, Cfg
    <3>5. QED
      BY <3>1, <3>2, <3>3, <3>4 DEF NumInv
  <2>10. CfgInv'
    <3>1. ASSUME NEW u \in Threads, op'[u].name = "add"
          PROVE  Cfg(num[u], op[u].id)' = {op'[u].cfg}
      <4>1. op[u].name = "add" /\ u # t /\ op'[u] = op[u] /\ num'[u] = num[u]
        BY <1>1, <2>2, <3>1
      <4>2. op[u].id \in Ids
        BY <1>0, <4>1, OpOf
      <4>3. objs'[<<num[u], op[u].id>>].cfg = Cfg(num[u], op[u].id)
        BY <2>7, <4>1, <4>2
      <4>4. QED
        BY <4>1, <4>3 DEF AgreeInv, CfgInv, Cfg
    <3>2. ASSUME NEW id \in Ids, mem[id] # 0 PROVE Cfg(mem[id], id)' # {}
      BY <1>0, <2>8, <3>2 DEF AgreeInv, CfgInv, Cfg
    <3>3. QED
      BY <1>0, <3>1, <3>2 DEF CfgInv
  <2>11. SoloInv'
    BY <1>0, <2>2, PlainSolo DEF AgreeInv, GoesOn
  <2>12. PartInv'
    <3> SUFFICES ASSUME agree'
        PROVE  /\ \A u, v \in Threads : Writing(u)' /\ Writing(v)' => u = v
               /\ \A id \in Ids : db'[id] = Held(id)'
               /\ \A u \in Threads : ~Between(u)'
      BY DEF PartInv
    <3>0. PartInv /\ agree /\ Writing(t) /\ ~Between(t)
      BY <1>0, <1>1, <2>2 DEF AgreeInv, Writing, Writers, Between
    <3>1. \A u, v \in Threads : Writing(u)' /\ Writing(v)' => u = v
      BY <2>2, <3>0 DEF PartInv, Writing
    <3>2. \A u \in Threads : ~Between(u)
      BY <3>0, OneBetween
    <3>3. \A u \in Threads : ~Between(u)'
      BY <1>0, <1>1, <2>2, <3>2 DEF Others, Between
    <3>4. ASSUME NEW id \in Ids PROVE db'[id] = Held(id)'
      <4>1. db[id] = Held(id)
        BY <3>0, <3>2 DEF PartInv
      <4>2. Held(id)' = Held(id)
        <5>1. CASE mem[id] = 0
          BY <1>0, <5>1 DEF Held
        <5>2. CASE mem[id] # 0
          BY <1>0, <2>8, <5>2 DEF Held, Cfg
        <5>3. QED
          BY <5>1, <5>2
      <4>3. QED
        BY <1>0, <4>1, <4>2
    <3>5. QED
      BY <3>1, <3>3, <3>4
  <2>13. FillInv'
    <3> SUFFICES ASSUME NEW u \in Threads, Filling(u)', solo'[u], NEW id \in Ids
                 PROVE  Cfg(num[u], id)' = db[id]
      BY <1>0 DEF FillInv
    <3>1. op[u].name = "loadall" /\ solo[u]
      BY <2>2 DEF Filling
    <3>2. u = t
      BY <1>1, <3>1 DEF AgreeInv, SoloInv, Writing, Writers
    <3>3. made = rows /\ num'[u] = num[t] /\ num[t] \in 1 .. MaxOps
      <4>1. solo'[t]
        BY <3>2
      <4>2. made = rows
        BY ONLY <2>2, <4>1
      <4>3. QED
        BY <1>1, <2>2, <3>2, <4>2
    <3>4. Cfg(num[t], id) = {}
      BY <1>0 DEF AgreeInv, NumInv
    <3>5. objs'[<<num[t], id>>].cfg = db[id]
      <4>1. CASE id \in made
        BY <2>4, <3>3, <4>1
      <4>2. CASE id \notin made
        <5>1. db[id] = {}
          BY <2>5, <3>3, <4>2
        <5>2. QED
          BY <2>4, <3>3, <3>4, <4>2, <5>1
      <4>3. QED
        BY <4>1, <4>2
    <3>6. QED
      BY <3>3, <3>5 DEF Cfg
  <2>14. QED
    BY <2>9, <2>10, <2>11, <2>12, <2>13 DEF AgreeInv
<1>4. QED
  BY <1>2, <1>3

\* An operation starts: it is neither between map and table nor past a query,
\* and the object of an AddSource is new.
LEMMA AgreeStart ==
  ASSUME LockInv, AgreeInv, NEW t \in Threads, NEW o \in Operations, Start(t, o)
  PROVE  AgreeInv'
<1> DEFINE k == ops + 1
<1>0. /\ LocalTypes /\ GlobalTypes /\ Where(t) /\ pc[t] = "idle" /\ UNCHANGED <<db, mem>>
      /\ ops \in 0 .. MaxOps
  BY DEF LockInv, Start, GlobalTypes
<1>1. /\ Others(t) /\ pc'[t] = Entry[o.name] /\ op'[t] = o /\ num'[t] = k /\ ops' = k
      /\ k \in 1 .. MaxOps /\ op[t].name = "none"
  BY <1>0, StartLocals DEF Where
<1>2. /\ o.name \in {"add", "remove", "loadall", "list", "cats", "get", "refresh", "shut"}
      /\ o.name = "add" => o.id \in Ids
  BY OpFields
<1>3. /\ o.name = "loadall" => pc'[t] = "query"
      /\ pc'[t] = "query" => o.name = "loadall"
      /\ o.name = "add" => pc'[t] = "insert"
      /\ o.name = "remove" => pc'[t] = "lock"
  BY <1>1, <1>2 DEF Entry
<1>4. \A u \in Threads : op[u].name # "none" => num[u] \in 1 .. ops /\ num[u] # k /\ num[u] \in 1 .. MaxOps
  BY <1>0 DEF AgreeInv, NumInv
<1>5. \A u \in Threads : u # t => op'[u] = op[u] /\ num'[u] = num[u] /\ pc'[u] = pc[u]
  BY <1>1 DEF Others
<1>6. ASSUME NEW n \in 1 .. MaxOps, NEW id \in Ids
      PROVE  objs'[<<n, id>>].cfg = IF o.name = "add" /\ n = k /\ id = o.id THEN {o.cfg} ELSE Cfg(n, id)
  <2>1. <<n, id>> \in Objects
    BY DEF Objects
  <2>2. <<n, id>> = <<ops + 1, o.id>> <=> n = k /\ id = o.id
    OBVIOUS
  <2>3. QED
    BY <2>1, <2>2, StartObj DEF Cfg
<1> HIDE DEF k
<1>7. \A id \in Ids : Cfg(k, id) = {}
  BY <1>0, <1>1 DEF AgreeInv, NumInv, k
<1>8. ASSUME NEW u \in Threads, u # t, op[u].name # "none", NEW id \in Ids
      PROVE  objs'[<<num[u], id>>].cfg = Cfg(num[u], id)
  BY <1>4, <1>6, <1>8
<1>9. ASSUME NEW id \in Ids, mem[id] # 0 PROVE objs'[<<mem[id], id>>].cfg = Cfg(mem[id], id)
  <2>1. mem[id] \in 1 .. MaxOps
    BY <1>0, <1>9 DEF GlobalTypes
  <2>2. mem[id] # k
    BY <1>7, <1>9 DEF AgreeInv, CfgInv
  <2>3. QED
    BY <1>6, <2>1, <2>2
<1>10. NumInv'
  <2>1. ASSUME NEW u \in Threads, op'[u].name # "none" PROVE num'[u] \in 1 .. ops'
    <3>1. CASE u = t
      BY <1>1, <3>1
    <3>2. CASE u # t
      <4>1. num'[u] \in 1 .. ops
        BY <1>4, <1>5, <2>1, <3>2
      <4>2. QED
        BY <1>0, <1>1, <4>1 DEF k
    <3>3. QED
      BY <3>1, <3>2
  <2>2. ASSUME NEW u \in Threads, NEW v \in Threads, op'[u].name # "none", op'[v].name # "none",
               num'[u] = num'[v]
        PROVE  u = v
    <3>1. CASE u # t /\ v # t
      BY <1>5, <2>2, <3>1 DEF AgreeInv, NumInv
    <3>2. CASE u = t \/ v = t
      BY <1>1, <1>4, <1>5, <2>2, <3>2
    <3>3. QED
      BY <3>1, <3>2
  <2>3. ASSUME NEW n \in 1 .. MaxOps, NEW id \in Ids, n > ops' PROVE Cfg(n, id)' = {}
    <3>1. n # k /\ n > ops
      BY <1>0, <1>1, <2>3 DEF k
    <3>2. objs'[<<n, id>>].cfg = Cfg(n, id)
      BY <1>6, <3>1
    <3>3. QED
      BY <3>1, <3>2 DEF AgreeInv, NumInv, Cfg
  <2>4. ASSUME NEW u \in Threads, pc'[u] = "query", NEW id \in Ids PROVE Cfg(num[u], id)' = {}
    <3>1. CASE u = t
      <4>1. o.name # "add"
        BY <1>3, <2>4, <3>1
      <4>2. QED
        BY <1>1, <1>6, <1>7, <3>1, <4>1 DEF Cfg
    <3>2. CASE u # t
      <4>1. pc[u] = "query" /\ num'[u] = num[u]
        BY <1>5, <2>4, <3>2
      <4>2. op[u].name # "none"
        BY <4>1 DEF LockInv, Where
      <4>3. QED
        BY <1>8, <3>2, <4>1, <4>2 DEF AgreeInv, NumInv, Cfg
    <3>3. QED
      BY <3>1, <3>2
  <2>5. QED
    BY <2>1, <2>2, <2>3, <2>4 DEF NumInv
<1>11. CfgInv'
  <2>1. ASSUME NEW u \in Threads, op'[u].name = "add"
        PROVE  Cfg(num[u], op[u].id)' = {op'[u].cfg}
    <3>1. CASE u = t
      BY <1>1, <1>2, <1>6, <2>1, <3>1 DEF Cfg
    <3>2. CASE u # t
      <4>1. op[u].name = "add" /\ op'[u] = op[u] /\ num'[u] = num[u]
        BY <1>5, <2>1, <3>2
      <4>2. op[u].id \in Ids
        BY <1>0, <4>1, OpOf
      <4>3. objs'[<<num[u], op[u].id>>].cfg = Cfg(num[u], op[u].id)
        BY <1>8, <3>2, <4>1, <4>2
      <4>4. QED
        BY <4>1, <4>3 DEF AgreeInv, CfgInv, Cfg
    <3>3. QED
      BY <3>1, <3>2
  <2>2. ASSUME NEW id \in Ids, mem[id] # 0 PROVE Cfg(mem[id], id)' # {}
    BY <1>0, <1>9, <2>2 DEF AgreeInv, CfgInv, Cfg
  <2>3. QED
    BY <1>0, <2>1, <2>2 DEF CfgInv
<1>12. /\ solo'[t] = (InFlight(Writers) = {})
       /\ \A u \in Threads : u # t /\ Writing(u) /\ solo'[u] => solo[u] /\ o.name \notin Writers
       /\ agree' => agree /\ (o.name \in Writers => InFlight(Writers) = {})
  BY DEF Start, InFlight, Writing
<1>13. \A u \in Threads : Writing(u) => u \in InFlight(Writers)
  BY DEF InFlight, Writing
<1>14. /\ Writing(t)' <=> o.name \in Writers
       /\ \A u \in Threads : u # t => (Writing(u)' <=> Writing(u))
  BY <1>1, <1>5 DEF Writing
<1>15. SoloInv'
  BY <1>12, <1>13, <1>14 DEF SoloInv, AgreeInv
<1>16. FillInv'
  <2> SUFFICES ASSUME NEW u \in Threads, Filling(u)', solo'[u], NEW id \in Ids
               PROVE  Cfg(num[u], id)' = db[id]
    BY <1>0 DEF FillInv
  <2>1. u # t
    BY <1>1, <1>3 DEF Filling
  <2>2. Filling(u) /\ Writing(u) /\ op[u].name # "none" /\ num'[u] = num[u]
    BY <1>5, <2>1 DEF Filling, Writing, Writers
  <2>3. solo[u]
    BY <1>12, <2>1, <2>2
  <2>4. QED
    BY <1>8, <2>1, <2>2, <2>3 DEF AgreeInv, FillInv, Cfg
<1>17. PartInv'
  <2> SUFFICES ASSUME agree'
      PROVE  /\ \A u, v \in Threads : Writing(u)' /\ Writing(v)' => u = v
             /\ \A id \in Ids : \/ db'[id] = Held(id)'
                                \/ \E u \in Threads : Between(u)' /\ op'[u].id = id
             /\ \A u \in Threads : Between(u)' /\ op'[u].name = "add" => db'[op'[u].id] = {op'[u].cfg}
             /\ \A u \in Threads : Between(u)' /\ op'[u].name = "remove" => mem'[op'[u].id] = 0
    BY DEF PartInv
  <2>0. PartInv /\ agree
    BY <1>12 DEF AgreeInv
  <2>1. \A u, v \in Threads : Writing(u)' /\ Writing(v)' => u = v
    BY <1>12, <1>13, <1>14, <2>0 DEF PartInv
  <2>2. ~Between(t) /\ ~Between(t)'
    BY <1>0, <1>1, <1>3 DEF Between
  <2>3. \A u \in Threads : Between(u)' => u # t /\ Between(u) /\ op'[u] = op[u]
    BY <1>5, <2>2 DEF Between
  <2>4. \A u \in Threads : Between(u) => Between(u)' /\ op'[u] = op[u]
    BY <1>5, <2>2 DEF Between
  <2>5. ASSUME NEW id \in Ids PROVE Held(id)' = Held(id)
    <3>1. CASE mem[id] = 0
      BY <1>0, <3>1 DEF Held
    <3>2. CASE mem[id] # 0
      BY <1>0, <1>9, <3>2 DEF Held, Cfg
    <3>3. QED
      BY <3>1, <3>2
  <2>6. ASSUME NEW id \in Ids
        PROVE  db'[id] = Held(id)' \/ \E u \in Threads : Between(u)' /\ op'[u].id = id
    <3>1. CASE db[id] = Held(id)
      BY <1>0, <2>5, <3>1
    <3>2. CASE db[id] # Held(id)
      <4>1. PICK u \in Threads : Between(u) /\ op[u].id = id
        BY <2>0, <3>2 DEF PartInv
      <4>2. QED
        BY <2>4, <4>1
    <3>3. QED
      BY <3>1, <3>2
  <2>7. ASSUME NEW u \in Threads, Between(u)'
        PROVE  /\ op'[u].name = "add" => db'[op'[u].id] = {op'[u].cfg}
               /\ op'[u].name = "remove" => mem'[op'[u].id] = 0
    BY <1>0, <2>0, <2>3, <2>7 DEF PartInv
  <2>8. QED
    BY <2>1, <2>6, <2>7
<1>18. QED
  BY <1>10, <1>11, <1>15, <1>16, <1>17 DEF AgreeInv

\* Every step keeps the invariant of map and table.
LEMMA AgreeStep ==
  ASSUME LockInv, AgreeInv, [Next]_vars
  PROVE  AgreeInv'
<1>1. ASSUME NEW t \in Threads, Step(t) PROVE AgreeInv'
  <2>1. CASE Insert(t) \/ Delete(t) \/ Query(t)
    BY <1>1, <2>1, AgreeInsert, AgreeDelete, AgreeQuery
  <2>2. CASE AddSwap(t) \/ RemoveSwap(t) \/ LoadAllSwap(t) \/ ShutEnd(t)
    BY <1>1, <2>2, AgreeAdd, AgreeRemove, AgreeLoadAll, AgreeShut
  <2>3. CASE NextLoad(t) \/ Lock(t) \/ Close(t) \/ CloseReader(t) \/ Closed(t) \/ ShutBegin(t)
    BY <1>1, <2>3, PlainMap
  <2>4. CASE \/ Info(t) \/ InfoCategories(t) \/ LoadLock(t) \/ LoadBegin(t) \/ LoadEnd(t)
             \/ Lookup(t) \/ RLock(t) \/ ListEach(t) \/ Scan(t) \/ Get(t) \/ Collect(t) \/ Pairs(t)
    BY <1>1, <2>4, PlainProvider
  <2>5. QED
    BY <1>1, <2>1, <2>2, <2>3, <2>4 DEF Step
<1>2. CASE UNCHANGED vars
  BY <1>2 DEF vars, AgreeInv, NumInv, CfgInv, SoloInv, PartInv, FillInv, Writing, Between, Filling,
              Held, Cfg
<1>3. QED
  BY <1>1, <1>2, AgreeStart DEF Next

\* It holds of the empty registry.
LEMMA AgreeInit == ASSUME Init PROVE AgreeInv
<1>1. /\ \A t \in Threads : op[t].name = "none" /\ pc[t] = "idle"
      /\ \A id \in Ids : db[id] = {} /\ mem[id] = 0
  BY IdleName DEF Init
<1>2. \A n \in 1 .. MaxOps, id \in Ids : Cfg(n, id) = {}
  BY DEF Init, Objects, Blank, Cfg
<1>3. NumInv /\ CfgInv
  BY <1>1, <1>2 DEF NumInv, CfgInv
<1>4. SoloInv /\ PartInv /\ FillInv
  BY <1>1 DEF SoloInv, PartInv, FillInv, Writing, Writers, Between, Filling, Held
<1>5. QED
  BY <1>3, <1>4 DEF AgreeInv

\* Locks, map and table together.
THEOREM MapAndTable == Spec => [](LockInv /\ AgreeInv)
<1>1. Init => LockInv /\ AgreeInv
  BY LockInit, AgreeInit
<1>2. LockInv /\ AgreeInv /\ [Next]_vars => LockInv' /\ AgreeInv'
  BY LockStep, AgreeStep
<1>3. QED
  BY <1>1, <1>2, PTL DEF Spec

\* For any number of goroutines, sources and operations: unless writers
\* overlapped or the table failed, map and table agree when no writer is under
\* way, and an undisturbed LoadAll makes them agree again (DBRegistry's
\* AddSource, RemoveSource and LoadAll).
THEOREM AgreementHolds == Spec => []Agreement
<1>1. LockInv /\ AgreeInv => Agreement
  <2> SUFFICES ASSUME AgreeInv, agree, InFlight(Writers) = {}, NEW id \in Ids
               PROVE  db[id] = IF mem[id] = 0 THEN {} ELSE objs[<<mem[id], id>>].cfg
    BY DEF Agreement
  <2>1. \A t \in Threads : ~Between(t)
    BY DEF InFlight, Between, Writers
  <2>2. db[id] = Held(id)
    BY <2>1 DEF AgreeInv, PartInv
  <2>3. QED
    BY <2>2 DEF Held, Cfg
<1>2. QED
  BY <1>1, MapAndTable, PTL

-----------------------------------------------------------------------------
(* Readers.  What every step, of a mutator or not, does to configurations    *)
(* and readers.                                                              *)

\* An object keeps the configuration it was given.
CfgGrows == \A o \in Objects : objs[o].cfg # {} => objs'[o].cfg = objs[o].cfg

\* No step takes or replaces a configuration that an object has.
LEMMA StepGrows ==
  ASSUME LockInv, AgreeInv, NEW t \in Threads, Step(t)
  PROVE  CfgGrows
<1>1. CASE pc[t] # "query"
  BY <1>1, StepCfg DEF SameCfg, CfgGrows
<1>2. CASE pc[t] = "query"
  <2>1. Query(t)
    <3>1. ~ \/ Insert(t) \/ Delete(t) \/ NextLoad(t) \/ Lock(t) \/ AddSwap(t) \/ RemoveSwap(t)
            \/ LoadAllSwap(t) \/ Close(t) \/ CloseReader(t) \/ Closed(t) \/ ShutBegin(t) \/ ShutEnd(t)
      BY <1>2 DEF Insert, Delete, NextLoad, Lock, AddSwap, RemoveSwap, LoadAllSwap, Swapped,
                  Close, CloseReader, Closed, ShutBegin, ShutEnd
    <3>2. ~ \/ Info(t) \/ InfoCategories(t) \/ LoadLock(t) \/ LoadBegin(t) \/ LoadEnd(t)
            \/ Lookup(t) \/ RLock(t) \/ ListEach(t) \/ Scan(t) \/ Get(t) \/ Collect(t) \/ Pairs(t)
      BY <1>2 DEF Info, InfoCategories, LoadLock, LoadBegin, LoadEnd, Lookup, RLock, ListEach, Scan,
                  Get, Collect, Pairs
    <3>3. QED
      BY <3>1, <3>2 DEF Step
  <2>2. CASE objs' = objs
    BY <2>2 DEF CfgGrows
  <2>3. CASE objs' # objs
    <3>1. PICK made \in SUBSET {id \in Ids : db[id] # {}}, b \in BOOLEAN : QueryMakes(t, made, b)
      BY <2>1, <2>3, QueryObj
    <3> SUFFICES ASSUME NEW o \in Objects, objs[o].cfg # {} PROVE objs'[o].cfg = objs[o].cfg
      BY DEF CfgGrows
    <3> DEFINE new == {<<num[t], id>> : id \in made}
    <3>2. o \notin new
      BY <1>2 DEF AgreeInv, NumInv, Cfg
    <3>3. o \notin new => objs'[o] = objs[o]
      BY <3>1 DEF QueryMakes
    <3>4. QED
      BY <3>2, <3>3
  <2>4. QED
    BY <2>2, <2>3
<1>3. QED
  BY <1>1, <1>2

\* Only a load opens a reader, and only Close closes one.
LEMMA StepReader ==
  ASSUME LockInv, NEW t \in Threads, Step(t), NEW o \in Objects
  PROVE  /\ pc[t] \notin {"closing", "loading"} => objs'[o].reader = objs[o].reader
         /\ objs'[o].reader = "open" /\ objs[o].reader # "open" =>
              pc[t] = "loading" /\ o = cur[t] /\ Provider(o) \in OpensReader
         /\ pc[t] = "closing" /\ objs'[o].reader = "open" => o # cur[t]
<1>1. CASE Close(t)
  BY <1>1, CloseObj DEF Close
<1>2. CASE CloseReader(t)
  <2>1. pc[t] = "closing"
    BY <1>2 DEF CloseReader
  <2>2. QED
    BY <1>2, <2>1, CloseReaderObj DEF ObjStep
<1>3. CASE Info(t) \/ InfoCategories(t)
  BY <1>3, InfoObj DEF Info, InfoCategories
<1>4. CASE LoadLock(t) \/ LoadBegin(t)
  BY <1>4, LoadLockObj DEF LoadLock, LoadBegin
<1>5. CASE LoadEnd(t)
  <2>1. pc[t] = "loading"
    BY <1>5 DEF LoadEnd
  <2>2. QED
    BY <1>5, <2>1, LoadEndObj
<1>6. CASE objs' = objs /\ pc[t] # "closing"
  BY <1>6
<1>7. CASE Query(t) /\ objs' # objs
  <2>1. PICK made \in SUBSET {id \in Ids : db[id] # {}}, b \in BOOLEAN : QueryMakes(t, made, b)
    BY <1>7, QueryObj
  <2>2. pc[t] = "query" /\ objs'[o].reader = objs[o].reader
    BY <1>7, <2>1 DEF Query, QueryMakes
  <2>3. QED
    BY <2>2
<1>8. QED
  <2>1. CASE \/ Insert(t) \/ Delete(t) \/ NextLoad(t) \/ Lock(t) \/ AddSwap(t) \/ RemoveSwap(t)
             \/ LoadAllSwap(t) \/ Closed(t) \/ ShutBegin(t) \/ ShutEnd(t)
    BY <1>6, <2>1 DEF Insert, Delete, NextLoad, Lock, AddSwap, RemoveSwap, LoadAllSwap, Swapped,
                      Closed, ShutBegin, ShutEnd
  <2>2. CASE Lookup(t) \/ RLock(t) \/ ListEach(t) \/ Scan(t) \/ Get(t) \/ Collect(t) \/ Pairs(t)
    BY <1>6, <2>2 DEF Lookup, RLock, ListEach, Scan, Get, Collect, Pairs
  <2>3. CASE Query(t)
    BY <1>6, <1>7, <2>3 DEF Query
  <2>4. QED
    BY <1>1, <1>2, <1>3, <1>4, <1>5, <2>1, <2>2, <2>3 DEF Step

\* A goroutine that goes on loading what it was loading.
LEMMA LoadsFrame ==
  ASSUME LockInv, CfgGrows, NEW t \in Threads, LoadsInv(t), op'[t] = op[t], num'[t] = num[t],
         cur'[t] = cur[t], pend'[t] \subseteq pend[t], pc'[t] \in Loads => pend'[t] = pend[t],
         pc'[t] \in Loads => pc[t] \in Loads, pc'[t] = "next" => pc[t] \in Loads \cup {"next"}
  PROVE  LoadsInv(t)'
<1>0. pend[t] \subseteq Objects /\ (pc[t] \in Loads => cur[t] \in Objects)
  BY DEF LockInv, LocalTypes, Busied, Loads
<1>1. op'[t].name \in {"add", "loadall", "refresh"} /\ pc'[t] \in Loads => objs'[cur'[t]].cfg # {}
  BY <1>0 DEF LoadsInv, CfgGrows
<1>2. ASSUME op'[t].name = "loadall", pc'[t] \in Loads \cup {"next"}, NEW o \in pend'[t]
      PROVE  o[1] = num'[t] /\ objs'[o].cfg # {}
  <2>1. o \in pend[t] /\ o \in Objects /\ pc[t] \in Loads \cup {"next"}
    BY <1>0, <1>2
  <2>2. o[1] = num[t] /\ objs[o].cfg # {}
    BY <1>2, <2>1 DEF LoadsInv
  <2>3. QED
    BY <2>1, <2>2 DEF CfgGrows
<1>3. op'[t].name = "loadall" /\ pc'[t] \in Loads => cur'[t] \in pend'[t]
  BY DEF LoadsInv
<1>4. QED
  BY <1>1, <1>2, <1>3 DEF LoadsInv

\* The goroutine that takes the step: where it comes to load something, that
\* exists.
LEMMA LoadsOwn ==
  ASSUME LockInv, AgreeInv, NEW t \in Threads, Step(t), CfgGrows, LoadsInv(t)
  PROVE  LoadsInv(t)'
<1>0. LocalTypes /\ GlobalTypes /\ Where(t) /\ Busied(t) /\ (Return(t) \/ UNCHANGED <<op, num>>)
  BY Control DEF LockInv
<1>1. CASE Return(t)
  <2>1. op'[t].name = "none"
    BY <1>0, <1>1, Returns
  <2>2. QED
    BY <2>1 DEF LoadsInv
<1>2. ASSUME ~Return(t), pc'[t] \notin Loads \cup {"next"} PROVE LoadsInv(t)'
  BY <1>2 DEF LoadsInv
<1>3. ASSUME ~Return(t), op[t].name \notin {"add", "loadall", "refresh"} PROVE LoadsInv(t)'
  BY <1>0, <1>3 DEF LoadsInv
<1>4. ASSUME ~Return(t) PROVE LoadsInv(t)'
  <2>0. UNCHANGED <<op, num>> /\ op'[t] = op[t] /\ num'[t] = num[t]
    BY <1>0, <1>4
  <2>1. CASE Insert(t) \/ Delete(t) \/ Lock(t)
    <3>1. pc'[t] \in {"lock", "close", "swap"}
      BY <1>0, <1>4, <2>1 DEF Insert, Delete, Lock, Goto, LocalTypes
    <3>2. QED
      BY <1>2, <1>4, <3>1 DEF Loads
  <2>2. CASE AddSwap(t) \/ RemoveSwap(t) \/ LoadAllSwap(t) \/ ShutBegin(t) \/ Close(t) \/ CloseReader(t)
    <3>1. pc'[t] \in {"close", "closing", "delete"}
      BY <1>0, <2>2 DEF AddSwap, RemoveSwap, LoadAllSwap, Swapped, ShutBegin, Close, CloseReader,
                        Goto, LocalTypes
    <3>2. QED
      BY <1>2, <1>4, <3>1 DEF Loads
  <2>3. CASE ShutEnd(t)
    BY <1>4, <2>3 DEF ShutEnd
  <2>4. CASE RLock(t) \/ ListEach(t) \/ Scan(t) \/ Get(t) \/ Collect(t) \/ Pairs(t)
    <3>1. op[t].name \in {"list", "cats", "get"}
      BY <1>0, <2>4 DEF RLock, ListEach, Scan, Get, Collect, Pairs, Where
    <3>2. QED
      BY <1>3, <1>4, <3>1
  <2>5. CASE Query(t)
    <3>1. PICK made \in SUBSET {id \in Ids : db[id] # {}}, b \in BOOLEAN : QueryMakes(t, made, b)
      BY <1>4, <2>5, QueryObj
    <3> DEFINE new == {<<num[t], id>> : id \in made}
    <3>2. /\ pc'[t] = "next" /\ pend'[t] = new
          /\ \A o \in Objects : o \in new => objs'[o].cfg = db[o[2]]
      BY <1>0, <3>1 DEF QueryMakes, Goto, LocalTypes
    <3>3. num[t] \in 1 .. MaxOps
      BY <1>0, <2>5 DEF Query, Busied, LocalTypes
    <3>4. ASSUME NEW o \in new PROVE o[1] = num[t] /\ objs'[o].cfg # {}
      <4>1. PICK id \in made : o = <<num[t], id>>
        OBVIOUS
      <4>2. o \in Objects /\ o[1] = num[t] /\ o[2] = id /\ db[id] # {}
        BY <3>3, <4>1 DEF Objects
      <4> HIDE DEF new
      <4>3. objs'[o].cfg = db[id]
        BY <3>2, <4>2
      <4>4. QED
        BY <4>2, <4>3
    <3> HIDE DEF new
    <3>5. QED
      BY <2>0, <3>2, <3>4 DEF LoadsInv, Loads
  <2>6. CASE NextLoad(t)
    <3>1. CASE pc'[t] = "lock"
      BY <1>2, <1>4, <3>1 DEF Loads
    <3>2. CASE pc'[t] # "lock"
      <4>1. PICK o \in pend[t] : Visit(t, o) /\ Goto(t, "info") /\ pend' = pend
        BY <1>0, <1>4, <2>6, <3>2 DEF NextLoad, Goto, LocalTypes
      <4>2. pc[t] = "next" /\ op[t].name = "loadall" /\ pc'[t] = "info" /\ cur'[t] = o /\ o \in Objects
        BY <1>0, <2>6, <4>1 DEF NextLoad, Where, Goto, Visit, LocalTypes
      <4>3. /\ \A x \in pend[t] : x[1] = num[t] /\ objs[x].cfg # {}
            /\ pend[t] \subseteq Objects
        BY <1>0, <4>2 DEF LoadsInv, LocalTypes
      <4>4. \A x \in pend[t] : objs'[x].cfg # {}
        BY <4>3 DEF CfgGrows
      <4>5. QED
        BY <2>0, <4>1, <4>2, <4>3, <4>4 DEF LoadsInv
    <3>3. QED
      BY <3>1, <3>2
  <2>7. CASE Closed(t) \/ Lookup(t)
    <3>1. PICK o \in Objects : /\ cur'[t] = o /\ objs[o].cfg # {} /\ op[t].name \in {"add", "refresh"}
      <4>1. CASE Closed(t)
        <5>1. op[t].name = "add" /\ cur'[t] = <<num[t], op[t].id>>
          BY <1>0, <1>4, <4>1 DEF Closed, Visit, LocalTypes
        <5>2. op[t].id \in Ids
          BY <1>0, <5>1, OpOf
        <5>3. <<num[t], op[t].id>> \in Objects
          BY <5>1, <5>2, Numbered DEF AgreeInv
        <5>4. Cfg(num[t], op[t].id) = {op[t].cfg}
          BY <5>1 DEF AgreeInv, CfgInv
        <5>5. QED
          BY <5>1, <5>3, <5>4 DEF Cfg
      <4>2. CASE Lookup(t)
        <5>1. /\ op[t].name = "refresh" /\ mem[op[t].id] # 0
              /\ cur'[t] = <<mem[op[t].id], op[t].id>>
          BY <1>0, <1>4, <4>2 DEF Lookup, Visit, LocalTypes, Where
        <5>2. op[t].id \in Ids
          BY <1>0, <5>1, OpOf
        <5>3. <<mem[op[t].id], op[t].id>> \in Objects
          BY <1>0, <5>1, <5>2, LiveObjects
        <5>4. QED
          BY <5>1, <5>2, <5>3 DEF AgreeInv, CfgInv, Cfg
      <4>3. QED
        BY <2>7, <4>1, <4>2
    <3>2. objs'[o].cfg # {}
      BY <3>1 DEF CfgGrows
    <3>3. QED
      BY <2>0, <3>1, <3>2 DEF LoadsInv
  <2>8. CASE Info(t) \/ InfoCategories(t)
    <3>1. CASE op[t].name \notin {"add", "loadall", "refresh"}
      BY <1>3, <1>4, <3>1
    <3>2. CASE op[t].name \in {"add", "loadall", "refresh"}
      <4>1. pc[t] \in Loads /\ pc'[t] \in Loads /\ UNCHANGED locals
        BY <1>0, <1>4, <2>8, <3>2 DEF Info, InfoCategories, AfterInfo, Goto, LocalTypes, Loads
      <4>2. cur'[t] = cur[t] /\ pend'[t] = pend[t] /\ pc'[t] # "next"
        BY <4>1 DEF locals, Loads
      <4>3. QED
        BY <2>0, <4>1, <4>2, LoadsFrame
    <3>3. QED
      BY <3>1, <3>2
  <2>9. CASE LoadLock(t) \/ LoadBegin(t)
    <3>1. pc[t] \in Loads /\ pc'[t] \in Loads /\ UNCHANGED locals
      BY <1>0, <2>9 DEF LoadLock, LoadBegin, Goto, LocalTypes, Loads
    <3>2. cur'[t] = cur[t] /\ pend'[t] = pend[t] /\ pc'[t] # "next"
      BY <3>1 DEF locals, Loads
    <3>3. QED
      BY <2>0, <3>1, <3>2, LoadsFrame
  <2>10. CASE LoadEnd(t)
    <3>1. /\ pc[t] \in Loads /\ cur'[t] = cur[t] /\ pend'[t] \subseteq pend[t]
          /\ pc'[t] \in {"next", "info"} /\ (pc'[t] = "info" => pend'[t] = pend[t])
      BY <1>0, <1>4, <2>10 DEF LoadEnd, AfterLoad, Goto, LocalTypes, Loads, Leave, locals
    <3>2. pc'[t] \in Loads => pend'[t] = pend[t]
      BY <3>1 DEF Loads
    <3>3. QED
      BY <2>0, <3>1, <3>2, LoadsFrame
  <2>11. QED
    BY <2>1, <2>2, <2>3, <2>4, <2>5, <2>6, <2>7, <2>8, <2>9, <2>10 DEF Step
<1>5. QED
  BY <1>1, <1>4

\* A step keeps what is open and what is loaded known.
LEMMA DataStep ==
  ASSUME LockInv, AgreeInv, DataInv, NEW t \in Threads, Step(t)
  PROVE  DataInv'
<1>0. CfgGrows /\ Others(t) /\ Where(t)
  BY StepGrows, Control DEF LockInv
<1>1. ASSUME NEW o \in Objects, objs'[o].reader = "open"
      PROVE  objs'[o].cfg # {} /\ Provider(o)' \in OpensReader
  <2>1. objs[o].cfg # {} /\ Provider(o) \in OpensReader
    <3>1. CASE objs[o].reader = "open"
      BY <3>1 DEF DataInv, OpenInv
    <3>2. CASE objs[o].reader # "open"
      <4>1. pc[t] = "loading" /\ o = cur[t] /\ Provider(o) \in OpensReader
        BY <1>1, <3>2, StepReader
      <4>2. op[t].name \in {"add", "loadall", "refresh"}
        BY <1>0, <4>1 DEF Where
      <4>3. objs[o].cfg # {}
        BY <4>1, <4>2 DEF DataInv, LoadsInv, Loads
      <4>4. QED
        BY <4>1, <4>3
    <3>3. QED
      BY <3>1, <3>2
  <2>2. objs'[o].cfg = objs[o].cfg
    BY <1>0, <2>1 DEF CfgGrows
  <2>3. QED
    BY <2>1, <2>2 DEF Provider
<1>2. LoadsInv(t)'
  BY <1>0, LoadsOwn DEF DataInv
<1>3. ASSUME NEW u \in Threads, u # t PROVE LoadsInv(u)'
  <2>1. /\ op'[u] = op[u] /\ num'[u] = num[u] /\ cur'[u] = cur[u] /\ pend'[u] = pend[u]
        /\ pc'[u] = pc[u]
    BY <1>0, <1>3 DEF Others
  <2>2. LoadsInv(u) /\ "next" \notin Loads
    BY DEF DataInv, Loads
  <2>3. QED
    BY <1>0, <2>1, <2>2, LoadsFrame
<1>4. QED
  BY <1>1, <1>2, <1>3 DEF DataInv, OpenInv

\* The object of a new AddSource was blank.
LEMMA StartGrows ==
  ASSUME LockInv, AgreeInv, NEW t \in Threads, NEW o \in Operations, Start(t, o)
  PROVE  CfgGrows
<1> SUFFICES ASSUME NEW x \in Objects, objs[x].cfg # {} PROVE objs'[x].cfg = objs[x].cfg
  BY DEF CfgGrows
<1>1. ops \in 0 .. MaxOps /\ ops + 1 \in 1 .. MaxOps /\ ops + 1 > ops
  BY StartLocals DEF LockInv, GlobalTypes
<1>2. x = <<x[1], x[2]>> /\ x[2] \in Ids
  BY DEF Objects
<1>3. x[1] # ops + 1
  BY <1>1, <1>2 DEF AgreeInv, NumInv, Cfg
<1>4. ~(o.name = "add" /\ x = <<ops + 1, o.id>>)
  BY <1>2, <1>3
<1>5. QED
  BY <1>4, StartObj

\* An operation that starts loads nothing yet.
LEMMA DataStart ==
  ASSUME LockInv, AgreeInv, DataInv, NEW t \in Threads, NEW o \in Operations, Start(t, o)
  PROVE  DataInv'
<1>0. CfgGrows /\ Others(t) /\ pc'[t] = Entry[o.name]
  BY StartGrows, StartLocals
<1>1. ASSUME NEW x \in Objects, objs'[x].reader = "open"
      PROVE  objs'[x].cfg # {} /\ Provider(x)' \in OpensReader
  <2>1. objs[x].reader = "open"
    BY <1>1, StartObj
  <2>2. objs[x].cfg # {} /\ Provider(x) \in OpensReader
    BY <2>1 DEF DataInv, OpenInv
  <2>3. objs'[x].cfg = objs[x].cfg
    BY <1>0, <2>2 DEF CfgGrows
  <2>4. QED
    BY <2>2, <2>3 DEF Provider
<1>2. LoadsInv(t)'
  <2>1. o.name \in {"add", "remove", "loadall", "list", "cats", "get", "refresh", "shut"}
    BY OpFields
  <2>2. pc'[t] \notin Loads \cup {"next"}
    BY <1>0, <2>1 DEF Entry, Loads
  <2>3. QED
    BY <2>2 DEF LoadsInv
<1>3. ASSUME NEW u \in Threads, u # t PROVE LoadsInv(u)'
  <2>1. /\ op'[u] = op[u] /\ num'[u] = num[u] /\ cur'[u] = cur[u] /\ pend'[u] = pend[u]
        /\ pc'[u] = pc[u]
    BY <1>0, <1>3 DEF Others
  <2>2. LoadsInv(u) /\ "next" \notin Loads
    BY DEF DataInv, Loads
  <2>3. QED
    BY <1>0, <2>1, <2>2, LoadsFrame
<1>4. QED
  BY <1>1, <1>2, <1>3 DEF DataInv, OpenInv

-----------------------------------------------------------------------------
(* As long as nothing overlaps or fails *)

\* Whether an object is in the map, before and after a step.
LEMMA LiveNow ==
  ASSUME NEW o \in Objects
  PROVE  /\ o \in Live <=> mem[o[2]] = o[1]
         /\ o \in Live' <=> mem'[o[2]] = o[1]
<1>1. o = <<o[1], o[2]>> /\ o[1] \in 1 .. MaxOps /\ o[2] \in Ids /\ o[1] # 0
  BY DEF Objects
<1>2. o \in Live <=> mem[o[2]] = o[1]
  BY <1>1 DEF Live
<1>3. o \in Live' <=> mem'[o[2]] = o[1]
  BY <1>1 DEF Live
<1>4. QED
  BY <1>2, <1>3

\* A step of another goroutine that leaves map and readers alone.
LEMMA MineFrame ==
  ASSUME LockInv, CfgGrows, NEW t \in Threads, Others(t), NEW u \in Threads, u # t, Mine(u),
         mem' = mem, \A o \in Objects : objs'[o].reader = objs[o].reader
  PROVE  Mine(u)'
<1>1. /\ pc'[u] = pc[u] /\ op'[u] = op[u] /\ num'[u] = num[u] /\ cur'[u] = cur[u]
      /\ pend'[u] = pend[u] /\ broken'[u] = broken[u]
  BY DEF Others
<1>2. Live' = Live
  BY DEF Live
<1>3. ASSUME NEW o \in Objects, Keeps(u, o) PROVE Keeps(u, o)'
  BY <1>1, <1>3 DEF Keeps, Filling, CfgGrows
<1>4. \A o \in Objects : objs'[o].reader = "open" => o \in Live' \/ Keeps(u, o)'
  BY <1>2, <1>3 DEF Mine
<1>5. QED
  BY <1>1, <1>2, <1>4 DEF Mine

\* The mutator goes on: what it has to do stays its to do.
LEMMA MineGo ==
  ASSUME NEW t \in Threads, Mine(t), mem' = mem, op'[t] = op[t], num'[t] = num[t],
         \A o \in Objects : objs'[o].reader = "open" => o \in Live \/ Keeps(t, o)',
         op[t].name = "loadall" /\ pc'[t] # "query" => ~broken'[t],
         pc'[t] \in {"close", "closing"} => op[t].name \notin {"shut", "add"},
         op[t].name \in {"add", "refresh"} /\ pc'[t] \in Loads => cur'[t] \in Live
  PROVE  Mine(t)'
<1>1. Live' = Live
  BY DEF Live
<1>2. QED
  BY <1>1 DEF Mine

\* Operations that only read leave map and readers alone.
LEMMA ReaderStep ==
  ASSUME LockInv, NEW t \in Threads, Step(t), ~Mutating(t)
  PROVE  /\ mem' = mem /\ calm' = calm /\ (op'[t].name = op[t].name \/ op'[t].name = "none")
         /\ \A o \in Objects : objs'[o].reader = objs[o].reader
<1>0. LocalTypes /\ Where(t) /\ (Return(t) \/ UNCHANGED <<op, num>>)
  BY Control DEF LockInv
<1>1. pc[t] \notin {"insert", "delete", "query", "next", "lock", "swap", "close", "closing", "load",
                    "locked", "loading", "lookup"}
  BY <1>0 DEF Where, Mutating, Mutators, Writers
<1>2. \/ Info(t) \/ InfoCategories(t) \/ RLock(t) \/ ListEach(t) \/ Scan(t) \/ Get(t) \/ Collect(t)
      \/ Pairs(t)
  <2>1. ~ \/ Insert(t) \/ Delete(t) \/ Query(t) \/ NextLoad(t) \/ Lock(t) \/ AddSwap(t)
          \/ RemoveSwap(t) \/ LoadAllSwap(t) \/ Close(t) \/ CloseReader(t) \/ Closed(t)
          \/ ShutBegin(t) \/ ShutEnd(t) \/ LoadLock(t) \/ LoadBegin(t) \/ LoadEnd(t) \/ Lookup(t)
    BY <1>1 DEF Insert, Delete, Query, NextLoad, Lock, AddSwap, RemoveSwap, LoadAllSwap, Swapped, Close,
                CloseReader, Closed, ShutBegin, ShutEnd, LoadLock, LoadBegin, LoadEnd, Lookup
  <2>2. QED
    BY <2>1 DEF Step
<1>3. mem' = mem /\ calm' = calm
  BY <1>2 DEF Info, InfoCategories, RLock, ListEach, Scan, Get, Collect, Pairs, ghosts
<1>4. op'[t].name = op[t].name \/ op'[t].name = "none"
  BY <1>0, Returns
<1>5. QED
  BY <1>1, <1>3, <1>4, StepReader

\* Every open reader is in the map after the step.
Settled == \A o \in Objects : objs'[o].reader = "open" => o \in Live'

\* The mutator is done, and had nothing left to close or to bring in.
LEMMA MineReturn ==
  ASSUME NEW t \in Threads, Mine(t), mem' = mem,
         \A o \in Objects : objs'[o].reader = "open" => objs[o].reader = "open" \/ o \in Live,
         \A o \in Objects : objs'[o].reader = "open" => ~Keeps(t, o)
  PROVE  Settled
<1>1. Live' = Live
  BY DEF Live
<1>2. QED
  BY <1>1 DEF Settled, Mine

\* Steps of the table.
LEMMA MineTable ==
  ASSUME LockInv, AgreeInv, DataInv, NEW t \in Threads, Step(t), Mine(t), calm',
         Insert(t) \/ Delete(t) \/ Query(t) \/ NextLoad(t)
  PROVE  IF Return(t) THEN Settled ELSE Mine(t)'
<1>0. LocalTypes /\ Where(t) /\ CfgGrows /\ (Return(t) \/ UNCHANGED <<op, num>>)
  BY Control, StepGrows DEF LockInv
<1>1. pc[t] \in {"insert", "delete", "query", "next"} /\ mem' = mem
  BY DEF Insert, Delete, Query, NextLoad
<1>2. \A o \in Objects : objs'[o].reader = objs[o].reader
  BY <1>1, StepReader
<1>3. CASE pc[t] \in {"insert", "query"}
  <2>1. \A o \in Objects : ~Keeps(t, o)
    BY <1>0, <1>3 DEF Keeps, Filling, Where
  <2>2. CASE Return(t)
    BY <1>1, <1>2, <2>1, <2>2, MineReturn
  <2>3. CASE ~Return(t)
    <3>1. op'[t] = op[t] /\ num'[t] = num[t]
      BY <1>0, <2>3
    <3>2. \A o \in Objects : objs'[o].reader = "open" => o \in Live
      BY <1>2, <2>1 DEF Mine
    <3>3. pc'[t] \in {"lock", "next"}
      BY <1>0, <1>3, <2>3 DEF Insert, Delete, Query, NextLoad, Goto, LocalTypes
    <3>4. op[t].name = "loadall" => ~broken'[t]
      <4>1. CASE Query(t)
        <5>1. PICK made \in SUBSET {id \in Ids : db[id] # {}}, b \in BOOLEAN : QueryMakes(t, made, b)
          BY <2>3, <4>1, QueryObj
        <5>2. broken'[t] = b /\ calm' = (calm /\ ~b)
          BY <1>0, <5>1 DEF QueryMakes, LocalTypes
        <5>3. ~b
          BY <5>2
        <5>4. QED
          BY <5>2, <5>3
      <4>2. CASE ~Query(t)
        <5>1. Insert(t)
          BY <1>3, <4>2 DEF Delete, NextLoad
        <5>2. QED
          BY <1>0, <5>1 DEF Insert, Where
      <4>3. QED
        BY <4>1, <4>2
    <3>5. QED
      BY <1>1, <2>3, <3>1, <3>2, <3>3, <3>4, MineGo DEF Loads
  <2>4. QED
    BY <2>2, <2>3
<1>4. CASE pc[t] = "delete"
  <2>1. Delete(t) /\ op[t].name = "remove"
    BY <1>0, <1>4 DEF Insert, Query, NextLoad, Where
  <2>2. ~Return(t) /\ pc'[t] = "close" /\ UNCHANGED locals
    <3>1. Goto(t, "close") /\ UNCHANGED locals
      BY <2>1 DEF Delete
    <3>2. pc'[t] = "close"
      BY <1>0, <3>1 DEF Goto, LocalTypes
    <3>3. QED
      BY <1>0, <3>1, <3>2, Returns
  <2>3. op'[t] = op[t] /\ num'[t] = num[t] /\ pend'[t] = pend[t]
    BY <2>2 DEF locals
  <2>4. \A o \in Objects : Keeps(t, o) => Keeps(t, o)'
    BY <1>4, <2>1, <2>2, <2>3 DEF Keeps, Filling
  <2>5. \A o \in Objects : objs'[o].reader = "open" => o \in Live \/ Keeps(t, o)'
    BY <1>2, <2>4 DEF Mine
  <2>6. pc'[t] \notin Loads
    BY <2>2 DEF Loads
  <2>7. QED
    BY <1>1, <2>1, <2>2, <2>3, <2>5, <2>6, MineGo
<1>5. CASE pc[t] = "next"
  <2>1. NextLoad(t) /\ op[t].name = "loadall" /\ ~broken[t]
    BY <1>0, <1>5 DEF Insert, Query, Delete, Where, Mine
  <2>2. /\ pc'[t] \in {"info", "lock"} /\ op'[t] = op[t] /\ num'[t] = num[t] /\ broken'[t] = broken[t]
    BY <1>0, <2>1 DEF NextLoad, Goto, LocalTypes, locals
  <2>3. ~Return(t)
    BY <1>0, <2>2, Returns
  <2>4. \A o \in Objects : Keeps(t, o) => Keeps(t, o)'
    BY <1>0, <1>5, <2>1, <2>2 DEF Keeps, Filling, CfgGrows
  <2>5. \A o \in Objects : objs'[o].reader = "open" => o \in Live \/ Keeps(t, o)'
    BY <1>2, <2>4 DEF Mine
  <2>6. QED
    BY <1>1, <2>1, <2>2, <2>3, <2>5, MineGo
<1>6. QED
  BY <1>1, <1>3, <1>4, <1>5

\* The three changes of the map: what leaves it is now to be closed.
LEMMA MineSwap ==
  ASSUME LockInv, AgreeInv, DataInv, NEW t \in Threads, Step(t), Mine(t),
         NEW name \in Writers, NEW map, NEW l \in {"close", "delete"}, Swapped(t, name, map, l),
         name = "loadall" => /\ \A id \in Ids : map[id] = IF Cfg(num[t], id) = {} THEN 0 ELSE num[t]
                             /\ l = "close",
         name = "add" => map[op[t].id] = num[t]
  PROVE  Mine(t)' /\ ~Return(t)
<1>0. LocalTypes /\ Others(t)
  BY Control DEF LockInv
<1> DEFINE S == {o \in Live : map[o[2]] # o[1]}
<1>1. /\ pc[t] = "swap" /\ op[t].name = name /\ mem' = map /\ pend' = [pend EXCEPT ![t] = S]
      /\ Goto(t, l) /\ UNCHANGED <<objs, op, num, cur, broken>>
  BY DEF Swapped
<1>2. pc'[t] = l /\ pend'[t] = S /\ op'[t] = op[t] /\ num'[t] = num[t] /\ broken'[t] = broken[t]
  BY <1>0, <1>1 DEF Goto, LocalTypes
<1>3. ~Return(t)
  BY <1>0, <1>2, Returns
<1>4. ASSUME NEW o \in Objects, objs'[o].reader = "open" PROVE o \in Live' \/ Keeps(t, o)'
  <2>0. objs[o].reader = "open"
    BY <1>1, <1>4
  <2>1. o \in Live \/ Keeps(t, o)
    BY <2>0 DEF Mine
  <2>2. CASE o \in Live
    <3>1. CASE map[o[2]] = o[1]
      BY <1>1, <3>1, LiveNow
    <3>2. CASE map[o[2]] # o[1]
      <4>1. o \in pend'[t]
        BY <1>2, <2>2, <3>2
      <4>2. QED
        BY <1>2, <4>1 DEF Keeps
    <3>3. QED
      BY <3>1, <3>2
  <2>3. CASE Keeps(t, o)
    <3>1. name = "loadall" /\ o[1] = num[t] /\ objs[o].cfg # {}
      BY <1>1, <2>3 DEF Keeps, Filling
    <3>2. o = <<o[1], o[2]>> /\ o[2] \in Ids
      BY DEF Objects
    <3>3. Cfg(num[t], o[2]) # {}
      BY <3>1, <3>2 DEF Cfg
    <3>4. map[o[2]] = o[1]
      BY <3>1, <3>2, <3>3
    <3>5. QED
      BY <1>1, <3>4, LiveNow
  <2>4. QED
    BY <2>1, <2>2, <2>3
<1> HIDE DEF S
<1>5. op'[t].name = "loadall" => ~broken'[t]
  BY <1>1, <1>2 DEF Mine
<1>6. op'[t].name # "shut" /\ pc'[t] \notin Loads
  BY <1>1, <1>2 DEF Writers, Loads
<1>7. op'[t].name = "add" => mem'[op'[t].id] = num'[t]
  BY <1>1, <1>2
<1>8. QED
  BY <1>3, <1>4, <1>5, <1>6, <1>7 DEF Mine

\* The registry's lock, the map, and the beginning and end of the shutdown.
LEMMA MineMap ==
  ASSUME LockInv, AgreeInv, DataInv, NEW t \in Threads, Step(t), Mine(t),
         \/ Lock(t) \/ AddSwap(t) \/ RemoveSwap(t) \/ LoadAllSwap(t) \/ ShutBegin(t) \/ ShutEnd(t)
  PROVE  IF Return(t) THEN Settled ELSE Mine(t)'
<1>0. LocalTypes /\ GlobalTypes /\ Where(t) /\ Others(t)
  BY Control DEF LockInv
<1>1. CASE Lock(t)
  <2>1. /\ pc[t] = "lock" /\ Goto(t, "swap") /\ UNCHANGED locals /\ UNCHANGED <<mem, objs>>
    BY <1>1 DEF Lock
  <2>2. /\ pc'[t] = "swap" /\ op'[t] = op[t] /\ num'[t] = num[t] /\ broken'[t] = broken[t]
    BY <1>0, <2>1 DEF Goto, LocalTypes, locals
  <2>3. ~Return(t)
    BY <1>0, <2>2, Returns
  <2>4. \A o \in Objects : Keeps(t, o) => Keeps(t, o)'
    BY <2>1, <2>2 DEF Keeps, Filling
  <2>5. \A o \in Objects : objs'[o].reader = "open" => o \in Live \/ Keeps(t, o)'
    BY <2>1, <2>4 DEF Mine
  <2>6. op[t].name = "loadall" => ~broken'[t]
    BY <2>1, <2>2 DEF Mine
  <2>7. pc'[t] \notin Loads
    BY <2>2 DEF Loads
  <2>8. QED
    BY <2>1, <2>2, <2>3, <2>5, <2>6, <2>7, MineGo
<1>2. CASE AddSwap(t)
  <2> DEFINE map == [mem EXCEPT ![op[t].id] = num[t]]
  <2>1. Swapped(t, "add", map, "close") /\ "add" \in Writers
    BY <1>2 DEF AddSwap, Writers
  <2>2. map[op[t].id] = num[t]
    <3>1. op[t].id \in Ids
      BY <1>0, <2>1, OpOf DEF Swapped
    <3>2. QED
      BY <1>0, <3>1 DEF GlobalTypes
  <2> HIDE DEF map
  <2>3. QED
    BY <2>1, <2>2, MineSwap
<1>3. CASE RemoveSwap(t)
  <2>1. Swapped(t, "remove", [mem EXCEPT ![op[t].id] = 0], "delete") /\ "remove" \in Writers
    BY <1>3 DEF RemoveSwap, Writers
  <2>2. QED
    BY <2>1, MineSwap
<1>4. CASE LoadAllSwap(t)
  <2> DEFINE map == [id \in Ids |-> IF Cfg(num[t], id) = {} THEN 0 ELSE num[t]]
  <2>1. Swapped(t, "loadall", map, "close") /\ "loadall" \in Writers
    BY <1>4 DEF LoadAllSwap, Writers, Cfg
  <2>2. \A id \in Ids : map[id] = IF Cfg(num[t], id) = {} THEN 0 ELSE num[t]
    OBVIOUS
  <2> HIDE DEF map
  <2>3. QED
    BY <2>1, <2>2, MineSwap
<1>5. CASE ShutBegin(t)
  <2>1. /\ pc[t] = "swap" /\ op[t].name = "shut" /\ pend' = [pend EXCEPT ![t] = Live]
        /\ Goto(t, "close") /\ UNCHANGED <<mem, objs, op, num>>
    BY <1>5 DEF ShutBegin
  <2>2. pc'[t] = "close" /\ op'[t] = op[t] /\ pend'[t] = Live /\ Live' = Live
    BY <1>0, <2>1 DEF Goto, LocalTypes, Live
  <2>3. ~Return(t)
    BY <1>0, <2>2, Returns
  <2>4. \A o \in Objects : ~Keeps(t, o)
    BY <2>1 DEF Keeps, Filling
  <2>5. \A o \in Objects : objs'[o].reader = "open" => o \in Live
    BY <2>1, <2>4 DEF Mine
  <2>6. QED
    BY <2>1, <2>2, <2>3, <2>5 DEF Mine, Loads
<1>6. CASE ShutEnd(t)
  <2>1. pc[t] = "close" /\ op[t].name = "shut" /\ pend[t] = {} /\ objs' = objs /\ Return(t)
    BY <1>6 DEF ShutEnd
  <2>2. \A o \in Objects : objs'[o].reader # "open"
    BY <2>1 DEF Mine
  <2>3. QED
    BY <2>1, <2>2 DEF Settled
<1>7. QED
  BY <1>1, <1>2, <1>3, <1>4, <1>5, <1>6

\* Closing what was taken out.
LEMMA MineClose ==
  ASSUME LockInv, AgreeInv, DataInv, NEW t \in Threads, Step(t), Mine(t),
         Close(t) \/ CloseReader(t) \/ Closed(t)
  PROVE  IF Return(t) THEN Settled ELSE Mine(t)'
<1>0. LocalTypes /\ GlobalTypes /\ Where(t) /\ Busied(t) /\ Others(t) /\ mem' = mem
  BY Control DEF LockInv, Close, CloseReader, Closed
<1>1. CASE Close(t) \/ CloseReader(t)
  <2>0. UNCHANGED <<op, num, broken>>
    BY <1>1 DEF Close, CloseReader
  <2>1. /\ pc[t] \in {"close", "closing"} /\ pc'[t] \in {"close", "closing"}
        /\ op'[t] = op[t] /\ num'[t] = num[t] /\ broken'[t] = broken[t]
    BY <1>0, <1>1, <2>0 DEF Close, CloseReader, Goto, LocalTypes
  <2>2. ~Return(t)
    BY <1>0, <2>1, Returns
  \* What leaves the list has no open reader any more.
  <2>3. ASSUME NEW o \in Objects, objs'[o].reader = "open"
        PROVE  objs[o].reader = "open" /\ (o \in pend[t] => o \in pend'[t])
    <3>1. CASE Close(t)
      <4>1. pc[t] = "close"
        BY <3>1 DEF Close
      <4>2. objs[o].reader = "open"
        BY <2>3, <4>1, StepReader
      <4>3. Provider(o) \in OpensReader
        BY <4>2 DEF DataInv, OpenInv
      <4>4. o \in pend[t] => o \in pend'[t]
        BY <1>0, <3>1, <4>3 DEF Close, LocalTypes
      <4>5. QED
        BY <4>2, <4>4
    <3>2. CASE CloseReader(t)
      <4>1. pc[t] = "closing" /\ Leave(t)
        BY <3>2 DEF CloseReader
      <4>2. objs[o].reader = "open" /\ o # cur[t]
        BY <2>3, <4>1, StepReader
      <4>3. QED
        BY <1>0, <4>1, <4>2 DEF Leave, LocalTypes
    <3>3. QED
      BY <1>1, <3>1, <3>2
  <2>4. Live' = Live
    BY <1>0 DEF Live
  <2>5. ASSUME NEW o \in Objects, objs'[o].reader = "open" PROVE o \in Live' \/ Keeps(t, o)'
    <3>1. o \in Live \/ o \in pend[t]
      BY <2>1, <2>3, <2>5 DEF Mine, Keeps, Filling
    <3>2. QED
      BY <2>1, <2>3, <2>4, <2>5, <3>1 DEF Keeps
  <2>6. op'[t].name = "loadall" => ~broken'[t]
    BY <2>1 DEF Mine
  <2>7. op'[t].name = "shut" => \A o \in Objects : objs'[o].reader = "open" => o \in pend'[t]
    BY <2>1, <2>3 DEF Mine
  <2>8. op'[t].name = "add" => mem'[op'[t].id] = num'[t]
    BY <1>0, <2>1 DEF Mine
  <2>9. pc'[t] \notin Loads
    BY <2>1 DEF Loads
  <2>10. QED
    BY <2>2, <2>5, <2>6, <2>7, <2>8, <2>9 DEF Mine
<1>2. CASE Closed(t)
  <2>1. pc[t] = "close" /\ pend[t] = {} /\ objs' = objs
    BY <1>2 DEF Closed
  <2>2. \A o \in Objects : ~Keeps(t, o)
    BY <2>1 DEF Keeps, Filling
  <2>3. CASE Return(t)
    BY <1>0, <2>1, <2>2, <2>3, MineReturn
  <2>4. CASE ~Return(t)
    <3>1. /\ op[t].name = "add" /\ cur'[t] = <<num[t], op[t].id>> /\ pc'[t] = "info"
          /\ op'[t] = op[t] /\ num'[t] = num[t]
      BY <1>0, <1>2, <2>4 DEF Closed, Visit, Goto, LocalTypes
    <3>2. \A o \in Objects : objs'[o].reader = "open" => o \in Live
      BY <2>1, <2>2 DEF Mine
    <3>3. cur'[t] \in Live
      <4>1. op[t].id \in Ids /\ mem[op[t].id] = num[t] /\ num[t] # 0
        BY <1>0, <2>1, <3>1, OpOf DEF Mine, Busied
      <4>2. QED
        BY <3>1, <4>1 DEF Live
    <3>4. QED
      BY <1>0, <2>4, <3>1, <3>2, <3>3, MineGo
  <2>5. QED
    BY <2>3, <2>4
<1>3. QED
  BY <1>1, <1>2

\* Info and Load of the object at hand, and the lookup of the refresh handler.
LEMMA MineProvider ==
  ASSUME LockInv, AgreeInv, DataInv, NEW t \in Threads, Step(t), Mutating(t), Mine(t),
         \/ Info(t) \/ InfoCategories(t) \/ LoadLock(t) \/ LoadBegin(t) \/ LoadEnd(t) \/ Lookup(t)
  PROVE  IF Return(t) THEN Settled ELSE Mine(t)'
<1>0. /\ LocalTypes /\ GlobalTypes /\ Where(t) /\ CfgGrows /\ (Return(t) \/ UNCHANGED <<op, num>>)
      /\ mem' = mem /\ pc[t] \in Loads \cup {"lookup"} /\ LoadsInv(t)
  BY Control, StepGrows DEF LockInv, Info, InfoCategories, LoadLock, LoadBegin, LoadEnd, Lookup, Loads,
                            DataInv
<1>1. op[t].name \in {"add", "loadall", "refresh"}
  BY <1>0 DEF Where, Loads, Mutating, Mutators, Writers
<1>2. /\ op[t].name = "loadall" => Filling(t) /\ ~broken[t]
      /\ op[t].name # "loadall" => \A o \in Objects : ~Keeps(t, o)
  BY <1>0, <1>1 DEF Filling, Keeps, Loads, Mine, Where
\* A reader that the step opens is in the map already, or LoadAll's to bring in.
<1>3. ASSUME NEW o \in Objects, objs'[o].reader = "open" PROVE o \in Live \/ Keeps(t, o)
  <2>1. CASE objs[o].reader = "open"
    BY <2>1 DEF Mine
  <2>2. CASE objs[o].reader # "open"
    <3>1. pc[t] = "loading" /\ o = cur[t]
      BY <1>3, <2>2, StepReader
    <3>2. CASE op[t].name = "loadall"
      <4>1. o[1] = num[t] /\ objs[o].cfg # {}
        BY <1>0, <3>1, <3>2 DEF LoadsInv, Loads
      <4>2. QED
        BY <1>2, <3>2, <4>1 DEF Keeps
    <3>3. CASE op[t].name # "loadall"
      BY <1>1, <3>1, <3>3 DEF Mine, Loads
    <3>4. QED
      BY <3>2, <3>3
  <2>3. QED
    BY <2>1, <2>2
<1>4. CASE Return(t)
  <2>1. op[t].name # "loadall"
    <3>1. op'[t].name = "none"
      BY <1>0, <1>4, Returns
    <3>2. CASE LoadLock(t) \/ LoadBegin(t)
      BY <1>1, <3>1, <3>2 DEF LoadLock, LoadBegin, locals
    <3>3. CASE Info(t) \/ InfoCategories(t)
      BY <1>1, <3>1, <3>3 DEF Info, InfoCategories, AfterInfo, locals
    <3>4. CASE LoadEnd(t)
      BY <1>1, <3>1, <3>4 DEF LoadEnd, AfterLoad
    <3>5. CASE Lookup(t)
      BY <1>0, <3>5 DEF Lookup, Where
    <3>6. QED
      BY <3>2, <3>3, <3>4, <3>5
  <2>2. Settled
    BY <1>0, <1>2, <1>3, <2>1, MineReturn
  <2>3. QED
    BY <1>4, <2>2
<1>5. CASE ~Return(t)
  <2>0. UNCHANGED <<op, num>> /\ op'[t] = op[t] /\ num'[t] = num[t]
    BY <1>0, <1>5
  <2>1. pc'[t] \in Loads \cup {"next"} /\ broken'[t] = broken[t] /\ pc'[t] # "query"
    <3>1. CASE LoadLock(t) \/ LoadBegin(t)
      BY <1>0, <3>1 DEF LoadLock, LoadBegin, locals, Goto, LocalTypes, Loads
    <3>2. CASE Info(t) \/ InfoCategories(t)
      BY <1>0, <1>1, <1>5, <3>2 DEF Info, InfoCategories, AfterInfo, locals, Goto, LocalTypes, Loads
    <3>3. CASE LoadEnd(t)
      BY <1>0, <1>5, <3>3 DEF LoadEnd, AfterLoad, locals, Goto, LocalTypes, Loads
    <3>4. CASE Lookup(t)
      BY <1>0, <1>5, <3>4 DEF Lookup, Goto, LocalTypes, Loads
    <3>5. QED
      BY <3>1, <3>2, <3>3, <3>4
  <2>2. \A o \in Objects : Keeps(t, o) => Keeps(t, o)'
    <3>1. CASE op[t].name = "loadall"
      <4>1. Filling(t)'
        BY <2>0, <2>1, <3>1 DEF Filling, Loads
      <4>2. \A o \in Objects : Keeps(t, o) => o[1] = num[t] /\ objs[o].cfg # {}
        BY <1>0 DEF Keeps, Loads
      <4>3. QED
        BY <1>0, <2>0, <4>1, <4>2 DEF Keeps, CfgGrows
    <3>2. CASE op[t].name # "loadall"
      BY <1>2, <3>2
    <3>3. QED
      BY <3>1, <3>2
  <2>3. \A o \in Objects : objs'[o].reader = "open" => o \in Live \/ Keeps(t, o)'
    BY <1>3, <2>2
  <2>4. op[t].name \in {"add", "refresh"} /\ pc'[t] \in Loads => cur'[t] \in Live
    <3> SUFFICES ASSUME op[t].name \in {"add", "refresh"}, pc'[t] \in Loads PROVE cur'[t] \in Live
      OBVIOUS
    <3>1. CASE Lookup(t)
      <4>1. cur'[t] = <<mem[op[t].id], op[t].id>> /\ mem[op[t].id] # 0 /\ op[t].id \in Ids
        <5>1. op[t].id \in Ids
          BY <1>0, OpOf
        <5>2. QED
          BY <1>0, <1>5, <3>1, <5>1 DEF Lookup, Visit, LocalTypes
      <4>2. QED
        BY <4>1 DEF Live
    <3>2. CASE ~Lookup(t)
      <4>1. pc[t] \in Loads
        BY <3>2 DEF Info, InfoCategories, LoadLock, LoadBegin, LoadEnd, Loads
      <4>2. cur'[t] = cur[t]
        <5>1. CASE LoadLock(t) \/ LoadBegin(t)
          BY <5>1 DEF LoadLock, LoadBegin, locals
        <5>2. CASE Info(t) \/ InfoCategories(t)
          BY <1>5, <5>2 DEF Info, InfoCategories, AfterInfo, locals
        <5>3. CASE LoadEnd(t)
          BY <1>5, <5>3 DEF LoadEnd, AfterLoad, locals
        <5>4. QED
          BY <3>2, <5>1, <5>2, <5>3
      <4>3. QED
        BY <4>1, <4>2 DEF Mine
    <3>3. QED
      BY <3>1, <3>2
  <2>5. op[t].name = "loadall" => ~broken'[t]
    BY <1>2, <2>1
  <2>6. pc'[t] \notin {"close", "closing"}
    BY <2>1 DEF Loads
  <2>7. Mine(t)'
    BY <1>0, <2>0, <2>3, <2>4, <2>5, <2>6, MineGo
  <2>8. QED
    BY <1>5, <2>7
<1>6. QED
  BY <1>4, <1>5

\* A step of the mutator.
LEMMA MineStep ==
  ASSUME LockInv, AgreeInv, DataInv, NEW t \in Threads, Step(t), Mutating(t), Mine(t), calm'
  PROVE  IF Return(t) THEN Settled ELSE Mine(t)'
<1>1. CASE Insert(t) \/ Delete(t) \/ Query(t) \/ NextLoad(t)
  BY <1>1, MineTable
<1>2. CASE Lock(t) \/ AddSwap(t) \/ RemoveSwap(t) \/ LoadAllSwap(t) \/ ShutBegin(t) \/ ShutEnd(t)
  BY <1>2, MineMap
<1>3. CASE Close(t) \/ CloseReader(t) \/ Closed(t)
  BY <1>3, MineClose
<1>4. CASE Info(t) \/ InfoCategories(t) \/ LoadLock(t) \/ LoadBegin(t) \/ LoadEnd(t) \/ Lookup(t)
  BY <1>4, MineProvider
<1>5. CASE RLock(t) \/ ListEach(t) \/ Scan(t) \/ Get(t) \/ Collect(t) \/ Pairs(t)
  <2>1. Where(t)
    BY DEF LockInv
  <2>2. op[t].name \in {"list", "cats", "get"}
    BY <1>5, <2>1 DEF RLock, ListEach, Scan, Get, Collect, Pairs, Where
  <2>3. QED
    BY <2>2 DEF Mutating, Mutators, Writers
<1>6. QED
  BY <1>1, <1>2, <1>3, <1>4, <1>5 DEF Step

\* calm is never regained.
LEMMA CalmLost ==
  ASSUME NEW t \in Threads, Step(t), calm'
  PROVE  calm
<1>1. CASE Insert(t) \/ Delete(t) \/ Query(t) \/ NextLoad(t)
  BY <1>1 DEF Insert, Delete, Query, NextLoad, ghosts
<1>2. CASE \/ Lock(t) \/ AddSwap(t) \/ RemoveSwap(t) \/ LoadAllSwap(t) \/ ShutBegin(t) \/ ShutEnd(t)
           \/ Close(t) \/ CloseReader(t) \/ Closed(t)
  BY <1>2 DEF Lock, AddSwap, RemoveSwap, LoadAllSwap, ShutBegin, ShutEnd, Close, CloseReader, Closed,
              ghosts
<1>3. CASE Info(t) \/ InfoCategories(t) \/ LoadLock(t) \/ LoadBegin(t) \/ LoadEnd(t) \/ Lookup(t)
  BY <1>3 DEF Info, InfoCategories, LoadLock, LoadBegin, LoadEnd, Lookup, ghosts
<1>4. CASE RLock(t) \/ ListEach(t) \/ Scan(t) \/ Get(t) \/ Collect(t) \/ Pairs(t)
  BY <1>4 DEF RLock, ListEach, Scan, Get, Collect, Pairs, ghosts
<1>5. QED
  BY <1>1, <1>2, <1>3, <1>4 DEF Step

\* A step of a goroutine under way.
LEMMA CalmStep ==
  ASSUME LockInv, AgreeInv, DataInv, CalmInv, NEW t \in Threads, Step(t)
  PROVE  CalmInv'
<1> SUFFICES ASSUME calm'
    PROVE  /\ \A u, v \in Threads : Mutating(u)' /\ Mutating(v)' => u = v
           /\ \A u \in Threads : Mutating(u)' => Mine(u)'
           /\ (\A u \in Threads : ~Mutating(u)') => Settled
  BY DEF CalmInv, Settled
<1>0. calm /\ LocalTypes /\ CfgGrows /\ Others(t) /\ (Return(t) \/ UNCHANGED <<op, num>>)
  BY Control, CalmLost, StepGrows DEF LockInv
<1>1. ASSUME NEW u \in Threads, Mutating(u)' PROVE Mutating(u) /\ (u = t => ~Return(t))
  <2>1. CASE u = t
    <3>1. ~Return(t)
      BY <1>0, <1>1, <2>1, Returns DEF Mutating, Mutators, Writers
    <3>2. QED
      BY <1>0, <1>1, <2>1, <3>1 DEF Mutating
  <2>2. CASE u # t
    BY <1>0, <1>1, <2>2 DEF Others, Mutating
  <2>3. QED
    BY <2>1, <2>2
<1>2. \A u, v \in Threads : Mutating(u)' /\ Mutating(v)' => u = v
  BY <1>0, <1>1 DEF CalmInv
<1>3. CASE Mutating(t)
  <2>1. IF Return(t) THEN Settled ELSE Mine(t)'
    BY <1>0, <1>3, MineStep DEF CalmInv
  <2>2. \A u \in Threads : Mutating(u)' => u = t
    BY <1>0, <1>1, <1>3 DEF CalmInv
  <2>3. (\A u \in Threads : ~Mutating(u)') => Return(t)
    BY <1>0, <1>3 DEF Mutating
  <2>4. QED
    BY <1>1, <1>2, <2>1, <2>2, <2>3
<1>4. CASE ~Mutating(t)
  <2>1. mem' = mem /\ \A o \in Objects : objs'[o].reader = objs[o].reader
    BY <1>4, ReaderStep
  <2>2. ASSUME NEW u \in Threads, Mutating(u)' PROVE Mine(u)'
    <3>1. Mutating(u) /\ u # t /\ Mine(u)
      BY <1>0, <1>1, <1>4, <2>2 DEF CalmInv
    <3>2. QED
      BY <1>0, <2>1, <3>1, MineFrame
  <2>3. ASSUME \A u \in Threads : ~Mutating(u)' PROVE Settled
    <3>1. \A u \in Threads : ~Mutating(u)
      BY <1>0, <1>4, <2>3 DEF Others, Mutating
    <3>2. Live' = Live
      BY <2>1 DEF Live
    <3>3. QED
      BY <1>0, <2>1, <3>1, <3>2 DEF CalmInv, Settled
  <2>4. QED
    BY <1>2, <2>2, <2>3
<1>5. QED
  BY <1>3, <1>4

\* An operation starts: a mutator starts while there is none, or calm is lost.
LEMMA CalmStart ==
  ASSUME LockInv, AgreeInv, DataInv, CalmInv, NEW t \in Threads, NEW o \in Operations, Start(t, o)
  PROVE  CalmInv'
<1> SUFFICES ASSUME calm'
    PROVE  /\ \A u, v \in Threads : Mutating(u)' /\ Mutating(v)' => u = v
           /\ \A u \in Threads : Mutating(u)' => Mine(u)'
           /\ (\A u \in Threads : ~Mutating(u)') => Settled
  BY DEF CalmInv, Settled
<1>0. /\ LocalTypes /\ Where(t) /\ pc[t] = "idle" /\ mem' = mem /\ calm
      /\ o.name \in Mutators => InFlight(Mutators) = {}
  BY DEF LockInv, Start
<1>1. /\ Others(t) /\ pc'[t] = Entry[o.name] /\ op'[t] = o /\ op[t].name = "none"
  BY <1>0, StartLocals DEF Where
<1>2. CfgGrows /\ Live' = Live /\ \A x \in Objects : objs'[x].reader = objs[x].reader
  <2>1. CfgGrows
    BY StartGrows
  <2>2. Live' = Live
    BY <1>0 DEF Live
  <2>3. \A x \in Objects : objs'[x].reader = objs[x].reader
    BY StartObj
  <2>4. QED
    BY <2>1, <2>2, <2>3
<1>3. ~Mutating(t) /\ (Mutating(t)' <=> o.name \in Mutators)
  BY <1>1 DEF Mutating, Mutators, Writers
<1>4. \A u \in Threads : u # t => (Mutating(u)' <=> Mutating(u))
  BY <1>1 DEF Others, Mutating
<1>5. \A u \in Threads : o.name \in Mutators => ~Mutating(u)
  BY <1>0 DEF InFlight, Mutating
<1>6. \A u, v \in Threads : Mutating(u)' /\ Mutating(v)' => u = v
  BY <1>0, <1>3, <1>4, <1>5 DEF CalmInv
<1>7. ASSUME \A u \in Threads : ~Mutating(u) PROVE Settled
  BY <1>0, <1>2, <1>7 DEF CalmInv, Settled
<1>8. ASSUME Mutating(t)' PROVE Mine(t)'
  <2>1. Settled
    BY <1>3, <1>5, <1>7, <1>8
  <2>2. o.name \in {"add", "remove", "loadall", "list", "cats", "get", "refresh", "shut"}
    BY OpFields
  <2>3. /\ o.name = "loadall" => pc'[t] = "query"
        /\ pc'[t] \notin Loads \cup {"close", "closing"}
    BY <1>1, <2>2 DEF Entry, Loads
  <2>4. QED
    BY <1>1, <2>1, <2>3 DEF Mine, Settled
<1>9. ASSUME NEW u \in Threads, u # t, Mutating(u)' PROVE Mine(u)'
  <2>1. Mine(u)
    BY <1>0, <1>4, <1>9 DEF CalmInv
  <2>2. QED
    BY <1>0, <1>1, <1>2, <1>9, <2>1, MineFrame
<1>10. QED
  BY <1>3, <1>4, <1>6, <1>7, <1>8, <1>9

\* Nothing is open at first.
LEMMA ReadersInit == ASSUME Init PROVE DataInv /\ CalmInv
<1>1. /\ \A t \in Threads : op[t].name = "none"
      /\ \A o \in Objects : objs[o].reader # "open"
  BY IdleName DEF Init, Blank
<1>2. DataInv
  BY <1>1 DEF DataInv, OpenInv, LoadsInv
<1>3. CalmInv
  BY <1>1 DEF CalmInv, Mutating, Mutators, Writers
<1>4. QED
  BY <1>2, <1>3

\* Every step keeps the readers accounted for.
LEMMA ReadersStep ==
  ASSUME LockInv, AgreeInv, DataInv, CalmInv, [Next]_vars
  PROVE  DataInv' /\ CalmInv'
<1>1. ASSUME NEW t \in Threads, Step(t) PROVE DataInv' /\ CalmInv'
  BY <1>1, DataStep, CalmStep
<1>2. ASSUME NEW t \in Threads, NEW o \in Operations, Start(t, o) PROVE DataInv' /\ CalmInv'
  BY <1>2, DataStart, CalmStart
<1>3. CASE UNCHANGED vars
  BY <1>3 DEF vars, DataInv, OpenInv, LoadsInv, Provider, CalmInv, Mutating, Mine, Keeps, Filling, Live
<1>4. QED
  BY <1>1, <1>2, <1>3 DEF Next

\* For any number of goroutines, sources and operations: as long as nothing
\* overlaps and nothing fails, every MMDB reader that was opened is in the map
\* or closed once no mutator is under way (AddSource, RemoveSource, LoadAll,
\* the refresh handler and Close of DBRegistry).
THEOREM ReadersClosedHolds == Spec => []ReadersClosed
<1> DEFINE Inv == LockInv /\ AgreeInv /\ DataInv /\ CalmInv
<1>1. Init => Inv
  BY LockInit, AgreeInit, ReadersInit
<1>2. Inv /\ [Next]_vars => Inv'
  BY LockStep, AgreeStep, ReadersStep
<1>3. Inv => ReadersClosed
  <2> SUFFICES ASSUME CalmInv, calm, InFlight(Mutators) = {}
               PROVE  \A o \in Objects : objs[o].reader = "open" => o \in Live
    BY DEF ReadersClosed
  <2>1. \A t \in Threads : ~Mutating(t)
    BY DEF InFlight, Mutating
  <2>2. QED
    BY <2>1 DEF CalmInv
<1>4. QED
  BY <1>1, <1>2, <1>3, PTL DEF Spec

-----------------------------------------------------------------------------
(* Types: locks exclude *)

\* A step changes the lock of an object only if no other goroutine is in it.
LEMMA Touches ==
  ASSUME LockInv, \A u \in Threads : InsideLock(u), NEW t \in Threads, Step(t), NEW o \in Objects
  PROVE  /\ objs'[o].w \subseteq objs[o].w \cup {t}
         /\ \/ objs'[o].w = objs[o].w /\ objs'[o].r = objs[o].r
            \/ objs[o].w = {} \/ objs[o].w = {t}
<1>0. LocalTypes /\ GlobalTypes /\ InsideLock(t)
  BY DEF LockInv
<1>1. CASE objs' = objs
  BY <1>1
<1>2. CASE Close(t) /\ objs' # objs
  <2>1. PICK x \in pend[t] : objs[x].w = {} /\ Visit(t, x)
    BY <1>2 DEF Close
  <2>2. cur'[t] = x
    BY <1>0, <2>1 DEF Visit, LocalTypes
  <2>3. QED
    BY <1>2, <2>1, <2>2, CloseObj DEF ObjStep
<1>3. CASE CloseReader(t)
  <2>1. objs[cur[t]].w = {t} /\ cur'[t] = cur[t]
    BY <1>0, <1>3, CloseReaderObj DEF CloseReader, InsideLock
  <2>2. QED
    BY <1>3, <2>1, CloseReaderObj DEF ObjStep
<1>4. CASE Info(t) \/ InfoCategories(t)
  <2>1. objs[cur[t]].w = {}
    BY <1>4 DEF Info, InfoCategories
  <2>2. QED
    BY <1>4, <2>1, InfoObj
<1>5. CASE LoadLock(t) \/ LoadBegin(t)
  <2>1. (objs[cur[t]].w = {} \/ objs[cur[t]].w = {t}) /\ cur' = cur
    BY <1>0, <1>5 DEF LoadLock, LoadBegin, InsideLock, locals
  <2>2. QED
    BY <1>5, <2>1, LoadLockObj DEF ObjStep
<1>6. CASE LoadEnd(t)
  <2>1. objs[cur[t]].w = {t}
    BY <1>0, <1>6 DEF LoadEnd, InsideLock
  <2>2. QED
    BY <1>6, <2>1, LoadEndObj
<1>7. CASE Query(t) /\ objs' # objs
  <2>1. PICK made \in SUBSET {id \in Ids : db[id] # {}}, b \in BOOLEAN : QueryMakes(t, made, b)
    BY <1>7, QueryObj
  <2>2. objs'[o].w = objs[o].w /\ objs'[o].r = objs[o].r
    BY <2>1 DEF QueryMakes
  <2>3. QED
    BY <2>2
<1>8. QED
  <2>1. CASE \/ Insert(t) \/ Delete(t) \/ NextLoad(t) \/ Lock(t) \/ AddSwap(t) \/ RemoveSwap(t)
             \/ LoadAllSwap(t) \/ Closed(t) \/ ShutBegin(t) \/ ShutEnd(t)
    BY <1>1, <2>1 DEF Insert, Delete, NextLoad, Lock, AddSwap, RemoveSwap, LoadAllSwap, Swapped,
                      Closed, ShutBegin, ShutEnd
  <2>2. CASE Lookup(t) \/ RLock(t) \/ ListEach(t) \/ Scan(t) \/ Get(t) \/ Collect(t) \/ Pairs(t)
    BY <1>1, <2>2 DEF Lookup, RLock, ListEach, Scan, Get, Collect, Pairs
  <2>3. CASE Query(t) \/ Close(t)
    BY <1>1, <1>2, <1>7, <2>3
  <2>4. QED
    BY <1>3, <1>4, <1>5, <1>6, <2>1, <2>2, <2>3 DEF Step

\* The goroutine that takes the step: it is in the lock that it has taken.
LEMMA InsideOwn ==
  ASSUME LockInv, NEW t \in Threads, Step(t), InsideLock(t)
  PROVE  InsideLock(t)'
<1>0. LocalTypes /\ Where(t)
  BY DEF LockInv
<1>1. ASSUME pc'[t] \notin {"locked", "loading", "closing"} PROVE InsideLock(t)'
  BY <1>1 DEF InsideLock
<1>2. CASE Return(t)
  BY <1>0, <1>1, <1>2, Returns
<1>3. ASSUME ~Return(t) PROVE InsideLock(t)'
  <2>1. CASE LoadLock(t)
    <3>1. pc'[t] = "locked" /\ cur' = cur
      BY <1>0, <2>1 DEF LoadLock, Goto, LocalTypes, locals
    <3>2. QED
      BY <2>1, <3>1, LoadLockObj DEF InsideLock
  <2>2. CASE LoadBegin(t)
    <3>1. pc[t] = "locked" /\ pc'[t] = "loading" /\ cur' = cur /\ objs[cur[t]].r = {} /\ cur[t] \in Objects
      BY <1>0, <2>2, Visited DEF LoadBegin, Goto, LocalTypes, locals
    <3>2. QED
      BY <2>2, <3>1, LoadLockObj DEF InsideLock
  <2>3. CASE Close(t)
    <3>1. CASE pc' = pc
      BY <1>1, <2>3, <3>1 DEF Close
    <3>2. CASE pc' # pc
      <4>1. pc'[t] = "closing" /\ objs'[cur'[t]].w = {t}
        BY <1>0, <2>3, <3>2, CloseObj DEF LocalTypes
      <4>2. QED
        BY <4>1 DEF InsideLock
    <3>3. QED
      BY <3>1, <3>2
  <2>4. CASE Insert(t) \/ Delete(t) \/ Query(t) \/ NextLoad(t) \/ Lock(t)
    BY <1>0, <1>1, <1>3, <2>4 DEF Insert, Delete, Query, NextLoad, Lock, Goto, LocalTypes
  <2>5. CASE \/ AddSwap(t) \/ RemoveSwap(t) \/ LoadAllSwap(t) \/ CloseReader(t) \/ Closed(t)
             \/ ShutBegin(t) \/ ShutEnd(t)
    BY <1>0, <1>1, <1>3, <2>5 DEF AddSwap, RemoveSwap, LoadAllSwap, Swapped, CloseReader, Closed,
                                  ShutBegin, ShutEnd, Goto, LocalTypes
  <2>6. CASE Info(t) \/ InfoCategories(t) \/ LoadEnd(t) \/ Lookup(t)
    BY <1>0, <1>1, <1>3, <2>6 DEF Info, InfoCategories, AfterInfo, LoadEnd, AfterLoad, Lookup, Goto,
                                  LocalTypes
  <2>7. CASE ListEach(t) \/ Scan(t) \/ Get(t) \/ Collect(t) \/ Pairs(t)
    BY <1>0, <1>1, <1>3, <2>7 DEF ListEach, Scan, Get, Collect, Pairs, Goto, LocalTypes
  <2>8. CASE RLock(t)
    <3>1. op[t].name \in {"list", "cats", "get"}
      BY <1>0, <2>8 DEF RLock, Where
    <3>2. QED
      BY <1>0, <1>1, <2>8, <3>1 DEF RLock, Goto, LocalTypes
  <2>9. QED
    BY <2>1, <2>2, <2>3, <2>4, <2>5, <2>6, <2>7, <2>8 DEF Step
<1>4. QED
  BY <1>2, <1>3

\* The registry's lock and the rows of the table.
LEMMA StepRows ==
  ASSUME LockInv, NEW t \in Threads, Step(t)
  PROVE  /\ regW' \in {regW, {}, {t}}
         /\ \A id \in Ids : \/ db'[id] = db[id] \/ db'[id] = {}
                            \/ \E c : db'[id] = {c}
<1>0. db \in [Ids -> SUBSET Offered]
  BY DEF LockInv, GlobalTypes
<1>1. CASE Insert(t) \/ Delete(t) \/ Query(t) \/ NextLoad(t)
  BY <1>0, <1>1 DEF Insert, Delete, Query, NextLoad
<1>2. CASE \/ Lock(t) \/ AddSwap(t) \/ RemoveSwap(t) \/ LoadAllSwap(t) \/ ShutBegin(t) \/ ShutEnd(t)
           \/ Close(t) \/ CloseReader(t) \/ Closed(t)
  BY <1>2 DEF Lock, AddSwap, RemoveSwap, LoadAllSwap, Swapped, ShutBegin, ShutEnd, Close, CloseReader,
              Closed
<1>3. CASE Info(t) \/ InfoCategories(t) \/ LoadLock(t) \/ LoadBegin(t) \/ LoadEnd(t) \/ Lookup(t)
  BY <1>3 DEF Info, InfoCategories, LoadLock, LoadBegin, LoadEnd, Lookup
<1>4. CASE RLock(t) \/ ListEach(t) \/ Scan(t) \/ Get(t) \/ Collect(t) \/ Pairs(t)
  BY <1>4 DEF RLock, ListEach, Scan, Get, Collect, Pairs
<1>5. QED
  BY <1>1, <1>2, <1>3, <1>4 DEF Step

\* Every step keeps one writer to a lock and one row to a source.
LEMMA SingleStep ==
  ASSUME LockInv, SingleInv, [Next]_vars
  PROVE  SingleInv'
<1>1. ASSUME NEW t \in Threads, Step(t) PROVE SingleInv'
  <2>0. Others(t) /\ LocalTypes /\ \A u \in Threads : InsideLock(u)
    BY <1>1, Control DEF LockInv, SingleInv
  <2>1. ASSUME NEW u \in Threads PROVE InsideLock(u)'
    <3>1. CASE u = t
      BY <1>1, <2>0, <3>1, InsideOwn
    <3>2. CASE u # t
      <4>1. pc'[u] = pc[u] /\ cur'[u] = cur[u] /\ InsideLock(u)
        BY <2>0, <3>2 DEF Others
      <4>2. CASE pc[u] \in {"locked", "loading", "closing"}
        <5>1. cur[u] \in Objects /\ objs[cur[u]].w = {u}
          BY <4>1, <4>2, Visited DEF InsideLock
        <5>2. objs'[cur[u]].w = objs[cur[u]].w /\ objs'[cur[u]].r = objs[cur[u]].r
          BY <1>1, <2>0, <3>2, <5>1, Touches
        <5>3. QED
          BY <4>1, <5>2 DEF InsideLock
      <4>3. CASE pc[u] \notin {"locked", "loading", "closing"}
        BY <4>1, <4>3 DEF InsideLock
      <4>4. QED
        BY <4>2, <4>3
    <3>3. QED
      BY <3>1, <3>2
  <2>2. ASSUME NEW o \in Objects PROVE Single(objs'[o].w)
    <3>1. /\ objs'[o].w \subseteq objs[o].w \cup {t}
          /\ objs'[o].w = objs[o].w \/ objs[o].w = {} \/ objs[o].w = {t}
      BY <1>1, <2>0, Touches
    <3>2. Single(objs[o].w)
      BY DEF SingleInv
    <3>3. CASE objs'[o].w = objs[o].w
      BY <3>2, <3>3
    <3>4. CASE objs[o].w = {} \/ objs[o].w = {t}
      <4>1. objs'[o].w = {} \/ objs'[o].w = {t}
        BY <3>1, <3>4
      <4>2. QED
        BY <4>1 DEF Single
    <3>5. QED
      BY <3>1, <3>3, <3>4
  <2>3. Single(regW')
    BY <1>1, StepRows DEF SingleInv, Single
  <2>4. \A id \in Ids : Single(db'[id])
    BY <1>1, StepRows DEF SingleInv, Single
  <2>5. QED
    BY <2>1, <2>2, <2>3, <2>4 DEF SingleInv, Single
<1>2. ASSUME NEW t \in Threads, NEW o \in Operations, Start(t, o) PROVE SingleInv'
  <2>0. /\ Others(t) /\ pc'[t] = Entry[o.name] /\ UNCHANGED <<db, regW>>
        /\ \A x \in Objects : objs'[x].w = objs[x].w /\ objs'[x].r = objs[x].r
    <3>1. Others(t) /\ pc'[t] = Entry[o.name]
      BY <1>2, StartLocals
    <3>2. UNCHANGED <<db, regW>>
      BY <1>2 DEF Start
    <3>3. \A x \in Objects : objs'[x].w = objs[x].w /\ objs'[x].r = objs[x].r
      BY <1>2, StartObj
    <3>4. QED
      BY <3>1, <3>2, <3>3
  <2>1. ASSUME NEW u \in Threads PROVE InsideLock(u)'
    <3>1. CASE u = t
      <4>1. o.name \in {"add", "remove", "loadall", "list", "cats", "get", "refresh", "shut"}
        BY OpFields
      <4>2. QED
        BY <2>0, <3>1, <4>1 DEF InsideLock, Entry
    <3>2. CASE u # t
      <4>1. pc'[u] = pc[u] /\ cur'[u] = cur[u] /\ InsideLock(u)
        BY <2>0, <3>2 DEF Others, SingleInv
      <4>2. pc[u] \in {"locked", "loading", "closing"} => cur[u] \in Objects
        BY Visited
      <4>3. QED
        BY <2>0, <4>1, <4>2 DEF InsideLock
    <3>3. QED
      BY <3>1, <3>2
  <2>2. QED
    BY <2>0, <2>1 DEF SingleInv, Single
<1>3. CASE UNCHANGED vars
  BY <1>3 DEF vars, SingleInv, InsideLock, Single
<1>4. QED
  BY <1>1, <1>2, <1>3 DEF Next

\* No lock is taken at first.
LEMMA SingleInit == ASSUME Init PROVE SingleInv
<1>1. /\ \A t \in Threads : pc[t] = "idle"
      /\ \A o \in Objects : objs[o].w = {}
      /\ regW = {} /\ \A id \in Ids : db[id] = {}
  BY DEF Init, Blank
<1>2. QED
  BY <1>1 DEF SingleInv, InsideLock, Single

\* A set of at most one element has cardinality at most one.
LEMMA SingleCard == ASSUME NEW S, Single(S) PROVE Cardinality(S) <= 1
<1>1. CASE S = {}
  BY <1>1, FS_EmptySet
<1>2. ASSUME NEW x, S = {x} PROVE Cardinality(S) <= 1
  BY <1>2, FS_Singleton
<1>3. QED
  BY <1>1, <1>2 DEF Single

\* For any number of goroutines, sources and operations: no goroutine is in the
\* lock of an object or of the registry together with another writer, none loads
\* while another reads, every row is one configuration, and live objects have
\* one (DBRegistry's and the providers' RWMutexes).
THEOREM TypeCorrect == Spec => []TypeOK
<1> DEFINE Inv == LockInv /\ AgreeInv /\ SingleInv
<1>1. Init => Inv
  BY LockInit, AgreeInit, SingleInit
<1>2. Inv /\ [Next]_vars => Inv'
  BY LockStep, AgreeStep, SingleStep
<1>3. Inv => TypeOK
  <2> SUFFICES ASSUME LockInv, AgreeInv, SingleInv PROVE TypeOK
    OBVIOUS
  <2>0. GlobalTypes
    BY DEF LockInv
  <2>1. \A id \in Ids : db[id] \subseteq Offered /\ Cardinality(db[id]) <= 1
    BY <2>0, SingleCard DEF GlobalTypes, SingleInv
  <2>2. /\ mem \in [Ids -> 0 .. MaxOps]
        /\ regW \subseteq Threads /\ Cardinality(regW) <= 1 /\ regR \subseteq Threads
    BY <2>0, SingleCard DEF GlobalTypes, SingleInv
  <2>3. ASSUME NEW o \in Objects
        PROVE  /\ objs[o].reader \in {"none", "open", "closed"}
               /\ objs[o].w \subseteq Threads /\ Cardinality(objs[o].w) <= 1
               /\ \A t \in Threads : pc[t] = "loading" /\ cur[t] = o => objs[o].w = {t} /\ objs[o].r = {}
    <3>1. objs[o] \in ObjRecs /\ Single(objs[o].w)
      BY <2>0 DEF GlobalTypes, SingleInv
    <3>2. objs[o].reader \in {"none", "open", "closed"} /\ objs[o].w \subseteq Threads
      BY <3>1 DEF ObjRecs
    <3>3. Cardinality(objs[o].w) <= 1
      BY <3>1, SingleCard
    <3>4. QED
      BY <3>2, <3>3 DEF SingleInv, InsideLock
  <2>4. ASSUME NEW o \in Live PROVE objs[o].cfg # {}
    <3>1. PICK id \in Ids : mem[id] # 0 /\ o = <<mem[id], id>>
      BY DEF Live
    <3>2. QED
      BY <3>1 DEF AgreeInv, CfgInv, Cfg
  <2>5. QED
    BY <2>1, <2>2, <2>3, <2>4 DEF TypeOK
<1>4. QED
  BY <1>1, <1>2, <1>3, PTL DEF Spec

===============================================================================
