---------------------------- MODULE ConfigProofs ----------------------------
(***************************************************************************)
(* Proofs about Config, for any number of handlers and subscribers, any    *)
(* policies and any capacity of the channels.                              *)
(*                                                                         *)
(* While no request has overlapped another, one handler at most is at      *)
(* work.  What the rows and the subscribers lack of the configuration in   *)
(* effect is then what this handler has still to persist and to deliver.   *)
(***************************************************************************)
EXTENDS Config, SequenceTheorems, FiniteSetTheorems, TLAPS

\* The kv_settings table, or a copy of it: at most one value in a row.
Rows ==
    {r \in [Keys -> SUBSET (KvTtl \cup Seq(Policy))] :
        /\ r["ttl"] \subseteq KvTtl /\ r["policies"] \subseteq Seq(Policy)
        /\ \A k \in Keys : \A x, y \in r[k] : x = y}

SharedType ==
    /\ current \in Configs
    /\ version \in Nat \ {0}
    /\ closed \in BOOLEAN /\ calm \in BOOLEAN /\ unsaved \in BOOLEAN
    /\ kv \in Rows
    /\ requests \in Nat /\ boots \in Nat

SubsType ==
    /\ sub \in [Subs -> {"none", "open", "closed"}]
    /\ ch \in [Subs -> Seq(Nat)] /\ seen \in [Subs -> Seq(Nat)]
    /\ missed \in [Subs -> Nat]

LocalType ==
    /\ pc \in [Handlers -> {"idle", "edit", "put", "unset", "getall", "reload",
                            "publish", "deliver", "drain", "persist"}]
    /\ req \in [Handlers -> Requests \cup {NoRequest}]
    /\ cfg \in [Handlers -> Configs]
    /\ rows \in [Handlers -> Rows]
    /\ todo \in [Handlers -> SUBSET (Keys \cup Subs)]
    /\ at \in [Handlers -> SUBSET Subs]
    /\ ver \in [Handlers -> Nat]

\* What a handler serves where it is, and the channels it has before it.
Serves(h) ==
    /\ pc[h] # "idle" => req[h] \in Requests
    /\ pc[h] \in {"edit", "persist"} => req[h].op \in PolicyOps
    /\ pc[h] \in {"put", "unset"} => req[h].op = pc[h]
    /\ pc[h] \in {"getall", "reload"} => req[h].op \notin PolicyOps
    /\ pc[h] = "put" => \A k \in todo[h] : k \in Keys /\ req[h].rows[k] # {}
    /\ at[h] \subseteq todo[h]
    /\ pc[h] \notin {"deliver", "drain"} => at[h] = {}
    /\ pc[h] \in {"deliver", "drain"} => todo[h] \subseteq Subs /\ ver[h] \in 2..version

\* Versions on their way to a subscriber or received were published.
Published(q) == \A i \in 1..Len(q) : q[i] \in 2..version

ChannelInv == \A s \in Subs : /\ Len(ch[s]) <= Buffered
                              /\ Published(ch[s]) /\ Published(seen[s])

TypeInv ==
    /\ SharedType /\ SubsType /\ LocalType
    /\ \A h \in Handlers : Serves(h)
    /\ ChannelInv

\* Without an overlap one handler at most is at work.
Alone == calm => \A g, h \in Handlers : pc[g] # "idle" /\ pc[h] # "idle" => g = h

\* The version a subscriber got last, or finds in its channel last, is n.
LastIs(s, n) ==
    IF ch[s] # <<>> THEN ch[s][Len(ch[s])] = n
    ELSE seen[s] # <<>> /\ seen[s][Len(seen[s])] = n

Delivering(h) == pc[h] \in {"deliver", "drain"}

\* A subscriber without the newest version is before the one who delivers it.
NewestInv ==
    calm =>
        /\ \A h \in Handlers : Delivering(h) => ver[h] = version
        /\ \A s \in Subs :
              sub[s] = "open" /\ version > missed[s] =>
                 \/ LastIs(s, version)
                 \/ \E h \in Handlers : Delivering(h) /\ s \in todo[h]

\* The policies that start and reload make of the row, or of none.
InSync(list, row) ==
    /\ row = {} => list = Base
    /\ \A l \in row : list \in {l, DecodeSlice(Base, l)}

\* The handler has published an edit of the policies and not persisted it.
Persisting(h) == /\ pc[h] \in {"deliver", "drain", "persist"}
                 /\ req[h].op \in PolicyOps

Synced == InSync(current.policies, kv["policies"])

\* Unless they are unsaved, or their row hidden, it brings the policies back.
Kept == ~unsaved /\ "policies" \notin EnvKeys
Lasting == Kept => Synced

DurableOf(h) ==
    /\ Persisting(h) => cfg[h].policies = current.policies
    /\ pc[h] = "reload" => rows[h]["policies"] = kv["policies"]
    /\ pc[h] = "publish" /\ req[h].op \notin PolicyOps /\ Kept =>
          cfg[h].policies = current.policies

\* The row brings the policies in effect back, or is about to be written; a
\* reload leaves them as they are.
DurableInv ==
    calm => /\ Lasting \/ \E h \in Handlers : Persisting(h)
            /\ \A h \in Handlers : DurableOf(h)

-----------------------------------------------------------------------------
USE ConfigAssumption

\* What the provers need to know of sequences.
LEMMA Concat ==
    ASSUME NEW S, NEW a \in Seq(S), NEW b \in Seq(S)
    PROVE  /\ a \o b \in Seq(S) /\ Len(a \o b) = Len(a) + Len(b)
           /\ \A i \in 1..Len(a) : (a \o b)[i] = a[i]
           /\ \A i \in 1..Len(b) : (a \o b)[Len(a) + i] = b[i]
  OBVIOUS

\* A slice of a sequence: its length and its elements.
LEMMA SliceType ==
    ASSUME NEW S, NEW s \in Seq(S), NEW m \in Nat \ {0}, NEW n \in Nat, n <= Len(s)
    PROVE  /\ SubSeq(s, m, n) \in Seq(S)
           /\ Len(SubSeq(s, m, n)) = IF m <= n THEN n - m + 1 ELSE 0
           /\ \A i \in 1..(n - m + 1) : SubSeq(s, m, n)[i] = s[m + i - 1]
  OBVIOUS

\* DecodeSlice makes a list of policies of two such lists.
LEMMA DecodeType ==
    ASSUME NEW old \in Seq(Policy), NEW new \in Seq(Policy)
    PROVE  DecodeSlice(old, new) \in Seq(Policy)
<1>1. SubSeq(old, Len(new) + 1, Len(old)) \in Seq(Policy)
  BY SliceType
<1>2. QED
  BY <1>1 DEF DecodeSlice

\* A list that is not shorter replaces the old one.
LEMMA DecodeLonger ==
    ASSUME NEW old \in Seq(Policy), NEW new \in Seq(Policy), Len(old) <= Len(new)
    PROVE  DecodeSlice(old, new) = new
<1>1. SubSeq(old, Len(new) + 1, Len(old)) = <<>>
  BY SubSeqEmpty
<1>2. QED
  BY <1>1, ConcatEmptySeq DEF DecodeSlice

\* Decoding the same list a second time changes nothing.
LEMMA DecodeAgain ==
    ASSUME NEW old \in Seq(Policy), NEW new \in Seq(Policy)
    PROVE  DecodeSlice(DecodeSlice(old, new), new) = DecodeSlice(old, new)
<1> DEFINE rest == SubSeq(old, Len(new) + 1, Len(old))
           once == new \o rest
           tail == SubSeq(once, Len(new) + 1, Len(once))
<1>1. rest \in Seq(Policy)
  BY SliceType
<1> HIDE DEF rest
<1>2. /\ once \in Seq(Policy) /\ Len(once) = Len(new) + Len(rest)
      /\ \A i \in 1..Len(rest) : once[Len(new) + i] = rest[i]
  BY <1>1, Concat
<1> HIDE DEF once
<1>3. /\ tail \in Seq(Policy) /\ Len(tail) = Len(rest)
      /\ \A i \in 1..Len(rest) : tail[i] = once[Len(new) + i]
  <2>1. Len(new) + 1 \in Nat \ {0} /\ Len(once) \in Nat /\ Len(rest) \in Nat
    BY <1>1, <1>2
  <2>2. /\ tail \in Seq(Policy)
        /\ Len(tail) = IF Len(new) + 1 <= Len(once) THEN Len(once) - (Len(new) + 1) + 1 ELSE 0
        /\ \A i \in 1..(Len(once) - (Len(new) + 1) + 1) : tail[i] = once[Len(new) + 1 + i - 1]
    BY <1>2, <2>1, SliceType
  <2> HIDE DEF tail
  <2>3. Len(tail) = Len(rest)
    BY <1>2, <2>1, <2>2
  <2>4. ASSUME NEW i \in 1..Len(rest) PROVE tail[i] = once[Len(new) + i]
    <3>1. i \in 1..(Len(once) - (Len(new) + 1) + 1) /\ Len(new) + 1 + i - 1 = Len(new) + i
      BY <1>2, <2>1
    <3>2. QED
      BY <2>2, <3>1
  <2>5. QED
    BY <2>2, <2>3, <2>4
<1> HIDE DEF tail
<1>4. tail = rest
  BY <1>1, <1>2, <1>3, SeqEqual
<1>5. QED
  BY <1>4 DEF DecodeSlice, once, tail, rest

\* The fields of a configuration.
LEMMA ConfigFields ==
    ASSUME NEW c \in Configs
    PROVE  c.policies \in Seq(Policy) /\ c.ttl \in {"base", "good", "short"}
  BY DEF Configs

\* The rows of the settings table: at most one value per key.
LEMMA RowsFields ==
    ASSUME NEW r \in Rows
    PROVE  /\ r["ttl"] \subseteq KvTtl /\ r["policies"] \subseteq Seq(Policy)
           /\ \A k \in Keys : \A x, y \in r[k] : x = y
           /\ DOMAIN r = Keys
  BY DEF Rows

\* What Load reads without overrides is a configuration.
LEMMA LoadedType == Loaded \in Configs
  BY DEF Loaded, Configs

\* The empty table is a table.
LEMMA NoRowsType == NoRows \in Rows
  BY DEF Rows, NoRows, Keys

\* A row is written.
LEMMA RowWritten ==
    ASSUME NEW r \in Rows, NEW k \in Keys, NEW v,
           \A x, y \in v : x = y,
           k = "ttl" => v \subseteq KvTtl,
           k = "policies" => v \subseteq Seq(Policy)
    PROVE  [r EXCEPT ![k] = v] \in Rows
  BY DEF Rows, Keys

\* Rows that parse turn a configuration into a configuration.
LEMMA OverridesType ==
    ASSUME NEW c \in Configs, NEW r \in Rows, Parses(r)
    PROVE  ApplyOverrides(c, r) \in Configs
<1>1. c.policies \in Seq(Policy) /\ c.ttl \in {"base", "good", "short"}
  BY ConfigFields
<1>2. Row(r, "policies") \subseteq Seq(Policy) /\ Row(r, "ttl") \subseteq KvTtl \ {"junk"}
  BY RowsFields DEF Row, Parses
<1>3. Overlay(c.policies, Row(r, "policies")) \in Seq(Policy)
  BY <1>1, <1>2 DEF Overlay, The
<1>4. Overlay(c.ttl, Row(r, "ttl")) \in {"base", "good", "short"}
  BY <1>1, <1>2 DEF Overlay, The, KvTtl
<1>5. DecodeSlice(c.policies, Overlay(c.policies, Row(r, "policies"))) \in Seq(Policy)
  BY <1>1, <1>3, DecodeType
<1>6. QED
  BY <1>4, <1>5 DEF ApplyOverrides, Configs

\* The fields that a request has, by its operation.
LEMMA RequestFields ==
    ASSUME NEW r \in Requests
    PROVE  /\ r.op \in PolicyOps \cup {"put", "unset"}
           /\ r.op \in {"create", "update"} => r.policy \in Policy
           /\ r.op = "put" => r.rows \in Puts
           /\ r.op = "unset" => r.key \in SettingsKeys
  BY DEF Requests, PolicyOps

\* The rows that an import carries are of keys that settings may have.
LEMMA PutFields ==
    ASSUME NEW p \in Puts, NEW k \in Keys
    PROVE  /\ \A x, y \in p[k] : x = y
           /\ k = "ttl" => p[k] \subseteq KvTtl
           /\ k = "policies" => p[k] \subseteq Seq(Policy)
           /\ k \notin SettingsKeys => p[k] = {}
<1>1. PICK t \in Given(KvTtl), l \in Given(Lists) :
             p = [j \in Keys |-> IF j = "ttl" THEN t ELSE l]
  BY DEF Puts
<1>2. k \notin SettingsKeys => p[k] = {}
  BY DEF Puts
<1>3. QED
  BY <1>1, <1>2 DEF Given, Keys

\* A policy handler's edit is a list of policies again.
LEMMA EditedType ==
    ASSUME NEW r \in Requests, r.op \in PolicyOps, NEW s \in Seq(Policy),
           NEW list \in Edited(r, s)
    PROVE  list \in Seq(Policy)
<1>1. CASE r.op = "create"
  BY <1>1, RequestFields DEF Edited
<1>2. CASE r.op = "update"
  <2>1. PICK i \in IndexOf(s, r.policy.name) : list = [s EXCEPT ![i] = r.policy]
    BY <1>2 DEF Edited
  <2>2. i \in 1..Len(s) /\ r.policy \in Policy
    BY <1>2, <2>1, RequestFields DEF IndexOf
  <2>3. QED
    BY <2>1, <2>2, ExceptSeq
<1>3. CASE r.op = "delete"
  <2>1. PICK i \in IndexOf(s, r.name) :
               list = SubSeq(s, 1, i - 1) \o SubSeq(s, i + 1, Len(s))
    BY <1>3 DEF Edited
  <2>2. i \in 1..Len(s)
    BY <2>1 DEF IndexOf
  <2>3. SubSeq(s, 1, i - 1) \in Seq(Policy) /\ SubSeq(s, i + 1, Len(s)) \in Seq(Policy)
    BY <2>2, SliceType
  <2>4. QED
    BY <2>1, <2>3, Concat
<1>4. QED
  BY <1>1, <1>2, <1>3 DEF PolicyOps

-----------------------------------------------------------------------------
(* Every step keeps the types and what a handler serves where it is.       *)

\* The handler's locals are left alone.
Same(h) ==
    /\ pc'[h] = pc[h] /\ req'[h] = req[h] /\ cfg'[h] = cfg[h]
    /\ rows'[h] = rows[h] /\ todo'[h] = todo[h] /\ at'[h] = at[h]
    /\ ver'[h] = ver[h]

Others(h) == \A g \in Handlers \ {h} : Same(g)

\* A handler that is left alone serves what it served.
LEMMA SameServes ==
    ASSUME NEW h \in Handlers, Serves(h), Same(h), version' = version
    PROVE  Serves(h)'
  BY DEF Serves, Same

\* The locals after a reply.
LEMMA ReplyLocals ==
    ASSUME LocalType, NEW h \in Handlers, Reply(h)
    PROVE  /\ LocalType' /\ Others(h) /\ Serves(h)'
           /\ pc'[h] = "idle" /\ req'[h] = NoRequest
<1>1. LocalType'
  BY LoadedType, NoRowsType DEF LocalType, Reply, Goto
<1>2. Others(h)
  BY DEF LocalType, Reply, Goto, Others, Same
<1>3. pc'[h] = "idle" /\ req'[h] = NoRequest /\ at'[h] = {} /\ todo'[h] = {}
  BY DEF LocalType, Reply, Goto
<1>4. Serves(h)'
  BY <1>3 DEF Serves
<1>5. QED
  BY <1>1, <1>2, <1>3, <1>4

\* Nothing happens to the locals.
LEMMA LocalsStay ==
    ASSUME LocalType, UNCHANGED <<pc, locals>>
    PROVE  LocalType' /\ \A h \in Handlers : Same(h)
  BY DEF LocalType, locals, Same

\* The types are kept when one handler moves and serves what it should.
LEMMA OneServes ==
    ASSUME TypeInv, NEW h \in Handlers, Others(h), Serves(h)', version' = version
    PROVE  \A g \in Handlers : Serves(g)'
<1> SUFFICES ASSUME NEW g \in Handlers, g # h PROVE Serves(g)'
  OBVIOUS
<1>1. Serves(g) /\ Same(g)
  BY DEF TypeInv, Others
<1>2. QED
  BY <1>1, SameServes

\* The channels are left alone.
LEMMA ChannelsStay ==
    ASSUME TypeInv, UNCHANGED <<version, sub, ch, seen, missed>>
    PROVE  SubsType' /\ ChannelInv'
<1>1. SubsType'
  BY DEF TypeInv, SubsType
<1>2. ASSUME NEW s \in Subs
      PROVE  Len(ch'[s]) <= Buffered /\ Published(ch[s])' /\ Published(seen[s])'
  BY DEF TypeInv, ChannelInv, Published
<1>3. QED
  BY <1>1, <1>2 DEF ChannelInv

\* A step of one handler that changes neither version nor channels.
LEMMA TypeOne ==
    ASSUME TypeInv, NEW h \in Handlers, SharedType', LocalType', Others(h),
           Serves(h)', UNCHANGED <<version, subVars>>
    PROVE  TypeInv'
<1>1. SubsType' /\ ChannelInv'
  BY ChannelsStay DEF subVars
<1>2. \A g \in Handlers : Serves(g)'
  BY OneServes
<1>3. QED
  BY <1>1, <1>2 DEF TypeInv

\* A request arrives at a handler that was idle.
LEMMA TypeRequest ==
    ASSUME TypeInv, NEW h \in Handlers, NEW r \in Requests, Request(h, r)
    PROVE  TypeInv' /\ Others(h)
<1> DEFINE keys == IF r.op = "put" THEN {k \in Keys : r.rows[k] # {}} ELSE {}
           label == IF r.op \in PolicyOps THEN "edit" ELSE r.op
<1>1. /\ pc[h] = "idle" /\ pc' = [pc EXCEPT ![h] = label]
      /\ req' = [req EXCEPT ![h] = r] /\ todo' = [todo EXCEPT ![h] = keys]
      /\ UNCHANGED <<cfg, rows, at, ver>>
  BY DEF Request, Goto
<1>2. LocalType /\ Serves(h)
  BY DEF TypeInv
<1>3. r.op \in PolicyOps \cup {"put", "unset"}
  BY RequestFields
<1>4. /\ label \in {"edit", "put", "unset"} /\ keys \in SUBSET Keys
      /\ label = "edit" => r.op \in PolicyOps
      /\ label # "edit" => r.op = label
      /\ label = "put" => \A k \in keys : k \in Keys /\ r.rows[k] # {}
  BY <1>3 DEF PolicyOps
<1> HIDE DEF keys, label
<1>5. LocalType'
  <2>1. pc' \in [Handlers -> {"idle", "edit", "put", "unset", "getall", "reload",
                              "publish", "deliver", "drain", "persist"}]
    BY <1>1, <1>2, <1>4 DEF LocalType
  <2>2. todo' \in [Handlers -> SUBSET (Keys \cup Subs)]
    BY <1>1, <1>2, <1>4 DEF LocalType
  <2>3. req' \in [Handlers -> Requests \cup {NoRequest}]
    BY <1>1, <1>2 DEF LocalType
  <2>4. QED
    BY <1>1, <1>2, <2>1, <2>2, <2>3 DEF LocalType
<1>6. Others(h)
  BY <1>1, <1>2 DEF LocalType, Others, Same
<1>7. pc'[h] = label /\ req'[h] = r /\ todo'[h] = keys /\ at'[h] = at[h]
  BY <1>1, <1>2 DEF LocalType
<1>8. Serves(h)'
  BY <1>1, <1>2, <1>4, <1>7 DEF Serves
<1>9. SharedType'
  BY DEF TypeInv, SharedType, Request, watcher, kvVars
<1>10. QED
  BY <1>5, <1>6, <1>8, <1>9, TypeOne DEF Request, watcher

\* The handler has edited its own copy of the policies.
LEMMA TypeEdit ==
    ASSUME TypeInv, NEW h \in Handlers, EditPolicies(h)
    PROVE  TypeInv' /\ Others(h)
<1>1. LocalType /\ Serves(h) /\ SharedType /\ pc[h] = "edit"
  BY DEF TypeInv, EditPolicies
<1>2. SharedType' /\ UNCHANGED <<version, subVars>>
  BY DEF TypeInv, SharedType, EditPolicies, watcher, kvVars
<1>3. CASE Reply(h)
  BY <1>1, <1>2, <1>3, ReplyLocals, TypeOne
<1>4. CASE ~Reply(h)
  <2>1. PICK list \in Edited(req[h], current.policies) :
               cfg' = [cfg EXCEPT ![h] = [current EXCEPT !.policies = list]]
    BY <1>4 DEF EditPolicies
  <2>2. pc' = [pc EXCEPT ![h] = "publish"] /\ UNCHANGED <<req, rows, todo, at, ver>>
    BY <1>4 DEF EditPolicies, Goto
  <2>3. req[h] \in Requests /\ req[h].op \in PolicyOps /\ current.policies \in Seq(Policy)
    BY <1>1, ConfigFields DEF Serves, SharedType
  <2>4. list \in Seq(Policy)
    BY <2>1, <2>3, EditedType
  <2>5. [current EXCEPT !.policies = list] \in Configs
    BY <1>1, <2>4 DEF SharedType, Configs
  <2>6. LocalType' /\ Others(h)
    BY <1>1, <2>1, <2>2, <2>5 DEF LocalType, Others, Same
  <2>7. Serves(h)'
    BY <1>1, <2>2 DEF LocalType, Serves
  <2>8. QED
    BY <1>2, <2>6, <2>7, TypeOne
<1>5. QED
  BY <1>3, <1>4

\* persistPolicies has written the list, or failed.
LEMMA TypePersist ==
    ASSUME TypeInv, NEW h \in Handlers, persistPolicies(h)
    PROVE  TypeInv' /\ Others(h)
<1>1. LocalType /\ Serves(h) /\ SharedType
  BY DEF TypeInv
<1>2. LocalType' /\ Others(h) /\ Serves(h)'
  BY <1>1, ReplyLocals DEF persistPolicies
<1>3. kv' \in Rows
  <2>1. cfg[h].policies \in Seq(Policy)
    BY <1>1, ConfigFields DEF LocalType
  <2> DEFINE v == {cfg[h].policies}
  <2>2. v \subseteq Seq(Policy) /\ \A x, y \in v : x = y
    BY <2>1
  <2>3. kv' = kv \/ kv' = [kv EXCEPT !["policies"] = v]
    BY DEF persistPolicies
  <2> HIDE DEF v
  <2>4. QED
    BY <1>1, <2>2, <2>3, RowWritten DEF SharedType, Keys
<1>4. SharedType' /\ UNCHANGED <<version, subVars>>
  BY <1>1, <1>3 DEF SharedType, persistPolicies, watcher
<1>5. QED
  BY <1>2, <1>4, TypeOne

\* The import has written one of its rows.
LEMMA TypeSetRow ==
    ASSUME TypeInv, NEW h \in Handlers, NEW k \in Keys, SetRow(h, k)
    PROVE  TypeInv' /\ Others(h)
<1>1. LocalType /\ Serves(h) /\ SharedType
  BY DEF TypeInv
<1>2. CASE Reply(h) /\ UNCHANGED kv
  <2>1. SharedType' /\ UNCHANGED <<version, subVars>>
    BY <1>1, <1>2 DEF SharedType, SetRow, watcher
  <2>2. QED
    BY <1>1, <1>2, <2>1, ReplyLocals, TypeOne
<1>3. CASE ~(Reply(h) /\ UNCHANGED kv)
  <2> DEFINE v == req[h].rows[k]
             rest == todo[h] \ {k}
  <2>1. /\ kv' = [kv EXCEPT ![k] = v]
        /\ todo' = [todo EXCEPT ![h] = rest]
        /\ UNCHANGED <<pc, req, cfg, rows, at, ver, calm>>
    BY <1>3 DEF SetRow
  <2>2. pc[h] = "put" /\ req[h] \in Requests /\ req[h].op = "put"
    BY <1>1 DEF SetRow, Serves
  <2>3. req[h].rows \in Puts
    BY <2>2, RequestFields
  <2>4. /\ \A x, y \in v : x = y
        /\ k = "ttl" => v \subseteq KvTtl
        /\ k = "policies" => v \subseteq Seq(Policy)
    BY <2>3, PutFields
  <2>5. rest \subseteq todo[h]
    OBVIOUS
  <2> HIDE DEF v, rest
  <2>6. kv' \in Rows
    BY <1>1, <2>1, <2>4, RowWritten DEF SharedType
  <2>7. SharedType' /\ UNCHANGED <<version, subVars>>
    BY <1>1, <2>1, <2>6 DEF SharedType, SetRow, watcher
  <2>8. LocalType' /\ Others(h)
    <3>1. todo' \in [Handlers -> SUBSET (Keys \cup Subs)]
      BY <1>1, <2>1, <2>5 DEF LocalType
    <3>2. QED
      BY <1>1, <2>1, <3>1 DEF LocalType, Others, Same
  <2>9. Serves(h)'
    BY <1>1, <2>1, <2>2, <2>5 DEF LocalType, Serves
  <2>10. QED
    BY <2>7, <2>8, <2>9, TypeOne
<1>4. QED
  BY <1>2, <1>3

\* The import has written all of them.
LEMMA TypeRowsSet ==
    ASSUME TypeInv, NEW h \in Handlers, RowsSet(h)
    PROVE  TypeInv' /\ Others(h)
<1>1. LocalType /\ Serves(h) /\ SharedType
  BY DEF TypeInv
<1>2. SharedType' /\ UNCHANGED <<version, subVars>>
  BY <1>1 DEF SharedType, RowsSet, watcher, kvVars
<1>3. LocalType' /\ Others(h)
  BY <1>1 DEF LocalType, Others, Same, RowsSet, Goto, locals
<1>4. Serves(h)'
  BY <1>1 DEF LocalType, Serves, RowsSet, Goto, locals, PolicyOps
<1>5. QED
  BY <1>2, <1>3, <1>4, TypeOne

\* A setting is gone from the table.
LEMMA TypeDeleteRow ==
    ASSUME TypeInv, NEW h \in Handlers, DeleteRow(h)
    PROVE  TypeInv' /\ Others(h)
<1>1. LocalType /\ Serves(h) /\ SharedType
  BY DEF TypeInv
<1>2. CASE Reply(h) /\ UNCHANGED kv
  <2>1. SharedType' /\ UNCHANGED <<version, subVars>>
    BY <1>1, <1>2 DEF SharedType, DeleteRow, watcher
  <2>2. QED
    BY <1>1, <1>2, <2>1, ReplyLocals, TypeOne
<1>3. CASE ~(Reply(h) /\ UNCHANGED kv)
  <2>1. /\ kv' = [kv EXCEPT ![req[h].key] = {}] /\ pc[h] = "unset"
        /\ pc' = [pc EXCEPT ![h] = "getall"]
        /\ UNCHANGED <<req, cfg, rows, todo, at, ver, calm>>
    BY <1>3 DEF DeleteRow, Goto, locals
  <2>2. req[h] \in Requests /\ req[h].op = "unset"
    BY <1>1, <2>1 DEF Serves
  <2>3. req[h].key \in Keys
    BY <2>2, RequestFields
  <2>4. kv' \in Rows
    BY <1>1, <2>1, <2>3, RowWritten DEF SharedType
  <2>5. SharedType' /\ UNCHANGED <<version, subVars>>
    BY <1>1, <2>1, <2>4 DEF SharedType, DeleteRow, watcher
  <2>6. LocalType' /\ Others(h)
    BY <1>1, <2>1 DEF LocalType, Others, Same
  <2>7. Serves(h)'
    BY <1>1, <2>1, <2>2 DEF LocalType, Serves, PolicyOps
  <2>8. QED
    BY <2>5, <2>6, <2>7, TypeOne
<1>4. QED
  BY <1>2, <1>3

\* The handler has read the table.
LEMMA TypeGetAll ==
    ASSUME TypeInv, NEW h \in Handlers, GetAll(h)
    PROVE  TypeInv' /\ Others(h)
<1>1. LocalType /\ Serves(h) /\ SharedType
  BY DEF TypeInv
<1>2. SharedType' /\ UNCHANGED <<version, subVars>>
  BY <1>1 DEF SharedType, GetAll, watcher, kvVars
<1>3. CASE Reply(h)
  BY <1>1, <1>2, <1>3, ReplyLocals, TypeOne
<1>4. CASE ~Reply(h)
  <2>1. /\ rows' = [rows EXCEPT ![h] = kv] /\ pc[h] = "getall"
        /\ pc' = [pc EXCEPT ![h] = "reload"]
        /\ UNCHANGED <<req, cfg, todo, at, ver>>
    BY <1>4 DEF GetAll, Goto
  <2>2. LocalType' /\ Others(h)
    BY <1>1, <2>1 DEF LocalType, Others, Same, SharedType
  <2>3. Serves(h)'
    BY <1>1, <2>1 DEF LocalType, Serves
  <2>4. QED
    BY <1>2, <2>2, <2>3, TypeOne
<1>5. QED
  BY <1>3, <1>4

\* The handler has built the configuration that it is going to publish.
LEMMA TypeReload ==
    ASSUME TypeInv, NEW h \in Handlers, reloadConfig(h)
    PROVE  TypeInv' /\ Others(h)
<1>1. LocalType /\ Serves(h) /\ SharedType
  BY DEF TypeInv
<1>2. SharedType' /\ UNCHANGED <<version, subVars>>
  BY <1>1 DEF SharedType, reloadConfig, watcher, kvVars
<1>3. CASE Reply(h)
  BY <1>1, <1>2, <1>3, ReplyLocals, TypeOne
<1>4. CASE ~Reply(h)
  <2> DEFINE c == ApplyOverrides(current, rows[h])
  <2>1. /\ cfg' = [cfg EXCEPT ![h] = c] /\ pc[h] = "reload"
        /\ pc' = [pc EXCEPT ![h] = "publish"]
        /\ UNCHANGED <<req, rows, todo, at, ver>>
    BY <1>4 DEF reloadConfig, Goto
  <2>2. c \in Configs
    BY <1>1, <1>4, OverridesType DEF reloadConfig, SharedType, LocalType
  <2> HIDE DEF c
  <2>3. LocalType' /\ Others(h)
    BY <1>1, <2>1, <2>2 DEF LocalType, Others, Same
  <2>4. Serves(h)'
    BY <1>1, <2>1 DEF LocalType, Serves
  <2>5. QED
    BY <1>2, <2>3, <2>4, TypeOne
<1>5. QED
  BY <1>3, <1>4

\* A new version leaves what was published, and who delivers it, as it was.
LEMMA TypePublish ==
    ASSUME TypeInv, NEW h \in Handlers, Publish(h)
    PROVE  TypeInv' /\ Others(h)
<1>1. LocalType /\ Serves(h) /\ SharedType
  BY DEF TypeInv
<1>2. CASE Reply(h) /\ UNCHANGED watcher
  <2>1. SharedType' /\ UNCHANGED <<version, subVars>>
    BY <1>1, <1>2 DEF SharedType, Publish, watcher, kvVars
  <2>2. QED
    BY <1>1, <1>2, <2>1, ReplyLocals, TypeOne
<1>3. CASE ~(Reply(h) /\ UNCHANGED watcher)
  <2> DEFINE open == {s \in Subs : sub[s] = "open"}
  <2>1. /\ pc[h] = "publish" /\ pc' = [pc EXCEPT ![h] = "deliver"]
        /\ version' = version + 1 /\ current' = cfg[h] /\ closed' = closed
        /\ ver' = [ver EXCEPT ![h] = version + 1]
        /\ todo' = [todo EXCEPT ![h] = open]
        /\ UNCHANGED <<req, cfg, rows, at>>
    BY <1>3 DEF Publish, Goto
  <2>2. open \subseteq Subs /\ version \in Nat \ {0}
    BY <1>1 DEF SharedType
  <2> HIDE DEF open
  <2>3. SharedType'
    BY <1>1, <2>1 DEF SharedType, LocalType, Publish, kvVars
  <2>4. LocalType' /\ Others(h)
    <3>1. todo' \in [Handlers -> SUBSET (Keys \cup Subs)] /\ ver' \in [Handlers -> Nat]
      BY <1>1, <2>1, <2>2 DEF LocalType
    <3>2. QED
      BY <1>1, <2>1, <3>1 DEF LocalType, Others, Same
  <2>5. Serves(h)'
    <3>1. /\ pc'[h] = "deliver" /\ todo'[h] = open /\ ver'[h] = version + 1
          /\ at'[h] = {} /\ req'[h] = req[h] /\ req[h] \in Requests
      BY <1>1, <2>1 DEF LocalType, Serves
    <3>2. QED
      BY <2>1, <2>2, <3>1 DEF Serves
  <2>6. ASSUME NEW g \in Handlers, g # h PROVE Serves(g)'
    <3>1. Serves(g) /\ Same(g) /\ ver[g] \in Nat
      BY <1>1, <2>4, <2>6 DEF TypeInv, Others, LocalType
    <3>2. ver[g] \in 2..version => ver[g] \in 2..version'
      BY <2>1, <2>2, <3>1
    <3>3. QED
      BY <3>1, <3>2 DEF Serves, Same
  <2>7. UNCHANGED <<sub, ch, seen, missed>>
    BY DEF Publish, subVars
  <2>8. SubsType'
    BY <2>7 DEF TypeInv, SubsType
  <2>9. ChannelInv'
    <3>1. 2..version \subseteq 2..version'
      BY <2>1, <2>2
    <3>2. ASSUME NEW s \in Subs
          PROVE  Len(ch'[s]) <= Buffered /\ Published(ch[s])' /\ Published(seen[s])'
      BY <2>7, <3>1 DEF TypeInv, ChannelInv, Published
    <3>3. QED
      BY <3>2 DEF ChannelInv
  <2>10. QED
    BY <2>3, <2>4, <2>5, <2>6, <2>8, <2>9 DEF TypeInv
<1>4. QED
  BY <1>2, <1>3

\* The publisher has nobody left to deliver to, and replies.
LEMMA TypeDelivered ==
    ASSUME TypeInv, NEW h \in Handlers, Delivered(h)
    PROVE  TypeInv' /\ Others(h)
<1>1. LocalType /\ Serves(h) /\ SharedType
  BY DEF TypeInv
<1>2. SharedType' /\ UNCHANGED <<version, subVars>>
  BY <1>1 DEF SharedType, Delivered, Dies, watcher, kvVars
<1>3. CASE Reply(h)
  BY <1>1, <1>2, <1>3, ReplyLocals, TypeOne
<1>4. CASE ~Reply(h)
  <2>1. /\ pc[h] = "deliver" /\ todo[h] = {} /\ req[h].op \in PolicyOps
        /\ pc' = [pc EXCEPT ![h] = "persist"]
        /\ UNCHANGED <<req, cfg, rows, todo, at, ver>>
    BY <1>4 DEF Delivered, Dies, Goto, locals
  <2>2. LocalType' /\ Others(h)
    BY <1>1, <2>1 DEF LocalType, Others, Same
  <2>3. Serves(h)'
    BY <1>1, <2>1 DEF LocalType, Serves
  <2>4. QED
    BY <1>2, <2>2, <2>3, TypeOne
<1>5. QED
  BY <1>3, <1>4

\* One channel is written or read; versions and capacity stay within bounds.
LEMMA ChannelMoves ==
    ASSUME TypeInv, NEW s \in Subs, NEW q \in Seq(Nat), NEW r \in Seq(Nat),
           ch' = [ch EXCEPT ![s] = q], seen' = [seen EXCEPT ![s] = r],
           Len(q) <= Buffered, Published(q), Published(r), version' = version
    PROVE  /\ ch' \in [Subs -> Seq(Nat)] /\ seen' \in [Subs -> Seq(Nat)]
           /\ ChannelInv'
<1>1. ch \in [Subs -> Seq(Nat)] /\ seen \in [Subs -> Seq(Nat)]
  BY DEF TypeInv, SubsType
<1>2. ch' \in [Subs -> Seq(Nat)] /\ seen' \in [Subs -> Seq(Nat)]
  BY <1>1
<1>3. ASSUME NEW u \in Subs
      PROVE  Len(ch'[u]) <= Buffered /\ Published(ch[u])' /\ Published(seen[u])'
  <2>1. CASE u = s
    <3>1. ch'[u] = q /\ seen'[u] = r
      BY <1>1, <2>1
    <3>2. QED
      BY <3>1 DEF Published
  <2>2. CASE u # s
    <3>1. ch'[u] = ch[u] /\ seen'[u] = seen[u]
      BY <1>1, <2>2
    <3>2. QED
      BY <3>1 DEF TypeInv, ChannelInv, Published
  <2>3. QED
    BY <2>1, <2>2
<1>4. QED
  BY <1>2, <1>3 DEF ChannelInv

\* A sequence that loses its first version or gets another one.
LEMMA VersionsMove ==
    ASSUME NEW q \in Seq(Nat), Published(q), NEW n \in Nat
    PROVE  /\ Append(q, n) \in Seq(Nat) /\ Len(Append(q, n)) = Len(q) + 1
           /\ Append(q, n)[Len(q) + 1] = n
           /\ n \in 2..version => Published(Append(q, n))
           /\ q # <<>> => /\ Tail(q) \in Seq(Nat) /\ Len(Tail(q)) = Len(q) - 1
                          /\ Published(Tail(q)) /\ Head(q) \in 2..version
                          /\ Head(q) \in Nat
<1>1. \A i \in 1..Len(q) + 1 : Append(q, n)[i] = IF i = Len(q) + 1 THEN n ELSE q[i]
  OBVIOUS
<1>2. Append(q, n) \in Seq(Nat) /\ Len(Append(q, n)) = Len(q) + 1
  OBVIOUS
<1>3. n \in 2..version => Published(Append(q, n))
  BY <1>1, <1>2 DEF Published
<1>4. ASSUME q # <<>>
      PROVE  /\ Tail(q) \in Seq(Nat) /\ Len(Tail(q)) = Len(q) - 1 /\ Len(q) > 0
             /\ \A i \in 1..Len(q) - 1 : Tail(q)[i] = q[i + 1]
             /\ Head(q) = q[1]
  BY <1>4
<1>5. ASSUME q # <<>> PROVE Published(Tail(q)) /\ Head(q) \in 2..version
  <2>1. \A i \in 1..Len(Tail(q)) : i + 1 \in 1..Len(q) /\ Tail(q)[i] = q[i + 1]
    BY <1>4, <1>5
  <2>2. 1 \in 1..Len(q)
    BY <1>4, <1>5
  <2>3. QED
    BY <1>4, <1>5, <2>1, <2>2 DEF Published
<1>6. QED
  BY <1>1, <1>2, <1>3, <1>4, <1>5

\* A subscriber with room in its channel gets the version.
LEMMA TypeSend ==
    ASSUME TypeInv, NEW h \in Handlers, NEW s \in Subs, Send(h, s)
    PROVE  TypeInv' /\ Others(h)
<1>1. LocalType /\ Serves(h) /\ SharedType /\ SubsType
  BY DEF TypeInv
<1> DEFINE q == Append(ch[s], ver[h])
           rest == todo[h] \ {s}
<1>2. /\ pc[h] = "deliver" /\ Len(ch[s]) < Buffered
      /\ ch' = [ch EXCEPT ![s] = q] /\ todo' = [todo EXCEPT ![h] = rest]
      /\ at' = [at EXCEPT ![h] = {}] /\ UNCHANGED <<pc, req, cfg, rows, ver>>
      /\ UNCHANGED <<sub, seen, missed, version>>
  BY DEF Send, watcher
<1>3. /\ ch[s] \in Seq(Nat) /\ Published(ch[s]) /\ ver[h] \in 2..version
      /\ ver[h] \in Nat /\ seen[s] \in Seq(Nat) /\ Published(seen[s])
  BY <1>1, <1>2 DEF Serves, LocalType, SubsType, TypeInv, ChannelInv
<1>4. /\ q \in Seq(Nat) /\ Len(q) = Len(ch[s]) + 1 /\ Published(q)
  BY <1>3, VersionsMove
<1>5. rest \subseteq todo[h]
  OBVIOUS
<1> HIDE DEF q, rest
<1>6. seen' = [seen EXCEPT ![s] = seen[s]] /\ Len(q) <= Buffered
  BY <1>1, <1>2, <1>3, <1>4 DEF SubsType
<1>7. ch' \in [Subs -> Seq(Nat)] /\ ChannelInv'
  BY <1>2, <1>3, <1>4, <1>6, ChannelMoves
<1>8. SharedType' /\ SubsType'
  BY <1>1, <1>2, <1>7 DEF SharedType, SubsType, Send, watcher, kvVars
<1>9. LocalType' /\ Others(h)
  <2>1. todo' \in [Handlers -> SUBSET (Keys \cup Subs)] /\ at' \in [Handlers -> SUBSET Subs]
    BY <1>1, <1>2, <1>5 DEF LocalType
  <2>2. QED
    BY <1>1, <1>2, <2>1 DEF LocalType, Others, Same
<1>10. Serves(h)'
  <2>1. todo'[h] = rest /\ at'[h] = {}
    BY <1>1, <1>2 DEF LocalType
  <2>2. QED
    BY <1>1, <1>2, <1>5, <2>1 DEF Serves
<1>11. QED
  BY <1>2, <1>7, <1>8, <1>9, <1>10, OneServes DEF TypeInv

\* The publisher finds a full channel.
LEMMA TypeSendFull ==
    ASSUME TypeInv, NEW h \in Handlers, NEW s \in Subs, SendFull(h, s)
    PROVE  TypeInv' /\ Others(h)
<1>1. LocalType /\ Serves(h) /\ SharedType
  BY DEF TypeInv
<1>2. /\ pc[h] = "deliver" /\ s \in Target(h)
      /\ pc' = [pc EXCEPT ![h] = "drain"] /\ at' = [at EXCEPT ![h] = {s}]
      /\ UNCHANGED <<req, cfg, rows, todo, ver>>
  BY DEF SendFull, Goto
<1>3. SharedType' /\ UNCHANGED <<version, subVars>>
  BY <1>1 DEF SharedType, SendFull, watcher, kvVars
<1>4. LocalType' /\ Others(h)
  BY <1>1, <1>2 DEF LocalType, Others, Same
<1>5. Serves(h)'
  <2>1. s \in todo[h]
    BY <1>1, <1>2 DEF Target, Serves
  <2>2. pc'[h] = "drain" /\ at'[h] = {s}
    BY <1>1, <1>2 DEF LocalType
  <2>3. QED
    BY <1>1, <1>2, <1>3, <2>1, <2>2 DEF Serves
<1>6. QED
  BY <1>3, <1>4, <1>5, TypeOne

\* It takes one version out and tries again; had the channel been emptied
\* meanwhile, it gives up, or tries again if the channel is closed.
LEMMA TypeDrain ==
    ASSUME TypeInv, NEW h \in Handlers, NEW s \in Subs, Drain(h, s)
    PROVE  TypeInv' /\ Others(h)
<1>1. LocalType /\ Serves(h) /\ SharedType /\ SubsType
  BY DEF TypeInv
<1> DEFINE rest == todo[h] \ {s}
<1>2. /\ pc[h] = "drain" /\ s \in at[h] /\ pc' = [pc EXCEPT ![h] = "deliver"]
      /\ UNCHANGED <<req, cfg, rows, ver, sub, seen, version>>
  BY DEF Drain, Goto, watcher
<1>3. SharedType'
  BY <1>1 DEF SharedType, Drain, watcher, kvVars
<1>4. \/ UNCHANGED <<todo, at>>
      \/ todo' = [todo EXCEPT ![h] = rest] /\ at' = [at EXCEPT ![h] = {}]
  BY DEF Drain
<1>5. rest \subseteq todo[h]
  OBVIOUS
<1> HIDE DEF rest
<1>6. LocalType' /\ Others(h)
  <2>1. /\ todo' \in [Handlers -> SUBSET (Keys \cup Subs)]
        /\ at' \in [Handlers -> SUBSET Subs]
        /\ \A g \in Handlers \ {h} : todo'[g] = todo[g] /\ at'[g] = at[g]
    BY <1>1, <1>4, <1>5 DEF LocalType
  <2>2. QED
    BY <1>1, <1>2, <2>1 DEF LocalType, Others, Same
<1>7. Serves(h)'
  <2>1. todo'[h] \subseteq todo[h] /\ at'[h] \subseteq todo'[h] /\ pc'[h] = "deliver"
    BY <1>1, <1>2, <1>4, <1>5 DEF LocalType, Serves
  <2>2. QED
    BY <1>1, <1>2, <2>1 DEF Serves
<1>8. missed' \in [Subs -> Nat]
  <2>1. missed' = missed \/ missed' = [missed EXCEPT ![s] = ver[h]]
    BY DEF Drain
  <2>2. QED
    BY <1>1, <2>1 DEF SubsType, LocalType
<1>9. ch' \in [Subs -> Seq(Nat)] /\ ChannelInv'
  <2>1. CASE UNCHANGED ch
    <3>1. \A u \in Subs : /\ Len(ch[u]) <= Buffered
                          /\ Published(ch[u]) /\ Published(seen[u])
      BY DEF TypeInv, ChannelInv
    <3>2. QED
      BY <1>1, <1>2, <2>1, <3>1 DEF SubsType, ChannelInv, Published
  <2>2. CASE ~UNCHANGED ch
    <3> DEFINE q == Tail(ch[s])
    <3>1. ch' = [ch EXCEPT ![s] = q] /\ ch[s] # <<>>
      BY <2>2 DEF Drain
    <3>2. /\ ch[s] \in Seq(Nat) /\ Published(ch[s]) /\ seen[s] \in Seq(Nat)
          /\ Published(seen[s]) /\ Len(ch[s]) <= Buffered
      BY <1>1 DEF SubsType, TypeInv, ChannelInv
    <3>3. q \in Seq(Nat) /\ Len(q) = Len(ch[s]) - 1 /\ Published(q)
      BY <3>1, <3>2, VersionsMove
    <3> HIDE DEF q
    <3>4. seen' = [seen EXCEPT ![s] = seen[s]] /\ Len(q) <= Buffered
      BY <1>1, <1>2, <3>2, <3>3 DEF SubsType
    <3>5. QED
      BY <1>2, <3>1, <3>2, <3>3, <3>4, ChannelMoves
  <2>3. QED
    BY <2>1, <2>2
<1>10. SubsType'
  BY <1>1, <1>2, <1>8, <1>9 DEF SubsType
<1>11. QED
  BY <1>2, <1>3, <1>6, <1>7, <1>9, <1>10, OneServes DEF TypeInv

\* It sends on a channel that a cancel has closed.
LEMMA TypeSendPanics ==
    ASSUME TypeInv, NEW h \in Handlers, NEW s \in Subs, SendPanics(h, s)
    PROVE  TypeInv' /\ Others(h)
<1>1. LocalType /\ SharedType
  BY DEF TypeInv
<1>2. SharedType' /\ UNCHANGED <<version, subVars>>
  BY <1>1 DEF SharedType, SendPanics, Dies, watcher, kvVars
<1>3. QED
  BY <1>1, <1>2, ReplyLocals, TypeOne DEF SendPanics, Dies

\* A handler's step is its own.
LEMMA TypeWork ==
    ASSUME TypeInv, NEW h \in Handlers, Work(h)
    PROVE  TypeInv' /\ Others(h)
  BY TypeEdit, TypePersist, TypeSetRow, TypeRowsSet, TypeDeleteRow, TypeGetAll,
     TypeReload, TypePublish, TypeDelivered, TypeSend, TypeSendFull, TypeDrain,
     TypeSendPanics DEF Work

\* A step of no handler leaves them all as they are.
LEMMA TypeStays ==
    ASSUME TypeInv, UNCHANGED <<pc, locals, version>>
    PROVE  LocalType' /\ \A h \in Handlers : Serves(h)'
<1>1. LocalType' /\ \A h \in Handlers : Same(h)
  BY LocalsStay DEF TypeInv
<1>2. QED
  BY <1>1, SameServes DEF TypeInv

\* What subscribers do changes their own channel only.
LEMMA TypeSubscriber ==
    ASSUME TypeInv, NEW s \in Subs, Subscribe(s) \/ Receive(s) \/ Cancel(s)
    PROVE  TypeInv'
<1>1. /\ UNCHANGED <<pc, locals, version>> /\ SharedType'
      /\ SharedType /\ SubsType /\ ChannelInv
  BY DEF TypeInv, SharedType, Subscribe, Receive, Cancel, watcher, kvVars
<1>2. LocalType' /\ \A h \in Handlers : Serves(h)'
  BY <1>1, TypeStays
<1>3. CASE Subscribe(s) \/ Cancel(s)
  <2>1. SubsType' /\ UNCHANGED <<ch, seen>>
    BY <1>1, <1>3 DEF SubsType, SharedType, Subscribe, Cancel
  <2>2. ChannelInv'
    BY <1>1, <2>1 DEF ChannelInv, Published
  <2>3. QED
    BY <1>1, <1>2, <2>1, <2>2 DEF TypeInv
<1>4. CASE Receive(s)
  <2> DEFINE q == Tail(ch[s])
             r == Append(seen[s], Head(ch[s]))
  <2>1. /\ ch' = [ch EXCEPT ![s] = q] /\ seen' = [seen EXCEPT ![s] = r]
        /\ ch[s] # <<>> /\ UNCHANGED <<sub, missed, version>>
    BY <1>4 DEF Receive, watcher
  <2>2. /\ ch[s] \in Seq(Nat) /\ Published(ch[s]) /\ seen[s] \in Seq(Nat)
        /\ Published(seen[s]) /\ Len(ch[s]) <= Buffered
    BY <1>1 DEF SubsType, ChannelInv
  <2>3. /\ q \in Seq(Nat) /\ Len(q) = Len(ch[s]) - 1 /\ Published(q)
        /\ Head(ch[s]) \in 2..version /\ Head(ch[s]) \in Nat
    BY <2>1, <2>2, VersionsMove
  <2>4. r \in Seq(Nat) /\ Published(r)
    BY <2>2, <2>3, VersionsMove
  <2> HIDE DEF q, r
  <2>5. ch' \in [Subs -> Seq(Nat)] /\ seen' \in [Subs -> Seq(Nat)] /\ ChannelInv'
    <3>1. Len(q) <= Buffered
      BY <2>2, <2>3
    <3>2. QED
      BY <2>1, <2>3, <2>4, <3>1, ChannelMoves
  <2>6. SubsType'
    BY <1>1, <2>1, <2>5 DEF SubsType
  <2>7. QED
    BY <1>1, <1>2, <2>5, <2>6 DEF TypeInv
<1>5. QED
  BY <1>3, <1>4

\* The watcher closes the channels.
LEMMA TypeClose ==
    ASSUME TypeInv, Close PROVE TypeInv'
<1>1. /\ UNCHANGED <<pc, locals, version>> /\ SharedType'
      /\ SubsType /\ ChannelInv
  BY DEF TypeInv, SharedType, Close, watcher, kvVars
<1>2. LocalType' /\ \A h \in Handlers : Serves(h)'
  BY <1>1, TypeStays
<1>3. SubsType' /\ UNCHANGED <<ch, seen>>
  BY <1>1 DEF SubsType, Close
<1>4. ChannelInv'
  BY <1>1, <1>3 DEF ChannelInv, Published
<1>5. QED
  BY <1>1, <1>2, <1>3, <1>4 DEF TypeInv

\* What Init and Restart set up, configuration and rows apart.
Fresh ==
    /\ version = 1
    /\ sub = [s \in Subs |-> "none"]
    /\ ch = [s \in Subs |-> <<>>]
    /\ seen = [s \in Subs |-> <<>>]
    /\ missed = [s \in Subs |-> 0]
    /\ pc = [h \in Handlers |-> "idle"]
    /\ req = [h \in Handlers |-> NoRequest]
    /\ cfg = [h \in Handlers |-> Loaded]
    /\ rows = [h \in Handlers |-> NoRows]
    /\ todo = [h \in Handlers |-> {}]
    /\ at = [h \in Handlers |-> {}]
    /\ ver = [h \in Handlers |-> 0]

\* A process that has just started is well typed.
LEMMA FreshType ==
    ASSUME Fresh, SharedType PROVE TypeInv
<1>1. SubsType
  BY DEF Fresh, SubsType
<1>2. LocalType
  BY LoadedType, NoRowsType DEF Fresh, LocalType
<1>3. ChannelInv
  BY DEF Fresh, ChannelInv, Published
<1>4. \A h \in Handlers : Serves(h)
  BY DEF Fresh, Serves
<1>5. QED
  BY <1>1, <1>2, <1>3, <1>4 DEF TypeInv

\* What the process starts with is a configuration.
LEMMA BootType ==
    ASSUME NEW r \in Rows PROVE Boot(r) \in Configs
  BY LoadedType, OverridesType DEF Boot

\* A restart is a fresh process on the old table.
LEMMA RestartFresh ==
    ASSUME TypeInv, Restart PROVE Fresh' /\ TypeInv'
<1>1. Fresh'
  BY DEF Restart, Fresh
<1>2. current' \in Configs
  BY LoadedType, BootType DEF Restart, TypeInv, SharedType
<1>3. calm' \in BOOLEAN /\ unsaved' \in BOOLEAN
  BY DEF Restart, Parses
<1>4. closed' \in BOOLEAN /\ kv' \in Rows
  BY DEF Restart, TypeInv, SharedType
<1>5. version' \in Nat \ {0} /\ requests' \in Nat /\ boots' \in Nat
  BY DEF Restart, TypeInv, SharedType
<1>6. SharedType'
  BY <1>2, <1>3, <1>4, <1>5 DEF SharedType
<1>7. QED
  BY <1>1, <1>6, FreshType, PTL

\* The types hold at first.
LEMMA TypeInit == Init => TypeInv
<1> SUFFICES ASSUME Init PROVE TypeInv
  OBVIOUS
<1>1. Fresh
  BY DEF Init, Fresh
<1>2. current \in Configs /\ kv \in Rows
  BY LoadedType, NoRowsType DEF Init
<1>3. SharedType
  <2>1. closed \in BOOLEAN /\ calm \in BOOLEAN /\ unsaved \in BOOLEAN
    BY DEF Init
  <2>2. version = 1 /\ requests = 0 /\ boots = 0
    BY DEF Init
  <2>3. QED
    BY <1>2, <2>1, <2>2 DEF SharedType
<1>4. QED
  BY <1>1, <1>3, FreshType

\* Every step keeps the types.
LEMMA TypeStep == TypeInv /\ [Next]_vars => TypeInv'
<1> SUFFICES ASSUME TypeInv, [Next]_vars PROVE TypeInv'
  OBVIOUS
<1>1. CASE UNCHANGED vars
  <2>1. UNCHANGED <<pc, locals, version>> /\ UNCHANGED <<version, sub, ch, seen, missed>>
    BY <1>1 DEF vars, locals
  <2>2. SharedType'
    BY <1>1 DEF vars, TypeInv, SharedType
  <2>3. QED
    BY <2>1, <2>2, TypeStays, ChannelsStay DEF TypeInv
<1>2. QED
  BY <1>1, TypeRequest, TypeWork, TypeSubscriber, TypeClose, RestartFresh DEF Next

\* The state is well typed, "junk" is never in effect, a row has one value and
\* a channel no more than its buffer.
THEOREM TypeCorrect == Spec => []TypeOK
<1>1. TypeInv => TypeOK
  <2> SUFFICES ASSUME TypeInv PROVE TypeOK
    OBVIOUS
  <2>1. SharedType /\ SubsType /\ LocalType /\ ChannelInv
    BY DEF TypeInv
  <2>2. \A k \in Keys : Cardinality(kv[k]) <= 1
    <3> SUFFICES ASSUME NEW k \in Keys PROVE Cardinality(kv[k]) <= 1
      OBVIOUS
    <3>1. \A x, y \in kv[k] : x = y
      BY <2>1, RowsFields DEF SharedType
    <3>2. CASE kv[k] = {}
      BY <3>2, FS_EmptySet
    <3>3. CASE kv[k] # {}
      <4>1. PICK x : kv[k] = {x}
        BY <3>1, <3>3
      <4>2. Cardinality({x}) = 1
        BY FS_Singleton
      <4>3. QED
        BY <4>1, <4>2
    <3>4. QED
      BY <3>2, <3>3
  <2>3. kv["ttl"] \subseteq KvTtl /\ kv["policies"] \subseteq Seq(Policy)
    BY <2>1, RowsFields DEF SharedType
  <2>4. ASSUME NEW s \in Subs
        PROVE  /\ Len(ch[s]) <= Buffered
               /\ ch[s] \in Seq(2..version) /\ seen[s] \in Seq(2..version)
    <3>1. ch[s] \in Seq(Nat) /\ seen[s] \in Seq(Nat)
      BY <2>1 DEF SubsType
    <3>2. ASSUME NEW q \in Seq(Nat), Published(q) PROVE q \in Seq(2..version)
      <4>1. q = [i \in 1..Len(q) |-> q[i]] /\ Len(q) \in Nat
        BY LenProperties
      <4>2. q \in [1..Len(q) -> 2..version]
        BY <3>2, <4>1 DEF Published
      <4>3. q \in UNION {[1..n -> 2..version] : n \in Nat}
        BY <4>1, <4>2
      <4>4. Seq(2..version) = UNION {[1..n -> 2..version] : n \in Nat}
        BY ONLY SeqDef, Zenon
      <4>5. QED
        BY <4>3, <4>4
    <3>3. QED
      BY <2>1, <3>1, <3>2 DEF ChannelInv
  <2>5. \A h \in Handlers : cfg[h] \in Configs /\ at[h] \subseteq todo[h]
    BY <2>1 DEF LocalType, TypeInv, Serves
  <2>6. QED
    BY <2>1, <2>2, <2>3, <2>4, <2>5 DEF TypeOK, SharedType, SubsType, LocalType
<1>2. QED
  BY <1>1, TypeInit, TypeStep, PTL DEF Spec

-----------------------------------------------------------------------------
(* Publish is the only way to a new configuration, a restart apart.        *)

\* What the watcher publishes has passed Validate, under any interleaving of
\* edits, settings writes and reloads; a configuration that has not is in
\* effect only after a restart, until the first Publish.
THEOREM PublishedValidHolds == Spec => []PublishedValid
<1>1. Init => PublishedValid
  BY DEF Init, PublishedValid, Validate, Loaded, ValidTtl
<1>2. TypeInv /\ PublishedValid /\ [Next]_vars => PublishedValid'
  <2> SUFFICES ASSUME TypeInv, PublishedValid, [Next]_vars PROVE PublishedValid'
    OBVIOUS
  <2>1. version \in Nat \ {0} /\ boots \in Nat
    BY DEF TypeInv, SharedType
  <2>2. CASE UNCHANGED <<current, version, boots>>
    BY <2>2 DEF PublishedValid
  <2>3. ASSUME NEW h \in Handlers, Publish(h) PROVE PublishedValid'
    <3>1. CASE UNCHANGED watcher
      BY <2>2, <2>3, <3>1 DEF Publish, watcher
    <3>2. CASE ~UNCHANGED watcher
      <4>1. Validate(cfg[h]) /\ current' = cfg[h]
        BY <2>3, <3>2 DEF Publish
      <4>2. QED
        BY <4>1 DEF PublishedValid, Validate
    <3>3. QED
      BY <3>1, <3>2
  <2>4. CASE Restart
    <3>1. version' = 1 /\ boots' = boots + 1
      BY <2>4 DEF Restart
    <3>2. QED
      BY <2>1, <3>1 DEF PublishedValid
  <2>5. ASSUME NEW h \in Handlers, Work(h), ~Publish(h) PROVE PublishedValid'
    BY <2>2, <2>5 DEF Work, EditPolicies, persistPolicies, SetRow, RowsSet,
       DeleteRow, GetAll, reloadConfig, Delivered, Send, SendFull, Drain,
       SendPanics, watcher
  <2>6. CASE Close \/ \E s \in Subs : Subscribe(s) \/ Receive(s) \/ Cancel(s)
    BY <2>2, <2>6 DEF Close, Subscribe, Receive, Cancel, watcher
  <2>7. ASSUME NEW h \in Handlers, NEW r \in Requests, Request(h, r)
        PROVE  PublishedValid'
    BY <2>2, <2>7 DEF Request, watcher
  <2>8. CASE UNCHANGED vars
    BY <2>2, <2>8 DEF vars
  <2>9. QED
    BY <2>3, <2>4, <2>5, <2>6, <2>7, <2>8 DEF Next
<1>3. QED
  BY <1>1, <1>2, TypeInit, TypeStep, PTL DEF Spec

-----------------------------------------------------------------------------
(* One handler at most is at work while calm.                              *)

\* An overlap ends the calm for good, until the next start.
LEMMA AloneStep ==
    ASSUME TypeInv, Alone, [Next]_vars PROVE Alone'
<1>1. LocalType
  BY DEF TypeInv
<1>2. ASSUME NEW h \in Handlers, Work(h) PROVE Alone'
  <2>1. pc[h] # "idle"
    BY <1>2 DEF Work, EditPolicies, persistPolicies, SetRow, RowsSet, DeleteRow,
       GetAll, reloadConfig, Publish, Delivered, Send, SendFull, Drain, SendPanics
  <2>2. calm' => calm
    BY <1>2 DEF Work, EditPolicies, persistPolicies, SetRow, RowsSet, DeleteRow,
       GetAll, reloadConfig, Publish, Delivered, Send, SendFull, Drain, SendPanics
  <2>3. \A g \in Handlers \ {h} : pc'[g] = pc[g]
    BY <1>2, TypeWork DEF Others, Same
  <2>4. QED
    BY <2>1, <2>2, <2>3 DEF Alone
<1>3. ASSUME NEW h \in Handlers, NEW r \in Requests, Request(h, r) PROVE Alone'
  <2>1. calm' => calm /\ \A g \in Handlers : pc[g] = "idle"
    BY <1>3 DEF Request
  <2>2. \A g \in Handlers \ {h} : pc'[g] = pc[g]
    BY <1>3, TypeRequest DEF Others, Same
  <2>3. QED
    BY <2>1, <2>2 DEF Alone
<1>4. CASE UNCHANGED <<pc, calm>>
  BY <1>4 DEF Alone
<1>5. CASE Close \/ \E s \in Subs : Subscribe(s) \/ Receive(s) \/ Cancel(s)
  BY <1>4, <1>5 DEF Close, Subscribe, Receive, Cancel
<1>6. CASE Restart
  BY <1>6 DEF Restart, Alone
<1>7. CASE UNCHANGED vars
  BY <1>4, <1>7 DEF vars
<1>8. QED
  BY <1>2, <1>3, <1>5, <1>6, <1>7 DEF Next

-----------------------------------------------------------------------------
(* Subscribers end with the newest version.                                *)

\* What NewestInv says of one subscriber.
UpToDate(s) ==
    sub[s] = "open" /\ version > missed[s] =>
        \/ LastIs(s, version)
        \/ \E h \in Handlers : Delivering(h) /\ s \in todo[h]

\* A handler starts or ends without a channel before it.
LEMMA NewestFrame ==
    ASSUME NewestInv, NEW h \in Handlers, Others(h), calm' => calm,
           \A s \in Subs : ~(Delivering(h) /\ s \in todo[h]), ~Delivering(h)',
           UNCHANGED <<version, subVars>>
    PROVE  NewestInv'
<1> SUFFICES ASSUME calm' PROVE NewestInv'
  BY DEF NewestInv
<1>1. calm
  OBVIOUS
<1>2. ASSUME NEW g \in Handlers, Delivering(g)' PROVE ver'[g] = version'
  <2>1. g # h /\ Same(g) /\ Delivering(g)
    BY <1>2 DEF Others, Same, Delivering
  <2>2. QED
    BY <1>1, <2>1 DEF NewestInv, Same
<1>3. ASSUME NEW s \in Subs PROVE UpToDate(s)'
  <2>1. UpToDate(s)
    BY <1>1 DEF NewestInv, UpToDate
  <2>2. UNCHANGED <<version, sub, ch, seen, missed>>
    BY DEF subVars
  <2>3. LastIs(s, version) => LastIs(s, version)'
    BY <2>2 DEF LastIs
  <2>4. ASSUME NEW g \in Handlers, Delivering(g), s \in todo[g]
        PROVE  Delivering(g)' /\ s \in todo'[g]
    <3>1. g # h
      BY <2>4
    <3>2. Same(g)
      BY <3>1 DEF Others
    <3>3. QED
      BY <2>4, <3>2 DEF Same, Delivering
  <2>5. QED
    BY <2>1, <2>2, <2>3, <2>4 DEF UpToDate
<1>4. QED
  BY <1>2, <1>3 DEF NewestInv, UpToDate

\* One subscriber is served, the others are left as they were.
LEMMA NewestOne ==
    ASSUME NewestInv, NEW h \in Handlers, NEW s \in Subs, Others(h), calm' => calm,
           Delivering(h), Delivering(h)', ver'[h] = ver[h],
           \A u \in Subs \ {s} : u \in todo[h] => u \in todo'[h],
           \A u \in Subs \ {s} : ch'[u] = ch[u] /\ missed'[u] = missed[u],
           UNCHANGED <<version, sub, seen>>,
           calm /\ ver[h] = version => UpToDate(s)'
    PROVE  NewestInv'
<1> SUFFICES ASSUME calm' PROVE NewestInv'
  BY DEF NewestInv
<1>1. calm /\ ver[h] = version
  BY DEF NewestInv
<1>2. ASSUME NEW g \in Handlers, Delivering(g)' PROVE ver'[g] = version'
  <2>1. CASE g = h
    BY <1>1, <2>1
  <2>2. CASE g # h
    <3>1. Same(g) /\ Delivering(g)
      BY <1>2, <2>2 DEF Others, Same, Delivering
    <3>2. QED
      BY <1>1, <3>1 DEF NewestInv, Same
  <2>3. QED
    BY <2>1, <2>2
<1>3. ASSUME NEW u \in Subs, u # s PROVE UpToDate(u)'
  <2>1. UpToDate(u)
    BY <1>1 DEF NewestInv, UpToDate
  <2>2. /\ ch'[u] = ch[u] /\ missed'[u] = missed[u] /\ sub'[u] = sub[u]
        /\ seen'[u] = seen[u]
    BY <1>3
  <2>3. LastIs(u, version) => LastIs(u, version)'
    BY <2>2 DEF LastIs
  <2>4. ASSUME NEW g \in Handlers, Delivering(g), u \in todo[g]
        PROVE  Delivering(g)' /\ u \in todo'[g]
    <3>1. CASE g = h
      BY <1>3, <2>4, <3>1
    <3>2. CASE g # h
      <4>1. Same(g)
        BY <3>2 DEF Others
      <4>2. QED
        BY <2>4, <4>1 DEF Same, Delivering
    <3>3. QED
      BY <3>1, <3>2
  <2>5. QED
    BY <2>1, <2>2, <2>3, <2>4 DEF UpToDate
<1>4. QED
  BY <1>1, <1>2, <1>3 DEF NewestInv, UpToDate

\* All open channels are before the publisher.
LEMMA NewestPublish ==
    ASSUME TypeInv, Alone, NewestInv, NEW h \in Handlers, Publish(h)
    PROVE  NewestInv'
<1>1. LocalType /\ Others(h) /\ pc[h] = "publish" /\ calm' = calm
  BY TypePublish DEF TypeInv, Publish
<1>2. CASE Reply(h) /\ UNCHANGED watcher
  <2>1. ~Delivering(h) /\ ~Delivering(h)' /\ UNCHANGED <<version, subVars>>
    BY <1>1, <1>2, ReplyLocals DEF Delivering, Publish, watcher
  <2>2. QED
    BY <1>1, <2>1, NewestFrame
<1>3. CASE ~(Reply(h) /\ UNCHANGED watcher)
  <2> SUFFICES ASSUME calm' PROVE NewestInv'
    BY DEF NewestInv
  <2>1. /\ pc'[h] = "deliver" /\ version' = version + 1 /\ ver'[h] = version + 1
        /\ todo'[h] = {s \in Subs : sub[s] = "open"} /\ sub' = sub
    BY <1>1, <1>3 DEF Publish, Goto, LocalType, subVars
  <2>2. ASSUME NEW g \in Handlers, Delivering(g)' PROVE ver'[g] = version'
    <3>1. CASE g = h
      BY <2>1, <3>1
    <3>2. CASE g # h
      <4>1. pc[g] # "idle"
        BY <1>1, <2>2, <3>2 DEF Others, Same, Delivering
      <4>2. QED
        BY <1>1, <3>2, <4>1 DEF Alone
    <3>3. QED
      BY <3>1, <3>2
  <2>3. ASSUME NEW s \in Subs, sub'[s] = "open"
        PROVE  Delivering(h)' /\ s \in todo'[h]
    BY <2>1, <2>3 DEF Delivering
  <2>4. QED
    BY <2>2, <2>3 DEF NewestInv
<1>4. QED
  BY <1>2, <1>3

\* The version sent is the newest one.
LEMMA NewestSend ==
    ASSUME TypeInv, NewestInv, NEW h \in Handlers, NEW s \in Subs, Send(h, s)
    PROVE  NewestInv'
<1>1. /\ LocalType /\ SubsType /\ Others(h)
      /\ ch[s] \in Seq(Nat) /\ Published(ch[s]) /\ ver[h] \in Nat
  BY TypeSend DEF TypeInv, ChannelInv, SubsType, LocalType, Work
<1> DEFINE q == Append(ch[s], ver[h])
<1>2. /\ pc[h] = "deliver" /\ UNCHANGED <<pc, ver, version, sub, seen, missed, calm>>
      /\ ch' = [ch EXCEPT ![s] = q] /\ todo' = [todo EXCEPT ![h] = todo[h] \ {s}]
  BY DEF Send, watcher
<1>3. q # <<>> /\ q[Len(q)] = ver[h]
  BY <1>1, VersionsMove
<1> HIDE DEF q
<1>4. /\ \A u \in Subs \ {s} : ch'[u] = ch[u]
      /\ \A u \in Subs \ {s} : u \in todo[h] => u \in todo'[h]
      /\ ch'[s] = q
  BY <1>1, <1>2 DEF SubsType, LocalType
<1>5. ver[h] = version => UpToDate(s)'
  BY <1>2, <1>3, <1>4 DEF UpToDate, LastIs
<1>6. Delivering(h) /\ Delivering(h)'
  BY <1>2 DEF Delivering
<1>7. QED
  BY <1>1, <1>2, <1>4, <1>5, <1>6, NewestOne

\* Finding a channel full leaves the newest version still to deliver.
LEMMA NewestSendFull ==
    ASSUME TypeInv, NewestInv, NEW h \in Handlers, NEW s \in Subs, SendFull(h, s)
    PROVE  NewestInv'
<1>1. LocalType /\ Serves(h) /\ Others(h)
  BY TypeSendFull DEF TypeInv
<1>2. /\ pc[h] = "deliver" /\ pc'[h] = "drain" /\ s \in Target(h)
      /\ UNCHANGED <<ver, version, sub, seen, missed, calm, ch, todo>>
  BY <1>1 DEF SendFull, watcher, subVars, Goto, LocalType
<1>3. Delivering(h) /\ Delivering(h)' /\ s \in todo'[h]
  BY <1>1, <1>2 DEF Delivering, Target, Serves
<1>4. UpToDate(s)'
  BY <1>3 DEF UpToDate
<1>5. QED
  BY <1>1, <1>2, <1>3, <1>4, NewestOne

\* The channel drained stays before the handler, or the reader is counted as
\* having missed the newest version.
LEMMA NewestDrain ==
    ASSUME TypeInv, NewestInv, NEW h \in Handlers, NEW s \in Subs, Drain(h, s)
    PROVE  NewestInv'
<1>1. LocalType /\ SubsType /\ Serves(h) /\ Others(h) /\ version \in Nat
  BY TypeDrain DEF TypeInv, SharedType
<1>2. /\ pc[h] = "drain" /\ s \in at[h] /\ pc'[h] = "deliver"
      /\ UNCHANGED <<ver, version, sub, seen, calm>>
  BY <1>1 DEF Drain, Goto, watcher, LocalType
<1>3. Delivering(h) /\ Delivering(h)' /\ s \in todo[h]
  BY <1>1, <1>2 DEF Delivering, Serves
<1>4. /\ \A u \in Subs \ {s} : ch'[u] = ch[u] /\ missed'[u] = missed[u]
      /\ \A u \in Subs \ {s} : u \in todo[h] => u \in todo'[h]
  BY <1>1 DEF Drain, SubsType, LocalType
<1>5. ASSUME ver[h] = version PROVE UpToDate(s)'
  <2>1. CASE UNCHANGED todo
    BY <1>3, <2>1 DEF UpToDate
  <2>2. CASE ~UNCHANGED todo
    <3>1. missed' = [missed EXCEPT ![s] = ver[h]]
      BY <2>2 DEF Drain
    <3>2. missed'[s] = version'
      BY <1>1, <1>2, <1>5, <3>1 DEF SubsType
    <3>3. QED
      BY <1>1, <1>2, <3>2 DEF UpToDate
  <2>3. QED
    BY <2>1, <2>2
<1>6. QED
  BY <1>1, <1>2, <1>3, <1>4, <1>5, NewestOne

\* A handler that works on its request.
LEMMA NewestWork ==
    ASSUME TypeInv, Alone, NewestInv, NEW h \in Handlers, Work(h)
    PROVE  NewestInv'
<1>1. LocalType /\ Others(h)
  BY TypeWork DEF TypeInv
<1>2. CASE EditPolicies(h) \/ persistPolicies(h) \/ (\E k \in Keys : SetRow(h, k))
           \/ RowsSet(h) \/ DeleteRow(h) \/ GetAll(h) \/ reloadConfig(h)
  <2>1. pc[h] \notin {"deliver", "drain"}
    BY <1>2 DEF EditPolicies, persistPolicies, SetRow, RowsSet, DeleteRow, GetAll,
       reloadConfig
  <2>2. pc'[h] \notin {"deliver", "drain"}
    BY <1>1, <1>2 DEF EditPolicies, persistPolicies, SetRow, RowsSet, DeleteRow,
       GetAll, reloadConfig, Reply, Goto, LocalType
  <2>3. (calm' => calm) /\ UNCHANGED <<version, subVars>>
    BY <1>2 DEF EditPolicies, persistPolicies, SetRow, RowsSet, DeleteRow, GetAll,
       reloadConfig, watcher
  <2>4. QED
    BY <1>1, <2>1, <2>2, <2>3, NewestFrame DEF Delivering
<1>3. CASE Delivered(h)
  <2>1. /\ todo[h] = {} /\ pc'[h] \in {"idle", "persist"} /\ calm' = calm
        /\ UNCHANGED <<version, subVars>>
    BY <1>1, <1>3 DEF Delivered, Dies, Reply, Goto, LocalType, watcher
  <2>2. QED
    BY <1>1, <2>1, NewestFrame DEF Delivering
<1>4. ASSUME NEW s \in Subs, SendPanics(h, s) PROVE NewestInv'
  BY <1>4 DEF SendPanics, NewestInv
<1>5. QED
  BY <1>2, <1>3, <1>4, NewestPublish, NewestSend, NewestSendFull, NewestDrain DEF Work

\* The reader moves a version from the channel to what it has received.
LEMMA ReceiveLast ==
    ASSUME NEW q \in Seq(Nat), NEW r \in Seq(Nat), q # <<>>
    PROVE  LET r2 == Append(r, Head(q))
               q2 == Tail(q)
           IN  /\ q2 # <<>> => q2[Len(q2)] = q[Len(q)]
               /\ q2 = <<>> => r2 # <<>> /\ r2[Len(r2)] = q[Len(q)]
<1> DEFINE r2 == Append(r, Head(q))
           q2 == Tail(q)
<1>1. /\ q2 \in Seq(Nat) /\ Len(q2) = Len(q) - 1 /\ Len(q) \in Nat \ {0}
      /\ \A i \in 1..Len(q) - 1 : q2[i] = q[i + 1]
  OBVIOUS
<1>2. Head(q) = q[1] /\ Head(q) \in Nat
  OBVIOUS
<1>3. r2 # <<>> /\ r2[Len(r2)] = q[1]
  <2>1. Len(r2) = Len(r) + 1 /\ r2[Len(r) + 1] = Head(q) /\ r2 \in Seq(Nat)
    BY <1>2
  <2> HIDE DEF r2
  <2>2. QED
    BY <1>2, <2>1
<1> HIDE DEF r2, q2
<1>4. q2 = <<>> => Len(q) = 1
  BY <1>1
<1>5. q2 # <<>> => Len(q2) \in 1..Len(q) - 1 /\ Len(q2) + 1 = Len(q)
  BY <1>1
<1>6. QED
  BY <1>1, <1>3, <1>4, <1>5 DEF r2, q2

\* A subscriber that comes, reads or goes.
LEMMA NewestSubscriber ==
    ASSUME TypeInv, NewestInv, NEW s \in Subs, Subscribe(s) \/ Receive(s) \/ Cancel(s)
    PROVE  NewestInv'
<1>1. SubsType /\ version \in Nat
  BY DEF TypeInv, SharedType
<1>2. UNCHANGED <<pc, todo, ver, version, calm>>
  BY DEF Subscribe, Receive, Cancel, locals, watcher
<1> SUFFICES ASSUME calm' PROVE NewestInv'
  BY DEF NewestInv
<1>3. \A h \in Handlers : Delivering(h)' <=> Delivering(h)
  BY <1>2 DEF Delivering
<1>4. ASSUME NEW u \in Subs PROVE UpToDate(u)'
  <2>1. UpToDate(u)
    BY <1>2 DEF NewestInv, UpToDate
  <2>2. CASE sub'[u] = sub[u] /\ missed'[u] = missed[u] /\ ch'[u] = ch[u] /\ seen'[u] = seen[u]
    <3>1. LastIs(u, version) => LastIs(u, version)'
      BY <1>2, <2>2 DEF LastIs
    <3>2. QED
      BY <1>2, <1>3, <2>1, <2>2, <3>1 DEF UpToDate
  <2>3. CASE Subscribe(s) /\ u = s
    <3>1. missed'[u] = version'
      BY <1>1, <1>2, <2>3 DEF Subscribe, SubsType
    <3>2. QED
      BY <1>1, <1>2, <3>1 DEF UpToDate
  <2>4. CASE Cancel(s) /\ u = s
    BY <1>1, <2>4 DEF Cancel, SubsType, UpToDate
  <2>5. CASE Receive(s) /\ u = s
    <3>1. /\ ch[u] # <<>> /\ ch[u] \in Seq(Nat) /\ seen[u] \in Seq(Nat)
          /\ ch'[u] = Tail(ch[u]) /\ seen'[u] = Append(seen[u], Head(ch[u]))
          /\ sub' = sub /\ missed' = missed
      BY <1>1, <2>5 DEF Receive, SubsType
    <3>2. /\ ch'[u] # <<>> => ch'[u][Len(ch'[u])] = ch[u][Len(ch[u])]
          /\ ch'[u] = <<>> => seen'[u] # <<>> /\ seen'[u][Len(seen'[u])] = ch[u][Len(ch[u])]
      BY <3>1, ReceiveLast
    <3>3. LastIs(u, version) => LastIs(u, version)'
      BY <1>2, <3>1, <3>2 DEF LastIs
    <3>4. QED
      BY <1>2, <1>3, <2>1, <3>1, <3>3 DEF UpToDate
  <2>6. QED
    BY <1>1, <2>2, <2>3, <2>4, <2>5 DEF Subscribe, Receive, Cancel, SubsType
<1>5. QED
  BY <1>2, <1>3, <1>4 DEF NewestInv, UpToDate

\* Every step keeps the newest version delivered or still to deliver.
LEMMA NewestStep ==
    ASSUME TypeInv, Alone, NewestInv, [Next]_vars PROVE NewestInv'
<1>1. ASSUME NEW h \in Handlers, NEW r \in Requests, Request(h, r) PROVE NewestInv'
  <2>1. LocalType /\ Others(h)
    BY <1>1, TypeRequest DEF TypeInv
  <2>2. pc[h] = "idle" /\ pc'[h] \notin {"deliver", "drain"}
    BY <1>1, <2>1, RequestFields DEF Request, Goto, LocalType, PolicyOps
  <2>3. (calm' => calm) /\ UNCHANGED <<version, subVars>>
    BY <1>1 DEF Request, watcher
  <2>4. QED
    BY <2>1, <2>2, <2>3, NewestFrame DEF Delivering
<1>2. CASE Close
  <2>1. /\ UNCHANGED <<pc, todo, ver, version, calm, ch, seen, missed>>
        /\ \A s \in Subs : sub'[s] # "open"
    BY <1>2 DEF Close, locals, TypeInv, SubsType
  <2>2. QED
    BY <2>1 DEF NewestInv, Delivering
<1>3. CASE Restart
  <2>1. Fresh'
    BY <1>3, RestartFresh
  <2>2. QED
    BY <2>1 DEF Fresh, NewestInv, Delivering
<1>4. CASE UNCHANGED vars
  BY <1>4 DEF vars, NewestInv, Delivering, LastIs
<1>5. QED
  BY <1>1, <1>2, <1>3, <1>4, NewestWork, NewestSubscriber DEF Next

\* Alone and NewestInv are invariants.
LEMMA NewestInvariance == Spec => [](TypeInv /\ Alone /\ NewestInv)
<1>1. Init => Alone /\ NewestInv
  BY DEF Init, Alone, NewestInv, Delivering
<1>2. TypeInv /\ Alone /\ NewestInv /\ [Next]_vars => Alone' /\ NewestInv'
  BY AloneStep, NewestStep
<1>3. QED
  BY <1>1, <1>2, TypeInit, TypeStep, PTL DEF Spec

\* The last element of a concatenation is that of its second part.
LEMMA LastOfConcat ==
    ASSUME NEW a \in Seq(Nat), NEW b \in Seq(Nat), b # <<>>
    PROVE  a \o b # <<>> /\ (a \o b)[Len(a \o b)] = b[Len(b)]
<1> DEFINE all == a \o b
<1>1. all \in Seq(Nat) /\ Len(all) = Len(a) + Len(b)
  BY Concat
<1>2. Len(b) \in 1..Len(b) /\ Len(a) \in Nat
  OBVIOUS
<1>3. all[Len(a) + Len(b)] = b[Len(b)]
  BY <1>2, Concat
<1> HIDE DEF all
<1>4. all # <<>> /\ all[Len(all)] = b[Len(b)]
  BY <1>1, <1>2, <1>3
<1>5. QED
  BY <1>4 DEF all

\* Once the publishers are done, what a subscriber got last or finds in its
\* channel last is the newest configuration, whatever the capacity of the
\* channels and however the reader interleaves with deliver.
THEOREM NewestLastHolds == Spec => []NewestLast
<1>1. TypeInv /\ NewestInv => NewestLast
  <2> SUFFICES ASSUME TypeInv, NewestInv, calm, AllIdle,
                      NEW s \in Subs, sub[s] = "open", version > missed[s]
               PROVE  LET all == seen[s] \o ch[s]
                      IN  all # <<>> /\ all[Len(all)] = version
    BY DEF NewestLast
  <2>1. LastIs(s, version)
    BY DEF NewestInv, AllIdle, Delivering
  <2>2. seen[s] \in Seq(Nat) /\ ch[s] \in Seq(Nat)
    BY DEF TypeInv, SubsType
  <2>3. CASE ch[s] # <<>>
    <3>1. Len(ch[s]) \in 1..Len(ch[s]) /\ ch[s][Len(ch[s])] = version
      BY <2>1, <2>2, <2>3 DEF LastIs
    <3>2. QED
      BY <2>2, <2>3, <3>1, LastOfConcat
  <2>4. CASE ch[s] = <<>>
    <3>1. seen[s] \o ch[s] = seen[s]
      BY <2>2, <2>4, ConcatEmptySeq
    <3>2. QED
      BY <2>1, <2>4, <3>1 DEF LastIs
  <2>5. QED
    BY <2>3, <2>4
<1>2. QED
  BY <1>1, NewestInvariance, PTL

-----------------------------------------------------------------------------
(* The rows bring the policies back.                                       *)

\* Reading its row again leaves a list of policies as it is.
LEMMA ReloadKeeps ==
    ASSUME NEW list \in Seq(Policy), NEW row \in SUBSET Seq(Policy), InSync(list, row)
    PROVE  DecodeSlice(list, Overlay(list, row)) = list
<1>1. CASE row = {}
  BY <1>1, DecodeLonger DEF Overlay
<1>2. CASE row # {}
  <2>1. The(row) \in row
    BY <1>2 DEF The
  <2> DEFINE l == The(row)
  <2>2. l \in Seq(Policy) /\ list \in {l, DecodeSlice(Base, l)}
    BY <2>1 DEF InSync
  <2>3. Overlay(list, row) = l
    BY <1>2 DEF Overlay
  <2> HIDE DEF l
  <2>4. CASE list = l
    BY <2>2, <2>3, <2>4, DecodeLonger
  <2>5. CASE list = DecodeSlice(Base, l)
    BY <2>2, <2>3, <2>5, DecodeAgain
  <2>6. QED
    BY <2>2, <2>4, <2>5
<1>3. QED
  BY <1>1, <1>2

\* What the start makes of a row is in sync with it.
LEMMA BootSyncs ==
    ASSUME "policies" \notin EnvKeys, NEW r \in Rows, Parses(r)
    PROVE  InSync(Boot(r).policies, r["policies"])
<1> DEFINE row == r["policies"]
           list == DecodeSlice(Base, Overlay(Base, row))
<1>1. Boot(r).policies = list
  BY DEF Boot, ApplyOverrides, Row, Loaded
<1>2. row \subseteq Seq(Policy) /\ \A x, y \in row : x = y
  BY RowsFields DEF Keys
<1> HIDE DEF row
<1>3. CASE row = {}
  <2>1. list = Base
    BY <1>3, DecodeLonger DEF Overlay
  <2>2. QED
    BY <1>1, <1>3, <2>1 DEF InSync, row
<1>4. CASE row # {}
  <2>1. \A l \in row : Overlay(Base, row) = l
    BY <1>2, <1>4 DEF Overlay, The
  <2>2. \A l \in row : list = DecodeSlice(Base, l)
    BY <2>1
  <2>3. QED
    BY <1>1, <1>4, <2>2 DEF InSync, row
<1>5. QED
  BY <1>3, <1>4

\* It is enough to look at the one handler at work.
LEMMA DurableOne ==
    ASSUME TypeInv, Alone, NEW h \in Handlers, pc[h] # "idle", Others(h),
           calm' => calm, calm' => Lasting' \/ Persisting(h)', calm' => DurableOf(h)'
    PROVE  DurableInv'
<1> SUFFICES ASSUME calm' PROVE DurableInv'
  BY DEF DurableInv
<1>1. ASSUME NEW g \in Handlers, g # h PROVE DurableOf(g)'
  <2>1. pc[g] = "idle"
    BY <1>1 DEF Alone
  <2>2. pc'[g] = "idle"
    BY <1>1, <2>1 DEF Others, Same
  <2>3. QED
    BY <2>2 DEF DurableOf, Persisting
<1>2. QED
  BY <1>1 DEF DurableInv

\* Before the step.
LEMMA DurableBefore ==
    ASSUME TypeInv, Alone, DurableInv, NEW h \in Handlers, pc[h] # "idle", calm
    PROVE  (Lasting \/ Persisting(h)) /\ DurableOf(h)
<1>1. ASSUME NEW g \in Handlers, Persisting(g) PROVE g = h
  BY <1>1 DEF Alone, Persisting
<1>2. QED
  BY <1>1 DEF DurableInv

\* The steps that leave configuration and rows alone and do not persist.
LEMMA DurableRest ==
    ASSUME TypeInv, Alone, DurableInv, NEW h \in Handlers, pc[h] # "idle", Others(h),
           calm' => calm, current' = current, kv' = kv,
           unsaved' \/ (~Persisting(h) /\ unsaved' = unsaved),
           pc'[h] \in {"idle", "put", "getall", "publish"},
           pc'[h] = "publish" => req'[h].op \in PolicyOps
    PROVE  DurableInv'
<1>1. calm' => Lasting'
  BY DurableBefore DEF Lasting, Kept, Synced
<1>2. DurableOf(h)'
  BY DEF DurableOf, Persisting
<1>3. QED
  BY <1>1, <1>2, DurableOne

\* The edit starts from the published policies, which are those of the table.
LEMMA DurableEdit ==
    ASSUME TypeInv, Alone, DurableInv, NEW h \in Handlers, EditPolicies(h)
    PROVE  DurableInv'
<1>1. LocalType /\ Others(h) /\ Serves(h) /\ pc[h] = "edit"
  BY TypeEdit DEF TypeInv, EditPolicies
<1>2. /\ calm' = calm /\ current' = current /\ kv' = kv /\ unsaved' = unsaved
      /\ req[h].op \in PolicyOps
  BY <1>1 DEF EditPolicies, watcher, kvVars, Serves
<1>3. pc'[h] = "idle" \/ (pc'[h] = "publish" /\ req' = req)
  <2>1. CASE Reply(h)
    BY <1>1, <2>1, ReplyLocals
  <2>2. CASE ~Reply(h)
    BY <1>1, <2>2 DEF EditPolicies, Goto, LocalType
  <2>3. QED
    BY <2>1, <2>2
<1>4. QED
  BY <1>1, <1>2, <1>3, DurableRest DEF Persisting

\* A written list is the one that the handler edited; after a failed write the
\* policies are unsaved.
LEMMA DurablePersist ==
    ASSUME TypeInv, Alone, DurableInv, NEW h \in Handlers, persistPolicies(h)
    PROVE  DurableInv'
<1>1. /\ LocalType /\ SharedType /\ Others(h) /\ Serves(h) /\ pc[h] = "persist"
      /\ pc'[h] = "idle"
  BY TypePersist, ReplyLocals DEF TypeInv, persistPolicies
<1>2. DurableOf(h)' /\ calm' = calm /\ current' = current
  BY <1>1 DEF DurableOf, Persisting, persistPolicies, watcher
<1>3. ASSUME calm', ~unsaved' PROVE Synced'
  <2>1. calm /\ kv' = [kv EXCEPT !["policies"] = {cfg[h].policies}]
    BY <1>2, <1>3 DEF persistPolicies
  <2>2. Persisting(h)
    BY <1>1 DEF Persisting, Serves
  <2>3. cfg[h].policies = current.policies
    BY <2>1, <2>2 DEF DurableInv, DurableOf
  <2>4. kv'["policies"] = {current.policies}
    BY <1>1, <2>1, <2>3, RowsFields DEF SharedType, Keys
  <2>5. QED
    BY <1>2, <2>4 DEF Synced, InSync
<1>4. calm' => Lasting'
  BY <1>3 DEF Lasting, Kept
<1>5. QED
  BY <1>1, <1>2, <1>4, DurableOne

\* The settings handlers write other rows, or the policies count as unsaved.
LEMMA DurableSettings ==
    ASSUME TypeInv, Alone, DurableInv, NEW h \in Handlers,
           (\E k \in Keys : SetRow(h, k)) \/ DeleteRow(h)
    PROVE  DurableInv'
<1>1. LocalType /\ SharedType /\ Others(h) /\ Serves(h)
  BY TypeSetRow, TypeDeleteRow DEF TypeInv
<1>2. /\ pc[h] \in {"put", "unset"} /\ pc'[h] \in {"idle", "put", "getall"}
      /\ calm' = calm /\ current' = current
  BY <1>1 DEF SetRow, DeleteRow, Reply, Goto, LocalType, watcher
<1>3. unsaved' \/ (unsaved' = unsaved /\ kv'["policies"] = kv["policies"])
  <2>0. DOMAIN kv = Keys /\ "policies" \in Keys
    BY <1>1, RowsFields DEF SharedType, Keys
  <2>1. ASSUME NEW k \in Keys, SetRow(h, k), ~unsaved'
        PROVE  unsaved' = unsaved /\ kv'["policies"] = kv["policies"]
    <3>1. CASE UNCHANGED <<kv, unsaved>>
      BY <3>1
    <3>2. CASE /\ kv' = [kv EXCEPT ![k] = req[h].rows[k]]
               /\ unsaved' = (unsaved \/ k = "policies")
      <4>1. k # "policies" /\ ~unsaved
        BY <2>1, <3>2
      <4>2. QED
        BY <1>1, <2>0, <2>1, <3>2, <4>1 DEF SharedType
    <3>3. QED
      BY <2>1, <3>1, <3>2 DEF SetRow
  <2>2. ASSUME DeleteRow(h), ~unsaved'
        PROVE  unsaved' = unsaved /\ kv'["policies"] = kv["policies"]
    <3>1. CASE UNCHANGED <<kv, unsaved>>
      BY <3>1
    <3>2. CASE /\ kv' = [kv EXCEPT ![req[h].key] = {}]
               /\ unsaved' = (unsaved \/ req[h].key = "policies")
      <4>1. req[h].key # "policies" /\ ~unsaved
        BY <2>2, <3>2
      <4>2. QED
        BY <1>1, <2>0, <2>2, <3>2, <4>1 DEF SharedType
    <3>3. QED
      BY <2>2, <3>1, <3>2 DEF DeleteRow
  <2>3. unsaved' \/ ~unsaved'
    OBVIOUS
  <2>4. QED
    BY <2>1, <2>2, <2>3
<1>4. ASSUME calm' PROVE Lasting'
  <2>1. Lasting
    BY <1>2, <1>4, DurableBefore DEF Persisting
  <2>2. QED
    BY <1>2, <1>3, <2>1 DEF Lasting, Kept, Synced
<1>5. DurableOf(h)'
  BY <1>2 DEF DurableOf, Persisting
<1>6. QED
  BY <1>1, <1>2, <1>4, <1>5, DurableOne

\* The handler reads what it, alone, has left in the table.
LEMMA DurableGetAll ==
    ASSUME TypeInv, Alone, DurableInv, NEW h \in Handlers, GetAll(h)
    PROVE  DurableInv'
<1>1. LocalType /\ Others(h) /\ pc[h] = "getall"
  BY TypeGetAll DEF TypeInv, GetAll
<1>2. calm' = calm /\ current' = current /\ kv' = kv /\ unsaved' = unsaved
  BY DEF GetAll, watcher, kvVars
<1>3. pc'[h] = "idle" \/ (pc'[h] = "reload" /\ rows'[h] = kv)
  <2>1. CASE Reply(h)
    BY <1>1, <2>1, ReplyLocals
  <2>2. CASE ~Reply(h)
    BY <1>1, <2>2 DEF GetAll, Goto, LocalType
  <2>3. QED
    BY <2>1, <2>2
<1>4. ASSUME calm' PROVE Lasting'
  <2>1. Lasting
    BY <1>1, <1>2, <1>4, DurableBefore DEF Persisting
  <2>2. QED
    BY <1>2, <2>1 DEF Lasting, Kept, Synced
<1>5. DurableOf(h)'
  BY <1>2, <1>3 DEF DurableOf, Persisting
<1>6. QED
  BY <1>1, <1>2, <1>4, <1>5, DurableOne

\* What it builds from these rows has the policies in effect.
LEMMA DurableReload ==
    ASSUME TypeInv, Alone, DurableInv, NEW h \in Handlers, reloadConfig(h)
    PROVE  DurableInv'
<1>1. LocalType /\ SharedType /\ Others(h) /\ Serves(h) /\ pc[h] = "reload"
  BY TypeReload DEF TypeInv, reloadConfig
<1>2. calm' = calm /\ current' = current /\ kv' = kv /\ unsaved' = unsaved
  BY DEF reloadConfig, watcher, kvVars
<1>3. ASSUME calm' PROVE Lasting /\ Lasting'
  <2>1. Lasting
    BY <1>1, <1>2, <1>3, DurableBefore DEF Persisting
  <2>2. QED
    BY <1>2, <2>1 DEF Lasting, Kept, Synced
<1>4. CASE Reply(h)
  <2>1. DurableOf(h)'
    BY <1>1, <1>4, ReplyLocals DEF DurableOf, Persisting
  <2>2. QED
    BY <1>1, <1>2, <1>3, <2>1, DurableOne
<1>5. CASE ~Reply(h)
  <2>1. /\ cfg' = [cfg EXCEPT ![h] = ApplyOverrides(current, rows[h])]
        /\ pc' = [pc EXCEPT ![h] = "publish"]
    BY <1>5 DEF reloadConfig, Goto
  <2>2. pc'[h] = "publish" /\ cfg'[h] = ApplyOverrides(current, rows[h])
    BY <1>1, <2>1 DEF LocalType
  <2>3. ASSUME calm', Kept PROVE cfg'[h].policies = current.policies
    <3>1. rows[h]["policies"] = kv["policies"]
      BY <1>1, <1>2, <2>3 DEF DurableInv, DurableOf
    <3>2. /\ current.policies \in Seq(Policy) /\ kv["policies"] \in SUBSET Seq(Policy)
          /\ InSync(current.policies, kv["policies"])
      BY <1>1, <1>3, <2>3, ConfigFields, RowsFields DEF SharedType, Synced, Lasting
    <3>3. cfg'[h].policies
             = DecodeSlice(current.policies, Overlay(current.policies, kv["policies"]))
      BY <2>2, <2>3, <3>1 DEF ApplyOverrides, Row, Kept
    <3>4. QED
      BY <3>2, <3>3, ReloadKeeps
  <2>4. calm' => DurableOf(h)'
    BY <1>2, <2>2, <2>3 DEF DurableOf, Persisting, Kept
  <2>5. QED
    BY <1>1, <1>2, <1>3, <2>4, DurableOne
<1>6. QED
  BY <1>4, <1>5

\* Publishing makes the policies of the table the published ones.
LEMMA DurablePublish ==
    ASSUME TypeInv, Alone, DurableInv, NEW h \in Handlers, Publish(h)
    PROVE  DurableInv'
<1>1. LocalType /\ Others(h) /\ pc[h] = "publish"
  BY TypePublish DEF TypeInv, Publish
<1>2. calm' = calm /\ kv' = kv /\ unsaved' = unsaved
  BY DEF Publish, kvVars
<1>3. CASE Reply(h) /\ UNCHANGED watcher
  <2>1. /\ pc'[h] \in {"idle", "put", "getall", "publish"} /\ pc'[h] # "publish"
        /\ ~Persisting(h) /\ pc[h] # "idle"
    BY <1>1, <1>3, ReplyLocals DEF Persisting
  <2>2. current' = current
    BY <1>3 DEF watcher
  <2>3. QED
    BY <1>1, <1>2, <2>1, <2>2, DurableRest
<1>4. CASE ~(Reply(h) /\ UNCHANGED watcher)
  <2>1. pc'[h] = "deliver" /\ current' = cfg[h] /\ cfg' = cfg /\ req' = req
    BY <1>1, <1>4 DEF Publish, Goto, LocalType
  <2>2. DurableOf(h)'
    BY <2>1 DEF DurableOf
  <2>3. ASSUME calm', req[h].op \notin PolicyOps PROVE Lasting'
    <3>1. Kept => Synced /\ cfg[h].policies = current.policies
      BY <1>1, <1>2, <2>3, DurableBefore DEF Persisting, DurableOf, Lasting
    <3>2. QED
      BY <1>2, <2>1, <3>1 DEF Lasting, Kept, Synced
  <2>4. req[h].op \in PolicyOps => Persisting(h)'
    BY <2>1 DEF Persisting
  <2>5. QED
    BY <1>1, <1>2, <2>2, <2>3, <2>4, DurableOne
<1>5. QED
  BY <1>3, <1>4

\* Delivery touches neither the table nor the published configuration; when the
\* event bus panics the edit is unsaved.
LEMMA DurableDeliver ==
    ASSUME TypeInv, Alone, DurableInv, NEW h \in Handlers,
           \/ Delivered(h)
           \/ \E s \in Subs : Send(h, s) \/ SendFull(h, s) \/ Drain(h, s)
    PROVE  DurableInv'
<1>1. LocalType /\ Others(h)
  BY TypeDelivered, TypeSend, TypeSendFull, TypeDrain DEF TypeInv
<1>2. calm' = calm /\ kv' = kv /\ current' = current /\ pc[h] \in {"deliver", "drain"}
  BY DEF Delivered, Send, SendFull, Drain, kvVars, watcher
<1>3. CASE pc'[h] = "idle"
  <2>1. unsaved' \/ (~Persisting(h) /\ unsaved' = unsaved)
    <3>1. Delivered(h)
      BY <1>1, <1>2, <1>3 DEF Send, SendFull, Drain, Goto, LocalType
    <3>2. CASE req[h].op \in PolicyOps
      <4>1. pc' # [pc EXCEPT ![h] = "persist"]
        BY <1>1, <1>3 DEF LocalType
      <4>2. Dies(h)
        BY <3>1, <3>2, <4>1 DEF Delivered, Goto
      <4>3. QED
        BY <3>2, <4>2 DEF Dies
    <3>3. CASE req[h].op \notin PolicyOps
      <4>1. unsaved' = unsaved
        BY <3>1, <3>3 DEF Delivered, Dies, TypeInv, SharedType
      <4>2. QED
        BY <3>3, <4>1 DEF Persisting
    <3>4. QED
      BY <3>2, <3>3
  <2>2. /\ pc'[h] \in {"idle", "put", "getall", "publish"} /\ pc'[h] # "publish"
        /\ pc[h] # "idle"
    BY <1>2, <1>3
  <2>3. QED
    BY <1>1, <1>2, <2>1, <2>2, DurableRest
<1>4. CASE pc'[h] # "idle"
  <2>1. /\ pc'[h] \in {"deliver", "drain", "persist"} /\ req' = req /\ cfg' = cfg
        /\ unsaved' = unsaved
    BY <1>1, <1>4 DEF Delivered, Dies, Send, SendFull, Drain, Reply, Goto, LocalType, locals
  <2>2. Persisting(h)' <=> Persisting(h)
    BY <1>2, <2>1 DEF Persisting
  <2>3. calm => (Lasting \/ Persisting(h)) /\ DurableOf(h)
    BY <1>2, DurableBefore
  <2>4. Lasting' <=> Lasting
    BY <1>2, <2>1 DEF Lasting, Kept, Synced
  <2>5. calm => DurableOf(h)'
    BY <1>2, <2>1, <2>2, <2>3 DEF DurableOf
  <2>6. QED
    BY <1>1, <1>2, <2>2, <2>3, <2>4, <2>5, DurableOne
<1>5. QED
  BY <1>3, <1>4

\* Every step keeps table and configuration together while requests do not overlap.
LEMMA DurableStep ==
    ASSUME TypeInv, Alone, DurableInv, [Next]_vars
    PROVE  DurableInv'
<1>1. ASSUME NEW h \in Handlers, NEW r \in Requests, Request(h, r) PROVE DurableInv'
  <2>1. LocalType /\ Others(h)
    BY <1>1, TypeRequest DEF TypeInv
  <2>2. pc'[h] \in {"edit", "put", "unset"}
    BY <1>1, <2>1, RequestFields DEF Request, Goto, LocalType, PolicyOps
  <2>3. /\ current' = current /\ kv' = kv /\ unsaved' = unsaved
        /\ calm' => calm /\ \A g \in Handlers : pc[g] = "idle"
    BY <1>1 DEF Request, watcher, kvVars
  <2>4. ASSUME calm' PROVE Lasting' /\ \A g \in Handlers : DurableOf(g)'
    <3>1. Lasting
      BY <2>3, <2>4 DEF DurableInv, Persisting
    <3>2. \A g \in Handlers : pc'[g] \in {"idle", "edit", "put", "unset"}
      BY <2>1, <2>2, <2>3, <2>4 DEF Others, Same
    <3>3. QED
      BY <2>3, <3>1, <3>2 DEF Lasting, Kept, Synced, DurableOf, Persisting
  <2>5. QED
    BY <2>4 DEF DurableInv
<1>2. ASSUME NEW h \in Handlers, RowsSet(h) PROVE DurableInv'
  <2>1. LocalType /\ Others(h) /\ pc[h] = "put" /\ pc' = [pc EXCEPT ![h] = "getall"]
    BY <1>2, TypeRowsSet DEF TypeInv, RowsSet, Goto
  <2>2. /\ pc'[h] = "getall" /\ calm' = calm /\ current' = current /\ kv' = kv
        /\ unsaved' = unsaved
    BY <1>2, <2>1 DEF RowsSet, watcher, kvVars, LocalType
  <2>3. /\ pc'[h] \in {"idle", "put", "getall", "publish"} /\ pc'[h] # "publish"
        /\ ~Persisting(h) /\ pc[h] # "idle"
    BY <2>1, <2>2 DEF Persisting
  <2>4. QED
    BY <2>1, <2>2, <2>3, DurableRest
<1>3. ASSUME NEW h \in Handlers, NEW s \in Subs, SendPanics(h, s) PROVE DurableInv'
  BY <1>3 DEF SendPanics, DurableInv
<1>4. CASE UNCHANGED <<pc, req, cfg, rows, current, kv, calm, unsaved>>
  BY <1>4 DEF DurableInv, DurableOf, Persisting, Lasting, Kept, Synced
<1>5. CASE Close \/ \E s \in Subs : Subscribe(s) \/ Receive(s) \/ Cancel(s)
  BY <1>4, <1>5 DEF Close, Subscribe, Receive, Cancel, watcher, kvVars, locals
<1>6. CASE Restart
  <2>1. Fresh' /\ kv' = kv /\ kv \in Rows
    BY <1>6, RestartFresh DEF Restart, TypeInv, SharedType
  <2>2. ASSUME Kept' PROVE Synced'
    <3>1. current' = Boot(kv) /\ Parses(kv) /\ "policies" \notin EnvKeys
      BY <1>6, <2>2 DEF Restart, Kept
    <3>2. QED
      BY <2>1, <3>1, BootSyncs DEF Synced
  <2>3. \A h \in Handlers : DurableOf(h)'
    BY <2>1 DEF Fresh, DurableOf, Persisting
  <2>4. QED
    BY <2>2, <2>3 DEF DurableInv, Lasting
<1>7. CASE UNCHANGED vars
  BY <1>4, <1>7 DEF vars
<1>8. QED
  BY <1>1, <1>2, <1>3, <1>5, <1>6, <1>7, DurableEdit, DurablePersist,
     DurableSettings, DurableGetAll, DurableReload, DurablePublish, DurableDeliver
  DEF Next, Work

\* A list that came back with the file's last policies behind it is the list at
\* the head.
LEMMA DecodeHead ==
    ASSUME NEW old \in Seq(Policy), NEW new \in Seq(Policy)
    PROVE  SubSeq(DecodeSlice(old, new), 1, Len(new)) = new
<1> DEFINE rest == SubSeq(old, Len(new) + 1, Len(old))
<1>1. rest \in Seq(Policy)
  BY SliceType
<1> HIDE DEF rest
<1>2. DecodeSlice(old, new) = new \o rest
  BY DEF DecodeSlice, rest
<1>3. QED
  BY <1>1, <1>2, Concat

\* While requests come one at a time the rows bring back the policies in effect,
\* after any edits, settings writes, reloads, restarts and failures, unless the
\* policies are unsaved; for every list of the file, all requests, and any
\* environment variables that do not hide the row of the policies.
THEOREM SerialDurableHolds == Spec => []SerialDurable
<1>1. Init => DurableInv /\ Alone
  BY DEF Init, Alone, DurableInv, DurableOf, Persisting, Lasting, Synced, InSync,
     NoRows, Keys, Loaded
<1>2. TypeInv /\ Alone /\ DurableInv /\ [Next]_vars => Alone' /\ DurableInv'
  BY AloneStep, DurableStep
<1>3. TypeInv /\ DurableInv => SerialDurable
  <2> DEFINE r == Readable(kv)
             row == kv["policies"]
             list == current.policies
             back == Boot(r).policies
  <2> SUFFICES ASSUME TypeInv, DurableInv, calm, AllIdle, ~unsaved,
                      "policies" \notin EnvKeys
               PROVE  /\ Len(list) >= Len(Base) => back = list
                      /\ SubSeq(back, 1, Len(list)) = list
    BY DEF SerialDurable
  <2>1. InSync(list, row) /\ kv \in Rows /\ list \in Seq(Policy)
    BY ConfigFields DEF DurableInv, Lasting, Kept, Synced, AllIdle, Persisting, TypeInv,
       SharedType
  <2>2. row \subseteq Seq(Policy) /\ \A x, y \in row : x = y
    BY <2>1, RowsFields DEF Keys
  <2>3. Parses(r) /\ r["policies"] = row
    BY <2>1, RowsFields DEF Readable, Parses, Row, Keys
  <2>4. back = DecodeSlice(Base, Overlay(Base, row))
    BY <2>3 DEF Boot, ApplyOverrides, Row, Loaded
  <2> HIDE DEF r, row, list, back
  <2>5. ASSUME back = list PROVE SubSeq(back, 1, Len(list)) = list
    BY <2>1, <2>5, DecodeHead, DecodeLonger
  <2>6. CASE row = {}
    <3>1. list = Base /\ back = Base
      BY <2>1, <2>4, <2>6, DecodeLonger DEF Overlay, InSync
    <3>2. QED
      BY <2>5, <3>1
  <2>7. CASE row # {}
    <3>1. PICK l \in row : TRUE
      BY <2>7
    <3>2. back = DecodeSlice(Base, l) /\ l \in Seq(Policy)
      BY <2>2, <2>4, <2>7, <3>1 DEF Overlay, The
    <3>3. list \in {l, back}
      BY <2>1, <3>1, <3>2 DEF InSync
    <3>4. CASE list = back
      BY <2>5, <3>4
    <3>5. CASE list = l
      <4>1. SubSeq(back, 1, Len(list)) = list
        BY <3>2, <3>5, DecodeHead
      <4>2. Len(list) >= Len(Base) => back = list
        BY <3>2, <3>5, DecodeLonger
      <4>3. QED
        BY <4>1, <4>2
    <3>6. QED
      BY <3>3, <3>4, <3>5
  <2>8. QED
    BY <2>6, <2>7
<1>4. QED
  BY <1>1, <1>2, <1>3, TypeInit, TypeStep, PTL DEF Spec
=============================================================================
