-------------------------------- MODULE Config --------------------------------
(***************************************************************************)
(* The configuration in effect and the rows that must bring it back after  *)
(* a restart: config.Watcher (internal/config/watch.go), the policy and    *)
(* settings handlers that edit it (internal/api/policies_handlers.go,      *)
(* settings_handlers.go), the kv_settings table (internal/cache/kv.go),    *)
(* ApplyOverrides (internal/config/store.go) and the start of d2ip serve.  *)
(*                                                                         *)
(* A policy is its name and its body; the body is the routing table it     *)
(* claims, because validatePolicies lets no two policies share one.  All   *)
(* scalar settings are one key, "ttl" (cache.ttl): the configured value,   *)
(* another legal one, one that parses and Validate rejects, or one that    *)
(* does not parse.  A kv row is a set: empty when absent, else {value}.    *)
(***************************************************************************)
EXTENDS Naturals, Sequences, FiniteSets

CONSTANTS Handlers,      \* goroutines serving HTTP requests
          Subs,          \* subscription ids handed out by Watcher.Subscribe
          Names, Tables, \* policy names and the tables they may claim
          Base,          \* the policies of the YAML file
          Offered,       \* the policies that requests carry
          SettingsKeys,  \* keys that PUT and DELETE /api/settings touch
          EnvKeys,       \* keys whose D2IP_ variable is set
          Lists,         \* policy lists PUT /api/settings may store
          Buffered,      \* capacity of a subscription's channel
          MaxRequests, MaxBoots, \* bounds of the model
          Faults         \* subset of {"db", "panic", "crash"}

Policy == [name : Names, table : Tables]
Keys == {"policies", "ttl"}
KvTtl == {"good", "short", "junk"}

ASSUME ConfigAssumption ==
    /\ Base \in Seq(Policy)
    /\ Offered \subseteq Policy
    /\ SettingsKeys \subseteq Keys /\ EnvKeys \subseteq Keys
    /\ Lists \subseteq Seq(Policy)
    /\ Buffered \in Nat \ {0}
    /\ MaxRequests \in Nat /\ MaxBoots \in Nat
    /\ Faults \subseteq {"db", "panic", "crash"}

VARIABLES current,   \* Watcher.current.Config
          version,   \* Watcher.version
          closed,    \* Watcher.closed
          kv,        \* the kv_settings table
          sub,       \* subscription |-> "none", "open" or "closed"
          ch,        \* subscription |-> versions buffered in its channel
          seen,      \* subscription |-> versions its reader has received
          pc,        \* handler |-> where it is
          req,       \* handler |-> the request it serves
          cfg,       \* handler |-> its private copy of the configuration
          rows,      \* handler |-> what GetAll returned to reloadConfig
          todo,      \* handler |-> keys to set, or channels to deliver to
          at,        \* handler |-> {} or {the channel deliver is busy with}
          ver,       \* handler |-> version of the snapshot it delivers
          missed,    \* auxiliary: subscription |-> newest version it may lack
          calm,      \* no request overlapped another or died in deliver since
                     \* the start
          unsaved,   \* auxiliary: the row of the policies need not be about
                     \* those in effect, see SerialDurable
          requests, boots

kvVars == <<kv>>
watcher == <<current, version, closed>>
subVars == <<sub, ch, seen, missed>>
locals == <<req, cfg, rows, todo, at, ver>>
vars == <<current, version, closed, kv, sub, ch, seen, pc, req, cfg, rows,
          todo, at, ver, missed, calm, unsaved, requests, boots>>

The(S) == CHOOSE x \in S : TRUE
NoRows == [k \in Keys |-> {}]
NoRequest == [op |-> "none"]

-----------------------------------------------------------------------------
(* Validation and the overlay of kv rows.                                  *)

Distinct(s, f(_)) == \A i, j \in DOMAIN s : f(s[i]) = f(s[j]) => i = j

\* validatePolicies: names and tables are unique
NameOf(p) == p.name
TableOf(p) == p.table
validatePolicies(s) == Distinct(s, NameOf) /\ Distinct(s, TableOf)

\* the checks of the scalar settings
ValidTtl(v) == v # "short"

Validate(c) == validatePolicies(c.policies) /\ ValidTtl(c.ttl)

\* viper's Unmarshal (mapstructure 1.5.0) decodes a slice into the slice
\* already there: elements beyond the new length stay.
DecodeSlice(old, new) == new \o SubSeq(old, Len(new) + 1, Len(old))

\* the rows applyKVToViper looks at: an environment variable hides its row
Row(r, k) == IF k \in EnvKeys THEN {} ELSE r[k]

\* coerceKVValue fails on one row, and ApplyOverrides changes nothing
Parses(r) == "junk" \notin Row(r, "ttl")

\* viper is seeded with the configuration, so a key without a row keeps its
\* value
Overlay(old, row) == IF row = {} THEN old ELSE The(row)

ApplyOverrides(c, r) ==
    [policies |-> DecodeSlice(c.policies, Overlay(c.policies, Row(r, "policies"))),
     ttl |-> Overlay(c.ttl, Row(r, "ttl"))]

Loaded == [policies |-> Base, ttl |-> "base"]   \* what config.Load returned

\* serveCmd: overrides that do not parse are logged and left out, all of them
Boot(r) == IF Parses(r) THEN ApplyOverrides(Loaded, r) ELSE Loaded

-----------------------------------------------------------------------------
Init ==
    /\ current = Loaded /\ version = 1 /\ closed = FALSE
    /\ validatePolicies(Base)                  \* config.Load validated it
    /\ kv = NoRows
    /\ sub = [s \in Subs |-> "none"]
    /\ ch = [s \in Subs |-> <<>>]
    /\ seen = [s \in Subs |-> <<>>]
    /\ missed = [s \in Subs |-> 0]
    /\ pc = [h \in Handlers |-> "idle"]
    /\ req = [h \in Handlers |-> NoRequest]
    /\ cfg = [h \in Handlers |-> Loaded]
    /\ rows = [h \in Handlers |-> NoRows]
    /\ todo = [h \in Handlers |-> {}]
    /\ at = [h \in Handlers |-> {}]
    /\ ver = [h \in Handlers |-> 0]
    /\ calm = TRUE /\ unsaved = FALSE
    /\ requests = 0 /\ boots = 0

Goto(h, label) == pc' = [pc EXCEPT ![h] = label]

\* the handler answers and its goroutine is gone
Reply(h) ==
    /\ Goto(h, "idle")
    /\ req' = [req EXCEPT ![h] = NoRequest]
    /\ cfg' = [cfg EXCEPT ![h] = Loaded]
    /\ rows' = [rows EXCEPT ![h] = NoRows]
    /\ todo' = [todo EXCEPT ![h] = {}]
    /\ at' = [at EXCEPT ![h] = {}]
    /\ ver' = [ver EXCEPT ![h] = 0]

PolicyOps == {"create", "update", "delete"}

\* what the body of PUT /api/settings gives a key: nothing or one value
Given(S) == {{}} \cup {{v} : v \in S}

Puts == {r \in {[k \in Keys |-> IF k = "ttl" THEN t ELSE l] :
                    t \in Given(KvTtl), l \in Given(Lists)} :
            r # NoRows /\ \A k \in Keys \ SettingsKeys : r[k] = {}}

Requests ==
    [op : {"create", "update"}, policy : Offered]
        \cup [op : {"delete"}, name : Names]
        \cup [op : {"put"}, rows : Puts]
        \cup [op : {"unset"}, key : SettingsKeys]

\* the router starts a goroutine for a request whose body decoded
Request(h, r) ==
    /\ pc[h] = "idle" /\ requests < MaxRequests
    /\ requests' = requests + 1
    /\ req' = [req EXCEPT ![h] = r]
    /\ Goto(h, IF r.op \in PolicyOps THEN "edit" ELSE r.op)
    /\ todo' = [todo EXCEPT ![h] =
                   IF r.op = "put" THEN {k \in Keys : r.rows[k] # {}} ELSE {}]
    /\ calm' = (calm /\ \A g \in Handlers : pc[g] = "idle")
    /\ UNCHANGED <<watcher, kvVars, subVars, cfg, rows, at, ver, unsaved, boots>>

-----------------------------------------------------------------------------
(* Policy handlers: read Current, edit the copy, Publish, persistPolicies. *)

\* where the handlers' loops stop: the first policy with that name, if any
IndexOf(s, n) == {i \in DOMAIN s : /\ s[i].name = n
                                   /\ \A j \in 1..(i - 1) : s[j].name # n}

\* the list the handler would publish, or none when it answers 404 or 409
Edited(r, s) ==
    CASE r.op = "create" ->
            IF IndexOf(s, r.policy.name) # {} THEN {} ELSE {Append(s, r.policy)}
      [] r.op = "update" ->
            {[s EXCEPT ![i] = r.policy] : i \in IndexOf(s, r.policy.name)}
      [] r.op = "delete" ->
            {SubSeq(s, 1, i - 1) \o SubSeq(s, i + 1, Len(s)) :
                i \in IndexOf(s, r.name)}

EditPolicies(h) ==
    /\ pc[h] = "edit"
    /\ \/ /\ Edited(req[h], current.policies) = {}
          /\ Reply(h)
       \/ \E list \in Edited(req[h], current.policies) :
          /\ cfg' = [cfg EXCEPT ![h] = [current EXCEPT !.policies = list]]
          /\ Goto(h, "publish")
          /\ UNCHANGED <<req, rows, todo, at, ver>>
    /\ UNCHANGED <<watcher, kvVars, subVars, calm, unsaved, requests, boots>>

\* Mutant: persistPolicies is not called.
PersistNothing(h) ==
    /\ pc[h] = "persist"
    /\ Reply(h)
    /\ UNCHANGED <<watcher, kvVars, subVars, calm, unsaved, requests, boots>>

\* persistPolicies: its failure is logged, the request still succeeds
persistPolicies(h) ==
    /\ pc[h] = "persist"
    /\ \/ kv' = [kv EXCEPT !["policies"] = {cfg[h].policies}] /\ unsaved' = FALSE
       \/ "db" \in Faults /\ unsaved' = TRUE /\ UNCHANGED kv
    /\ Reply(h)
    /\ UNCHANGED <<watcher, subVars, calm, requests, boots>>

-----------------------------------------------------------------------------
(* Settings handlers: write the rows, then reloadConfig.                   *)

\* PUT /api/settings: one upsert per key, in any order; the first failure
\* answers 500 and keeps the rows already written
SetRow(h, k) ==
    /\ pc[h] = "put" /\ k \in todo[h]
    /\ \/ /\ kv' = [kv EXCEPT ![k] = req[h].rows[k]]
          /\ todo' = [todo EXCEPT ![h] = @ \ {k}]
          /\ unsaved' = (unsaved \/ k = "policies")
          /\ UNCHANGED <<pc, req, cfg, rows, at, ver>>
       \/ /\ "db" \in Faults
          /\ Reply(h)
          /\ UNCHANGED <<kv, unsaved>>
    /\ UNCHANGED <<watcher, subVars, calm, requests, boots>>

RowsSet(h) ==
    /\ pc[h] = "put" /\ todo[h] = {}
    /\ Goto(h, "getall")
    /\ UNCHANGED <<watcher, kvVars, subVars, locals, calm, unsaved, requests, boots>>

\* DELETE /api/settings/{key}
DeleteRow(h) ==
    /\ pc[h] = "unset"
    /\ \/ /\ kv' = [kv EXCEPT ![req[h].key] = {}]
          /\ Goto(h, "getall")
          /\ unsaved' = (unsaved \/ req[h].key = "policies")
          /\ UNCHANGED locals
       \/ /\ "db" \in Faults
          /\ Reply(h)
          /\ UNCHANGED <<kv, unsaved>>
    /\ UNCHANGED <<watcher, subVars, calm, requests, boots>>

\* reloadConfig reads every row, and only then the current configuration
GetAll(h) ==
    /\ pc[h] = "getall"
    /\ \/ /\ rows' = [rows EXCEPT ![h] = kv]
          /\ Goto(h, "reload")
          /\ UNCHANGED <<req, cfg, todo, at, ver>>
       \/ "db" \in Faults /\ Reply(h)
    /\ UNCHANGED <<watcher, kvVars, subVars, calm, unsaved, requests, boots>>

reloadConfig(h) ==
    /\ pc[h] = "reload"
    /\ \/ /\ Parses(rows[h])
          /\ cfg' = [cfg EXCEPT ![h] = ApplyOverrides(current, rows[h])]
          /\ Goto(h, "publish")
          /\ UNCHANGED <<req, rows, todo, at, ver>>
       \/ /\ ~Parses(rows[h])
          /\ Reply(h)
    /\ UNCHANGED <<watcher, kvVars, subVars, calm, unsaved, requests, boots>>

-----------------------------------------------------------------------------
(* Watcher.Publish and deliver.                                            *)

\* Mutant: Publish does not validate.
PublishUnchecked(h) ==
    /\ pc[h] = "publish" /\ ~closed
    /\ version' = version + 1
    /\ current' = cfg[h]
    /\ ver' = [ver EXCEPT ![h] = version + 1]
    /\ todo' = [todo EXCEPT ![h] = {s \in Subs : sub[s] = "open"}]
    /\ Goto(h, "deliver")
    /\ UNCHANGED <<closed, req, cfg, rows, at, kvVars, subVars, calm, unsaved, requests,
                   boots>>

\* validate, then under the lock: new version, new current, copy of the
\* subscribers; the deliveries, and after them the event bus (Delivered), come
\* when the lock is released
Publish(h) ==
    /\ pc[h] = "publish"
    /\ \/ /\ ~Validate(cfg[h]) \/ closed
          /\ Reply(h)
          /\ UNCHANGED watcher
       \/ /\ Validate(cfg[h]) /\ ~closed
          /\ version' = version + 1
          /\ current' = cfg[h]
          /\ ver' = [ver EXCEPT ![h] = version + 1]
          /\ todo' = [todo EXCEPT ![h] = {s \in Subs : sub[s] = "open"}]
          /\ Goto(h, "deliver")
          /\ UNCHANGED <<closed, req, cfg, rows, at>>
    /\ UNCHANGED <<kvVars, subVars, calm, unsaved, requests, boots>>

\* the edit in effect is not persisted: its request has died
Dies(h) == Reply(h) /\ unsaved' = (unsaved \/ req[h].op \in PolicyOps)

\* every channel served: Publish ends with eventBus.Publish (module EventBus,
\* external here).  When that returns a policy handler goes on to
\* persistPolicies.  It may panic, on the channel of an SSE client that left
\* between the bus's copy and its send: Recoverer answers 500
Delivered(h) ==
    /\ pc[h] = "deliver" /\ todo[h] = {}
    /\ \/ /\ req[h].op \in PolicyOps
          /\ Goto(h, "persist")
          /\ UNCHANGED <<locals, unsaved>>
       \/ /\ req[h].op \notin PolicyOps
          /\ Reply(h)
          /\ UNCHANGED unsaved
       \/ "panic" \in Faults /\ Dies(h)
    /\ UNCHANGED <<watcher, kvVars, subVars, calm, requests, boots>>

\* the channel deliver works on: the one it is retrying, else any left
Target(h) == IF at[h] = {} THEN todo[h] ELSE at[h]

\* case ch <- snap, with room
Send(h, s) ==
    /\ pc[h] = "deliver" /\ s \in Target(h)
    /\ sub[s] = "open" /\ Len(ch[s]) < Buffered
    /\ ch' = [ch EXCEPT ![s] = Append(@, ver[h])]
    /\ todo' = [todo EXCEPT ![h] = @ \ {s}]
    /\ at' = [at EXCEPT ![h] = {}]
    /\ UNCHANGED <<watcher, kvVars, sub, seen, missed, pc, req, cfg, rows, ver,
                   calm, unsaved, requests, boots>>

\* default: the buffer is full
SendFull(h, s) ==
    /\ pc[h] = "deliver" /\ s \in Target(h)
    /\ sub[s] = "open" /\ Len(ch[s]) = Buffered
    /\ at' = [at EXCEPT ![h] = {s}]
    /\ Goto(h, "drain")
    /\ UNCHANGED <<watcher, kvVars, subVars, req, cfg, rows, todo, ver, calm, unsaved,
                   requests, boots>>

\* Mutant: deliver does not retry after it drained.
DrainGivesUp(h, s) ==
    /\ pc[h] = "drain" /\ s \in at[h]
    /\ ch' = [ch EXCEPT ![s] = IF @ = <<>> THEN @ ELSE Tail(@)]
    /\ todo' = [todo EXCEPT ![h] = @ \ {s}]
    /\ at' = [at EXCEPT ![h] = {}]
    /\ Goto(h, "deliver")
    /\ UNCHANGED <<watcher, kvVars, sub, seen, missed, req, cfg, rows, ver, calm, unsaved,
                   requests, boots>>

\* Mutant: a plain receive instead of the inner select.
DrainBlocks(h, s) ==
    /\ pc[h] = "drain" /\ s \in at[h]
    /\ ch[s] # <<>>
    /\ ch' = [ch EXCEPT ![s] = Tail(@)]
    /\ Goto(h, "deliver")
    /\ UNCHANGED <<watcher, kvVars, sub, seen, missed, req, cfg, rows, todo, at,
                   ver, calm, unsaved, requests, boots>>

\* the inner select: drop the oldest and retry, or give up on an empty buffer,
\* although with a buffer it is empty because the reader was faster
Drain(h, s) ==
    /\ pc[h] = "drain" /\ s \in at[h]
    /\ \/ /\ ch[s] # <<>>
          /\ ch' = [ch EXCEPT ![s] = Tail(@)]
          /\ UNCHANGED <<todo, at, missed>>
       \/ /\ ch[s] = <<>> /\ sub[s] = "open"
          /\ todo' = [todo EXCEPT ![h] = @ \ {s}]
          /\ at' = [at EXCEPT ![h] = {}]
          /\ missed' = [missed EXCEPT ![s] = ver[h]]
          /\ UNCHANGED ch
       \/ /\ ch[s] = <<>> /\ sub[s] = "closed"   \* receives the zero value
          /\ UNCHANGED <<todo, at, ch, missed>>
    /\ Goto(h, "deliver")
    /\ UNCHANGED <<watcher, kvVars, sub, seen, req, cfg, rows, ver, calm, unsaved,
                   requests, boots>>

\* a send on a channel closed since Publish copied it panics; the Recoverer
\* middleware answers 500, so the request dies and persistPolicies never runs
SendPanics(h, s) ==
    /\ pc[h] = "deliver" /\ s \in Target(h) /\ sub[s] = "closed"
    /\ Dies(h)
    /\ calm' = FALSE
    /\ UNCHANGED <<watcher, kvVars, subVars, requests, boots>>

-----------------------------------------------------------------------------
(* Subscribers.                                                            *)

Subscribe(s) ==
    /\ sub[s] = "none"
    /\ sub' = [sub EXCEPT ![s] = "open"]
    /\ missed' = [missed EXCEPT ![s] = version]
    /\ UNCHANGED <<watcher, kvVars, ch, seen, pc, locals, calm, unsaved, requests, boots>>

Receive(s) ==
    /\ ch[s] # <<>>
    /\ seen' = [seen EXCEPT ![s] = Append(@, Head(ch[s]))]
    /\ ch' = [ch EXCEPT ![s] = Tail(@)]
    /\ UNCHANGED <<watcher, kvVars, sub, missed, pc, locals, calm, unsaved, requests, boots>>

Cancel(s) ==
    /\ sub[s] = "open"
    /\ sub' = [sub EXCEPT ![s] = "closed"]
    /\ UNCHANGED <<watcher, kvVars, ch, seen, missed, pc, locals, calm, unsaved, requests,
                   boots>>

Close ==
    /\ ~closed /\ closed' = TRUE
    /\ sub' = [s \in Subs |-> IF sub[s] = "open" THEN "closed" ELSE sub[s]]
    /\ UNCHANGED <<current, version, kvVars, ch, seen, missed, pc, locals,
                   calm, unsaved, requests, boots>>

-----------------------------------------------------------------------------
\* the process dies at any point and starts again from the file and the rows
Restart ==
    /\ "crash" \in Faults /\ boots < MaxBoots
    /\ boots' = boots + 1
    /\ \/ current' = Boot(kv) /\ unsaved' = ~Parses(kv)
       \/ "db" \in Faults /\ current' = Loaded /\ unsaved' = TRUE
    /\ calm' = TRUE
    /\ version' = 1 /\ closed' = FALSE
    /\ sub' = [s \in Subs |-> "none"]
    /\ ch' = [s \in Subs |-> <<>>]
    /\ seen' = [s \in Subs |-> <<>>]
    /\ missed' = [s \in Subs |-> 0]
    /\ pc' = [h \in Handlers |-> "idle"]
    /\ req' = [h \in Handlers |-> NoRequest]
    /\ cfg' = [h \in Handlers |-> Loaded]
    /\ rows' = [h \in Handlers |-> NoRows]
    /\ todo' = [h \in Handlers |-> {}]
    /\ at' = [h \in Handlers |-> {}]
    /\ ver' = [h \in Handlers |-> 0]
    /\ UNCHANGED <<kv, requests>>

Work(h) ==
    \/ EditPolicies(h) \/ persistPolicies(h)
    \/ \E k \in Keys : SetRow(h, k)
    \/ RowsSet(h) \/ DeleteRow(h) \/ GetAll(h) \/ reloadConfig(h)
    \/ Publish(h) \/ Delivered(h)
    \/ \E s \in Subs : \/ Send(h, s) \/ SendFull(h, s) \/ Drain(h, s)
                       \/ SendPanics(h, s)

Next ==
    \/ \E h \in Handlers, r \in Requests : Request(h, r)
    \/ \E h \in Handlers : Work(h)
    \/ \E s \in Subs : Subscribe(s) \/ Receive(s) \/ Cancel(s)
    \/ Close
    \/ Restart

Spec == Init /\ [][Next]_vars

\* A goroutine serving a request is scheduled until it answers (none of its
\* steps waits for another), and a subscriber keeps reading its channel.
Fairness ==
    /\ \A h \in Handlers : WF_vars(Work(h))
    /\ \A s \in Subs : WF_vars(Receive(s))
FairSpec == Spec /\ Fairness

-----------------------------------------------------------------------------
Configs == [policies : Seq(Policy), ttl : {"base", "good", "short"}]

\* The state is well typed; a row holds at most one value, a channel at most
\* what its buffer does, and "junk" never becomes a setting in effect.
TypeOK ==
    /\ current \in Configs
    /\ version \in Nat \ {0}
    /\ closed \in BOOLEAN /\ calm \in BOOLEAN /\ unsaved \in BOOLEAN
    /\ \A k \in Keys : Cardinality(kv[k]) <= 1
    /\ kv["ttl"] \subseteq KvTtl /\ kv["policies"] \subseteq Seq(Policy)
    /\ sub \in [Subs -> {"none", "open", "closed"}]
    /\ \A s \in Subs : /\ Len(ch[s]) <= Buffered
                       /\ ch[s] \in Seq(2..version)
                       /\ seen[s] \in Seq(2..version)
    /\ \A h \in Handlers : cfg[h] \in Configs /\ at[h] \subseteq todo[h]
    /\ pc \in [Handlers -> {"idle", "edit", "put", "unset", "getall", "reload",
                            "publish", "deliver", "drain", "persist"}]

\* Publish lets nothing through that Validate rejects, whichever rows and
\* edits met on the way.  The start does not validate, although validate.go
\* says the binary must: a configuration that Validate rejects is in effect
\* only after a restart from the rows, and only until the first Publish.
PublishedValid == version > 1 \/ boots = 0 => Validate(current)

AllIdle == \A h \in Handlers : pc[h] = "idle"

\* A row that does not parse hides all rows from the start; without it:
Readable(r) == IF Parses(r) THEN r ELSE [r EXCEPT !["ttl"] = {}]

\* persistPolicies "for durability": while requests come one at a time, what
\* the next start makes of the rows are the policies in effect, whatever edits
\* and settings writes (rejected and failed ones included) came before.  Unsaved
\* policies are excepted: the last edit of them died in a panic of Publish or
\* failed to be written, a settings request wrote or deleted their row behind
\* the handlers' back, or the start could not read the rows; the next edit that
\* is persisted, or start that reads them, ends each of these.  A list shorter
\* than the file's comes back with the file's last policies behind it, so there
\* only this is claimed: it comes back, at the head of the list.  A row that
\* does not parse hides the policies from the next start, but deleting that row
\* is enough to have them back.
SerialDurable ==
    calm /\ AllIdle /\ ~unsaved /\ "policies" \notin EnvKeys =>
        LET list == current.policies
            back == Boot(Readable(kv)).policies
        IN  /\ Len(list) >= Len(Base) => back = list
            /\ SubSeq(back, 1, Len(list)) = list

\* "Subscribers should always consume the most recent Snapshot": with all
\* publishers done, what a subscriber got last, or finds in its channel last,
\* is the configuration in effect.  Two races are excepted, and only these:
\* publishers that overlapped, whose deliveries may come in either order, and
\* a reader that emptied the channel between the two selects of deliver.
NewestLast ==
    calm /\ AllIdle =>
        \A s \in Subs : LET all == seen[s] \o ch[s]
                        IN  sub[s] = "open" /\ version > missed[s] =>
                                all # <<>> /\ all[Len(all)] = version

\* Every request is answered: the drain-and-retry loop of deliver ends even
\* when several publishers fight for one slot.
RepliesEventually ==
    \A h \in Handlers : pc[h] # "idle" ~> pc[h] = "idle"
=============================================================================
