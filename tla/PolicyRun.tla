----------------------------- MODULE PolicyRun ------------------------------
(***************************************************************************)
(* internal/orchestrator.runPolicy with internal/cache and the files of    *)
(* internal/exporter: one policy taken from the cache check over DNS       *)
(* answers, cache transactions and the snapshot to the export files and    *)
(* the router.                                                             *)
(*                                                                         *)
(* Runs are single-flight (Orchestrator), so there is one writer; the      *)
(* vacuum of POST /cache/vacuum, the cancellation of the run's context and *)
(* the passage of time interleave with its steps.  The database commits or *)
(* rolls back a transaction as a whole.  Timestamps are kept as ages in    *)
(* ticks: a resolve time is compared with now minus a TTL and with nothing *)
(* else, and beyond MaxAge, which exceeds both TTLs, all ages are alike.   *)
(***************************************************************************)
EXTENDS Integers, FiniteSets

CONSTANTS
    Domains,
    A4, A6,           \* addresses of each family
    TTL, FailedTTL,   \* cache.ttl, cache.failed_ttl, in ticks
    MaxAge,           \* bound: ages saturate here
    maxRowsPerTx,     \* 1000 in the code
    Faults            \* subset of {"db", "write", "crash", "close"}

ASSUME PolicyRunAssumption ==
    /\ A4 \cap A6 = {}
    /\ TTL \in Nat /\ FailedTTL \in Nat /\ MaxAge \in Nat
    /\ TTL < MaxAge /\ FailedTTL < MaxAge
    /\ maxRowsPerTx \in Nat \ {0}

Addrs == A4 \cup A6
NoRow == -1           \* no such row in table records

VARIABLES
    domains,          \* table domains: resolve_status, age of last_resolved_at
    records,          \* table records: age of updated_at, or NoRow
    phase,            \* where runPolicy is
    policyDomains,    \* the policy's domains
    toResolve,        \* domains handed to the resolver, not answered yet
    answers,          \* ResolveResult of each domain, as far as received
    rows,             \* record rows <<domain, address>> not yet committed
    out,              \* addresses the run will export
    ctxDone,          \* the run's context is cancelled
    closed,           \* DNSResolver.Close has been called
    files,            \* ipv4.* and ipv6.* of the policy, relative to this run
    fresh,            \* auxiliary: domains taken from the cache
    disturbed,        \* auxiliary: an upsert was cut in half, or a vacuum ran
    vacuumed          \* auxiliary: a vacuum has deleted rows during this run

vars == <<domains, records, phase, policyDomains, toResolve, answers, rows,
          out, ctxDone, closed, files, fresh, disturbed, vacuumed>>

Families == {"v4", "v6"}
\* "failed" stands for failed and nxdomain, which the cache treats alike: no
\* rows, FailedTTL.  "none": no row, or no answer.
Statuses == {"none", "valid", "failed"}
NoDomain == [status |-> "none", age |-> 0]
NoAnswer == [status |-> "none", ips |-> {}, age |-> 0]

Init ==
    /\ domains = [d \in Domains |-> NoDomain]
    /\ records = [d \in Domains |-> [a \in Addrs |-> NoRow]]
    /\ phase = "idle"
    /\ policyDomains = {} /\ toResolve = {} /\ rows = {} /\ out = {}
    /\ answers = [d \in Domains |-> NoAnswer]
    /\ ctxDone = FALSE /\ closed = FALSE
    /\ files = [f \in Families |-> "old"]
    /\ fresh = {} /\ disturbed = FALSE /\ vacuumed = FALSE

\* checkStaleBatch: status and time of the domain row alone decide.
Stale(d) ==
    \/ domains[d].status = "none"
    \/ domains[d].age > IF domains[d].status = "failed" THEN FailedTTL ELSE TTL

HasRecords(d) == \E a \in Addrs : records[d][a] # NoRow

Older(n) == IF n < MaxAge THEN n + 1 ELSE n

-----------------------------------------------------------------------------
(* runPolicy *)

\* runPolicy is over, in whatever way, with the files as they are now; what
\* it held is gone.
Leave(now) ==
    /\ phase' = "idle"
    /\ policyDomains' = {} /\ toResolve' = {} /\ rows' = {} /\ out' = {}
    /\ answers' = [d \in Domains |-> NoAnswer]
    /\ ctxDone' = FALSE
    /\ files' = [f \in Families |-> IF now[f] = "new" THEN "old" ELSE now[f]]
    /\ fresh' = {} /\ vacuumed' = FALSE

\* Categories are split and their domains collected from the registry; a
\* policy of prefix categories only has none.
Begin(ds) ==
    /\ phase = "idle"
    /\ policyDomains' = ds
    /\ phase' = IF ds = {} THEN "caps" ELSE "check"
    /\ UNCHANGED <<domains, records, toResolve, answers, rows, out, ctxDone,
                   closed, files, fresh, disturbed, vacuumed>>

\* force_resolve takes all domains, NeedsRefresh (not under a done context)
\* the stale ones.
Check ==
    /\ phase = "check"
    /\ \/ toResolve' = policyDomains
       \/ ~ctxDone /\ toResolve' = {d \in policyDomains : Stale(d)}
    /\ fresh' = policyDomains \ toResolve'
    /\ phase' = IF toResolve' = {} THEN "snapshot" ELSE "resolve"
    /\ UNCHANGED <<domains, records, policyDomains, answers, rows, out,
                   ctxDone, closed, files, disturbed, vacuumed>>

\* An answer of the resolver arrives.  A valid one has an address; NOERROR
\* without addresses is reported as nxdomain.
Answer(d) ==
    /\ phase = "resolve"
    /\ d \in toResolve
    /\ \E s \in Statuses \ {"none"}, ips \in SUBSET Addrs :
          /\ s = "valid" <=> ips # {}
          /\ answers' = [answers EXCEPT ![d] = [status |-> s, ips |-> ips, age |-> 0]]
    /\ toResolve' = toResolve \ {d}
    /\ UNCHANGED <<domains, records, phase, policyDomains, rows, out, ctxDone,
                   closed, files, fresh, disturbed, vacuumed>>

Answered == {d \in Domains : answers[d].status # "none"}

\* The result channel is closed: everything has been answered, or the workers
\* gave up because the context is done or the resolver closed.  UpsertBatch of
\* no results returns nil at once.
ResultsEnd ==
    /\ phase = "resolve"
    /\ toResolve = {} \/ ctxDone \/ closed
    /\ phase' = IF Answered = {} THEN "snapshot" ELSE "upsert"
    /\ UNCHANGED <<domains, records, policyDomains, toResolve, answers, rows,
                   out, ctxDone, closed, files, fresh, disturbed, vacuumed>>

\* ensureAllDomainsWithStatus: one transaction for the domain rows of all
\* results.  Their record rows are still to be written.
EnsureDomains ==
    /\ phase = "upsert"
    /\ ~ctxDone
    /\ domains' = [d \in Domains |->
          IF d \in Answered THEN [status |-> answers[d].status,
                                  age |-> answers[d].age]
          ELSE domains[d]]
    /\ rows' = {da \in Domains \X Addrs : da[2] \in answers[da[1]].ips}
    /\ phase' = IF rows' = {} THEN "snapshot" ELSE "records"
    /\ UNCHANGED <<records, policyDomains, toResolve, answers, out, ctxDone,
                   closed, files, fresh, disturbed, vacuumed>>

\* The rows a transaction can take: as many as the limit allows.  Which ones
\* come first depends on the order in which the answers arrived.
Batches ==
    {b \in SUBSET rows :
        Cardinality(b) = IF Cardinality(rows) < maxRowsPerTx
                         THEN Cardinality(rows) ELSE maxRowsPerTx}

\* Table records after the rows b have been inserted or updated.  updated_at
\* is the ResolvedAt of the result, as is the domain row's last_resolved_at.
Upserted(b) ==
    [d \in Domains |-> [a \in Addrs |->
        IF <<d, a>> \in b THEN domains[d].age ELSE records[d][a]]]

\* Mutant: only the first batch is written.
UpsertRecordsOnce ==
    /\ phase = "records"
    /\ ~ctxDone
    /\ \E b \in Batches : records' = Upserted(b)
    /\ rows' = {}
    /\ phase' = "snapshot"
    /\ UNCHANGED <<domains, policyDomains, toResolve, answers, out, ctxDone,
                   closed, files, fresh, disturbed, vacuumed>>

\* Mutant: updated_at is the time of the write, not of the answer.
UpsertedNow(b) ==
    [d \in Domains |-> [a \in Addrs |->
        IF <<d, a>> \in b THEN 0 ELSE records[d][a]]]

UpsertRecordsNow ==
    /\ phase = "records"
    /\ ~ctxDone
    /\ \E b \in Batches : records' = UpsertedNow(b) /\ rows' = rows \ b
    /\ phase' = IF rows' = {} THEN "snapshot" ELSE "records"
    /\ UNCHANGED <<domains, policyDomains, toResolve, answers, out, ctxDone,
                   closed, files, fresh, disturbed, vacuumed>>

\* One transaction of record rows.
UpsertRecords ==
    /\ phase = "records"
    /\ ~ctxDone
    /\ \E b \in Batches : records' = Upserted(b) /\ rows' = rows \ b
    /\ phase' = IF rows' = {} THEN "snapshot" ELSE "records"
    /\ UNCHANGED <<domains, policyDomains, toResolve, answers, out, ctxDone,
                   closed, files, fresh, disturbed, vacuumed>>

\* Mutant: a done context is not noticed.
SnapshotIgnoresCtx ==
    /\ phase = "snapshot"
    /\ out' = {a \in Addrs : \E d \in policyDomains : records[d][a] # NoRow}
    /\ phase' = "caps"
    /\ UNCHANGED <<domains, records, policyDomains, toResolve, answers, rows,
                   ctxDone, closed, files, fresh, disturbed, vacuumed>>

\* All records of the policy's domains, whatever their age.  (Repetitions
\* matter to the router only, see PolicyRouter.)
SnapshotForDomains ==
    /\ phase = "snapshot"
    /\ ~ctxDone
    /\ out' = {a \in Addrs : \E d \in policyDomains : records[d][a] # NoRow}
    /\ phase' = "caps"
    /\ UNCHANGED <<domains, records, policyDomains, toResolve, answers, rows,
                   ctxDone, closed, files, fresh, disturbed, vacuumed>>

\* An error of a cache call ends runPolicy.  A done context is one, and a
\* transaction it meets is rolled back.
CacheFails(cause) ==
    /\ phase \in {"check", "upsert", "records", "snapshot"}
    /\ cause
    /\ Leave(files)
    /\ disturbed' = (disturbed \/ phase = "records")
    /\ UNCHANGED <<domains, records, closed>>

\* Aggregation, then Caps: on an error, or for a dry run, runPolicy returns
\* without touching files or routes.  Caps may succeed under a done context:
\* CompositeRouter forgives the nftables check when the backend is healthy.
\* From here on only the merged prefixes are used.
Caps ==
    /\ phase = "caps"
    /\ \/ /\ phase' = "export4"
          /\ answers' = [d \in Domains |-> NoAnswer]
          /\ toResolve' = {} /\ fresh' = {}
          /\ UNCHANGED <<policyDomains, rows, out, ctxDone, files, vacuumed>>
       \/ Leave(files)
    /\ UNCHANGED <<domains, records, closed, disturbed>>

\* Mutant: a failed write does not stop the policy.
WriteFileIgnoresError(at, f, next) ==
    /\ phase = at
    /\ \E c \in {"new", "torn"} : files' = [files EXCEPT ![f] = c]
    /\ phase' = next
    /\ UNCHANGED <<domains, records, policyDomains, toResolve, answers, rows,
                   out, ctxDone, closed, fresh, disturbed, vacuumed>>

\* WritePolicy, per family: os.WriteFile truncates the file and writes it; no
\* context is involved.
WriteFile(at, f, next) ==
    /\ phase = at
    /\ files' = [files EXCEPT ![f] = "new"]
    /\ phase' = next
    /\ UNCHANGED <<domains, records, policyDomains, toResolve, answers, rows,
                   out, ctxDone, closed, fresh, disturbed, vacuumed>>

\* What a write that does not complete can leave behind.
HalfWritten(f) == {[files EXCEPT ![f] = c] : c \in {files[f], "torn"}}

\* A write fails; the other file is not written and nothing is routed.
WriteFileFails(at, f) ==
    /\ "write" \in Faults
    /\ phase = at
    /\ \E now \in HalfWritten(f) : Leave(now)
    /\ UNCHANGED <<domains, records, closed, disturbed>>

\* ApplyPolicy (see PolicyRouter), or skip_routing; runPolicy returns.
ApplyPolicy ==
    /\ phase = "apply"
    /\ Leave(files)
    /\ UNCHANGED <<domains, records, closed, disturbed>>

-----------------------------------------------------------------------------
(* What happens around it *)

\* Time passes for rows and for answers not yet written.
Tick ==
    /\ domains' = [d \in Domains |-> IF domains[d].status = "none" THEN NoDomain
                                     ELSE [domains[d] EXCEPT !.age = Older(@)]]
    /\ records' = [d \in Domains |-> [a \in Addrs |->
          IF records[d][a] = NoRow THEN NoRow ELSE Older(records[d][a])]]
    /\ answers' = [d \in Domains |->
          IF d \in Answered /\ phase \in {"resolve", "upsert"}
          THEN [answers[d] EXCEPT !.age = Older(@)] ELSE answers[d]]
    /\ UNCHANGED <<phase, policyDomains, toResolve, rows, out, ctxDone, closed,
                   files, fresh, disturbed, vacuumed>>

\* Vacuum(ctx, 0): every record not written in this very tick is deleted,
\* domain rows stay.
Vacuum ==
    /\ \E d \in Domains, a \in Addrs : records[d][a] > 0
    /\ records' = [d \in Domains |-> [a \in Addrs |->
          IF records[d][a] > 0 THEN NoRow ELSE records[d][a]]]
    /\ vacuumed' = (phase # "idle")
    /\ disturbed' = TRUE
    /\ UNCHANGED <<domains, phase, policyDomains, toResolve, answers, rows,
                   out, ctxDone, closed, files, fresh>>

Cancel ==
    /\ phase # "idle"
    /\ ~ctxDone
    /\ ctxDone' = TRUE
    /\ UNCHANGED <<domains, records, phase, policyDomains, toResolve, answers,
                   rows, out, closed, files, fresh, disturbed, vacuumed>>

\* main returns while a run is in flight: the resolver is closed, the run's
\* context is not cancelled, and the run goes on until the process exits.
CloseResolver ==
    /\ "close" \in Faults
    /\ phase # "idle"
    /\ ~closed
    /\ closed' = TRUE
    /\ UNCHANGED <<domains, records, phase, policyDomains, toResolve, answers,
                   rows, out, ctxDone, files, fresh, disturbed, vacuumed>>

\* The process dies, possibly inside a write, and is started again.
Crash ==
    /\ "crash" \in Faults
    /\ \E now \in IF phase = "export4" THEN HalfWritten("v4")
                  ELSE IF phase = "export6" THEN HalfWritten("v6")
                  ELSE {files} : Leave(now)
    /\ closed' = FALSE
    /\ disturbed' = (disturbed \/ phase = "records")
    /\ UNCHANGED <<domains, records>>

\* The goroutine's own steps.
Progress ==
    \/ Check
    \/ \E d \in Domains : Answer(d)
    \/ ResultsEnd
    \/ EnsureDomains
    \/ UpsertRecords
    \/ SnapshotForDomains
    \/ CacheFails(ctxDone)
    \/ Caps
    \/ WriteFile("export4", "v4", "export6")
    \/ WriteFile("export6", "v6", "apply")
    \/ ApplyPolicy

Failure ==
    \/ CacheFails("db" \in Faults)
    \/ WriteFileFails("export4", "v4")
    \/ WriteFileFails("export6", "v6")
    \/ CloseResolver
    \/ Crash

Next ==
    \/ \E ds \in SUBSET Domains : Begin(ds)
    \/ Progress
    \/ Failure
    \/ Tick
    \/ Vacuum
    \/ Cancel

Spec == Init /\ [][Next]_vars
-----------------------------------------------------------------------------
(* Properties *)

Phases == {"idle", "check", "resolve", "upsert", "records", "snapshot",
           "caps", "export4", "export6", "apply"}

\* Every variable has its type, and only the policy's domains are asked for.
TypeOK ==
    /\ domains \in [Domains -> [status : Statuses, age : 0..MaxAge]]
    /\ records \in [Domains -> [Addrs -> {NoRow} \cup 0..MaxAge]]
    /\ phase \in Phases
    /\ policyDomains \subseteq Domains /\ toResolve \subseteq policyDomains
    /\ answers \in [Domains -> [status : Statuses, ips : SUBSET Addrs,
                                age : 0..MaxAge]]
    /\ rows \subseteq Domains \X Addrs
    /\ out \subseteq Addrs
    /\ ctxDone \in BOOLEAN /\ closed \in BOOLEAN
    /\ files \in [Families -> {"old", "new", "torn"}]
    /\ fresh \subseteq Domains
    /\ disturbed \in BOOLEAN /\ vacuumed \in BOOLEAN

\* A record belongs to a domain that has a row, and is never newer than that
\* row's last_resolved_at: the domain row alone, which is all NeedsRefresh
\* looks at, bounds the age of every record from below.
RecordsNotNewer ==
    \A d \in Domains, a \in Addrs :
        records[d][a] # NoRow =>
            domains[d].status # "none" /\ records[d][a] >= domains[d].age

\* A run gets past the snapshot only when every domain of the policy was fresh or
\* has been answered in this run: a cancellation in the middle of the resolve
\* step loses answers, but never turns into a partial export.  Only closing
\* the resolver at shutdown gets around it.
ExportComplete ==
    phase = "caps" =>
        policyDomains \subseteq fresh \cup Answered \/ closed

\* What this run resolved is what this run exports: every address of every
\* valid answer is in the snapshot, across all transactions of the upsert,
\* unless a vacuum ran in between.
AnswersExported ==
    phase = "caps" /\ ~vacuumed =>
        \A d \in Answered : answers[d].ips \subseteq out

\* Routes are applied only after both files of this run are complete.
RoutesFollowFiles ==
    phase = "apply" => \A f \in Families : files[f] = "new"

\* NeedsRefresh looks at the domain row alone, although cache.go says that a
\* domain with no records at all is always stale.  It is right to do so as
\* long as no upsert was cut in half and no vacuum ran: then a domain whose
\* last resolve was a success has records.
ValidHasRecords ==
    ~disturbed /\ phase # "records" =>
        \A d \in Domains : domains[d].status = "valid" => HasRecords(d)
=============================================================================
