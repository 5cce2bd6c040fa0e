------------------------------ MODULE Resolver ------------------------------
(***************************************************************************)
(* internal/resolver: ResolveBatch, one batch of domains resolved by a     *)
(* pool of workers.                                                        *)
(*                                                                         *)
(* The goroutines are the feeder, the workers, the closer that waits for   *)
(* them, and the consumer: runPolicy's loop over the returned channel.     *)
(* Both channels have the capacity Concurrency, which is the number of     *)
(* workers.  Where a select has several ready cases, Go picks any.         *)
(* What one attempt at a domain concludes is module Dns.                   *)
(***************************************************************************)
EXTENDS Dns, Sequences

CONSTANTS
    Domains,          \* the batch
    Workers,
    Retries           \* resolver.retries

ASSUME ResolverAssumption ==
    /\ Domains \subseteq Names
    /\ Retries \in Nat
    /\ IsFiniteSet(Workers) /\ Workers # {}

Concurrency == Cardinality(Workers)

VARIABLES
    toFeed,           \* domains the feeder has not sent yet
    feeding,          \* the feeder runs; it closes domainCh when it ends
    domainCh, resultCh,
    resultOpen,       \* resultCh is not closed
    wpc,              \* control state of each worker
    job,              \* what each worker holds: domain, attempts made, result
    received,         \* outcome of each domain the consumer has received
    consuming,        \* the consumer is in its loop
    ctxDone, closed,  \* the batch's context; DNSResolver.closed
    zone,             \* what the DNS says while the batch is resolved
    tries             \* auxiliary: attempts made for each domain

vars == <<toFeed, feeding, domainCh, resultCh, resultOpen, wpc, job, received,
          consuming, ctxDone, closed, zone, tries>>

\* What one attempt can say, a retryable error apart; "badchain" is
\* StatusFailed with an error of followCNAME.
Answers  == {"valid", "nxdomain", "failed", "badchain"}
\* "exhausted" is StatusFailed with "max retries exceeded".
Outcomes == Answers \cup {"exhausted"}
Idle     == [domain |-> "none", outcome |-> "none"]
Stopping == ctxDone \/ closed

Init ==
    /\ toFeed = Domains
    /\ feeding = TRUE
    /\ domainCh = <<>> /\ resultCh = <<>> /\ resultOpen = TRUE
    /\ wpc = [w \in Workers |-> "take"]
    /\ job = [w \in Workers |-> Idle]
    /\ received = [d \in Domains |-> "none"]
    /\ consuming = TRUE
    /\ ctxDone = FALSE /\ closed = FALSE
    /\ zone \in Zones
    /\ tries = [d \in Domains |-> 0]

-----------------------------------------------------------------------------
(* The feeder *)

Feed(d) ==
    /\ feeding
    /\ d \in toFeed
    /\ Len(domainCh) < Concurrency
    /\ domainCh' = Append(domainCh, d)
    /\ toFeed' = toFeed \ {d}
    /\ UNCHANGED <<feeding, resultCh, resultOpen, wpc, job, received,
                   consuming, ctxDone, closed, tries, zone>>

\* Mutant: domainCh is closed only by a batch that is stopped.
FeedEndsNoClose ==
    /\ feeding
    /\ Stopping
    /\ feeding' = FALSE
    /\ UNCHANGED <<toFeed, domainCh, resultCh, resultOpen, wpc, job, received,
                   consuming, ctxDone, closed, tries, zone>>

\* The list is done, or the batch is being stopped; close(domainCh).
FeedEnds ==
    /\ feeding
    /\ toFeed = {} \/ Stopping
    /\ feeding' = FALSE
    /\ UNCHANGED <<toFeed, domainCh, resultCh, resultOpen, wpc, job, received,
                   consuming, ctxDone, closed, tries, zone>>

-----------------------------------------------------------------------------
(* A worker *)

Goto(w, l) == wpc' = [wpc EXCEPT ![w] = l]

Finish(w, o) ==
    /\ job' = [job EXCEPT ![w].outcome = o]
    /\ Goto(w, "send")

\* Mutant: the domain is peeked at and left in the channel.
TakePeeks(w) ==
    /\ wpc[w] = "take"
    /\ domainCh # <<>>
    /\ job' = [job EXCEPT ![w] = [domain |-> Head(domainCh), outcome |-> "none"]]
    /\ Goto(w, "limit")
    /\ UNCHANGED <<toFeed, feeding, domainCh, resultCh, resultOpen, received,
                   consuming, ctxDone, closed, tries, zone>>

Take(w) ==
    /\ wpc[w] = "take"
    /\ domainCh # <<>>
    /\ job' = [job EXCEPT ![w] = [domain |-> Head(domainCh), outcome |-> "none"]]
    /\ domainCh' = Tail(domainCh)
    /\ Goto(w, "limit")
    /\ UNCHANGED <<toFeed, feeding, resultCh, resultOpen, received, consuming,
                   ctxDone, closed, tries, zone>>

\* A worker returns: the channel is closed and empty, or the batch is being
\* stopped while it waits for a domain, for a rate limiter token (which only
\* the context interrupts) or for room in resultCh.  What it holds is dropped.
Return(w) ==
    /\ \/ wpc[w] = "take" /\ domainCh = <<>> /\ ~feeding
       \/ wpc[w] \in {"take", "send"} /\ Stopping
       \/ wpc[w] = "limit" /\ ctxDone
    /\ Goto(w, "gone")
    /\ job' = [job EXCEPT ![w] = Idle]
    /\ UNCHANGED <<toFeed, feeding, domainCh, resultCh, resultOpen, received,
                   consuming, ctxDone, closed, tries, zone>>

LimiterWait(w) ==
    /\ wpc[w] = "limit"
    /\ ~ctxDone
    /\ Goto(w, "query")
    /\ UNCHANGED <<toFeed, feeding, domainCh, resultCh, resultOpen, job,
                   received, consuming, ctxDone, closed, tries, zone>>

\* queryDomain, and the test of the retry loop around it.
QueryDomain(w) ==
    /\ wpc[w] = "query"
    /\ LET d == job[w].domain
       IN /\ tries' = [tries EXCEPT ![d] = @ + 1]
          /\ \E o \in Verdicts[zone][d] :
                \/ o # "retry" /\ Finish(w, o)
                \/ o = "retry" /\ tries[d] < Retries /\ Goto(w, "backoff") /\ UNCHANGED job
                \/ o = "retry" /\ tries[d] >= Retries /\ Finish(w, "exhausted")
    /\ UNCHANGED <<toFeed, feeding, domainCh, resultCh, resultOpen, received,
                   consuming, ctxDone, closed, zone>>

\* The wait before the next attempt; stopping turns it into a failed result.
Backoff(w) ==
    /\ wpc[w] = "backoff"
    /\ \/ Goto(w, "query") /\ UNCHANGED job
       \/ Stopping /\ Finish(w, "failed")
    /\ UNCHANGED <<toFeed, feeding, domainCh, resultCh, resultOpen, received,
                   consuming, ctxDone, closed, tries, zone>>

\* resultCh <- result.
Send(w) ==
    /\ wpc[w] = "send"
    /\ Len(resultCh) < Concurrency
    /\ resultCh' = Append(resultCh, job[w])
    /\ job' = [job EXCEPT ![w] = Idle]
    /\ Goto(w, "take")
    /\ UNCHANGED <<toFeed, feeding, domainCh, resultOpen, received, consuming,
                   ctxDone, closed, tries, zone>>

WorkerStep(w) ==
    \/ Take(w)
    \/ Return(w)
    \/ LimiterWait(w)
    \/ QueryDomain(w)
    \/ Backoff(w)
    \/ Send(w)

-----------------------------------------------------------------------------
(* Closer, consumer, and the two ways to stop a batch *)

\* wg.Wait(); close(resultCh)
CloseResults ==
    /\ resultOpen
    /\ \A w \in Workers : wpc[w] = "gone"
    /\ resultOpen' = FALSE
    /\ UNCHANGED <<toFeed, feeding, domainCh, resultCh, wpc, job, received,
                   consuming, ctxDone, closed, tries, zone>>

Receive ==
    /\ consuming
    /\ resultCh # <<>>
    /\ LET r == Head(resultCh)
       IN received' = [received EXCEPT ![r.domain] = r.outcome]
    /\ resultCh' = Tail(resultCh)
    /\ UNCHANGED <<toFeed, feeding, domainCh, resultOpen, wpc, job, consuming,
                   ctxDone, closed, tries, zone>>

RangeEnds ==
    /\ consuming
    /\ resultCh = <<>> /\ ~resultOpen
    /\ consuming' = FALSE
    /\ UNCHANGED <<toFeed, feeding, domainCh, resultCh, resultOpen, wpc, job,
                   received, ctxDone, closed, tries, zone>>

CancelCtx ==
    /\ ~ctxDone
    /\ ctxDone' = TRUE
    /\ UNCHANGED <<toFeed, feeding, domainCh, resultCh, resultOpen, wpc, job,
                   received, consuming, closed, tries, zone>>

Close ==
    /\ ~closed
    /\ closed' = TRUE
    /\ UNCHANGED <<toFeed, feeding, domainCh, resultCh, resultOpen, wpc, job,
                   received, consuming, ctxDone, tries, zone>>

Feeder   == FeedEnds \/ \E d \in Domains : Feed(d)
Consumer == Receive \/ RangeEnds

Next ==
    \/ Feeder
    \/ \E w \in Workers : WorkerStep(w)
    \/ CloseResults
    \/ Consumer
    \/ CancelCtx
    \/ Close

Spec == Init /\ [][Next]_vars

\* Every goroutine that can run is run; the limiter hands out tokens, queries
\* and backoffs time out.  Nobody is obliged to cancel or close.
FairSpec ==
    /\ Spec
    /\ WF_vars(Feeder)
    /\ \A w \in Workers : WF_vars(WorkerStep(w))
    /\ WF_vars(CloseResults)
    /\ WF_vars(Consumer)
-----------------------------------------------------------------------------
(* Properties *)

Jobs == [domain : Domains \cup {"none"}, outcome : Outcomes \cup {"none"}]

\* Every variable has its type, and no channel holds more than its capacity.
TypeOK ==
    /\ toFeed \subseteq Domains
    /\ feeding \in BOOLEAN
    /\ domainCh \in Seq(Domains) /\ Len(domainCh) <= Concurrency
    /\ resultCh \in Seq(Jobs) /\ Len(resultCh) <= Concurrency
    /\ resultOpen \in BOOLEAN
    /\ wpc \in [Workers -> {"take", "limit", "query", "backoff", "send", "gone"}]
    /\ job \in [Workers -> Jobs]
    /\ received \in [Domains -> Outcomes \cup {"none"}]
    /\ consuming \in BOOLEAN
    /\ ctxDone \in BOOLEAN /\ closed \in BOOLEAN
    /\ zone \in Zones
    /\ tries \in [Domains -> 0..(Retries + 1)]

\* Where a domain is: not fed, queued, with a worker, answered, received.
Places(d) ==
    {<<"toFeed">> : x \in {d} \cap toFeed}
    \cup {<<"queued", i>> : i \in {j \in DOMAIN domainCh : domainCh[j] = d}}
    \cup {<<"worker", w>> : w \in {v \in Workers : job[v].domain = d}}
    \cup {<<"answered", i>> : i \in {j \in DOMAIN resultCh : resultCh[j].domain = d}}
    \cup {<<"received">> : x \in {y \in {received[d]} : y # "none"}}

\* No domain is resolved or reported twice, and none is lost, wherever the
\* goroutines are: only stopping the batch can drop one.
ExactlyOnePlace ==
    \A d \in Domains :
        /\ Cardinality(Places(d)) <= 1
        /\ Cardinality(Places(d)) = 0 => Stopping

\* p is the path of a domain to the end of its aliases, in k hops.
EndsWithin(z, d, k) ==
    \E p \in [0..k -> Names] :
        /\ p[0] = d
        /\ \A i \in 1..k : p[i] = IF Terminal(z, p[i - 1]) THEN p[i - 1]
                                  ELSE z.cname[p[i - 1]]
        /\ Terminal(z, p[k])

\* Whatever queries are lost on the way, the verdict on a domain is true: a
\* domain reported valid has an address, one reported NXDOMAIN (and so cached
\* as such and left out of the export) has none of either kind, and a domain
\* is given up for its aliases only when they do not end in fewer hops than
\* MaxCNAMEChain.  "Max retries exceeded" is reported only after all of them.
VerdictsTrue ==
    \A d \in Domains :
        LET end == End(zone, d)
        IN /\ received[d] = "valid" => Terminal(zone, end) /\ zone.has[end] # {}
           /\ received[d] = "nxdomain" => zone.has[end] = {}
           /\ received[d] = "badchain" => ~EndsWithin(zone, d, MaxCNAMEChain - 1)
           /\ received[d] = "exhausted" => tries[d] = Retries + 1

\* The consumer's loop ends, and ends with an answer for every domain unless
\* the batch was stopped: "the channel is closed when all domains are resolved
\* or ctx is cancelled".
BatchEnds ==
    <>(~consuming /\ (Stopping \/ \A d \in Domains : received[d] # "none"))
=============================================================================
