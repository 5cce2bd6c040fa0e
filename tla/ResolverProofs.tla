--------------------------- MODULE ResolverProofs ---------------------------
(***************************************************************************)
(* Proofs about Resolver, for any batch, any number of workers, any zones  *)
(* and any number of retries.                                              *)
(*                                                                         *)
(* A domain moves through five places: the feeder's list, domainCh, a      *)
(* worker, resultCh, the consumer.  The inductive invariant says of every  *)
(* two of them that the domain is not in both, of every channel that it is *)
(* there once, and what its attempts so far allow in each place.           *)
(***************************************************************************)
EXTENDS Resolver, SequenceTheorems, FiniteSetTheorems, TLAPS

\* The places of a domain, as Places counts them.
Queued(d, i)   == i \in 1..Len(domainCh) /\ domainCh[i] = d
Holds(d, w)    == job[w].domain = d
Answered(d, i) == i \in 1..Len(resultCh) /\ resultCh[i].domain = d
Received(d)    == received[d] # "none"

\* A domain is in one place at most.
Once(d) ==
    /\ d \in toFeed => /\ \A i \in Nat : ~Queued(d, i) /\ ~Answered(d, i)
                       /\ \A w \in Workers : ~Holds(d, w)
                       /\ ~Received(d)
    /\ \A i \in Nat : Queued(d, i) =>
           /\ \A j \in Nat : (Queued(d, j) => i = j) /\ ~Answered(d, j)
           /\ \A w \in Workers : ~Holds(d, w)
           /\ ~Received(d)
    /\ \A w \in Workers : Holds(d, w) =>
           /\ \A v \in Workers : Holds(d, v) => v = w
           /\ \A i \in Nat : ~Answered(d, i)
           /\ ~Received(d)
    /\ \A i \in Nat : Answered(d, i) =>
           /\ \A j \in Nat : Answered(d, j) => i = j
           /\ ~Received(d)

\* A domain is in one place at least, until the batch is stopped.
NotLost(d) ==
    \/ d \in toFeed
    \/ \E i \in Nat : Queued(d, i)
    \/ \E w \in Workers : Holds(d, w)
    \/ \E i \in Nat : Answered(d, i)
    \/ Received(d)
    \/ Stopping

\* The types, without the bound on the attempts.
BaseType ==
    /\ toFeed \subseteq Domains
    /\ feeding \in BOOLEAN
    /\ domainCh \in Seq(Domains) /\ Len(domainCh) <= Concurrency
    /\ resultCh \in Seq([domain : Domains, outcome : Outcomes])
    /\ Len(resultCh) <= Concurrency
    /\ resultOpen \in BOOLEAN
    /\ wpc \in [Workers -> {"take", "limit", "query", "backoff", "send", "gone"}]
    /\ job \in [Workers -> Jobs]
    /\ received \in [Domains -> Outcomes \cup {"none"}]
    /\ consuming \in BOOLEAN
    /\ ctxDone \in BOOLEAN /\ closed \in BOOLEAN
    /\ zone \in Zones
    /\ tries \in [Domains -> Nat]

\* A worker without a domain holds none; one that sends has a result.
JobInv ==
    \A w \in Workers :
        /\ wpc[w] \in {"take", "gone"} => job[w] = Idle
        /\ wpc[w] \notin {"take", "gone"} => job[w].domain \in Domains
        /\ wpc[w] \in {"limit", "query", "backoff"} => job[w].outcome = "none"
        /\ wpc[w] = "send" => job[w].outcome \in Outcomes

\* The attempts made for a domain, by the place it is in.
TriesOf(d) ==
    /\ tries[d] <= Retries + 1
    /\ d \in toFeed => tries[d] = 0
    /\ \A i \in Nat : Queued(d, i) => tries[d] = 0
    /\ \A w \in Workers : Holds(d, w) =>
           /\ wpc[w] = "limit" => tries[d] = 0
           /\ wpc[w] \in {"query", "backoff"} => tries[d] <= Retries
           /\ job[w].outcome = "exhausted" => tries[d] = Retries + 1
    /\ \A i \in Nat : Answered(d, i) /\ resultCh[i].outcome = "exhausted" =>
           tries[d] = Retries + 1
    /\ received[d] = "exhausted" => tries[d] = Retries + 1

IInv ==
    /\ BaseType
    /\ JobInv
    /\ \A d \in Domains : Once(d) /\ NotLost(d) /\ TriesOf(d)

-----------------------------------------------------------------------------
USE DnsAssumption, ResolverAssumption

Results == [domain : Domains, outcome : Outcomes]

\* The channels' capacity is a number: there are finitely many workers.
LEMMA ConcurrencyType == Concurrency \in Nat
  BY FS_CardinalityType DEF Concurrency

\* "none" is no domain.
LEMMA NoDomain == "none" \notin Domains
  BY DEF NoName

\* One attempt ends in an answer or asks to be repeated.
LEMMA VerdictType ==
    ASSUME NEW z \in Zones, NEW d \in Domains, NEW o \in Verdicts[z][d]
    PROVE  o \in Answers \cup {"retry"}
<1>1. o \in queryDomain(z, d)
  BY DEF Verdicts
<1>2. PICK t \in Targets(z, d) :
             o \in IF t \in Names
                   THEN {Conclude(a, aaaa) : a \in Replies(z, t, "A"),
                                             aaaa \in Replies(z, t, "AAAA")}
                   ELSE {"badchain"}
  BY <1>1 DEF queryDomain
<1>3. CASE t \in Names
  <2>1. PICK a \in Replies(z, t, "A"), aaaa \in Replies(z, t, "AAAA") :
               o = Conclude(a, aaaa)
    BY <1>2, <1>3
  <2>2. QED
    BY <2>1 DEF Conclude, Answers
<1>4. CASE t \notin Names
  BY <1>2, <1>4 DEF Answers
<1>5. QED
  BY <1>3, <1>4

\* A channel after a send and after a receive.
LEMMA ChannelMoves ==
    ASSUME NEW S, NEW q \in Seq(S), NEW x \in S
    PROVE  /\ Append(q, x) \in Seq(S) /\ Len(Append(q, x)) = Len(q) + 1
           /\ \A i \in 1..Len(q) + 1 :
                 Append(q, x)[i] = IF i = Len(q) + 1 THEN x ELSE q[i]
  OBVIOUS

\* Taking the head of a channel moves the others up by one.
LEMMA ChannelPops ==
    ASSUME NEW S, NEW q \in Seq(S), q # <<>>
    PROVE  /\ Tail(q) \in Seq(S) /\ Len(Tail(q)) = Len(q) - 1 /\ Len(q) \in Nat \ {0}
           /\ Head(q) = q[1] /\ Head(q) \in S
           /\ \A i \in 1..Len(q) - 1 : Tail(q)[i] = q[i + 1]
  OBVIOUS

-----------------------------------------------------------------------------
(* What an action does to the places of a domain.                          *)

\* Feeding adds one place at the end of the domain channel.
LEMMA FeedPlaces ==
    ASSUME BaseType, NEW x \in Domains, domainCh' = Append(domainCh, x), NEW d \in Domains
    PROVE  \A i \in Nat : Queued(d, i)' <=> \/ Queued(d, i)
                                            \/ i = Len(domainCh) + 1 /\ x = d
<1>1. domainCh \in Seq(Domains) /\ Len(domainCh) \in Nat
  BY DEF BaseType
<1>2. /\ Len(domainCh') = Len(domainCh) + 1
      /\ \A i \in 1..Len(domainCh) + 1 :
            domainCh'[i] = IF i = Len(domainCh) + 1 THEN x ELSE domainCh[i]
  BY <1>1, ChannelMoves
<1>3. QED
  BY <1>1, <1>2 DEF Queued

\* Taking a job frees the first place and moves the others up.
LEMMA TakePlaces ==
    ASSUME BaseType, domainCh # <<>>, domainCh' = Tail(domainCh), NEW d \in Domains
    PROVE  /\ \A i \in Nat : Queued(d, i)' <=> i # 0 /\ Queued(d, i + 1)
           /\ \A i \in Nat : Queued(d, i) => i = 1 \/ (i - 1 \in Nat /\ Queued(d, i - 1)')
           /\ Head(domainCh) \in Domains
           /\ Queued(d, 1) <=> d = Head(domainCh)
<1>1. domainCh \in Seq(Domains)
  BY DEF BaseType
<1>2. /\ Len(domainCh') = Len(domainCh) - 1 /\ Len(domainCh) \in Nat \ {0}
      /\ Head(domainCh) = domainCh[1] /\ Head(domainCh) \in Domains
      /\ \A i \in 1..Len(domainCh) - 1 : domainCh'[i] = domainCh[i + 1]
  BY <1>1, ChannelPops
<1>3. \A i \in Nat : Queued(d, i)' <=> i # 0 /\ Queued(d, i + 1)
  BY <1>2 DEF Queued
<1>4. \A i \in Nat : Queued(d, i) => i = 1 \/ (i - 1 \in Nat /\ Queued(d, i - 1)')
  BY <1>2 DEF Queued
<1>5. QED
  BY <1>2, <1>3, <1>4 DEF Queued

\* Sending adds one place at the end of the result channel.
LEMMA SendPlaces ==
    ASSUME BaseType, NEW r \in Results, resultCh' = Append(resultCh, r), NEW d \in Domains
    PROVE  /\ \A i \in Nat : Answered(d, i)' <=> \/ Answered(d, i)
                                                 \/ i = Len(resultCh) + 1 /\ r.domain = d
           /\ \A i \in Nat : Answered(d, i) => resultCh'[i] = resultCh[i]
           /\ resultCh'[Len(resultCh) + 1] = r
           /\ Len(resultCh) + 1 \in Nat
           /\ ~Answered(d, Len(resultCh) + 1)
<1>1. resultCh \in Seq(Results) /\ Len(resultCh) \in Nat
  BY DEF BaseType, Results
<1>2. /\ Len(resultCh') = Len(resultCh) + 1
      /\ \A i \in 1..Len(resultCh) + 1 :
            resultCh'[i] = IF i = Len(resultCh) + 1 THEN r ELSE resultCh[i]
  BY <1>1, ChannelMoves
<1>3. QED
  BY <1>1, <1>2 DEF Answered

\* Receiving frees its first place and moves the others up.
LEMMA ReceivePlaces ==
    ASSUME BaseType, resultCh # <<>>, resultCh' = Tail(resultCh), NEW d \in Domains
    PROVE  /\ \A i \in Nat : Answered(d, i)' <=> i # 0 /\ Answered(d, i + 1)
           /\ \A i \in Nat : Answered(d, i) => i = 1 \/ (i - 1 \in Nat /\ Answered(d, i - 1)')
           /\ \A i \in Nat : Answered(d, i)' => resultCh'[i] = resultCh[i + 1]
           /\ Head(resultCh) \in Results /\ Head(resultCh) = resultCh[1]
           /\ Answered(d, 1) <=> d = Head(resultCh).domain
<1>1. resultCh \in Seq(Results)
  BY DEF BaseType, Results
<1>2. /\ Len(resultCh') = Len(resultCh) - 1 /\ Len(resultCh) \in Nat \ {0}
      /\ Head(resultCh) = resultCh[1] /\ Head(resultCh) \in Results
      /\ \A i \in 1..Len(resultCh) - 1 : resultCh'[i] = resultCh[i + 1]
  BY <1>1, ChannelPops
<1>3. \A i \in Nat : Answered(d, i)' <=> i # 0 /\ Answered(d, i + 1)
  BY <1>2 DEF Answered
<1>4. \A i \in Nat : Answered(d, i) => i = 1 \/ (i - 1 \in Nat /\ Answered(d, i - 1)')
  BY <1>2 DEF Answered
<1>5. QED
  BY <1>2, <1>3, <1>4 DEF Answered

\* A step that moves no domain.
LEMMA NothingMoves ==
    ASSUME NEW d \in Domains, Once(d), NotLost(d),
           UNCHANGED <<toFeed, domainCh, resultCh, received>>,
           \A w \in Workers : Holds(d, w)' <=> Holds(d, w), Stopping => Stopping'
    PROVE  Once(d)' /\ NotLost(d)'
<1>1. /\ \A i \in Nat : Queued(d, i)' <=> Queued(d, i)
      /\ \A i \in Nat : Answered(d, i)' <=> Answered(d, i)
      /\ Received(d)' <=> Received(d)
  BY DEF Queued, Answered, Received
<1>2. Once(d)'
  BY <1>1 DEF Once
<1>3. NotLost(d)'
  BY <1>1 DEF NotLost
<1>4. QED
  BY <1>2, <1>3

-----------------------------------------------------------------------------
(* One lemma per action: the domain is still in one place, and its         *)
(* attempts are those of the place.                                        *)

Placed(d) == Once(d) /\ NotLost(d) /\ TriesOf(d)

\* The feeder puts a domain into the channel.
LEMMA FeedStep ==
    ASSUME IInv, NEW x \in Domains, Feed(x)
    PROVE  BaseType' /\ JobInv' /\ \A d \in Domains : Placed(d)'
<1>1. BaseType /\ JobInv
  BY DEF IInv
<1>2. /\ x \in toFeed /\ domainCh' = Append(domainCh, x) /\ toFeed' = toFeed \ {x}
      /\ Len(domainCh) < Concurrency
      /\ UNCHANGED <<feeding, resultCh, resultOpen, wpc, job, received, consuming,
                     ctxDone, closed, tries, zone>>
  BY DEF Feed
<1>3. domainCh' \in Seq(Domains) /\ Len(domainCh') <= Concurrency
  <2>1. domainCh \in Seq(Domains) /\ Len(domainCh) \in Nat
    BY <1>1 DEF BaseType
  <2>2. QED
    BY <1>2, <2>1, ChannelMoves, ConcurrencyType
<1>4. BaseType'
  BY <1>1, <1>2, <1>3 DEF BaseType
<1>5. JobInv'
  BY <1>1, <1>2 DEF JobInv
<1>6. ASSUME NEW d \in Domains PROVE Placed(d)'
  <2>1. Once(d) /\ NotLost(d) /\ TriesOf(d)
    BY DEF IInv
  <2>2. \A i \in Nat : Queued(d, i)' <=> \/ Queued(d, i)
                                         \/ i = Len(domainCh) + 1 /\ x = d
    BY <1>1, <1>2, FeedPlaces
  <2>3. /\ \A i \in Nat : Answered(d, i)' <=> Answered(d, i)
        /\ \A w \in Workers : Holds(d, w)' <=> Holds(d, w)
        /\ Received(d)' <=> Received(d)
    BY <1>2 DEF Answered, Holds, Received
  <2>4. Len(domainCh) + 1 \in Nat
    BY <1>1 DEF BaseType
  <2>5. Once(d)'
    BY <1>2, <2>1, <2>2, <2>3 DEF Once
  <2>6. NotLost(d)'
    BY <1>2, <2>1, <2>2, <2>3, <2>4 DEF NotLost, Stopping
  <2>7. TriesOf(d)'
    BY <1>2, <2>1, <2>2, <2>3 DEF TriesOf
  <2>8. QED
    BY <2>5, <2>6, <2>7 DEF Placed
<1>7. QED
  BY <1>4, <1>5, <1>6

\* A worker takes the domain at the head.
LEMMA TakeStep ==
    ASSUME IInv, NEW w \in Workers, Take(w)
    PROVE  BaseType' /\ JobInv' /\ \A d \in Domains : Placed(d)'
<1>1. BaseType /\ JobInv
  BY DEF IInv
<1> DEFINE x == Head(domainCh)
           j == [domain |-> x, outcome |-> "none"]
<1>2. /\ wpc[w] = "take" /\ domainCh # <<>> /\ domainCh' = Tail(domainCh)
      /\ job' = [job EXCEPT ![w] = j] /\ wpc' = [wpc EXCEPT ![w] = "limit"]
      /\ UNCHANGED <<toFeed, feeding, resultCh, resultOpen, received, consuming,
                     ctxDone, closed, tries, zone>>
  BY DEF Take, Goto
<1>3. /\ domainCh' \in Seq(Domains) /\ Len(domainCh') <= Concurrency
      /\ x \in Domains
  <2>1. domainCh \in Seq(Domains) /\ Len(domainCh) \in Nat /\ Len(domainCh) <= Concurrency
    BY <1>1 DEF BaseType
  <2>2. QED
    BY <1>2, <2>1, ChannelPops, ConcurrencyType
<1>4. j \in Jobs /\ j.domain = x /\ j.outcome = "none"
  BY <1>3 DEF Jobs
<1>5. ASSUME NEW d \in Domains
      PROVE  /\ \A i \in Nat : Queued(d, i)' <=> i # 0 /\ Queued(d, i + 1)
             /\ \A i \in Nat : Queued(d, i) => i = 1 \/ (i - 1 \in Nat /\ Queued(d, i - 1)')
             /\ Queued(d, 1) <=> d = x
  BY <1>1, <1>2, TakePlaces
<1> HIDE DEF j, x
<1>6. BaseType'
  BY <1>1, <1>2, <1>3, <1>4 DEF BaseType
<1>7. /\ job'[w] = j /\ wpc'[w] = "limit"
      /\ \A v \in Workers \ {w} : job'[v] = job[v] /\ wpc'[v] = wpc[v]
  BY <1>1, <1>2 DEF BaseType
<1>8. JobInv'
  BY <1>1, <1>3, <1>4, <1>7 DEF JobInv
<1>9. job[w].domain = "none"
  BY <1>1, <1>2 DEF JobInv, Idle
<1>10. ASSUME NEW d \in Domains PROVE Placed(d)'
  <2>1. Once(d) /\ NotLost(d) /\ TriesOf(d)
    BY DEF IInv
  <2>2. /\ \A i \in Nat : Answered(d, i)' <=> Answered(d, i)
        /\ Received(d)' <=> Received(d)
    BY <1>2 DEF Answered, Received
  <2>3. /\ ~Holds(d, w) /\ (Holds(d, w)' <=> d = x)
        /\ \A v \in Workers \ {w} : Holds(d, v)' <=> Holds(d, v)
    BY <1>4, <1>7, <1>9, NoDomain DEF Holds
  <2>4. Once(d)'
    <3>1. CASE d = x
      <4>1. Queued(d, 1) /\ 1 \in Nat
        BY <1>5, <3>1
      <4>2. \A i \in Nat : ~Queued(d, i)'
        BY <1>5, <2>1, <4>1 DEF Once
      <4>3. /\ \A i \in Nat : ~Answered(d, i)'
            /\ \A v \in Workers : ~Holds(d, v)
            /\ ~Received(d)' /\ d \notin toFeed'
        BY <1>2, <2>1, <2>2, <4>1 DEF Once
      <4>4. QED
        BY <2>3, <4>2, <4>3 DEF Once
    <3>2. CASE d # x
      <4>1. \A v \in Workers : Holds(d, v)' <=> Holds(d, v)
        BY <2>3, <3>2
      <4>2. \A i \in Nat : i + 1 \in Nat
        OBVIOUS
      <4>3. \A i \in Nat : Queued(d, i)' => \A k \in Nat : Queued(d, k)' => i = k
        BY <1>5, <2>1, <4>2 DEF Once
      <4>4. QED
        BY <1>2, <1>5, <2>1, <2>2, <4>1, <4>2, <4>3 DEF Once
    <3>3. QED
      BY <3>1, <3>2
  <2>5. NotLost(d)'
    BY <1>2, <1>5, <2>1, <2>2, <2>3 DEF NotLost, Stopping
  <2>6. TriesOf(d)'
    <3>1. d = x => tries[d] = 0
      BY <1>5, <2>1 DEF TriesOf
    <3>2. \A i \in Nat : Queued(d, i)' => tries'[d] = 0
      BY <1>2, <1>5, <2>1 DEF TriesOf
    <3>3. ASSUME NEW v \in Workers, Holds(d, v)'
          PROVE  /\ wpc'[v] = "limit" => tries'[d] = 0
                 /\ wpc'[v] \in {"query", "backoff"} => tries'[d] <= Retries
                 /\ job'[v].outcome = "exhausted" => tries'[d] = Retries + 1
      <4>1. CASE v = w
        BY <1>2, <1>4, <1>7, <2>3, <3>1, <3>3, <4>1
      <4>2. CASE v # w
        BY <1>2, <1>7, <2>1, <2>3, <3>3, <4>2 DEF TriesOf
      <4>3. QED
        BY <4>1, <4>2
    <3>4. QED
      BY <1>2, <2>1, <2>2, <3>2, <3>3 DEF TriesOf
  <2>7. QED
    BY <2>4, <2>5, <2>6 DEF Placed
<1>11. QED
  BY <1>6, <1>8, <1>10

\* A worker that returns drops what it holds only when the batch is stopped.
LEMMA ReturnStep ==
    ASSUME IInv, NEW w \in Workers, Return(w)
    PROVE  BaseType' /\ JobInv' /\ \A d \in Domains : Placed(d)'
<1>1. BaseType /\ JobInv
  BY DEF IInv
<1>2. /\ job' = [job EXCEPT ![w] = Idle] /\ wpc' = [wpc EXCEPT ![w] = "gone"]
      /\ UNCHANGED <<toFeed, feeding, domainCh, resultCh, resultOpen, received,
                     consuming, ctxDone, closed, tries, zone>>
  BY DEF Return, Goto
<1>3. wpc[w] = "take" \/ Stopping
  BY DEF Return, Stopping
<1>4. Idle \in Jobs /\ Idle.domain = "none" /\ Idle.outcome = "none"
  BY DEF Jobs, Idle
<1>5. BaseType'
  BY <1>1, <1>2, <1>4 DEF BaseType
<1>6. /\ job'[w] = Idle /\ wpc'[w] = "gone"
      /\ \A v \in Workers \ {w} : job'[v] = job[v] /\ wpc'[v] = wpc[v]
  BY <1>1, <1>2 DEF BaseType
<1>7. JobInv'
  BY <1>1, <1>6 DEF JobInv
<1>8. ASSUME NEW d \in Domains PROVE Placed(d)'
  <2>1. Once(d) /\ NotLost(d) /\ TriesOf(d)
    BY DEF IInv
  <2>2. /\ \A i \in Nat : Answered(d, i)' <=> Answered(d, i)
        /\ \A i \in Nat : Queued(d, i)' <=> Queued(d, i)
        /\ Received(d)' <=> Received(d)
    BY <1>2 DEF Answered, Queued, Received
  <2>3. /\ ~Holds(d, w)' /\ (Holds(d, w) => Stopping)
        /\ \A v \in Workers \ {w} : Holds(d, v)' <=> Holds(d, v)
    BY <1>1, <1>3, <1>4, <1>6, NoDomain DEF Holds, JobInv
  <2>4. Once(d)'
    BY <1>2, <2>1, <2>2, <2>3 DEF Once
  <2>5. NotLost(d)'
    BY <1>2, <2>1, <2>2, <2>3 DEF NotLost, Stopping
  <2>6. TriesOf(d)'
    BY <1>2, <1>6, <2>1, <2>2, <2>3 DEF TriesOf
  <2>7. QED
    BY <2>4, <2>5, <2>6 DEF Placed
<1>9. QED
  BY <1>5, <1>7, <1>8

\* The worker's domain stays the same; its attempts may grow by one.
LEMMA WorkerKeeps ==
    ASSUME IInv, NEW w \in Workers, NEW label \in {"query", "backoff", "send"},
           NEW o \in Outcomes \cup {"none"},
           wpc[w] \in {"limit", "query", "backoff"},
           wpc' = [wpc EXCEPT ![w] = label], job' = [job EXCEPT ![w].outcome = o],
           IF label = "send" THEN o \in Outcomes ELSE o = "none",
           UNCHANGED <<toFeed, feeding, domainCh, resultCh, resultOpen, received,
                       consuming, ctxDone, closed, zone>>,
           \/ tries' = tries
           \/ tries' = [tries EXCEPT ![job[w].domain] = @ + 1] /\ wpc[w] = "query",
           label \in {"query", "backoff"} => tries'[job[w].domain] <= Retries,
           o = "exhausted" => tries'[job[w].domain] = Retries + 1
    PROVE  BaseType' /\ JobInv' /\ \A d \in Domains : Placed(d)'
<1>1. BaseType /\ JobInv
  BY DEF IInv
<1> DEFINE x == job[w].domain
<1>2. x \in Domains /\ job[w] \in Jobs /\ job[w].outcome = "none"
  BY <1>1 DEF JobInv, BaseType
<1>3. /\ \A v \in Workers \ {w} : job'[v] = job[v] /\ wpc'[v] = wpc[v]
      /\ job'[w] = [job[w] EXCEPT !.outcome = o] /\ wpc'[w] = label
  BY <1>1 DEF BaseType
<1>4. job'[w].domain = x /\ job'[w].outcome = o /\ job'[w] \in Jobs
  BY <1>2, <1>3 DEF Jobs
<1>5. job' \in [Workers -> Jobs]
  <2>1. job' = [job EXCEPT ![w] = [job[w] EXCEPT !.outcome = o]]
    BY <1>1 DEF BaseType
  <2>2. QED
    BY <1>1, <1>3, <1>4, <2>1 DEF BaseType
<1>6. tries' \in [Domains -> Nat] /\ \A d \in Domains \ {x} : tries'[d] = tries[d]
  BY <1>1, <1>2 DEF BaseType
<1> HIDE DEF x
<1>7. BaseType'
  BY <1>1, <1>5, <1>6 DEF BaseType
<1>8. JobInv'
  BY <1>1, <1>2, <1>3, <1>4 DEF JobInv
<1>9. ASSUME NEW d \in Domains PROVE Placed(d)'
  <2>1. Once(d) /\ NotLost(d) /\ TriesOf(d)
    BY DEF IInv
  <2>2. \A v \in Workers : Holds(d, v)' <=> Holds(d, v)
    BY <1>3, <1>4 DEF Holds, x
  <2>3. Once(d)' /\ NotLost(d)'
    BY <2>1, <2>2, NothingMoves DEF Stopping
  <2>4. /\ \A i \in Nat : Answered(d, i)' <=> Answered(d, i)
        /\ \A i \in Nat : Queued(d, i)' <=> Queued(d, i)
    BY DEF Answered, Queued
  <2>5. CASE d # x
    <3>1. tries'[d] = tries[d] /\ ~Holds(d, w)
      BY <1>6, <2>5 DEF Holds, x
    <3>2. QED
      BY <1>3, <2>1, <2>2, <2>3, <2>4, <3>1 DEF TriesOf, Placed
  <2>6. CASE d = x
    <3>1. /\ Holds(d, w) /\ d \notin toFeed /\ ~Received(d)
          /\ \A v \in Workers \ {w} : ~Holds(d, v)
          /\ \A i \in Nat : ~Queued(d, i) /\ ~Answered(d, i)
      BY <2>1, <2>6 DEF Once, Holds, x
    <3>2. tries'[d] <= Retries + 1
      <4>1. CASE tries' = tries
        BY <2>1, <4>1 DEF TriesOf
      <4>2. CASE tries' # tries
        <5>1. wpc[w] = "query" /\ tries'[d] = tries[d] + 1
          BY <1>1, <1>2, <2>6, <4>2 DEF BaseType, x
        <5>2. tries[d] <= Retries /\ tries[d] \in Nat
          BY <1>1, <2>1, <3>1, <5>1 DEF TriesOf, BaseType
        <5>3. QED
          BY <5>1, <5>2
      <4>3. QED
        BY <4>1, <4>2
    <3>3. /\ label \in {"query", "backoff"} => tries'[d] <= Retries
          /\ o = "exhausted" => tries'[d] = Retries + 1
      BY <2>6 DEF x
    <3>4. \A v \in Workers \ {w} : ~Holds(d, v)'
      BY <2>2, <3>1
    <3>5. \A i \in Nat : ~Queued(d, i)' /\ ~Answered(d, i)'
      BY <2>4, <3>1
    <3>6. received'[d] # "exhausted" /\ d \notin toFeed'
      BY <3>1 DEF Received
    <3>7. TriesOf(d)'
      BY <1>3, <1>4, <3>2, <3>3, <3>4, <3>5, <3>6 DEF TriesOf
    <3>8. QED
      BY <2>3, <3>7 DEF Placed
  <2>7. QED
    BY <2>5, <2>6
<1>10. QED
  BY <1>7, <1>8, <1>9

\* A result written over itself.
LEMMA SameJob ==
    ASSUME IInv, NEW w \in Workers, wpc[w] \in {"limit", "query", "backoff"}
    PROVE  job = [job EXCEPT ![w].outcome = "none"]
<1>1. job \in [Workers -> Jobs] /\ job[w] \in Jobs /\ job[w].outcome = "none"
  BY DEF IInv, BaseType, JobInv
<1>2. job[w] = [domain |-> job[w].domain, outcome |-> job[w].outcome]
  BY <1>1 DEF Jobs
<1>3. [job[w] EXCEPT !.outcome = "none"] = job[w]
  BY <1>1, <1>2
<1>4. job = [job EXCEPT ![w] = [job[w] EXCEPT !.outcome = "none"]]
  BY <1>1, <1>3
<1>5. QED
  BY <1>4

\* A worker passes the limiter.
LEMMA LimiterStep ==
    ASSUME IInv, NEW w \in Workers, LimiterWait(w)
    PROVE  BaseType' /\ JobInv' /\ \A d \in Domains : Placed(d)'
<1>1. /\ wpc[w] = "limit" /\ wpc' = [wpc EXCEPT ![w] = "query"]
      /\ job' = job /\ tries' = tries
      /\ UNCHANGED <<toFeed, feeding, domainCh, resultCh, resultOpen, received,
                     consuming, ctxDone, closed, zone>>
  BY DEF LimiterWait, Goto
<1>2. job' = [job EXCEPT ![w].outcome = "none"]
  BY <1>1, SameJob
<1>3. tries[job[w].domain] <= Retries
  <2>1. job[w].domain \in Domains /\ Holds(job[w].domain, w)
    BY <1>1 DEF IInv, JobInv, Holds
  <2>2. TriesOf(job[w].domain)
    BY <2>1 DEF IInv
  <2>3. QED
    BY <1>1, <2>1, <2>2 DEF TriesOf
<1>4. QED
  BY <1>1, <1>2, <1>3, WorkerKeeps

\* A worker asks; one more attempt is made.
LEMMA QueryStep ==
    ASSUME IInv, NEW w \in Workers, QueryDomain(w)
    PROVE  BaseType' /\ JobInv' /\ \A d \in Domains : Placed(d)'
<1> DEFINE d == job[w].domain
<1>1. /\ wpc[w] = "query" /\ tries' = [tries EXCEPT ![d] = @ + 1]
      /\ UNCHANGED <<toFeed, feeding, domainCh, resultCh, resultOpen, received,
                     consuming, ctxDone, closed, zone>>
  BY DEF QueryDomain
<1>2. PICK o \in Verdicts[zone][d] :
            \/ o # "retry" /\ Finish(w, o)
            \/ o = "retry" /\ tries[d] < Retries /\ Goto(w, "backoff") /\ UNCHANGED job
            \/ o = "retry" /\ tries[d] >= Retries /\ Finish(w, "exhausted")
  BY DEF QueryDomain
<1>3. d \in Domains /\ Holds(d, w) /\ zone \in Zones /\ tries \in [Domains -> Nat]
  BY <1>1 DEF IInv, JobInv, Holds, BaseType
<1>4. tries[d] <= Retries /\ tries[d] \in Nat /\ tries'[d] = tries[d] + 1
  <2>1. TriesOf(d)
    BY <1>3 DEF IInv
  <2>2. QED
    BY <1>1, <1>3, <2>1 DEF TriesOf
<1>5. o \in Answers \cup {"retry"}
  BY <1>3, VerdictType
<1>6. "exhausted" \notin Answers /\ Answers \subseteq Outcomes /\ "exhausted" \in Outcomes
  BY DEF Answers, Outcomes
<1>7. CASE o # "retry"
  <2>1. wpc' = [wpc EXCEPT ![w] = "send"] /\ job' = [job EXCEPT ![w].outcome = o]
    BY <1>2, <1>7 DEF Finish, Goto
  <2>2. o \in Outcomes /\ o # "exhausted"
    BY <1>5, <1>6, <1>7
  <2>3. QED
    BY <1>1, <2>1, <2>2, WorkerKeeps
<1>8. CASE o = "retry" /\ tries[d] < Retries
  <2>1. wpc' = [wpc EXCEPT ![w] = "backoff"] /\ job' = job
    BY <1>2, <1>4, <1>8 DEF Goto
  <2>2. job' = [job EXCEPT ![w].outcome = "none"]
    BY <1>1, <2>1, SameJob
  <2>3. tries'[d] <= Retries
    BY <1>4, <1>8
  <2>4. QED
    BY <1>1, <2>1, <2>2, <2>3, WorkerKeeps
<1>9. CASE o = "retry" /\ tries[d] >= Retries
  <2>1. /\ wpc' = [wpc EXCEPT ![w] = "send"]
        /\ job' = [job EXCEPT ![w].outcome = "exhausted"]
    BY <1>2, <1>4, <1>9 DEF Finish, Goto
  <2>2. tries'[d] = Retries + 1
    BY <1>4, <1>9
  <2>3. QED
    BY <1>1, <1>6, <2>1, <2>2, WorkerKeeps
<1>10. QED
  BY <1>4, <1>7, <1>8, <1>9

\* A worker waits between attempts, or gives up because it is to stop.
LEMMA BackoffStep ==
    ASSUME IInv, NEW w \in Workers, Backoff(w)
    PROVE  BaseType' /\ JobInv' /\ \A d \in Domains : Placed(d)'
<1>1. /\ wpc[w] = "backoff" /\ tries' = tries
      /\ UNCHANGED <<toFeed, feeding, domainCh, resultCh, resultOpen, received,
                     consuming, ctxDone, closed, zone>>
  BY DEF Backoff
<1>2. tries[job[w].domain] <= Retries
  <2>1. job[w].domain \in Domains /\ Holds(job[w].domain, w)
    BY <1>1 DEF IInv, JobInv, Holds
  <2>2. TriesOf(job[w].domain)
    BY <2>1 DEF IInv
  <2>3. QED
    BY <1>1, <2>1, <2>2 DEF TriesOf
<1>3. CASE Finish(w, "failed")
  <2>1. /\ wpc' = [wpc EXCEPT ![w] = "send"]
        /\ job' = [job EXCEPT ![w].outcome = "failed"]
    BY <1>3 DEF Finish, Goto
  <2>2. "failed" \in Outcomes
    BY DEF Answers, Outcomes
  <2>3. QED
    BY <1>1, <2>1, <2>2, WorkerKeeps
<1>4. CASE ~Finish(w, "failed")
  <2>1. wpc' = [wpc EXCEPT ![w] = "query"] /\ job' = job
    BY <1>4 DEF Backoff, Goto
  <2>2. job' = [job EXCEPT ![w].outcome = "none"]
    BY <1>1, <2>1, SameJob
  <2>3. QED
    BY <1>1, <1>2, <2>1, <2>2, WorkerKeeps
<1>5. QED
  BY <1>3, <1>4

\* A worker delivers its result.
LEMMA SendStep ==
    ASSUME IInv, NEW w \in Workers, Send(w)
    PROVE  BaseType' /\ JobInv' /\ \A d \in Domains : Placed(d)'
<1>1. BaseType /\ JobInv
  BY DEF IInv
<1> DEFINE r == job[w]
           x == r.domain
<1>2. /\ wpc[w] = "send" /\ Len(resultCh) < Concurrency
      /\ resultCh' = Append(resultCh, r) /\ job' = [job EXCEPT ![w] = Idle]
      /\ wpc' = [wpc EXCEPT ![w] = "take"]
      /\ UNCHANGED <<toFeed, feeding, domainCh, resultOpen, received, consuming,
                     ctxDone, closed, tries, zone>>
  BY DEF Send, Goto
<1>3. r \in Results /\ x \in Domains
  <2>1. r \in Jobs /\ r.domain \in Domains /\ r.outcome \in Outcomes
    BY <1>1, <1>2 DEF JobInv, BaseType
  <2>2. QED
    BY <2>1 DEF Jobs, Results
<1>4. Idle \in Jobs /\ Idle.domain = "none" /\ Idle.outcome = "none"
  BY DEF Jobs, Idle
<1>5. resultCh' \in Seq(Results) /\ Len(resultCh') <= Concurrency
  <2>1. resultCh \in Seq(Results) /\ Len(resultCh) \in Nat
    BY <1>1 DEF BaseType, Results
  <2>2. QED
    BY <1>2, <1>3, <2>1, ChannelMoves, ConcurrencyType
<1>6. /\ job'[w] = Idle /\ wpc'[w] = "take"
      /\ \A v \in Workers \ {w} : job'[v] = job[v] /\ wpc'[v] = wpc[v]
  BY <1>1, <1>2 DEF BaseType
<1>7. BaseType'
  BY <1>1, <1>2, <1>4, <1>5 DEF BaseType, Results
<1>8. JobInv'
  BY <1>1, <1>6 DEF JobInv
<1>9. ASSUME NEW d \in Domains
      PROVE  /\ \A i \in Nat : Answered(d, i)' <=> \/ Answered(d, i)
                                                   \/ i = Len(resultCh) + 1 /\ x = d
             /\ \A i \in Nat : Answered(d, i) => resultCh'[i] = resultCh[i]
             /\ resultCh'[Len(resultCh) + 1] = r
             /\ Len(resultCh) + 1 \in Nat
  BY <1>1, <1>2, <1>3, SendPlaces
<1>10. ASSUME NEW d \in Domains
       PROVE  Holds(d, w) <=> x = d
  BY DEF Holds
<1>11. \A d \in Domains : r.outcome = "exhausted" /\ d = x => tries[d] = Retries + 1
  BY <1>3 DEF IInv, TriesOf, Holds
<1> HIDE DEF r, x
<1>12. ASSUME NEW d \in Domains PROVE Placed(d)'
  <2>1. Once(d) /\ NotLost(d) /\ TriesOf(d)
    BY DEF IInv
  <2>2. /\ \A i \in Nat : Queued(d, i)' <=> Queued(d, i)
        /\ Received(d)' <=> Received(d)
    BY <1>2 DEF Queued, Received
  <2>3. /\ ~Holds(d, w)'
        /\ \A v \in Workers \ {w} : Holds(d, v)' <=> Holds(d, v)
    BY <1>4, <1>6, NoDomain DEF Holds
  <2>4. Once(d)'
    BY <1>2, <1>9, <1>10, <2>1, <2>2, <2>3 DEF Once
  <2>5. NotLost(d)'
    BY <1>2, <1>9, <1>10, <2>1, <2>2, <2>3 DEF NotLost, Stopping
  <2>6. TriesOf(d)'
    <3>1. ASSUME NEW i \in Nat, Answered(d, i)', resultCh'[i].outcome = "exhausted"
          PROVE  tries'[d] = Retries + 1
      BY <1>2, <1>9, <1>11, <2>1, <3>1 DEF TriesOf
    <3>2. QED
      BY <1>2, <1>6, <2>1, <2>2, <2>3, <3>1 DEF TriesOf
  <2>7. QED
    BY <2>4, <2>5, <2>6 DEF Placed
<1>13. QED
  BY <1>7, <1>8, <1>12

\* The caller takes a result.
LEMMA ReceiveStep ==
    ASSUME IInv, Receive
    PROVE  BaseType' /\ JobInv' /\ \A d \in Domains : Placed(d)'
<1>1. BaseType /\ JobInv
  BY DEF IInv
<1> DEFINE r == Head(resultCh)
           x == r.domain
<1>2. /\ resultCh # <<>> /\ resultCh' = Tail(resultCh)
      /\ received' = [received EXCEPT ![x] = r.outcome]
      /\ UNCHANGED <<toFeed, feeding, domainCh, resultOpen, wpc, job, consuming,
                     ctxDone, closed, tries, zone>>
  BY DEF Receive
<1>3. ASSUME NEW d \in Domains
      PROVE  /\ \A i \in Nat : Answered(d, i)' <=> i # 0 /\ Answered(d, i + 1)
             /\ \A i \in Nat : Answered(d, i) =>
                    i = 1 \/ (i - 1 \in Nat /\ Answered(d, i - 1)')
             /\ \A i \in Nat : Answered(d, i)' => resultCh'[i] = resultCh[i + 1]
             /\ r = resultCh[1]
             /\ Answered(d, 1) <=> d = x
  BY <1>1, <1>2, ReceivePlaces
<1>4. resultCh' \in Seq(Results) /\ Len(resultCh') <= Concurrency /\ r \in Results
  <2>1. resultCh \in Seq(Results) /\ Len(resultCh) \in Nat /\ Len(resultCh) <= Concurrency
    BY <1>1 DEF BaseType, Results
  <2>2. QED
    BY <1>2, <2>1, ChannelPops, ConcurrencyType
<1>5. x \in Domains /\ r.outcome \in Outcomes
  BY <1>4 DEF Results
<1>6. r.outcome # "none"
  BY <1>5 DEF Outcomes, Answers
<1> HIDE DEF r, x
<1>7. BaseType'
  BY <1>1, <1>2, <1>4, <1>5 DEF BaseType, Results
<1>8. JobInv'
  BY <1>1, <1>2 DEF JobInv
<1>9. received'[x] = r.outcome /\ \A d \in Domains \ {x} : received'[d] = received[d]
  BY <1>1, <1>2, <1>5 DEF BaseType
<1>10. ASSUME NEW d \in Domains PROVE Placed(d)'
  <2>1. Once(d) /\ NotLost(d) /\ TriesOf(d)
    BY DEF IInv
  <2>2. /\ \A i \in Nat : Queued(d, i)' <=> Queued(d, i)
        /\ \A w \in Workers : Holds(d, w)' <=> Holds(d, w)
    BY <1>2 DEF Queued, Holds
  <2>3. \A i \in Nat : i + 1 \in Nat
    OBVIOUS
  <2>4. CASE d = x
    <3>1. Answered(d, 1) /\ 1 \in Nat /\ Received(d)'
      BY <1>3, <1>6, <1>9, <2>4 DEF Received
    <3>2. \A i \in Nat : ~Answered(d, i)'
      BY <1>3, <2>1, <3>1 DEF Once
    <3>3. /\ \A i \in Nat : ~Queued(d, i)'
          /\ \A v \in Workers : ~Holds(d, v)'
          /\ d \notin toFeed'
      BY <1>2, <2>1, <2>2, <3>1 DEF Once
    <3>4. Once(d)' /\ NotLost(d)'
      BY <3>1, <3>2, <3>3 DEF Once, NotLost
    <3>5. received'[d] = "exhausted" => tries'[d] = Retries + 1
      <4>1. resultCh[1].outcome = "exhausted" => tries[d] = Retries + 1
        BY <2>1, <3>1, Zenon DEF TriesOf
      <4>2. received'[d] = resultCh[1].outcome
        BY <1>3, <1>9, <2>4
      <4>3. tries' = tries
        BY <1>2
      <4>4. QED
        BY <4>1, <4>2, <4>3, Zenon
    <3>6. TriesOf(d)'
      BY <1>2, <2>1, <3>2, <3>3, <3>5 DEF TriesOf
    <3>7. QED
      BY <3>4, <3>6 DEF Placed
  <2>5. CASE d # x
    <3>1. received'[d] = received[d] /\ (Received(d)' <=> Received(d))
      BY <1>9, <2>5 DEF Received
    <3>2. \A i \in Nat : Answered(d, i)' => \A k \in Nat : Answered(d, k)' => i = k
      BY <1>3, <2>1, <2>3 DEF Once
    <3>3. Once(d)'
      BY <1>2, <1>3, <2>1, <2>2, <2>3, <3>1, <3>2 DEF Once
    <3>4. NotLost(d)'
      BY <1>2, <1>3, <2>1, <2>2, <2>5, <3>1 DEF NotLost, Stopping
    <3>5. ASSUME NEW i \in Nat, Answered(d, i)', resultCh'[i].outcome = "exhausted"
          PROVE  tries'[d] = Retries + 1
      BY <1>2, <1>3, <2>1, <2>3, <3>5 DEF TriesOf
    <3>6. TriesOf(d)'
      BY <1>2, <2>1, <2>2, <3>1, <3>5 DEF TriesOf
    <3>7. QED
      BY <3>3, <3>4, <3>6 DEF Placed
  <2>6. QED
    BY <2>4, <2>5
<1>11. QED
  BY <1>7, <1>8, <1>10

\* The feeder and the closer end, the batch is stopped, the loop ends.
LEMMA OtherStep ==
    ASSUME IInv,
           FeedEnds \/ CloseResults \/ RangeEnds \/ CancelCtx \/ Close \/ UNCHANGED vars
    PROVE  BaseType' /\ JobInv' /\ \A d \in Domains : Placed(d)'
<1>1. BaseType /\ JobInv
  BY DEF IInv
<1>2. UNCHANGED <<toFeed, domainCh, resultCh, wpc, job, received, tries, zone>>
  BY DEF FeedEnds, CloseResults, RangeEnds, CancelCtx, Close, vars
<1>3. /\ feeding' \in BOOLEAN /\ resultOpen' \in BOOLEAN /\ consuming' \in BOOLEAN
      /\ ctxDone' \in BOOLEAN /\ closed' \in BOOLEAN
  BY <1>1 DEF BaseType, FeedEnds, CloseResults, RangeEnds, CancelCtx, Close, vars
<1>4. Stopping => Stopping'
  BY <1>1 DEF Stopping, FeedEnds, CloseResults, RangeEnds, CancelCtx, Close, vars
<1>5. BaseType'
  BY <1>1, <1>2, <1>3 DEF BaseType
<1>6. JobInv'
  BY <1>1, <1>2 DEF JobInv
<1>7. ASSUME NEW d \in Domains PROVE Placed(d)'
  <2>1. Once(d) /\ NotLost(d) /\ TriesOf(d)
    BY DEF IInv
  <2>2. \A w \in Workers : Holds(d, w)' <=> Holds(d, w)
    BY <1>2 DEF Holds
  <2>3. Once(d)' /\ NotLost(d)'
    BY <1>2, <1>4, <2>1, <2>2, NothingMoves
  <2>4. TriesOf(d)'
    BY <1>2, <2>1 DEF TriesOf, Queued, Holds, Answered
  <2>5. QED
    BY <2>3, <2>4 DEF Placed
<1>8. QED
  BY <1>5, <1>6, <1>7

-----------------------------------------------------------------------------
(* Induction over the hops of a chain of aliases.  The library's induction *)
(* theorems take an operator as a parameter, which no backend can give a   *)
(* value; that the naturals are well founded is stated with sets only.     *)

\* A set of naturals that is not empty has a least element.
LEMMA LeastOf ==
    ASSUME NEW S, S \subseteq Nat, S # {}
    PROVE  \E m \in S : \A n \in S : m <= n
<1> DEFINE R == OpToRel(<, Nat)
<1>1. IsWellFoundedOn(R, Nat)
  BY NatLessThanWellFounded, Zenon
<1>2. \A m, n \in Nat : <<m, n>> \in R <=> m < n
  BY DEF OpToRel
<1> HIDE DEF R
<1>3. PICK m \in S : \A n \in S : ~(<<n, m>> \in R)
  BY <1>1, WFMin
<1>4. ASSUME NEW n \in S PROVE m <= n
  <2>1. m \in Nat /\ n \in Nat /\ ~(<<n, m>> \in R)
    BY <1>3
  <2>2. ~(n < m)
    BY <1>2, <2>1
  <2>3. QED
    BY <2>1, <2>2
<1>5. QED
  BY <1>4

\* A set of naturals that has 0, and every successor of what it has, has all:
\* the least number outside of it would follow one inside.
LEMMA Induction ==
    ASSUME NEW S, 0 \in S, \A n \in Nat : n \in S => n + 1 \in S
    PROVE  Nat \subseteq S
<1> DEFINE T == Nat \ S
<1>1. SUFFICES ASSUME T # {} PROVE FALSE
  OBVIOUS
<1>2. T \subseteq Nat
  OBVIOUS
<1>3. PICK n \in T : \A m \in T : n <= m
  <2> HIDE DEF T
  <2>1. QED
    BY <1>1, <1>2, LeastOf
<1>4. n \in Nat /\ n # 0
  OBVIOUS
<1>5. n - 1 \in Nat /\ ~(n <= n - 1) /\ (n - 1) + 1 = n
  BY <1>4
<1>6. n - 1 \in S
  BY <1>3, <1>5
<1>7. QED
  BY <1>4, <1>5, <1>6

\* One hop of a walk: the end stays where it is.
Hop(z, n) == IF Terminal(z, n) THEN n ELSE z.cname[n]

\* A hop leads to a name.
LEMMA HopType == ASSUME NEW z \in Zones, NEW n \in Names PROVE Hop(z, n) \in Names
  BY DEF Hop, Terminal

\* The equation that defines walk.
WalkEq(g, z, n, k) == g = [i \in 0..k |-> IF i = 0 THEN n ELSE Hop(z, g[i - 1])]

\* It has a solution for every number of hops: that of one hop less, and the
\* next name.
LEMMA WalkExists ==
    ASSUME NEW z \in Zones, NEW n \in Names, NEW k \in Nat
    PROVE  \E g \in [0..k -> Names] : WalkEq(g, z, n, k)
<1> DEFINE S == {m \in Nat : \E g \in [0..m -> Names] : WalkEq(g, z, n, m)}
<1>1. 0 \in S
  <2> DEFINE g == [i \in 0..0 |-> n]
  <2>1. g \in [0..0 -> Names] /\ WalkEq(g, z, n, 0)
    BY DEF WalkEq
  <2>2. QED
    BY <2>1
<1>2. ASSUME NEW m \in Nat, m \in S PROVE m + 1 \in S
  <2>1. PICK g \in [0..m -> Names] : WalkEq(g, z, n, m)
    BY <1>2
  <2> DEFINE h == [i \in 0..(m + 1) |-> IF i = m + 1 THEN Hop(z, g[m]) ELSE g[i]]
  <2>2. h \in [0..(m + 1) -> Names]
    BY HopType
  <2>3. WalkEq(h, z, n, m + 1)
    <3>1. ASSUME NEW i \in 0..(m + 1)
          PROVE  h[i] = IF i = 0 THEN n ELSE Hop(z, h[i - 1])
      <4>1. CASE i = m + 1
        <5>1. h[i - 1] = g[m] /\ i # 0
          BY <4>1
        <5>2. QED
          BY <4>1, <5>1
      <4>2. CASE i # m + 1
        <5>1. i \in 0..m /\ h[i] = g[i] /\ (i # 0 => h[i - 1] = g[i - 1])
          BY <4>2
        <5>2. g[i] = IF i = 0 THEN n ELSE Hop(z, g[i - 1])
          BY <2>1, <5>1 DEF WalkEq
        <5>3. QED
          BY <5>1, <5>2
      <4>3. QED
        BY <4>1, <4>2
    <3>2. QED
      BY <2>2, <3>1 DEF WalkEq
  <2> HIDE DEF h
  <2>4. QED
    BY <2>2, <2>3
<1> HIDE DEF S
<1>3. k \in S
  BY <1>1, <1>2, Induction
<1>4. QED
  BY <1>3 DEF S

\* So Walk is one: it starts at n and goes from each name to the next.
LEMMA WalkDef ==
    ASSUME NEW z \in Zones, NEW n \in Names, NEW k \in Nat
    PROVE  /\ Walk(z, n, k) \in [0..k -> Names]
           /\ Walk(z, n, k)[0] = n
           /\ \A i \in 0..(k - 1) : Walk(z, n, k)[i + 1] = Hop(z, Walk(z, n, k)[i])
<1> DEFINE w == Walk(z, n, k)
<1>1. PICK g \in [0..k -> Names] : WalkEq(g, z, n, k)
  BY WalkExists
<1>2. g = [i \in 0..k |-> IF i = 0 THEN n
             ELSE IF Terminal(z, g[i - 1]) THEN g[i - 1] ELSE z.cname[g[i - 1]]]
  BY <1>1 DEF Hop, WalkEq
<1>3. w = [i \in 0..k |-> IF i = 0 THEN n
             ELSE IF Terminal(z, w[i - 1]) THEN w[i - 1] ELSE z.cname[w[i - 1]]]
  BY <1>2 DEF Walk
<1> HIDE DEF w
<1>4. w[0] = n /\ \A i \in 0..(k - 1) : w[i + 1] = Hop(z, w[i])
  BY <1>3 DEF Hop
<1> DEFINE S == {m \in Nat : m <= k => w[m] \in Names}
<1>5. 0 \in S
  BY <1>4
<1>6. ASSUME NEW m \in Nat, m \in S PROVE m + 1 \in S
  BY <1>4, <1>6, HopType
<1> HIDE DEF S
<1>7. Nat \subseteq S
  BY <1>5, <1>6, Induction
<1>8. w \in [0..k -> Names]
  BY <1>3, <1>7 DEF S
<1>9. QED
  BY <1>4, <1>8 DEF w

\* A walk goes on from any of its names.
LEMMA WalkShifts ==
    ASSUME NEW z \in Zones, NEW n \in Names, NEW k \in Nat, NEW i \in 0..k, NEW l \in Nat
    PROVE  \A m \in 0..l : i + m <= k => Walk(z, Walk(z, n, k)[i], l)[m] = Walk(z, n, k)[i + m]
<1> DEFINE w == Walk(z, n, k)
           a == w[i]
           v == Walk(z, a, l)
           S == {m \in Nat : m <= l /\ i + m <= k => v[m] = w[i + m]}
<1>1. /\ w \in [0..k -> Names]
      /\ \A j \in 0..(k - 1) : w[j + 1] = Hop(z, w[j])
  BY WalkDef
<1>2. a \in Names
  BY <1>1
<1> HIDE DEF a
<1>3. /\ v[0] = a
      /\ \A j \in 0..(l - 1) : v[j + 1] = Hop(z, v[j])
  BY <1>2, WalkDef
<1> HIDE DEF w, v
<1>4. 0 \in S
  BY <1>3 DEF a
<1>5. ASSUME NEW m \in Nat, m \in S PROVE m + 1 \in S
  <2>1. SUFFICES ASSUME m + 1 <= l, i + (m + 1) <= k PROVE v[m + 1] = w[i + (m + 1)]
    OBVIOUS
  <2>2. v[m] = w[i + m] /\ m \in 0..(l - 1) /\ i + m \in 0..(k - 1)
    BY <1>5, <2>1
  <2>3. v[m + 1] = Hop(z, v[m]) /\ w[(i + m) + 1] = Hop(z, w[i + m])
    BY <1>1, <1>3, <2>2
  <2>4. (i + m) + 1 = i + (m + 1)
    OBVIOUS
  <2>5. QED
    BY <2>2, <2>3, <2>4
<1> HIDE DEF S
<1>6. Nat \subseteq S
  BY <1>4, <1>5, Induction
<1>7. QED
  BY <1>6 DEF S, w, v, a

\* A shorter walk is the beginning of a longer one.
LEMMA WalkPrefix ==
    ASSUME NEW z \in Zones, NEW n \in Names, NEW k \in Nat, NEW l \in Nat,
           NEW m \in 0..l, m <= k
    PROVE  Walk(z, n, l)[m] = Walk(z, n, k)[m]
<1>1. Walk(z, n, k)[0] = n /\ 0 \in 0..k /\ 0 + m = m
  BY WalkDef
<1>2. QED
  BY <1>1, WalkShifts

\* The end repeats.
LEMMA TerminalStays ==
    ASSUME NEW z \in Zones, NEW n \in Names, NEW k \in Nat, NEW i \in 0..k, NEW j \in 0..k,
           i <= j, Terminal(z, Walk(z, n, k)[i])
    PROVE  Walk(z, n, k)[j] = Walk(z, n, k)[i]
<1> DEFINE w == Walk(z, n, k)
           S == {m \in Nat : i + m <= k => w[i + m] = w[i]}
<1>1. \A m \in 0..(k - 1) : w[m + 1] = Hop(z, w[m])
  BY WalkDef
<1>2. Terminal(z, w[i])
  OBVIOUS
<1> HIDE DEF w
<1>3. 0 \in S
  OBVIOUS
<1>4. ASSUME NEW m \in Nat, m \in S PROVE m + 1 \in S
  <2>1. SUFFICES ASSUME i + (m + 1) <= k PROVE w[i + (m + 1)] = w[i]
    OBVIOUS
  <2>2. w[i + m] = w[i] /\ i + m \in 0..(k - 1) /\ (i + m) + 1 = i + (m + 1)
    BY <1>4, <2>1
  <2>3. QED
    BY <1>1, <1>2, <2>2 DEF Hop
<1> HIDE DEF S
<1>5. j - i \in S /\ j - i \in Nat /\ i + (j - i) = j
  BY <1>3, <1>4, Induction
<1>6. QED
  BY <1>5 DEF S, w

\* A walk that comes back to a name before any end never comes to an end.
LEMMA LoopNeverEnds ==
    ASSUME NEW z \in Zones, NEW n \in Names, NEW k \in Nat, NEW i \in 0..k, NEW j \in 0..k,
           j < i, Walk(z, n, k)[j] = Walk(z, n, k)[i],
           \A m \in 0..(i - 1) : ~Terminal(z, Walk(z, n, k)[m])
    PROVE  \A m \in 0..k : ~Terminal(z, Walk(z, n, k)[m])
<1> DEFINE w == Walk(z, n, k)
           S == {m \in Nat : \A l \in 0..m : l <= k => ~Terminal(z, w[l])}
<1>1. /\ w \in [0..k -> Names] /\ w[j] = w[i]
      /\ \A m \in 0..(i - 1) : ~Terminal(z, w[m])
  BY WalkDef
<1>2. ASSUME NEW m \in Nat, i + m <= k PROVE w[i + m] = w[j + m]
  <2>1. Walk(z, w[i], m)[m] = w[i + m]
    BY <1>2, WalkShifts
  <2>2. Walk(z, w[j], m)[m] = w[j + m]
    BY <1>2, WalkShifts
  <2>3. QED
    BY <1>1, <2>1, <2>2
<1> HIDE DEF w
<1>3. 0 \in S
  BY <1>1
<1>4. ASSUME NEW m \in Nat, m \in S PROVE m + 1 \in S
  <2>1. SUFFICES ASSUME NEW l \in 0..(m + 1), l <= k PROVE ~Terminal(z, w[l])
    OBVIOUS
  <2>2. CASE l < i
    BY <1>1, <2>1, <2>2
  <2>5. CASE l <= m
    BY <1>4, <2>1, <2>5
  <2>3. CASE l = m + 1 /\ i <= l
    <3>1. l - i \in Nat /\ i + (l - i) = l /\ j + (l - i) \in 0..m
      BY <2>3
    <3>2. w[l] = w[j + (l - i)]
      BY <1>2, <2>1, <3>1
    <3>3. QED
      BY <1>4, <2>1, <3>1, <3>2
  <2>4. QED
    BY <2>1, <2>2, <2>3, <2>5
<1> HIDE DEF S
<1>5. k \in S
  BY <1>3, <1>4, Induction
<1>6. QED
  BY <1>5 DEF S, w

\* Aliases that end do so before there are more of them than names.
LEMMA EndSoon ==
    ASSUME NEW z \in Zones, NEW n \in Names, NEW k \in Nat, Cardinality(Names) <= k,
           Terminal(z, Walk(z, n, k)[k])
    PROVE  Terminal(z, Walk(z, n, k)[Cardinality(Names)])
<1> DEFINE w == Walk(z, n, k)
           c == Cardinality(Names)
<1>1. c \in Nat /\ c <= k
  BY FS_CardinalityType
<1> HIDE DEF c
<1>2. SUFFICES ASSUME ~Terminal(z, w[c]) PROVE FALSE
  BY DEF c
<1>3. w \in [0..k -> Names]
  BY WalkDef
<1>4. \A m \in 0..c : ~Terminal(z, w[m])
  <2>1. SUFFICES ASSUME NEW m \in 0..c, Terminal(z, w[m]) PROVE FALSE
    OBVIOUS
  <2>2. w[c] = w[m]
    BY <1>1, <2>1, TerminalStays
  <2>3. QED
    BY <1>2, <2>1, <2>2
<1> DEFINE f == [m \in 0..c |-> w[m]]
<1> DEFINE D == 0..c
<1>5. f \in [D -> Names]
  BY <1>1, <1>3
<1>6. IsFiniteSet(D) /\ Cardinality(D) = c + 1
  BY <1>1, FS_Interval
<1>7. \E x, y \in D : x # y /\ f[x] = f[y]
  <2> HIDE DEF f, D
  <2>1. c < c + 1
    BY <1>1
  <2>2. Cardinality(Names) < Cardinality(D)
    BY <1>6, <2>1 DEF c
  <2>3. QED
    BY <1>5, <1>6, <2>2, FS_PigeonHole
<1>8. PICK i \in 0..c, j \in 0..c : j < i /\ w[j] = w[i]
  BY <1>1, <1>7
<1>9. \A m \in 0..(i - 1) : ~Terminal(z, w[m])
  BY <1>1, <1>4
<1>10. i \in 0..k /\ j \in 0..k /\ k \in 0..k
  BY <1>1
<1>11. ~Terminal(z, w[k])
  BY <1>8, <1>9, <1>10, LoopNeverEnds
<1>12. QED
  BY <1>11

\* Asked for a name on the way from n, the server comes to the same end.
LEMMA SameEnd ==
    ASSUME NEW z \in Zones, NEW n \in Names, NEW k \in Nat, NEW i \in 0..k,
           Terminal(z, End(z, Walk(z, n, k)[i]))
    PROVE  End(z, n) = End(z, Walk(z, n, k)[i])
<1> DEFINE c == Cardinality(Names)
           t == Walk(z, n, k)[i]
           l == i + c
           w == Walk(z, n, l)
<1>1. c \in Nat
  BY FS_CardinalityType
<1> HIDE DEF c
<1>2. l \in Nat /\ i \in 0..l /\ i <= k /\ c <= l /\ i + c = l /\ c \in 0..l /\ l \in 0..l /\ c \in 0..c
  BY <1>1
<1> HIDE DEF l
<1>3. t = w[i]
  BY <1>2, WalkPrefix
<1>4. Walk(z, w[i], c)[c] = w[i + c]
  BY <1>1, <1>2, WalkShifts
<1>5. End(z, t) = w[l]
  BY <1>2, <1>3, <1>4 DEF End, c
<1>6. End(z, n) = w[c]
  BY <1>1, <1>2, WalkPrefix DEF End, c
<1>7. Terminal(z, w[l])
  BY <1>5
<1>8. Terminal(z, w[c])
  BY <1>2, <1>7, EndSoon DEF c
<1>9. w[l] = w[c]
  BY <1>2, <1>8, TerminalStays
<1>10. QED
  BY <1>5, <1>6, <1>9

\* followCNAME returns a name on the way or one of its errors, and an error
\* only if there is no end among the first MaxCNAMEChain names.
LEMMA FollowResult ==
    ASSUME NEW z \in Zones, NEW n \in Names, NEW cut \in 0..MaxCNAMEChain
    PROVE  \/ \E i \in 0..MaxCNAMEChain :
                followCNAME(z, n, cut) = Walk(z, n, MaxCNAMEChain)[i]
           \/ /\ followCNAME(z, n, cut) \notin Names
              /\ \A m \in 0..(MaxCNAMEChain - 1) :
                    ~Terminal(z, Walk(z, n, MaxCNAMEChain)[m])
<1> DEFINE w       == Walk(z, n, MaxCNAMEChain)
           Loop(i) == \E j \in 0..(i - 1) : w[j] = w[i]
           Over(i) == i = cut \/ Terminal(z, w[i])
           stops   == {i \in 0..(MaxCNAMEChain - 1) : Loop(i) \/ Over(i)}
           least   == CHOOSE i \in stops : \A j \in stops : i <= j
<1>1. followCNAME(z, n, cut) = IF stops = {} THEN "too long"
                               ELSE IF Loop(least) THEN "loop" ELSE w[least]
  BY DEF followCNAME
<1>2. "loop" \notin Names /\ "too long" \notin Names
  BY DEF ChainErrors
<1>3. CASE stops = {}
  <2>1. followCNAME(z, n, cut) \notin Names
    BY <1>1, <1>2, <1>3
  <2>2. \A m \in 0..(MaxCNAMEChain - 1) : ~Terminal(z, w[m])
    BY <1>3
  <2>3. QED
    BY <2>1, <2>2
<1>4. CASE stops # {}
  <2>1. least \in stops /\ \A j \in stops : least <= j
    <3> HIDE DEF Loop, Over
    <3>1. stops \subseteq Nat /\ stops # {}
      BY <1>4
    <3> HIDE DEF stops
    <3>2. \E i \in stops : \A j \in stops : i <= j
      BY <3>1, LeastOf
    <3>3. QED
      BY <3>2
  <2>2. least \in 0..(MaxCNAMEChain - 1) /\ least \in 0..MaxCNAMEChain
    <3> HIDE DEF least, Loop, Over
    <3>1. QED
      BY <2>1
  <2>3. CASE ~Loop(least)
    <3> HIDE DEF least, Loop, stops
    <3>1. followCNAME(z, n, cut) = w[least]
      BY <1>1, <1>4, <2>3
    <3>2. QED
      BY <2>2, <3>1
  <2>4. CASE Loop(least)
    <3>1. followCNAME(z, n, cut) \notin Names
      <4> HIDE DEF least, Loop, stops, w
      <4>1. QED
        BY <1>1, <1>2, <1>4, <2>4
    <3>2. PICK j \in 0..(least - 1) : w[j] = w[least]
      BY <2>4
    <3>3. \A m \in 0..(least - 1) : ~Terminal(z, w[m])
      <4> HIDE DEF least, w
      <4>1. SUFFICES ASSUME NEW m \in 0..(least - 1), Terminal(z, w[m]) PROVE FALSE
        OBVIOUS
      <4>2. m \in stops
        BY <2>2, <4>1
      <4> HIDE DEF stops
      <4>3. QED
        BY <2>1, <2>2, <4>1, <4>2
    <3> HIDE DEF least, stops, Loop
    <3>4. j \in 0..MaxCNAMEChain /\ j < least
      BY <2>2, <3>2
    <3>5. \A m \in 0..MaxCNAMEChain : ~Terminal(z, w[m])
      BY <2>2, <3>2, <3>3, <3>4, LoopNeverEnds
    <3>6. QED
      BY <3>1, <3>5
  <2>5. QED
    BY <2>3, <2>4
<1>5. QED
  BY <1>3, <1>4

\* A path that EndsWithin asks for is the walk.
LEMMA NoEndWithin ==
    ASSUME NEW z \in Zones, NEW n \in Names, NEW k \in Nat, NEW l \in 0..k,
           ~Terminal(z, Walk(z, n, k)[l])
    PROVE  ~EndsWithin(z, n, l)
<1> DEFINE w == Walk(z, n, k)
<1>1. SUFFICES ASSUME NEW p \in [0..l -> Names], p[0] = n,
                      \A i \in 1..l : p[i] = IF Terminal(z, p[i - 1]) THEN p[i - 1]
                                             ELSE z.cname[p[i - 1]],
                      Terminal(z, p[l])
               PROVE  FALSE
  BY DEF EndsWithin
<1>2. w[0] = n /\ \A i \in 0..(k - 1) : w[i + 1] = Hop(z, w[i])
  BY WalkDef
<1> HIDE DEF w
<1> DEFINE S == {m \in Nat : m <= l => p[m] = w[m]}
<1>3. 0 \in S
  BY <1>1, <1>2
<1>4. ASSUME NEW m \in Nat, m \in S PROVE m + 1 \in S
  <2>1. SUFFICES ASSUME m + 1 <= l PROVE p[m + 1] = w[m + 1]
    OBVIOUS
  <2>2. m + 1 \in 1..l /\ (m + 1) - 1 = m /\ p[m] = w[m] /\ m \in 0..(k - 1)
    BY <1>4, <2>1
  <2>3. p[m + 1] = Hop(z, p[m])
    BY <1>1, <2>2 DEF Hop
  <2>4. QED
    BY <1>2, <2>2, <2>3
<1> HIDE DEF S
<1>5. l \in S
  BY <1>3, <1>4, Induction
<1>6. p[l] = w[l]
  BY <1>5 DEF S
<1>7. QED
  BY <1>1, <1>6 DEF w

\* What a verdict says of the zone.
TrueOf(z, d, o) ==
    /\ o = "valid" => Terminal(z, End(z, d)) /\ z.has[End(z, d)] # {}
    /\ o = "nxdomain" => z.has[End(z, d)] = {}
    /\ o = "badchain" => ~EndsWithin(z, d, MaxCNAMEChain - 1)

\* The end of a walk is a name.
LEMMA EndType == ASSUME NEW z \in Zones, NEW n \in Names PROVE End(z, n) \in Names
<1>1. Cardinality(Names) \in Nat
  BY FS_CardinalityType
<1>2. Cardinality(Names) \in 0..Cardinality(Names)
  BY <1>1
<1>3. QED
  BY <1>1, <1>2, WalkDef DEF End

\* The answers of the server, as far as they say something.
LEMMA UpstreamTrue ==
    ASSUME NEW z \in Zones, NEW n \in Names, NEW kind \in Kinds
    PROVE  /\ Upstream(z, n, kind) = "addrs" => Terminal(z, End(z, n)) /\ kind \in z.has[End(z, n)]
           /\ Upstream(z, n, kind) = "nxdomain" => Terminal(z, End(z, n)) /\ z.has[End(z, n)] = {}
           /\ Upstream(z, n, kind) = "empty" => Terminal(z, End(z, n)) /\ kind \notin z.has[End(z, n)]
  BY EndType DEF Upstream

\* What the queries for a name conclude is true of it.
LEMMA ConclusionTrue ==
    ASSUME NEW z \in Zones, NEW n \in Names,
           NEW a \in Replies(z, n, "A"), NEW aaaa \in Replies(z, n, "AAAA")
    PROVE  /\ Conclude(a, aaaa) # "badchain"
           /\ Conclude(a, aaaa) = "valid" => Terminal(z, End(z, n)) /\ z.has[End(z, n)] # {}
           /\ Conclude(a, aaaa) = "nxdomain" => Terminal(z, End(z, n)) /\ z.has[End(z, n)] = {}
<1>1. Conclude(a, aaaa) # "badchain"
  BY DEF Conclude
<1>2. ASSUME Conclude(a, aaaa) = "valid"
      PROVE  Terminal(z, End(z, n)) /\ z.has[End(z, n)] # {}
  <2>1. a = "addrs" \/ aaaa = "addrs"
    BY <1>2 DEF Conclude
  <2>2. Upstream(z, n, "A") = "addrs" \/ Upstream(z, n, "AAAA") = "addrs"
    BY <2>1 DEF Replies
  <2>3. QED
    BY <2>2, UpstreamTrue DEF Kinds
<1>3. ASSUME Conclude(a, aaaa) = "nxdomain"
      PROVE  Terminal(z, End(z, n)) /\ z.has[End(z, n)] = {}
  <2>1. a = "nxdomain" \/ aaaa = "nxdomain" \/ (a = "empty" /\ aaaa = "empty")
    BY <1>3 DEF Conclude
  <2>2. \/ Upstream(z, n, "A") = "nxdomain"
        \/ Upstream(z, n, "AAAA") = "nxdomain"
        \/ Upstream(z, n, "A") = "empty" /\ Upstream(z, n, "AAAA") = "empty"
    BY <2>1 DEF Replies
  <2>3. z.has[End(z, n)] \subseteq Kinds
    BY EndType
  <2>4. QED
    BY <2>2, <2>3, UpstreamTrue DEF Kinds
<1>4. QED
  BY <1>1, <1>2, <1>3

\* Whatever queries fail, what queryDomain returns is true of the domain.
LEMMA VerdictTrue ==
    ASSUME NEW z \in Zones, NEW d \in Names, NEW o \in queryDomain(z, d)
    PROVE  TrueOf(z, d, o)
<1> DEFINE Verdict(t) == IF t \in Names
                         THEN {Conclude(a, aaaa) : a \in Replies(z, t, "A"),
                                                   aaaa \in Replies(z, t, "AAAA")}
                         ELSE {"badchain"}
<1>1. PICK t \in Targets(z, d) : o \in Verdict(t)
  BY DEF queryDomain
<1>2. MaxCNAMEChain \in Nat /\ MaxCNAMEChain - 1 \in 0..MaxCNAMEChain
  OBVIOUS
<1>3. \/ t = d
      \/ \E i \in 0..MaxCNAMEChain : t = Walk(z, d, MaxCNAMEChain)[i]
      \/ t \notin Names /\ ~EndsWithin(z, d, MaxCNAMEChain - 1)
  <2>1. CASE ~FollowCNAME
    BY <2>1 DEF Targets
  <2>2. CASE FollowCNAME
    <3>1. PICK cut \in 0..MaxCNAMEChain : t = followCNAME(z, d, cut)
      BY <2>2 DEF Targets
    <3>2. CASE \E i \in 0..MaxCNAMEChain : t = Walk(z, d, MaxCNAMEChain)[i]
      BY <3>2
    <3>3. CASE ~\E i \in 0..MaxCNAMEChain : t = Walk(z, d, MaxCNAMEChain)[i]
      <4>1. /\ t \notin Names
            /\ \A m \in 0..(MaxCNAMEChain - 1) : ~Terminal(z, Walk(z, d, MaxCNAMEChain)[m])
        BY <3>1, <3>3, FollowResult
      <4>2. ~Terminal(z, Walk(z, d, MaxCNAMEChain)[MaxCNAMEChain - 1])
        BY <1>2, <4>1
      <4>3. QED
        BY <1>2, <4>1, <4>2, NoEndWithin
    <3>4. QED
      BY <3>2, <3>3
  <2>3. QED
    BY <2>1, <2>2
<1>4. CASE t \in Names
  <2>1. PICK a \in Replies(z, t, "A"), aaaa \in Replies(z, t, "AAAA") : o = Conclude(a, aaaa)
    BY <1>1, <1>4
  <2>2. Terminal(z, End(z, t)) => End(z, d) = End(z, t)
    BY <1>2, <1>3, <1>4, SameEnd
  <2>3. QED
    BY <1>4, <2>1, <2>2, ConclusionTrue DEF TrueOf
<1>5. CASE t \notin Names
  <2>1. o = "badchain"
    BY <1>1, <1>5
  <2>2. \A i \in 0..MaxCNAMEChain : Walk(z, d, MaxCNAMEChain)[i] \in Names
    BY <1>2, WalkDef
  <2>3. ~EndsWithin(z, d, MaxCNAMEChain - 1)
    BY <1>3, <1>5, <2>2
  <2>4. QED
    BY <2>1, <2>3 DEF TrueOf
<1>6. QED
  BY <1>4, <1>5

-----------------------------------------------------------------------------
(* The verdicts on their way from a worker to the consumer.                *)

\* Every verdict there is, wherever it is, is true of its domain.
VerdictInv ==
    /\ \A w \in Workers :
          job[w].domain \in Domains => TrueOf(zone, job[w].domain, job[w].outcome)
    /\ \A i \in 1..Len(resultCh) : TrueOf(zone, resultCh[i].domain, resultCh[i].outcome)
    /\ \A d \in Domains : TrueOf(zone, d, received[d])

\* What a worker says without an answer promises nothing.
LEMMA NothingSaid ==
    \A z, d : /\ TrueOf(z, d, "none") /\ TrueOf(z, d, "failed")
              /\ TrueOf(z, d, "exhausted") /\ TrueOf(z, d, "retry")
  BY DEF TrueOf

\* A step that only changes what worker w holds.
LEMMA VerdictWorker ==
    ASSUME IInv, VerdictInv, NEW w \in Workers, NEW j,
           job' = [job EXCEPT ![w] = j], UNCHANGED <<resultCh, received, zone>>,
           j.domain \in Domains => TrueOf(zone, j.domain, j.outcome)
    PROVE  VerdictInv'
<1>1. job \in [Workers -> Jobs]
  BY DEF IInv, BaseType
<1>2. \A v \in Workers : job'[v] = IF v = w THEN j ELSE job[v]
  BY <1>1
<1>3. QED
  BY <1>2 DEF VerdictInv

\* queryDomain concludes something true; the other steps move verdicts, drop
\* them, or say nothing of the zone.
LEMMA VerdictStep == IInv /\ VerdictInv /\ [Next]_vars => VerdictInv'
<1> SUFFICES ASSUME IInv, VerdictInv, [Next]_vars PROVE VerdictInv'
  OBVIOUS
<1>0. BaseType /\ JobInv /\ job \in [Workers -> Jobs] /\ zone \in Zones
  BY DEF IInv, BaseType
<1>1. ASSUME UNCHANGED <<resultCh, received, zone, job>> PROVE VerdictInv'
  BY <1>1 DEF VerdictInv
<1>2. CASE \/ Feeder \/ CloseResults \/ RangeEnds \/ CancelCtx \/ Close \/ UNCHANGED vars
           \/ \E w \in Workers : LimiterWait(w)
  BY <1>1, <1>2 DEF Feeder, FeedEnds, Feed, CloseResults, RangeEnds, CancelCtx, Close,
                   LimiterWait, vars
<1>3. ASSUME NEW w \in Workers, Take(w) PROVE VerdictInv'
  <2> DEFINE j == [domain |-> Head(domainCh), outcome |-> "none"]
  <2>1. job' = [job EXCEPT ![w] = j] /\ UNCHANGED <<resultCh, received, zone>>
    BY <1>3 DEF Take
  <2>2. TrueOf(zone, j.domain, j.outcome)
    BY NothingSaid
  <2> HIDE DEF j
  <2>3. QED
    BY <2>1, <2>2, VerdictWorker
<1>4. ASSUME NEW w \in Workers, Return(w) PROVE VerdictInv'
  <2>1. job' = [job EXCEPT ![w] = Idle] /\ UNCHANGED <<resultCh, received, zone>>
    BY <1>4 DEF Return
  <2>2. TrueOf(zone, Idle.domain, Idle.outcome)
    BY NothingSaid DEF Idle
  <2>3. QED
    BY <2>1, <2>2, VerdictWorker
<1>5. ASSUME NEW w \in Workers, NEW o, Finish(w, o), UNCHANGED <<resultCh, received, zone>>,
             job[w].domain \in Domains => TrueOf(zone, job[w].domain, o)
      PROVE  VerdictInv'
  <2> DEFINE j == [job[w] EXCEPT !.outcome = o]
  <2>1. job' = [job EXCEPT ![w] = j]
    BY <1>5 DEF Finish
  <2>2. j.domain = job[w].domain /\ j.outcome = o
    BY <1>0 DEF Jobs
  <2> HIDE DEF j
  <2>3. QED
    BY <1>5, <2>1, <2>2, VerdictWorker
<1>6. ASSUME NEW w \in Workers, QueryDomain(w) PROVE VerdictInv'
  <2>1. job[w].domain \in Domains
    BY <1>0, <1>6 DEF QueryDomain, JobInv
  <2>2. PICK o \in Verdicts[zone][job[w].domain] :
              \/ Finish(w, o) \/ UNCHANGED job \/ Finish(w, "exhausted")
    BY <1>6 DEF QueryDomain
  <2>3. UNCHANGED <<resultCh, received, zone>>
    BY <1>6 DEF QueryDomain
  <2>4. TrueOf(zone, job[w].domain, o)
    <3>1. job[w].domain \in Names /\ o \in queryDomain(zone, job[w].domain)
      BY <1>0, <2>1 DEF Verdicts
    <3>2. QED
      BY <1>0, <3>1, VerdictTrue
  <2>5. QED
    BY <1>1, <1>5, <2>2, <2>3, <2>4, NothingSaid
<1>7. ASSUME NEW w \in Workers, Backoff(w) PROVE VerdictInv'
  <2>1. UNCHANGED job \/ Finish(w, "failed")
    BY <1>7 DEF Backoff
  <2>2. UNCHANGED <<resultCh, received, zone>>
    BY <1>7 DEF Backoff
  <2>3. QED
    BY <1>1, <1>5, <2>1, <2>2, NothingSaid
<1>8. ASSUME NEW w \in Workers, Send(w) PROVE VerdictInv'
  <2>1. /\ wpc[w] = "send" /\ resultCh' = Append(resultCh, job[w])
        /\ job' = [job EXCEPT ![w] = Idle] /\ UNCHANGED <<received, zone>>
    BY <1>8 DEF Send
  <2>2. job[w] \in Results
    <3>1. job[w] \in Jobs /\ job[w].domain \in Domains /\ job[w].outcome \in Outcomes
      BY <1>0, <2>1 DEF JobInv
    <3>2. QED
      BY <3>1 DEF Jobs, Results
  <2>3. resultCh \in Seq(Results) /\ Len(resultCh) \in Nat
    BY <1>0 DEF BaseType, Results
  <2>4. /\ Len(resultCh') = Len(resultCh) + 1
        /\ \A i \in 1..Len(resultCh) + 1 :
              resultCh'[i] = IF i = Len(resultCh) + 1 THEN job[w] ELSE resultCh[i]
    BY <2>1, <2>2, <2>3, ChannelMoves
  <2>5. TrueOf(zone, job[w].domain, job[w].outcome)
    BY <1>0, <2>1 DEF VerdictInv, JobInv
  <2>6. ASSUME NEW i \in 1..Len(resultCh')
        PROVE  TrueOf(zone, resultCh'[i].domain, resultCh'[i].outcome)
    <3>1. i = Len(resultCh) + 1 \/ i \in 1..Len(resultCh)
      BY <2>3, <2>4
    <3>2. QED
      BY <2>3, <2>4, <2>5, <3>1 DEF VerdictInv
  <2>7. \A v \in Workers : job'[v] = IF v = w THEN Idle ELSE job[v]
    BY <1>0, <2>1
  <2>8. Idle.domain \notin Domains
    BY NoDomain DEF Idle
  <2>9. QED
    BY <2>1, <2>6, <2>7, <2>8 DEF VerdictInv
<1>9. CASE Receive
  <2> DEFINE r == Head(resultCh)
  <2>1. /\ resultCh # <<>> /\ resultCh' = Tail(resultCh) /\ UNCHANGED <<job, zone>>
        /\ received' = [received EXCEPT ![r.domain] = r.outcome]
    BY <1>9 DEF Receive
  <2>2. resultCh \in Seq(Results)
    BY <1>0 DEF BaseType, Results
  <2>3. /\ Len(resultCh') = Len(resultCh) - 1 /\ Len(resultCh) \in Nat \ {0}
        /\ r = resultCh[1]
        /\ \A i \in 1..Len(resultCh) - 1 : resultCh'[i] = resultCh[i + 1]
    BY <2>1, <2>2, ChannelPops
  <2>4. TrueOf(zone, r.domain, r.outcome)
    BY <2>3 DEF VerdictInv
  <2>5. \A i \in 1..Len(resultCh') : TrueOf(zone, resultCh'[i].domain, resultCh'[i].outcome)
    BY <2>3 DEF VerdictInv
  <2> HIDE DEF r
  <2>6. \A d \in Domains : received'[d] = IF d = r.domain THEN r.outcome ELSE received[d]
    BY <1>0, <2>1 DEF BaseType
  <2>7. QED
    BY <2>1, <2>4, <2>5, <2>6 DEF VerdictInv
<1>10. QED
  BY <1>2, <1>3, <1>4, <1>6, <1>7, <1>8, <1>9 DEF Next, Consumer, WorkerStep

-----------------------------------------------------------------------------
\* IInv is preserved by every step of the batch.
LEMMA InvStep == IInv /\ [Next]_vars => IInv'
<1> SUFFICES ASSUME IInv, [Next]_vars PROVE IInv'
  OBVIOUS
<1>1. BaseType' /\ JobInv' /\ \A d \in Domains : Placed(d)'
  BY FeedStep, TakeStep, ReturnStep, LimiterStep, QueryStep, BackoffStep, SendStep,
     ReceiveStep, OtherStep DEF Next, Feeder, Consumer, WorkerStep
<1>2. QED
  BY <1>1 DEF IInv, Placed

\* Nothing is under way at first.
LEMMA InvInit == Init => IInv
<1> SUFFICES ASSUME Init PROVE IInv
  OBVIOUS
<1>1. BaseType
  <2>1. Idle \in Jobs
    BY DEF Idle, Jobs
  <2>2. domainCh \in Seq(Domains) /\ Len(domainCh) = 0
    BY DEF Init
  <2>3. resultCh \in Seq([domain : Domains, outcome : Outcomes]) /\ Len(resultCh) = 0
    BY DEF Init
  <2>4. feeding \in BOOLEAN /\ resultOpen \in BOOLEAN /\ consuming \in BOOLEAN
        /\ ctxDone \in BOOLEAN /\ closed \in BOOLEAN
    BY DEF Init
  <2>5. QED
    BY <2>1, <2>2, <2>3, <2>4, ConcurrencyType DEF Init, BaseType
<1>2. JobInv
  BY DEF Init, JobInv
<1>3. ASSUME NEW d \in Domains PROVE Once(d) /\ NotLost(d) /\ TriesOf(d)
  <2>1. /\ d \in toFeed /\ \A i \in Nat : ~Queued(d, i) /\ ~Answered(d, i)
        /\ \A w \in Workers : ~Holds(d, w)
        /\ ~Received(d) /\ tries[d] = 0 /\ received[d] = "none"
    BY NoDomain DEF Init, Queued, Answered, Holds, Received, Idle
  <2>2. QED
    BY <2>1 DEF Once, NotLost, TriesOf
<1>4. QED
  BY <1>1, <1>2, <1>3 DEF IInv

\* IInv is an invariant.
THEOREM Invariance == Spec => []IInv
  BY InvInit, InvStep, PTL DEF Spec

\* Every variable has its type, no channel holds more than its capacity, and
\* no domain is attempted more than Retries + 1 times.
THEOREM TypeCorrect == Spec => []TypeOK
<1>1. IInv => TypeOK
  <2> SUFFICES ASSUME IInv PROVE TypeOK
    OBVIOUS
  <2>1. BaseType /\ \A d \in Domains : tries[d] <= Retries + 1
    BY DEF IInv, TriesOf
  <2>2. tries \in [Domains -> 0..(Retries + 1)]
    BY <2>1 DEF BaseType
  <2>3. Results \subseteq Jobs /\ resultCh \in Seq(Results)
    BY <2>1 DEF Results, Jobs, BaseType
  <2>4. resultCh \in Seq(Jobs)
    BY <2>3
  <2>5. QED
    BY <2>1, <2>2, <2>4 DEF BaseType, TypeOK
<1>2. QED
  BY <1>1, Invariance, PTL

\* No domain is resolved or reported twice and none is lost unless the batch
\* is stopped, wherever feeder, workers, closer and consumer are.
THEOREM ExactlyOnePlaceHolds == Spec => []ExactlyOnePlace
<1>1. IInv => ExactlyOnePlace
  <2> SUFFICES ASSUME IInv, NEW d \in Domains
               PROVE  /\ Cardinality(Places(d)) <= 1
                      /\ Cardinality(Places(d)) = 0 => Stopping
    BY DEF ExactlyOnePlace
  <2>1. Once(d) /\ NotLost(d) /\ domainCh \in Seq(Domains)
        /\ resultCh \in Seq([domain : Domains, outcome : Outcomes])
    BY DEF IInv, BaseType
  <2>2. /\ DOMAIN domainCh = 1..Len(domainCh) /\ DOMAIN resultCh = 1..Len(resultCh)
        /\ 1..Len(domainCh) \subseteq Nat /\ 1..Len(resultCh) \subseteq Nat
    BY <2>1
  <2>3. \A p : p \in Places(d) <=>
            \/ p = <<"toFeed">> /\ d \in toFeed
            \/ \E i \in Nat : p = <<"queued", i>> /\ Queued(d, i)
            \/ \E w \in Workers : p = <<"worker", w>> /\ Holds(d, w)
            \/ \E i \in Nat : p = <<"answered", i>> /\ Answered(d, i)
            \/ p = <<"received">> /\ Received(d)
    BY <2>2 DEF Places, Queued, Holds, Answered, Received
  <2>4. ASSUME NEW p \in Places(d), NEW q \in Places(d) PROVE p = q
    <3>1. CASE d \in toFeed
      BY <2>1, <2>3, <2>4, <3>1 DEF Once
    <3>2. ASSUME NEW i \in Nat, Queued(d, i) PROVE p = q
      <4>1. p = <<"queued", i>>
        BY <2>1, <2>3, <2>4, <3>2 DEF Once
      <4>2. q = <<"queued", i>>
        BY <2>1, <2>3, <2>4, <3>2 DEF Once
      <4>3. QED
        BY <4>1, <4>2
    <3>3. ASSUME NEW w \in Workers, Holds(d, w) PROVE p = q
      <4>1. p = <<"worker", w>>
        BY <2>1, <2>3, <2>4, <3>3 DEF Once
      <4>2. q = <<"worker", w>>
        BY <2>1, <2>3, <2>4, <3>3 DEF Once
      <4>3. QED
        BY <4>1, <4>2
    <3>4. ASSUME NEW i \in Nat, Answered(d, i) PROVE p = q
      <4>1. p = <<"answered", i>>
        BY <2>1, <2>3, <2>4, <3>4 DEF Once
      <4>2. q = <<"answered", i>>
        BY <2>1, <2>3, <2>4, <3>4 DEF Once
      <4>3. QED
        BY <4>1, <4>2
    <3>5. CASE Received(d)
      BY <2>1, <2>3, <2>4, <3>5 DEF Once
    <3>6. QED
      BY <2>3, <2>4, <3>1, <3>2, <3>3, <3>4, <3>5
  <2>5. Places(d) = {} => Stopping
    BY <2>1, <2>3 DEF NotLost
  <2>6. CASE Places(d) = {}
    BY <2>5, <2>6, FS_EmptySet
  <2>7. CASE Places(d) # {}
    <3>0. PICK p \in Places(d) : TRUE
      BY <2>7
    <3>1. Places(d) = {p}
      BY <2>4, <3>0
    <3>2. Cardinality({p}) = 1
      BY FS_Singleton
    <3>3. QED
      BY <3>1, <3>2
  <2>8. QED
    BY <2>6, <2>7
<1>2. QED
  BY <1>1, Invariance, PTL

\* Whatever queries are lost on the way, the verdict that the consumer gets on
\* a domain is true of the zone, and "max retries exceeded" is reported only
\* after Retries + 1 attempts.
THEOREM VerdictsTrueHolds == Spec => []VerdictsTrue
<1>1. Init => VerdictInv
  <2> SUFFICES ASSUME Init PROVE VerdictInv
    OBVIOUS
  <2>1. /\ \A w \in Workers : job[w].domain \notin Domains
        /\ \A d \in Domains : received[d] = "none"
        /\ Len(resultCh) = 0
    BY NoDomain DEF Init, Idle
  <2>2. QED
    BY <2>1, NothingSaid DEF VerdictInv
<1>2. IInv /\ VerdictInv => VerdictsTrue
  <2> SUFFICES ASSUME IInv, VerdictInv, NEW d \in Domains
               PROVE  /\ TrueOf(zone, d, received[d])
                      /\ received[d] = "exhausted" => tries[d] = Retries + 1
    BY DEF VerdictsTrue, TrueOf
  <2>1. QED
    BY DEF IInv, TriesOf, VerdictInv
<1>3. QED
  BY <1>1, <1>2, VerdictStep, Invariance, PTL DEF Spec
=============================================================================
