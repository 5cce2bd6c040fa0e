--------------------------- MODULE EventBusProofs ---------------------------
(***************************************************************************)
(* Proofs about EventBus, for any clients, publishers, topics and buffer   *)
(* capacity.                                                               *)
(*                                                                         *)
(* Order is not inductive by itself: Publish sends after it has released   *)
(* the lock, to a copy of the subscribers.  Newest says how far behind its *)
(* publisher every client is, and that it is at least one event behind     *)
(* while it still is in the publisher's copy.                              *)
(***************************************************************************)
EXTENDS EventBus, FiniteSetTheorems, TLAPS

\* The channels on the bus are open: a closed one has left every topic.
OpenOnBus == \A c \in Clients : OnBus(c) => chan[c] = "open"

\* The events of publisher p in buffer b, whose reader had event `last` from
\* it, are numbered at most n.
AtMost(b, last, p, n) ==
    /\ last <= n
    /\ \A i \in 1..Len(b) : b[i].from = p => b[i].n <= n

\* No client is ahead of a publisher, and a client the publisher still has to
\* send its event to has not had it.
Newest ==
    \A c \in Clients, p \in Publishers :
        AtMost(buf[c], delivered[c][p], p,
               IF c \in copy[p] THEN count[p] - 1 ELSE count[p])

\* What InOrder says of one client.
Ordered(b, last) ==
    \A i \in 1..Len(b) :
        /\ b[i].n > last[b[i].from]
        /\ \A j \in 1..(i - 1) : b[j].from = b[i].from => b[j].n < b[i].n

IInv ==
    /\ TypeOK
    /\ OpenOnBus
    /\ Newest
    /\ \A c \in Clients : Ordered(buf[c], delivered[c])

-----------------------------------------------------------------------------
USE BusAssumption

\* Event k of a buffer that has been appended to, and of one that has lost
\* its head.
LEMMA BufferElements ==
    ASSUME NEW b \in Seq(Events), NEW e \in Events
    PROVE  /\ Append(b, e) \in Seq(Events) /\ Len(Append(b, e)) = Len(b) + 1
           /\ \A i \in 1..Len(b) + 1 :
                 Append(b, e)[i] = IF i = Len(b) + 1 THEN e ELSE b[i]
           /\ b # <<>> =>
                 /\ Tail(b) \in Seq(Events) /\ Len(Tail(b)) = Len(b) - 1
                 /\ Len(b) > 0 /\ Head(b) = b[1]
                 /\ \A i \in 1..Len(b) - 1 : Tail(b)[i] = b[i + 1]
  OBVIOUS

\* A send of an event newer than all that the client has had or is to have
\* from its publisher keeps the buffer in order.
LEMMA AppendOrdered ==
    ASSUME NEW b \in Seq(Events), NEW last \in [Publishers -> 0..MaxEvents],
           NEW p \in Publishers, NEW n \in 1..MaxEvents,
           Ordered(b, last), AtMost(b, last[p], p, n - 1)
    PROVE  Ordered(Append(b, [from |-> p, n |-> n]), last)
<1> DEFINE e == [from |-> p, n |-> n]
           g == Append(b, e)
<1>1. e \in Events
  BY DEF Events
<1>2. /\ Len(g) = Len(b) + 1
      /\ \A i \in 1..Len(b) + 1 : g[i] = IF i = Len(b) + 1 THEN e ELSE b[i]
  BY <1>1, BufferElements
<1>3. \A i \in 1..Len(b) : b[i] \in Events
  OBVIOUS
<1> HIDE DEF g
<1>4. ASSUME NEW i \in 1..Len(g)
      PROVE  /\ g[i].n > last[g[i].from]
             /\ \A j \in 1..(i - 1) : g[j].from = g[i].from => g[j].n < g[i].n
  <2>1. CASE i = Len(b) + 1
    <3>1. g[i] = e
      BY <1>2, <2>1
    <3>2. n > last[p]
      BY DEF AtMost
    <3>3. ASSUME NEW j \in 1..(i - 1), g[j].from = p PROVE g[j].n < n
      <4>1. j \in 1..Len(b) /\ g[j] = b[j]
        BY <1>2, <2>1
      <4>2. QED
        BY <1>3, <3>3, <4>1 DEF AtMost, Events
    <3>4. QED
      BY <3>1, <3>2, <3>3
  <2>2. CASE i # Len(b) + 1
    <3>1. i \in 1..Len(b) /\ g[i] = b[i]
      BY <1>2, <2>2
    <3>2. \A j \in 1..(i - 1) : g[j] = b[j]
      BY <1>2, <3>1
    <3>3. QED
      BY <3>1, <3>2 DEF Ordered
  <2>3. QED
    BY <2>1, <2>2
<1>5. QED
  BY <1>4 DEF Ordered, g

\* A receive keeps the rest of the buffer in order and ahead of its reader.
LEMMA TailOrdered ==
    ASSUME NEW b \in Seq(Events), NEW last \in [Publishers -> 0..MaxEvents],
           b # <<>>, Ordered(b, last)
    PROVE  Ordered(Tail(b), [last EXCEPT ![Head(b).from] = Head(b).n])
<1> DEFINE g == Tail(b)
           now == [last EXCEPT ![Head(b).from] = Head(b).n]
<1>1. /\ Len(g) = Len(b) - 1 /\ Len(b) > 0 /\ Head(b) = b[1]
      /\ \A i \in 1..Len(b) - 1 : g[i] = b[i + 1]
  BY BufferElements
<1>2. \A i \in 1..Len(b) : b[i] \in Events
  OBVIOUS
<1> HIDE DEF g
<1>3. ASSUME NEW i \in 1..Len(g)
      PROVE  /\ g[i].n > now[g[i].from]
             /\ \A j \in 1..(i - 1) : g[j].from = g[i].from => g[j].n < g[i].n
  <2>1. g[i] = b[i + 1] /\ i + 1 \in 1..Len(b) /\ 1 \in 1..i /\ 1 \in 1..Len(b)
    BY <1>1
  <2>2. /\ b[i + 1].n > last[b[i + 1].from]
        /\ \A j \in 1..i : b[j].from = b[i + 1].from => b[j].n < b[i + 1].n
    BY <2>1 DEF Ordered
  <2>3. b[i + 1].n > now[b[i + 1].from]
    <3>0. b[i + 1] \in Events /\ b[1] \in Events
      BY <1>1, <1>2, <2>1
    <3>1. b[i + 1].from \in Publishers /\ b[1].from \in Publishers
      BY <3>0 DEF Events
    <3>2. b[1].from = b[i + 1].from => b[1].n < b[i + 1].n
      BY <2>1, <2>2
    <3>3. now[b[i + 1].from] = IF b[i + 1].from = b[1].from THEN b[1].n
                               ELSE last[b[i + 1].from]
      BY <1>1, <3>1
    <3>4. b[1].n \in Int /\ b[i + 1].n \in Int
      BY <3>0 DEF Events
    <3>5. QED
      BY <2>2, <3>2, <3>3, <3>4
  <2>4. ASSUME NEW j \in 1..(i - 1), g[j].from = g[i].from PROVE g[j].n < g[i].n
    <3>1. g[j] = b[j + 1] /\ j + 1 \in 1..i
      BY <1>1
    <3>2. QED
      BY <2>1, <2>2, <2>4, <3>1
  <2>5. QED
    BY <2>1, <2>3, <2>4
<1>4. QED
  BY <1>3 DEF Ordered, g

-----------------------------------------------------------------------------
\* Every step of the bus keeps every variable in its type, and no buffer
\* beyond its capacity.
LEMMA TypeStep == IInv /\ [Next]_vars => TypeOK'
<1> SUFFICES ASSUME IInv, [Next]_vars PROVE TypeOK'
  OBVIOUS
<1>0. TypeOK
  BY DEF IInv
<1> USE <1>0 DEF TypeOK
<1>1. ASSUME NEW c \in Clients, Subscribe(c) PROVE TypeOK'
  BY <1>1 DEF Subscribe
<1>2. ASSUME NEW c \in Clients, Unsubscribe(c) PROVE TypeOK'
  <2>1. buf' \in [Clients -> Seq(Events)] /\ \A d \in Clients : Len(buf'[d]) <= Cap
    BY <1>2 DEF Unsubscribe, Forget
  <2>2. delivered' \in [Clients -> [Publishers -> 0..MaxEvents]]
    <3>1. [p \in Publishers |-> 0] \in [Publishers -> 0..MaxEvents]
      OBVIOUS
    <3>2. QED
      BY <1>2, <3>1 DEF Unsubscribe, Forget
  <2>3. QED
    BY <1>2, <2>1, <2>2 DEF Unsubscribe
<1>3. ASSUME NEW p \in Publishers, PublishCopy(p) PROVE TypeOK'
  <2>1. count' \in [Publishers -> 0..MaxEvents]
    BY <1>3 DEF PublishCopy
  <2>2. copy' \in [Publishers -> SUBSET Clients]
    BY <1>3 DEF PublishCopy
  <2>3. sending' \in [Publishers -> BOOLEAN]
    BY <1>3 DEF PublishCopy
  <2>4. QED
    BY <1>3, <2>1, <2>2, <2>3 DEF PublishCopy
<1>4. ASSUME NEW p \in Publishers, PublishReturn(p) PROVE TypeOK'
  BY <1>4 DEF PublishReturn
<1>5. ASSUME NEW p \in Publishers, NEW c \in Clients, PublishSend(p, c)
      PROVE  TypeOK'
  <2>1. [from |-> p, n |-> count[p]] \in Events
    <3>1. delivered[c][p] <= count[p] - 1
      BY <1>5 DEF PublishSend, IInv, Newest, AtMost
    <3>2. QED
      BY <3>1 DEF Events
  <2>2. CASE chan[c] = "open" /\ Len(buf[c]) < Cap
    <3> DEFINE g == Append(buf[c], [from |-> p, n |-> count[p]])
    <3>1. g \in Seq(Events) /\ Len(g) <= Cap
      BY <2>1, <2>2, BufferElements
    <3>2. buf' = [buf EXCEPT ![c] = g]
      BY <1>5, <2>2 DEF PublishSend
    <3> HIDE DEF g
    <3>3. buf' \in [Clients -> Seq(Events)] /\ \A d \in Clients : Len(buf'[d]) <= Cap
      BY <3>1, <3>2
    <3>4. QED
      BY <1>5, <3>3 DEF PublishSend
  <2>3. CASE ~(chan[c] = "open" /\ Len(buf[c]) < Cap)
    BY <1>5, <2>3 DEF PublishSend
  <2>4. QED
    BY <2>2, <2>3
<1>6. ASSUME NEW c \in Clients, Receive(c) PROVE TypeOK'
  <2> DEFINE e == Head(buf[c])
             g == Tail(buf[c])
  <2>1. e \in Events /\ g \in Seq(Events) /\ Len(g) <= Cap
    BY <1>6, BufferElements DEF Receive
  <2>2. e.from \in Publishers /\ e.n \in 0..MaxEvents
    BY <2>1 DEF Events
  <2>3. /\ delivered' = [delivered EXCEPT ![c][e.from] = e.n]
        /\ buf' = [buf EXCEPT ![c] = g]
    BY <1>6 DEF Receive
  <2> HIDE DEF e, g
  <2>4. delivered' \in [Clients -> [Publishers -> 0..MaxEvents]]
    BY <2>2, <2>3
  <2>5. buf' \in [Clients -> Seq(Events)] /\ \A d \in Clients : Len(buf'[d]) <= Cap
    BY <2>1, <2>3
  <2>6. QED
    BY <1>6, <2>4, <2>5 DEF Receive
<1>7. ASSUME Close PROVE TypeOK'
  BY <1>7 DEF Close
<1>8. CASE UNCHANGED vars
  BY <1>8 DEF vars
<1>9. QED
  BY <1>1, <1>2, <1>3, <1>4, <1>5, <1>6, <1>7, <1>8 DEF Next, PublishStep

\* A step that leaves buffers, deliveries and the publishers' progress alone
\* changes nothing that order depends on.
LEMMA OrderFrame ==
    ASSUME IInv, UNCHANGED <<buf, count, copy, delivered>>
    PROVE  Newest' /\ \A c \in Clients : Ordered(buf'[c], delivered'[c])
  BY DEF IInv, Newest, AtMost, Ordered

\* Fewer channels on the bus, with the states of the others as they were.
LEMMA BusFrame ==
    ASSUME IInv, UNCHANGED <<subs, chan>> PROVE OpenOnBus'
  BY DEF IInv, OpenOnBus, OnBus

\* The events in a buffer are numbered.
LEMMA BufferTyped ==
    ASSUME TypeOK, NEW c \in Clients
    PROVE  \A i \in 1..Len(buf[c]) : buf[c][i].n \in Int
<1>1. buf[c] \in Seq(Events)
  BY DEF TypeOK
<1>2. \A i \in 1..Len(buf[c]) : buf[c][i] \in Events
  BY <1>1
<1>3. QED
  BY <1>2 DEF Events

\* A client that is no further than event n is no further than a later one.
LEMMA AtMostGrows ==
    ASSUME TypeOK, NEW c \in Clients, NEW p \in Publishers,
           NEW n \in Int, NEW m \in Int, n <= m,
           AtMost(buf[c], delivered[c][p], p, n)
    PROVE  AtMost(buf[c], delivered[c][p], p, m)
<1>1. \A i \in 1..Len(buf[c]) : buf[c][i].n \in Int
  BY BufferTyped
<1>2. delivered[c][p] \in Int
  BY DEF TypeOK
<1>3. QED
  BY <1>1, <1>2 DEF AtMost

\* IInv is preserved by every step of the bus.
LEMMA InvStep == IInv /\ [Next]_vars => IInv'
<1> SUFFICES ASSUME IInv, [Next]_vars PROVE IInv'
  OBVIOUS
<1>0. TypeOK /\ TypeOK'
  BY TypeStep DEF IInv
<1> DEFINE Sorted == \A c \in Clients : Ordered(buf[c], delivered[c])
<1>1. ASSUME NEW c \in Clients, Subscribe(c) PROVE IInv'
  <2>1. OpenOnBus'
    BY <1>0, <1>1 DEF Subscribe, TypeOK, IInv, OpenOnBus, OnBus
  <2>2. Newest' /\ Sorted'
    BY <1>1, OrderFrame DEF Subscribe
  <2>3. QED
    BY <1>0, <2>1, <2>2 DEF IInv
<1>2. ASSUME NEW c \in Clients, Unsubscribe(c) PROVE IInv'
  <2>1. OpenOnBus'
    BY <1>0, <1>2 DEF Unsubscribe, TypeOK, IInv, OpenOnBus, OnBus
  <2>2. /\ \A d \in Clients \ {c} : buf'[d] = buf[d] /\ delivered'[d] = delivered[d]
        /\ buf'[c] = <<>> /\ delivered'[c] = [p \in Publishers |-> 0]
        /\ UNCHANGED <<count, copy>>
    BY <1>0, <1>2 DEF Unsubscribe, Forget, TypeOK
  <2>3. ASSUME NEW d \in Clients, NEW p \in Publishers
        PROVE  AtMost(buf'[d], delivered'[d][p], p,
                      IF d \in copy'[p] THEN count'[p] - 1 ELSE count'[p])
    <3>1. AtMost(buf[d], delivered[d][p], p,
                 IF d \in copy[p] THEN count[p] - 1 ELSE count[p])
      BY DEF IInv, Newest
    <3>2. CASE d # c
      BY <2>2, <3>1, <3>2
    <3>3. CASE d = c
      BY <1>0, <2>2, <3>1, <3>3 DEF AtMost, TypeOK
    <3>4. QED
      BY <3>2, <3>3
  <2>4. ASSUME NEW d \in Clients PROVE Ordered(buf'[d], delivered'[d])
    <3>1. CASE d # c
      BY <2>2, <3>1 DEF IInv
    <3>2. CASE d = c
      BY <2>2, <3>2 DEF Ordered
    <3>3. QED
      BY <3>1, <3>2
  <2>5. QED
    BY <1>0, <2>1, <2>3, <2>4 DEF IInv, Newest
<1>3. ASSUME NEW c \in Clients, Receive(c) PROVE IInv'
  <2> DEFINE b == buf[c]
  <2>1. b # <<>> /\ b \in Seq(Events) /\ delivered[c] \in [Publishers -> 0..MaxEvents]
    BY <1>0, <1>3 DEF Receive, TypeOK
  <2>2. /\ \A d \in Clients \ {c} : buf'[d] = buf[d] /\ delivered'[d] = delivered[d]
        /\ buf'[c] = Tail(b)
        /\ delivered'[c] = [delivered[c] EXCEPT ![Head(b).from] = Head(b).n]
        /\ UNCHANGED <<subs, chan, count, copy>>
    BY <1>0, <1>3 DEF Receive, TypeOK
  <2>3. OpenOnBus'
    BY <2>2, BusFrame
  <2>4. ASSUME NEW d \in Clients PROVE Ordered(buf'[d], delivered'[d])
    <3>1. CASE d # c
      BY <2>2, <3>1 DEF IInv
    <3>2. CASE d = c
      <4>1. Ordered(b, delivered[c])
        BY DEF IInv
      <4>2. QED
        BY <2>1, <2>2, <3>2, <4>1, TailOrdered
    <3>3. QED
      BY <3>1, <3>2
  <2>5. ASSUME NEW d \in Clients, NEW p \in Publishers
        PROVE  AtMost(buf'[d], delivered'[d][p], p,
                      IF d \in copy'[p] THEN count'[p] - 1 ELSE count'[p])
    <3> DEFINE n == IF d \in copy[p] THEN count[p] - 1 ELSE count[p]
    <3>1. AtMost(buf[d], delivered[d][p], p, n)
      BY DEF IInv, Newest
    <3>2. CASE d # c
      BY <2>2, <3>1, <3>2
    <3>3. CASE d = c
      <4>1. /\ Len(Tail(b)) = Len(b) - 1 /\ Len(b) > 0 /\ Head(b) = b[1]
            /\ \A i \in 1..Len(b) - 1 : Tail(b)[i] = b[i + 1]
        BY <2>1, BufferElements
      <4>2. \A i \in 1..Len(b) : b[i].from = p => b[i].n <= n
        BY <3>1, <3>3 DEF AtMost
      <4>3. \A i \in 1..Len(Tail(b)) : Tail(b)[i].from = p => Tail(b)[i].n <= n
        BY <4>1, <4>2
      <4>4. delivered'[c][p] <= n
        <5>1. 1 \in 1..Len(b)
          BY <4>1
        <5>2. b[1].from = p => b[1].n <= n
          BY <4>2, <5>1
        <5>3. delivered'[c][p] = IF p = b[1].from THEN b[1].n ELSE delivered[c][p]
          BY <2>1, <2>2, <4>1
        <5>4. QED
          BY <3>1, <3>3, <5>2, <5>3 DEF AtMost
      <4>5. QED
        BY <2>2, <3>3, <4>3, <4>4 DEF AtMost
    <3>4. QED
      BY <3>2, <3>3
  <2>6. QED
    BY <1>0, <2>3, <2>4, <2>5 DEF IInv, Newest
<1>4. ASSUME NEW p \in Publishers, PublishCopy(p) PROVE IInv'
  <2>1. OpenOnBus'
    BY <1>4, BusFrame DEF PublishCopy
  <2>2. Sorted'
    BY <1>4 DEF PublishCopy, IInv
  <2>3. ASSUME NEW d \in Clients, NEW q \in Publishers
        PROVE  AtMost(buf'[d], delivered'[d][q], q,
                      IF d \in copy'[q] THEN count'[q] - 1 ELSE count'[q])
    <3>1. AtMost(buf[d], delivered[d][q], q,
                 IF d \in copy[q] THEN count[q] - 1 ELSE count[q])
      BY DEF IInv, Newest
    <3>2. CASE q # p
      BY <1>0, <1>4, <3>1, <3>2 DEF PublishCopy, TypeOK
    <3>3. CASE q = p
      <4>1. count'[p] = count[p] + 1 /\ UNCHANGED <<buf, delivered>>
        BY <1>0, <1>4 DEF PublishCopy, TypeOK
      <4>2. \A i \in 1..Len(buf[d]) : buf[d][i].n \in Int
        BY <1>0, BufferTyped
      <4>3. AtMost(buf[d], delivered[d][q], q, count[q])
        BY <1>0, <3>1, <4>2 DEF AtMost, TypeOK
      <4>4. QED
        BY <1>0, <3>3, <4>1, <4>2, <4>3 DEF AtMost, TypeOK
    <3>4. QED
      BY <3>2, <3>3
  <2>4. QED
    BY <1>0, <2>1, <2>2, <2>3 DEF IInv, Newest
<1>5. ASSUME NEW p \in Publishers, PublishReturn(p) PROVE IInv'
  BY <1>0, <1>5, OrderFrame, BusFrame DEF PublishReturn, IInv
<1>6. ASSUME NEW p \in Publishers, NEW c \in Clients, PublishSend(p, c)
      PROVE  IInv'
  <2> DEFINE e == [from |-> p, n |-> count[p]]
  <2>1. OpenOnBus'
    BY <1>6, BusFrame DEF PublishSend
  <2>2. c \in copy[p] /\ UNCHANGED <<count, delivered>>
    BY <1>6 DEF PublishSend
  <2>3. /\ c \notin copy'[p]
        /\ \A d \in Clients, q \in Publishers :
              d # c \/ q # p => (d \in copy'[q] <=> d \in copy[q])
    BY <1>0, <1>6 DEF PublishSend, TypeOK
  <2>4. /\ \A d \in Clients \ {c} : buf'[d] = buf[d]
        /\ buf'[c] = buf[c] \/ buf'[c] = Append(buf[c], e)
    BY <1>0, <1>6 DEF PublishSend, TypeOK
  <2>5. AtMost(buf[c], delivered[c][p], p, count[p] - 1)
    BY <2>2 DEF IInv, Newest
  <2>6. count[p] \in 1..MaxEvents /\ e \in Events
    BY <1>0, <2>5 DEF AtMost, TypeOK, Events
  <2>7. buf[c] \in Seq(Events) /\ delivered[c] \in [Publishers -> 0..MaxEvents]
    BY <1>0 DEF TypeOK
  <2>8. Sorted'
    <3>1. Ordered(Append(buf[c], e), delivered[c])
      BY <2>5, <2>6, <2>7, AppendOrdered DEF IInv
    <3>2. QED
      BY <2>2, <2>4, <3>1 DEF IInv
  <2>9. ASSUME NEW d \in Clients, NEW q \in Publishers
        PROVE  AtMost(buf'[d], delivered'[d][q], q,
                      IF d \in copy'[q] THEN count'[q] - 1 ELSE count'[q])
    <3> DEFINE n == IF d \in copy[q] THEN count[q] - 1 ELSE count[q]
               m == IF d \in copy'[q] THEN count[q] - 1 ELSE count[q]
    <3>1. AtMost(buf[d], delivered[d][q], q, n)
      BY DEF IInv, Newest
    <3>2. n <= m /\ n \in Int /\ m \in Int
      BY <1>0, <2>2, <2>3 DEF TypeOK
    <3> HIDE DEF n, m
    <3>4. AtMost(buf[d], delivered[d][q], q, m)
      BY <1>0, <3>1, <3>2, AtMostGrows
    <3>5. CASE buf'[d] = buf[d]
      BY <2>2, <3>4, <3>5 DEF m
    <3>6. CASE buf'[d] # buf[d]
      <4>1. d = c /\ buf'[c] = Append(buf[c], e)
        BY <2>4, <3>6
      <4>2. /\ Len(buf'[c]) = Len(buf[c]) + 1
            /\ \A i \in 1..Len(buf[c]) + 1 :
                  buf'[c][i] = IF i = Len(buf[c]) + 1 THEN e ELSE buf[c][i]
        BY <2>6, <2>7, <4>1, BufferElements
      <4>3. q = p => m = count[p]
        BY <2>3, <4>1 DEF m
      <4>4. e.from = q => e.n <= m
        BY <2>6, <4>3
      <4>5. \A i \in 1..Len(buf'[c]) : buf'[c][i].from = q => buf'[c][i].n <= m
        BY <3>4, <4>1, <4>2, <4>4 DEF AtMost
      <4>6. QED
        BY <2>2, <3>4, <4>1, <4>5 DEF AtMost, m
    <3>7. QED
      BY <3>5, <3>6
  <2>10. QED
    BY <1>0, <2>1, <2>8, <2>9 DEF IInv, Newest
<1>7. ASSUME Close PROVE IInv'
  <2>1. OpenOnBus'
    BY <1>7 DEF Close, OpenOnBus, OnBus
  <2>2. QED
    BY <1>0, <1>7, <2>1, OrderFrame DEF Close, IInv
<1>8. CASE UNCHANGED vars
  BY <1>0, <1>8, OrderFrame, BusFrame DEF vars, IInv
<1>9. QED
  BY <1>1, <1>2, <1>3, <1>4, <1>5, <1>6, <1>7, <1>8 DEF Next, PublishStep

\* The strengthening of the order of events is an invariant of the bus.
THEOREM Invariance == Spec => []IInv
<1>1. Init => IInv
  <2> SUFFICES ASSUME Init PROVE IInv
    OBVIOUS
  <2> USE DEF Init
  <2>1. TypeOK
    <3>1. 0 \in 0..MaxEvents /\ Len(<<>>) <= Cap
      OBVIOUS
    <3>2. [p \in Publishers |-> 0] \in [Publishers -> 0..MaxEvents]
      BY <3>1
    <3>3. QED
      BY <3>1, <3>2 DEF TypeOK
  <2>2. OpenOnBus
    BY DEF OpenOnBus, OnBus
  <2>3. Newest
    BY DEF Newest, AtMost
  <2>4. \A c \in Clients : Ordered(buf[c], delivered[c])
    BY DEF Ordered
  <2>5. QED
    BY <2>1, <2>2, <2>3, <2>4 DEF IInv
<1>2. IInv /\ [Next]_vars => IInv'
  BY InvStep
<1>3. QED
  BY <1>1, <1>2, PTL DEF Spec

\* Subscribe, Publish, Unsubscribe and Close keep every variable in its type,
\* and no channel holds more events than its buffer has room for.
THEOREM TypeCorrect == Spec => []TypeOK
  BY Invariance, PTL DEF IInv

\* A client sees the events of a publisher in order and none twice.
THEOREM InOrderHolds == Spec => []InOrder
<1>1. IInv => InOrder
  <2> SUFFICES ASSUME IInv, NEW c \in Clients, NEW i \in DOMAIN buf[c]
               PROVE  /\ buf[c][i].n > delivered[c][buf[c][i].from]
                      /\ \A j \in 1..(i - 1) :
                            buf[c][j].from = buf[c][i].from => buf[c][j].n < buf[c][i].n
    BY DEF InOrder
  <2>1. i \in 1..Len(buf[c])
    BY DEF IInv, TypeOK
  <2>2. QED
    BY <2>1 DEF IInv, Ordered
<1>2. QED
  BY <1>1, Invariance, PTL

\* A send, an Unsubscribe and a Close panic only on channels that have left
\* the bus, that Close has closed, and that are on several topics.
THEOREM PanicsHold == Spec => PanicsExplained
<1> DEFINE A == panic' # panic =>
                  \/ /\ panic' = "send"
                     /\ \E p \in Publishers, c \in Clients :
                           c \in copy[p] \ copy'[p] /\ ~OnBus(c)
                  \/ /\ panic' = "unsubscribe"
                     /\ \E c \in Clients : chan[c] = "closed" /\ ~OnBus(c)
                  \/ /\ panic' = "close"
                     /\ \E c \in Clients, t, u \in Topics :
                           t # u /\ c \in subs[t] /\ c \in subs[u] /\ chan[c] = "open"
<1>1. IInv /\ [Next]_vars => [A]_vars
  <2> SUFFICES ASSUME IInv, [Next]_vars, panic' # panic PROVE A
    OBVIOUS
  <2>1. \/ \E c \in Clients : Unsubscribe(c)
        \/ \E p \in Publishers, c \in Clients : PublishSend(p, c)
        \/ Close
    BY DEF Next, PublishStep, Subscribe, Receive, PublishCopy, PublishReturn, vars
  <2>2. ASSUME NEW c \in Clients, Unsubscribe(c) PROVE A
    BY <2>2 DEF Unsubscribe, IInv, OpenOnBus
  <2>3. ASSUME NEW p \in Publishers, NEW c \in Clients, PublishSend(p, c)
        PROVE  A
    <3>1. panic' = "send" /\ chan[c] # "open"
      BY <2>3 DEF PublishSend
    <3>2. c \in copy[p] /\ c \notin copy'[p]
      BY <2>3 DEF PublishSend, IInv, TypeOK
    <3>3. ~OnBus(c)
      BY <3>1 DEF IInv, OpenOnBus
    <3>4. QED
      BY <3>1, <3>2, <3>3
  <2>4. ASSUME Close PROVE A
    <3>1. PICK c \in Clients : Cardinality({t \in Topics : c \in subs[t]}) > 1
      BY <2>4 DEF Close
    <3> DEFINE S == {t \in Topics : c \in subs[t]}
    <3>2. S # {}
      BY <3>1, FS_EmptySet
    <3>3. PICK t \in S : TRUE
      BY <3>2
    <3>4. S # {t}
      BY <3>1, FS_Singleton
    <3>5. PICK u \in S : u # t
      BY <3>3, <3>4
    <3>6. chan[c] = "open"
      BY <3>3 DEF IInv, OpenOnBus, OnBus
    <3>7. panic' = "close"
      BY <2>4 DEF Close
    <3>8. QED
      BY <3>3, <3>5, <3>6, <3>7
  <2>5. QED
    BY <2>1, <2>2, <2>3, <2>4
<1>2. QED
  BY <1>1, Invariance, PTL DEF Spec, PanicsExplained
=============================================================================
