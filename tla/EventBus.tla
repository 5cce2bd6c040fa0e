------------------------------ MODULE EventBus ------------------------------
(***************************************************************************)
(* internal/events.Bus and its one kind of subscriber, the handler of      *)
(* GET /events (internal/api/events.go).                                   *)
(*                                                                         *)
(* A channel belongs to one client, which subscribes to all topics at once *)
(* and unsubscribes when its request ends.  Publish copies the subscribers *)
(* of its topic under the lock and sends to them after it has released it. *)
(* A send on, or a second close of, a closed channel is a panic, and ends  *)
(* the behaviour here: in a cron job and in main it ends the process, in   *)
(* an HTTP handler net/http ends the request.                              *)
(***************************************************************************)
EXTENDS Integers, Sequences, FiniteSets

CONSTANTS
    Clients,          \* each with one channel
    Publishers,       \* goroutines that call Publish
    Topics,
    TopicOf,          \* topic of each publisher
    Cap,              \* 16 in the code
    MaxEvents         \* bound: events each publisher publishes

ASSUME BusAssumption ==
    /\ TopicOf \in [Publishers -> Topics]
    /\ Cap \in Nat /\ MaxEvents \in Nat

VARIABLES
    subs,             \* b.subs: channels registered for each topic
    chan,             \* state of each client's channel
    buf,              \* its buffer
    count,            \* events each publisher has begun to publish
    copy,             \* channels a publisher still has to send to
    sending,          \* the publisher is between RUnlock and return
    delivered,        \* last event of each publisher each client received
    panic             \* "none", or what panicked

vars == <<subs, chan, buf, count, copy, sending, delivered, panic>>

Init ==
    /\ subs = [t \in Topics |-> {}]
    /\ chan = [c \in Clients |-> "none"]
    /\ buf = [c \in Clients |-> <<>>]
    /\ count = [p \in Publishers |-> 0]
    /\ copy = [p \in Publishers |-> {}]
    /\ sending = [p \in Publishers |-> FALSE]
    /\ delivered = [c \in Clients |-> [p \in Publishers |-> 0]]
    /\ panic = "none"

-----------------------------------------------------------------------------
(* Bus *)

\* Subscribe("pipeline", "config", "routing"), under the lock.
Subscribe(c) ==
    /\ panic = "none"
    /\ chan[c] = "none"
    /\ chan' = [chan EXCEPT ![c] = "open"]
    /\ subs' = [t \in Topics |-> subs[t] \cup {c}]
    /\ UNCHANGED <<buf, count, copy, sending, delivered, panic>>

\* The client is gone, and what was left in its channel with it.
Forget(c) ==
    /\ buf' = [buf EXCEPT ![c] = <<>>]
    /\ delivered' = [delivered EXCEPT ![c] = [p \in Publishers |-> 0]]

\* Mutant: the search stops at the first topic that has the channel.
UnsubscribeOneTopic(c) ==
    /\ panic = "none"
    /\ chan[c] \in {"open", "closed"}
    /\ \E t \in Topics : subs' = [subs EXCEPT ![t] = @ \ {c}]
    /\ chan' = [chan EXCEPT ![c] = "done"]
    /\ Forget(c)
    /\ panic' = IF chan[c] = "closed" THEN "unsubscribe" ELSE "none"
    /\ UNCHANGED <<count, copy, sending>>

\* The request of client c is over: its channel leaves all topics and is
\* closed, which panics if Close has closed it already.
Unsubscribe(c) ==
    /\ panic = "none"
    /\ chan[c] \in {"open", "closed"}
    /\ subs' = [t \in Topics |-> subs[t] \ {c}]
    /\ chan' = [chan EXCEPT ![c] = "done"]
    /\ Forget(c)
    /\ panic' = IF chan[c] = "closed" THEN "unsubscribe" ELSE "none"
    /\ UNCHANGED <<count, copy, sending>>

\* Publish, up to RUnlock.
PublishCopy(p) ==
    /\ panic = "none"
    /\ ~sending[p]
    /\ count[p] < MaxEvents
    /\ count' = [count EXCEPT ![p] = @ + 1]
    /\ copy' = [copy EXCEPT ![p] = subs[TopicOf[p]]]
    /\ sending' = [sending EXCEPT ![p] = TRUE]
    /\ UNCHANGED <<subs, chan, buf, delivered, panic>>

\* Mutant: the send waits for room.
PublishSendBlocks(p, c) ==
    /\ panic = "none"
    /\ c \in copy[p]
    /\ chan[c] = "open" => Len(buf[c]) < Cap
    /\ copy' = [copy EXCEPT ![p] = @ \ {c}]
    /\ buf' = IF chan[c] = "open"
              THEN [buf EXCEPT ![c] = Append(@, [from |-> p, n |-> count[p]])]
              ELSE buf
    /\ panic' = IF chan[c] = "open" THEN "none" ELSE "send"
    /\ UNCHANGED <<subs, chan, count, sending, delivered>>

\* Mutant: the subscriber is not taken off the list of those still to serve.
PublishSendAgain(p, c) ==
    /\ panic = "none"
    /\ c \in copy[p]
    /\ chan[c] = "open" /\ Len(buf[c]) < Cap
    /\ buf' = [buf EXCEPT ![c] = Append(@, [from |-> p, n |-> count[p]])]
    /\ UNCHANGED <<subs, chan, count, copy, sending, delivered, panic>>

\* select { case ch <- ev: default: } for one channel of the copy: a full
\* buffer loses the event, a channel closed since the copy panics.
PublishSend(p, c) ==
    /\ panic = "none"
    /\ c \in copy[p]
    /\ copy' = [copy EXCEPT ![p] = @ \ {c}]
    /\ buf' = IF chan[c] = "open" /\ Len(buf[c]) < Cap
              THEN [buf EXCEPT ![c] = Append(@, [from |-> p, n |-> count[p]])]
              ELSE buf
    /\ panic' = IF chan[c] = "open" THEN "none" ELSE "send"
    /\ UNCHANGED <<subs, chan, count, sending, delivered>>

PublishReturn(p) ==
    /\ panic = "none"
    /\ sending[p] /\ copy[p] = {}
    /\ sending' = [sending EXCEPT ![p] = FALSE]
    /\ UNCHANGED <<subs, chan, buf, count, copy, delivered, panic>>

\* Close, under the lock: every entry of every topic is closed in turn, so a
\* channel registered for several topics is closed several times.
Close ==
    /\ panic = "none"
    /\ panic' = IF \E c \in Clients : Cardinality({t \in Topics : c \in subs[t]}) > 1
                THEN "close" ELSE "none"
    /\ chan' = [c \in Clients |-> IF \E t \in Topics : c \in subs[t]
                                  THEN "closed" ELSE chan[c]]
    /\ subs' = [t \in Topics |-> {}]
    /\ UNCHANGED <<buf, count, copy, sending, delivered>>

\* The handler's case ev := <-ch.  (On a closed and drained channel it reads
\* zero events, which changes nothing here.)
Receive(c) ==
    /\ panic = "none"
    /\ chan[c] \in {"open", "closed"}
    /\ buf[c] # <<>>
    /\ LET ev == Head(buf[c])
       IN delivered' = [delivered EXCEPT ![c][ev.from] = ev.n]
    /\ buf' = [buf EXCEPT ![c] = Tail(@)]
    /\ UNCHANGED <<subs, chan, count, copy, sending, panic>>

PublishStep(p) == PublishReturn(p) \/ \E c \in Clients : PublishSend(p, c)

Next ==
    \/ \E c \in Clients : Subscribe(c) \/ Unsubscribe(c) \/ Receive(c)
    \/ \E p \in Publishers : PublishCopy(p) \/ PublishStep(p)
    \/ Close

Spec == Init /\ [][Next]_vars

\* A publisher is a goroutine like any other.  Clients may stop reading.
FairSpec == Spec /\ \A p \in Publishers : WF_vars(PublishStep(p))
-----------------------------------------------------------------------------
(* Properties *)

Events == [from : Publishers, n : 1..MaxEvents]

\* Every variable has its type, and no buffer exceeds its capacity.
TypeOK ==
    /\ subs \in [Topics -> SUBSET Clients]
    /\ chan \in [Clients -> {"none", "open", "closed", "done"}]
    /\ buf \in [Clients -> Seq(Events)]
    /\ \A c \in Clients : Len(buf[c]) <= Cap
    /\ count \in [Publishers -> 0..MaxEvents]
    /\ copy \in [Publishers -> SUBSET Clients]
    /\ sending \in [Publishers -> BOOLEAN]
    /\ delivered \in [Clients -> [Publishers -> 0..MaxEvents]]
    /\ panic \in {"none", "send", "unsubscribe", "close"}

OnBus(c) == \E t \in Topics : c \in subs[t]

\* The three panics of the bus, and only these.  A send panics only on a
\* channel that has left every topic since the publisher made its copy, so a
\* Publish that starts after an Unsubscribe returned is safe; an Unsubscribe
\* panics only on a channel that Close took off the bus; and Close panics only
\* when a client is registered for more than one topic, as GET /events is.
PanicsExplained ==
    [][panic' # panic =>
          \/ /\ panic' = "send"
             /\ \E p \in Publishers, c \in Clients :
                   c \in copy[p] \ copy'[p] /\ ~OnBus(c)
          \/ /\ panic' = "unsubscribe"
             /\ \E c \in Clients : chan[c] = "closed" /\ ~OnBus(c)
          \/ /\ panic' = "close"
             /\ \E c \in Clients, t, u \in Topics :
                   t # u /\ c \in subs[t] /\ c \in subs[u] /\ chan[c] = "open"]_vars

\* A client sees the events of a publisher in the order of publication and
\* none twice, however many are dropped in between.
InOrder ==
    \A c \in Clients :
        \A i \in DOMAIN buf[c] :
            /\ buf[c][i].n > delivered[c][buf[c][i].from]
            /\ \A j \in 1..(i - 1) :
                  buf[c][j].from = buf[c][i].from => buf[c][j].n < buf[c][i].n

\* Publish returns although no client ever reads, unless a panic ends it: a
\* stalled browser cannot stall the pipeline.
PublishReturns ==
    \A p \in Publishers : sending[p] ~> (~sending[p] \/ panic # "none")
=============================================================================
