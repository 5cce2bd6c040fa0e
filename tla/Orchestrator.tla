---------------------------- MODULE Orchestrator ----------------------------
(***************************************************************************)
(* internal/orchestrator: single-flight execution of the pipeline.         *)
(*                                                                         *)
(* Callers are the goroutines that call Run: HTTP handlers of              *)
(* POST /pipeline/run, whose context is never cancelled, and cron jobs of  *)
(* the scheduler (Ticks), whose parent context Scheduler.Stop cancels.     *)
(* Cancellers are the handlers of POST /pipeline/cancel.  Every statement  *)
(* of Run that touches shared state is a step of its own; a section under  *)
(* o.mu or o.historyMu is one step, as nothing blocks inside it.           *)
(*                                                                         *)
(* What runPolicy does to cache, files and kernel is the subject of other  *)
(* modules: here it is a step that returns, with or without an error, and  *)
(* that leaves the orchestrator's state alone either way.                  *)
(***************************************************************************)
EXTENDS Integers, Sequences

CONSTANTS
    Callers,          \* goroutines that call Run
    Ticks,            \* those of them started by the cron scheduler
    Cancellers,       \* goroutines that call Cancel
    HistoryLimit,     \* 10 in the code
    MaxPolicies,      \* bound: enabled policies in the configuration
    MaxRuns           \* bound: runs the model follows

ASSUME OrchestratorAssumption ==
    /\ Ticks \subseteq Callers
    /\ HistoryLimit \in Nat \ {0}
    /\ MaxPolicies \in Nat
    /\ MaxRuns \in Nat

VARIABLES
    running,          \* o.running
    runCounter,       \* o.runCounter
    cancelFn,         \* run whose CancelFunc is in o.cancelFn (0: nil)
    current,          \* o.current: RunStatus
    history,          \* o.history: run ids, oldest first
    done,             \* runs whose own context has been cancelled
    parentDone,       \* callers whose parent context has been cancelled
    lastEvent,        \* last event published on topic "pipeline"
    pc,               \* control state of each caller
    rid,              \* runID of each caller (0: none assigned)
    left,             \* policies each caller still has to run
    cpc,              \* control state of each canceller
    mark              \* auxiliary: the run that a caller's CAS lost against

vars == <<running, runCounter, cancelFn, current, history, done, parentDone,
          lastEvent, pc, rid, left, cpc, mark>>

-----------------------------------------------------------------------------
\* Control states of Run, in program order.
HasRunID == {"numbered", "armed", "loading", "check1", "collecting", "check2",
             "policies", "succeeded", "recordOk", "failing", "recordFailed",
             "closing", "releasing"}
InRun    == {"acquired"} \cup HasRunID
PCs      == {"idle", "busy"} \cup InRun

Active(c) == pc[c] \in InRun

\* A derived context is done when it or its parent was cancelled.
CtxDone(c) == rid[c] \in done \/ c \in parentDone

NoEvent == [type |-> "none", id |-> 0]

Init ==
    /\ running = FALSE
    /\ runCounter = 0
    /\ cancelFn = 0
    /\ current = [running |-> FALSE, id |-> 0, report |-> FALSE]
    /\ history = <<>>
    /\ done = {}
    /\ parentDone = {}
    /\ lastEvent = NoEvent
    /\ pc = [c \in Callers |-> "idle"]
    /\ rid = [c \in Callers |-> 0]
    /\ left = [c \in Callers |-> 0]
    /\ cpc = [k \in Cancellers |-> "idle"]
    /\ mark = [c \in Callers |-> 0]

Goto(c, l) == pc' = [pc EXCEPT ![c] = l]

Emit(type, id) == lastEvent' = [type |-> type, id |-> id]

-----------------------------------------------------------------------------
(* Run *)

\* Mutant: the flag is stored without comparing.
AcquireNoCompare(c) ==
    /\ pc[c] = "idle"
    /\ runCounter < MaxRuns
    /\ running' = TRUE
    /\ Goto(c, "acquired")
    /\ UNCHANGED <<runCounter, cancelFn, current, history, done, parentDone,
                   lastEvent, rid, left, cpc, mark>>

\* running.CompareAndSwap(false, true) succeeds.
Acquire(c) ==
    /\ pc[c] = "idle"
    /\ ~running
    /\ runCounter < MaxRuns
    /\ running' = TRUE
    /\ Goto(c, "acquired")
    /\ UNCHANGED <<runCounter, cancelFn, current, history, done, parentDone,
                   lastEvent, rid, left, cpc, mark>>

\* The number of the run that holds the slot, also before it has taken it.
InFlight == IF \E c \in Callers : pc[c] = "acquired" THEN runCounter + 1
            ELSE runCounter

\* ... and fails: another run holds the slot.
AcquireFails(c) ==
    /\ pc[c] = "idle"
    /\ running
    /\ Goto(c, "busy")
    /\ mark' = [mark EXCEPT ![c] = InFlight]
    /\ UNCHANGED <<running, runCounter, cancelFn, current, history, done,
                   parentDone, lastEvent, rid, left, cpc>>

\* The losing caller reads o.current.RunID under o.mu and returns it with
\* ErrBusy; other callers may have taken any number of steps since the swap.
ReturnBusy(c) ==
    /\ pc[c] = "busy"
    /\ Goto(c, "idle")
    /\ mark' = [mark EXCEPT ![c] = 0]
    /\ UNCHANGED <<running, runCounter, cancelFn, current, history, done,
                   parentDone, lastEvent, rid, left, cpc>>

\* runCounter.Add(1) and the "pipeline.start" event.
StartRun(c) ==
    /\ pc[c] = "acquired"
    /\ runCounter' = runCounter + 1
    /\ rid' = [rid EXCEPT ![c] = runCounter + 1]
    /\ Emit("start", runCounter + 1)
    /\ Goto(c, "numbered")
    /\ UNCHANGED <<running, cancelFn, current, history, done, parentDone,
                   left, cpc, mark>>

InstallCancel(c) ==
    /\ pc[c] = "numbered"
    /\ cancelFn' = rid[c]
    /\ Goto(c, "armed")
    /\ UNCHANGED <<running, runCounter, current, history, done, parentDone,
                   lastEvent, rid, left, cpc, mark>>

\* Mutant: the status of the previous run is only flagged as running.
SetCurrentKeepsID(c) ==
    /\ pc[c] = "armed"
    /\ current' = [current EXCEPT !.running = TRUE, !.report = FALSE]
    /\ Goto(c, "loading")
    /\ UNCHANGED <<running, runCounter, cancelFn, history, done, parentDone,
                   lastEvent, rid, left, cpc, mark>>

SetCurrent(c) ==
    /\ pc[c] = "armed"
    /\ current' = [running |-> TRUE, id |-> rid[c], report |-> FALSE]
    /\ Goto(c, "loading")
    /\ UNCHANGED <<running, runCounter, cancelFn, history, done, parentDone,
                   lastEvent, rid, left, cpc, mark>>

\* registry.LoadAll: its query fails at once under a done context, and can
\* fail for reasons of its own.
LoadAll(c) ==
    /\ pc[c] = "loading"
    /\ \/ ~CtxDone(c) /\ Goto(c, "check1")
       \/ Goto(c, "failing")
    /\ UNCHANGED <<running, runCounter, cancelFn, current, history, done,
                   parentDone, lastEvent, rid, left, cpc, mark>>

\* Mutant: the select has no default branch.
CheckCtxBlocks(c, at, next) ==
    /\ pc[c] = at
    /\ CtxDone(c)
    /\ Goto(c, "failing")
    /\ UNCHANGED <<running, runCounter, cancelFn, current, history, done,
                   parentDone, lastEvent, rid, left, cpc, mark>>

\* select { case <-ctx.Done(): return ... default: }
CheckCtx(c, at, next) ==
    /\ pc[c] = at
    /\ Goto(c, IF CtxDone(c) THEN "failing" ELSE next)
    /\ UNCHANGED <<running, runCounter, cancelFn, current, history, done,
                   parentDone, lastEvent, rid, left, cpc, mark>>

\* The configuration snapshot of this run; its enabled policies are the ones
\* the loop will visit, whatever is published afterwards.
Collect(c) ==
    /\ pc[c] = "collecting"
    /\ \E n \in 0..MaxPolicies : left' = [left EXCEPT ![c] = n]
    /\ Goto(c, "check2")
    /\ UNCHANGED <<running, runCounter, cancelFn, current, history, done,
                   parentDone, lastEvent, rid, cpc, mark>>

\* One iteration of the policy loop.  An error of runPolicy is logged and the
\* loop continues, so both outcomes are this step; the context is not tested.
RunPolicy(c) ==
    /\ pc[c] = "policies"
    /\ left[c] > 0
    /\ left' = [left EXCEPT ![c] = left[c] - 1]
    /\ UNCHANGED <<running, runCounter, cancelFn, current, history, done,
                   parentDone, lastEvent, pc, rid, cpc, mark>>

\* The loop is over: "pipeline.complete" is published.
Complete(c) ==
    /\ pc[c] = "policies"
    /\ left[c] = 0
    /\ Emit("complete", rid[c])
    /\ Goto(c, "succeeded")
    /\ UNCHANGED <<running, runCounter, cancelFn, current, history, done,
                   parentDone, rid, left, cpc, mark>>

\* Mutant: pipelineSucceeded is never set, so the failure path runs as well.
SetFinishedNotFlagged(c) ==
    /\ pc[c] = "succeeded"
    /\ current' = [current EXCEPT !.running = FALSE, !.report = TRUE]
    /\ Goto(c, "failing")
    /\ UNCHANGED <<running, runCounter, cancelFn, history, done, parentDone,
                   lastEvent, rid, left, cpc, mark>>

\* Mutant: the report is stored, the flag is not.
SetFinishedReportOnly(c) ==
    /\ pc[c] = "succeeded"
    /\ current' = [current EXCEPT !.report = TRUE]
    /\ Goto(c, "recordOk")
    /\ UNCHANGED <<running, runCounter, cancelFn, history, done, parentDone,
                   lastEvent, rid, left, cpc, mark>>

\* Under o.mu: current.Running = false, current.Report = &report.
SetFinished(c) ==
    /\ pc[c] = "succeeded"
    /\ current' = [current EXCEPT !.running = FALSE, !.report = TRUE]
    /\ Goto(c, "recordOk")
    /\ UNCHANGED <<running, runCounter, cancelFn, history, done, parentDone,
                   lastEvent, rid, left, cpc, mark>>

\* The deferred function of a run that did not reach the success path: the
\* event first, the history afterwards.  o.current is not touched.
EmitFailed(c) ==
    /\ pc[c] = "failing"
    /\ Emit("failed", rid[c])
    /\ Goto(c, "recordFailed")
    /\ UNCHANGED <<running, runCounter, cancelFn, current, history, done,
                   parentDone, rid, left, cpc, mark>>

\* Mutant: the history is trimmed one run too late.
RecordTrimsLate(c) ==
    /\ pc[c] \in {"recordOk", "recordFailed"}
    /\ history' = Append(IF Len(history) > HistoryLimit THEN Tail(history)
                         ELSE history, rid[c])
    /\ Goto(c, "closing")
    /\ UNCHANGED <<running, runCounter, cancelFn, current, done, parentDone,
                   lastEvent, rid, left, cpc, mark>>

\* Mutant: only successful runs are recorded.
RecordOnlySuccess(c) ==
    /\ pc[c] \in {"recordOk", "recordFailed"}
    /\ history' = IF pc[c] = "recordFailed" THEN history
                  ELSE Append(IF Len(history) >= HistoryLimit
                              THEN Tail(history) ELSE history, rid[c])
    /\ Goto(c, "closing")
    /\ UNCHANGED <<running, runCounter, cancelFn, current, done, parentDone,
                   lastEvent, rid, left, cpc, mark>>

\* Under o.historyMu, the same on both paths: a full history loses its head.
Record(c) ==
    /\ pc[c] \in {"recordOk", "recordFailed"}
    /\ history' = Append(IF Len(history) >= HistoryLimit THEN Tail(history)
                         ELSE history, rid[c])
    /\ Goto(c, "closing")
    /\ UNCHANGED <<running, runCounter, cancelFn, current, done, parentDone,
                   lastEvent, rid, left, cpc, mark>>

\* Mutant: no deferred cancel().
CancelOwnMissing(c) ==
    /\ pc[c] = "closing"
    /\ Goto(c, "releasing")
    /\ UNCHANGED <<running, runCounter, cancelFn, current, history, done,
                   parentDone, lastEvent, rid, left, cpc, mark>>

\* The deferred cancel().
CancelOwn(c) ==
    /\ pc[c] = "closing"
    /\ done' = done \cup {rid[c]}
    /\ Goto(c, "releasing")
    /\ UNCHANGED <<running, runCounter, cancelFn, current, history,
                   parentDone, lastEvent, rid, left, cpc, mark>>

\* The deferred running.Store(false); Run has returned.
Release(c) ==
    /\ pc[c] = "releasing"
    /\ running' = FALSE
    /\ rid' = [rid EXCEPT ![c] = 0]
    /\ left' = [left EXCEPT ![c] = 0]
    /\ Goto(c, "idle")
    /\ UNCHANGED <<runCounter, cancelFn, current, history, done, parentDone,
                   lastEvent, cpc, mark>>

-----------------------------------------------------------------------------
(* Cancel, and the contexts of cron jobs *)

\* running.Load(), outside the mutex; nothing in flight, nothing to cancel.
CancelLoad(k) ==
    /\ cpc[k] = "idle"
    /\ cpc' = [cpc EXCEPT ![k] = IF running THEN "loaded" ELSE "idle"]
    /\ UNCHANGED <<running, runCounter, cancelFn, current, history, done,
                   parentDone, lastEvent, pc, rid, left, mark>>

\* Under o.mu: call whatever CancelFunc is installed now.
CancelCall(k) ==
    /\ cpc[k] = "loaded"
    /\ done' = IF cancelFn = 0 THEN done ELSE done \cup {cancelFn}
    /\ cpc' = [cpc EXCEPT ![k] = "idle"]
    /\ UNCHANGED <<running, runCounter, cancelFn, current, history,
                   parentDone, lastEvent, pc, rid, left, mark>>

\* The parent contexts of cron jobs are the scheduler's: its Stop cancels
\* those of its jobs, and a job of a later Start has a new one.  Module
\* Scheduler says when.
CancelParents(S) ==
    /\ parentDone' = parentDone \cup S
    /\ UNCHANGED <<running, runCounter, cancelFn, current, history, done,
                   lastEvent, pc, rid, left, cpc, mark>>

NewParent(c) ==
    /\ pc[c] = "idle"
    /\ parentDone' = parentDone \ {c}
    /\ UNCHANGED <<running, runCounter, cancelFn, current, history, done,
                   lastEvent, pc, rid, left, cpc, mark>>

-----------------------------------------------------------------------------
\* The steps of Run once it has been called: the goroutine's own progress.
Progress(c) ==
    \/ ReturnBusy(c)
    \/ StartRun(c)
    \/ InstallCancel(c)
    \/ SetCurrent(c)
    \/ LoadAll(c)
    \/ CheckCtx(c, "check1", "collecting")
    \/ Collect(c)
    \/ CheckCtx(c, "check2", "policies")
    \/ RunPolicy(c)
    \/ Complete(c)
    \/ SetFinished(c)
    \/ EmitFailed(c)
    \/ Record(c)
    \/ CancelOwn(c)
    \/ Release(c)

Call(c) == Acquire(c) \/ AcquireFails(c)

Next ==
    \/ \E c \in Callers : Call(c) \/ Progress(c)
    \/ \E k \in Cancellers : CancelLoad(k) \/ CancelCall(k)
    \/ \E S \in SUBSET Ticks : CancelParents(S)
    \/ \E c \in Ticks : NewParent(c)

Spec == Init /\ [][Next]_vars

\* Run is about to call the registry: LoadAll, GetDomains of the categories,
\* and, for every policy, ResolveCategory, GetDomains and GetPrefixes.  These
\* take the registry's lock and need not return: once ListSources is stuck in
\* the nested RLock of a source's Info with the registry's RLock in hand,
\* LoadAll waits at registry.go:207 for good (module Registry, NoWedge).
AtRegistry(c) ==
    \/ pc[c] \in {"loading", "collecting"}
    \/ pc[c] = "policies" /\ left[c] > 0

\* What fairness may be assumed of: Go schedules every runnable goroutine, and
\* what Run does apart from the registry returns, as the queries of resolver
\* and cache carry timeouts or a context and the bus never waits.
Returning(c) == Progress(c) /\ ~AtRegistry(c)
-----------------------------------------------------------------------------
(* Properties *)

Statuses == [running : BOOLEAN, id : Nat, report : BOOLEAN]
Events   == [type : {"none", "start", "complete", "failed"}, id : Nat]

\* Every variable has the type the Go declarations give it.
TypeOK ==
    /\ running \in BOOLEAN
    /\ runCounter \in Nat
    /\ cancelFn \in Nat
    /\ current \in Statuses
    /\ history \in Seq(Nat)
    /\ done \subseteq Nat
    /\ parentDone \subseteq Callers
    /\ lastEvent \in Events
    /\ pc \in [Callers -> PCs]
    /\ rid \in [Callers -> Nat]
    /\ left \in [Callers -> Nat]
    /\ cpc \in [Cancellers -> {"idle", "loaded"}]
    /\ mark \in [Callers -> Nat]

\* At most one caller is inside the body of Run, and o.running says exactly
\* whether one is: the slot is never leaked by an error path and never given
\* out twice.
SingleFlight ==
    /\ running <=> \E c \in Callers : Active(c)
    /\ \A c, d \in Callers : Active(c) /\ Active(d) => c = d

\* Control states in which a run has its number but is not in the history yet.
Unrecorded == HasRunID \ {"closing", "releasing"}

\* The run that has been numbered and not recorded (0: there is none).
OpenRun == IF \E c \in Callers : pc[c] \in Unrecorded THEN runCounter ELSE 0

LastRecorded == IF OpenRun = 0 THEN runCounter ELSE runCounter - 1

\* h lists the last runs up to run n: no gap, no repetition, oldest first,
\* and as many as the limit allows.
Window(h, n) ==
    /\ Len(h) = IF n < HistoryLimit THEN n ELSE HistoryLimit
    /\ \A i \in 1..Len(h) : h[i] = n - Len(h) + i

\* The history holds exactly the most recent finished runs, failed runs
\* included, although two paths of Run append to it and both trim it.
HistoryContiguous == Window(history, LastRecorded)

\* From the moment a run has published its status until it releases the slot,
\* o.current and o.cancelFn are about that run: SetFinished cannot write the
\* report of one run into the status of another.
StatusOwned ==
    \A c \in Callers :
        pc[c] \in HasRunID \ {"numbered", "armed"} =>
            current.id = rid[c] /\ cancelFn = rid[c]

\* The id that a busy caller reads is that of the run its CompareAndSwap lost
\* against, or of a later one.  orchestrator.go:3 and PIPELINE.md:76 promise
\* the in-flight run; the one exception is the window in which the holder of
\* the slot has not written its status yet, when the id is that of the run
\* before it (0 in the first run), and never of an older one.
BusyIdRecent ==
    \A c \in Callers :
        pc[c] = "busy" =>
            /\ current.id <= runCounter
            /\ \/ mark[c] <= current.id
               \/ /\ mark[c] = current.id + 1
                  /\ \E d \in Callers : pc[d] \in {"acquired", "numbered", "armed"}

\* Whatever CancelFunc Cancel finds, calling it never marks a run other than
\* the one that holds the slot: a CancelFunc left over from a finished run
\* has already been called by that run itself.
CancelOnlyInFlight ==
    [][\A r \in done' \ done :
          \E c \in Callers : Active(c) /\ rid[c] = r]_done

\* Subscribers see start n, then one of complete n and failed n, then
\* start n+1: the events of two runs never interleave, no run ends twice.
EventsAlternate ==
    [][\/ /\ lastEvent.type # "start"
          /\ lastEvent' = [type |-> "start", id |-> lastEvent.id + 1]
       \/ /\ lastEvent.type = "start"
          /\ lastEvent'.type \in {"complete", "failed"}
          /\ lastEvent'.id = lastEvent.id]_lastEvent

\* Run returns to every caller, whether it ran, failed, was cancelled or
\* found the slot taken, unless it is in a call of the registry that does not
\* return; and it hangs nowhere else, whatever the other callers do.
EveryTriggerReturns ==
    \A c \in Callers : (pc[c] # "idle") ~> (pc[c] = "idle" \/ AtRegistry(c))

Ledger == INSTANCE RunLedger WITH
    Limit <- HistoryLimit, next <- runCounter, open <- OpenRun,
    ledger <- history

\* The orchestrator implements the run ledger: see RunLedger.
ImplementsLedger == Ledger!LSpec

Owned == \E c \in Callers : Active(c) /\ rid[c] = current.id

\* The failure path leaves o.current alone, so GET /pipeline/status goes on
\* saying that a failed run is running.  That is the only way the status goes
\* wrong: a status of a run nobody is in says "running" only if that run
\* failed and no later one has replaced it, and has a report otherwise.
StatusLagsOnlyFailure ==
    ~Owned /\ current.id # 0 =>
        IF current.running
        THEN \/ lastEvent = [type |-> "failed", id |-> current.id]
             \/ lastEvent = [type |-> "start", id |-> current.id + 1]
        ELSE current.report
=============================================================================
