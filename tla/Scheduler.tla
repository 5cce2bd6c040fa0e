------------------------------ MODULE Scheduler ------------------------------
(***************************************************************************)
(* internal/scheduler composed with the orchestrator: Start, Stop and the  *)
(* cron jobs that call Run.  Each Start makes a cron and a context of its  *)
(* own; they are numbered here.  Stop holds s.mu while it cancels the      *)
(* context and stops the cron, gives it up to wait for the jobs that are   *)
(* running, and takes it again to clear s.running: another Stop, or a      *)
(* Start, can come in between.                                             *)
(*                                                                         *)
(* A caller in Ticks is a slot for one job at a time.  robfig/cron starts  *)
(* a job in a goroutine of its own, also while an earlier one still runs.  *)
(***************************************************************************)
EXTENDS Orchestrator, FiniteSets

CONSTANTS
    Controllers,      \* goroutines that call Start and Stop
    MaxStarts         \* bound: calls of Start that succeed

ASSUME SchedulerAssumption == MaxStarts \in Nat

VARIABLES
    sRunning,         \* s.running
    cron,             \* number of the cron in s.cron (0: nil)
    ctxDone,          \* crons whose context has been cancelled
    stopped,          \* crons that start no more jobs
    slot,             \* [Ticks -> cron]: the cron whose jobs a slot runs
    spc,              \* control state of each controller's Stop
    waits,            \* [Controllers -> cron]: the cron whose jobs Stop awaits
    crossed           \* history: a Stop has waited beside another one

schedVars == <<sRunning, cron, ctxDone, stopped, slot, spc, waits, crossed>>

Crons == 1 .. MaxStarts

SInit ==
    /\ Init
    /\ sRunning = FALSE
    /\ cron = 0
    /\ ctxDone = {} /\ stopped = {}
    /\ slot = [c \in Ticks |-> 0]
    /\ spc = [u \in Controllers |-> "idle"]
    /\ waits = [u \in Controllers |-> 0]
    /\ crossed = FALSE

\* s.mu is held between the cancel and the end of cron.Stop.
Unlocked == \A u \in Controllers : spc[u] # "cancelled"

\* Mutant: every slot of the cron counts as a job, running or not.
JobsRegistered(g) == {c \in Ticks : slot[c] = g}

\* The jobs of cron g that are in Run.
Jobs(g) == {c \in Ticks : slot[c] = g /\ pc[c] # "idle"}

-----------------------------------------------------------------------------
(* Start and the jobs *)

\* A second Start finds s.running set and returns an error.
Start ==
    /\ Unlocked
    /\ ~sRunning
    /\ cron < MaxStarts
    /\ cron' = cron + 1
    /\ sRunning' = TRUE
    /\ UNCHANGED <<vars, ctxDone, stopped, slot, spc, waits, crossed>>

\* The next job in slot c will be one of cron g, with that cron's context.
Bind(c, g) ==
    /\ g \in (1 .. cron) \ stopped
    /\ slot[c] # g /\ pc[c] = "idle"
    /\ slot' = [slot EXCEPT ![c] = g]
    /\ IF g \in ctxDone THEN CancelParents({c}) ELSE NewParent(c)
    /\ UNCHANGED <<sRunning, cron, ctxDone, stopped, spc, waits, crossed>>

\* The cron of slot c starts a job, which calls Run.
Fire(c) ==
    /\ slot[c] # 0 /\ slot[c] \notin stopped
    /\ Call(c)
    /\ UNCHANGED schedVars

-----------------------------------------------------------------------------
(* Stop *)

\* Not running: Stop returns at once.
StopNotRunning(u) ==
    /\ Unlocked /\ spc[u] = "idle"
    /\ ~sRunning
    /\ UNCHANGED <<vars, schedVars>>

\* Mutant: Stop cancels the contexts of all callers.
StopCancelEverything(u) ==
    /\ Unlocked /\ spc[u] = "idle"
    /\ sRunning
    /\ spc' = [spc EXCEPT ![u] = "cancelled"]
    /\ waits' = [waits EXCEPT ![u] = cron]
    /\ ctxDone' = ctxDone \cup {cron}
    /\ CancelParents(Callers)
    /\ UNCHANGED <<sRunning, cron, stopped, slot, crossed>>

\* Otherwise it cancels the context of the cron that s.cron holds now.
StopCancel(u) ==
    /\ Unlocked /\ spc[u] = "idle"
    /\ sRunning
    /\ spc' = [spc EXCEPT ![u] = "cancelled"]
    /\ waits' = [waits EXCEPT ![u] = cron]
    /\ ctxDone' = ctxDone \cup {cron}
    /\ CancelParents({c \in Ticks : slot[c] = cron})
    /\ crossed' = (crossed \/ \E v \in Controllers \ {u} : spc[v] # "idle")
    /\ UNCHANGED <<sRunning, cron, stopped, slot>>

\* Mutant: the cron is not stopped.
StopCronForgotten(u) ==
    /\ spc[u] = "cancelled"
    /\ spc' = [spc EXCEPT ![u] = "waiting"]
    /\ UNCHANGED <<vars, sRunning, cron, ctxDone, stopped, slot, waits, crossed>>

\* cron.Stop(), and s.mu is released.
StopCron(u) ==
    /\ spc[u] = "cancelled"
    /\ spc' = [spc EXCEPT ![u] = "waiting"]
    /\ stopped' = stopped \cup {waits[u]}
    /\ UNCHANGED <<vars, sRunning, cron, ctxDone, slot, waits, crossed>>

\* Mutant: Stop does not wait for the jobs.
StopWaitSkipped(u) ==
    /\ spc[u] = "waiting"
    /\ spc' = [spc EXCEPT ![u] = "waited"]
    /\ UNCHANGED <<vars, sRunning, cron, ctxDone, stopped, slot, waits, crossed>>

\* <-stopCtx.Done(): cron's context is done when its jobs have returned.
StopWait(u) ==
    /\ spc[u] = "waiting"
    /\ Jobs(waits[u]) = {}
    /\ spc' = [spc EXCEPT ![u] = "waited"]
    /\ UNCHANGED <<vars, sRunning, cron, ctxDone, stopped, slot, waits, crossed>>

\* s.running = false, under s.mu again; Stop has returned.
StopEnd(u) ==
    /\ Unlocked /\ spc[u] = "waited"
    /\ sRunning' = FALSE
    /\ spc' = [spc EXCEPT ![u] = "idle"]
    /\ waits' = [waits EXCEPT ![u] = 0]
    /\ UNCHANGED <<vars, cron, ctxDone, stopped, slot, crossed>>

-----------------------------------------------------------------------------
StopProgress(u) == StopCron(u) \/ StopWait(u) \/ StopEnd(u)

RunProgress(c) == Progress(c) /\ UNCHANGED schedVars

SNext ==
    \/ \E c \in Callers \ Ticks : Call(c) /\ UNCHANGED schedVars
    \/ \E c \in Callers : RunProgress(c)
    \/ \E k \in Cancellers : (CancelLoad(k) \/ CancelCall(k)) /\ UNCHANGED schedVars
    \/ Start
    \/ \E c \in Ticks : Fire(c) \/ \E g \in Crons : Bind(c, g)
    \/ \E u \in Controllers : StopNotRunning(u) \/ StopCancel(u) \/ StopProgress(u)

SSpec == SInit /\ [][SNext]_<<vars, schedVars>>

\* Nobody is obliged to call Run, Cancel, Start or Stop, and a call of the
\* registry need not return (see Orchestrator); every other step of Run, and
\* of a Stop, is taken when it can be.
SFairSpec ==
    /\ SSpec
    /\ \A c \in Callers : WF_<<vars, schedVars>>(Returning(c) /\ UNCHANGED schedVars)
    /\ \A u \in Controllers : WF_<<vars, schedVars>>(StopProgress(u))

-----------------------------------------------------------------------------
(* Properties *)

\* The variables of the scheduler have their types.
STypeOK ==
    /\ TypeOK
    /\ sRunning \in BOOLEAN /\ crossed \in BOOLEAN
    /\ cron \in 0 .. MaxStarts
    /\ ctxDone \subseteq Crons /\ stopped \subseteq ctxDone
    /\ slot \in [Ticks -> 0 .. MaxStarts]
    /\ spc \in [Controllers -> {"idle", "cancelled", "waiting", "waited"}]
    /\ waits \in [Controllers -> 0 .. MaxStarts]

\* Stop "waits for any in-flight pipeline run to complete" (scheduler.go:94):
\* from the moment it has waited no job of the cron it stopped is in Run, and
\* none gets there again.  The jobs of a cron whose context is done know it.
StopQuiesces ==
    /\ \A u \in Controllers : spc[u] = "waited" => Jobs(waits[u]) = {}
    /\ \A c \in Ticks : slot[c] \in ctxDone => c \in parentDone

\* The scheduler says that it is not running while a cron goes on starting
\* jobs, which no Stop can reach any more, only after two Stops have waited
\* side by side and a Start has come between their ends (scheduler.go:110-119).
OrphanNeedsTwoStops ==
    ~sRunning /\ ~crossed => 1 .. cron \subseteq stopped

\* A Stop returns unless one of the jobs it waits for is in a call of the
\* registry, which may never return: any other job sees the cancelled context
\* or comes to an end, and the stopped cron starts no new ones.
StopReturns ==
    \A u \in Controllers :
        (spc[u] # "idle") ~>
            (spc[u] = "idle" \/ \E c \in Jobs(waits[u]) : AtRegistry(c))

\* The scheduler uses the orchestrator as module Orchestrator assumes its
\* callers do, so that what is proved there holds here.
UsesOrchestrator == Spec
=============================================================================
