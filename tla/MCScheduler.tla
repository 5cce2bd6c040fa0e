----------------------------- MODULE MCScheduler -----------------------------
(* Small instances of Scheduler, and so of Orchestrator, for TLC. *)
EXTENDS Scheduler, TLC

CONSTANTS c1, c2, k1, u1, u2

MCCallers     == {c1, c2}      \* an HTTP handler and a cron job
MCTicks       == {c2}
MCCancellers  == {k1}
MCControllers == {u1, u2}
=============================================================================
