----------------------------- MODULE RunLedger ------------------------------
(***************************************************************************)
(* What the orchestrator promises about pipeline runs, and nothing of how  *)
(* it keeps the promise: runs are numbered 1, 2, 3, ...; at most one is    *)
(* open at a time; an open run ends by being entered in the ledger, once,  *)
(* and the ledger keeps only the most recent Limit runs, in order.         *)
(* Module Orchestrator is shown to implement this specification.           *)
(***************************************************************************)
EXTENDS Naturals, Sequences

CONSTANT Limit        \* how many finished runs the ledger keeps

VARIABLES
    next,             \* number of the most recently opened run (0: none yet)
    open,             \* the run that is open now (0: none)
    ledger            \* the last Limit finished runs, oldest first

ledgerVars == <<next, open, ledger>>

\* Appending to a full ledger drops its oldest entry first.
Entered(l, r) == Append(IF Len(l) >= Limit THEN Tail(l) ELSE l, r)

LInit ==
    /\ next = 0
    /\ open = 0
    /\ ledger = <<>>

Begin ==
    /\ open = 0
    /\ next' = next + 1
    /\ open' = next + 1
    /\ UNCHANGED ledger

Enter ==
    /\ open # 0
    /\ open' = 0
    /\ ledger' = Entered(ledger, open)
    /\ UNCHANGED next

LNext == Begin \/ Enter

LSpec == LInit /\ [][LNext]_ledgerVars
=============================================================================
