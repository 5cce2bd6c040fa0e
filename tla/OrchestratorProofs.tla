------------------------- MODULE OrchestratorProofs -------------------------
(***************************************************************************)
(* Proofs about Orchestrator, for any set of callers and cancellers, any   *)
(* number of policies and runs and any history limit, and then about       *)
(* Scheduler, for any number of controllers and crons.                     *)
(*                                                                         *)
(* None of the properties is inductive by itself: which run owns o.current *)
(* and o.cancelFn depends on who is inside Run and where.  IInv adds that  *)
(* knowledge, one conjunct per shared variable.                            *)
(***************************************************************************)
EXTENDS Scheduler, TLAPS

\* Control states in which a run's own event is still "start".
Announced == HasRunID \ {"succeeded", "recordOk", "recordFailed", "closing",
                         "releasing"}

\* A caller has a run id only inside Run, and it is the newest id.
RunIds ==
    \A c \in Callers : pc[c] \in HasRunID => rid[c] = runCounter /\ runCounter > 0

\* o.current is about the newest run, or about the one before it while the
\* newest has not yet written its own status.
CurrentInv ==
    /\ current.id <= runCounter
    /\ \/ current.id = runCounter
       \/ /\ current.id = runCounter - 1
          /\ \E c \in Callers : pc[c] \in {"numbered", "armed"}

\* A caller lost the race against a run that holds, or has held, the slot.
BusyInv == \A c \in Callers : pc[c] = "busy" => mark[c] <= InFlight

\* o.cancelFn is nil, or belongs to the run in the slot, or to a run that has
\* called it itself.
CancelInv ==
    /\ \/ cancelFn = 0
       \/ cancelFn \in done
       \/ \E c \in Callers : pc[c] \in HasRunID /\ rid[c] = cancelFn
    /\ \A c \in Callers : /\ pc[c] = "armed" => cancelFn = rid[c]
                          /\ pc[c] = "releasing" => rid[c] \in done

\* The last event is about the latest run, and is its start event exactly
\* while that run has yet to announce its end.
EventInv ==
    /\ lastEvent.id = runCounter
    /\ lastEvent.type = "start" <=> \E c \in Callers : pc[c] \in Announced

\* Who is inside Run, and what each shared variable says about that run.
SharedState ==
    /\ SingleFlight
    /\ RunIds
    /\ StatusOwned
    /\ CurrentInv
    /\ BusyInv
    /\ BusyIdRecent
    /\ CancelInv
    /\ EventInv
    /\ HistoryContiguous

IInv == TypeOK /\ SharedState

-----------------------------------------------------------------------------
USE OrchestratorAssumption

\* Every step of the orchestrator keeps every variable in its type.
LEMMA TypeStep == TypeOK /\ [Next]_vars => TypeOK'
<1> SUFFICES ASSUME TypeOK, [Next]_vars PROVE TypeOK'
  OBVIOUS
<1> USE DEF TypeOK, PCs, InRun, HasRunID, Goto
<1>1. ASSUME NEW c \in Callers, Acquire(c) PROVE TypeOK'
  BY <1>1 DEF Acquire
<1>2. ASSUME NEW c \in Callers, AcquireFails(c) PROVE TypeOK'
  BY <1>2 DEF AcquireFails, InFlight
<1>3. ASSUME NEW c \in Callers, ReturnBusy(c) PROVE TypeOK'
  BY <1>3 DEF ReturnBusy
<1>4. ASSUME NEW c \in Callers, StartRun(c) PROVE TypeOK'
  BY <1>4 DEF StartRun, Emit, Events
<1>5. ASSUME NEW c \in Callers, InstallCancel(c) PROVE TypeOK'
  BY <1>5 DEF InstallCancel
<1>6. ASSUME NEW c \in Callers, SetCurrent(c) PROVE TypeOK'
  BY <1>6 DEF SetCurrent, Statuses
<1>7. ASSUME NEW c \in Callers, LoadAll(c) PROVE TypeOK'
  BY <1>7 DEF LoadAll
<1>8. ASSUME NEW c \in Callers, Collect(c) PROVE TypeOK'
  BY <1>8 DEF Collect
<1>9. ASSUME NEW c \in Callers, RunPolicy(c) PROVE TypeOK'
  BY <1>9 DEF RunPolicy
<1>10. ASSUME NEW c \in Callers, Complete(c) PROVE TypeOK'
  BY <1>10 DEF Complete, Emit, Events
<1>11. ASSUME NEW c \in Callers, SetFinished(c) PROVE TypeOK'
  BY <1>11 DEF SetFinished, Statuses
<1>12. ASSUME NEW c \in Callers, EmitFailed(c) PROVE TypeOK'
  BY <1>12 DEF EmitFailed, Emit, Events
<1>13. ASSUME NEW c \in Callers, Record(c) PROVE TypeOK'
  BY <1>13 DEF Record
<1>14. ASSUME NEW c \in Callers, CancelOwn(c) PROVE TypeOK'
  BY <1>14 DEF CancelOwn
<1>15. ASSUME NEW c \in Callers, Release(c) PROVE TypeOK'
  BY <1>15 DEF Release
<1>16. ASSUME NEW c \in Callers, CheckCtx(c, "check1", "collecting") PROVE TypeOK'
  BY <1>16 DEF CheckCtx
<1>17. ASSUME NEW c \in Callers, CheckCtx(c, "check2", "policies") PROVE TypeOK'
  BY <1>17 DEF CheckCtx
<1>18. ASSUME NEW k \in Cancellers, CancelLoad(k) PROVE TypeOK'
  BY <1>18 DEF CancelLoad
<1>19. ASSUME NEW k \in Cancellers, CancelCall(k) PROVE TypeOK'
  BY <1>19 DEF CancelCall
<1>20. ASSUME NEW S \in SUBSET Ticks, CancelParents(S)
       PROVE  TypeOK'
  BY <1>20 DEF CancelParents
<1>21. ASSUME NEW c \in Ticks, NewParent(c)
       PROVE  TypeOK'
  BY <1>21 DEF NewParent
<1>22. CASE UNCHANGED vars
  BY <1>22 DEF vars
<1>23. QED
  BY <1>1, <1>2, <1>3, <1>4, <1>5, <1>6, <1>7, <1>8, <1>9, <1>10, <1>11, <1>12, <1>13, <1>14, <1>15, <1>16, <1>17, <1>18, <1>19, <1>20, <1>21, <1>22 DEF Next, Call, Progress

\* The zero values New leaves in the struct have their types.
LEMMA InitTypeOK == Init => TypeOK
<1> SUFFICES ASSUME Init PROVE TypeOK
  OBVIOUS
<1> USE DEF Init
<1>1. current \in Statuses
  BY DEF Statuses
<1>2. lastEvent \in Events
  BY DEF NoEvent, Events
<1>3. /\ pc \in [Callers -> PCs] /\ history \in Seq(Nat)
      /\ rid \in [Callers -> Nat] /\ left \in [Callers -> Nat]
      /\ mark \in [Callers -> Nat]
  BY DEF PCs
<1>4. QED
  BY <1>1, <1>2, <1>3 DEF TypeOK

\* Run, Cancel and Stop never leave a variable outside its Go type.
THEOREM TypeCorrect == Spec => []TypeOK
<1>1. Init => TypeOK
  BY InitTypeOK
<1>2. TypeOK /\ [Next]_vars => TypeOK'
  BY TypeStep
<1>3. QED
  BY <1>1, <1>2, PTL DEF Spec

-----------------------------------------------------------------------------
\* The states between SetCurrent and the end of the work, where a step of a
\* run changes nothing but its own control state and loop counter.
Working == {"loading", "check1", "collecting", "check2", "policies", "failing"}

\* What a losing caller will read does not change in a step that leaves the
\* status and the numbers alone and in which nobody enters or leaves the
\* states that the two invariants speak of.
LEMMA BusyKept ==
    ASSUME BusyInv, BusyIdRecent, current'.id = current.id,
           UNCHANGED <<runCounter, mark>>,
           \A d \in Callers :
              \/ pc'[d] = pc[d]
              \/ {pc[d], pc'[d]} \cap {"busy", "acquired", "numbered", "armed"} = {}
    PROVE  BusyInv' /\ BusyIdRecent'
<1>1. \A d \in Callers, l \in {"busy", "acquired", "numbered", "armed"} :
         pc'[d] = l <=> pc[d] = l
  OBVIOUS
<1>2. InFlight' = InFlight
  BY <1>1 DEF InFlight
<1>3. QED
  BY <1>1, <1>2 DEF BusyInv, BusyIdRecent

\* A step of that kind preserves the invariant: nothing it speaks of changes.
LEMMA WorkingStep ==
    ASSUME IInv, TypeOK', NEW c \in Callers, NEW l \in Working,
           pc[c] \in Working, Goto(c, l),
           UNCHANGED <<running, runCounter, cancelFn, current, history, done,
                       lastEvent, rid, mark>>
    PROVE  SharedState'
<1> USE DEF PCs, InRun, HasRunID, Active, Announced, Unrecorded, Working,
            IInv, TypeOK, Goto, SharedState
<1>0. \A d \in Callers : pc'[d] \in InRun <=> pc[d] \in InRun
  OBVIOUS
<1>1. SingleFlight'
  <2> HIDE DEF InRun
  <2>1. QED
    BY <1>0 DEF SingleFlight
<1>2. RunIds'
  BY DEF RunIds, SingleFlight
<1>3. StatusOwned'
  BY DEF StatusOwned, RunIds, SingleFlight, CancelInv
<1>4. CurrentInv'
  BY DEF CurrentInv, RunIds, SingleFlight
<1>5. BusyInv'
  BY BusyKept
<1>6. BusyIdRecent'
  BY BusyKept
<1>7. CancelInv'
  BY DEF CancelInv, RunIds, StatusOwned, SingleFlight
<1>8. EventInv'
  BY DEF EventInv, RunIds, SingleFlight
<1>9. HistoryContiguous'
  BY DEF HistoryContiguous, LastRecorded, OpenRun, RunIds, SingleFlight
<1>10. QED
  BY <1>1, <1>2, <1>3, <1>4, <1>5, <1>6, <1>7, <1>8, <1>9

\* Appending the next run to a trimmed window of runs gives the next window.
LEMMA WindowPush ==
    ASSUME NEW h \in Seq(Nat), NEW n \in Nat, n > 0, Window(h, n - 1)
    PROVE  Window(Append(IF Len(h) >= HistoryLimit THEN Tail(h) ELSE h, n), n)
<1> DEFINE g == Append(IF Len(h) >= HistoryLimit THEN Tail(h) ELSE h, n)
<1>1. \A i \in 1..Len(h) : h[i] = (n - 1) - Len(h) + i
  BY DEF Window
<1>2. ASSUME Len(h) >= HistoryLimit PROVE Window(g, n)
  <2>1. Len(h) = HistoryLimit /\ HistoryLimit <= n - 1
    BY <1>2 DEF Window
  <2>2. /\ Len(g) = HistoryLimit
        /\ \A i \in 1..HistoryLimit :
              g[i] = IF i = HistoryLimit THEN n ELSE h[i + 1]
    BY <2>1
  <2> HIDE DEF g
  <2>3. ASSUME NEW i \in 1..HistoryLimit PROVE g[i] = n - HistoryLimit + i
    <3>1. CASE i = HistoryLimit
      BY <2>2, <3>1
    <3>2. CASE i # HistoryLimit
      <4>1. i + 1 \in 1..Len(h)
        BY <2>1, <3>2
      <4>2. h[i + 1] = (n - 1) - Len(h) + (i + 1)
        BY <1>1, <4>1
      <4>3. QED
        BY <2>1, <2>2, <3>2, <4>2
    <3>3. QED
      BY <3>1, <3>2
  <2>4. QED
    BY <2>1, <2>2, <2>3 DEF Window
<1>3. ASSUME Len(h) < HistoryLimit PROVE Window(g, n)
  <2>1. Len(h) = n - 1 /\ n <= HistoryLimit
    BY <1>3 DEF Window
  <2>2. /\ Len(g) = n
        /\ \A i \in 1..n : g[i] = IF i = n THEN n ELSE h[i]
    BY <1>3, <2>1
  <2> HIDE DEF g
  <2>3. ASSUME NEW i \in 1..n PROVE g[i] = i
    <3>1. CASE i = n
      BY <2>2, <3>1
    <3>2. CASE i # n
      <4>1. i \in 1..Len(h)
        BY <2>1, <3>2
      <4>2. h[i] = (n - 1) - Len(h) + i
        BY <1>1, <4>1
      <4>3. QED
        BY <2>1, <2>2, <3>2, <4>2
    <3>3. QED
      BY <3>1, <3>2
  <2>4. QED
    BY <2>1, <2>2, <2>3 DEF Window
<1>4. QED
  BY <1>2, <1>3

\* IInv is preserved by every step.
LEMMA InvStep == IInv /\ [Next]_vars => IInv'
<1> SUFFICES ASSUME IInv, [Next]_vars PROVE IInv'
  OBVIOUS
<1>0. TypeOK /\ TypeOK'
  BY TypeStep DEF IInv
<1> USE DEF PCs, InRun, HasRunID, Active, Announced, Unrecorded, SharedState
<1>1. ASSUME NEW c \in Callers, Acquire(c) PROVE SharedState'
  <2> USE <1>0, <1>1 DEF Acquire, Goto, IInv, TypeOK
  <2>1. SingleFlight'
    BY DEF SingleFlight
  <2>2. RunIds'
    BY DEF RunIds, SingleFlight
  <2>3. StatusOwned'
    BY DEF StatusOwned, RunIds, SingleFlight, CancelInv
  <2>4. CurrentInv'
    BY DEF CurrentInv, RunIds, SingleFlight
  <2>5. BusyInv'
    BY DEF BusyInv, InFlight, CurrentInv, RunIds, SingleFlight
  <2>6. BusyIdRecent'
    BY DEF BusyIdRecent, BusyInv, InFlight, CurrentInv, RunIds, SingleFlight, StatusOwned
  <2>7. CancelInv'
    BY DEF CancelInv, RunIds, StatusOwned, SingleFlight
  <2>8. EventInv'
    BY DEF EventInv, RunIds, SingleFlight
  <2>9. HistoryContiguous'
    BY DEF HistoryContiguous, LastRecorded, OpenRun, RunIds, SingleFlight
  <2>10. QED
    BY <2>1, <2>2, <2>3, <2>4, <2>5, <2>6, <2>7, <2>8, <2>9
<1>2. ASSUME NEW c \in Callers, AcquireFails(c) PROVE SharedState'
  <2> USE <1>0, <1>2 DEF AcquireFails, Goto, IInv, TypeOK
  <2>1. BusyInv'
    BY DEF BusyInv, InFlight, CurrentInv, RunIds, SingleFlight
  <2>2. BusyIdRecent'
    <3> DEFINE Starting(d) == pc[d] \in {"acquired", "numbered", "armed"}
    <3>1. \A d \in Callers : Starting(d) => pc'[d] = pc[d]
      OBVIOUS
    <3>2. \/ InFlight <= current.id
          \/ InFlight = current.id + 1 /\ \E d \in Callers : Starting(d)
      <4>1. CASE \E d \in Callers : pc[d] = "acquired"
        <5>1. ~ \E d \in Callers : pc[d] \in {"numbered", "armed"}
          BY <4>1 DEF SingleFlight
        <5>2. current.id = runCounter /\ runCounter \in Nat
          BY <5>1 DEF CurrentInv
        <5>3. QED
          BY ONLY <4>1, <5>2 DEF InFlight
      <4>2. CASE ~ \E d \in Callers : pc[d] = "acquired"
        <5>1. InFlight = runCounter /\ runCounter \in Nat
          BY <4>2 DEF InFlight
        <5>2. current.id \in Nat
          BY DEF Statuses
        <5>3. CASE current.id = runCounter
          BY ONLY <5>1, <5>2, <5>3
        <5>4. CASE /\ current.id = runCounter - 1
                   /\ \E d \in Callers : pc[d] \in {"numbered", "armed"}
          <6>1. \E d \in Callers : Starting(d)
            BY ONLY <5>4
          <6>2. InFlight = current.id + 1
            BY ONLY <5>1, <5>2, <5>4
          <6>3. QED
            BY ONLY <6>1, <6>2
        <5>5. QED
          BY <5>3, <5>4 DEF CurrentInv
      <4>3. QED
        BY ONLY <4>1, <4>2
    <3>3. \A d \in Callers : IF d = c THEN mark'[d] = InFlight
                             ELSE mark'[d] = mark[d] /\ pc'[d] = pc[d]
      OBVIOUS
    <3>4. current' = current /\ runCounter' = runCounter /\ current.id <= runCounter
      BY DEF CurrentInv
    <3>5. BusyIdRecent
      OBVIOUS
    <3>6. QED
      BY ONLY <3>1, <3>2, <3>3, <3>4, <3>5 DEF BusyIdRecent
  <2>3. SingleFlight'
    BY DEF SingleFlight
  <2>4. RunIds'
    BY DEF RunIds, SingleFlight
  <2>5. StatusOwned'
    BY DEF StatusOwned, RunIds, SingleFlight, CancelInv
  <2>6. CurrentInv'
    BY DEF CurrentInv, RunIds, SingleFlight
  <2>7. CancelInv'
    BY DEF CancelInv, RunIds, StatusOwned, SingleFlight
  <2>8. EventInv'
    BY DEF EventInv, RunIds, SingleFlight
  <2>9. HistoryContiguous'
    BY DEF HistoryContiguous, LastRecorded, OpenRun, RunIds, SingleFlight
  <2>10. QED
    BY <2>1, <2>2, <2>3, <2>4, <2>5, <2>6, <2>7, <2>8, <2>9
<1>3. ASSUME NEW c \in Callers, ReturnBusy(c) PROVE SharedState'
  <2> USE <1>0, <1>3 DEF ReturnBusy, Goto, IInv, TypeOK
  <2>1. BusyIdRecent'
    BY DEF BusyIdRecent, BusyInv, InFlight, CurrentInv, RunIds, SingleFlight, StatusOwned
  <2>2. SingleFlight'
    BY DEF SingleFlight
  <2>3. RunIds'
    BY DEF RunIds, SingleFlight
  <2>4. StatusOwned'
    BY DEF StatusOwned, RunIds, SingleFlight, CancelInv
  <2>5. CurrentInv'
    BY DEF CurrentInv, RunIds, SingleFlight
  <2>6. BusyInv'
    BY DEF BusyInv, InFlight, CurrentInv, RunIds, SingleFlight
  <2>7. CancelInv'
    BY DEF CancelInv, RunIds, StatusOwned, SingleFlight
  <2>8. EventInv'
    BY DEF EventInv, RunIds, SingleFlight
  <2>9. HistoryContiguous'
    BY DEF HistoryContiguous, LastRecorded, OpenRun, RunIds, SingleFlight
  <2>10. QED
    BY <2>1, <2>2, <2>3, <2>4, <2>5, <2>6, <2>7, <2>8, <2>9
<1>4. ASSUME NEW c \in Callers, StartRun(c) PROVE SharedState'
  <2> USE <1>0, <1>4 DEF StartRun, Goto, Emit, IInv, TypeOK
  <2>1. RunIds'
    BY DEF RunIds, SingleFlight
  <2>2. CurrentInv'
    BY DEF CurrentInv, RunIds, SingleFlight
  <2>3. BusyIdRecent'
    BY DEF BusyIdRecent, BusyInv, InFlight, CurrentInv, RunIds, SingleFlight, StatusOwned
  <2>4. CancelInv'
    BY DEF CancelInv, RunIds, StatusOwned, SingleFlight
  <2>5. EventInv'
    BY DEF EventInv, RunIds, SingleFlight
  <2>6. HistoryContiguous'
    <3>1. ~ \E d \in Callers : pc[d] \in Unrecorded
      BY DEF SingleFlight
    <3>2. LastRecorded = runCounter
      BY <3>1 DEF LastRecorded, OpenRun
    <3>3. pc'[c] \in Unrecorded /\ runCounter' # 0
      OBVIOUS
    <3>4. LastRecorded' = runCounter
      BY <3>3 DEF LastRecorded, OpenRun
    <3>5. QED
      BY <3>2, <3>4 DEF HistoryContiguous
  <2>7. SingleFlight'
    BY DEF SingleFlight
  <2>8. StatusOwned'
    BY DEF StatusOwned, RunIds, SingleFlight, CancelInv
  <2>9. BusyInv'
    BY DEF BusyInv, InFlight, CurrentInv, RunIds, SingleFlight
  <2>10. QED
    BY <2>1, <2>2, <2>3, <2>4, <2>5, <2>6, <2>7, <2>8, <2>9
<1>5. ASSUME NEW c \in Callers, InstallCancel(c) PROVE SharedState'
  <2> USE <1>0, <1>5 DEF InstallCancel, Goto, IInv, TypeOK
  <2>1. StatusOwned'
    BY DEF StatusOwned, RunIds, SingleFlight, CancelInv
  <2>2. CurrentInv'
    BY DEF CurrentInv, RunIds, SingleFlight
  <2>3. CancelInv'
    BY DEF CancelInv, RunIds, StatusOwned, SingleFlight
  <2>4. SingleFlight'
    BY DEF SingleFlight
  <2>5. RunIds'
    BY DEF RunIds, SingleFlight
  <2>6. BusyInv'
    BY DEF BusyInv, InFlight, CurrentInv, RunIds, SingleFlight
  <2>7. BusyIdRecent'
    BY DEF BusyIdRecent, BusyInv, InFlight, CurrentInv, RunIds, SingleFlight, StatusOwned
  <2>8. EventInv'
    BY DEF EventInv, RunIds, SingleFlight
  <2>9. HistoryContiguous'
    BY DEF HistoryContiguous, LastRecorded, OpenRun, RunIds, SingleFlight
  <2>10. QED
    BY <2>1, <2>2, <2>3, <2>4, <2>5, <2>6, <2>7, <2>8, <2>9
<1>6. ASSUME NEW c \in Callers, SetCurrent(c) PROVE SharedState'
  <2> USE <1>0, <1>6 DEF SetCurrent, Goto, IInv, TypeOK
  <2>1. StatusOwned'
    BY DEF StatusOwned, RunIds, SingleFlight, CancelInv
  <2>2. CurrentInv'
    BY DEF CurrentInv, RunIds, SingleFlight
  <2>3. BusyInv'
    BY DEF BusyInv, InFlight, CurrentInv, RunIds, SingleFlight
  <2>4. BusyIdRecent'
    BY DEF BusyIdRecent, BusyInv, InFlight, CurrentInv, RunIds, SingleFlight, StatusOwned
  <2>5. CancelInv'
    BY DEF CancelInv, RunIds, StatusOwned, SingleFlight
  <2>6. SingleFlight'
    BY DEF SingleFlight
  <2>7. RunIds'
    BY DEF RunIds, SingleFlight
  <2>8. EventInv'
    BY DEF EventInv, RunIds, SingleFlight
  <2>9. HistoryContiguous'
    BY DEF HistoryContiguous, LastRecorded, OpenRun, RunIds, SingleFlight
  <2>10. QED
    BY <2>1, <2>2, <2>3, <2>4, <2>5, <2>6, <2>7, <2>8, <2>9
<1>7. ASSUME NEW c \in Callers, Complete(c) PROVE SharedState'
  <2> USE <1>0, <1>7 DEF Complete, Goto, Emit, IInv, TypeOK
  <2>1. EventInv'
    BY DEF EventInv, RunIds, SingleFlight
  <2>2. SingleFlight'
    BY DEF SingleFlight
  <2>3. RunIds'
    BY DEF RunIds, SingleFlight
  <2>4. StatusOwned'
    BY DEF StatusOwned, RunIds, SingleFlight, CancelInv
  <2>5. CurrentInv'
    BY DEF CurrentInv, RunIds, SingleFlight
  <2>6. BusyInv'
    BY BusyKept
  <2>7. BusyIdRecent'
    BY BusyKept
  <2>8. CancelInv'
    BY DEF CancelInv, RunIds, StatusOwned, SingleFlight
  <2>9. HistoryContiguous'
    BY DEF HistoryContiguous, LastRecorded, OpenRun, RunIds, SingleFlight
  <2>10. QED
    BY <2>1, <2>2, <2>3, <2>4, <2>5, <2>6, <2>7, <2>8, <2>9
<1>8. ASSUME NEW c \in Callers, SetFinished(c) PROVE SharedState'
  <2> USE <1>0, <1>8 DEF SetFinished, Goto, IInv, TypeOK
  <2>1. StatusOwned'
    BY DEF StatusOwned, RunIds, SingleFlight, CancelInv
  <2>2. SingleFlight'
    BY DEF SingleFlight
  <2>3. RunIds'
    BY DEF RunIds, SingleFlight
  <2>4. CurrentInv'
    BY DEF CurrentInv, RunIds, SingleFlight
  <2>5. BusyInv'
    BY BusyKept DEF Statuses
  <2>6. BusyIdRecent'
    BY BusyKept DEF Statuses
  <2>7. CancelInv'
    BY DEF CancelInv, RunIds, StatusOwned, SingleFlight
  <2>8. EventInv'
    BY DEF EventInv, RunIds, SingleFlight
  <2>9. HistoryContiguous'
    BY DEF HistoryContiguous, LastRecorded, OpenRun, RunIds, SingleFlight
  <2>10. QED
    BY <2>1, <2>2, <2>3, <2>4, <2>5, <2>6, <2>7, <2>8, <2>9
<1>9. ASSUME NEW c \in Callers, EmitFailed(c) PROVE SharedState'
  <2> USE <1>0, <1>9 DEF EmitFailed, Goto, Emit, IInv, TypeOK
  <2>1. EventInv'
    BY DEF EventInv, RunIds, SingleFlight
  <2>2. SingleFlight'
    BY DEF SingleFlight
  <2>3. RunIds'
    BY DEF RunIds, SingleFlight
  <2>4. StatusOwned'
    BY DEF StatusOwned, RunIds, SingleFlight, CancelInv
  <2>5. CurrentInv'
    BY DEF CurrentInv, RunIds, SingleFlight
  <2>6. BusyInv'
    BY BusyKept
  <2>7. BusyIdRecent'
    BY BusyKept
  <2>8. CancelInv'
    BY DEF CancelInv, RunIds, StatusOwned, SingleFlight
  <2>9. HistoryContiguous'
    BY DEF HistoryContiguous, LastRecorded, OpenRun, RunIds, SingleFlight
  <2>10. QED
    BY <2>1, <2>2, <2>3, <2>4, <2>5, <2>6, <2>7, <2>8, <2>9
<1>10. ASSUME NEW c \in Callers, Record(c) PROVE SharedState'
  <2> USE <1>0, <1>10 DEF Record, Goto, IInv, TypeOK
  <2>1. BusyIdRecent'
    BY BusyKept
  <2>2. HistoryContiguous'
    <3>1. rid[c] = runCounter /\ runCounter > 0
      BY DEF RunIds
    <3>2. LastRecorded = runCounter - 1
      <4>1. pc[c] \in Unrecorded
        OBVIOUS
      <4>2. OpenRun = runCounter
        BY <4>1 DEF OpenRun
      <4>3. QED
        BY ONLY <3>1, <4>2 DEF LastRecorded
    <3>3. ~ \E d \in Callers : pc'[d] \in Unrecorded
      BY DEF SingleFlight
    <3>4. LastRecorded' = runCounter
      BY <3>3 DEF LastRecorded, OpenRun
    <3>5. QED
      BY <3>1, <3>2, <3>4, WindowPush DEF HistoryContiguous
  <2>3. SingleFlight'
    BY DEF SingleFlight
  <2>4. RunIds'
    BY DEF RunIds, SingleFlight
  <2>5. StatusOwned'
    BY DEF StatusOwned, RunIds, SingleFlight, CancelInv
  <2>6. CurrentInv'
    BY DEF CurrentInv, RunIds, SingleFlight
  <2>7. BusyInv'
    BY BusyKept
  <2>8. CancelInv'
    BY DEF CancelInv, RunIds, StatusOwned, SingleFlight
  <2>9. EventInv'
    BY DEF EventInv, RunIds, SingleFlight
  <2>10. QED
    BY <2>1, <2>2, <2>3, <2>4, <2>5, <2>6, <2>7, <2>8, <2>9
<1>11. ASSUME NEW c \in Callers, CancelOwn(c) PROVE SharedState'
  <2> USE <1>0, <1>11 DEF CancelOwn, Goto, IInv, TypeOK
  <2>1. CancelInv'
    BY DEF CancelInv, RunIds, StatusOwned, SingleFlight
  <2>2. SingleFlight'
    BY DEF SingleFlight
  <2>3. RunIds'
    BY DEF RunIds, SingleFlight
  <2>4. StatusOwned'
    BY DEF StatusOwned, RunIds, SingleFlight, CancelInv
  <2>5. CurrentInv'
    BY DEF CurrentInv, RunIds, SingleFlight
  <2>6. BusyInv'
    BY BusyKept
  <2>7. BusyIdRecent'
    BY BusyKept
  <2>8. EventInv'
    BY DEF EventInv, RunIds, SingleFlight
  <2>9. HistoryContiguous'
    BY DEF HistoryContiguous, LastRecorded, OpenRun, RunIds, SingleFlight
  <2>10. QED
    BY <2>1, <2>2, <2>3, <2>4, <2>5, <2>6, <2>7, <2>8, <2>9
<1>12. ASSUME NEW c \in Callers, Release(c) PROVE SharedState'
  <2> USE <1>0, <1>12 DEF Release, Goto, IInv, TypeOK
  <2>1. SingleFlight'
    BY DEF SingleFlight
  <2>2. RunIds'
    BY DEF RunIds, SingleFlight
  <2>3. CancelInv'
    BY DEF CancelInv, RunIds, StatusOwned, SingleFlight
  <2>4. StatusOwned'
    BY DEF StatusOwned, RunIds, SingleFlight, CancelInv
  <2>5. CurrentInv'
    BY DEF CurrentInv, RunIds, SingleFlight
  <2>6. BusyInv'
    BY BusyKept
  <2>7. BusyIdRecent'
    BY BusyKept
  <2>8. EventInv'
    BY DEF EventInv, RunIds, SingleFlight
  <2>9. HistoryContiguous'
    BY DEF HistoryContiguous, LastRecorded, OpenRun, RunIds, SingleFlight
  <2>10. QED
    BY <2>1, <2>2, <2>3, <2>4, <2>5, <2>6, <2>7, <2>8, <2>9
<1>13. ASSUME NEW c \in Callers, LoadAll(c) PROVE SharedState'
  BY <1>0, <1>13, WorkingStep DEF LoadAll, Working
<1>14. ASSUME NEW c \in Callers, CheckCtx(c, "check1", "collecting") PROVE SharedState'
  BY <1>0, <1>14, WorkingStep DEF CheckCtx, Working
<1>15. ASSUME NEW c \in Callers, Collect(c) PROVE SharedState'
  BY <1>0, <1>15, WorkingStep DEF Collect, Working
<1>16. ASSUME NEW c \in Callers, CheckCtx(c, "check2", "policies") PROVE SharedState'
  BY <1>0, <1>16, WorkingStep DEF CheckCtx, Working
<1>17. ASSUME NEW c \in Callers, RunPolicy(c) PROVE SharedState'
  <2>1. Goto(c, "policies")
    BY <1>0, <1>17 DEF RunPolicy, Goto, TypeOK
  <2>2. QED
    BY <1>0, <1>17, <2>1, WorkingStep DEF RunPolicy, Working
<1>18. ASSUME NEW k \in Cancellers, CancelCall(k) PROVE SharedState'
  <2> USE <1>0, <1>18 DEF CancelCall, IInv, TypeOK
  <2>1. CancelInv'
    BY DEF CancelInv, RunIds, StatusOwned, SingleFlight
  <2>2. SingleFlight'
    BY DEF SingleFlight
  <2>3. RunIds'
    BY DEF RunIds, SingleFlight
  <2>4. StatusOwned'
    BY DEF StatusOwned, RunIds, SingleFlight, CancelInv
  <2>5. CurrentInv'
    BY DEF CurrentInv, RunIds, SingleFlight
  <2>6. BusyInv'
    BY BusyKept
  <2>7. BusyIdRecent'
    BY BusyKept
  <2>8. EventInv'
    BY DEF EventInv, RunIds, SingleFlight
  <2>9. HistoryContiguous'
    BY DEF HistoryContiguous, LastRecorded, OpenRun, RunIds, SingleFlight
  <2>10. QED
    BY <2>1, <2>2, <2>3, <2>4, <2>5, <2>6, <2>7, <2>8, <2>9
<1>19. ASSUME UNCHANGED <<running, runCounter, cancelFn, current, history, done, lastEvent, pc, rid, mark>> PROVE SharedState'
  <2> USE <1>0, <1>19 DEF vars, IInv, TypeOK
  <2>1. SingleFlight'
    BY DEF SingleFlight
  <2>2. RunIds'
    BY DEF RunIds, SingleFlight
  <2>3. StatusOwned'
    BY DEF StatusOwned, RunIds, SingleFlight, CancelInv
  <2>4. CurrentInv'
    BY DEF CurrentInv, RunIds, SingleFlight
  <2>5. BusyInv'
    BY BusyKept
  <2>6. BusyIdRecent'
    BY BusyKept
  <2>7. CancelInv'
    BY DEF CancelInv, RunIds, StatusOwned, SingleFlight
  <2>8. EventInv'
    BY DEF EventInv, RunIds, SingleFlight
  <2>9. HistoryContiguous'
    BY DEF HistoryContiguous, LastRecorded, OpenRun, RunIds, SingleFlight
  <2>10. QED
    BY <2>1, <2>2, <2>3, <2>4, <2>5, <2>6, <2>7, <2>8, <2>9
<1>20. SharedState'
  BY <1>1, <1>2, <1>3, <1>4, <1>5, <1>6, <1>7, <1>8, <1>9, <1>10, <1>11, <1>12, <1>13, <1>14, <1>15, <1>16, <1>17, <1>18, <1>19 DEF Next, Call, Progress, CancelLoad, CancelParents, NewParent, vars
<1>21. QED
  BY <1>0, <1>20 DEF IInv

\* Before the first trigger IInv holds.
LEMMA InvInit == Init => IInv
<1> SUFFICES ASSUME Init PROVE SharedState
  BY InitTypeOK DEF IInv
<1> USE DEF Init, InRun, HasRunID, Active, Announced, Unrecorded
<1>1. SingleFlight /\ RunIds /\ StatusOwned
  BY DEF SingleFlight, RunIds, StatusOwned
<1>2. CurrentInv /\ BusyInv /\ BusyIdRecent /\ CancelInv
  BY DEF CurrentInv, BusyInv, InFlight, BusyIdRecent, CancelInv
<1>3. EventInv
  BY DEF EventInv, NoEvent
<1>4. HistoryContiguous
  BY DEF HistoryContiguous, Window, LastRecorded, OpenRun
<1>5. QED
  BY <1>1, <1>2, <1>3, <1>4 DEF SharedState

\* IInv is an invariant of the orchestrator.
THEOREM Invariance == Spec => []IInv
<1>1. Init => IInv
  BY InvInit
<1>2. IInv /\ [Next]_vars => IInv'
  BY InvStep
<1>3. QED
  BY <1>1, <1>2, PTL DEF Spec

\* However many goroutines call Run, one at most is inside it, and o.running
\* is set exactly while one is.
THEOREM SingleFlightHolds == Spec => []SingleFlight
<1>1. IInv => SingleFlight
  BY DEF IInv, SharedState
<1>2. QED
  BY <1>1, Invariance, PTL

\* The history is always the window of the last finished runs.
THEOREM HistoryHolds == Spec => []HistoryContiguous
<1>1. IInv => HistoryContiguous
  BY DEF IInv, SharedState
<1>2. QED
  BY <1>1, Invariance, PTL

\* A run past SetCurrent owns o.current and o.cancelFn.
THEOREM StatusOwnedHolds == Spec => []StatusOwned
<1>1. IInv => StatusOwned
  BY DEF IInv, SharedState
<1>2. QED
  BY <1>1, Invariance, PTL

\* A busy caller is told the newest run id or the one before it.
THEOREM BusyIdHolds == Spec => []BusyIdRecent
<1>1. IInv => BusyIdRecent
  BY DEF IInv, SharedState
<1>2. QED
  BY <1>1, Invariance, PTL

\* Cancel and the deferred cancel() mark no run but the one in the slot.
THEOREM CancelHolds == Spec => CancelOnlyInFlight
<1> DEFINE A == \A r \in done' \ done :
                    \E c \in Callers : Active(c) /\ rid[c] = r
<1>1. IInv /\ [Next]_vars => [A]_done
  <2> SUFFICES ASSUME IInv, [Next]_vars, done' # done PROVE A
    OBVIOUS
  <2>1. \/ \E c \in Callers : CancelOwn(c)
        \/ \E k \in Cancellers : CancelCall(k)
    BY DEF Next, Call, Progress, vars, Acquire, AcquireFails, ReturnBusy,
           StartRun, InstallCancel, SetCurrent, LoadAll, CheckCtx, Collect,
           RunPolicy, Complete, SetFinished, EmitFailed, Record, Release,
           CancelLoad, CancelParents, NewParent
  <2>2. ASSUME NEW c \in Callers, CancelOwn(c) PROVE A
    BY <2>2 DEF CancelOwn, Active, InRun, HasRunID
  <2>3. ASSUME NEW k \in Cancellers, CancelCall(k) PROVE A
    BY <2>3 DEF CancelCall, IInv, SharedState, CancelInv, Active, InRun
  <2>4. QED
    BY <2>1, <2>2, <2>3
<1>2. QED
  BY <1>1, Invariance, PTL DEF Spec, CancelOnlyInFlight

\* The events of the runs follow each other without interleaving.
THEOREM EventsHold == Spec => EventsAlternate
<1> DEFINE A == \/ /\ lastEvent.type # "start"
                   /\ lastEvent' = [type |-> "start", id |-> lastEvent.id + 1]
                \/ /\ lastEvent.type = "start"
                   /\ lastEvent'.type \in {"complete", "failed"}
                   /\ lastEvent'.id = lastEvent.id
<1>1. IInv /\ [Next]_vars => [A]_lastEvent
  <2> SUFFICES ASSUME IInv, [Next]_vars, lastEvent' # lastEvent PROVE A
    OBVIOUS
  <2>1. \E c \in Callers : StartRun(c) \/ Complete(c) \/ EmitFailed(c)
    BY DEF Next, Call, Progress, vars, Acquire, AcquireFails, ReturnBusy,
           InstallCancel, SetCurrent, LoadAll, CheckCtx, Collect, RunPolicy,
           SetFinished, Record, CancelOwn, Release, CancelLoad, CancelCall,
           CancelParents, NewParent
  <2>2. ASSUME NEW c \in Callers, StartRun(c) PROVE A
    <3>1. lastEvent.type # "start"
      BY <2>2 DEF StartRun, IInv, SharedState, EventInv, SingleFlight, Active,
                  InRun, HasRunID, Announced
    <3>2. lastEvent.id = runCounter
      BY DEF IInv, SharedState, EventInv
    <3>3. QED
      BY <2>2, <3>1, <3>2 DEF StartRun, Emit
  <2>3. ASSUME NEW c \in Callers, Complete(c) \/ EmitFailed(c) PROVE A
    <3>1. lastEvent.type = "start" /\ lastEvent.id = rid[c]
      BY <2>3 DEF Complete, EmitFailed, IInv, SharedState, EventInv, RunIds,
                  HasRunID, Announced
    <3>2. QED
      BY <2>3, <3>1 DEF Complete, EmitFailed, Emit
  <2>4. QED
    BY <2>1, <2>2, <2>3
<1>2. QED
  BY <1>1, Invariance, PTL DEF Spec, EventsAlternate

-----------------------------------------------------------------------------
\* Control states of a run that has written its status and not its outcome.
Undecided == HasRunID \ {"numbered", "armed", "recordOk", "recordFailed",
                         "closing", "releasing"}

\* What o.current says once its run has come to an end: a failed run is still
\* called running, until the next run has written its own status.
Outcome ==
    IF current.running
    THEN \/ lastEvent = [type |-> "failed", id |-> current.id]
         \/ lastEvent = [type |-> "start", id |-> current.id + 1]
    ELSE current.report

\* o.current says "running" while its run is at work, and Outcome from the
\* moment the run has failed or stored its report.
OutcomeInv ==
    /\ \A c \in Callers : pc[c] \in Undecided => current.running
    /\ current.id # 0 /\ (\A c \in Callers : pc[c] \notin Undecided) => Outcome

\* Steps that touch neither the status nor the events, and do not cross the
\* border of Undecided, keep OutcomeInv.
LEMMA OutcomeKept ==
    ASSUME TypeOK, OutcomeInv, NEW c \in Callers, NEW l, Goto(c, l),
           pc[c] \in Undecided <=> l \in Undecided,
           UNCHANGED <<current, lastEvent>>
    PROVE  OutcomeInv'
<1>1. \A d \in Callers : pc'[d] \in Undecided <=> pc[d] \in Undecided
  BY DEF Goto, TypeOK
<1>2. QED
  BY <1>1 DEF OutcomeInv, Outcome

\* OutcomeInv is preserved by every step of the orchestrator.
LEMMA OutcomeStep == IInv /\ OutcomeInv /\ [Next]_vars => OutcomeInv'
<1> SUFFICES ASSUME IInv, OutcomeInv, [Next]_vars PROVE OutcomeInv'
  OBVIOUS
<1>0. TypeOK /\ SharedState
  BY DEF IInv
<1> USE DEF Undecided, HasRunID
<1>1. ASSUME NEW c \in Callers, StartRun(c) PROVE OutcomeInv'
  <2>1. \A d \in Callers : pc[d] \notin HasRunID
    BY <1>0, <1>1 DEF StartRun, SharedState, SingleFlight, Active, InRun
  <2>2. current.id = runCounter
    BY <1>0, <2>1 DEF SharedState, CurrentInv
  <2>3. \A d \in Callers : pc'[d] \notin Undecided
    BY <1>0, <1>1, <2>1 DEF StartRun, Goto, TypeOK
  <2>4. lastEvent' = [type |-> "start", id |-> current.id + 1]
    BY <1>1, <2>2 DEF StartRun, Emit
  <2>5. UNCHANGED current
    BY <1>1 DEF StartRun
  <2>6. current.id # 0 => Outcome
    BY <2>1 DEF OutcomeInv
  <2>7. QED
    BY <2>3, <2>4, <2>5, <2>6 DEF OutcomeInv, Outcome
<1>2. ASSUME NEW c \in Callers, SetCurrent(c) PROVE OutcomeInv'
  <2>1. pc'[c] \in Undecided /\ current'.running
    BY <1>0, <1>2 DEF SetCurrent, Goto, TypeOK
  <2>2. QED
    BY <2>1 DEF OutcomeInv
<1>3. ASSUME NEW c \in Callers, Complete(c) PROVE OutcomeInv'
  <2>1. pc[c] \in Undecided /\ pc'[c] \in Undecided /\ UNCHANGED current
    BY <1>0, <1>3 DEF Complete, Goto, TypeOK
  <2>2. QED
    BY <2>1 DEF OutcomeInv
<1>4. ASSUME NEW c \in Callers, SetFinished(c) PROVE OutcomeInv'
  <2>1. \A d \in Callers : pc'[d] \notin Undecided
    BY <1>0, <1>4 DEF SetFinished, Goto, TypeOK, SharedState, SingleFlight,
                      Active, InRun
  <2>2. ~current'.running /\ current'.report
    BY <1>0, <1>4 DEF SetFinished, TypeOK, Statuses
  <2>3. QED
    BY <2>1, <2>2 DEF OutcomeInv, Outcome
<1>5. ASSUME NEW c \in Callers, EmitFailed(c) PROVE OutcomeInv'
  <2>1. \A d \in Callers : pc'[d] \notin Undecided
    BY <1>0, <1>5 DEF EmitFailed, Goto, TypeOK, SharedState, SingleFlight,
                      Active, InRun
  <2>2. current.id = rid[c]
    BY <1>0, <1>5 DEF EmitFailed, SharedState, StatusOwned
  <2>3. lastEvent' = [type |-> "failed", id |-> current'.id]
    BY <1>5, <2>2 DEF EmitFailed, Emit
  <2>4. current'.running
    BY <1>5 DEF EmitFailed, OutcomeInv
  <2>5. QED
    BY <2>1, <2>3, <2>4 DEF OutcomeInv, Outcome
<1>6. ASSUME NEW c \in Callers, Acquire(c) PROVE OutcomeInv'
  BY <1>0, <1>6, OutcomeKept DEF Acquire
<1>7. ASSUME NEW c \in Callers, AcquireFails(c) PROVE OutcomeInv'
  BY <1>0, <1>7, OutcomeKept DEF AcquireFails
<1>8. ASSUME NEW c \in Callers, ReturnBusy(c) PROVE OutcomeInv'
  BY <1>0, <1>8, OutcomeKept DEF ReturnBusy
<1>9. ASSUME NEW c \in Callers, InstallCancel(c) PROVE OutcomeInv'
  BY <1>0, <1>9, OutcomeKept DEF InstallCancel
<1>10. ASSUME NEW c \in Callers, LoadAll(c) PROVE OutcomeInv'
  BY <1>0, <1>10, OutcomeKept DEF LoadAll
<1>11. ASSUME NEW c \in Callers, CheckCtx(c, "check1", "collecting")
       PROVE  OutcomeInv'
  BY <1>0, <1>11, OutcomeKept DEF CheckCtx
<1>12. ASSUME NEW c \in Callers, CheckCtx(c, "check2", "policies")
       PROVE  OutcomeInv'
  BY <1>0, <1>12, OutcomeKept DEF CheckCtx
<1>13. ASSUME NEW c \in Callers, Collect(c) PROVE OutcomeInv'
  BY <1>0, <1>13, OutcomeKept DEF Collect
<1>14. ASSUME NEW c \in Callers, Record(c) PROVE OutcomeInv'
  BY <1>0, <1>14, OutcomeKept DEF Record
<1>15. ASSUME NEW c \in Callers, CancelOwn(c) PROVE OutcomeInv'
  BY <1>0, <1>15, OutcomeKept DEF CancelOwn
<1>16. ASSUME NEW c \in Callers, Release(c) PROVE OutcomeInv'
  BY <1>0, <1>16, OutcomeKept DEF Release
<1>17. ASSUME UNCHANGED <<pc, current, lastEvent>> PROVE OutcomeInv'
  BY <1>17 DEF OutcomeInv, Outcome
<1>18. QED
  BY <1>1, <1>2, <1>3, <1>4, <1>5, <1>6, <1>7, <1>8, <1>9, <1>10, <1>11,
     <1>12, <1>13, <1>14, <1>15, <1>16, <1>17
     DEF Next, Call, Progress, RunPolicy, CancelLoad, CancelCall,
         CancelParents, NewParent, vars

\* GET /pipeline/status is wrong about a run that is over only in one way: it
\* calls a failed run running until the next run writes its status.
THEOREM StatusLagHolds == Spec => []StatusLagsOnlyFailure
<1>1. Init => OutcomeInv
  BY DEF Init, OutcomeInv, Undecided, HasRunID
<1>2. IInv /\ OutcomeInv /\ [Next]_vars => OutcomeInv'
  BY OutcomeStep
<1>3. IInv /\ OutcomeInv => StatusLagsOnlyFailure
  <2> SUFFICES ASSUME IInv, OutcomeInv, ~Owned, current.id # 0 PROVE Outcome
    BY DEF StatusLagsOnlyFailure, Outcome
  <2>1. ASSUME NEW c \in Callers, pc[c] \in Undecided PROVE FALSE
    <3>1. current.id = rid[c]
      BY <2>1 DEF IInv, SharedState, StatusOwned, Undecided
    <3>2. Active(c)
      BY <2>1 DEF Undecided, Active, InRun
    <3>3. QED
      BY <3>1, <3>2 DEF Owned
  <2>2. QED
    BY <2>1 DEF OutcomeInv
<1>4. QED
  BY <1>1, <1>2, <1>3, Invariance, PTL DEF Spec

-----------------------------------------------------------------------------
\* A step of one caller that stays on its side of the history leaves the open
\* run alone.
LEMMA OpenUnchanged ==
    ASSUME TypeOK, NEW c \in Callers, NEW l, Goto(c, l),
           pc[c] \in Unrecorded <=> l \in Unrecorded, UNCHANGED runCounter
    PROVE  UNCHANGED OpenRun
<1>1. \A d \in Callers : pc'[d] \in Unrecorded <=> pc[d] \in Unrecorded
  BY DEF Goto, TypeOK
<1>2. QED
  BY <1>1 DEF OpenRun

\* Every step of the orchestrator is a step of the ledger or leaves it alone.
LEMMA LedgerStep ==
    IInv /\ [Next]_vars => [Ledger!LNext]_(Ledger!ledgerVars)
<1> SUFFICES ASSUME IInv, [Next]_vars
             PROVE  Ledger!LNext \/ UNCHANGED <<runCounter, OpenRun, history>>
  BY DEF Ledger!ledgerVars
<1>0. TypeOK
  BY DEF IInv
<1> USE DEF Unrecorded, HasRunID
<1>1. ASSUME NEW c \in Callers, StartRun(c) PROVE Ledger!LNext
  <2>1. ~ \E d \in Callers : pc[d] \in Unrecorded
    BY <1>1 DEF StartRun, IInv, SharedState, SingleFlight, Active, InRun
  <2>2. OpenRun = 0
    BY <2>1 DEF OpenRun
  <2>3. pc'[c] \in Unrecorded
    BY <1>0, <1>1 DEF StartRun, Goto, TypeOK
  <2>4. OpenRun' = runCounter + 1
    BY <1>1, <2>3 DEF OpenRun, StartRun
  <2>5. QED
    BY <1>1, <2>2, <2>4 DEF StartRun, Ledger!LNext, Ledger!Begin
<1>2. ASSUME NEW c \in Callers, Record(c) PROVE Ledger!LNext
  <2>1. rid[c] = runCounter /\ runCounter > 0
    BY <1>2 DEF Record, IInv, SharedState, RunIds
  <2>2. OpenRun = rid[c] /\ OpenRun # 0
    <3>1. pc[c] \in Unrecorded
      BY <1>2 DEF Record
    <3>2. OpenRun = runCounter
      BY <3>1 DEF OpenRun
    <3>3. QED
      BY <1>0, <2>1, <3>2 DEF TypeOK
  <2>3. ~ \E d \in Callers : pc'[d] \in Unrecorded
    BY <1>0, <1>2 DEF Record, Goto, TypeOK, IInv, SharedState, SingleFlight,
                      Active, InRun
  <2>4. OpenRun' = 0
    BY <2>3 DEF OpenRun
  <2>5. QED
    BY <1>2, <2>2, <2>4 DEF Record, Ledger!LNext, Ledger!Enter, Ledger!Entered
<1>3. ASSUME NEW c \in Callers, Acquire(c)
      PROVE  UNCHANGED <<runCounter, OpenRun, history>>
  BY <1>0, <1>3, OpenUnchanged DEF Acquire
<1>4. ASSUME NEW c \in Callers, AcquireFails(c)
      PROVE  UNCHANGED <<runCounter, OpenRun, history>>
  BY <1>0, <1>4, OpenUnchanged DEF AcquireFails
<1>5. ASSUME NEW c \in Callers, ReturnBusy(c)
      PROVE  UNCHANGED <<runCounter, OpenRun, history>>
  BY <1>0, <1>5, OpenUnchanged DEF ReturnBusy
<1>6. ASSUME NEW c \in Callers, InstallCancel(c)
      PROVE  UNCHANGED <<runCounter, OpenRun, history>>
  BY <1>0, <1>6, OpenUnchanged DEF InstallCancel
<1>7. ASSUME NEW c \in Callers, SetCurrent(c)
      PROVE  UNCHANGED <<runCounter, OpenRun, history>>
  BY <1>0, <1>7, OpenUnchanged DEF SetCurrent
<1>8. ASSUME NEW c \in Callers, LoadAll(c)
      PROVE  UNCHANGED <<runCounter, OpenRun, history>>
  BY <1>0, <1>8, OpenUnchanged DEF LoadAll
<1>9. ASSUME NEW c \in Callers, CheckCtx(c, "check1", "collecting")
      PROVE  UNCHANGED <<runCounter, OpenRun, history>>
  BY <1>0, <1>9, OpenUnchanged DEF CheckCtx
<1>10. ASSUME NEW c \in Callers, Collect(c)
      PROVE  UNCHANGED <<runCounter, OpenRun, history>>
  BY <1>0, <1>10, OpenUnchanged DEF Collect
<1>11. ASSUME NEW c \in Callers, CheckCtx(c, "check2", "policies")
      PROVE  UNCHANGED <<runCounter, OpenRun, history>>
  BY <1>0, <1>11, OpenUnchanged DEF CheckCtx
<1>12. ASSUME NEW c \in Callers, Complete(c)
      PROVE  UNCHANGED <<runCounter, OpenRun, history>>
  BY <1>0, <1>12, OpenUnchanged DEF Complete
<1>13. ASSUME NEW c \in Callers, SetFinished(c)
      PROVE  UNCHANGED <<runCounter, OpenRun, history>>
  BY <1>0, <1>13, OpenUnchanged DEF SetFinished
<1>14. ASSUME NEW c \in Callers, EmitFailed(c)
      PROVE  UNCHANGED <<runCounter, OpenRun, history>>
  BY <1>0, <1>14, OpenUnchanged DEF EmitFailed
<1>15. ASSUME NEW c \in Callers, CancelOwn(c)
      PROVE  UNCHANGED <<runCounter, OpenRun, history>>
  BY <1>0, <1>15, OpenUnchanged DEF CancelOwn
<1>16. ASSUME NEW c \in Callers, Release(c)
      PROVE  UNCHANGED <<runCounter, OpenRun, history>>
  BY <1>0, <1>16, OpenUnchanged DEF Release
<1>17. ASSUME UNCHANGED <<runCounter, pc, history>>
      PROVE  UNCHANGED <<runCounter, OpenRun, history>>
  BY <1>17 DEF OpenRun
<1>18. QED
  BY <1>1, <1>2, <1>3, <1>4, <1>5, <1>6, <1>7, <1>8, <1>9, <1>10, <1>11, <1>12, <1>13, <1>14, <1>15, <1>16, <1>17
     DEF Next, Call, Progress, RunPolicy, CancelLoad, CancelCall, CancelParents, NewParent, vars

\* The orchestrator implements RunLedger: its runs are numbered, opened one
\* at a time and recorded once each, as a reader of RunLedger expects.
THEOREM Refinement == Spec => ImplementsLedger
<1>1. Init => Ledger!LInit
  BY DEF Init, Ledger!LInit, OpenRun, Unrecorded, HasRunID
<1>2. IInv /\ [Next]_vars => [Ledger!LNext]_(Ledger!ledgerVars)
  BY LedgerStep
<1>3. QED
  BY <1>1, <1>2, Invariance, PTL DEF Spec, ImplementsLedger, Ledger!LSpec


-----------------------------------------------------------------------------
(***************************************************************************)
(* The scheduler.  First that it drives the orchestrator only as module    *)
(* Orchestrator allows, so that the theorems above carry over; then what   *)
(* Stop promises.  SInv follows one Stop through its four steps: the cron  *)
(* it works on stays the same while s.mu is given up, and is the one in    *)
(* s.cron unless another Stop has come in between.                         *)
(***************************************************************************)
sVars == <<vars, schedVars>>

\* The cron a Stop works on: its context is cancelled first, then it starts
\* no more jobs.
WaitsInv ==
    \A u \in Controllers :
        /\ spc[u] # "idle" => waits[u] \in ctxDone
        /\ spc[u] \in {"waiting", "waited"} => waits[u] \in stopped

\* A cron exists once Start has succeeded.
CronInv == sRunning => cron > 0

\* Until two Stops meet there is at most one, it works on the cron in s.cron,
\* and every earlier cron has been stopped.
OneStop ==
    ~crossed =>
        /\ \A u, v \in Controllers :
              spc[u] # "idle" /\ spc[v] # "idle" => u = v
        /\ \A u \in Controllers : spc[u] # "idle" => sRunning /\ waits[u] = cron
        /\ 1 .. cron - 1 \subseteq stopped

SInv ==
    /\ STypeOK
    /\ WaitsInv
    /\ CronInv
    /\ OneStop
    /\ StopQuiesces
    /\ OrphanNeedsTwoStops

-----------------------------------------------------------------------------
USE SchedulerAssumption

\* Every step of the composition is a step of the orchestrator, or leaves it
\* alone.
LEMMA OrchestratorStep == [SNext]_sVars => [Next]_vars
<1> SUFFICES ASSUME [SNext]_sVars PROVE Next \/ UNCHANGED vars
  OBVIOUS
<1>1. ASSUME NEW c \in Callers, Call(c) \/ RunProgress(c) PROVE Next
  BY <1>1 DEF Next, RunProgress
<1>2. ASSUME NEW k \in Cancellers, CancelLoad(k) \/ CancelCall(k) PROVE Next
  BY <1>2 DEF Next
<1>3. ASSUME Start PROVE UNCHANGED vars
  BY <1>3 DEF Start
<1>4. ASSUME NEW c \in Ticks, Fire(c) PROVE Next
  BY <1>4 DEF Fire, Next
<1>5. ASSUME NEW c \in Ticks, NEW g \in Crons, Bind(c, g) PROVE Next
  <2>1. {c} \in SUBSET Ticks
    OBVIOUS
  <2>2. CancelParents({c}) \/ NewParent(c)
    BY <1>5 DEF Bind
  <2>3. QED
    BY <2>1, <2>2 DEF Next
<1>6. ASSUME NEW u \in Controllers, StopCancel(u) PROVE Next
  <2>1. {c \in Ticks : slot[c] = cron} \in SUBSET Ticks
    OBVIOUS
  <2>2. QED
    BY <1>6, <2>1 DEF StopCancel, Next
<1>7. ASSUME NEW u \in Controllers, StopNotRunning(u) \/ StopProgress(u)
      PROVE  UNCHANGED vars
  BY <1>7 DEF StopNotRunning, StopProgress, StopCron, StopWait, StopEnd
<1>8. CASE UNCHANGED sVars
  BY <1>8 DEF sVars
<1>9. QED
  BY <1>1, <1>2, <1>3, <1>4, <1>5, <1>6, <1>7, <1>8 DEF SNext

\* The scheduler calls Run, and cancels the contexts of its jobs, only as
\* module Orchestrator allows: whatever is proved there holds here.
THEOREM UsesOrchestratorHolds == SSpec => UsesOrchestrator
<1>1. SInit => Init
  BY DEF SInit
<1>2. [SNext]_sVars => [Next]_vars
  BY OrchestratorStep
<1>3. QED
  BY <1>1, <1>2, PTL DEF SSpec, Spec, UsesOrchestrator, sVars

\* Overlapping cron jobs, HTTP requests and Stops of the scheduler never get
\* two runs into the pipeline.
THEOREM JobsSingleFlight == SSpec => []SingleFlight
  BY UsesOrchestratorHolds, SingleFlightHolds, PTL DEF UsesOrchestrator

-----------------------------------------------------------------------------
\* A caller inside Run leaves it, or goes on; it does not touch parentDone.
LEMMA ProgressFrame ==
    ASSUME TypeOK, NEW c \in Callers, Progress(c)
    PROVE  /\ UNCHANGED parentDone
           /\ pc[c] # "idle"
           /\ \A d \in Callers : d # c => pc'[d] = pc[d]
<1> USE DEF TypeOK, Goto
<1>1. CASE ReturnBusy(c) \/ StartRun(c) \/ InstallCancel(c) \/ SetCurrent(c)
  BY <1>1 DEF ReturnBusy, StartRun, InstallCancel, SetCurrent
<1>2. CASE \/ LoadAll(c) \/ CheckCtx(c, "check1", "collecting")
           \/ Collect(c) \/ CheckCtx(c, "check2", "policies")
  BY <1>2 DEF LoadAll, CheckCtx, Collect
<1>3. CASE RunPolicy(c) \/ Complete(c) \/ SetFinished(c) \/ EmitFailed(c)
  BY <1>3 DEF RunPolicy, Complete, SetFinished, EmitFailed
<1>4. CASE Record(c) \/ CancelOwn(c) \/ Release(c)
  BY <1>4 DEF Record, CancelOwn, Release
<1>5. QED
  BY <1>1, <1>2, <1>3, <1>4 DEF Progress

\* A call of Run changes the control state of its caller only.
LEMMA CallFrame ==
    ASSUME TypeOK, NEW c \in Callers, Call(c)
    PROVE  /\ UNCHANGED parentDone
           /\ \A d \in Callers : d # c => pc'[d] = pc[d]
  BY DEF Call, Acquire, AcquireFails, TypeOK, Goto

\* A step that leaves the scheduler's variables and the contexts alone, and
\* puts no job of a stopped cron into Run, keeps the invariant.
LEMMA QuietStep ==
    ASSUME SInv, TypeOK', UNCHANGED <<parentDone, schedVars>>,
           \A d \in Ticks : slot[d] \in stopped /\ pc[d] = "idle" => pc'[d] = "idle"
    PROVE  SInv'
<1>1. STypeOK' /\ WaitsInv' /\ CronInv' /\ OneStop' /\ OrphanNeedsTwoStops'
  BY DEF SInv, STypeOK, WaitsInv, CronInv, OneStop, OrphanNeedsTwoStops,
         schedVars
<1>2. StopQuiesces'
  BY DEF SInv, StopQuiesces, Jobs, WaitsInv, schedVars
<1>3. QED
  BY <1>1, <1>2 DEF SInv

\* SInv is preserved by every step of the composition.
LEMMA SInvStep == SInv /\ [SNext]_sVars => SInv'
<1> SUFFICES ASSUME SInv, [SNext]_sVars PROVE SInv'
  OBVIOUS
<1>0. TypeOK /\ TypeOK'
  BY OrchestratorStep, TypeStep DEF SInv, STypeOK
<1> USE DEF SInv, Crons
<1>1. ASSUME NEW c \in Callers \ Ticks, Call(c), UNCHANGED schedVars
      PROVE  SInv'
  BY <1>0, <1>1, CallFrame, QuietStep DEF schedVars
<1>2. ASSUME NEW c \in Callers, RunProgress(c) PROVE SInv'
  BY <1>0, <1>2, ProgressFrame, QuietStep DEF RunProgress, schedVars
<1>3. ASSUME NEW k \in Cancellers, CancelLoad(k) \/ CancelCall(k),
             UNCHANGED schedVars
      PROVE  SInv'
  BY <1>0, <1>3, QuietStep DEF CancelLoad, CancelCall, schedVars
<1>4. ASSUME NEW c \in Ticks, Fire(c) PROVE SInv'
  BY <1>0, <1>4, CallFrame, QuietStep DEF Fire, schedVars
<1>5. ASSUME Start PROVE SInv'
  <2> USE <1>0, <1>5 DEF Start, vars
  <2>1. STypeOK'
    BY DEF STypeOK
  <2>2. WaitsInv' /\ CronInv'
    BY DEF WaitsInv, CronInv, STypeOK
  <2>3. OneStop'
    BY DEF OneStop, OrphanNeedsTwoStops, STypeOK
  <2>4. StopQuiesces'
    BY DEF StopQuiesces, Jobs
  <2>5. OrphanNeedsTwoStops'
    BY DEF OrphanNeedsTwoStops
  <2>6. QED
    BY <2>1, <2>2, <2>3, <2>4, <2>5
<1>6. ASSUME NEW c \in Ticks, NEW g \in Crons, Bind(c, g) PROVE SInv'
  <2> USE <1>0, <1>6 DEF Bind
  <2>1. STypeOK'
    BY DEF STypeOK
  <2>2. WaitsInv' /\ CronInv' /\ OneStop' /\ OrphanNeedsTwoStops'
    BY DEF WaitsInv, CronInv, OneStop, OrphanNeedsTwoStops
  <2>3. UNCHANGED pc
    BY DEF CancelParents, NewParent
  <2>4. \A u \in Controllers : spc[u] = "waited" => Jobs(waits[u])' = {}
    BY <2>3 DEF StopQuiesces, Jobs, STypeOK
  <2>5. parentDone' = IF g \in ctxDone THEN parentDone \cup {c}
                      ELSE parentDone \ {c}
    BY DEF CancelParents, NewParent
  <2>6. \A d \in Ticks : slot'[d] \in ctxDone => d \in parentDone'
    BY <2>5 DEF StopQuiesces, STypeOK
  <2>7. QED
    BY <2>1, <2>2, <2>4, <2>6 DEF StopQuiesces
<1>7. ASSUME NEW u \in Controllers, StopNotRunning(u) PROVE SInv'
  BY <1>0, <1>7, QuietStep DEF StopNotRunning, schedVars, vars
<1>8. ASSUME NEW u \in Controllers, StopCancel(u) PROVE SInv'
  <2> USE <1>0, <1>8 DEF StopCancel
  <2>1. STypeOK'
    BY DEF STypeOK, CronInv
  <2>2. WaitsInv' /\ CronInv'
    BY DEF WaitsInv, CronInv, STypeOK, Unlocked
  <2>3. OneStop'
    BY DEF OneStop, STypeOK
  <2>4. \A v \in Controllers : spc'[v] = "waited" => Jobs(waits[v])' = {}
    BY DEF StopQuiesces, Jobs, STypeOK, CancelParents
  <2>5. \A v \in Controllers : spc'[v] = "waited" => waits'[v] = waits[v]
    BY DEF STypeOK
  <2>6. \A d \in Ticks : slot'[d] \in ctxDone' => d \in parentDone'
    BY DEF StopQuiesces, CancelParents
  <2>7. StopQuiesces'
    BY <2>4, <2>5, <2>6 DEF StopQuiesces, Jobs
  <2>8. OrphanNeedsTwoStops'
    BY DEF OrphanNeedsTwoStops
  <2>9. QED
    BY <2>1, <2>2, <2>3, <2>7, <2>8
<1>9. ASSUME NEW u \in Controllers, StopCron(u) PROVE SInv'
  <2> USE <1>0, <1>9 DEF StopCron, vars
  <2>1. STypeOK'
    BY DEF STypeOK, WaitsInv
  <2>2. WaitsInv' /\ CronInv'
    BY DEF WaitsInv, CronInv, STypeOK
  <2>3. OneStop'
    BY DEF OneStop, STypeOK
  <2>4. StopQuiesces'
    BY DEF StopQuiesces, Jobs, STypeOK
  <2>5. OrphanNeedsTwoStops'
    BY DEF OrphanNeedsTwoStops
  <2>6. QED
    BY <2>1, <2>2, <2>3, <2>4, <2>5
<1>10. ASSUME NEW u \in Controllers, StopWait(u) PROVE SInv'
  <2> USE <1>0, <1>10 DEF StopWait, vars
  <2>1. STypeOK'
    BY DEF STypeOK
  <2>2. WaitsInv' /\ CronInv'
    BY DEF WaitsInv, CronInv, STypeOK
  <2>3. OneStop'
    BY DEF OneStop, STypeOK
  <2>4. StopQuiesces'
    BY DEF StopQuiesces, Jobs, STypeOK
  <2>5. OrphanNeedsTwoStops'
    BY DEF OrphanNeedsTwoStops
  <2>6. QED
    BY <2>1, <2>2, <2>3, <2>4, <2>5
<1>11. ASSUME NEW u \in Controllers, StopEnd(u) PROVE SInv'
  <2> USE <1>0, <1>11 DEF StopEnd, vars
  <2>1. STypeOK'
    <3>1. 0 \in 0 .. MaxStarts
      OBVIOUS
    <3>2. waits' \in [Controllers -> 0 .. MaxStarts]
      BY <3>1 DEF STypeOK
    <3>3. spc' \in [Controllers -> {"idle", "cancelled", "waiting", "waited"}]
      BY DEF STypeOK
    <3>4. sRunning' \in BOOLEAN
      OBVIOUS
    <3>5. QED
      BY <3>2, <3>3, <3>4 DEF STypeOK
  <2>2. WaitsInv' /\ CronInv'
    BY DEF WaitsInv, CronInv, STypeOK
  <2>3. OneStop'
    BY DEF OneStop, STypeOK
  <2>4. StopQuiesces'
    BY DEF StopQuiesces, Jobs, STypeOK
  <2>5. OrphanNeedsTwoStops'
    <3>1. ~crossed => cron \in stopped /\ 1 .. cron - 1 \subseteq stopped
      BY DEF OneStop, WaitsInv
    <3>2. QED
      BY <3>1 DEF OrphanNeedsTwoStops, STypeOK
  <2>6. QED
    BY <2>1, <2>2, <2>3, <2>4, <2>5
<1>12. CASE UNCHANGED sVars
  BY <1>0, <1>12, QuietStep DEF sVars, schedVars, vars
<1>13. QED
  BY <1>1, <1>2, <1>3, <1>4, <1>5, <1>6, <1>7, <1>8, <1>9, <1>10, <1>11,
     <1>12 DEF SNext, StopProgress

\* The strengthening of Stop's promises is an invariant of the composition.
THEOREM SInvariance == SSpec => []SInv
<1>1. SInit => SInv
  <2> SUFFICES ASSUME SInit PROVE SInv
    OBVIOUS
  <2> USE DEF SInit
  <2>1. STypeOK
    <3>1. 0 \in 0 .. MaxStarts
      OBVIOUS
    <3>2. /\ slot \in [Ticks -> 0 .. MaxStarts]
          /\ waits \in [Controllers -> 0 .. MaxStarts]
      BY <3>1
    <3>3. spc \in [Controllers -> {"idle", "cancelled", "waiting", "waited"}]
      OBVIOUS
    <3>4. QED
      BY <3>1, <3>2, <3>3, InitTypeOK DEF STypeOK
  <2>2. WaitsInv /\ CronInv /\ OneStop /\ OrphanNeedsTwoStops
    BY DEF WaitsInv, CronInv, OneStop, OrphanNeedsTwoStops
  <2>3. StopQuiesces
    BY DEF StopQuiesces
  <2>4. QED
    BY <2>1, <2>2, <2>3 DEF SInv
<1>2. SInv /\ [SNext]_sVars => SInv'
  BY SInvStep
<1>3. QED
  BY <1>1, <1>2, PTL DEF SSpec, sVars

\* Start, Stop and the jobs keep the variables of the scheduler in their types.
THEOREM STypeCorrect == SSpec => []STypeOK
  BY SInvariance, PTL DEF SInv

\* Once Stop has waited, no job of the cron it stopped is in Run, none gets
\* there again, and every job of a cancelled cron has a cancelled context.
THEOREM StopQuiescesHolds == SSpec => []StopQuiesces
  BY SInvariance, PTL DEF SInv

\* A cron that goes on starting jobs while s.running is false takes two Stops
\* that wait side by side.
THEOREM OrphanHolds == SSpec => []OrphanNeedsTwoStops
  BY SInvariance, PTL DEF SInv
=============================================================================
