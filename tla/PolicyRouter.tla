---------------------------- MODULE PolicyRouter ----------------------------
(***************************************************************************)
(* internal/routing: ApplyPolicy of one policy, through CompositeRouter,   *)
(* onto the iproute2 or the nftables backend.                              *)
(*                                                                         *)
(* ApplyPolicy loads the policy's state file, computes the difference from *)
(* it (never from the kernel), issues one external command after the other *)
(* and saves the state file at the end.  The orchestrator applies policies *)
(* one at a time, and validation gives every policy a table and sets of    *)
(* its own, so one policy is the whole story.  A []netip.Prefix is a list  *)
(* in which a prefix may repeat: only its number of occurrences matters.   *)
(*                                                                         *)
(* The ip and nft commands are external: `ip route add` fails when the     *)
(* route exists, `ip route del` when it does not, an nft command is one    *)
(* transaction, and any command can fail, or be killed when the context is *)
(* cancelled, before or after the kernel has carried it out.               *)
(***************************************************************************)
EXTENDS Integers

CONSTANTS
    V4, V6,           \* prefixes of each address family
    MaxCopies,        \* bound: occurrences of one prefix in a list
    Backends,         \* subset of {"iproute2", "nftables"}
    Faults            \* subset of {"command", "read", "crash", "reboot"}

ASSUME RouterAssumption ==
    /\ V4 \cap V6 = {}
    /\ MaxCopies \in Nat
    /\ Backends \subseteq {"iproute2", "nftables"}

AllPrefixes == V4 \cup V6
Lists == [AllPrefixes -> 0..MaxCopies]

Support(l) == {p \in AllPrefixes : l[p] > 0}

EmptyList == [p \in AllPrefixes |-> 0]

Of(f) == IF f = "v4" THEN V4 ELSE V6

VARIABLES
    backend,          \* policy.Backend in the published configuration
    kernel,           \* prefixes in the policy's table (iproute2), sets (nftables)
    file,             \* the state file: v4_prefixes and v6_prefixes
    op, fam,          \* where ApplyPolicy is, and in which family
    want,             \* its arguments v4, v6
    read,             \* what loadPolicyState gave it
    plan,             \* what is left of its plans
    result,           \* outcome of the last ApplyPolicy
    base              \* auxiliary: kernel[backend] when it was called

vars == <<backend, kernel, file, op, fam, want, read, plan, result, base>>

-----------------------------------------------------------------------------
\* Mutant: replace everything instead of applying the difference.
buildPlanReplace(current, desired) ==
    [add |-> desired, remove |-> current]

\* Both loops run over a list, not over the set built from the other one, so
\* the plan repeats what the list repeats.
buildPlan(current, desired) ==
    [add    |-> [p \in AllPrefixes |-> IF current[p] = 0 THEN desired[p] ELSE 0],
     remove |-> [p \in AllPrefixes |-> IF desired[p] = 0 THEN current[p] ELSE 0]]

NoPlan == [add |-> EmptyList, remove |-> EmptyList]

Init ==
    /\ backend \in Backends
    /\ kernel = [b \in Backends |-> {}]
    /\ file = EmptyList
    /\ op = "idle"
    /\ fam = "v4"
    /\ want = EmptyList
    /\ read = EmptyList
    /\ plan = NoPlan
    /\ result = "none"
    /\ base = {}

\* An edit of the policy.  A run works on the snapshot it began with.
Reconfigure ==
    /\ op = "idle"
    /\ backend' \in Backends \ {backend}
    /\ UNCHANGED <<kernel, file, op, fam, want, read, plan, result, base>>

\* Both backends start alike.  `state, _ := loadPolicyState`: a file that
\* cannot be read or parsed counts as an empty one.
ApplyPolicy(l) ==
    /\ op = "idle"
    /\ read' \in {file} \cup (IF "read" \in Faults THEN {EmptyList} ELSE {})
    /\ want' = l
    /\ plan' = buildPlan(read', l)
    /\ op' = IF backend = "iproute2" THEN "del" ELSE "flush"
    /\ fam' = "v4"
    /\ base' = kernel[backend]
    /\ UNCHANGED <<backend, kernel, file, result>>

\* What ApplyPolicy held is gone; the kernel and the file stay.
Leave(outcome) ==
    /\ op' = "idle"
    /\ fam' = "v4"
    /\ want' = EmptyList
    /\ read' = EmptyList
    /\ plan' = NoPlan
    /\ base' = {}
    /\ result' = outcome

SetKernel(ps) == kernel' = [kernel EXCEPT ![backend] = ps]

\* From the end of one family to the next, or to the state file.
NextFamily(first) ==
    /\ op' = IF fam = "v4" THEN first ELSE "save"
    /\ fam' = "v6"

-----------------------------------------------------------------------------
(* iproute2PolicyRouter.applyFamily: one command per route, del before add *)

RouteDel(p) ==
    /\ op = "del"
    /\ p \in Of(fam)
    /\ plan.remove[p] > 0
    /\ p \in kernel[backend]
    /\ SetKernel(kernel[backend] \ {p})
    /\ plan' = [plan EXCEPT !.remove[p] = @ - 1]
    /\ UNCHANGED <<backend, file, op, fam, want, read, result, base>>

DelDone ==
    /\ op = "del"
    /\ \A p \in Of(fam) : plan.remove[p] = 0
    /\ op' = "add"
    /\ UNCHANGED <<backend, kernel, file, fam, want, read, plan, result, base>>

RouteAdd(p) ==
    /\ op = "add"
    /\ p \in Of(fam)
    /\ plan.add[p] > 0
    /\ p \notin kernel[backend]
    /\ SetKernel(kernel[backend] \cup {p})
    /\ plan' = [plan EXCEPT !.add[p] = @ - 1]
    /\ UNCHANGED <<backend, file, op, fam, want, read, result, base>>

AddDone ==
    /\ op = "add"
    /\ \A p \in Of(fam) : plan.add[p] = 0
    /\ NextFamily("del")
    /\ UNCHANGED <<backend, kernel, file, want, read, plan, result, base>>

-----------------------------------------------------------------------------
(* nftPolicyRouter.applySet: flush the set, then one command for plan.Add *)

\* Mutant: nothing to add, nothing done.
FlushSetIfAdding ==
    /\ op = "flush"
    /\ IF \A p \in Of(fam) : plan.add[p] = 0
       THEN NextFamily("flush") /\ UNCHANGED kernel
       ELSE /\ op' = "elem" /\ UNCHANGED fam
            /\ SetKernel(kernel[backend] \ Of(fam))
    /\ UNCHANGED <<backend, file, want, read, plan, result, base>>

FlushSet ==
    /\ op = "flush"
    /\ SetKernel(kernel[backend] \ Of(fam))
    /\ IF \A p \in Of(fam) : plan.add[p] = 0
       THEN NextFamily("flush")
       ELSE op' = "elem" /\ UNCHANGED fam
    /\ UNCHANGED <<backend, file, want, read, plan, result, base>>

AddElements ==
    /\ op = "elem"
    /\ SetKernel(kernel[backend] \cup (Of(fam) \cap Support(plan.add)))
    /\ NextFamily("flush")
    /\ UNCHANGED <<backend, file, want, read, plan, result, base>>

-----------------------------------------------------------------------------
(* The end, and the ways not to get there *)

\* Mutant: the state loaded at the start is saved again.
SaveLoadedState ==
    /\ op = "save"
    /\ file' = read
    /\ Leave("nil")
    /\ UNCHANGED <<backend, kernel>>

\* savePolicyState replaces the file (temporary file and rename), or fails
\* and leaves the old one.
SavePolicyState ==
    /\ op = "save"
    /\ \/ file' = want /\ Leave("nil")
       \/ "command" \in Faults /\ UNCHANGED file /\ Leave("err")
    /\ UNCHANGED <<backend, kernel>>

\* What the command in progress may have done to the kernel although
\* ApplyPolicy does not live to see it succeed.
MaybeDone ==
    {kernel[backend]} \cup
    CASE op = "del"   -> {kernel[backend] \ {p} :
                             p \in {q \in Of(fam) : plan.remove[q] > 0}}
      [] op = "add"   -> {kernel[backend] \cup {p} :
                             p \in {q \in Of(fam) : plan.add[q] > 0}}
      [] op = "flush" -> {kernel[backend] \ Of(fam)}
      [] op = "elem"  -> {kernel[backend] \cup (Of(fam) \cap Support(plan.add))}
      [] OTHER        -> {}

\* A command is due: there is a route left to delete or add, or a set to change.
CommandDue ==
    \/ op = "del" /\ \E p \in Of(fam) : plan.remove[p] > 0
    \/ op = "add" /\ \E p \in Of(fam) : plan.add[p] > 0
    \/ op \in {"flush", "elem"}

\* The first command that fails ends ApplyPolicy.  EEXIST and ESRCH happen
\* with or without the "command" fault.
CommandFails ==
    /\ CommandDue
    /\ \/ /\ "command" \in Faults
          /\ \E ps \in MaybeDone : SetKernel(ps)
       \/ /\ \/ op = "del" /\ \E p \in Of(fam) \ kernel[backend] : plan.remove[p] > 0
             \/ op = "add" /\ \E p \in Of(fam) \cap kernel[backend] : plan.add[p] > 0
          /\ UNCHANGED kernel
    /\ Leave("err")
    /\ UNCHANGED <<backend, file>>

\* The process dies; kernel and file survive.
Crash ==
    /\ "crash" \in Faults
    /\ op # "idle"
    /\ \E ps \in MaybeDone : SetKernel(ps)
    /\ Leave("none")
    /\ UNCHANGED <<backend, file>>

\* The host restarts: routes and sets are gone, the file is not.
Reboot ==
    /\ "reboot" \in Faults
    /\ kernel' = [b \in Backends |-> {}]
    /\ Leave("none")
    /\ UNCHANGED <<backend, file>>

Next ==
    \/ Reconfigure
    \/ \E l \in Lists : ApplyPolicy(l)
    \/ \E p \in AllPrefixes : RouteDel(p) \/ RouteAdd(p)
    \/ DelDone
    \/ AddDone
    \/ FlushSet
    \/ AddElements
    \/ SavePolicyState
    \/ CommandFails
    \/ Crash
    \/ Reboot

Spec == Init /\ [][Next]_vars
-----------------------------------------------------------------------------
(* Properties *)

\* Every variable has its type; in particular no plan counts below zero.
TypeOK ==
    /\ backend \in Backends
    /\ kernel \in [Backends -> SUBSET AllPrefixes]
    /\ file \in Lists
    /\ op \in {"idle", "del", "add", "flush", "elem", "save"}
    /\ fam \in {"v4", "v6"}
    /\ want \in Lists
    /\ read \in Lists
    /\ plan \in [add : Lists, remove : Lists]
    /\ result \in {"none", "nil", "err"}
    /\ base \subseteq AllPrefixes

\* ApplyPolicy returns nil in this step.
Succeeds == op = "save" /\ op' = "idle" /\ result' = "nil"

\* What a state file and a kernel table disagree about.
Drift(l, ps) == (Support(l) \ ps) \cup (ps \ Support(l))

\* An iproute2 apply that returns nil adds no disagreement between record and
\* kernel to what there was: if the record was right it is right again, for
\* every list, those with repeated prefixes included, and a wrong record (crash,
\* failed command, reboot) becomes no worse.  That it also becomes no better,
\* where docs/PIPELINE.md promises an apply computed "from on-disk reality", is
\* not claimed: an apply that repaired the routes would satisfy this too.
NoNewDrift ==
    [][Succeeds /\ backend = "iproute2" =>
          Drift(file', kernel'[backend]) \subseteq Drift(read, base)]_vars

\* While an iproute2 apply is under way, and whatever ends it, it has touched
\* no route that is in both lists or in neither: traffic of a prefix that
\* stays in the policy is never interrupted, not even by a failed apply.
CommonUntouched ==
    op # "idle" /\ backend = "iproute2" =>
        \A p \in AllPrefixes :
            (read[p] > 0 <=> want[p] > 0) =>
                (p \in kernel[backend] <=> p \in base)

\* After a successful nftables apply the sets hold no prefix outside the
\* policy, whatever was in them and whatever the state file said: the flush
\* makes even a wrong record harmless in this direction.
FlushDropsStale ==
    [][Succeeds /\ backend = "nftables" =>
          kernel'[backend] \subseteq Support(want)]_vars

\* "Idempotent: re-running with no changes produces zero writes": applying
\* the recorded list again leaves the kernel as it was.
ReapplyIdempotent ==
    [][Succeeds /\ read = want => kernel'[backend] = base]_vars
=============================================================================
