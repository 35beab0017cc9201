----------------------------- MODULE NodeCounts -----------------------------
(***************************************************************************)
(* What spot.Client promises its callers, in terms of pool sizes only: a   *)
(* call takes effect at most once, at one moment between its start and its *)
(* return.  The effect is one node more in a pool of the class, one node   *)
(* less in the pool, or the size asked for.  A call that returns without   *)
(* having taken effect returns an error.                                   *)
(***************************************************************************)
EXTENDS Naturals

CONSTANTS Callers, Classes, Names, ClassOf, Operations, Idle

VARIABLES
    size,   \* the number of nodes asked of each pool, 0 without a pool
    op,     \* the operation of each caller
    phase   \* how far it is

counts == <<size, op, phase>>

Init ==
    /\ size \in [Names -> Nat]
    /\ op = [p \in Callers |-> Idle]
    /\ phase = [p \in Callers |-> "idle"]

Enter(p, from, to) ==
    /\ phase[p] = from
    /\ phase' = [phase EXCEPT ![p] = to]

Ask(p) ==
    /\ Enter(p, "idle", "asked")
    /\ op'[p] \in Operations
    /\ op' = [op EXCEPT ![p] = op'[p]]
    /\ size' = size

\* One node more, in one pool of the class.
Grow(p) ==
    /\ op[p].kind = "create"
    /\ \E n \in Names : /\ ClassOf[n] = op[p].class
                        /\ size' = [size EXCEPT ![n] = size[n] + 1]

\* One node less, unless there is none.
Shrink(p) ==
    /\ op[p].kind = "delete"
    /\ LET n == op[p].name
       IN  size' = [size EXCEPT ![n] = IF size[n] = 0 THEN 0 ELSE size[n] - 1]

Resize(p) ==
    /\ op[p].kind \in {"scale", "update"}
    /\ size' = [size EXCEPT ![op[p].name] = op[p].count]

Look(p) == op[p].kind = "list" /\ size' = size

TakeEffect(p) ==
    /\ Enter(p, "asked", "done")
    /\ Grow(p) \/ Shrink(p) \/ Resize(p) \/ Look(p)
    /\ op' = op

Fail(p) ==
    /\ Enter(p, "asked", "failed")
    /\ UNCHANGED <<size, op>>

Return(p) ==
    /\ Enter(p, "done", "idle") \/ Enter(p, "failed", "idle")
    /\ op' = [op EXCEPT ![p] = Idle]
    /\ size' = size

Next == \E p \in Callers : Ask(p) \/ TakeEffect(p) \/ Fail(p) \/ Return(p)

Spec == Init /\ [][Next]_counts
=============================================================================
