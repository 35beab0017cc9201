------------------------------ MODULE Rollout ------------------------------
(***************************************************************************)
(* What a run of applyConfiguration promises a cloudspace in which nobody  *)
(* else writes, in terms of the nodes bought for each server class: first  *)
(* lost pools go, then the pools of the plan reach their size, then the    *)
(* pools it once made for other classes go, then nodes are uncordoned.     *)
(* The run may end at any point, and never goes back to an earlier phase.  *)
(***************************************************************************)
EXTENDS Naturals

CONSTANTS Classes, Nodes, MaxCount

VARIABLES
    bought,    \* by class: the number of nodes, whether the command made the
               \* pool, and how the pool is
    cordoned,  \* the unschedulable nodes
    goal,      \* the plan of the run, all zeros without one
    doomed,    \* the classes whose lost pool the run is about to delete
    phase

rollout == <<bought, cordoned, goal, doomed, phase>>

Nil     == [size |-> 0, ours |-> FALSE, status |-> "none"]
Holding == {Nil} \cup [size : 1..MaxCount, ours : BOOLEAN,
                       status : {"ok", "lost"}]
Unset   == [c \in Classes |-> 0]

InPlace == \A c \in Classes : goal[c] > 0 => bought[c].size = goal[c]
Surplus == {c \in Classes : /\ goal[c] = 0
                            /\ bought[c].size > 0
                            /\ bought[c].ours}

Init ==
    /\ bought \in [Classes -> Holding]
    /\ cordoned \in SUBSET Nodes
    /\ goal = Unset
    /\ doomed = {}
    /\ phase = "idle"

\* From here to there, or out.
Goes(from, to) == phase = from /\ phase' = to
Out == phase' = "idle" /\ goal' = Unset /\ doomed' = {}

Begin ==
    /\ Goes("idle", "begun")
    /\ goal' \in [Classes -> 0..MaxCount] \ {Unset}
    /\ UNCHANGED <<bought, cordoned, doomed>>

Look ==
    /\ phase = "begun"
    /\ doomed' = {c \in Classes : bought[c].status = "lost"}
    /\ phase' = IF doomed' = {} THEN "growing" ELSE "clearing"
    /\ UNCHANGED <<bought, cordoned, goal>>

\* A pool that was lost a moment ago goes, or its deletion fails.
Clear(c) ==
    /\ phase = "clearing"
    /\ c \in doomed
    /\ bought' \in {bought, [bought EXCEPT ![c] = Nil]}
    /\ doomed' = doomed \ {c}
    /\ phase' = IF doomed' = {} THEN "growing" ELSE "clearing"
    /\ UNCHANGED <<cordoned, goal>>

\* A class of the plan reaches its size; the run may end with that.
Grow(c) ==
    /\ phase = "growing"
    /\ goal[c] > 0
    /\ bought' = [bought EXCEPT ![c] =
                    IF @.size = 0
                    THEN [size |-> goal[c], ours |-> TRUE, status |-> "ok"]
                    ELSE [@ EXCEPT !.size = goal[c]]]
    /\ Out \/ UNCHANGED <<phase, goal, doomed>>
    /\ UNCHANGED cordoned

\* The plan is in place: only now may anything else go.
Turn ==
    /\ Goes("growing", IF Surplus = {} THEN "finishing" ELSE "retiring")
    /\ InPlace
    /\ UNCHANGED <<bought, cordoned, goal, doomed>>

Retire(c) ==
    /\ phase = "retiring"
    /\ c \in Surplus
    /\ bought' = [bought EXCEPT ![c] = Nil]
    /\ \/ Out
       \/ /\ phase' = IF Surplus = {c} THEN "finishing" ELSE "retiring"
          /\ UNCHANGED <<goal, doomed>>
    /\ UNCHANGED cordoned

Release(k) ==
    /\ phase = "finishing"
    /\ cordoned' = cordoned \ {k}
    /\ Out \/ UNCHANGED <<phase, goal, doomed>>
    /\ UNCHANGED bought

End == /\ phase # "idle"
       /\ Out
       /\ UNCHANGED <<bought, cordoned>>

Weather ==
    /\ \/ \E c \in Classes :
            /\ bought[c].size > 0
            /\ bought' = [bought EXCEPT ![c].status =
                            IF @ = "ok" THEN "lost" ELSE "ok"]
            /\ UNCHANGED cordoned
       \/ \E k \in Nodes : cordoned' = cordoned \cup {k} /\ UNCHANGED bought
    /\ UNCHANGED <<goal, doomed, phase>>

Next ==
    \/ Begin \/ Look \/ Turn \/ End \/ Weather
    \/ \E c \in Classes : Clear(c) \/ Grow(c) \/ Retire(c)
    \/ \E k \in Nodes : Release(k)

Spec == Init /\ [][Next]_rollout
=============================================================================
