------------------------------ MODULE SoleRun ------------------------------
(***************************************************************************)
(* A run of cmd/optimize that does not overlap with another one, in a      *)
(* cloudspace where each server class has at most one pool: the abstract   *)
(* rollout it implements.                                                  *)
(***************************************************************************)
EXTENDS ApplyPlan

Sole == CHOOSE r \in Runners : TRUE

PhaseOf(label) ==
    CASE label = "list"                              -> "begun"
      [] label = "cleanup"                           -> "clearing"
      [] label \in {"relist", "provision", "submit"} -> "growing"
      [] label \in {"sleep", "delete"}               -> "retiring"
      [] label \in {"uncordon", "nodes"}             -> "finishing"
      [] label \in Ended                             -> "idle"

\* A dry run is not a rollout.
Rolling == Active(Sole) /\ ~job[Sole].dry

Nil == [size |-> 0, ours |-> FALSE, status |-> "none"]
Holding(pool) == [size |-> pool.desired, ours |-> pool.managed,
                  status |-> pool.status]

\* What the pools p hold of each class: the pool of the class, if there is one.
Bought(p) == [c \in Classes |->
    LET of == {n \in Names : p[n].status # "none" /\ p[n].class = c}
    IN  IF of = {} THEN Nil ELSE Holding(p[CHOOSE n \in of : TRUE])]

Goal   == IF Rolling THEN job[Sole].plan ELSE [c \in Classes |-> 0]
Doomed == IF Rolling THEN {pools[n].class : n \in mem[Sole].lost} ELSE {}
Phase  == IF Rolling THEN PhaseOf(pc[Sole]) ELSE "idle"

Promise == INSTANCE Rollout WITH bought <- Bought(pools), goal <- Goal,
                                 doomed <- Doomed, phase <- Phase

\* A run on its own carries the plan out as a rollout: it clears, grows,
\* retires and releases in this order and never back, retires only what it
\* made for other classes and only with the whole plan in place, and may break
\* off anywhere.  (Abstracts from names, bids, retries and answers.)
KeepsPromise == Promise!Spec

-----------------------------------------------------------------------------
(* What the proofs add to SoleInv.                                         *)

Classed == \A n \in Names : Live(n) =>
              pools[n].class \in Classes /\ pools[n].desired > 0

\* What is still to do belongs to the plan, or was lost a moment ago.
TodoKnown(r) ==
    /\ mem[r].todo \subseteq Planned(r)
    /\ \A n \in mem[r].lost : pc[r] = "cleanup" /\ Live(n)

\* The listing knows the pools outside the plan.
OutsideKnown(r) ==
    pc[r] \in {"provision", "submit"} =>
        \A c \in Classes \ Planned(r) :
            \/ /\ mem[r].seen[c].name = None
               /\ \A n \in Names : Live(n) => pools[n].class # c
            \/ /\ mem[r].seen[c].name # None
               /\ Live(mem[r].seen[c].name)

\* What is to be retired is just what the plan has no use for.
StaleExact(r) ==
    Retiring(r) /\ ~job[r].dry =>
        mem[r].stale = {n \in Names : /\ Live(n)
                                      /\ pools[n].managed
                                      /\ pools[n].class \notin Planned(r)}

SurplusKnown(r) == TodoKnown(r) /\ OutsideKnown(r) /\ StaleExact(r)

SurplusInv == Classed /\ \A r \in Runners : SurplusKnown(r)
=============================================================================
