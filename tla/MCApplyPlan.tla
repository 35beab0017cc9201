----------------------------- MODULE MCApplyPlan -----------------------------
(* Instances of ApplyPlan for TLC.                                         *)
EXTENDS SoleRun, TLC

\* One class has two prices off the grid and, between them, one on it that floats
\* raise: its bid may be refused, raised, and refused again when the minimum has
\* moved.  The other one has a single price, below the first grid point.
Moving    == CHOOSE c \in Classes : TRUE
MCPrices  == [c \in Classes |-> IF c = Moving THEN {12, 35, 41} ELSE {3}]
MCOneBid  == [c \in Classes |-> {5}]
MCRaised  == {35}

\* A dry run ends before the delay would matter.
SomeModes == {[dry |-> FALSE, delay |-> TRUE], [dry |-> FALSE, delay |-> FALSE],
              [dry |-> TRUE, delay |-> TRUE]}
ApplyOnly == {[dry |-> FALSE, delay |-> TRUE]}

SymmetricRuns == Permutations(Names) \cup Permutations(Classes)
                   \cup Permutations(Runners)

\* A cloudspace in which each class has at most one pool.
TidyInit     == Init /\ OnePoolPerClass
TidySpec     == TidyInit /\ [][Next]_vars
TidyFairSpec == TidySpec /\ \A r \in Runners : WF_vars(SpotStep(r))
=============================================================================
