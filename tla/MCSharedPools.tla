---------------------------- MODULE MCSharedPools ----------------------------
(* An instance of SharedPools for TLC.                                     *)
EXTENDS SharedPools, TLC

MCPrices  == [c \in Classes |-> {1, 5}]
ApplyOnly == {[dry |-> FALSE, delay |-> TRUE]}
SymmetricRuns == Permutations(Names) \cup Permutations(Runners)
TidyInit == SharedInit /\ OnePoolPerClass
TidySpec == TidyInit /\ [][SharedNext]_sharedVars
=============================================================================
