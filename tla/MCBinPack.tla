----------------------------- MODULE MCBinPack -----------------------------
(* Instances of BinPack for TLC.                                           *)
EXTENDS BinPack

Vec(c, m, g) == [cpu |-> c, mem |-> m, gpu |-> g]

SmallNeeds == {Vec(2, 1, 0), Vec(1, 3, 0)}
SmallCaps  == {Vec(2, 2, 0), Vec(3, 5, 0)}
GPUNeeds   == {Vec(1, 1, 1)}
GPUCaps    == {Vec(2, 2, 0)}
SomeCosts  == {1, 3}
NoOverhead == {[cpu |-> 0, mem |-> 0]}
AnyOverhead == {[cpu |-> 0, mem |-> 0], [cpu |-> 1, mem |-> 1]}
=============================================================================
