----------------------------- MODULE MCOptimizer -----------------------------
(* Instances of Optimizer, and with it of BinPack, for TLC.                *)
EXTENDS Optimizer

Vec(c, m, g) == [cpu |-> c, mem |-> m, gpu |-> g]
Containers(main, init) == [main |-> main, init |-> init]

\* Needs of (2, 1), (1, 3) and (2, 1): from one container, from an init
\* container, and from two containers and an init container.
MCSpecs == {Containers(<<Vec(2, 1, 0)>>, <<>>),
            Containers(<<Vec(1, 1, 0)>>, <<Vec(1, 3, 0)>>),
            Containers(<<Vec(1, 0, 0), Vec(0, 1, 0)>>, <<Vec(1, 1, 0), Vec(2, 0, 0)>>)}
DaemonSets == <<Containers(<<Vec(1, 0, 0)>>, <<Vec(0, 1, 0)>>)>>

\* For the direct calls of Pack.
SmallNeeds == {Vec(2, 1, 0), Vec(1, 2, 1)}
SmallCaps  == {Vec(2, 2, 0), Vec(3, 5, 1)}
SomeCosts  == {1, 3}
AnyOverhead == {NoOverhead, GetDaemonSetOverhead(DaemonSets)}

Entry(cat, cpu, gi, now, med) ==
    [named |-> TRUE, category |-> cat, cpu |-> cpu, memory |-> 4 * gi + 2,
     storage |-> 0, market |-> now, p50 |-> med]

\* The class a is another machine in another region; a GPU is the cheapest; the
\* dear b is on the grid, where floats raise it.
MCLists ==
    {[ra |-> [a |-> Entry("General Purpose", 2, 2, 3, 4)],
      rb |-> [a |-> Entry("General Purpose", 2, 5, 12, 7),
              b |-> Entry("GPU", 9, 9, 1, 1)]],
     [ra |-> [a |-> Entry("Compute Heavy", 3, 5, 4, 6),
              b |-> Entry("General Purpose", 5, 7, 8, 35)]]}
MCRaised == {35}

\* Pack is called directly with up to two types.
MCInit == /\ OptimizerInit
          /\ stage = "direct" => DOMAIN cap \subseteq {<<"ra", "a">>, <<"rb", "b">>}
MCSpec == MCInit /\ [][OptimizerNext]_ovars /\ WF_ovars(OptimizerNext)

MCTypes == {<<"ra", "a">>, <<"rb", "a">>, <<"ra", "b">>, <<"rb", "b">>}

Reqs(regions, categories, max) ==
    [cpu |-> 0, memory |-> 0, regions |-> regions, categories |-> categories,
     maxPrice |-> max]
Ask(reqs, total, sets, cost) ==
    [reqs |-> reqs, maxTotal |-> total, daemonSets |-> sets,
     currentCost |-> cost, threshold |-> 20]

MCAsks == {Ask(Reqs({}, {}, 0), 0, "nil", 0),
           Ask(Reqs({"ra"}, {"gp", "ch"}, 10), 12, "nil", 30),
           Ask(Reqs({}, {"mh"}, 0), 0, "nil", 30),
           Ask(Reqs({}, {"gp"}, 0), 0, DaemonSets, 20)}
=============================================================================
