------------------------------ MODULE BinPack ------------------------------
(***************************************************************************)
(* internal/scheduler, BinPacker.Pack: pods are packed on node types by    *)
(* three strategies in turn, and the cheapest packing is kept.  Memory     *)
(* stands for memory and ephemeral storage, which are treated alike; the   *)
(* order of equals under sort.Slice, which is not stable, is left open.    *)
(***************************************************************************)
EXTENDS Integers, SequencesExt

CONSTANTS
    Pods,      \* pods that may be waiting
    Types,     \* node types that may be on offer
    Needs,     \* what a pod may request: records with cpu, mem and gpu
    Caps,      \* what a node type may have, likewise
    Costs,     \* prices of node types
    Overheads  \* requests of the DaemonSet pods of a node: cpu and mem

ASSUME FiniteAssumption == IsFiniteSet(Pods) /\ IsFiniteSet(Types)
ASSUME NeedAssumption == Needs \subseteq [cpu : Nat, mem : Nat, gpu : Nat]
ASSUME CapAssumption  == Caps \subseteq [cpu : Nat \ {0}, mem : Nat \ {0}, gpu : Nat]
ASSUME CostAssumption == Costs \subseteq Nat \ {0}
ASSUME OverAssumption == Overheads \subseteq [cpu : Nat, mem : Nat]

VARIABLES
    need,      \* the requests of the waiting pods
    cap,       \* the capacities of the types on offer
    price,     \* and their prices
    overhead,  \* DaemonSetOverhead
    pods,      \* sortedPods
    types,     \* sortedNodes
    strategy,  \* the strategy that runs
    left,      \* its unassigned pods
    packed,    \* its nodes so far: type and pods
    best       \* bestResult, and whether there is one

input == <<need, cap, price, overhead>>
vars  == <<need, cap, price, overhead, pods, types, strategy, left, packed, best>>

-----------------------------------------------------------------------------
Wanted  == DOMAIN need
Offered == DOMAIN cap

Asked(P, d) == MapThenSumSet(LAMBDA p : need[p][d], P)

\* Mutant: the DaemonSet pods are forgotten.
RoomWithout(t, d) == cap[t][d]

\* What a node has left for pods: DaemonSet pods take no GPU.
Room(t, d) == IF d = "gpu" THEN cap[t][d] ELSE cap[t][d] - overhead[d]

\* Mutant: the GPUs that are left are not counted.
HasRoomNoGPUs(taken, p, t) ==
    /\ \A d \in {"cpu", "mem"} : Asked(ToSet(taken) \cup {p}, d) <= Room(t, d)
    /\ need[p].gpu <= cap[t].gpu

\* fitPodsToNode: in their order, the pods for which there is still room.
HasRoom(taken, p, t) ==
    \A d \in {"cpu", "mem", "gpu"} : Asked(ToSet(taken) \cup {p}, d) <= Room(t, d)
Taking(taken, p, t) == IF HasRoom(taken, p, t) THEN Append(taken, p) ELSE taken
Fit(seq, t) == FoldLeft(LAMBDA taken, p : Taking(taken, p, t), <<>>, seq)

\* removePods: the others, in their order.
Keeping(rest, p, assigned) == IF p \in assigned THEN rest ELSE Append(rest, p)
RemovePods(seq, assigned) ==
    FoldLeft(LAMBDA rest, p : Keeping(rest, p, assigned), <<>>, seq)

\* Mutant: types that take no pod are considered too.
UsefulAny == DOMAIN types

\* The types on which something fits.
Useful == {i \in DOMAIN types : Fit(left, types[i]) # <<>>}

\* Pods per dollar, and Utilization, compared without dividing.
Denser(i, j) ==
    Len(Fit(left, types[i])) * price[types[j]] > Len(Fit(left, types[j])) * price[types[i]]
Used(i) ==
    LET c == cap[types[i]]
        P == ToSet(Fit(left, types[i]))
    IN  Asked(P, "cpu") * c.mem + Asked(P, "mem") * c.cpu
Fuller(i, j) ==
    Used(i) * cap[types[j]].cpu * cap[types[j]].mem
        > Used(j) * cap[types[i]].cpu * cap[types[i]].mem
Better(i, j) == IF strategy = "ffd" THEN Denser(i, j) ELSE Fuller(i, j)

\* Mutant: only the most efficient type is looked at.
ChoiceFirst == {1} \cap Useful

\* The first of the types that no other beats.
Choice == {i \in Useful : \A j \in Useful \ {i} :
              ~Better(j, i) /\ (j < i => Better(i, j))}

\* packSingleLargeNode does not look at GPUs.
HoldsAll(t) == \A d \in {"cpu", "mem"} : Asked(Wanted, d) <= Room(t, d)

Node(t, P) == [type |-> t, pods |-> P]
Total(nodes) == FoldLeft(LAMBDA sum, n : sum + price[n.type], 0, nodes)

-----------------------------------------------------------------------------
Nothing == [found |-> FALSE, nodes |-> <<>>]

Init ==
    /\ \E W \in SUBSET Pods : need \in [W -> Needs]
    /\ \E S \in SUBSET Types : cap \in [S -> Caps] /\ price \in [S -> Costs]
    /\ overhead \in Overheads
    /\ pods = <<>> /\ types = <<>> /\ left = <<>> /\ packed = <<>>
    /\ strategy = "start"
    /\ best = Nothing

\* Largest pods first, by CPU and then memory.
Larger(p, q) == \/ need[p].cpu > need[q].cpu
                \/ need[p].cpu = need[q].cpu /\ need[p].mem > need[q].mem

\* Most resources per dollar first.
Cheaper(s, t) == (cap[s].cpu + cap[s].mem) * price[t] > (cap[t].cpu + cap[t].mem) * price[s]

Start ==
    /\ strategy = "start"
    /\ Wanted # {} /\ Offered # {}
    /\ pods' \in {s \in SetToSeqs(Wanted) :
                    \A i, j \in DOMAIN s : i < j => ~Larger(s[j], s[i])}
    /\ types' \in {s \in SetToSeqs(Offered) :
                    \A i, j \in DOMAIN s : i < j => ~Cheaper(s[j], s[i])}
    /\ strategy' = "ffd"
    /\ left' = pods'
    /\ UNCHANGED <<input, packed, best>>

\* No pods: an empty packing.  No types: an error.
StartTrivial ==
    /\ strategy = "start"
    /\ Wanted = {} \/ Offered = {}
    /\ best' = [found |-> Wanted = {}, nodes |-> <<>>]
    /\ strategy' = "done"
    /\ UNCHANGED <<input, pods, types, left, packed>>

NextStrategy ==
    /\ strategy' = CASE strategy = "ffd"     -> "bestfit"
                     [] strategy = "bestfit" -> "single"
                     [] strategy = "single"  -> "done"
    /\ left' = pods
    /\ packed' = <<>>
    /\ UNCHANGED <<input, pods, types>>

\* Keep a packing that is the first or cheaper than the best.
Keep(nodes) ==
    best' = IF ~best.found \/ Total(nodes) < Total(best.nodes)
            THEN [found |-> TRUE, nodes |-> nodes] ELSE best

\* Mutant: only the first of the pods is taken off the list.
PlaceKeepsRest ==
    /\ strategy \in {"ffd", "bestfit"}
    /\ \E i \in Choice :
          LET fit == Fit(left, types[i])
          IN  /\ packed' = Append(packed, Node(types[i], ToSet(fit)))
              /\ left' = Tail(left)
    /\ UNCHANGED <<input, pods, types, strategy, best>>

\* packFirstFitDecreasing and packBestFit: one more node, of the best type.
Place ==
    /\ strategy \in {"ffd", "bestfit"}
    /\ \E i \in Choice :
          LET fit == Fit(left, types[i])
          IN  /\ packed' = Append(packed, Node(types[i], ToSet(fit)))
              /\ left' = RemovePods(left, ToSet(fit))
    /\ UNCHANGED <<input, pods, types, strategy, best>>

\* Mutant: the strategy starts over.
StuckRestarts ==
    /\ strategy \in {"ffd", "bestfit"}
    /\ left # <<>> /\ Choice = {}
    /\ left' = pods /\ packed' = <<>>
    /\ UNCHANGED <<input, pods, types, strategy, best>>

\* No type takes any of the pods left: the strategy has no result.
Stuck ==
    /\ strategy \in {"ffd", "bestfit"}
    /\ left # <<>> /\ Choice = {}
    /\ NextStrategy
    /\ best' = best

Complete ==
    /\ strategy \in {"ffd", "bestfit"}
    /\ left = <<>>
    /\ Keep(packed)
    /\ NextStrategy

\* packSingleLargeNode: the first type that holds everything.
Single ==
    /\ strategy = "single"
    /\ LET holding == {i \in DOMAIN types : HoldsAll(types[i])}
       IN  IF holding = {} THEN best' = best
           ELSE Keep(<<Node(types[Min(holding)], Wanted)>>)
    /\ NextStrategy

Next == Start \/ StartTrivial \/ Place \/ Stuck \/ Complete \/ Single

Spec == Init /\ [][Next]_vars /\ WF_vars(Next)

-----------------------------------------------------------------------------
Nodes(s) == {s[i] : i \in DOMAIN s}

\* Types of the packings.
TypeOK ==
    /\ strategy \in {"start", "ffd", "bestfit", "single", "done"}
    /\ ToSet(pods) \subseteq Wanted /\ ToSet(types) \subseteq Offered
    /\ ToSet(left) \subseteq Wanted
    /\ \A n \in Nodes(packed) \cup Nodes(best.nodes) :
          n.type \in Offered /\ n.pods \subseteq Wanted /\ n.pods # {}

\* Every pod is somewhere, once: on one node or still unassigned, while a
\* strategy runs; on one node of the packing that Pack returns.
Once(nodes, P) ==
    /\ \A p \in P : \E i \in DOMAIN nodes : p \in nodes[i].pods
    /\ \A i, j \in DOMAIN nodes : i # j => nodes[i].pods \cap nodes[j].pods = {}
EveryPodOnce ==
    /\ strategy \in {"ffd", "bestfit"} =>
          /\ Once(packed, Wanted \ ToSet(left))
          /\ \A n \in Nodes(packed) : n.pods \cap ToSet(left) = {}
    /\ best.found => Once(best.nodes, Wanted)

\* No node is given more CPU or memory than it has beside its DaemonSet pods,
\* whichever strategy wins.
NoOversubscription ==
    \A n \in Nodes(packed) \cup Nodes(best.nodes), d \in {"cpu", "mem"} :
        Asked(n.pods, d) + overhead[d] <= cap[n.type][d]

\* The greedy choices lead nowhere astray: if each pod fits on some type alone,
\* Pack finds a packing.
PacksIfPossible ==
    /\ strategy = "done"
    /\ \A p \in Wanted : \E t \in Offered : Fit(<<p>>, t) # <<>>
    => best.found

\* Only packSingleLargeNode forgets the GPUs: no node is given pods that ask for
\* more of them than it has, but one that takes all the pods.
GPUsIn(n) == Asked(n.pods, "gpu") <= cap[n.type].gpu
OnlySingleOverGPUs ==
    /\ \A n \in Nodes(packed) : GPUsIn(n)
    /\ \/ \A n \in Nodes(best.nodes) : GPUsIn(n)
       \/ \E t \in Offered : best.nodes = <<Node(t, Wanted)>>

\* Each step of Pack leaves less to do: the loops of its strategies end, after
\* no more than one iteration for each pod.
ToGo == [start |-> 4, ffd |-> 3, bestfit |-> 2, single |-> 1, done |-> 0]
Todo == ToGo[strategy] * (Cardinality(Wanted) + 1) + Cardinality(ToSet(left))
LoopsEnd == [][Todo' < Todo]_<<strategy, left, packed, best>>

\* The node of packSingleLargeNode "fits all pods", GPUs included.
GPUsRespected == \A n \in Nodes(best.nodes) : GPUsIn(n)
=============================================================================
