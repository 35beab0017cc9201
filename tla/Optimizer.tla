------------------------------ MODULE Optimizer ------------------------------
(***************************************************************************)
(* internal/scheduler, CostOptimizer, and cmd/optimize, run: from pods and *)
(* a price list, through the filters and the packing of module BinPack, to *)
(* the plan that is applied.  Pack is also called directly.  Cores and Gi  *)
(* are whole here.                                                         *)
(***************************************************************************)
EXTENDS BinPack, PodNeeds

CONSTANTS
    PodSpecs,    \* pods, as records of containers
    PriceLists,  \* price lists, see PriceList
    Asks,        \* constraints, DaemonSets, and nodes to replace, see Ask
    Raised       \* prices that are rounded up from the grid, see PriceList

Market == INSTANCE PriceList WITH Split <- <<>>, MinBidPrices <- <<>>,
                                  Raised <- Raised

VARIABLES
    stage,  \* of FindOptimalConfiguration: "ask", "packing", "done", "failed"
    spec,   \* the containers of the waiting pods
    list,   \* the price list
    ask,    \* what the caller wants
    plan,   \* desiredPools, by server class
    advice  \* whether FindCheaperConfiguration advises to change the nodes

optimizer == <<stage, spec, list, ask, plan, advice>>
ovars     == <<vars, optimizer>>

Requests == [cpu : Nat, mem : Nat, gpu : Nat]
PodRecords == [main : Seq(Requests), init : Seq(Requests)]
ASSUME SpecAssumption == PodSpecs \subseteq PodRecords

ASSUME ListAssumption ==
    \A l \in PriceLists :
        /\ Market!IsPriceList(l)
        /\ \A r \in DOMAIN l : \A c \in DOMAIN l[r] : <<r, c>> \in Types

\* A caller: its constraints (maxTotal 0 for none), the DaemonSets it passes
\* on or "nil", the cost of its nodes and the threshold in percent.
AskFields == {"reqs", "maxTotal", "daemonSets", "currentCost", "threshold"}
ASSUME AskAssumption ==
    /\ Asks # {}
    /\ \A a \in Asks :
          /\ DOMAIN a = AskFields
          /\ {a.maxTotal, a.currentCost, a.threshold, a.reqs.maxPrice} \subseteq Int
          /\ a.daemonSets = "nil" \/ a.daemonSets \in Seq(PodRecords)

-----------------------------------------------------------------------------
Unused  == [count |-> 0, bid |-> 0]
Classes == {t[2] : t \in Types}
NoPlan  == [c \in Classes |-> Unused]
NoTypes == [t \in {} |-> 0]
NoOverhead == [d \in {"cpu", "mem"} |-> 0]

\* run extracts the requirements of the pods it fetched.
OptimizeInit ==
    /\ stage = "ask"
    /\ \E W \in SUBSET Pods : spec \in [W -> PodSpecs]
    /\ need = [p \in DOMAIN spec |-> GetPodRequirements(spec[p])]
    /\ list \in PriceLists /\ ask \in Asks
    /\ cap = NoTypes /\ price = NoTypes /\ overhead = NoOverhead
    /\ pods = <<>> /\ types = <<>> /\ left = <<>> /\ packed = <<>>
    /\ strategy = "start"
    /\ best = Nothing

\* Pack without the optimizer.
DirectInit ==
    /\ stage = "direct"
    /\ spec = NoTypes /\ list = NoTypes /\ ask = CHOOSE a \in Asks : TRUE
    /\ Init

OptimizerInit ==
    /\ OptimizeInit \/ DirectInit
    /\ plan = NoPlan /\ advice = FALSE

-----------------------------------------------------------------------------
(* What FindOptimalConfiguration asks the price list for.                  *)

Options == Market!Suitable(list, ask.reqs)
OptionOf(t) == CHOOSE o \in Options : <<o.region, o.type>> = t
Available == {<<o.region, o.type>> : o \in Options}

\* No price list: the error is passed on.
PricingFails ==
    /\ stage = "ask" /\ Wanted # {}
    /\ stage' = "failed"
    /\ UNCHANGED <<vars, spec, list, ask, plan, advice>>

\* The filters leave no type.
NoneAvailable ==
    /\ stage = "ask" /\ Wanted # {}
    /\ Available = {}
    /\ stage' = "failed"
    /\ UNCHANGED <<vars, spec, list, ask, plan, advice>>

\* getAvailableNodeTypes: GPU is never set.  Without DaemonSetOverhead the
\* optimizer's own packer is used.
GetAvailableNodeTypes ==
    /\ stage = "ask" /\ Wanted # {}
    /\ Available # {}
    /\ cap' = [t \in Available |-> [cpu |-> OptionOf(t).cpu,
                                    mem |-> OptionOf(t).memory, gpu |-> 0]]
    /\ price' = [t \in Available |-> OptionOf(t).price]
    /\ overhead' = IF ask.daemonSets = "nil" THEN NoOverhead
                   ELSE GetDaemonSetOverhead(ask.daemonSets)
    /\ stage' = "packing"
    /\ UNCHANGED <<need, pods, types, strategy, left, packed, best,
                   spec, list, ask, plan, advice>>

Packing == /\ stage \in {"packing", "direct"}
           /\ Next
           /\ UNCHANGED optimizer

-----------------------------------------------------------------------------
(* What becomes of the packing.                                            *)

\* Mutant: the bid of the first node of a class is kept.
PlannedFirst(pl, n) ==
    [pl EXCEPT ![n.type[2]] =
        [count |-> @.count + 1,
         bid   |-> IF @.count = 0 THEN Market!RoundBidPrice(price[n.type]) ELSE @.bid]]

\* buildNodePoolPlan: one more node of its class, wherever it is.
PlannedNode(pl, n) ==
    [pl EXCEPT ![n.type[2]] =
        [count |-> @.count + 1,
         bid   |-> IF price[n.type] > @.bid
                   THEN Market!RoundBidPrice(price[n.type]) ELSE @.bid]]

BuildNodePoolPlan(nodes) == FoldLeft(PlannedNode, NoPlan, nodes)

TooDear(nodes) == ask.maxTotal > 0 /\ Total(nodes) > ask.maxTotal

\* FindCheaperConfiguration: NaN and -Inf save nothing.
Advised(nodes) == /\ ask.currentCost > 0
                  /\ Market!Saves(ask.currentCost, Total(nodes), ask.threshold)

\* Without pods nothing is looked for, and run ends.
NoPods ==
    /\ stage = "ask" /\ Wanted = {}
    /\ stage' = "done"
    /\ advice' = Advised(<<>>)
    /\ UNCHANGED <<vars, spec, list, ask, plan>>

\* Pack failed, or its packing is too dear.
Refuse ==
    /\ stage = "packing" /\ strategy = "done"
    /\ ~best.found \/ TooDear(best.nodes)
    /\ stage' = "failed"
    /\ UNCHANGED <<vars, spec, list, ask, plan, advice>>

Conclude ==
    /\ stage = "packing" /\ strategy = "done"
    /\ best.found /\ ~TooDear(best.nodes)
    /\ stage' = "done"
    /\ plan' = BuildNodePoolPlan(best.nodes)
    /\ advice' = Advised(best.nodes)
    /\ UNCHANGED <<vars, spec, list, ask>>

OptimizerNext == \/ PricingFails \/ NoneAvailable \/ GetAvailableNodeTypes
                 \/ Packing \/ NoPods \/ Refuse \/ Conclude

OptimizerSpec == OptimizerInit /\ [][OptimizerNext]_ovars /\ WF_ovars(OptimizerNext)

-----------------------------------------------------------------------------
(* Properties.                                                             *)

\* What a pod asks of a node while it runs: its main containers together, or
\* one init container alone.
Phases(s) == {s.main} \cup {<<r>> : r \in ToSet(s.init)}

\* The DaemonSets whose overhead the packing has to leave room for.
Reported == IF ask.daemonSets = "nil" THEN <<>> ELSE ask.daemonSets

\* Containers for each pod of a set, out of one of its phases.
PhasesOf(pod) == {ph \in [DOMAIN pod -> UNION {Phases(pod[p]) : p \in DOMAIN pod}] :
                     \A p \in DOMAIN pod : ph[p] \in Phases(pod[p])}

\* At no time do the containers on a planned node, of its pods and of a pod of
\* each DaemonSet, each in whatever phase, ask for more than the listed instance
\* has (requirements.go, daemonset.go, the filters and the packing together).
PhasesFit ==
    stage \in {"packing", "done"} =>
        \A n \in Nodes(best.nodes), d \in {"cpu", "mem"} :
            LET e == list[n.type[1]][n.type[2]]
                has == IF d = "cpu" THEN e.cpu ELSE e.memory \div 4
            IN  \A ph \in PhasesOf([p \in n.pods |-> spec[p]]), run \in PhasesOf(Reported) :
                    MapThenSumSet(LAMBDA p : Summed(ph[p], d), n.pods)
                        + MapThenSumSet(LAMBDA i : Summed(run[i], d), DOMAIN run) <= has

\* No limit of the caller is exceeded by what it is given: no node is in a
\* region it did not allow, or in a category it did not name by its full name
\* or its short one (a GPU, if it named none), or above its price; the nodes
\* are not above the price in total; and new nodes are only advised if they
\* save the threshold.
LimitsKept ==
    stage = "done" =>
        /\ \A n \in Nodes(best.nodes) :
              LET e == list[n.type[1]][n.type[2]]
                  q == ask.reqs
              IN  /\ q.regions # {} => n.type[1] \in q.regions
                  /\ IF q.categories = {} THEN e.category # "GPU"
                     ELSE \E c \in q.categories : e.category \in Market!Named(c)
                  /\ q.maxPrice > 0 => e.market <= q.maxPrice /\ e.p50 <= q.maxPrice
        /\ ask.maxTotal > 0 => Total(best.nodes) <= ask.maxTotal
        /\ advice => Total(best.nodes) * 100 <= ask.currentCost * (100 - ask.threshold)

\* The plan has the nodes of the packing, class by class, although a class may
\* be in several regions; and the one bid of a class covers the price of each
\* of its nodes, lies on the grid, and is at most a step above the dearest.
PlanMatches ==
    stage = "done" =>
        \A c \in Classes :
            LET mine == {i \in DOMAIN best.nodes : best.nodes[i].type[2] = c}
                paid == {price[best.nodes[i].type] : i \in mine}
            IN  /\ plan[c].count = Cardinality(mine)
                /\ mine # {} => /\ plan[c].bid % 5 = 0
                                /\ \A x \in paid : x <= plan[c].bid
                                /\ \E x \in paid : plan[c].bid <= x + 5

\* CanFitMultiple and CanFit (requirements.go) agree with fitPodsToNode, which
\* repeats them, as long as there is no overhead.
CountsAgree ==
    strategy = "ffd" /\ packed = <<>> /\ overhead = NoOverhead =>
        \A t \in Offered :
            /\ CanFitMultiple(cap[t], [i \in DOMAIN pods |-> need[pods[i]]])
                  = Len(Fit(pods, t))
            /\ \A p \in Wanted : CanFit(cap[t], need[p]) <=> Fit(<<p>>, t) # <<>>

\* Pack returns, called by the optimizer or directly, and the optimizer answers:
\* every iteration of every strategy assigns a pod.
Answers == <>(\/ stage \in {"done", "failed"}
              \/ stage = "direct" /\ strategy = "done")
=============================================================================
