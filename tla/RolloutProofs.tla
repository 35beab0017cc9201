---------------------------- MODULE RolloutProofs ----------------------------
(***************************************************************************)
(* Theorems about ApplyPlan when runs do not overlap: they are false of    *)
(* overlapping runs, for which the listing of a run is no longer current.  *)
(* Such a run implements Rollout, and leaves no pool of an unused class    *)
(* behind.                                                                 *)
(***************************************************************************)
EXTENDS ApplyPlanProofs, SoleRun

\* The pools a step leaves alone for the purposes of a sole run.
Steady == \A n \in Names : /\ Live(n)' <=> Live(n)
                           /\ pools'[n].class = pools[n].class
                           /\ pools'[n].desired = pools[n].desired

LEMMA SteadyKeeps ==
    ASSUME Steady, NEW r \in Runners, NEW c \in Classes, job'[r] = job[r],
           Provisioned(r, c)
    PROVE  Provisioned(r, c)'
  BY DEF Steady, Provisioned

LEMMA SteadySole ==
    ASSUME TypeOK, Steady, NEW r \in Runners, ListingCurrent(r), ProgressKept(r),
           SeenOK(r), pc'[r] = pc[r], job'[r] = job[r],
           mem'[r].todo = mem[r].todo, mem'[r].seen = mem[r].seen
    PROVE  ListingCurrent(r)' /\ ProgressKept(r)'
<1>1. \A c \in Classes : mem[r].seen[c].name # None =>
          mem[r].seen[c].name \in Names
  BY FieldTypes DEF SeenOK, TypeOK
<1>2. mem[r].todo \subseteq Classes
  BY FieldTypes DEF TypeOK
<1>3. ListingCurrent(r)'
  BY <1>1, <1>2 DEF ListingCurrent, Steady
<1>4. ProgressKept(r)'
  BY SteadyKeeps DEF ProgressKept, Planned, Retiring
<1> QED
  BY <1>3, <1>4

LEMMA SameSteady == ASSUME pools' = pools PROVE Steady
  BY DEF Steady, Live

\* Landing a request of the sole run provisions its class and disturbs no other.
LEMMA LandedSole ==
    ASSUME TypeOK, CallOK, SnapshotInv, NEW r \in Runners, pc[r] = "submit",
           Admissible(r), pools' = Landed(r)
    PROVE  LET x == mem[r].call.name
               c == mem[r].call.class
           IN  /\ x \in Names /\ c \in Classes
               /\ pools'[x].status # "none" /\ pools'[x].class = c
               /\ pools'[x].desired = job[r].plan[c]
               /\ Live(x) => pools[x].class = c
               /\ Creates(r) => ~Live(x)
               /\ ~Creates(r) => Live(x)
               /\ \A n \in Names \ {x} : pools'[n] = pools[n]
<1> DEFINE x == mem[r].call.name
           c == mem[r].call.class
<1>1. x \in Names /\ c \in Classes /\ pools \in [Names -> Pool]
  BY DEF CallOK, TypeOK
<1>2. \A n \in Names \ {x} : pools'[n] = pools[n]
  BY <1>1 DEF Landed
<1>3. CASE Creates(r)
  <2>1. ~Live(x)
    BY <1>3 DEF SnapshotInv, CreateOK
  <2>2. pools'[x] = [class |-> c, desired |-> job[r].plan[c],
                     managed |-> TRUE, status |-> "ok"]
    BY <1>1, <1>3 DEF Landed
  <2>3. /\ pools'[x].class = c /\ pools'[x].desired = job[r].plan[c]
        /\ pools'[x].status = "ok"
    BY <2>2
  <2> QED
    BY <1>1, <1>2, <1>3, <2>1, <2>3
<1>4. CASE ~Creates(r)
  <2>1. x = mem[r].seen[c].name /\ x # None
    BY <1>4 DEF SnapshotInv, CreateOK, Creates
  <2>2. Live(x) /\ pools[x].class = c
    BY <1>1, <1>4, <2>1 DEF SnapshotInv, SeenOK, Admissible
  <2>3. pools'[x] = [pools[x] EXCEPT !.desired = job[r].plan[c]]
    BY <1>1, <1>4 DEF Landed
  <2>4. /\ pools'[x].class = pools[x].class
        /\ pools'[x].status = pools[x].status
        /\ pools'[x].desired = job[r].plan[c]
    BY <1>1, <2>3 DEF Pool
  <2>5. pools'[x].status # "none" /\ pools'[x].class = c
    BY <2>2, <2>4 DEF Live
  <2> QED
    BY <1>1, <1>2, <1>4, <2>2, <2>4, <2>5
<1> QED
  BY <1>3, <1>4

LEMMA StepSole ==
    ASSUME TypeOK, CallOK, SnapshotInv, NEW r \in Runners, Step(r),
           ListingCurrent(r), ProgressKept(r)
    PROVE  ListingCurrent(r)' /\ ProgressKept(r)'
<1> USE DEF Goto, GiveUp, cloud
<1> DEFINE m == mem[r]
<1>a. /\ pools \in [Names -> Pool] /\ job[r] \in Job /\ m \in Memory
      /\ pc \in [Runners -> Labels] /\ mem \in [Runners -> Memory]
  BY DEF TypeOK
<1>b. m.seen \in [Classes -> Seen] /\ m.todo \in SUBSET Classes
  BY <1>a, FieldTypes
<1>c. SeenOK(r) /\ StaleOK(r) /\ CreateOK(r) /\ PhaseOK(r)
  BY DEF SnapshotInv
<1>d. job' = job
  BY DEF Step, SpotStep, NodeStep, ListPools, DeleteLost, RelistPools, ListError, SkipClass,
         PrepareUpdate, PrepareCreate, CallAccepted, BidRejected, CallError,
         CollectStale, Wake, DeleteStale, DeleteError, ListNodes,
         ListNodesError, UncordonNode
<1>1. CASE \/ ListPools(r) \/ DeleteLost(r) \/ ListError(r) \/ CallError(r)
           \/ DeleteError(r)
  <2>1. pc'[r] \in {"relist", "cleanup", "failed"}
    BY <1>1, <1>a DEF ListPools, DeleteLost, ListError, CallError, DeleteError
  <2> QED
    BY <2>1 DEF ListingCurrent, ProgressKept, Retiring
<1>2. CASE RelistPools(r)
  <2>1. PICK last \in [Classes -> Names \cup {None}] :
          /\ \A c \in Classes : IF OfClass(c) = {} THEN last[c] = None
                                ELSE last[c] \in OfClass(c)
          /\ mem' = [mem EXCEPT ![r] = [m EXCEPT
                !.listed = {n \in Names : Live(n)},
                !.todo = Planned(r),
                !.seen = [c \in Classes |->
                    IF last[c] = None THEN Unseen
                    ELSE [name |-> last[c],
                          desired |-> pools[last[c]].desired,
                          managed |-> pools[last[c]].managed]]]]
    BY <1>2 DEF RelistPools
  <2> DEFINE seen == [c \in Classes |->
                    IF last[c] = None THEN Unseen
                    ELSE [name |-> last[c],
                          desired |-> pools[last[c]].desired,
                          managed |-> pools[last[c]].managed]]
  <2>2. mem'[r].todo = Planned(r) /\ mem'[r].seen = seen
    BY <1>a, <2>1 DEF Memory
  <2>3. \A c \in Classes :
          IF seen[c].name = None
          THEN \A n \in Names : Live(n) => pools[n].class # c
          ELSE Live(seen[c].name) /\ pools[seen[c].name].desired = seen[c].desired
    BY <2>1, NoneAssumption DEF Unseen, OfClass
  <2>4. pools' = pools
    BY <1>2 DEF RelistPools
  <2> HIDE DEF seen
  <2>5. ListingCurrent(r)'
    BY <2>2, <2>3, <2>4 DEF ListingCurrent, Planned, Live
  <2>6. ProgressKept(r)'
    BY <2>2, <1>d DEF ProgressKept, Planned
  <2> QED
    BY <2>5, <2>6
<1>3. CASE SkipClass(r)
  <2>1. PICK c \in m.todo :
          /\ \/ job[r].dry
             \/ m.seen[c].name # None /\ m.seen[c].desired = job[r].plan[c]
          /\ mem' = [mem EXCEPT ![r] = [m EXCEPT !.todo = m.todo \ {c}]]
    BY <1>3 DEF SkipClass
  <2>2. mem'[r].todo = m.todo \ {c} /\ mem'[r].seen = m.seen
    BY <1>a, <2>1 DEF Memory
  <2>3. pc'[r] = "provision" /\ pc[r] = "provision" /\ pools' = pools
    BY <1>3 DEF SkipClass
  <2>4. ListingCurrent(r)'
    BY <2>2, <2>3 DEF ListingCurrent, Live
  <2>5. ~job[r].dry => Provisioned(r, c)
    BY <1>b, <1>c, <2>1, <2>3, FieldTypes, <1>a
    DEF ListingCurrent, SeenOK, Provisioned
  <2>6. ProgressKept(r)'
    BY <2>2, <2>3, <2>5, <1>d DEF ProgressKept, Planned, Provisioned, Live
  <2> QED
    BY <2>4, <2>6
<1>4. CASE PrepareUpdate(r) \/ PrepareCreate(r) \/ BidRejected(r)
  <2>1. /\ pc[r] \in {"provision", "submit"} /\ pc'[r] \in {"provision", "submit"}
        /\ pools' = pools
    BY <1>4, <1>a DEF PrepareUpdate, PrepareCreate, BidRejected
  <2>2. mem'[r].todo = m.todo /\ mem'[r].seen = m.seen
    <3>1. CASE PrepareUpdate(r)
      BY <3>1, <1>a DEF PrepareUpdate, Memory
    <3>2. CASE PrepareCreate(r)
      BY <3>2, <1>a DEF PrepareCreate, Memory
    <3>3. CASE BidRejected(r)
      BY <3>3, <1>a DEF BidRejected, Memory
    <3> QED
      BY <1>4, <3>1, <3>2, <3>3
  <2> QED
    BY <2>1, <2>2, <1>d
    DEF ListingCurrent, ProgressKept, Planned, Provisioned, Live
<1>5. CASE CallAccepted(r)
  <2> DEFINE x == m.call.name
             c == m.call.class
  <2>1. /\ pc[r] = "submit" /\ pc'[r] = "provision"
        /\ mem'[r].todo = m.todo \ {c} /\ mem'[r].seen = m.seen
    BY <1>5, <1>a DEF CallAccepted, Memory
  <2>2. /\ x \in Names /\ c \in Classes
        /\ pools'[x].status # "none" /\ pools'[x].class = c
        /\ pools'[x].desired = job[r].plan[c]
        /\ Live(x) => pools[x].class = c
        /\ \A n \in Names \ {x} : pools'[n] = pools[n]
    BY <1>5, <2>1, LandedSole DEF CallAccepted
  <2>3. ~job[r].dry /\ c \in m.todo
    BY <1>c, <2>1 DEF PhaseOK
  <2> HIDE DEF x, c
  <2>4. ASSUME NEW d \in m.todo \ {c}
        PROVE  LET s == mem'[r].seen[d] IN
               IF s.name = None
               THEN \A n \in Names :
                       pools'[n].status # "none" => pools'[n].class # d
               ELSE pools'[s.name].status # "none"
                    /\ pools'[s.name].desired = s.desired
    <3>1. CASE m.seen[d].name = None
      BY <3>1, <2>1, <2>2 DEF ListingCurrent, Live
    <3>2. CASE m.seen[d].name # None
      <4> DEFINE y == m.seen[d].name
      <4>1. Live(y) /\ pools[y].desired = m.seen[d].desired
        BY <3>2, <2>1 DEF ListingCurrent
      <4>2. pools[y].class = d /\ y \in Names
        BY <1>a, <1>b, <1>c, <3>2, FieldTypes DEF SeenOK
      <4>3. pools'[y] = pools[y]
        BY <2>2, <4>1, <4>2
      <4>4. mem'[r].seen[d] = m.seen[d]
        BY <2>1
      <4>5. pools'[y].status # "none" /\ pools'[y].desired = m.seen[d].desired
        BY <4>1, <4>3 DEF Live
      <4> QED
        BY <3>2, <4>4, <4>5
    <3> QED
      BY <3>1, <3>2
  <2>5. ListingCurrent(r)'
    BY <2>1, <2>4 DEF ListingCurrent, Live
  <2>6. ASSUME NEW d \in Planned(r), d \notin m.todo \ {c}
        PROVE  Provisioned(r, d)'
    <3>1. CASE d = c
      BY <3>1, <2>2, <1>d DEF Provisioned, Live
    <3>2. CASE d # c
      <4>1. Provisioned(r, d)
        BY <2>1, <2>3, <2>6, <3>2 DEF ProgressKept
      <4> QED
        BY <4>1, <3>2, <2>2, <1>d DEF Provisioned, Live
    <3> QED
      BY <3>1, <3>2
  <2>7. ProgressKept(r)'
    BY <2>1, <2>6, <1>d DEF ProgressKept, Planned
  <2> QED
    BY <2>5, <2>7
<1>6. CASE DeleteStale(r)
  <2>1. PICK n \in m.stale :
          /\ pools' = Removed(n)
          /\ mem' = [mem EXCEPT ![r] = [m EXCEPT !.stale = m.stale \ {n}]]
    BY <1>6 DEF DeleteStale
  <2>2. /\ pc[r] = "delete" /\ pc'[r] \in {"delete", "uncordon"}
        /\ mem'[r].todo = m.todo
    BY <1>6, <1>a, <2>1 DEF DeleteStale, Memory
  <2>3. pools[n].class \notin Planned(r)
    BY <1>c DEF StaleOK
  <2>4. \A k \in Names \ {n} : pools'[k] = pools[k]
    BY <1>a, <2>1 DEF Removed
  <2>5. \A c \in Planned(r) : Provisioned(r, c) => Provisioned(r, c)'
    BY <2>3, <2>4, <1>d DEF Provisioned, Live
  <2>6. ProgressKept(r)'
    BY <2>2, <2>5, <1>d DEF ProgressKept, Planned, Retiring
  <2> QED
    BY <2>2, <2>6 DEF ListingCurrent
<1>7. CASE \/ CollectStale(r) \/ Wake(r) \/ ListNodes(r) \/ ListNodesError(r)
           \/ UncordonNode(r)
  <2>1. /\ pc[r] \in {"provision", "sleep", "uncordon", "nodes"}
        /\ pc'[r] \in {"sleep", "delete", "uncordon", "nodes", "done"}
        /\ pools' = pools
    BY <1>7, <1>a DEF CollectStale, Wake, ListNodes, ListNodesError, UncordonNode
  <2>2. mem'[r].todo = m.todo
    BY <1>7, <1>a
    DEF CollectStale, Wake, ListNodes, ListNodesError, UncordonNode, Memory
  <2> QED
    BY <2>1, <2>2, <1>d
    DEF ListingCurrent, ProgressKept, Planned, Retiring, Provisioned, Live
<1> QED
  BY <1>1, <1>2, <1>3, <1>4, <1>5, <1>6, <1>7 DEF Step, SpotStep, NodeStep

LEMMA NextSole ==
    ASSUME NEW one, Runners = {one}, TypeOK, CallOK, SnapshotInv, SoleInv, [Next]_vars
    PROVE  SoleInv'
<1>0. /\ one \in Runners /\ \A r \in Runners : r = one
      /\ ListingCurrent(one) /\ ProgressKept(one) /\ SeenOK(one)
  BY DEF SoleInv, SnapshotInv
<1> SUFFICES ListingCurrent(one)' /\ ProgressKept(one)'
  BY <1>0 DEF SoleInv
<1>1. CASE Step(one)
  BY <1>0, <1>1, StepSole
<1>2. CASE Start(one) \/ Crash(one)
  <2>1. pc'[one] \in {"list", "failed"}
    BY <1>0, <1>2 DEF Start, Crash, GiveUp, Goto, TypeOK
  <2> QED
    BY <2>1 DEF ListingCurrent, ProgressKept, Retiring
<1>3. CASE World
  <2>1. Steady
    BY <1>3 DEF World, PoolLost, PoolBack, FloorMoves, Cordon, Steady, Live,
                TypeOK, Pool
  <2>2. pc' = pc /\ job' = job /\ mem' = mem
    BY <1>3 DEF World, PoolLost, PoolBack, FloorMoves, Cordon
  <2> QED
    BY <1>0, <2>1, <2>2, SteadySole
<1>4. CASE UNCHANGED vars
  BY <1>0, <1>4, SameSteady, SteadySole DEF vars
<1> QED
  BY <1>0, <1>1, <1>2, <1>3, <1>4 DEF Next

LEMMA InitSole == Init => SoleInv
  BY DEF Init, SoleInv, ListingCurrent, ProgressKept, Retiring

\* The listing of a run that does not overlap with another stays current, and
\* what it has provisioned stays provisioned.
THEOREM SoleRunsKeepProgress ==
    ASSUME NEW one, Runners = {one}
    PROVE  Spec => [](TypeOK /\ CallOK /\ SnapshotInv /\ SoleInv)
<1>1. Init => TypeOK /\ CallOK /\ SnapshotInv /\ SoleInv
  BY InitTypes, InitSnapshot, InitSole
<1>2. TypeOK /\ CallOK /\ SnapshotInv /\ SoleInv /\ [Next]_vars
        => (TypeOK /\ CallOK /\ SnapshotInv /\ SoleInv)'
  BY NextTypes, NextSnapshot, NextSole
<1> QED
  BY <1>1, <1>2, PTL DEF Spec

\* Make before break: nothing is retired, and no node uncordoned, before every
\* class of the plan has its pool.
THEOREM MakeBeforeBreak ==
    ASSUME NEW one, Runners = {one}
    PROVE  Spec => []RetireOnlyAfterProvision
<1>1. SnapshotInv /\ SoleInv => RetireOnlyAfterProvision
  BY DEF SnapshotInv, PhaseOK, SoleInv, ProgressKept, RetireOnlyAfterProvision
<1> QED
  BY <1>1, SoleRunsKeepProgress, PTL

\* Nodes are uncordoned only when the plan is in place and nothing is left to
\* delete.
THEOREM UncordonComesLast ==
    ASSUME NEW one, Runners = {one}
    PROVE  Spec => UncordonsLast
<1>1. SnapshotInv /\ SoleInv /\ [Next]_vars =>
        \A k \in cordoned \ cordoned' :
          \E r \in Runners : /\ ~job[r].dry
                             /\ mem[r].stale = {}
                             /\ \A c \in Planned(r) : Provisioned(r, c)
  <2> SUFFICES ASSUME SnapshotInv, SoleInv, [Next]_vars,
                      NEW k \in cordoned \ cordoned'
               PROVE  \E r \in Runners : /\ ~job[r].dry
                                         /\ mem[r].stale = {}
                                         /\ \A c \in Planned(r) : Provisioned(r, c)
    OBVIOUS
  <2>1. PICK r \in Runners : UncordonNode(r)
    BY DEF Next, World, PoolLost, PoolBack, FloorMoves, Cordon, Start, Crash,
           Step, SpotStep, NodeStep, ListPools, DeleteLost, RelistPools, ListError, SkipClass,
           PrepareUpdate, PrepareCreate, CallAccepted, BidRejected, CallError,
           CollectStale, Wake, DeleteStale, DeleteError, ListNodes,
           ListNodesError, cloud, vars
  <2>2. pc[r] = "nodes" /\ ~job[r].dry
    BY <2>1 DEF UncordonNode
  <2> QED
    BY <2>2 DEF SnapshotInv, PhaseOK, SoleInv, ProgressKept, Retiring
<1> QED
  BY <1>1, SoleRunsKeepProgress, PTL DEF Spec, UncordonsLast

LEMMA OnePoolStep ==
    ASSUME NEW one, Runners = {one}, TypeOK, CallOK, SnapshotInv, SoleInv,
           OnePoolPerClass, [Next]_vars
    PROVE  OnePoolPerClass'
<1>1. CASE \E r \in Runners : /\ pc[r] = "submit" /\ Admissible(r)
                              /\ pools' = Landed(r)
  <2>1. PICK r \in Runners : pc[r] = "submit" /\ Admissible(r) /\ pools' = Landed(r)
    BY <1>1
  <2> DEFINE x == mem[r].call.name
             c == mem[r].call.class
  <2>2. /\ x \in Names /\ c \in Classes
        /\ pools'[x].status # "none" /\ pools'[x].class = c
        /\ Live(x) => pools[x].class = c
        /\ Creates(r) => ~Live(x)
        /\ ~Creates(r) => Live(x)
        /\ \A n \in Names \ {x} : pools'[n] = pools[n]
    BY <2>1, LandedSole
  <2>3. \A n \in Names \ {x} : Live(n) => pools[n].class # c
    <3>1. CASE Creates(r)
      <4>1. c \in mem[r].todo
        BY <2>1 DEF SnapshotInv, PhaseOK
      <4> QED
        BY <2>1, <3>1, <4>1 DEF SoleInv, ListingCurrent, Creates
    <3>2. CASE ~Creates(r)
      BY <2>2, <3>2 DEF OnePoolPerClass
    <3> QED
      BY <3>1, <3>2
  <2> HIDE DEF x, c
  <2> QED
    BY <2>2, <2>3 DEF OnePoolPerClass, Live
<1>2. CASE Calm(Names)
  BY <1>2 DEF OnePoolPerClass, Calm
<1>3. ASSUME NEW r \in Runners, Step(r)
      PROVE  \/ pc[r] = "submit" /\ Admissible(r) /\ pools' = Landed(r)
             \/ \E n \in Names : pools' = Removed(n)
             \/ pools' = pools
  <2>1. mem[r].lost \subseteq Names /\ mem[r].stale \subseteq Names
    BY FieldTypes DEF TypeOK
  <2> QED
    BY <1>3, <2>1
    DEF Step, SpotStep, NodeStep, ListPools, DeleteLost, RelistPools, ListError, SkipClass,
        PrepareUpdate, PrepareCreate, CallAccepted, BidRejected, CallError,
        CollectStale, Wake, DeleteStale, DeleteError, ListNodes,
        ListNodesError, UncordonNode, cloud
<1>4. CASE \E r \in Runners : Step(r)
  BY <1>1, <1>2, <1>3, <1>4, RemovedCalm, SameCalm DEF TypeOK
<1>5. CASE World
  BY <1>2, <1>5 DEF World, PoolLost, PoolBack, FloorMoves, Cordon, Calm, Live,
                    TypeOK, Pool
<1>6. CASE pools' = pools
  BY <1>2, <1>6, SameCalm
<1> QED
  BY <1>4, <1>5, <1>6 DEF Next, Start, Crash, vars, cloud

\* Runs that do not overlap never give a class a second pool, whatever crashes
\* and lost answers come between a create and the next run.
THEOREM NeverTwoPools ==
    ASSUME NEW one, Runners = {one}
    PROVE  Init /\ OnePoolPerClass /\ [][Next]_vars => []OnePoolPerClass
<1>1. TypeOK /\ CallOK /\ SnapshotInv /\ SoleInv /\ OnePoolPerClass /\ [Next]_vars
        => OnePoolPerClass'
  BY OnePoolStep
<1> QED
  BY <1>1, SoleRunsKeepProgress, PTL DEF Spec

-----------------------------------------------------------------------------
(* The surplus, and Rollout.                                               *)

SoleState == /\ TypeOK /\ CallOK /\ SnapshotInv /\ SoleInv
             /\ OnePoolPerClass /\ SurplusInv

\* The pools keep all that matters for the surplus.
Same == \A n \in Names : /\ Live(n)' <=> Live(n)
                         /\ pools'[n].class = pools[n].class
                         /\ pools'[n].desired = pools[n].desired
                         /\ pools'[n].managed = pools[n].managed

LEMMA WorldSame == ASSUME TypeOK, World PROVE Same
  BY DEF World, PoolLost, PoolBack, FloorMoves, Cordon, Same, Live, TypeOK, Pool

LEMMA SameKnown ==
    ASSUME TypeOK, SnapshotInv, NEW r \in Runners, SurplusKnown(r), Classed, Same,
           pc'[r] = pc[r], job'[r] = job[r], mem'[r] = mem[r]
    PROVE  SurplusKnown(r)' /\ Classed'
<1>0. Planned(r)' = Planned(r)
  BY DEF Planned
<1>1. mem[r].lost \subseteq Names /\ mem[r].stale \subseteq Names
  BY FieldTypes DEF TypeOK
<1>2. \A c \in Classes : mem[r].seen[c].name # None => mem[r].seen[c].name \in Names
  BY FieldTypes DEF SnapshotInv, SeenOK, TypeOK
<1>3. Classed'
  BY DEF Classed, Same
<1>4. TodoKnown(r)'
  BY <1>0, <1>1 DEF SurplusKnown, TodoKnown, Same
<1>5. OutsideKnown(r)'
  BY <1>0, <1>2 DEF SurplusKnown, OutsideKnown, Same
<1>6. StaleExact(r)'
  BY <1>0 DEF SurplusKnown, StaleExact, Same, Retiring
<1> QED
  BY <1>3, <1>4, <1>5, <1>6 DEF SurplusKnown

\* What the second listing collects is what the plan has no use for.
LEMMA UnusedExact ==
    ASSUME SoleState, NEW r \in Runners, pc[r] = "provision", ~job[r].dry
    PROVE  UnusedPools(r) = {n \in Names : /\ Live(n)
                                           /\ pools[n].managed
                                           /\ pools[n].class \notin Planned(r)}
<1> USE DEF SoleState
<1>1. SurplusKnown(r) /\ SeenOK(r) /\ Classed
  BY DEF SurplusInv, SnapshotInv
<1>2. ASSUME NEW c \in Classes \ Planned(r), mem[r].seen[c].name # None, mem[r].seen[c].managed
      PROVE  LET n == mem[r].seen[c].name
             IN n \in Names /\ Live(n) /\ pools[n].managed /\ pools[n].class = c
  <2>1. mem[r].listed \subseteq Names
    BY FieldTypes DEF TypeOK
  <2> QED
    BY <1>1, <1>2, <2>1 DEF SurplusKnown, OutsideKnown, SeenOK
<1>3. ASSUME NEW n \in Names, Live(n), pools[n].managed, pools[n].class \notin Planned(r)
      PROVE  LET c == pools[n].class
             IN c \in Classes \ Planned(r) /\ mem[r].seen[c].name = n /\ mem[r].seen[c].managed
  <2> DEFINE c == pools[n].class
             s == mem[r].seen[c]
  <2>1. c \in Classes \ Planned(r)
    BY <1>1, <1>3 DEF Classed
  <2>2. s.name # None /\ Live(s.name)
    BY <1>1, <1>3, <2>1 DEF SurplusKnown, OutsideKnown
  <2>3. s.name \in Names /\ pools[s.name].class = c /\ pools[s.name].managed = s.managed
    <3>1. mem[r].listed \subseteq Names
      BY FieldTypes DEF TypeOK
    <3> QED
      BY <1>1, <2>1, <2>2, <3>1 DEF SeenOK
  <2>4. s.name = n
    BY <1>3, <2>2, <2>3 DEF OnePoolPerClass
  <2> QED
    BY <1>3, <2>1, <2>2, <2>3, <2>4
<1>4. \A n \in UnusedPools(r) :
          n \in Names /\ Live(n) /\ pools[n].managed /\ pools[n].class \notin Planned(r)
  BY <1>2 DEF UnusedPools
<1>5. \A n \in Names : Live(n) /\ pools[n].managed /\ pools[n].class \notin Planned(r)
          => n \in UnusedPools(r)
  BY <1>3, NoneAssumption DEF UnusedPools
<1> QED
  BY <1>4, <1>5

\* A step of the sole run keeps both.
LEMMA StepSurplus ==
    ASSUME SoleState, NEW r \in Runners, Step(r)
    PROVE  SurplusKnown(r)' /\ Classed'
<1> USE DEF Goto, GiveUp, cloud
<1> DEFINE m == mem[r]
<1>a. /\ pools \in [Names -> Pool] /\ job[r] \in Job /\ m \in Memory
      /\ pc \in [Runners -> Labels] /\ mem \in [Runners -> Memory]
  BY DEF SoleState, TypeOK
<1>b. /\ m.seen \in [Classes -> Seen] /\ m.todo \in SUBSET Classes
      /\ m.lost \subseteq Names /\ m.stale \subseteq Names /\ m.listed \subseteq Names
  BY <1>a, FieldTypes
<1>c. /\ SeenOK(r) /\ StaleOK(r) /\ CreateOK(r) /\ PhaseOK(r)
      /\ ListingCurrent(r) /\ SurplusKnown(r) /\ Classed
  BY DEF SoleState, SnapshotInv, SoleInv, SurplusInv
<1>d. job' = job /\ Planned(r)' = Planned(r)
  BY DEF Step, SpotStep, NodeStep, ListPools, DeleteLost, RelistPools, ListError, SkipClass,
         PrepareUpdate, PrepareCreate, CallAccepted, BidRejected, CallError,
         CollectStale, Wake, DeleteStale, DeleteError, ListNodes,
         ListNodesError, UncordonNode, Planned
<1>e. pools' = pools => Classed'
  BY <1>c DEF Classed, Live
<1>f. ASSUME NEW n \in Names, pools' = Removed(n) PROVE Classed'
  BY <1>a, <1>c, <1>f DEF Classed, Live, Removed, Absent
<1>g. mem'[r] = Blank /\ pc'[r] = "failed" => SurplusKnown(r)'
  BY DEF SurplusKnown, TodoKnown, OutsideKnown, StaleExact, Retiring, Blank
<1>1. CASE ListPools(r)
  <2>1. /\ pools' = pools /\ pc'[r] \in {"cleanup", "relist"}
        /\ mem'[r].todo = m.todo
        /\ mem'[r].lost = {n \in Names : Live(n) /\ pools[n].status = "lost"}
        /\ pc'[r] = "relist" => mem'[r].lost = {}
    BY <1>1, <1>a DEF ListPools, Memory, Live
  <2> QED
    BY <2>1, <1>c, <1>d, <1>e
    DEF SurplusKnown, TodoKnown, OutsideKnown, StaleExact, Retiring, Live
<1>2. CASE DeleteLost(r)
  <2>1. PICK n \in m.lost : /\ pools' \in {pools, Removed(n)}
                            /\ mem' = [mem EXCEPT ![r].lost = @ \ {n}]
                            /\ pc' = [pc EXCEPT ![r] = IF m.lost = {n} THEN "relist" ELSE "cleanup"]
    BY <1>2 DEF DeleteLost
  <2>2. mem'[r].lost = m.lost \ {n} /\ mem'[r].todo = m.todo
    BY <2>1, <1>a DEF Memory
  <2>3. \A k \in Names \ {n} : Live(k) => Live(k)'
    BY <2>1, <1>a, <1>b DEF Removed, Live
  <2>4. TodoKnown(r)'
    BY <2>1, <2>2, <2>3, <1>a, <1>b, <1>c, <1>d DEF SurplusKnown, TodoKnown
  <2>5. pc'[r] \in {"relist", "cleanup"}
    BY <2>1, <1>a
  <2>6. Classed'
    BY <2>1, <1>b, <1>e, <1>f
  <2> QED
    BY <2>4, <2>5, <2>6 DEF SurplusKnown, OutsideKnown, StaleExact, Retiring
<1>3. CASE RelistPools(r)
  <2>1. PICK last \in [Classes -> Names \cup {None}] :
          /\ \A c \in Classes : IF OfClass(c) = {} THEN last[c] = None
                                ELSE last[c] \in OfClass(c)
          /\ mem' = [mem EXCEPT ![r] = [@ EXCEPT
                !.listed = {n \in Names : Live(n)},
                !.todo = Planned(r),
                !.seen = [c \in Classes |->
                    IF last[c] = None THEN Unseen
                    ELSE [name |-> last[c],
                          desired |-> pools[last[c]].desired,
                          managed |-> pools[last[c]].managed]]]]
    BY <1>3 DEF RelistPools
  <2>2. /\ pools' = pools /\ pc'[r] = "provision" /\ pc[r] = "relist"
    BY <1>3, <1>a DEF RelistPools
  <2>3. /\ mem'[r].todo = Planned(r) /\ mem'[r].lost = m.lost
        /\ \A c \in Classes : mem'[r].seen[c].name = last[c]
    BY <2>1, <1>a DEF Memory, Unseen
  <2>4. TodoKnown(r)'
    BY <2>2, <2>3, <1>c, <1>d DEF SurplusKnown, TodoKnown
  <2>5. OutsideKnown(r)'
    BY <2>1, <2>2, <2>3, <1>d, NoneAssumption DEF OutsideKnown, OfClass, Live
  <2> QED
    BY <2>2, <2>4, <2>5, <1>e DEF SurplusKnown, StaleExact, Retiring
<1>4. CASE ListError(r)
  BY <1>4, <1>a, <1>e, <1>g DEF ListError
<1>5. CASE SkipClass(r) \/ PrepareUpdate(r) \/ PrepareCreate(r) \/ BidRejected(r)
  <2>1. /\ pools' = pools
        /\ pc[r] \in {"provision", "submit"} /\ pc'[r] \in {"provision", "submit"}
    BY <1>5, <1>a DEF SkipClass, PrepareUpdate, PrepareCreate, BidRejected
  <2>2. /\ mem'[r].seen = m.seen /\ mem'[r].lost = m.lost
        /\ mem'[r].todo \subseteq m.todo
    <3>1. CASE SkipClass(r)
      BY <3>1, <1>a DEF SkipClass, Memory
    <3>2. CASE PrepareUpdate(r)
      BY <3>2, <1>a DEF PrepareUpdate, Memory
    <3>3. CASE PrepareCreate(r)
      BY <3>3, <1>a DEF PrepareCreate, Memory
    <3>4. CASE BidRejected(r)
      BY <3>4, <1>a DEF BidRejected, Memory
    <3> QED
      BY <1>5, <3>1, <3>2, <3>3, <3>4
  <2>3. TodoKnown(r)' /\ OutsideKnown(r)'
    BY <2>1, <2>2, <1>c, <1>d DEF SurplusKnown, TodoKnown, OutsideKnown, Live
  <2> QED
    BY <2>1, <2>3, <1>e DEF SurplusKnown, StaleExact, Retiring
<1>6. CASE CallAccepted(r) \/ CallError(r)
  <2> DEFINE x == m.call.name
             c == m.call.class
  <2>1. pc[r] = "submit" /\ (pools' = pools \/ (Admissible(r) /\ pools' = Landed(r)))
    BY <1>6 DEF CallAccepted, CallError
  <2>2. /\ Classed'
        /\ \A n \in Names : Live(n) => Live(n)'
        /\ \A d \in Classes \ Planned(r), n \in Names :
              Live(n)' /\ pools'[n].class = d => Live(n) /\ pools[n].class = d
    <3>1. CASE pools' = pools
      BY <3>1, <1>e DEF Live
    <3>2. CASE Admissible(r) /\ pools' = Landed(r)
      <4>1. /\ x \in Names /\ c \in Classes
            /\ pools'[x].status # "none" /\ pools'[x].class = c
            /\ pools'[x].desired = job[r].plan[c]
            /\ \A n \in Names \ {x} : pools'[n] = pools[n]
        BY <2>1, <3>2, LandedSole DEF SoleState
      <4>2. c \in Planned(r)
        BY <2>1, <1>c DEF PhaseOK, SurplusKnown, TodoKnown
      <4> HIDE DEF x, c
      <4> QED
        BY <4>1, <4>2, <1>c DEF Classed, Live, Planned
    <3> QED
      BY <2>1, <3>1, <3>2
  <2>3. CASE CallAccepted(r)
    <3>1. /\ pc'[r] = "provision"
          /\ mem'[r].seen = m.seen /\ mem'[r].lost = m.lost
          /\ mem'[r].todo \subseteq m.todo
      BY <2>3, <1>a DEF CallAccepted, Memory
    <3>2. TodoKnown(r)'
      BY <2>1, <3>1, <1>c, <1>d DEF SurplusKnown, TodoKnown
    <3>3. OutsideKnown(r)'
      BY <2>1, <2>2, <3>1, <1>b, <1>c, <1>d DEF SurplusKnown, OutsideKnown, SeenOK
    <3> QED
      BY <2>2, <3>1, <3>2, <3>3 DEF SurplusKnown, StaleExact, Retiring
  <2> QED
    BY <1>6, <2>2, <2>3, <1>a, <1>g DEF CallError
<1>7. CASE CollectStale(r)
  <2>1. /\ pools' = pools /\ pc[r] = "provision"
        /\ pc'[r] \in {"uncordon", "sleep", "delete"}
        /\ mem'[r].stale = UnusedPools(r)
        /\ mem'[r].todo = m.todo /\ mem'[r].lost = m.lost
    BY <1>7, <1>a DEF CollectStale, Memory
  <2>2. StaleExact(r)'
    BY <2>1, <1>d, UnusedExact DEF StaleExact, Live
  <2>3. TodoKnown(r)'
    BY <2>1, <1>c, <1>d DEF SurplusKnown, TodoKnown
  <2> QED
    BY <2>1, <2>2, <2>3, <1>e DEF SurplusKnown, OutsideKnown
<1>8. CASE DeleteStale(r)
  <2>1. PICK n \in m.stale : /\ pools' = Removed(n)
                             /\ mem' = [mem EXCEPT ![r].stale = @ \ {n}]
                             /\ pc' = [pc EXCEPT ![r] = IF m.stale = {n} THEN "uncordon" ELSE "delete"]
    BY <1>8 DEF DeleteStale
  <2>2. /\ pc[r] = "delete" /\ pc'[r] \in {"uncordon", "delete"}
        /\ mem'[r].stale = m.stale \ {n}
        /\ mem'[r].todo = m.todo /\ mem'[r].lost = m.lost
    BY <1>8, <2>1, <1>a DEF DeleteStale, Memory
  <2>3. StaleExact(r)'
    BY <2>1, <2>2, <1>a, <1>b, <1>c, <1>d
    DEF SurplusKnown, StaleExact, Retiring, Removed, Absent, Live
  <2>4. TodoKnown(r)'
    BY <2>2, <1>c, <1>d DEF SurplusKnown, TodoKnown
  <2> QED
    BY <2>1, <2>2, <2>3, <2>4, <1>b, <1>f DEF SurplusKnown, OutsideKnown
<1>9. CASE DeleteError(r)
  <2>1. pools' = pools \/ \E n \in Names : pools' = Removed(n)
    BY <1>9, <1>b DEF DeleteError
  <2> QED
    BY <1>9, <2>1, <1>a, <1>e, <1>f, <1>g DEF DeleteError
<1>10. CASE Wake(r) \/ ListNodes(r) \/ ListNodesError(r) \/ UncordonNode(r)
  <2>1. /\ pools' = pools
        /\ Retiring(r) /\ pc'[r] \in {"delete", "nodes", "done"}
        /\ mem'[r].stale = m.stale
        /\ mem'[r].todo = m.todo /\ mem'[r].lost = m.lost
    BY <1>10, <1>a DEF Wake, ListNodes, ListNodesError, UncordonNode, Retiring, Memory
  <2>2. StaleExact(r)'
    BY <2>1, <1>c, <1>d DEF SurplusKnown, StaleExact, Live
  <2>3. TodoKnown(r)'
    BY <2>1, <1>c, <1>d DEF SurplusKnown, TodoKnown, Retiring
  <2> QED
    BY <2>1, <2>2, <2>3, <1>e DEF SurplusKnown, OutsideKnown
<1> QED
  BY <1>1, <1>2, <1>3, <1>4, <1>5, <1>6, <1>7, <1>8, <1>9, <1>10 DEF Step, SpotStep, NodeStep

LEMMA NextSurplus ==
    ASSUME NEW one, Runners = {one}, SoleState, [Next]_vars
    PROVE  SurplusInv'
<1>0. /\ one \in Runners /\ \A r \in Runners : r = one
      /\ SurplusKnown(one) /\ Classed /\ TypeOK /\ SnapshotInv
  BY DEF SoleState, SurplusInv
<1> SUFFICES SurplusKnown(one)' /\ Classed'
  BY <1>0 DEF SurplusInv
<1>1. CASE Step(one)
  BY <1>0, <1>1, StepSurplus
<1>2. CASE Start(one) \/ Crash(one)
  <2>1. /\ pc'[one] \in {"list", "failed"} /\ mem'[one] = Blank /\ pools' = pools
    BY <1>0, <1>2 DEF Start, Crash, GiveUp, Goto, TypeOK, cloud
  <2> QED
    BY <1>0, <2>1
    DEF SurplusKnown, TodoKnown, OutsideKnown, StaleExact, Retiring, Blank, Classed, Live
<1>3. CASE World
  <2>1. pc' = pc /\ job' = job /\ mem' = mem
    BY <1>3 DEF World, PoolLost, PoolBack, FloorMoves, Cordon
  <2> QED
    BY <1>0, <1>3, <2>1, WorldSame, SameKnown
<1>4. CASE UNCHANGED vars
  <2>1. Same
    BY <1>4 DEF vars, Same, Live
  <2> QED
    BY <1>0, <1>4, <2>1, SameKnown DEF vars
<1> QED
  BY <1>0, <1>1, <1>2, <1>3, <1>4 DEF Next

LEMMA InitSurplus == Init => SurplusInv
<1> SUFFICES ASSUME Init PROVE SurplusInv
  OBVIOUS
<1>1. Classed
  BY DEF Init, Classed, Live, Absent, Counts
<1>2. ASSUME NEW r \in Runners PROVE SurplusKnown(r)
  BY DEF Init, SurplusKnown, TodoKnown, OutsideKnown, StaleExact, Retiring, Blank
<1> QED
  BY <1>1, <1>2 DEF SurplusInv

\* The state of a cloudspace with at most one pool per class, worked on by runs
\* that do not overlap.
LEMMA SoleStates ==
    ASSUME NEW one, Runners = {one}
    PROVE  Init /\ OnePoolPerClass /\ [][Next]_vars => []SoleState
<1>1. Init /\ OnePoolPerClass => SoleState
  BY InitTypes, InitSnapshot, InitSole, InitSurplus DEF SoleState
<1>2. SoleState /\ [Next]_vars => SoleState'
  <2> SUFFICES ASSUME SoleState, [Next]_vars PROVE SoleState'
    OBVIOUS
  <2>1. TypeOK' /\ CallOK'
    BY NextTypes DEF SoleState
  <2>2. SnapshotInv'
    BY NextSnapshot DEF SoleState
  <2>3. SoleInv'
    BY NextSole DEF SoleState
  <2>4. OnePoolPerClass'
    BY OnePoolStep DEF SoleState
  <2>5. SurplusInv'
    BY NextSurplus
  <2> QED
    BY <2>1, <2>2, <2>3, <2>4, <2>5 DEF SoleState
<1> QED
  BY <1>1, <1>2, PTL

\* A run that ends well leaves no managed pool outside its plan.
THEOREM NothingUnusedStays ==
    ASSUME NEW one, Runners = {one}
    PROVE  Init /\ OnePoolPerClass /\ [][Next]_vars => []UnusedPoolsRetired
<1>1. SoleState => UnusedPoolsRetired
  <2> SUFFICES ASSUME SoleState, NEW r \in Runners, pc[r] = "done", ~job[r].dry,
                      NEW n \in mem[r].listed, Live(n), pools[n].managed,
                      pools[n].class \notin Planned(r)
               PROVE  FALSE
    BY DEF UnusedPoolsRetired
  <2>1. n \in Names
    BY FieldTypes DEF SoleState, TypeOK
  <2>2. n \in mem[r].stale
    BY <2>1 DEF SoleState, SurplusInv, SurplusKnown, StaleExact, Retiring
  <2> QED
    BY <2>2 DEF SoleState, SnapshotInv, PhaseOK
<1> QED
  BY <1>1, SoleStates, PTL

-----------------------------------------------------------------------------
(* The refinement.                                                         *)

Alive(p, n)  == p[n].status # "none"
Unique(p)    == \A m, n \in Names : /\ Alive(p, m) /\ Alive(p, n)
                                    /\ p[m].class = p[n].class
                                    => m = n

LEMMA HoldingFields ==
    ASSUME NEW pool
    PROVE  /\ Holding(pool).size = pool.desired
           /\ Holding(pool).ours = pool.managed
           /\ Holding(pool).status = pool.status
  BY DEF Holding

LEMMA BoughtFunction ==
    ASSUME NEW p PROVE Bought(p) = [c \in Classes |-> Bought(p)[c]]
  BY DEF Bought

LEMMA BoughtOne ==
    ASSUME NEW p, Unique(p), NEW n \in Names, Alive(p, n), p[n].class \in Classes
    PROVE  Bought(p)[p[n].class] = Holding(p[n])
<1> DEFINE of == {k \in Names : p[k].status # "none" /\ p[k].class = p[n].class}
<1>1. of = {n}
  BY DEF Unique, Alive
<1>2. (CHOOSE k \in of : TRUE) = n
  BY <1>1
<1> QED
  BY <1>1, <1>2 DEF Bought

LEMMA BoughtNone ==
    ASSUME NEW p, NEW c \in Classes, \A n \in Names : Alive(p, n) => p[n].class # c
    PROVE  Bought(p)[c] = Nil
  BY DEF Bought, Alive

\* Pools that agree on the pools of a class hold the same of it.
LEMMA BoughtSame ==
    ASSUME NEW p, NEW q, Unique(p), Unique(q), NEW c \in Classes,
           \A n \in Names :
               /\ Alive(p, n) /\ p[n].class = c => q[n] = p[n]
               /\ Alive(q, n) /\ q[n].class = c => q[n] = p[n]
    PROVE  Bought(q)[c] = Bought(p)[c]
<1>1. CASE \E n \in Names : Alive(p, n) /\ p[n].class = c
  <2>1. PICK n \in Names : Alive(p, n) /\ p[n].class = c
    BY <1>1
  <2>2. q[n] = p[n] /\ Alive(q, n) /\ q[n].class = c
    BY <2>1 DEF Alive
  <2> QED
    BY <2>1, <2>2, BoughtOne
<1>2. CASE ~\E n \in Names : Alive(p, n) /\ p[n].class = c
  <2>1. \A n \in Names : Alive(q, n) => q[n].class # c
    BY <1>2 DEF Alive
  <2> QED
    BY <1>2, <2>1, BoughtNone
<1> QED
  BY <1>1, <1>2

\* One pool changes: one class is held otherwise.
LEMMA BoughtChange ==
    ASSUME NEW p, NEW q, Unique(p), Unique(q), NEW x \in Names, NEW c \in Classes,
           \A n \in Names \ {x} : q[n] = p[n],
           Alive(p, x) => p[x].class = c,
           Alive(q, x) => q[x].class = c
    PROVE  Bought(q) = [Bought(p) EXCEPT ![c] = Bought(q)[c]]
<1>1. \A d \in Classes \ {c} : Bought(q)[d] = Bought(p)[d]
  BY BoughtSame DEF Alive
<1> QED
  BY <1>1, BoughtFunction

LEMMA HoldingTypes ==
    ASSUME SoleState
    PROVE  /\ Unique(pools)
           /\ Bought(pools) \in [Classes -> Promise!Holding]
           /\ \A n \in Names : Live(n) =>
                 /\ pools[n].class \in Classes
                 /\ Bought(pools)[pools[n].class] = Holding(pools[n])
                 /\ Holding(pools[n]).size > 0
<1>1. Unique(pools)
  BY DEF SoleState, OnePoolPerClass, Unique, Alive, Live
<1>2. ASSUME NEW n \in Names, Live(n)
      PROVE  /\ pools[n].class \in Classes
             /\ Bought(pools)[pools[n].class] = Holding(pools[n])
             /\ Holding(pools[n]).size > 0
             /\ Holding(pools[n]) \in Promise!Holding
  <2>1. pools[n] \in Pool /\ pools[n].class \in Classes /\ pools[n].desired > 0
    BY <1>2 DEF SoleState, SurplusInv, Classed, TypeOK
  <2>2. Bought(pools)[pools[n].class] = Holding(pools[n])
    BY <1>1, <1>2, <2>1, BoughtOne DEF Alive, Live
  <2>3. /\ pools[n].desired \in 1..MaxCount /\ pools[n].managed \in BOOLEAN
        /\ pools[n].status \in {"ok", "lost"}
    BY <1>2, <2>1, CountAssumption DEF Pool, Counts, Live
  <2> QED
    BY <2>1, <2>2, <2>3 DEF Holding, Promise!Holding
<1>3. ASSUME NEW c \in Classes PROVE Bought(pools)[c] \in Promise!Holding
  <2>1. CASE \E n \in Names : Live(n) /\ pools[n].class = c
    BY <1>2, <2>1
  <2>2. CASE ~\E n \in Names : Live(n) /\ pools[n].class = c
    BY <2>2, BoughtNone DEF Alive, Live, Nil, Promise!Holding, Promise!Nil
  <2> QED
    BY <2>1, <2>2
<1>4. Bought(pools) = [c \in Classes |-> Bought(pools)[c]]
  BY BoughtFunction
<1> QED
  BY <1>1, <1>2, <1>3, <1>4

LEMMA RemovedBought ==
    ASSUME SoleState, SoleState', NEW n \in Names, Live(n), pools' = Removed(n)
    PROVE  /\ pools[n].class \in Classes
           /\ Bought(pools') = [Bought(pools) EXCEPT ![pools[n].class] = Nil]
<1> DEFINE c == pools[n].class
<1>1. c \in Classes /\ Unique(pools)
  BY HoldingTypes
<1>2. Unique(pools')
  BY DEF SoleState, OnePoolPerClass, Unique, Alive, Live
<1>3. /\ pools \in [Names -> Pool]
      /\ ~Alive(pools', n) /\ \A k \in Names \ {n} : pools'[k] = pools[k]
  BY DEF SoleState, TypeOK, Removed, Absent, Alive
<1>4. Bought(pools') = [Bought(pools) EXCEPT ![c] = Bought(pools')[c]]
  BY <1>1, <1>2, <1>3, BoughtChange
<1>5. \A k \in Names : Alive(pools', k) => pools'[k].class # c
  BY <1>1, <1>3 DEF Unique, Alive, Live
<1>6. Bought(pools')[c] = Nil
  BY <1>1, <1>5, BoughtNone
<1> QED
  BY <1>1, <1>4, <1>6

LEMMA LandedBought ==
    ASSUME SoleState, SoleState', NEW r \in Runners, pc[r] = "submit",
           Admissible(r), pools' = Landed(r)
    PROVE  LET c == mem[r].call.class
           IN  /\ c \in Classes /\ job[r].plan[c] > 0
               /\ Bought(pools') = [Bought(pools) EXCEPT ![c] =
                       IF @.size = 0
                       THEN [size |-> job[r].plan[c], ours |-> TRUE, status |-> "ok"]
                       ELSE [@ EXCEPT !.size = job[r].plan[c]]]
<1> DEFINE x == mem[r].call.name
           c == mem[r].call.class
<1>1. /\ x \in Names /\ c \in Classes
      /\ Alive(pools', x) /\ pools'[x].class = c
      /\ Live(x) => pools[x].class = c
      /\ Creates(r) => ~Live(x)
      /\ ~Creates(r) => Live(x)
      /\ \A n \in Names \ {x} : pools'[n] = pools[n]
  BY LandedSole DEF SoleState, Alive
<1>2. Unique(pools')
  BY DEF SoleState, OnePoolPerClass, Unique, Alive, Live
<1>3. c \in mem[r].todo /\ c \in Planned(r)
  BY DEF SoleState, SnapshotInv, PhaseOK, SurplusInv, SurplusKnown, TodoKnown
<1>4. Bought(pools') = [Bought(pools) EXCEPT ![c] = Bought(pools')[c]]
  BY <1>1, <1>2, HoldingTypes, BoughtChange DEF Alive, Live
<1>5. Bought(pools')[c] = Holding(pools'[x])
  BY <1>1, <1>2, BoughtOne
<1>6. pools \in [Names -> Pool] /\ job[r] \in Job
  BY DEF SoleState, TypeOK
<1>7. CASE Creates(r)
  <2>1. \A n \in Names : Live(n) => pools[n].class # c
    BY <1>3, <1>7 DEF SoleState, SoleInv, ListingCurrent, Creates
  <2>2. Bought(pools)[c] = Nil
    BY <1>1, <2>1, BoughtNone DEF Alive, Live
  <2>3. pools'[x] = [class |-> c, desired |-> job[r].plan[c],
                     managed |-> TRUE, status |-> "ok"]
    BY <1>1, <1>6, <1>7 DEF Landed
  <2>4. Holding(pools'[x]) = [size |-> job[r].plan[c], ours |-> TRUE, status |-> "ok"]
    BY <2>3 DEF Holding
  <2>5. Bought(pools')[c] = IF Nil.size = 0
                            THEN [size |-> job[r].plan[c], ours |-> TRUE, status |-> "ok"]
                            ELSE [Nil EXCEPT !.size = job[r].plan[c]]
    BY <1>5, <2>4 DEF Nil
  <2> HIDE DEF x, c
  <2> QED
    BY <1>1, <1>3, <1>4, <2>2, <2>5 DEF Planned, c
<1>8. CASE ~Creates(r)
  <2>1. Bought(pools)[c] = Holding(pools[x]) /\ Holding(pools[x]).size > 0
    BY <1>1, <1>8, HoldingTypes
  <2>2. pools'[x] = [pools[x] EXCEPT !.desired = job[r].plan[c]]
    BY <1>1, <1>6, <1>8 DEF Landed
  <2>3. Holding(pools'[x]) = [Holding(pools[x]) EXCEPT !.size = job[r].plan[c]]
    BY <1>1, <1>6, <2>2 DEF Holding, Pool
  <2>4. Bought(pools')[c] = [Bought(pools)[c] EXCEPT !.size = job[r].plan[c]]
    BY <1>5, <2>1, <2>3
  <2>5. Bought(pools)[c].size # 0
    BY <2>1
  <2> HIDE DEF x, c
  <2> QED
    BY <1>1, <1>3, <1>4, <2>4, <2>5 DEF Planned, c
<1> QED
  BY <1>7, <1>8

\* A pool is lost or comes back.
LEMMA FlippedBought ==
    ASSUME SoleState, SoleState', NEW n \in Names, PoolLost(n) \/ PoolBack(n)
    PROVE  LET c == pools[n].class
           IN  /\ c \in Classes
               /\ Bought(pools)[c].size > 0
               /\ Bought(pools') = [Bought(pools) EXCEPT ![c].status =
                                     IF @ = "ok" THEN "lost" ELSE "ok"]
<1> DEFINE c == pools[n].class
<1>1. pools \in [Names -> Pool] /\ Live(n)
  BY DEF SoleState, TypeOK, PoolLost, PoolBack, Live
<1>2. /\ pools'[n].class = c /\ pools'[n].desired = pools[n].desired
      /\ pools'[n].managed = pools[n].managed
      /\ \/ pools[n].status = "ok" /\ pools'[n].status = "lost"
         \/ pools[n].status = "lost" /\ pools'[n].status = "ok"
      /\ \A k \in Names \ {n} : pools'[k] = pools[k]
  BY <1>1 DEF PoolLost, PoolBack, Pool
<1>3. Unique(pools')
  BY DEF SoleState, OnePoolPerClass, Unique, Alive, Live
<1>4. /\ c \in Classes /\ Bought(pools)[c] = Holding(pools[n])
      /\ Holding(pools[n]).size > 0 /\ Unique(pools)
  BY <1>1, HoldingTypes
<1>5. Alive(pools', n)
  BY <1>2 DEF Alive
<1>6. Bought(pools')[c] = Holding(pools'[n])
  BY <1>2, <1>3, <1>4, <1>5, BoughtOne
<1>7. Bought(pools') = [Bought(pools) EXCEPT ![c] = Bought(pools')[c]]
  BY <1>2, <1>3, <1>4, BoughtChange
<1>8. Holding(pools'[n]) = [Holding(pools[n]) EXCEPT !.status =
                                IF @ = "ok" THEN "lost" ELSE "ok"]
  BY <1>2 DEF Holding
<1> HIDE DEF c
<1> QED
  BY <1>4, <1>6, <1>7, <1>8 DEF c

\* The classes the plan has no use for are those of the pools to retire.
LEMMA SurplusClasses ==
    ASSUME SoleState, NEW r \in Runners, r = Sole, Rolling
    PROVE  /\ \A n \in Names : Live(n) /\ pools[n].managed /\ pools[n].class \notin Planned(r)
                 => pools[n].class \in Promise!Surplus
           /\ \A c \in Promise!Surplus : \E n \in Names :
                 /\ Live(n) /\ pools[n].managed
                 /\ pools[n].class = c /\ c \notin Planned(r)
<1>1. Goal = job[r].plan /\ job[r].plan \in [Classes -> Counts]
  BY DEF Goal, SoleState, TypeOK, Job
<1>2. ASSUME NEW n \in Names, Live(n), pools[n].managed, pools[n].class \notin Planned(r)
      PROVE  pools[n].class \in Promise!Surplus
  <2>1. /\ pools[n].class \in Classes
        /\ Bought(pools)[pools[n].class].size > 0
        /\ Bought(pools)[pools[n].class].ours
    BY <1>2, HoldingTypes, HoldingFields
  <2>2. Goal[pools[n].class] = 0
    BY <1>1, <1>2, <2>1, CountAssumption DEF Planned, Counts
  <2> QED
    BY <2>1, <2>2 DEF Promise!Surplus
<1>3. ASSUME NEW c \in Promise!Surplus
      PROVE  \E n \in Names : /\ Live(n) /\ pools[n].managed
                              /\ pools[n].class = c /\ c \notin Planned(r)
  <2>1. c \in Classes /\ Bought(pools)[c].size > 0 /\ Bought(pools)[c].ours /\ Goal[c] = 0
    BY <1>3 DEF Promise!Surplus
  <2>2. PICK n \in Names : Live(n) /\ pools[n].class = c
    BY <2>1, BoughtNone DEF Nil, Alive, Live
  <2>3. pools[n].managed
    BY <2>1, <2>2, HoldingTypes, HoldingFields
  <2>4. c \notin Planned(r)
    BY <1>1, <2>1 DEF Planned
  <2> QED
    BY <2>2, <2>3, <2>4
<1> QED
  BY <1>2, <1>3

\* With everything handled, the plan is in place.
LEMMA PlanInPlace ==
    ASSUME SoleState, NEW r \in Runners, r = Sole, Rolling,
           pc[r] = "provision", mem[r].todo = {}
    PROVE  Promise!InPlace
<1>1. Goal = job[r].plan /\ ~job[r].dry
  BY DEF Goal, Rolling
<1>2. ASSUME NEW c \in Classes, Goal[c] > 0 PROVE Bought(pools)[c].size = Goal[c]
  <2>1. c \in Planned(r)
    BY <1>1, <1>2 DEF Planned
  <2>2. PICK n \in Names : Live(n) /\ pools[n].class = c /\ pools[n].desired = job[r].plan[c]
    BY <1>1, <2>1 DEF SoleState, SoleInv, ProgressKept, Provisioned
  <2> QED
    BY <1>1, <2>2, HoldingTypes, HoldingFields
<1> QED
  BY <1>2 DEF Promise!InPlace

\* The pools to retire, and their classes.
LEMMA StaleSurplus ==
    ASSUME SoleState, NEW r \in Runners, r = Sole, Rolling, pc[r] = "delete"
    PROVE  /\ \A n \in mem[r].stale : pools[n].class \in Promise!Surplus
           /\ \A n \in mem[r].stale :
                 (mem[r].stale = {n}) <=> (Promise!Surplus = {pools[n].class})
<1>1. mem[r].stale = {n \in Names : /\ Live(n)
                                    /\ pools[n].managed
                                    /\ pools[n].class \notin Planned(r)}
  BY DEF Rolling, SoleState, SurplusInv, SurplusKnown, StaleExact, Retiring
<1>2. \A n \in mem[r].stale : pools[n].class \in Promise!Surplus
  BY <1>1, SurplusClasses
<1>3. \A c \in Promise!Surplus : \E n \in mem[r].stale : pools[n].class = c
  BY <1>1, SurplusClasses
<1>4. \A n, k \in mem[r].stale : pools[n].class = pools[k].class => n = k
  BY <1>1 DEF SoleState, OnePoolPerClass
<1> QED
  BY <1>2, <1>3, <1>4

\* Every step of the sole run is one of the rollout, or none.
LEMMA StepRolls ==
    ASSUME SoleState, SoleState', NEW r \in Runners, r = Sole, Step(r), ~job[r].dry
    PROVE  [Promise!Next]_(Promise!rollout)
<1> USE DEF Goto, GiveUp, cloud
<1> DEFINE m == mem[r]
<1>a. /\ pools \in [Names -> Pool] /\ job[r] \in Job /\ m \in Memory
      /\ pc \in [Runners -> Labels] /\ mem \in [Runners -> Memory]
  BY DEF SoleState, TypeOK
<1>b. m.lost \subseteq Names /\ m.stale \subseteq Names
  BY <1>a, FieldTypes
<1>c. SurplusKnown(r) /\ SurplusKnown(r)'
  BY DEF SoleState, SurplusInv
<1>d. job' = job
  BY DEF Step, SpotStep, NodeStep, ListPools, DeleteLost, RelistPools, ListError, SkipClass,
         PrepareUpdate, PrepareCreate, CallAccepted, BidRejected, CallError,
         CollectStale, Wake, DeleteStale, DeleteError, ListNodes,
         ListNodesError, UncordonNode
<1>e. Active(r) /\ Rolling /\ Goal = job[r].plan /\ Phase = PhaseOf(pc[r])
  BY StepIsActive DEF Rolling, Goal, Phase
<1>f. Doomed = {pools[n].class : n \in m.lost}
  BY <1>e DEF Doomed
<1>g. pc'[r] \notin Ended =>
        /\ Goal' = Goal /\ Phase' = PhaseOf(pc'[r])
        /\ Doomed' = {pools'[n].class : n \in mem'[r].lost}
  BY <1>d, <1>e DEF Rolling, Goal, Phase, Doomed, Active
<1>h. pc'[r] \in Ended => Promise!Out
  BY DEF Promise!Out, Promise!Unset, Rolling, Goal, Phase, Doomed, Active
<1>i. pc[r] # "cleanup" => m.lost = {} /\ Doomed = {}
  BY <1>c, <1>f DEF SurplusKnown, TodoKnown
<1>j. pc'[r] # "cleanup" /\ pc'[r] \notin Ended => Doomed' = {}
  BY <1>c, <1>g DEF SurplusKnown, TodoKnown
<1>k. Phase # "idle"
  BY <1>a, <1>e DEF PhaseOf, Active, Ended, Labels
<1>l. pools' = pools => Bought(pools') = Bought(pools)
  OBVIOUS
<1>m. ASSUME pools' = pools, cordoned' = cordoned, pc'[r] \in Ended PROVE Promise!End
  BY <1>h, <1>k, <1>m DEF Promise!End
<1>1. CASE ListPools(r)
  <2>1. /\ pools' = pools /\ cordoned' = cordoned /\ pc[r] = "list"
        /\ mem'[r].lost = {n \in Names : Live(n) /\ pools[n].status = "lost"}
        /\ pc'[r] = IF mem'[r].lost = {} THEN "relist" ELSE "cleanup"
    BY <1>1, <1>a DEF ListPools, Memory, Live
  <2>2. Doomed' = {pools[n].class : n \in mem'[r].lost}
    BY <2>1, <1>g DEF Ended
  <2>3. \A c \in Doomed' : c \in Classes /\ Bought(pools)[c].status = "lost"
    BY <2>1, <2>2, HoldingTypes, HoldingFields
  <2>4. ASSUME NEW c \in Classes, Bought(pools)[c].status = "lost" PROVE c \in Doomed'
    <3>1. PICK n \in Names : Live(n) /\ pools[n].class = c
      BY <2>4, BoughtNone DEF Nil, Alive, Live
    <3>2. pools[n].status = "lost"
      BY <2>4, <3>1, HoldingTypes, HoldingFields
    <3> QED
      BY <2>1, <2>2, <3>1, <3>2
  <2>5. Doomed' = {c \in Classes : Bought(pools)[c].status = "lost"}
    BY <2>3, <2>4
  <2>6. (mem'[r].lost = {}) <=> (Doomed' = {})
    BY <2>2
  <2>7. Phase = "begun" /\ Phase' = IF Doomed' = {} THEN "growing" ELSE "clearing"
    BY <2>1, <2>6, <1>e, <1>g DEF PhaseOf, Ended
  <2>8. Promise!Look
    BY <2>1, <2>5, <2>7, <1>g DEF Promise!Look, Ended
  <2> QED
    BY <2>8 DEF Promise!Next
<1>2. CASE DeleteLost(r)
  <2>1. PICK n \in m.lost : /\ pools' \in {pools, Removed(n)}
                            /\ mem' = [mem EXCEPT ![r].lost = @ \ {n}]
                            /\ pc' = [pc EXCEPT ![r] = IF m.lost = {n} THEN "relist" ELSE "cleanup"]
    BY <1>2 DEF DeleteLost
  <2> DEFINE c == pools[n].class
  <2>2. /\ cordoned' = cordoned /\ pc[r] = "cleanup" /\ mem'[r].lost = m.lost \ {n}
        /\ pc'[r] = IF mem'[r].lost = {} THEN "relist" ELSE "cleanup"
    BY <1>2, <2>1, <1>a DEF DeleteLost, Memory
  <2>3. n \in Names /\ Live(n) /\ c \in Classes /\ \A k \in m.lost : Live(k)
    BY <1>b, <1>c, HoldingTypes DEF SurplusKnown, TodoKnown
  <2>4. \A k \in m.lost : pools'[k].class = pools[k].class
    BY <2>1, <1>a, <1>b DEF Removed, Absent
  <2>5. \A k \in m.lost \ {n} : pools[k].class # c
    BY <2>3, <1>b, HoldingTypes DEF Unique, Alive, Live
  <2>6. Doomed' = Doomed \ {c}
    BY <2>2, <2>4, <2>5, <1>f, <1>g DEF Ended
  <2>7. c \in Doomed
    BY <1>f
  <2>8. Bought(pools') \in {Bought(pools), [Bought(pools) EXCEPT ![c] = Nil]}
    BY <2>1, <2>3, RemovedBought
  <2>9. (mem'[r].lost = {}) <=> (Doomed' = {})
    BY <2>2, <1>g DEF Ended
  <2>10. Phase = "clearing" /\ Phase' = IF Doomed' = {} THEN "growing" ELSE "clearing"
    BY <2>2, <2>9, <1>e, <1>g DEF PhaseOf, Ended
  <2>11. Promise!Clear(c)
    BY <2>2, <2>6, <2>7, <2>8, <2>10, <1>g DEF Promise!Clear, Ended, Nil, Promise!Nil
  <2> QED
    BY <2>3, <2>11 DEF Promise!Next
<1>3. CASE RelistPools(r)
  <2>1. /\ pools' = pools /\ cordoned' = cordoned
        /\ pc[r] = "relist" /\ pc'[r] = "provision"
    BY <1>3, <1>a DEF RelistPools
  <2> QED
    BY <2>1, <1>e, <1>g, <1>i, <1>j DEF Promise!rollout, PhaseOf, Ended
<1>4. CASE ListError(r)
  BY <1>4, <1>m, <1>a DEF ListError, Ended, Promise!Next
<1>5. CASE SkipClass(r) \/ PrepareUpdate(r) \/ PrepareCreate(r) \/ BidRejected(r)
  <2>1. /\ pools' = pools /\ cordoned' = cordoned
        /\ pc[r] \in {"provision", "submit"} /\ pc'[r] \in {"provision", "submit"}
    BY <1>5, <1>a DEF SkipClass, PrepareUpdate, PrepareCreate, BidRejected
  <2> QED
    BY <2>1, <1>e, <1>g, <1>i, <1>j DEF Promise!rollout, PhaseOf, Ended
<1>6. CASE CallAccepted(r)
  <2>1. /\ pc[r] = "submit" /\ Admissible(r) /\ pools' = Landed(r)
        /\ cordoned' = cordoned /\ pc'[r] = "provision"
    BY <1>6, <1>a DEF CallAccepted
  <2>2. /\ Phase = "growing" /\ Phase' = "growing" /\ Goal' = Goal
        /\ Doomed' = Doomed
    BY <2>1, <1>e, <1>g, <1>i, <1>j DEF PhaseOf, Ended
  <2>3. m.call.class \in Classes /\ Promise!Grow(m.call.class)
    BY <2>1, <2>2, <1>e, LandedBought DEF Promise!Grow
  <2> QED
    BY <2>3 DEF Promise!Next
<1>7. CASE CallError(r)
  <2>1. /\ pc[r] = "submit" /\ cordoned' = cordoned /\ pc'[r] \in Ended
        /\ pools' = pools \/ (Admissible(r) /\ pools' = Landed(r))
    BY <1>7, <1>a DEF CallError, Ended
  <2>2. CASE pools' = pools
    BY <2>1, <2>2, <1>m DEF Promise!Next
  <2>3. CASE Admissible(r) /\ pools' = Landed(r)
    <3>0. Promise!Out
      BY <2>1, <1>h
    <3>1. Phase = "growing"
      BY <2>1, <1>e DEF PhaseOf, Ended
    <3>2. m.call.class \in Classes /\ Promise!Grow(m.call.class)
      BY <2>1, <2>3, <3>0, <3>1, <1>e, LandedBought DEF Promise!Grow
    <3> QED
      BY <3>2 DEF Promise!Next
  <2> QED
    BY <2>1, <2>2, <2>3
<1>8. CASE CollectStale(r)
  <2>1. /\ pools' = pools /\ cordoned' = cordoned
        /\ pc[r] = "provision" /\ m.todo = {}
        /\ UnusedPools(r) = {} => pc'[r] = "uncordon"
        /\ UnusedPools(r) # {} => pc'[r] \in {"sleep", "delete"}
    BY <1>8, <1>a DEF CollectStale
  <2>2. Promise!InPlace
    BY <2>1, <1>e, PlanInPlace
  <2>3. (UnusedPools(r) = {}) <=> (Promise!Surplus = {})
    BY <2>1, <1>e, UnusedExact, SurplusClasses
  <2>4. /\ Phase = "growing" /\ Goal' = Goal /\ Doomed' = Doomed
        /\ Phase' = IF Promise!Surplus = {} THEN "finishing" ELSE "retiring"
    BY <2>1, <2>3, <1>e, <1>g, <1>i, <1>j DEF PhaseOf, Ended
  <2>5. Promise!Turn
    BY <2>1, <2>2, <2>4 DEF Promise!Turn, Promise!Goes
  <2> QED
    BY <2>5 DEF Promise!Next
<1>9. CASE Wake(r)
  <2>1. /\ pools' = pools /\ cordoned' = cordoned
        /\ pc[r] = "sleep" /\ pc'[r] = "delete"
    BY <1>9, <1>a DEF Wake
  <2> QED
    BY <2>1, <1>e, <1>g, <1>i, <1>j DEF Promise!rollout, PhaseOf, Ended
<1>10. CASE DeleteStale(r)
  <2>1. PICK n \in m.stale : /\ Live(n) /\ pools' = Removed(n)
                             /\ pc' = [pc EXCEPT ![r] = IF m.stale = {n} THEN "uncordon" ELSE "delete"]
    BY <1>10 DEF DeleteStale
  <2>2. pc[r] = "delete" /\ cordoned' = cordoned
    BY <1>10 DEF DeleteStale
  <2>3. n \in Names /\ pools[n].class \in Promise!Surplus
    BY <2>1, <2>2, <1>b, <1>e, StaleSurplus
  <2>4. (m.stale = {n}) <=> (Promise!Surplus = {pools[n].class})
    BY <2>1, <2>2, <1>e, StaleSurplus
  <2>5. /\ Bought(pools') = [Bought(pools) EXCEPT ![pools[n].class] = Nil]
        /\ pools[n].class \in Classes
    BY <2>1, <2>3, RemovedBought
  <2>6. /\ Phase = "retiring" /\ Goal' = Goal /\ Doomed' = Doomed
        /\ Phase' = IF Promise!Surplus = {pools[n].class} THEN "finishing" ELSE "retiring"
    BY <2>1, <2>2, <2>4, <1>a, <1>e, <1>g, <1>i, <1>j DEF PhaseOf, Ended
  <2>7. Promise!Retire(pools[n].class)
    BY <2>2, <2>3, <2>5, <2>6 DEF Promise!Retire, Nil, Promise!Nil
  <2> QED
    BY <2>5, <2>7 DEF Promise!Next
<1>11. CASE DeleteError(r)
  <2>1. /\ pc[r] = "delete" /\ cordoned' = cordoned /\ pc'[r] \in Ended
        /\ pools' = pools \/ \E n \in m.stale : Live(n) /\ pools' = Removed(n)
    BY <1>11, <1>a DEF DeleteError, Ended
  <2>2. CASE pools' = pools
    BY <2>1, <2>2, <1>m DEF Promise!Next
  <2>3. ASSUME NEW n \in m.stale, Live(n), pools' = Removed(n)
        PROVE  Promise!Next
    <3>1. n \in Names /\ pools[n].class \in Promise!Surplus
      BY <2>1, <2>3, <1>b, <1>e, StaleSurplus
    <3>2. /\ Bought(pools') = [Bought(pools) EXCEPT ![pools[n].class] = Nil]
          /\ pools[n].class \in Classes
      BY <2>3, <3>1, RemovedBought
    <3>0. Promise!Out
      BY <2>1, <1>h
    <3>3. Phase = "retiring"
      BY <2>1, <1>e DEF PhaseOf, Ended
    <3>4. Promise!Retire(pools[n].class)
      BY <2>1, <3>0, <3>1, <3>2, <3>3 DEF Promise!Retire, Nil, Promise!Nil
    <3> QED
      BY <3>2, <3>4 DEF Promise!Next
  <2> QED
    BY <2>1, <2>2, <2>3
<1>12. CASE ListNodes(r)
  <2>1. /\ pools' = pools /\ cordoned' = cordoned
        /\ pc[r] = "uncordon" /\ pc'[r] \in {"nodes", "done"}
    BY <1>12, <1>a DEF ListNodes
  <2>2. CASE pc'[r] = "nodes"
    BY <2>1, <2>2, <1>e, <1>g, <1>i, <1>j DEF Promise!rollout, PhaseOf, Ended
  <2>3. CASE pc'[r] = "done"
    BY <2>1, <2>3, <1>m DEF Ended, Promise!Next
  <2> QED
    BY <2>1, <2>2, <2>3
<1>13. CASE ListNodesError(r)
  BY <1>13, <1>m, <1>a DEF ListNodesError, Ended, Promise!Next
<1>14. CASE UncordonNode(r)
  <2>1. PICK k \in m.cords : cordoned' = cordoned \/ cordoned' = cordoned \ {k}
    BY <1>14 DEF UncordonNode
  <2>2. pools' = pools /\ pc[r] = "nodes" /\ pc'[r] \in {"nodes", "done"} /\ k \in Nodes
    BY <1>14, <1>a, <2>1, FieldTypes DEF UncordonNode
  <2>3. CASE cordoned' = cordoned /\ pc'[r] = "nodes"
    BY <2>2, <2>3, <1>e, <1>g, <1>i, <1>j DEF Promise!rollout, PhaseOf, Ended
  <2>4. CASE cordoned' = cordoned /\ pc'[r] = "done"
    BY <2>2, <2>4, <1>m DEF Ended, Promise!Next
  <2>5. CASE cordoned' = cordoned \ {k}
    <3>1. Phase = "finishing"
      BY <2>2, <1>e DEF PhaseOf, Ended
    <3>2. Promise!Out \/ UNCHANGED <<Phase, Goal, Doomed>>
      BY <2>2, <3>1, <1>g, <1>h, <1>i, <1>j DEF PhaseOf, Ended
    <3>3. Promise!Release(k)
      BY <2>2, <2>5, <3>1, <3>2 DEF Promise!Release
    <3> QED
      BY <2>2, <3>3 DEF Promise!Next
  <2> QED
    BY <2>1, <2>2, <2>3, <2>4, <2>5
<1> QED
  BY <1>1, <1>2, <1>3, <1>4, <1>5, <1>6, <1>7, <1>8, <1>9, <1>10, <1>11,
     <1>12, <1>13, <1>14 DEF Step, SpotStep, NodeStep

LEMMA NextRolls ==
    ASSUME NEW one, Runners = {one}, SoleState, SoleState', [Next]_vars
    PROVE  [Promise!Next]_(Promise!rollout)
<1>0. /\ one \in Runners /\ Sole = one /\ \A r \in Runners : r = one
      /\ TypeOK /\ CallOK /\ SnapshotInv
  BY DEF Sole, SoleState
<1>a. mem[one].lost \subseteq Names /\ job[one] \in Job
  BY <1>0, FieldTypes DEF TypeOK
<1>1. CASE Step(one)
  <2>1. CASE ~job[one].dry
    BY <1>0, <1>1, <2>1, StepRolls
  <2>2. CASE job[one].dry
    <3>1. pools' = pools /\ cordoned' = cordoned
      BY <1>0, <1>1, <2>2, DryStep
    <3>2. job' = job
      BY <1>1 DEF Step, SpotStep, NodeStep, ListPools, DeleteLost, RelistPools, ListError, SkipClass,
         PrepareUpdate, PrepareCreate, CallAccepted, BidRejected, CallError,
         CollectStale, Wake, DeleteStale, DeleteError, ListNodes,
         ListNodesError, UncordonNode
    <3> QED
      BY <1>0, <2>2, <3>1, <3>2 DEF Promise!rollout, Rolling, Goal, Doomed, Phase
  <2> QED
    BY <2>1, <2>2
<1>2. CASE Start(one)
  <2>1. /\ pools' = pools /\ cordoned' = cordoned /\ ~Active(one)
        /\ pc'[one] = "list" /\ mem'[one] = Blank
    BY <1>0, <1>2 DEF Start, Goto, cloud, TypeOK
  <2>2. PICK plan \in [Classes -> Counts] :
          (\E c \in Classes : plan[c] > 0) /\ job'[one].plan = plan
    BY <1>0, <1>2 DEF Start, TypeOK
  <2>3. Goal = Promise!Unset /\ Doomed = {} /\ Phase = "idle"
    BY <1>0, <2>1 DEF Rolling, Goal, Doomed, Phase, Promise!Unset
  <2>4. CASE job'[one].dry
    BY <1>0, <2>1, <2>3, <2>4 DEF Promise!rollout, Rolling, Goal, Doomed, Phase, Promise!Unset
  <2>5. CASE ~job'[one].dry
    <3>1. Rolling'
      BY <1>0, <2>1, <2>5 DEF Rolling, Active, Ended
    <3>2. Goal' = plan /\ Doomed' = {} /\ Phase' = "begun"
      <4>1. Goal' = plan /\ Doomed' = {}
        BY <1>0, <2>1, <2>2, <3>1 DEF Goal, Doomed, Blank
      <4>2. Phase' = "begun"
        BY <1>0, <2>1, <3>1 DEF Phase, PhaseOf, Ended
      <4> QED
        BY <4>1, <4>2
    <3>3. plan # Promise!Unset /\ plan \in [Classes -> 0..MaxCount]
      BY <2>2 DEF Promise!Unset, Counts
    <3>4. Promise!Begin
      BY <2>1, <2>3, <3>2, <3>3 DEF Promise!Begin, Promise!Goes
    <3> QED
      BY <3>4 DEF Promise!Next
  <2> QED
    BY <2>4, <2>5
<1>3. CASE Crash(one)
  <2>1. /\ pools' = pools /\ cordoned' = cordoned /\ job' = job /\ Active(one)
        /\ pc'[one] = "failed"
    BY <1>0, <1>3 DEF Crash, GiveUp, Goto, cloud, TypeOK
  <2>2. Goal' = Promise!Unset /\ Doomed' = {} /\ Phase' = "idle"
    BY <1>0, <2>1 DEF Rolling, Goal, Doomed, Phase, Promise!Unset, Active, Ended
  <2>3. CASE job[one].dry
    BY <1>0, <2>1, <2>2, <2>3 DEF Promise!rollout, Rolling, Goal, Doomed, Phase, Promise!Unset
  <2>4. CASE ~job[one].dry
    <3>1. Phase # "idle"
      BY <1>0, <2>1, <2>4 DEF Phase, Rolling, PhaseOf, Active, Ended, TypeOK, Labels
    <3> QED
      BY <2>1, <2>2, <3>1 DEF Promise!Next, Promise!End, Promise!Out
  <2> QED
    BY <2>3, <2>4
<1>4. CASE World
  <2>1. pc' = pc /\ job' = job /\ mem' = mem
    BY <1>4 DEF World, PoolLost, PoolBack, FloorMoves, Cordon
  <2>2. \A n \in Names : pools'[n].class = pools[n].class
    BY <1>0, <1>4, WorldSame DEF Same
  <2>3. Goal' = Goal /\ Phase' = Phase /\ Doomed' = Doomed
    <3>1. Rolling' = Rolling
      BY <2>1 DEF Rolling, Active
    <3>2. Goal' = Goal /\ Phase' = Phase
      BY <2>1, <3>1 DEF Goal, Phase
    <3>3. Doomed' = Doomed
      BY <1>0, <1>a, <2>1, <2>2, <3>1 DEF Doomed
    <3> QED
      BY <3>2, <3>3
  <2>4. ASSUME NEW n \in Names, PoolLost(n) \/ PoolBack(n) PROVE Promise!Weather
    BY <2>3, <2>4, FlippedBought DEF PoolLost, PoolBack, Promise!Weather
  <2>5. ASSUME NEW c \in Classes, FloorMoves(c) PROVE UNCHANGED Promise!rollout
    BY <2>3, <2>5 DEF FloorMoves, Promise!rollout
  <2>6. ASSUME NEW k \in Nodes, Cordon(k) PROVE Promise!Weather
    BY <2>3, <2>6 DEF Cordon, Promise!Weather
  <2> QED
    BY <1>4, <2>4, <2>5, <2>6 DEF World, Promise!Next
<1>5. CASE UNCHANGED vars
  <2>1. Rolling' = Rolling
    BY <1>5 DEF vars, Rolling, Active
  <2> QED
    BY <1>5, <2>1 DEF vars, Promise!rollout, Goal, Doomed, Phase
<1> QED
  BY <1>0, <1>1, <1>2, <1>3, <1>4, <1>5 DEF Next

LEMMA InitRolls ==
    ASSUME NEW one, Runners = {one}, Init, SoleState PROVE Promise!Init
<1>1. Sole = one /\ ~Rolling
  BY DEF Sole, Rolling, Init, Active, Ended
<1> QED
  BY <1>1, HoldingTypes DEF Init, Promise!Init, Goal, Doomed, Phase, Promise!Unset

\* A run that does not overlap with another one is a rollout, in a cloudspace
\* of any size and for every plan.
THEOREM RunsAreRollouts ==
    ASSUME NEW one, Runners = {one}
    PROVE  Init /\ OnePoolPerClass /\ [][Next]_vars => KeepsPromise
<1>1. Init /\ OnePoolPerClass => SoleState
  BY InitTypes, InitSnapshot, InitSole, InitSurplus DEF SoleState
<1>2. Init /\ OnePoolPerClass => Promise!Init
  BY <1>1, InitRolls
<1>3. SoleState /\ SoleState' /\ [Next]_vars => [Promise!Next]_(Promise!rollout)
  BY NextRolls
<1> QED
  BY <1>2, <1>3, SoleStates, PTL DEF KeepsPromise, Promise!Spec
=============================================================================
