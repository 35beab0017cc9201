--------------------------- MODULE SharedPoolsProofs ---------------------------
(* Theorems about SharedPools: the runs' snapshots survive the probe, and so  *)
(* what the runs and the probe may delete holds for any number of runs.       *)
EXTENDS SharedPools, ApplyPlanProofs

\* The snapshots of the runs, when a step moves no run and adds at most one
\* pool, of a name that no run knows.
LEMMA StillSnapshots ==
    ASSUME TypeOK, CallOK, SnapshotInv, NEW n \in Names,
           Fresh(n), Calm(Names \ {n}),
           pc' = pc, job' = job, mem' = mem
    PROVE  SnapshotInv'
<1> SUFFICES ASSUME NEW r \in Runners
             PROVE  SeenOK(r)' /\ StaleOK(r)' /\ CreateOK(r)' /\ PhaseOK(r)'
  BY DEF SnapshotInv
<1>1. SeenOK(r) /\ StaleOK(r) /\ CreateOK(r) /\ PhaseOK(r)
  BY DEF SnapshotInv
<1>2. mem[r].listed \subseteq Names \ {n} /\ mem[r].call.name # n
  BY FieldTypes DEF TypeOK, Fresh
<1>3. pc[r] = "submit" => mem[r].call.name \in Names \ {n}
  BY <1>2 DEF CallOK
<1>4. SeenOK(r)' /\ StaleOK(r)'
  BY <1>1, <1>2 DEF SeenOK, StaleOK, Planned, Calm
<1>5. CreateOK(r)'
  BY <1>1, <1>3 DEF CreateOK, Creates, Calm
<1>6. PhaseOK(r)'
  BY <1>1 DEF PhaseOK, Retiring
<1> QED
  BY <1>4, <1>5, <1>6

\* The same when no pool appears.
LEMMA CalmSnapshots ==
    ASSUME TypeOK, CallOK, SnapshotInv, Calm(Names),
           pc' = pc, job' = job, mem' = mem
    PROVE  SnapshotInv'
<1> SUFFICES ASSUME NEW r \in Runners
             PROVE  SeenOK(r)' /\ StaleOK(r)' /\ CreateOK(r)' /\ PhaseOK(r)'
  BY DEF SnapshotInv
<1>1. SeenOK(r) /\ StaleOK(r) /\ CreateOK(r) /\ PhaseOK(r)
  BY DEF SnapshotInv
<1>2. mem[r].listed \subseteq Names
  BY FieldTypes DEF TypeOK
<1>3. pc[r] = "submit" => mem[r].call.name \in Names
  BY DEF CallOK
<1> QED
  BY <1>1, <1>2, <1>3
  DEF SeenOK, StaleOK, CreateOK, PhaseOK, Creates, Planned, Retiring, Calm

\* The pool of an accepted probe.
LEMMA ProbingPool ==
    ASSUME pools \in [Names -> Pool], NEW c \in Listed, NEW n \in Names,
           pools' = With(c, n)
    PROVE  /\ pools' \in [Names -> Pool]
           /\ Calm(Names \ {n})
           /\ Live(n)'
           /\ pools'[n].class = c
           /\ ~pools'[n].managed
<1>1. Probing(c) \in Pool
  BY ListedAssumption, CountAssumption DEF Probing, Pool, Counts
<1> QED
  BY <1>1 DEF With, Probing, Calm, Live

SharedInv == TypeOK /\ CallOK /\ SnapshotInv /\ ProbeInv

LEMMA SharedInitially == SharedInit => SharedInv
  BY InitTypes, InitSnapshot
  DEF SharedInit, ProbeInit, ProbeInv, SharedInv

\* What a step of the probe does to the pools.
LEMMA ProbeMoves ==
    ASSUME SharedInv, Probe
    PROVE  /\ pc' = pc /\ job' = job /\ mem' = mem
           /\ floor' = floor /\ cordoned' = cordoned
           /\ \/ pools' = pools
              \/ /\ at = "created"
                 /\ pools' = Removed(mine.name)
              \/ \E c \in Listed, n \in Names : Fresh(n) /\ pools' = With(c, n)
<1>1. CASE ProbeStart \/ ProbeWrite \/ ProbeCrash
  BY <1>1 DEF ProbeStart, ProbeWrite, ProbeCrash, vars
<1>2. CASE ProbeDelete
  BY <1>2 DEF ProbeDelete
<1>3. CASE \E c \in Listed : ProbeRefused(c)
  BY <1>3 DEF ProbeRefused, vars
<1>4. CASE \E c \in Listed : ProbeError(c)
  BY <1>4 DEF ProbeError
<1>5. CASE \E c \in Listed : ProbeAccepted(c)
  BY <1>5 DEF ProbeAccepted
<1> QED
  BY <1>1, <1>2, <1>3, <1>4, <1>5 DEF Probe

LEMMA ProbeKeepsRuns ==
    ASSUME SharedInv, Probe PROVE (TypeOK /\ CallOK /\ SnapshotInv)'
<1> USE ProbeMoves DEF SharedInv
<1>1. CASE pools' = pools
  BY <1>1, SameCalm, CalmSnapshots DEF TypeOK, CallOK
<1>2. CASE at = "created" /\ pools' = Removed(mine.name)
  <2>1. mine.name \in Names /\ pools \in [Names -> Pool]
    BY <1>2 DEF ProbeInv, TypeOK
  <2>2. pools' \in [Names -> Pool]
    BY <1>2, <2>1, RemovedType
  <2>3. Calm(Names)
    BY <1>2, <2>1, RemovedCalm
  <2> QED
    BY <2>2, <2>3, CalmSnapshots DEF TypeOK, CallOK
<1>3. ASSUME NEW c \in Listed, NEW n \in Names, Fresh(n), pools' = With(c, n)
      PROVE  (TypeOK /\ CallOK /\ SnapshotInv)'
  <2>1. pools' \in [Names -> Pool] /\ Calm(Names \ {n})
    BY <1>3, ProbingPool DEF TypeOK
  <2> QED
    BY <1>3, <2>1, StillSnapshots DEF TypeOK, CallOK
<1> QED
  BY <1>1, <1>2, <1>3

LEMMA ProbeKeepsProbe == ASSUME SharedInv, Probe PROVE ProbeInv'
<1> USE DEF SharedInv
<1>1. CASE ProbeStart \/ ProbeWrite \/ ProbeCrash
  BY <1>1 DEF ProbeStart, ProbeWrite, ProbeCrash, ProbeInv, vars
<1>2. CASE ProbeDelete
  BY <1>2 DEF ProbeDelete, ProbeInv
<1>3. CASE \E c \in Listed : ProbeRefused(c) \/ ProbeError(c)
  BY <1>3 DEF ProbeRefused, ProbeError, ProbeInv
<1>4. ASSUME NEW c \in Listed, ProbeAccepted(c) PROVE ProbeInv'
  <2>1. PICK n \in Names : /\ Fresh(n)
                           /\ pools' = With(c, n)
                           /\ mine' = [class |-> c, name |-> n]
    BY <1>4 DEF ProbeAccepted
  <2>2. Live(n)' /\ pools'[n].class = c /\ ~pools'[n].managed
    BY <2>1, ProbingPool DEF TypeOK
  <2>3. \A r \in Runners : mem[r].call.name # n
    BY <2>1 DEF Fresh
  <2> QED
    BY <1>4, <2>1, <2>2, <2>3 DEF ProbeAccepted, ProbeInv, Creates
<1> QED
  BY <1>1, <1>2, <1>3, <1>4 DEF Probe

\* A request of a run leaves class and label of every pool it did not make.
LEMMA StepKeepsLabels ==
    ASSUME TypeOK, CallOK, SnapshotInv, NEW r \in Runners, Step(r),
           NEW n \in Names,
           pc[r] = "submit" /\ Creates(r) => mem[r].call.name # n
    PROVE  /\ pools'[n].class = pools[n].class
           /\ Live(n)' => Live(n) /\ pools'[n].managed = pools[n].managed
<1>1. CASE pools' = pools
  BY <1>1 DEF Live
<1>2. CASE DeleteLost(r) \/ DeleteStale(r) \/ DeleteError(r)
  <2>1. CASE \E k \in Names : pools' = Removed(k)
    BY <2>1, RemovedCalm DEF TypeOK, Calm
  <2>2. mem[r].lost \subseteq Names /\ mem[r].stale \subseteq Names
    BY FieldTypes DEF TypeOK
  <2> QED
    BY <1>1, <1>2, <2>1, <2>2 DEF DeleteLost, DeleteStale, DeleteError
<1>3. CASE CallAccepted(r) \/ CallError(r)
  <2>1. CASE pc[r] = "submit" /\ Admissible(r) /\ pools' = Landed(r)
    BY <2>1, LandedCalm DEF Calm
  <2> QED
    BY <1>1, <1>3, <2>1 DEF CallAccepted, CallError
<1> QED
  BY <1>1, <1>2, <1>3
  DEF Step, SpotStep, NodeStep, ListPools, RelistPools, ListError, SkipClass, PrepareUpdate,
      PrepareCreate, BidRejected, CollectStale, Wake, ListNodes,
      ListNodesError, UncordonNode, cloud

\* A request that is not answered yet is the one it was.
LEMMA StaysSubmitted ==
    ASSUME TypeOK, [Next]_vars, NEW r \in Runners, pc[r] = "submit", pc'[r] = "submit"
    PROVE  /\ mem'[r].seen = mem[r].seen
           /\ mem'[r].call.class = mem[r].call.class
           /\ mem'[r].call.name = mem[r].call.name
<1>1. CASE mem' = mem
  BY <1>1
<1>2. ASSUME NEW q \in Runners, q # r, Step(q) \/ Start(q) \/ Crash(q)
      PROVE  mem'[r] = mem[r]
  BY <1>2
  DEF TypeOK, Step, SpotStep, NodeStep, ListPools, DeleteLost, RelistPools, ListError, SkipClass,
      PrepareUpdate, PrepareCreate, CallAccepted, BidRejected, CallError,
      CollectStale, Wake, DeleteStale, DeleteError, ListNodes, ListNodesError,
      UncordonNode, Start, Crash, GiveUp
<1>3. CASE Start(r) \/ Crash(r)
  BY <1>3 DEF Start, Crash, GiveUp, Goto, TypeOK
<1>4. CASE Step(r)
  <2>1. BidRejected(r)
    BY <1>4
    DEF TypeOK, Step, SpotStep, NodeStep, ListPools, DeleteLost, RelistPools, ListError, SkipClass,
        PrepareUpdate, PrepareCreate, CallAccepted, CallError, CollectStale,
        Wake, DeleteStale, DeleteError, ListNodes, ListNodesError,
        UncordonNode, GiveUp, Goto
  <2> QED
    BY <2>1, FieldTypes DEF BidRejected, TypeOK, Memory, Call
<1>5. CASE World
  BY <1>1, <1>5 DEF World, PoolLost, PoolBack, FloorMoves, Cordon
<1> QED
  BY <1>1, <1>2, <1>3, <1>4, <1>5 DEF Next, vars

LEMMA ApplyKeepsProbe == ASSUME SharedInv, Apply \/ UNCHANGED sharedVars PROVE ProbeInv'
<1> USE DEF SharedInv
<1>0. UNCHANGED probe /\ [Next]_vars
  BY DEF Apply, sharedVars
<1>1. CASE at # "created"
  BY <1>0, <1>1 DEF ProbeInv, probe
<1>2. CASE at = "created"
  <2>0. PICK n \in Names : n = mine.name
    BY <1>2 DEF ProbeInv
  <2>1. /\ mine.class \in Listed /\ n \in Names /\ n # None
        /\ Live(n) => pools[n].class = mine.class /\ ~pools[n].managed
        /\ \A r \in Runners : pc[r] = "submit" /\ Creates(r) => mem[r].call.name # n
    BY <1>2, <2>0, NoneAssumption DEF ProbeInv
  <2>2. /\ pools'[n].class = pools[n].class
        /\ Live(n)' => Live(n) /\ pools'[n].managed = pools[n].managed
    <3>1. CASE \E r \in Runners : Step(r)
      BY <2>1, <3>1, StepKeepsLabels
    <3>2. CASE pools' = pools
      BY <3>2 DEF Live
    <3>3. CASE World
      BY <2>1, <3>3 DEF World, PoolLost, PoolBack, FloorMoves, Cordon, Live, TypeOK, Pool
    <3> QED
      BY <1>0, <3>1, <3>2, <3>3 DEF Next, Start, Crash, vars, cloud
  <2>3. ASSUME NEW r \in Runners, pc'[r] = "submit", Creates(r)'
        PROVE  mem'[r].call.name # n
    <3>1. CASE pc[r] # "submit"
      <4>1. CASE Apply
        BY <2>0, <2>3, <3>1, <4>1 DEF Apply, MintsOwn
      <4> QED
        BY <2>3, <3>1, <4>1 DEF sharedVars, vars
    <3>2. CASE pc[r] = "submit"
      BY <1>0, <2>1, <2>3, <3>2, StaysSubmitted DEF Creates
    <3> QED
      BY <3>1, <3>2
  <2> QED
    BY <1>0, <1>2, <2>0, <2>1, <2>2, <2>3 DEF ProbeInv, probe
<1> QED
  BY <1>1, <1>2

LEMMA SharedStep == SharedInv /\ [SharedNext]_sharedVars => SharedInv'
<1> SUFFICES ASSUME SharedInv, [SharedNext]_sharedVars PROVE SharedInv'
  OBVIOUS
<1>1. CASE Apply \/ UNCHANGED sharedVars
  <2>1. [Next]_vars
    BY <1>1 DEF Apply, sharedVars
  <2> QED
    BY <1>1, <2>1, NextTypes, NextSnapshot, ApplyKeepsProbe DEF SharedInv
<1>2. CASE Probe
  BY <1>2, ProbeKeepsRuns, ProbeKeepsProbe DEF SharedInv
<1> QED
  BY <1>1, <1>2 DEF SharedNext

\* The snapshots of the runs and the probe's claim on its pool hold whatever
\* the others do to the pools.
THEOREM SharedSnapshots == SharedSpec => []SharedInv
<1> QED
  BY SharedInitially, SharedStep, PTL DEF SharedSpec

\* With the probe among them, a pool is deleted only by who means it.
THEOREM SharedDeletions == SharedSpec => DeletionsMeant
<1> DEFINE Means(n) ==
      \/ /\ at = "created"
         /\ n = mine.name
         /\ pools[n].class = mine.class
         /\ ~pools[n].managed
      \/ \E r \in Runners :
            /\ ~job[r].dry
            /\ \/ n \in mem[r].lost
               \/ /\ pc[r] = "delete"
                  /\ mem[r].todo = {}
                  /\ pools[n].managed
                  /\ pools[n].class \notin Planned(r)
<1>1. SharedInv /\ [SharedNext]_sharedVars =>
        \A n \in Names : Live(n) /\ ~Live(n)' => Means(n)
  <2> SUFFICES ASSUME SharedInv, [SharedNext]_sharedVars,
                      NEW n \in Names, Live(n), ~Live(n)'
               PROVE  Means(n)
    OBVIOUS
  <2> USE DEF SharedInv
  <2>0. pools' # pools
    BY DEF Live
  <2>1. CASE Probe
    <3>1. CASE at = "created" /\ pools' = Removed(mine.name)
      <4>1. mine.name = n
        BY <3>1 DEF ProbeInv, Removed, Live, TypeOK
      <4> QED
        BY <3>1, <4>1 DEF ProbeInv
    <3>2. ASSUME NEW c \in Listed, NEW k \in Names, Fresh(k), pools' = With(c, k)
          PROVE  FALSE
      BY <3>2 DEF With, Probing, Live, TypeOK
    <3> QED
      BY <2>0, <2>1, <3>1, <3>2, ProbeMoves
  <2>2. CASE Apply
    <3>1. ~World
      BY DEF World, PoolLost, PoolBack, FloorMoves, Cordon, Live, TypeOK, Pool
    <3>2. PICK r \in Runners : Step(r)
      BY <2>0, <2>2, <3>1 DEF Apply, Next, Start, Crash, cloud
    <3> QED
      BY <3>2, StepDeletes
  <2> QED
    BY <2>0, <2>1, <2>2 DEF SharedNext, sharedVars, vars
<1> QED
  BY <1>1, SharedSnapshots, PTL DEF SharedSpec, DeletionsMeant
=============================================================================
