-------------------------- MODULE ApplyPlanProofs --------------------------
(* Theorems about ApplyPlan, for every set of runs, classes and names.     *)
EXTENDS ApplyPlan, TLAPS

-----------------------------------------------------------------------------
(* Types.                                                                  *)

LEMMA RoundBidType == ASSUME NEW p \in Nat, NEW b \in RoundBids(p) PROVE b \in Nat
  BY DEF RoundBids

LEMMA BlankType == Blank \in Memory
  BY CountAssumption DEF Memory, Blank, Seen, Unseen, Call, NoCall, Counts

\* Every assignment to a local variable keeps the local variables typed.
LEMMA LocalTypes ==
    ASSUME NEW m \in Memory
    PROVE  /\ \A L, S \in SUBSET Names :
                 [m EXCEPT !.listed = L, !.lost = S] \in Memory
           /\ \A S \in SUBSET Names : [m EXCEPT !.lost = S] \in Memory
           /\ \A L \in SUBSET Names, T \in SUBSET Classes, s \in [Classes -> Seen] :
                 [m EXCEPT !.listed = L, !.todo = T, !.seen = s] \in Memory
           /\ \A T \in SUBSET Classes : [m EXCEPT !.todo = T] \in Memory
           /\ \A k \in Call : [m EXCEPT !.call = k] \in Memory
           /\ \A T \in SUBSET Classes, k \in Call :
                 [m EXCEPT !.todo = T, !.call = k] \in Memory
           /\ \A S \in SUBSET Names : [m EXCEPT !.stale = S] \in Memory
           /\ \A K \in SUBSET Nodes : [m EXCEPT !.cords = K] \in Memory
  BY DEF Memory

LEMMA FieldTypes ==
    ASSUME NEW m \in Memory
    PROVE  /\ m.listed \in SUBSET Names /\ m.lost \in SUBSET Names
           /\ m.seen \in [Classes -> Seen] /\ m.todo \in SUBSET Classes
           /\ m.call \in Call /\ m.stale \in SUBSET Names
           /\ m.cords \in SUBSET Nodes
  BY DEF Memory

LEMMA RemovedType ==
    ASSUME pools \in [Names -> Pool], NEW n \in Names
    PROVE  Removed(n) \in [Names -> Pool]
<1>1. Absent(pools[n].class) \in Pool
  BY CountAssumption DEF Absent, Pool, Counts
<1> QED
  BY <1>1 DEF Removed

\* A request in flight names a class and a pool.
CallOK ==
    \A r \in Runners : pc[r] = "submit" =>
        /\ mem[r].call.class \in Classes
        /\ mem[r].call.name \in Names

LEMMA LandedType ==
    ASSUME pools \in [Names -> Pool], NEW r \in Runners, job[r] \in Job,
           mem[r].call.class \in Classes, mem[r].call.name \in Names
    PROVE  Landed(r) \in [Names -> Pool]
<1> DEFINE k == mem[r].call
           c == job[r].plan[k.class]
<1>1. c \in Counts
  BY DEF Job
<1>2. [class |-> k.class, desired |-> c, managed |-> TRUE, status |-> "ok"] \in Pool
  BY <1>1 DEF Pool
<1>3. [pools[k.name] EXCEPT !.desired = c] \in Pool
  <2>1. pools[k.name] \in Pool
    OBVIOUS
  <2> QED BY <2>1, <1>1 DEF Pool
<1> QED
  BY <1>2, <1>3 DEF Landed

\* Minimum bids are prices of their classes, also after one has moved.
LEMMA PricesType ==
    /\ \A c \in Classes : \A price \in Prices[c] : price \in Nat
    /\ \A f \in Minimums : \A c \in Classes : f[c] \in Nat
    /\ \A f \in Minimums : \A c \in Classes : \A price \in Prices[c] :
          [f EXCEPT ![c] = price] \in Minimums
  BY PriceAssumption DEF Minimums

LEMMA InitTypes == Init => TypeOK /\ CallOK
<1> SUFFICES ASSUME Init PROVE TypeOK /\ CallOK
  OBVIOUS
<1>1. pools \in [Names -> Pool]
  <2>1. Absent(None) \in Pool
    BY CountAssumption DEF Absent, Pool, Counts
  <2>2. [class : Classes, desired : Counts \ {0}, managed : BOOLEAN,
         status : {"ok", "lost"}] \subseteq Pool
    BY DEF Pool
  <2> QED
    BY <2>1, <2>2 DEF Init
<1>2. job \in [Runners -> Job]
  BY CountAssumption DEF Init, Job, NoJob, Counts
<1>3. mem \in [Runners -> Memory]
  BY BlankType DEF Init
<1> QED
  BY <1>1, <1>2, <1>3 DEF Init, TypeOK, CallOK, Labels, Ended

\* What a step of r assigns: the other runs keep their place and memory.
LEMMA AssignTypes ==
    ASSUME TypeOK, CallOK, NEW r \in Runners, NEW m \in Memory,
           NEW label \in Labels,
           pc' = [pc EXCEPT ![r] = label], mem' = [mem EXCEPT ![r] = m],
           job' = job, pools' \in [Names -> Pool], floor' = floor,
           cordoned' \in SUBSET Nodes,
           label = "submit" => m.call.class \in Classes /\ m.call.name \in Names
    PROVE  TypeOK' /\ CallOK'
  BY DEF TypeOK, CallOK

LEMMA StepTypes ==
    ASSUME TypeOK, CallOK, NEW r \in Runners, Step(r)
    PROVE  TypeOK' /\ CallOK'
<1> USE DEF Goto, GiveUp, cloud
<1> DEFINE m == mem[r]
<1>a. /\ pools \in [Names -> Pool] /\ job[r] \in Job /\ m \in Memory
      /\ cordoned \in SUBSET Nodes /\ pc[r] \in Labels
      /\ floor \in Minimums
  BY DEF TypeOK
<1>b. /\ m.listed \in SUBSET Names /\ m.lost \in SUBSET Names
      /\ m.seen \in [Classes -> Seen] /\ m.todo \in SUBSET Classes
      /\ m.call \in Call /\ m.stale \in SUBSET Names
      /\ m.cords \in SUBSET Nodes
  BY <1>a, FieldTypes
<1>c. {"failed", "done", "list", "cleanup", "relist", "provision", "submit",
       "sleep", "delete", "uncordon", "nodes"} \subseteq Labels
  BY DEF Labels, Ended
<1>1. CASE ListPools(r)
  <2> DEFINE listed == {n \in Names : Live(n)}
             lost   == {n \in listed : pools[n].status = "lost"}
             m2     == [m EXCEPT !.listed = listed, !.lost = lost]
             label  == IF lost = {} THEN "relist" ELSE "cleanup"
  <2>1. m2 \in Memory
    BY <1>a, LocalTypes
  <2>2. mem' = [mem EXCEPT ![r] = m2] /\ pc' = [pc EXCEPT ![r] = label]
    BY <1>1 DEF ListPools
  <2>3. label \in Labels /\ label # "submit"
    BY <1>c
  <2> HIDE DEF m2, label
  <2> QED
    BY <1>1, <1>a, <2>1, <2>2, <2>3, AssignTypes DEF ListPools
<1>2. CASE DeleteLost(r)
  <2>1. PICK n \in m.lost :
          /\ pools' = Removed(n) \/ UNCHANGED pools
          /\ mem' = [mem EXCEPT ![r] = [m EXCEPT !.lost = m.lost \ {n}]]
          /\ pc' = [pc EXCEPT ![r] = IF m.lost = {n} THEN "relist"
                                     ELSE "cleanup"]
    BY <1>2 DEF DeleteLost
  <2>2. [m EXCEPT !.lost = m.lost \ {n}] \in Memory
    BY <1>a, <1>b, LocalTypes
  <2>3. pools' \in [Names -> Pool]
    BY <2>1, <1>a, <1>b, RemovedType
  <2>4. (IF m.lost = {n} THEN "relist" ELSE "cleanup") \in Labels \ {"submit"}
    BY <1>c
  <2> QED
    BY <1>2, <1>a, <2>1, <2>2, <2>3, <2>4, AssignTypes DEF DeleteLost
<1>3. CASE RelistPools(r)
  <2>1. PICK last \in [Classes -> Names \cup {None}] :
          /\ \A c \in Classes : last[c] # None => last[c] \in Names
          /\ mem' = [mem EXCEPT ![r] = [m EXCEPT
                !.listed = {n \in Names : Live(n)},
                !.todo = Planned(r),
                !.seen = [c \in Classes |->
                    IF last[c] = None THEN Unseen
                    ELSE [name |-> last[c],
                          desired |-> pools[last[c]].desired,
                          managed |-> pools[last[c]].managed]]]]
    BY <1>3 DEF RelistPools
  <2> DEFINE seen == [c \in Classes |->
                    IF last[c] = None THEN Unseen
                    ELSE [name |-> last[c],
                          desired |-> pools[last[c]].desired,
                          managed |-> pools[last[c]].managed]]
             m2   == [m EXCEPT !.listed = {n \in Names : Live(n)},
                               !.todo = Planned(r), !.seen = seen]
  <2>2. seen \in [Classes -> Seen]
    BY <2>1, <1>a, CountAssumption DEF Seen, Unseen, Pool, Counts
  <2>3. m2 \in Memory
    BY <2>2, <1>a, LocalTypes DEF Planned
  <2>4. mem' = [mem EXCEPT ![r] = m2]
    BY <2>1
  <2> HIDE DEF m2
  <2> QED
    BY <1>3, <1>a, <1>c, <2>3, <2>4, AssignTypes DEF RelistPools
<1>4. CASE ListError(r)
  BY <1>4, <1>a, <1>c, BlankType, AssignTypes DEF ListError
<1>5. CASE SkipClass(r)
  <2>1. PICK c \in m.todo :
          mem' = [mem EXCEPT ![r] = [m EXCEPT !.todo = m.todo \ {c}]]
    BY <1>5 DEF SkipClass
  <2>2. [m EXCEPT !.todo = m.todo \ {c}] \in Memory
    BY <1>a, <1>b, LocalTypes
  <2>3. pc' = [pc EXCEPT ![r] = pc[r]]
    BY <1>5 DEF SkipClass, TypeOK
  <2> QED
    BY <1>5, <1>a, <1>c, <2>1, <2>2, <2>3, AssignTypes DEF SkipClass
<1>6. CASE PrepareUpdate(r)
  <2>1. PICK c \in m.todo, bid \in Nat :
          /\ m.seen[c].name # None
          /\ mem' = [mem EXCEPT ![r] = [m EXCEPT !.call =
               [class |-> c, name |-> m.seen[c].name,
                bid |-> bid, min |-> 0, retried |-> FALSE]]]
    BY <1>6, <1>b, RoundBidType, PricesType DEF PrepareUpdate
  <2> DEFINE call == [class |-> c, name |-> m.seen[c].name,
                      bid |-> bid, min |-> 0, retried |-> FALSE]
             m2   == [m EXCEPT !.call = call]
  <2>2. m.seen[c].name \in Names
    BY <2>1, <1>b DEF Seen
  <2>3. call \in Call /\ call.class \in Classes /\ call.name \in Names
    BY <2>2, <1>b DEF Call
  <2>4. m2 \in Memory /\ m2.call = call
    BY <2>3, <1>a, LocalTypes DEF Memory
  <2>5. mem' = [mem EXCEPT ![r] = m2]
    BY <2>1
  <2> HIDE DEF m2, call
  <2> QED
    BY <1>6, <1>a, <1>c, <2>3, <2>4, <2>5, AssignTypes DEF PrepareUpdate
<1>7. CASE PrepareCreate(r)
  <2>1. PICK c \in m.todo, n \in Names, bid \in Nat :
          mem' = [mem EXCEPT ![r] = [m EXCEPT !.call =
               [class |-> c, name |-> n,
                bid |-> bid, min |-> 0, retried |-> FALSE]]]
    BY <1>7, <1>b, RoundBidType, PricesType DEF PrepareCreate
  <2> DEFINE call == [class |-> c, name |-> n,
                      bid |-> bid, min |-> 0, retried |-> FALSE]
             m2   == [m EXCEPT !.call = call]
  <2>3. call \in Call /\ call.class \in Classes /\ call.name \in Names
    BY <1>b DEF Call
  <2>4. m2 \in Memory /\ m2.call = call
    BY <2>3, <1>a, LocalTypes DEF Memory
  <2>5. mem' = [mem EXCEPT ![r] = m2]
    BY <2>1
  <2> HIDE DEF m2, call
  <2> QED
    BY <1>7, <1>a, <1>c, <2>3, <2>4, <2>5, AssignTypes DEF PrepareCreate
<1>8. CASE CallAccepted(r)
  <2> DEFINE m2 == [m EXCEPT !.todo = m.todo \ {m.call.class}, !.call = NoCall]
  <2>1. NoCall \in Call
    BY DEF NoCall, Call
  <2>2. m2 \in Memory
    BY <2>1, <1>a, <1>b, LocalTypes
  <2>3. mem' = [mem EXCEPT ![r] = m2] /\ pc' = [pc EXCEPT ![r] = "provision"]
    BY <1>8 DEF CallAccepted
  <2>4. pools' \in [Names -> Pool]
    BY <1>8, <1>a, LandedType DEF CallAccepted, CallOK
  <2> HIDE DEF m2
  <2> QED
    BY <1>8, <1>a, <1>c, <2>2, <2>3, <2>4, AssignTypes DEF CallAccepted
<1>9. CASE BidRejected(r)
  <2> DEFINE min == floor[m.call.class]
  <2>0. PICK bid \in RoundBids(min) :
          mem' = [mem EXCEPT ![r] = [m EXCEPT !.call =
                    [m.call EXCEPT !.bid = bid, !.min = min, !.retried = TRUE]]]
    BY <1>9 DEF BidRejected
  <2> DEFINE call == [m.call EXCEPT !.bid = bid, !.min = min, !.retried = TRUE]
             m2   == [m EXCEPT !.call = call]
  <2>1. m.call.class \in Classes /\ m.call.name \in Names
    BY <1>9 DEF BidRejected, CallOK
  <2>2. min \in Nat /\ bid \in Nat
    BY <2>1, <1>a, RoundBidType, PricesType
  <2>3. call \in Call /\ call.class \in Classes /\ call.name \in Names
    BY <2>1, <2>2, <1>b DEF Call
  <2>4. m2 \in Memory /\ m2.call = call
    BY <2>3, <1>a, LocalTypes DEF Memory
  <2>5. mem' = [mem EXCEPT ![r] = m2] /\ pc' = [pc EXCEPT ![r] = pc[r]]
    BY <1>9, <2>0 DEF BidRejected, TypeOK
  <2> HIDE DEF m2, call
  <2> QED
    BY <1>9, <1>a, <2>3, <2>4, <2>5, AssignTypes DEF BidRejected
<1>10. CASE CallError(r)
  <2>1. pools' \in [Names -> Pool]
    BY <1>10, <1>a, LandedType DEF CallError, CallOK
  <2> QED
    BY <1>10, <1>a, <1>c, <2>1, BlankType, AssignTypes DEF CallError
<1>11. CASE CollectStale(r)
  <2> DEFINE m2    == [m EXCEPT !.stale = UnusedPools(r)]
             label == IF UnusedPools(r) = {} THEN "uncordon"
                      ELSE IF job[r].delay THEN "sleep" ELSE "delete"
  <2>1. UnusedPools(r) \in SUBSET Names
    BY <1>b DEF UnusedPools, Seen
  <2>2. m2 \in Memory
    BY <2>1, <1>a, LocalTypes
  <2>3. mem' = [mem EXCEPT ![r] = m2] /\ pc' = [pc EXCEPT ![r] = label]
    BY <1>11 DEF CollectStale
  <2>4. label \in Labels /\ label # "submit"
    BY <1>c
  <2> HIDE DEF m2, label
  <2> QED
    BY <1>11, <1>a, <2>2, <2>3, <2>4, AssignTypes DEF CollectStale
<1>12. CASE Wake(r)
  <2>1. mem' = [mem EXCEPT ![r] = m]
    BY <1>12 DEF Wake, TypeOK
  <2> QED
    BY <1>12, <1>a, <1>c, <2>1, AssignTypes DEF Wake
<1>13. CASE DeleteStale(r)
  <2>1. PICK n \in m.stale :
          /\ pools' = Removed(n)
          /\ mem' = [mem EXCEPT ![r] = [m EXCEPT !.stale = m.stale \ {n}]]
          /\ pc' = [pc EXCEPT ![r] = IF m.stale = {n} THEN "uncordon"
                                     ELSE "delete"]
    BY <1>13 DEF DeleteStale
  <2>2. [m EXCEPT !.stale = m.stale \ {n}] \in Memory
    BY <1>a, <1>b, LocalTypes
  <2>3. pools' \in [Names -> Pool]
    BY <2>1, <1>a, <1>b, RemovedType
  <2>4. (IF m.stale = {n} THEN "uncordon" ELSE "delete") \in Labels \ {"submit"}
    BY <1>c
  <2> QED
    BY <1>13, <1>a, <2>1, <2>2, <2>3, <2>4, AssignTypes DEF DeleteStale
<1>14. CASE DeleteError(r)
  <2>1. pools' \in [Names -> Pool]
    BY <1>14, <1>a, <1>b, RemovedType DEF DeleteError
  <2> QED
    BY <1>14, <1>a, <1>c, <2>1, BlankType, AssignTypes DEF DeleteError
<1>15. CASE ListNodes(r)
  <2> DEFINE m2    == [m EXCEPT !.cords = cordoned]
             label == IF cordoned = {} THEN "done" ELSE "nodes"
  <2>1. m2 \in Memory
    BY <1>a, LocalTypes
  <2>2. mem' = [mem EXCEPT ![r] = m2] /\ pc' = [pc EXCEPT ![r] = label]
    BY <1>15 DEF ListNodes
  <2>3. label \in Labels /\ label # "submit"
    BY <1>c
  <2> HIDE DEF m2, label
  <2> QED
    BY <1>15, <1>a, <2>1, <2>2, <2>3, AssignTypes DEF ListNodes
<1>16. CASE ListNodesError(r)
  <2>1. mem' = [mem EXCEPT ![r] = m]
    BY <1>16 DEF ListNodesError, TypeOK
  <2> QED
    BY <1>16, <1>a, <1>c, <2>1, AssignTypes DEF ListNodesError
<1>17. CASE UncordonNode(r)
  <2>1. PICK k \in m.cords :
          /\ cordoned' = cordoned \ {k} \/ UNCHANGED cordoned
          /\ mem' = [mem EXCEPT ![r] = [m EXCEPT !.cords = m.cords \ {k}]]
          /\ pc' = [pc EXCEPT ![r] = IF m.cords = {k} THEN "done" ELSE "nodes"]
    BY <1>17 DEF UncordonNode
  <2>2. [m EXCEPT !.cords = m.cords \ {k}] \in Memory
    BY <1>a, <1>b, LocalTypes
  <2>3. (IF m.cords = {k} THEN "done" ELSE "nodes") \in Labels \ {"submit"}
    BY <1>c
  <2> QED
    BY <1>17, <1>a, <2>1, <2>2, <2>3, AssignTypes DEF UncordonNode
<1> QED
  BY <1>1, <1>2, <1>3, <1>4, <1>5, <1>6, <1>7, <1>8, <1>9, <1>10, <1>11,
     <1>12, <1>13, <1>14, <1>15, <1>16, <1>17 DEF Step, SpotStep, NodeStep

LEMMA NextTypes ==
    ASSUME TypeOK, CallOK, [Next]_vars PROVE TypeOK' /\ CallOK'
<1>1. CASE \E r \in Runners : Step(r)
  BY <1>1, StepTypes
<1>2. ASSUME NEW r \in Runners, Start(r) PROVE TypeOK' /\ CallOK'
  <2>1. PICK plan \in [Classes -> Counts], mode \in Modes :
          job' = [job EXCEPT ![r] = [plan |-> plan, dry |-> mode.dry,
                                     delay |-> mode.delay]]
    BY <1>2 DEF Start
  <2>2. [plan |-> plan, dry |-> mode.dry, delay |-> mode.delay] \in Job
    BY ModeAssumption DEF Job
  <2>3. job' \in [Runners -> Job]
    BY <2>1, <2>2 DEF TypeOK
  <2> QED
    BY <1>2, <2>3, BlankType DEF Start, TypeOK, CallOK, Goto, cloud, Labels
<1>3. ASSUME NEW r \in Runners, Crash(r) PROVE TypeOK' /\ CallOK'
  BY <1>3, BlankType DEF Crash, TypeOK, CallOK, Goto, GiveUp, cloud, Labels, Ended
<1>4. CASE World
  <2>1. ASSUME NEW n \in Names, PoolLost(n) \/ PoolBack(n)
        PROVE  TypeOK' /\ CallOK'
    <3>1. pools' \in [Names -> Pool]
      BY <2>1 DEF PoolLost, PoolBack, TypeOK, Pool
    <3> QED
      BY <2>1, <3>1 DEF PoolLost, PoolBack, TypeOK, CallOK
  <2>2. ASSUME NEW c \in Classes, FloorMoves(c) PROVE TypeOK' /\ CallOK'
    <3>1. floor \in Minimums
      BY DEF TypeOK
    <3>2. PICK price \in Prices[c] : floor' = [floor EXCEPT ![c] = price]
      BY <2>2 DEF FloorMoves
    <3>3. floor' \in Minimums
      BY <3>1, <3>2, PricesType
    <3> QED
      BY <2>2, <3>3 DEF FloorMoves, TypeOK, CallOK
  <2>3. ASSUME NEW k \in Nodes, Cordon(k) PROVE TypeOK' /\ CallOK'
    BY <2>3 DEF Cordon, TypeOK, CallOK
  <2> QED
    BY <1>4, <2>1, <2>2, <2>3 DEF World
<1>5. CASE UNCHANGED vars
  BY <1>5 DEF vars, TypeOK, CallOK
<1> QED
  BY <1>1, <1>2, <1>3, <1>4, <1>5 DEF Next

\* The state of the cloudspace and the memory of the runs keep their types.
THEOREM TypeCorrect == Spec => [](TypeOK /\ CallOK)
<1>1. Init => TypeOK /\ CallOK
  BY InitTypes
<1>2. TypeOK /\ CallOK /\ [Next]_vars => (TypeOK /\ CallOK)'
  BY NextTypes
<1> QED
  BY <1>1, <1>2, PTL DEF Spec

-----------------------------------------------------------------------------
(* Snapshots.                                                              *)

LEMMA InitSnapshot == Init => SnapshotInv
  BY DEF Init, SnapshotInv, SeenOK, StaleOK, CreateOK, PhaseOK, Blank, Unseen,
         Retiring, NoJob

\* No pool of S appears, changes class or changes label.
Calm(S) == \A n \in S : /\ pools'[n].class = pools[n].class
                        /\ Live(n)' => /\ Live(n)
                                       /\ pools'[n].managed = pools[n].managed

\* A step of r minds a run q that does not move.
LEMMA OtherRuns ==
    ASSUME TypeOK, CallOK, SnapshotInv, NEW r \in Runners, NEW q \in Runners, q # r,
           \A x \in Runners \ {r} :
               pc'[x] = pc[x] /\ mem'[x] = mem[x] /\ job'[x] = job[x],
           Calm(mem[q].listed),
           pc[q] = "submit" /\ Creates(q) =>
               /\ ~Live(mem[q].call.name)'
               /\ mem[q].call.name \notin mem'[r].listed
               /\ mem[q].call.name # mem'[r].call.name
    PROVE  SeenOK(q)' /\ StaleOK(q)' /\ CreateOK(q)' /\ PhaseOK(q)'
<1>0. /\ SeenOK(q) /\ StaleOK(q) /\ CreateOK(q) /\ PhaseOK(q)
      /\ pc'[q] = pc[q] /\ mem'[q] = mem[q] /\ job'[q] = job[q]
  BY DEF SnapshotInv
<1>1. SeenOK(q)'
  BY <1>0 DEF SeenOK, Calm
<1>2. StaleOK(q)'
  BY <1>0 DEF StaleOK, Calm, Planned
<1>3. CreateOK(q)'
  BY <1>0 DEF CreateOK, Creates
<1>4. PhaseOK(q)'
  BY <1>0 DEF PhaseOK, Retiring
<1> QED
  BY <1>1, <1>2, <1>3, <1>4

\* The same for a step that makes no pool, and mints no name.
LEMMA CalmStep ==
    ASSUME TypeOK, CallOK, SnapshotInv, NEW r \in Runners,
           \A x \in Runners \ {r} :
               pc'[x] = pc[x] /\ mem'[x] = mem[x] /\ job'[x] = job[x],
           Calm(Names),
           mem'[r].listed \subseteq mem[r].listed \cup {n \in Names : Live(n)},
           mem'[r].call.name \in {None, mem[r].call.name} \cup mem[r].listed,
           SeenOK(r)', StaleOK(r)', CreateOK(r)', PhaseOK(r)'
    PROVE  SnapshotInv'
<1>1. ASSUME NEW q \in Runners, q # r
      PROVE  SeenOK(q)' /\ StaleOK(q)' /\ CreateOK(q)' /\ PhaseOK(q)'
  <2>1. mem[q].listed \subseteq Names
    BY FieldTypes DEF TypeOK
  <2>2. Calm(mem[q].listed)
    BY <2>1 DEF Calm
  <2>3. ASSUME pc[q] = "submit", Creates(q)
        PROVE  /\ ~Live(mem[q].call.name)'
               /\ mem[q].call.name \notin mem'[r].listed
               /\ mem[q].call.name # mem'[r].call.name
    <3> DEFINE x == mem[q].call.name
    <3>1. /\ ~Live(x)
          /\ x \notin mem[r].listed
          /\ x # mem[r].call.name
      BY <2>3, <1>1 DEF SnapshotInv, CreateOK
    <3>2. x \in Names /\ x # None
      BY <2>3, NoneAssumption DEF CallOK
    <3> QED
      BY <3>1, <3>2 DEF Calm
  <2> QED
    BY <1>1, <2>2, <2>3, OtherRuns
<1> QED
  BY <1>1 DEF SnapshotInv

LEMMA RemovedCalm ==
    ASSUME pools \in [Names -> Pool], NEW n \in Names, pools' = Removed(n)
    PROVE  Calm(Names)
  BY DEF Removed, Absent, Calm, Live

LEMMA SameCalm == ASSUME pools' = pools PROVE Calm(Names)
  BY DEF Calm, Live

\* Landing r's request: an update makes no pool, a create makes only its own.
LEMMA LandedCalm ==
    ASSUME TypeOK, CallOK, SnapshotInv, NEW r \in Runners, pc[r] = "submit",
           Admissible(r), pools' = Landed(r)
    PROVE  /\ ~Creates(r) => Calm(Names)
           /\ Creates(r) => Calm(Names \ {mem[r].call.name})
<1>1. mem[r].call.name \in Names /\ pools \in [Names -> Pool]
  BY DEF CallOK, TypeOK
<1>2. CASE Creates(r)
  BY <1>1, <1>2 DEF Landed, Calm, Live
<1>3. CASE ~Creates(r)
  BY <1>1, <1>3 DEF Landed, Calm, Live, Admissible, Pool
<1> QED
  BY <1>2, <1>3

\* The answer to r's request, whether it landed or not.
LEMMA AnswerStep ==
    ASSUME TypeOK, CallOK, SnapshotInv, NEW r \in Runners, pc[r] = "submit",
           \/ Admissible(r) /\ pools' = Landed(r)
           \/ pools' = pools,
           \A x \in Runners \ {r} :
               pc'[x] = pc[x] /\ mem'[x] = mem[x] /\ job'[x] = job[x],
           mem'[r].listed \subseteq mem[r].listed,
           mem'[r].call.name = None
    PROVE  /\ Calm(mem[r].listed)
           /\ \A q \in Runners \ {r} :
                 SeenOK(q)' /\ StaleOK(q)' /\ CreateOK(q)' /\ PhaseOK(q)'
<1> DEFINE own == IF Creates(r) THEN {mem[r].call.name} ELSE {}
<1>1. Calm(Names \ own)
  <2>1. CASE pools' = pools
    BY <2>1, SameCalm DEF Calm
  <2>2. CASE Admissible(r) /\ pools' = Landed(r)
    BY <2>2, LandedCalm DEF Calm
  <2> QED
    BY <2>1, <2>2
<1>2. \A q \in Runners : mem[q].listed \subseteq Names \ own
  <2>1. \A q \in Runners : mem[q].listed \subseteq Names
    BY FieldTypes DEF TypeOK
  <2> QED
    BY <2>1 DEF SnapshotInv, CreateOK
<1>3. \A q \in Runners : Calm(mem[q].listed)
  BY <1>1, <1>2 DEF Calm
<1>4. ASSUME NEW q \in Runners \ {r}
      PROVE  SeenOK(q)' /\ StaleOK(q)' /\ CreateOK(q)' /\ PhaseOK(q)'
  <2>1. ASSUME pc[q] = "submit", Creates(q)
        PROVE  /\ ~Live(mem[q].call.name)'
               /\ mem[q].call.name \notin mem'[r].listed
               /\ mem[q].call.name # mem'[r].call.name
    <3>1. /\ mem[q].call.name \in Names /\ mem[q].call.name # None
          /\ ~Live(mem[q].call.name)
          /\ mem[q].call.name \notin mem[r].listed
          /\ mem[q].call.name # mem[r].call.name
      BY <2>1, NoneAssumption DEF CallOK, SnapshotInv, CreateOK
    <3> QED
      BY <1>1, <3>1 DEF Calm
  <2> QED
    BY <1>3, <2>1, OtherRuns
<1> QED
  BY <1>3, <1>4

LEMMA StepSnapshot ==
    ASSUME TypeOK, CallOK, SnapshotInv, NEW r \in Runners, Step(r)
    PROVE  SnapshotInv'
<1> USE DEF Goto, GiveUp, cloud
<1> DEFINE m == mem[r]
<1>a. /\ pools \in [Names -> Pool] /\ job[r] \in Job /\ m \in Memory
      /\ pc[r] \in Labels
  BY DEF TypeOK
<1>b. /\ m.listed \in SUBSET Names /\ m.lost \in SUBSET Names
      /\ m.seen \in [Classes -> Seen] /\ m.todo \in SUBSET Classes
      /\ m.call \in Call /\ m.stale \in SUBSET Names
      /\ m.cords \in SUBSET Nodes
  BY <1>a, FieldTypes
<1>c. SeenOK(r) /\ StaleOK(r) /\ CreateOK(r) /\ PhaseOK(r)
  BY DEF SnapshotInv
<1>d. ASSUME NEW label, NEW f, pc' = [pc EXCEPT ![r] = label],
             mem' = [mem EXCEPT ![r] = f], job' = job
      PROVE  /\ pc'[r] = label /\ mem'[r] = f
             /\ \A x \in Runners \ {r} :
                   pc'[x] = pc[x] /\ mem'[x] = mem[x] /\ job'[x] = job[x]
  BY <1>d DEF TypeOK
\* A run that ends leaves nothing to go stale.
<1>e. ASSUME pc' = [pc EXCEPT ![r] = "failed"], mem' = [mem EXCEPT ![r] = Blank],
             job' = job
      PROVE  /\ mem'[r].listed = {} /\ mem'[r].call.name = None
             /\ SeenOK(r)' /\ StaleOK(r)' /\ CreateOK(r)' /\ PhaseOK(r)'
  <2>1. pc'[r] = "failed" /\ mem'[r] = Blank
    BY <1>e, <1>d
  <2> QED
    BY <2>1 DEF SeenOK, StaleOK, CreateOK, PhaseOK, Blank, Unseen, NoCall, Retiring
<1>1. CASE ListPools(r)
  <2> DEFINE listed == {n \in Names : Live(n)}
             lost   == {n \in listed : pools[n].status = "lost"}
             m2     == [m EXCEPT !.listed = listed, !.lost = lost]
             label  == IF lost = {} THEN "relist" ELSE "cleanup"
  <2>1. mem' = [mem EXCEPT ![r] = m2] /\ pc' = [pc EXCEPT ![r] = label]
    BY <1>1 DEF ListPools
  <2>2. label \in {"relist", "cleanup"}
    OBVIOUS
  <2>3. /\ m2.listed = listed /\ m2.call = m.call /\ m2.seen = m.seen
        /\ m2.todo = m.todo /\ m2.stale = m.stale
    BY <1>a DEF Memory
  <2> HIDE DEF m2, label
  <2>4. mem'[r] = m2 /\ pc'[r] = label /\ job' = job /\ pools' = pools
    BY <1>1, <1>d, <2>1 DEF ListPools
  <2>5. SeenOK(r)' /\ StaleOK(r)' /\ CreateOK(r)' /\ PhaseOK(r)'
    BY <1>1, <1>c, <2>2, <2>3, <2>4
    DEF ListPools, SeenOK, StaleOK, CreateOK, PhaseOK, Live, Planned, Retiring
  <2> QED
    BY <1>1, <1>d, <2>1, <2>3, <2>4, <2>5, SameCalm, CalmStep DEF ListPools
<1>2. CASE DeleteLost(r)
  <2>1. PICK n \in m.lost :
          /\ pools' = Removed(n) \/ UNCHANGED pools
          /\ mem' = [mem EXCEPT ![r] = [m EXCEPT !.lost = m.lost \ {n}]]
          /\ pc' = [pc EXCEPT ![r] = IF m.lost = {n} THEN "relist"
                                     ELSE "cleanup"]
    BY <1>2 DEF DeleteLost
  <2> DEFINE m2    == [m EXCEPT !.lost = m.lost \ {n}]
             label == IF m.lost = {n} THEN "relist" ELSE "cleanup"
  <2>2. label \in {"relist", "cleanup"}
    OBVIOUS
  <2>3. /\ m2.listed = m.listed /\ m2.call = m.call /\ m2.seen = m.seen
        /\ m2.todo = m.todo /\ m2.stale = m.stale
    BY <1>a DEF Memory
  <2>4. Calm(Names)
    BY <2>1, <1>a, <1>b, RemovedCalm, SameCalm
  <2>5. mem' = [mem EXCEPT ![r] = m2] /\ pc' = [pc EXCEPT ![r] = label]
    BY <2>1
  <2> HIDE DEF m2, label
  <2>6. mem'[r] = m2 /\ pc'[r] = label /\ job' = job
    BY <1>2, <1>d, <2>5 DEF DeleteLost
  <2>7. SeenOK(r)' /\ StaleOK(r)' /\ CreateOK(r)' /\ PhaseOK(r)'
    BY <1>2, <1>c, <2>2, <2>3, <2>6
    DEF DeleteLost, SeenOK, StaleOK, CreateOK, PhaseOK, Retiring
  <2> QED
    BY <1>2, <1>d, <2>3, <2>4, <2>5, <2>6, <2>7, CalmStep DEF DeleteLost
<1>3. CASE RelistPools(r)
  <2>1. PICK last \in [Classes -> Names \cup {None}] :
          /\ \A c \in Classes : last[c] # None => last[c] \in OfClass(c)
          /\ mem' = [mem EXCEPT ![r] = [m EXCEPT
                !.listed = {n \in Names : Live(n)},
                !.todo = Planned(r),
                !.seen = [c \in Classes |->
                    IF last[c] = None THEN Unseen
                    ELSE [name |-> last[c],
                          desired |-> pools[last[c]].desired,
                          managed |-> pools[last[c]].managed]]]]
    BY <1>3 DEF RelistPools
  <2> DEFINE seen == [c \in Classes |->
                    IF last[c] = None THEN Unseen
                    ELSE [name |-> last[c],
                          desired |-> pools[last[c]].desired,
                          managed |-> pools[last[c]].managed]]
             m2   == [m EXCEPT !.listed = {n \in Names : Live(n)},
                               !.todo = Planned(r), !.seen = seen]
  <2>2. /\ m2.listed = {n \in Names : Live(n)} /\ m2.call = m.call
        /\ m2.seen = seen /\ m2.todo = Planned(r) /\ m2.stale = m.stale
    BY <1>a DEF Memory
  <2>3. mem' = [mem EXCEPT ![r] = m2] /\ pc' = [pc EXCEPT ![r] = "provision"]
    BY <1>3, <2>1 DEF RelistPools
  <2>4. \A c \in Classes : seen[c].name # None =>
          /\ seen[c].name \in Names /\ Live(seen[c].name)
          /\ pools[seen[c].name].class = c
          /\ pools[seen[c].name].managed = seen[c].managed
    BY <2>1 DEF Unseen, OfClass
  <2> HIDE DEF m2, seen
  <2>5. mem'[r] = m2 /\ pc'[r] = "provision" /\ job' = job /\ pools' = pools
    BY <1>3, <1>d, <2>3 DEF RelistPools
  <2>6. SeenOK(r)'
    BY <2>2, <2>4, <2>5 DEF SeenOK, Live
  <2>7. StaleOK(r)' /\ CreateOK(r)' /\ PhaseOK(r)'
    BY <1>3, <1>c, <2>2, <2>5
    DEF RelistPools, StaleOK, CreateOK, PhaseOK, Retiring
  <2> QED
    BY <1>3, <1>d, <2>2, <2>3, <2>5, <2>6, <2>7, SameCalm, CalmStep DEF RelistPools
<1>4. CASE ListError(r)
  BY <1>4, <1>d, <1>e, SameCalm, CalmStep DEF ListError
<1>5. CASE SkipClass(r)
  <2>1. PICK c \in m.todo :
          mem' = [mem EXCEPT ![r] = [m EXCEPT !.todo = m.todo \ {c}]]
    BY <1>5 DEF SkipClass
  <2> DEFINE m2 == [m EXCEPT !.todo = m.todo \ {c}]
  <2>2. /\ m2.listed = m.listed /\ m2.call = m.call /\ m2.seen = m.seen
        /\ m2.stale = m.stale
    BY <1>a DEF Memory
  <2>3. mem' = [mem EXCEPT ![r] = m2] /\ pc' = [pc EXCEPT ![r] = "provision"]
    BY <1>5, <2>1 DEF SkipClass, TypeOK
  <2> HIDE DEF m2
  <2>4. mem'[r] = m2 /\ pc'[r] = "provision" /\ job' = job /\ pools' = pools
    BY <1>5, <1>d, <2>3 DEF SkipClass
  <2>5. SeenOK(r)' /\ StaleOK(r)' /\ CreateOK(r)' /\ PhaseOK(r)'
    BY <1>5, <1>c, <2>2, <2>4
    DEF SkipClass, SeenOK, StaleOK, CreateOK, PhaseOK, Live, Planned, Retiring
  <2> QED
    BY <1>5, <1>d, <2>2, <2>3, <2>4, <2>5, SameCalm, CalmStep DEF SkipClass
<1>6. CASE PrepareUpdate(r)
  <2>1. PICK c \in m.todo, bid \in Nat :
          /\ m.seen[c].name # None
          /\ mem' = [mem EXCEPT ![r] = [m EXCEPT !.call =
               [class |-> c, name |-> m.seen[c].name,
                bid |-> bid, min |-> 0, retried |-> FALSE]]]
    BY <1>6, <1>b, RoundBidType, PricesType DEF PrepareUpdate
  <2> DEFINE call == [class |-> c, name |-> m.seen[c].name,
                      bid |-> bid, min |-> 0, retried |-> FALSE]
             m2   == [m EXCEPT !.call = call]
  <2>2. /\ m2.listed = m.listed /\ m2.call.name = m.seen[c].name
        /\ m2.call.class = c
        /\ m2.seen = m.seen /\ m2.todo = m.todo /\ m2.stale = m.stale
    BY <1>a DEF Memory
  <2>3. mem' = [mem EXCEPT ![r] = m2] /\ pc' = [pc EXCEPT ![r] = "submit"]
    BY <1>6, <2>1 DEF PrepareUpdate
  <2> HIDE DEF m2, call
  <2>4. mem'[r] = m2 /\ pc'[r] = "submit" /\ job' = job /\ pools' = pools
    BY <1>6, <1>d, <2>3 DEF PrepareUpdate
  <2>5. m.seen[c].name \in m.listed
    BY <2>1, <1>b, <1>c DEF SeenOK
  <2>6. SeenOK(r)' /\ StaleOK(r)' /\ PhaseOK(r)'
    BY <1>6, <1>c, <2>2, <2>4
    DEF PrepareUpdate, SeenOK, StaleOK, PhaseOK, Live, Planned, Retiring
  <2>7. CreateOK(r)'
    BY <2>1, <2>2, <2>4 DEF CreateOK, Creates
  <2> QED
    BY <1>6, <1>d, <2>2, <2>3, <2>4, <2>5, <2>6, <2>7, SameCalm, CalmStep
    DEF PrepareUpdate
<1>9. CASE BidRejected(r)
  <2>0. PICK bid :
          mem' = [mem EXCEPT ![r] = [m EXCEPT !.call =
                    [m.call EXCEPT !.bid = bid, !.min = floor[m.call.class],
                                   !.retried = TRUE]]]
    BY <1>9 DEF BidRejected
  <2> DEFINE call == [m.call EXCEPT !.bid = bid, !.min = floor[m.call.class],
                                    !.retried = TRUE]
             m2   == [m EXCEPT !.call = call]
  <2>1. /\ m2.listed = m.listed /\ m2.call.name = m.call.name
        /\ m2.call.class = m.call.class
        /\ m2.seen = m.seen /\ m2.todo = m.todo /\ m2.stale = m.stale
    BY <1>a, <1>b DEF Memory, Call
  <2>2. mem' = [mem EXCEPT ![r] = m2] /\ pc' = [pc EXCEPT ![r] = "submit"]
    BY <1>9, <2>0 DEF BidRejected, TypeOK
  <2> HIDE DEF m2, call
  <2>3. mem'[r] = m2 /\ pc'[r] = "submit" /\ job' = job /\ pools' = pools
    BY <1>9, <1>d, <2>2 DEF BidRejected
  <2>4. SeenOK(r)' /\ StaleOK(r)' /\ PhaseOK(r)'
    BY <1>9, <1>c, <2>1, <2>3
    DEF BidRejected, SeenOK, StaleOK, PhaseOK, Live, Planned, Retiring
  <2>5. \A x \in Runners \ {r} : mem'[x] = mem[x]
    BY <1>9, <1>d, <2>2 DEF BidRejected
  <2>6. CreateOK(r)'
    BY <1>9, <1>c, <2>1, <2>3, <2>5 DEF BidRejected, CreateOK, Creates, Live
  <2> QED
    BY <1>9, <1>d, <2>1, <2>2, <2>3, <2>4, <2>6, SameCalm, CalmStep
    DEF BidRejected
<1>11. CASE CollectStale(r)
  <2> DEFINE m2    == [m EXCEPT !.stale = UnusedPools(r)]
             label == IF UnusedPools(r) = {} THEN "uncordon"
                      ELSE IF job[r].delay THEN "sleep" ELSE "delete"
  <2>1. /\ m2.listed = m.listed /\ m2.call = m.call /\ m2.seen = m.seen
        /\ m2.todo = m.todo /\ m2.stale = UnusedPools(r)
    BY <1>a DEF Memory
  <2>2. mem' = [mem EXCEPT ![r] = m2] /\ pc' = [pc EXCEPT ![r] = label]
    BY <1>11 DEF CollectStale
  <2>3. /\ label \in {"uncordon", "sleep", "delete"}
        /\ label = "uncordon" <=> UnusedPools(r) = {}
    OBVIOUS
  <2>4. UnusedPools(r) # {} => ~job[r].dry
    BY DEF UnusedPools
  <2>5. \A n \in UnusedPools(r) :
          /\ n \in m.listed
          /\ pools[n].class \notin Planned(r)
          /\ Live(n) => pools[n].managed
    BY <1>c DEF UnusedPools, SeenOK
  <2> HIDE DEF m2, label
  <2>6. mem'[r] = m2 /\ pc'[r] = label /\ job' = job /\ pools' = pools
    BY <1>11, <1>d, <2>2 DEF CollectStale
  <2>7. SeenOK(r)' /\ StaleOK(r)' /\ CreateOK(r)' /\ PhaseOK(r)'
    BY <1>11, <1>c, <2>1, <2>3, <2>4, <2>5, <2>6
    DEF CollectStale, SeenOK, StaleOK, CreateOK, PhaseOK, Live, Planned, Retiring
  <2> QED
    BY <1>11, <1>d, <2>1, <2>2, <2>6, <2>7, SameCalm, CalmStep DEF CollectStale
<1>12. CASE Wake(r)
  <2>1. mem' = [mem EXCEPT ![r] = m] /\ pc' = [pc EXCEPT ![r] = "delete"]
    BY <1>12 DEF Wake, TypeOK
  <2>2. mem'[r] = m /\ pc'[r] = "delete" /\ job' = job /\ pools' = pools
    BY <1>12, <1>d, <2>1 DEF Wake
  <2>3. SeenOK(r)' /\ StaleOK(r)' /\ CreateOK(r)' /\ PhaseOK(r)'
    BY <1>12, <1>c, <2>2
    DEF Wake, SeenOK, StaleOK, CreateOK, PhaseOK, Live, Planned, Retiring
  <2> QED
    BY <1>12, <1>d, <2>1, <2>2, <2>3, SameCalm, CalmStep DEF Wake
<1>7. CASE PrepareCreate(r)
  <2>1. PICK c \in m.todo, n \in Names, bid \in Nat :
          /\ m.seen[c].name = None
          /\ Fresh(n)
          /\ mem' = [mem EXCEPT ![r] = [m EXCEPT !.call =
               [class |-> c, name |-> n,
                bid |-> bid, min |-> 0, retried |-> FALSE]]]
    BY <1>7, <1>b, RoundBidType, PricesType DEF PrepareCreate
  <2> DEFINE call == [class |-> c, name |-> n,
                      bid |-> bid, min |-> 0, retried |-> FALSE]
             m2   == [m EXCEPT !.call = call]
  <2>2. /\ m2.listed = m.listed /\ m2.call.name = n /\ m2.call.class = c
        /\ m2.seen = m.seen /\ m2.todo = m.todo /\ m2.stale = m.stale
    BY <1>a DEF Memory
  <2>3. mem' = [mem EXCEPT ![r] = m2] /\ pc' = [pc EXCEPT ![r] = "submit"]
    BY <1>7, <2>1 DEF PrepareCreate
  <2> HIDE DEF m2, call
  <2>4. /\ mem'[r] = m2 /\ pc'[r] = "submit" /\ job' = job /\ pools' = pools
        /\ \A x \in Runners \ {r} :
              pc'[x] = pc[x] /\ mem'[x] = mem[x] /\ job'[x] = job[x]
    BY <1>7, <1>d, <2>3 DEF PrepareCreate
  <2>5. SeenOK(r)' /\ StaleOK(r)' /\ PhaseOK(r)'
    BY <1>7, <1>c, <2>2, <2>4
    DEF PrepareCreate, SeenOK, StaleOK, PhaseOK, Live, Planned, Retiring
  <2>6. CreateOK(r)'
    BY <2>1, <2>2, <2>4 DEF CreateOK, Creates, Fresh, Live
  <2>7. ASSUME NEW q \in Runners, q # r
        PROVE  SeenOK(q)' /\ StaleOK(q)' /\ CreateOK(q)' /\ PhaseOK(q)'
    <3>1. Calm(mem[q].listed)
      BY <2>4 DEF Calm, Live
    <3>2. ASSUME pc[q] = "submit", Creates(q)
          PROVE  /\ ~Live(mem[q].call.name)'
                 /\ mem[q].call.name \notin mem'[r].listed
                 /\ mem[q].call.name # mem'[r].call.name
      BY <3>2, <2>1, <2>2, <2>4 DEF SnapshotInv, CreateOK, Fresh, Live
    <3> QED
      BY <2>4, <2>7, <3>1, <3>2, OtherRuns
  <2> QED
    BY <2>5, <2>6, <2>7 DEF SnapshotInv
<1>8. CASE CallAccepted(r)
  <2> DEFINE m2 == [m EXCEPT !.todo = m.todo \ {m.call.class}, !.call = NoCall]
  <2>1. /\ m2.listed = m.listed /\ m2.call = NoCall
        /\ m2.seen = m.seen /\ m2.stale = m.stale
    BY <1>a DEF Memory
  <2>2. mem' = [mem EXCEPT ![r] = m2] /\ pc' = [pc EXCEPT ![r] = "provision"]
    BY <1>8 DEF CallAccepted
  <2> HIDE DEF m2
  <2>3. /\ mem'[r] = m2 /\ pc'[r] = "provision" /\ job' = job
        /\ \A x \in Runners \ {r} :
              pc'[x] = pc[x] /\ mem'[x] = mem[x] /\ job'[x] = job[x]
    BY <1>8, <1>d, <2>2 DEF CallAccepted
  <2>4. NoCall.name = None
    BY DEF NoCall
  <2>5. /\ Calm(m.listed)
        /\ \A q \in Runners \ {r} :
              SeenOK(q)' /\ StaleOK(q)' /\ CreateOK(q)' /\ PhaseOK(q)'
    BY <1>8, <2>1, <2>3, <2>4, AnswerStep DEF CallAccepted
  <2>6. SeenOK(r)' /\ StaleOK(r)' /\ CreateOK(r)' /\ PhaseOK(r)'
    BY <1>8, <1>c, <2>1, <2>3, <2>5
    DEF CallAccepted, SeenOK, StaleOK, CreateOK, PhaseOK, Planned, Retiring, Calm
  <2> QED
    BY <2>5, <2>6 DEF SnapshotInv
<1>10. CASE CallError(r)
  <2>1. \A x \in Runners \ {r} :
          pc'[x] = pc[x] /\ mem'[x] = mem[x] /\ job'[x] = job[x]
    BY <1>10, <1>d DEF CallError
  <2>2. /\ mem'[r].listed = {} /\ mem'[r].call.name = None
        /\ SeenOK(r)' /\ StaleOK(r)' /\ CreateOK(r)' /\ PhaseOK(r)'
    BY <1>10, <1>e DEF CallError
  <2>3. \A q \in Runners \ {r} :
          SeenOK(q)' /\ StaleOK(q)' /\ CreateOK(q)' /\ PhaseOK(q)'
    BY <1>10, <2>1, <2>2, AnswerStep DEF CallError
  <2> QED
    BY <2>2, <2>3 DEF SnapshotInv
<1>13. CASE DeleteStale(r)
  <2>1. PICK n \in m.stale :
          /\ pools' = Removed(n)
          /\ mem' = [mem EXCEPT ![r] = [m EXCEPT !.stale = m.stale \ {n}]]
          /\ pc' = [pc EXCEPT ![r] = IF m.stale = {n} THEN "uncordon"
                                     ELSE "delete"]
    BY <1>13 DEF DeleteStale
  <2> DEFINE m2    == [m EXCEPT !.stale = m.stale \ {n}]
             label == IF m.stale = {n} THEN "uncordon" ELSE "delete"
  <2>2. /\ label \in {"uncordon", "delete"}
        /\ label = "uncordon" <=> m.stale = {n}
    OBVIOUS
  <2>3. /\ m2.listed = m.listed /\ m2.call = m.call /\ m2.seen = m.seen
        /\ m2.todo = m.todo /\ m2.stale = m.stale \ {n}
    BY <1>a DEF Memory
  <2>4. Calm(Names)
    BY <2>1, <1>a, <1>b, RemovedCalm
  <2>5. mem' = [mem EXCEPT ![r] = m2] /\ pc' = [pc EXCEPT ![r] = label]
    BY <2>1
  <2> HIDE DEF m2, label
  <2>6. mem'[r] = m2 /\ pc'[r] = label /\ job' = job
    BY <1>13, <1>d, <2>5 DEF DeleteStale
  <2>7. SeenOK(r)' /\ StaleOK(r)'
    BY <1>b, <1>c, <2>3, <2>4, <2>6 DEF SeenOK, StaleOK, Calm, Planned
  <2>8. CreateOK(r)' /\ PhaseOK(r)'
    BY <1>13, <1>c, <2>2, <2>3, <2>6 DEF DeleteStale, CreateOK, PhaseOK, Retiring
  <2> QED
    BY <1>13, <1>d, <2>3, <2>4, <2>5, <2>6, <2>7, <2>8, CalmStep DEF DeleteStale
<1>14. CASE DeleteError(r)
  <2>1. Calm(Names)
    BY <1>14, <1>a, <1>b, RemovedCalm, SameCalm DEF DeleteError
  <2> QED
    BY <1>14, <1>d, <1>e, <2>1, CalmStep DEF DeleteError
<1>15. CASE ListNodes(r)
  <2> DEFINE m2    == [m EXCEPT !.cords = cordoned]
             label == IF cordoned = {} THEN "done" ELSE "nodes"
  <2>1. /\ m2.listed = m.listed /\ m2.call = m.call /\ m2.seen = m.seen
        /\ m2.todo = m.todo /\ m2.stale = m.stale
    BY <1>a DEF Memory
  <2>2. mem' = [mem EXCEPT ![r] = m2] /\ pc' = [pc EXCEPT ![r] = label]
    BY <1>15 DEF ListNodes
  <2>3. label \in {"done", "nodes"}
    OBVIOUS
  <2> HIDE DEF m2, label
  <2>4. mem'[r] = m2 /\ pc'[r] = label /\ job' = job /\ pools' = pools
    BY <1>15, <1>d, <2>2 DEF ListNodes
  <2>5. SeenOK(r)' /\ StaleOK(r)' /\ CreateOK(r)' /\ PhaseOK(r)'
    BY <1>15, <1>c, <2>1, <2>3, <2>4
    DEF ListNodes, SeenOK, StaleOK, CreateOK, PhaseOK, Live, Planned, Retiring
  <2> QED
    BY <1>15, <1>d, <2>1, <2>2, <2>4, <2>5, SameCalm, CalmStep DEF ListNodes
<1>16. CASE ListNodesError(r)
  <2>1. mem' = [mem EXCEPT ![r] = m] /\ pc' = [pc EXCEPT ![r] = "done"]
    BY <1>16 DEF ListNodesError, TypeOK
  <2>2. mem'[r] = m /\ pc'[r] = "done" /\ job' = job /\ pools' = pools
    BY <1>16, <1>d, <2>1 DEF ListNodesError
  <2>3. SeenOK(r)' /\ StaleOK(r)' /\ CreateOK(r)' /\ PhaseOK(r)'
    BY <1>16, <1>c, <2>2
    DEF ListNodesError, SeenOK, StaleOK, CreateOK, PhaseOK, Live, Planned, Retiring
  <2> QED
    BY <1>16, <1>d, <2>1, <2>2, <2>3, SameCalm, CalmStep DEF ListNodesError
<1>17. CASE UncordonNode(r)
  <2>1. PICK k \in m.cords :
          /\ mem' = [mem EXCEPT ![r] = [m EXCEPT !.cords = m.cords \ {k}]]
          /\ pc' = [pc EXCEPT ![r] = IF m.cords = {k} THEN "done" ELSE "nodes"]
    BY <1>17 DEF UncordonNode
  <2> DEFINE m2    == [m EXCEPT !.cords = m.cords \ {k}]
             label == IF m.cords = {k} THEN "done" ELSE "nodes"
  <2>2. /\ m2.listed = m.listed /\ m2.call = m.call /\ m2.seen = m.seen
        /\ m2.todo = m.todo /\ m2.stale = m.stale
    BY <1>a DEF Memory
  <2>3. mem' = [mem EXCEPT ![r] = m2] /\ pc' = [pc EXCEPT ![r] = label]
    BY <2>1
  <2>4. label \in {"done", "nodes"}
    OBVIOUS
  <2> HIDE DEF m2, label
  <2>5. mem'[r] = m2 /\ pc'[r] = label /\ job' = job /\ pools' = pools
    BY <1>17, <1>d, <2>3 DEF UncordonNode
  <2>6. SeenOK(r)' /\ StaleOK(r)' /\ CreateOK(r)' /\ PhaseOK(r)'
    BY <1>17, <1>c, <2>2, <2>4, <2>5
    DEF UncordonNode, SeenOK, StaleOK, CreateOK, PhaseOK, Live, Planned, Retiring
  <2> QED
    BY <1>17, <1>d, <2>2, <2>3, <2>5, <2>6, SameCalm, CalmStep DEF UncordonNode
<1> QED
  BY <1>1, <1>2, <1>3, <1>4, <1>5, <1>6, <1>7, <1>8, <1>9, <1>10, <1>11,
     <1>12, <1>13, <1>14, <1>15, <1>16, <1>17 DEF Step, SpotStep, NodeStep

LEMMA NextSnapshot ==
    ASSUME TypeOK, CallOK, SnapshotInv, [Next]_vars PROVE SnapshotInv'
<1>1. CASE \E r \in Runners : Step(r)
  BY <1>1, StepSnapshot
<1>2. ASSUME NEW r \in Runners, Start(r) \/ Crash(r) PROVE SnapshotInv'
  <2>1. /\ mem'[r] = Blank /\ pc'[r] \in {"list", "failed"} /\ pools' = pools
        /\ \A x \in Runners \ {r} :
              pc'[x] = pc[x] /\ mem'[x] = mem[x] /\ job'[x] = job[x]
    BY <1>2 DEF Start, Crash, GiveUp, Goto, cloud, TypeOK
  <2>2. SeenOK(r)' /\ StaleOK(r)' /\ CreateOK(r)' /\ PhaseOK(r)'
    BY <2>1 DEF SeenOK, StaleOK, CreateOK, PhaseOK, Blank, Unseen, NoCall, Retiring
  <2>3. mem'[r].listed = {} /\ mem'[r].call.name = None
    BY <2>1 DEF Blank, NoCall
  <2> QED
    BY <2>1, <2>2, <2>3, SameCalm, CalmStep
<1>3. ASSUME Calm(Names), pc' = pc, job' = job, mem' = mem PROVE SnapshotInv'
  <2>1. ASSUME NEW r \in Runners
        PROVE  SeenOK(r)' /\ StaleOK(r)' /\ CreateOK(r)' /\ PhaseOK(r)'
    <3>1. SeenOK(r) /\ StaleOK(r) /\ CreateOK(r) /\ PhaseOK(r)
      BY DEF SnapshotInv
    <3>2. mem[r].listed \subseteq Names
      BY FieldTypes DEF TypeOK
    <3>3. pc[r] = "submit" => mem[r].call.name \in Names
      BY DEF CallOK
    <3> QED
      BY <1>3, <3>1, <3>2, <3>3
      DEF SeenOK, StaleOK, CreateOK, PhaseOK, Creates, Planned, Retiring, Calm
  <2> QED
    BY <2>1 DEF SnapshotInv
<1>4. CASE World
  <2>1. Calm(Names)
    BY <1>4 DEF World, PoolLost, PoolBack, FloorMoves, Cordon, Calm, Live,
                TypeOK, Pool
  <2> QED
    BY <1>3, <1>4, <2>1 DEF World, PoolLost, PoolBack, FloorMoves, Cordon
<1>5. CASE UNCHANGED vars
  BY <1>3, <1>5, SameCalm DEF vars
<1> QED
  BY <1>1, <1>2, <1>4, <1>5 DEF Next

\* What a run remembers of a pool is true of it for as long as the run uses it,
\* however many runs overlap.
THEOREM SnapshotsHold == Spec => [](TypeOK /\ CallOK /\ SnapshotInv)
<1>1. Init => TypeOK /\ CallOK /\ SnapshotInv
  BY InitTypes, InitSnapshot
<1>2. TypeOK /\ CallOK /\ SnapshotInv /\ [Next]_vars
        => (TypeOK /\ CallOK /\ SnapshotInv)'
  BY NextTypes, NextSnapshot
<1> QED
  BY <1>1, <1>2, PTL DEF Spec

-----------------------------------------------------------------------------
(* What a step may never do.                                               *)

LEMMA StepDeletes ==
    ASSUME TypeOK, CallOK, SnapshotInv, NEW r \in Runners, Step(r),
           NEW n \in Names, Live(n), ~Live(n)'
    PROVE  /\ ~job[r].dry
           /\ \/ n \in mem[r].lost
              \/ /\ pc[r] = "delete"
                 /\ mem[r].todo = {}
                 /\ pools[n].managed
                 /\ pools[n].class \notin Planned(r)
<1>1. pools' # pools
  BY DEF Live
<1>2. CASE DeleteLost(r)
  <2>1. PICK k \in mem[r].lost : ~job[r].dry /\ pools' = Removed(k)
    BY <1>1, <1>2 DEF DeleteLost
  <2>2. k = n
    BY <2>1 DEF Removed, Live, TypeOK
  <2> QED
    BY <2>1, <2>2
<1>3. CASE DeleteStale(r) \/ DeleteError(r)
  <2>1. pc[r] = "delete" /\ \E k \in mem[r].stale : pools' = Removed(k)
    BY <1>1, <1>3 DEF DeleteStale, DeleteError
  <2>2. n \in mem[r].stale
    BY <2>1 DEF Removed, Live, TypeOK
  <2> QED
    BY <2>1, <2>2 DEF SnapshotInv, StaleOK, PhaseOK, Retiring
<1>4. CASE CallAccepted(r) \/ CallError(r)
  <2>1. pc[r] = "submit" /\ pools' = Landed(r)
    BY <1>1, <1>4 DEF CallAccepted, CallError
  <2>2. pools'[n].status \in {pools[n].status, "ok"}
    BY <2>1 DEF Landed, TypeOK, Pool
  <2> QED
    BY <2>2 DEF Live
<1> QED
  BY <1>1, <1>2, <1>3, <1>4
  DEF Step, SpotStep, NodeStep, ListPools, RelistPools, ListError, SkipClass, PrepareUpdate,
      PrepareCreate, BidRejected, CollectStale, Wake, ListNodes,
      ListNodesError, UncordonNode, cloud

\* A pool is deleted only because a run listed it as lost, or because it is
\* managed, unused by the run's plan, and the plan is in place: even when runs
\* overlap and act on listings of twenty minutes ago.
THEOREM DeletionsJustified == Spec => OnlyUnusedOrLostDeleted
<1>1. TypeOK /\ CallOK /\ SnapshotInv /\ [Next]_vars =>
        \A n \in Names : Live(n) /\ ~Live(n)' =>
          \E r \in Runners :
            /\ ~job[r].dry
            /\ \/ n \in mem[r].lost
               \/ /\ pc[r] = "delete"
                  /\ mem[r].todo = {}
                  /\ pools[n].managed
                  /\ pools[n].class \notin Planned(r)
  <2> SUFFICES ASSUME TypeOK, CallOK, SnapshotInv, [Next]_vars,
                      NEW n \in Names, Live(n), ~Live(n)'
               PROVE  \E r \in Runners : Step(r)
    BY StepDeletes
  <2>1. pools' # pools
    BY DEF Live
  <2>2. ~World
    BY DEF World, PoolLost, PoolBack, FloorMoves, Cordon, Live, TypeOK, Pool
  <2> QED
    BY <2>1, <2>2 DEF Next, Start, Crash, vars, cloud
<1> QED
  BY <1>1, SnapshotsHold, PTL DEF Spec, OnlyUnusedOrLostDeleted

LEMMA DryStep ==
    ASSUME TypeOK, CallOK, SnapshotInv, NEW r \in Runners, Step(r), job[r].dry
    PROVE  pools' = pools /\ cordoned' = cordoned
<1>1. pc[r] \notin {"submit", "sleep", "delete"}
  BY DEF SnapshotInv, PhaseOK
<1> QED
  BY <1>1
  DEF Step, SpotStep, NodeStep, ListPools, DeleteLost, RelistPools, ListError, SkipClass,
      PrepareUpdate, PrepareCreate, CallAccepted, BidRejected, CallError,
      CollectStale, Wake, DeleteStale, DeleteError, ListNodes, ListNodesError,
      UncordonNode, cloud

LEMMA StepIsActive == ASSUME NEW r \in Runners, Step(r) PROVE Active(r)
  BY DEF Active, Ended, Step, SpotStep, NodeStep, ListPools, DeleteLost, RelistPools, ListError,
         SkipClass, PrepareUpdate, PrepareCreate, CallAccepted, BidRejected,
         CallError, CollectStale, Wake, DeleteStale, DeleteError, ListNodes,
         ListNodesError, UncordonNode

\* --dry-run changes nothing.
THEOREM DryRunHarmless == Spec => DryRunReadOnly
<1>1. TypeOK /\ CallOK /\ SnapshotInv /\ [Next]_vars =>
        ((\A r \in Runners : Active(r) => job[r].dry) =>
          /\ \A n \in Names : /\ Live(n) <=> Live(n)'
                              /\ pools[n].desired = pools'[n].desired
          /\ cordoned \subseteq cordoned')
  <2> SUFFICES ASSUME TypeOK, CallOK, SnapshotInv, [Next]_vars,
                      \A r \in Runners : Active(r) => job[r].dry
               PROVE  /\ \A n \in Names : /\ Live(n) <=> Live(n)'
                                          /\ pools[n].desired = pools'[n].desired
                      /\ cordoned \subseteq cordoned'
    OBVIOUS
  <2>1. CASE \E r \in Runners : Step(r)
    BY <2>1, DryStep, StepIsActive DEF Live
  <2>2. CASE \E r \in Runners : Start(r) \/ Crash(r)
    BY <2>2 DEF Start, Crash, cloud, Live
  <2>3. CASE World
    <3>1. CASE \E n \in Names : PoolLost(n) \/ PoolBack(n)
      BY <3>1 DEF PoolLost, PoolBack, Live, TypeOK, Pool
    <3>2. CASE \E c \in Classes : FloorMoves(c)
      BY <3>2 DEF FloorMoves, Live
    <3>3. CASE \E k \in Nodes : Cordon(k)
      BY <3>3 DEF Cordon, Live
    <3> QED
      BY <2>3, <3>1, <3>2, <3>3 DEF World
  <2>4. CASE UNCHANGED vars
    BY <2>4 DEF vars, Live
  <2> QED
    BY <2>1, <2>2, <2>3, <2>4 DEF Next
<1> QED
  BY <1>1, SnapshotsHold, PTL DEF Spec, DryRunReadOnly

-----------------------------------------------------------------------------
(* Bids.                                                                   *)

LEMMA RoundBidEnough ==
    ASSUME NEW p \in Nat, NEW b \in RoundBids(p)
    PROVE  b \in Nat /\ b % 5 = 0 /\ p <= b /\ b <= p + 5
<1> DEFINE q == (p + 4) \div 5
<1>1. b = q * 5 \/ (b = q * 5 + 5 /\ q * 5 = p)
  BY DEF RoundBids
<1>2. q \in Nat /\ 5 * q <= p + 4 /\ p + 4 < 5 * q + 5
  OBVIOUS
<1> HIDE DEF q
<1>3. /\ q * 5 \in Nat /\ q * 5 + 5 \in Nat
      /\ (q * 5) % 5 = 0 /\ (q * 5 + 5) % 5 = 0
      /\ p <= q * 5 /\ q * 5 <= p + 4
  BY <1>2
<1> QED
  BY <1>1, <1>3

\* The bid of a retry is made from the minimum that the error reported.
MadeFromMin(call) == call.class \in Classes /\ call.bid \in RoundBids(call.min)
RetryOK == \A r \in Runners : mem[r].call.retried => MadeFromMin(mem[r].call)

\* A step makes a new request, retries, or leaves the request of the run alone.
LEMMA AssignBids ==
    ASSUME TypeOK, RetryOK, NEW r \in Runners, NEW m, mem' = [mem EXCEPT ![r] = m],
           \/ m.call = mem[r].call
           \/ m.call.retried = FALSE
           \/ MadeFromMin(m.call)
    PROVE  RetryOK'
<1>1. mem'[r] = m /\ \A q \in Runners \ {r} : mem'[q] = mem[q]
  BY DEF TypeOK
<1> QED
  BY <1>1 DEF RetryOK

LEMMA StepBids ==
    ASSUME TypeOK, CallOK, RetryOK, NEW r \in Runners,
           Step(r) \/ Start(r) \/ Crash(r)
    PROVE  RetryOK'
<1>1. mem[r] \in Memory /\ mem[r].call \in Call
  BY FieldTypes DEF TypeOK
<1>2. Blank.call.retried = FALSE
  BY DEF Blank, NoCall
<1>3. CASE ListPools(r)
  <2>1. PICK L, S : mem' = [mem EXCEPT ![r] = [mem[r] EXCEPT !.listed = L, !.lost = S]]
    BY <1>3 DEF ListPools
  <2>2. [mem[r] EXCEPT !.listed = L, !.lost = S].call = mem[r].call
    BY <1>1 DEF Memory
  <2> QED
    BY <2>1, <2>2, AssignBids
<1>4. CASE DeleteLost(r)
  <2>1. PICK S : mem' = [mem EXCEPT ![r] = [mem[r] EXCEPT !.lost = S]]
    BY <1>4 DEF DeleteLost
  <2>2. [mem[r] EXCEPT !.lost = S].call = mem[r].call
    BY <1>1 DEF Memory
  <2> QED
    BY <2>1, <2>2, AssignBids
<1>5. CASE RelistPools(r)
  <2>1. PICK L, T, s : mem' = [mem EXCEPT ![r] =
                        [mem[r] EXCEPT !.listed = L, !.todo = T, !.seen = s]]
    BY <1>5 DEF RelistPools
  <2>2. [mem[r] EXCEPT !.listed = L, !.todo = T, !.seen = s].call = mem[r].call
    BY <1>1 DEF Memory
  <2> QED
    BY <2>1, <2>2, AssignBids
<1>6. CASE SkipClass(r)
  <2>1. PICK T : mem' = [mem EXCEPT ![r] = [mem[r] EXCEPT !.todo = T]]
    BY <1>6 DEF SkipClass
  <2>2. [mem[r] EXCEPT !.todo = T].call = mem[r].call
    BY <1>1 DEF Memory
  <2> QED
    BY <2>1, <2>2, AssignBids
<1>7. CASE PrepareUpdate(r) \/ PrepareCreate(r)
  <2>1. PICK c, n, b : mem' = [mem EXCEPT ![r] = [mem[r] EXCEPT !.call =
            [class |-> c, name |-> n, bid |-> b, min |-> 0, retried |-> FALSE]]]
    BY <1>7 DEF PrepareUpdate, PrepareCreate
  <2>2. [mem[r] EXCEPT !.call = [class |-> c, name |-> n, bid |-> b, min |-> 0,
                                 retried |-> FALSE]].call.retried = FALSE
    BY <1>1 DEF Memory
  <2> QED
    BY <2>1, <2>2, AssignBids
<1>8. CASE CallAccepted(r)
  <2>1. PICK T : mem' = [mem EXCEPT ![r] = [mem[r] EXCEPT !.todo = T, !.call = NoCall]]
    BY <1>8 DEF CallAccepted
  <2>2. [mem[r] EXCEPT !.todo = T, !.call = NoCall].call.retried = FALSE
    BY <1>1 DEF Memory, NoCall
  <2> QED
    BY <2>1, <2>2, AssignBids
<1>9. CASE BidRejected(r)
  <2> DEFINE min == floor[mem[r].call.class]
  <2>0. PICK bid \in RoundBids(min) :
          mem' = [mem EXCEPT ![r] = [mem[r] EXCEPT !.call =
                    [mem[r].call EXCEPT !.bid = bid, !.min = min,
                                        !.retried = TRUE]]]
    BY <1>9 DEF BidRejected
  <2> DEFINE k == [mem[r].call EXCEPT !.bid = bid, !.min = min, !.retried = TRUE]
  <2>1. mem' = [mem EXCEPT ![r] = [mem[r] EXCEPT !.call = k]]
    BY <2>0
  <2>2. MadeFromMin(k)
    BY <1>1, <1>9, <2>0 DEF Call, MadeFromMin, BidRejected, CallOK
  <2>3. [mem[r] EXCEPT !.call = k].call = k
    BY <1>1 DEF Memory
  <2> HIDE DEF k
  <2> QED
    BY <2>1, <2>2, <2>3, AssignBids
<1>10. CASE ListError(r) \/ CallError(r) \/ DeleteError(r) \/ Start(r) \/ Crash(r)
  <2>1. mem' = [mem EXCEPT ![r] = Blank]
    BY <1>10 DEF ListError, CallError, DeleteError, Start, Crash, GiveUp
  <2> QED
    BY <2>1, <1>2, AssignBids
<1>11. CASE CollectStale(r) \/ DeleteStale(r)
  <2>1. PICK S : mem' = [mem EXCEPT ![r] = [mem[r] EXCEPT !.stale = S]]
    BY <1>11 DEF CollectStale, DeleteStale
  <2>2. [mem[r] EXCEPT !.stale = S].call = mem[r].call
    BY <1>1 DEF Memory
  <2> QED
    BY <2>1, <2>2, AssignBids
<1>12. CASE ListNodes(r) \/ UncordonNode(r)
  <2>1. PICK K : mem' = [mem EXCEPT ![r] = [mem[r] EXCEPT !.cords = K]]
    BY <1>12 DEF ListNodes, UncordonNode
  <2>2. [mem[r] EXCEPT !.cords = K].call = mem[r].call
    BY <1>1 DEF Memory
  <2> QED
    BY <2>1, <2>2, AssignBids
<1>13. CASE Wake(r) \/ ListNodesError(r)
  BY <1>13 DEF Wake, ListNodesError, RetryOK
<1> QED
  BY <1>3, <1>4, <1>5, <1>6, <1>7, <1>8, <1>9, <1>10, <1>11, <1>12, <1>13 DEF Step, SpotStep, NodeStep

\* A retried bid is valid, is refused again only if the minimum has risen since
\* the refusal, and is at most a step above the minimum that was reported.
THEOREM RetriesEnough == Spec => []RetryBidEnough
<1>1. Init => RetryOK
  BY DEF Init, RetryOK, Blank, NoCall
<1>2. TypeOK /\ CallOK /\ RetryOK /\ [Next]_vars => RetryOK'
  <2> SUFFICES ASSUME TypeOK, CallOK, RetryOK, [Next]_vars PROVE RetryOK'
    OBVIOUS
  <2>1. CASE \E r \in Runners : Step(r) \/ Start(r) \/ Crash(r)
    BY <2>1, StepBids
  <2>2. CASE World \/ UNCHANGED vars
    BY <2>2 DEF World, PoolLost, PoolBack, FloorMoves, Cordon, vars, RetryOK
  <2> QED
    BY <2>1, <2>2 DEF Next
<1>3. TypeOK /\ RetryOK => RetryBidEnough
  <2> SUFFICES ASSUME TypeOK, RetryOK, NEW r \in Runners, mem[r].call.retried
               PROVE  LET call == mem[r].call
                      IN  /\ call.bid % 5 = 0
                          /\ call.bid < floor[call.class] =>
                                call.min < floor[call.class]
                          /\ call.bid <= call.min + 5
    BY DEF RetryBidEnough
  <2>1. mem[r].call.min \in Nat
    BY FieldTypes DEF TypeOK, Call
  <2>2. MadeFromMin(mem[r].call)
    BY DEF RetryOK
  <2>3. floor[mem[r].call.class] \in Nat
    BY <2>2, PricesType DEF MadeFromMin, TypeOK
  <2> QED
    BY <2>1, <2>2, <2>3, RoundBidEnough DEF MadeFromMin
<1> QED
  BY <1>1, <1>2, <1>3, TypeCorrect, PTL DEF Spec
=============================================================================
