------------------------------ MODULE ApplyPlan ------------------------------
(***************************************************************************)
(* cmd/optimize, applyConfiguration: one run of the command reconciles the *)
(* spot node pools of a cloudspace with a plan (server class -> count).    *)
(* Several runs may overlap (a cron job whose predecessor still sleeps     *)
(* before it deletes), each run may die at any step, and the Rackspace API *)
(* may refuse a bid, fail a call, or apply a call and still report an      *)
(* error.  Every API request is one step; what a run remembers between two *)
(* requests is a snapshot that the world may have left behind.             *)
(***************************************************************************)
EXTENDS Integers, FiniteSets

CONSTANTS
    Runners,    \* invocations of the command that may be alive together
    Classes,    \* server classes
    Names,      \* pool names (the uuids the command mints, and user names)
    Nodes,      \* Kubernetes nodes
    MaxCount,   \* bound: largest number of nodes in a pool
    Prices,     \* a class's bids and minimum prices, in thousandths of a dollar
    Raised,     \* those on the grid that float64 may take for above it
    Modes,      \* the flag combinations --dry-run / --delay-destroy in use
    PoolsMayFail,  \* whether a pool may become lost during the behaviour
    None        \* no pool, no class

ASSUME CountAssumption == MaxCount \in Nat \ {0}
ASSUME PriceAssumption == Prices \in [Classes -> SUBSET Nat]
ASSUME NoneAssumption  == None \notin Names \cup Classes
ASSUME ModeAssumption  == Modes \subseteq [dry : BOOLEAN, delay : BOOLEAN]

VARIABLES
    pools,     \* the pools of the cloudspace, by name
    floor,     \* the lowest bid the API accepts, by class
    cordoned,  \* the unschedulable nodes of the cluster
    pc,        \* where each run is in applyConfiguration
    job,       \* plan and flags of each run
    mem        \* the local variables of each run

cloud == <<pools, floor, cordoned>>
vars  == <<pools, floor, cordoned, pc, job, mem>>

-----------------------------------------------------------------------------
(* Data.                                                                   *)

Counts == 0..MaxCount
Pool   == [class : Classes \cup {None}, desired : Counts, managed : BOOLEAN,
           status : {"none", "ok", "lost"}]
Seen   == [name : Names \cup {None}, desired : Counts, managed : BOOLEAN]
Call   == [class : Classes \cup {None}, name : Names \cup {None},
           bid : Nat, min : Nat, retried : BOOLEAN]
Memory == [listed : SUBSET Names,       \* existingPools
           lost   : SUBSET Names,       \* lostPools still to delete
           seen   : [Classes -> Seen],  \* existingByClass
           todo   : SUBSET Classes,     \* desiredPools not yet handled
           call   : Call,               \* the create or update in progress
           stale  : SUBSET Names,       \* poolsToDelete
           cords  : SUBSET Nodes]       \* cordonedNodes
Job    == [plan : [Classes -> Counts], dry : BOOLEAN, delay : BOOLEAN]
Minimums ==
    {f \in [Classes -> UNION {Prices[c] : c \in Classes}] :
        \A c \in Classes : f[c] \in Prices[c]}

Absent(c) == [class |-> c, desired |-> 0, managed |-> FALSE, status |-> "none"]
Unseen    == [name |-> None, desired |-> 0, managed |-> FALSE]
NoCall    == [class |-> None, name |-> None, bid |-> 0, min |-> 0,
              retried |-> FALSE]
Blank     == [listed |-> {}, lost |-> {}, seen |-> [c \in Classes |-> Unseen],
              todo |-> {}, call |-> NoCall, stale |-> {}, cords |-> {}]
NoJob     == [plan |-> [c \in Classes |-> 0], dry |-> FALSE, delay |-> FALSE]

Live(n)      == pools[n].status # "none"
Planned(r)   == {c \in Classes : job[r].plan[c] > 0}
Ended        == {"idle", "done", "failed"}
Labels       == Ended \cup {"list", "cleanup", "relist", "provision", "submit",
                            "sleep", "delete", "uncordon", "nodes"}
Active(r)    == pc[r] \notin Ended

\* A uuid is never minted twice.  The model takes a name again once no pool
\* and no run refers to it, which only renames pools.
Fresh(n) == /\ ~Live(n)
            /\ \A r \in Runners : /\ n \notin mem[r].listed
                                  /\ n # mem[r].call.name

\* roundBidPrice: up to the grid of half a cent.  0.035 / 0.005 is above 7 in
\* float64, so a price that is on the grid may be raised by a whole step;
\* which of them are depends on how the number came to be (0.285 stays when it
\* is read from text and rises as 57 * 0.005), so it is a choice here.
RoundBids(p) == LET up == ((p + 4) \div 5) * 5
                IN  {up} \cup {b \in {up + 5} : up = p /\ p \in Raised}

\* Mutant: pools the command did not make are overlooked.
ManagedOfClass(c) ==
    {n \in Names : Live(n) /\ pools[n].class = c /\ pools[n].managed}

OfClass(c) == {n \in Names : Live(n) /\ pools[n].class = c}

\* Mutant: a class without a pool is not skipped.
UnusedUnchecked(r) ==
    {mem[r].seen[c].name : c \in IF job[r].dry THEN {} ELSE Classes \ Planned(r)}

\* Mutant: the label is not looked at.
UnusedByAnyone(r) ==
    IF job[r].dry THEN {}
    ELSE {mem[r].seen[c].name : c \in Classes \ Planned(r)} \ {None}

\* Mutant: a dry run collects too.
UnusedEvenDry(r) ==
    {mem[r].seen[c].name : c \in {d \in Classes \ Planned(r) :
        mem[r].seen[d].name # None /\ mem[r].seen[d].managed}}

\* The managed pools of the classes that are not in the plan.
UnusedPools(r) ==
    LET unused == {c \in Classes \ Planned(r) : /\ mem[r].seen[c].name # None
                                                 /\ mem[r].seen[c].managed}
    IN  IF job[r].dry THEN {} ELSE {mem[r].seen[c].name : c \in unused}

-----------------------------------------------------------------------------
(* What an accepted request does to the pools.                             *)

Removed(n) == [pools EXCEPT ![n] = Absent(@.class)]

Creates(r) == mem[r].seen[mem[r].call.class].name = None

Landed(r) ==
    LET call  == mem[r].call
        count == job[r].plan[call.class]
    IN  [pools EXCEPT ![call.name] =
            IF Creates(r)
            THEN [class |-> call.class, desired |-> count,
                  managed |-> TRUE, status |-> "ok"]
            ELSE [@ EXCEPT !.desired = count]]

\* The API finds the pool to update, and the bid is high enough.
Admissible(r) == /\ Creates(r) \/ Live(mem[r].call.name)
                 /\ mem[r].call.bid >= floor[mem[r].call.class]

-----------------------------------------------------------------------------
Init ==
    /\ pools \in [Names -> {Absent(None)} \cup
                   [class : Classes, desired : Counts \ {0}, managed : BOOLEAN,
                    status : {"ok", "lost"}]]
    /\ floor \in Minimums
    /\ cordoned \in SUBSET Nodes
    /\ pc = [r \in Runners |-> "idle"]
    /\ job = [r \in Runners |-> NoJob]
    /\ mem = [r \in Runners |-> Blank]

Goto(r, label) == pc' = [pc EXCEPT ![r] = label]

\* An error return, or the death of the process: the local variables are gone.
GiveUp(r) == /\ Goto(r, "failed")
             /\ mem' = [mem EXCEPT ![r] = Blank]

\* run hands a non-empty plan over; without pods it returns before that.
Start(r) ==
    /\ ~Active(r)
    /\ \E plan \in [Classes -> Counts], m \in Modes :
          /\ \E c \in Classes : plan[c] > 0
          /\ job' = [job EXCEPT ![r] = [plan |-> plan, dry |-> m.dry,
                                        delay |-> m.delay]]
    /\ mem' = [mem EXCEPT ![r] = Blank]
    /\ Goto(r, "list")
    /\ UNCHANGED cloud

\* The first listing, and the lost pools in it.
ListPools(r) ==
    /\ pc[r] = "list"
    /\ LET listed == {n \in Names : Live(n)}
           lost   == {n \in listed : pools[n].status = "lost"}
       IN  /\ mem' = [mem EXCEPT ![r] = [@ EXCEPT !.listed = listed,
                                                   !.lost = lost]]
           /\ Goto(r, IF lost = {} THEN "relist" ELSE "cleanup")
    /\ UNCHANGED <<cloud, job>>

\* Delete one lost pool.  A failure is printed and the loop goes on.
DeleteLost(r) ==
    /\ pc[r] = "cleanup"
    /\ \E n \in mem[r].lost :
          /\ \/ ~job[r].dry /\ Live(n) /\ pools' = Removed(n)
             \/ UNCHANGED pools
          /\ mem' = [mem EXCEPT ![r].lost = @ \ {n}]
          /\ Goto(r, IF mem[r].lost = {n} THEN "relist" ELSE "cleanup")
    /\ UNCHANGED <<floor, cordoned, job>>

\* The second listing, indexed by class: of two pools of a class the one that
\* comes later in the listing is kept, whatever its status or its labels.
RelistPools(r) ==
    /\ pc[r] = "relist"
    /\ \E last \in [Classes -> Names \cup {None}] :
          /\ \A c \in Classes : IF OfClass(c) = {} THEN last[c] = None
                                ELSE last[c] \in OfClass(c)
          /\ mem' = [mem EXCEPT ![r] = [@ EXCEPT
                !.listed = {n \in Names : Live(n)},
                !.todo = Planned(r),
                !.seen = [c \in Classes |->
                    IF last[c] = None THEN Unseen
                    ELSE [name |-> last[c],
                          desired |-> pools[last[c]].desired,
                          managed |-> pools[last[c]].managed]]]]
    /\ Goto(r, "provision")
    /\ UNCHANGED <<cloud, job>>

\* Mutant: a failed listing starts the run over.
ListErrorRestarts(r) ==
    /\ pc[r] \in {"list", "relist"}
    /\ mem' = [mem EXCEPT ![r] = Blank]
    /\ Goto(r, "list")
    /\ UNCHANGED <<cloud, job>>

\* A listing fails.
ListError(r) ==
    /\ pc[r] \in {"list", "relist"}
    /\ GiveUp(r)
    /\ UNCHANGED <<cloud, job>>

\* The class needs no request: its pool has the planned size, or the run is
\* a dry run.
SkipClass(r) ==
    /\ pc[r] = "provision"
    /\ \E c \in mem[r].todo :
          /\ \/ job[r].dry
             \/ /\ mem[r].seen[c].name # None
                /\ mem[r].seen[c].desired = job[r].plan[c]
          /\ mem' = [mem EXCEPT ![r].todo = @ \ {c}]
    /\ UNCHANGED <<cloud, pc, job>>

\* The pool of the class has another size: prepare the update.
PrepareUpdate(r) ==
    /\ pc[r] = "provision"
    /\ ~job[r].dry
    /\ \E c \in mem[r].todo : \E price \in Prices[c] : \E bid \in RoundBids(price) :
          /\ mem[r].seen[c].name # None
          /\ mem[r].seen[c].desired # job[r].plan[c]
          /\ mem' = [mem EXCEPT ![r].call =
                [class |-> c, name |-> mem[r].seen[c].name,
                 bid |-> bid, min |-> 0, retried |-> FALSE]]
    /\ Goto(r, "submit")
    /\ UNCHANGED <<cloud, job>>

\* No pool of the class was listed: mint a name and prepare the create.
PrepareCreate(r) ==
    /\ pc[r] = "provision"
    /\ ~job[r].dry
    /\ \E c \in mem[r].todo, n \in Names :
          \E price \in Prices[c] : \E bid \in RoundBids(price) :
          /\ mem[r].seen[c].name = None
          /\ Fresh(n)
          /\ mem' = [mem EXCEPT ![r].call =
                [class |-> c, name |-> n,
                 bid |-> bid, min |-> 0, retried |-> FALSE]]
    /\ Goto(r, "submit")
    /\ UNCHANGED <<cloud, job>>

\* The API carries the request out and says so.
CallAccepted(r) ==
    /\ pc[r] = "submit"
    /\ Admissible(r)
    /\ pools' = Landed(r)
    /\ mem' = [mem EXCEPT ![r] =
                [@ EXCEPT !.todo = mem[r].todo \ {mem[r].call.class},
                          !.call = NoCall]]
    /\ Goto(r, "provision")
    /\ UNCHANGED <<floor, cordoned, job>>

\* Mutant: the retry repeats the bid that was refused.
BidRejectedSame(r) ==
    /\ pc[r] = "submit"
    /\ ~mem[r].call.retried
    /\ LET min == floor[mem[r].call.class]
       IN  /\ mem[r].call.bid < min
           /\ mem' = [mem EXCEPT ![r].call = [@ EXCEPT !.min = min,
                                                      !.retried = TRUE]]
    /\ UNCHANGED <<cloud, pc, job>>

\* The first bid is too low and the error names the minimum: retry, once, with
\* that minimum rounded up.
BidRejected(r) ==
    /\ pc[r] = "submit"
    /\ ~mem[r].call.retried
    /\ LET min == floor[mem[r].call.class]
       IN  /\ mem[r].call.bid < min
           /\ \E bid \in RoundBids(min) :
                 mem' = [mem EXCEPT ![r].call = [@ EXCEPT !.bid = bid,
                                                         !.min = min,
                                                         !.retried = TRUE]]
    /\ UNCHANGED <<cloud, pc, job>>

\* Mutant: the error is logged and the loop goes on.
CallErrorLogged(r) ==
    /\ pc[r] = "submit"
    /\ mem' = [mem EXCEPT ![r] =
                [@ EXCEPT !.todo = mem[r].todo \ {mem[r].call.class},
                          !.call = NoCall]]
    /\ Goto(r, "provision")
    /\ UNCHANGED <<cloud, job>>

\* Mutant: uncordoning is deferred, so it happens on an error return too.
CallErrorUncordons(r) ==
    /\ pc[r] = "submit"
    /\ GiveUp(r)
    /\ cordoned' = {}
    /\ UNCHANGED <<pools, floor, job>>

\* Any other error: the pool is gone, the retry was rejected too, the text
\* names no minimum, or the answer was lost although the request was carried
\* out.  The whole run ends.
CallError(r) ==
    /\ pc[r] = "submit"
    /\ \/ Admissible(r) /\ pools' = Landed(r)
       \/ UNCHANGED pools
    /\ GiveUp(r)
    /\ UNCHANGED <<floor, cordoned, job>>

\* All planned classes are handled: collect the managed pools of the others.
CollectStale(r) ==
    /\ pc[r] = "provision"
    /\ mem[r].todo = {}
    /\ mem' = [mem EXCEPT ![r].stale = UnusedPools(r)]
    /\ Goto(r, IF UnusedPools(r) = {} THEN "uncordon"
               ELSE IF job[r].delay THEN "sleep" ELSE "delete")
    /\ UNCHANGED <<cloud, job>>

\* The twenty minutes of --delay-destroy are over.
Wake(r) ==
    /\ pc[r] = "sleep"
    /\ Goto(r, "delete")
    /\ UNCHANGED <<cloud, job, mem>>

DeleteStale(r) ==
    /\ pc[r] = "delete"
    /\ \E n \in mem[r].stale :
          /\ Live(n)
          /\ pools' = Removed(n)
          /\ mem' = [mem EXCEPT ![r].stale = @ \ {n}]
          /\ Goto(r, IF mem[r].stale = {n} THEN "uncordon" ELSE "delete")
    /\ UNCHANGED <<floor, cordoned, job>>

\* Mutant: a failed delete is only a warning.
DeleteErrorIgnored(r) ==
    /\ pc[r] = "delete"
    /\ \E n \in mem[r].stale :
          /\ mem' = [mem EXCEPT ![r].stale = @ \ {n}]
          /\ Goto(r, IF mem[r].stale = {n} THEN "uncordon" ELSE "delete")
    /\ UNCHANGED <<cloud, job>>

\* A delete fails (the pool may be gone already, or go nevertheless).
DeleteError(r) ==
    /\ pc[r] = "delete"
    /\ \/ \E n \in mem[r].stale : Live(n) /\ pools' = Removed(n)
       \/ UNCHANGED pools
    /\ GiveUp(r)
    /\ UNCHANGED <<floor, cordoned, job>>

ListNodes(r) ==
    /\ pc[r] = "uncordon"
    /\ mem' = [mem EXCEPT ![r].cords = cordoned]
    /\ Goto(r, IF cordoned = {} THEN "done" ELSE "nodes")
    /\ UNCHANGED <<cloud, job>>

\* The error of uncordonAllNodes is only a warning.
ListNodesError(r) ==
    /\ pc[r] = "uncordon"
    /\ Goto(r, "done")
    /\ UNCHANGED <<cloud, job, mem>>

\* One node of the listing; a conflict or another failure is printed.
UncordonNode(r) ==
    /\ pc[r] = "nodes"
    /\ \E k \in mem[r].cords :
          /\ \/ ~job[r].dry /\ cordoned' = cordoned \ {k}
             \/ UNCHANGED cordoned
          /\ mem' = [mem EXCEPT ![r].cords = @ \ {k}]
          /\ Goto(r, IF mem[r].cords = {k} THEN "done" ELSE "nodes")
    /\ UNCHANGED <<pools, floor, job>>

Crash(r) ==
    /\ Active(r)
    /\ GiveUp(r)
    /\ UNCHANGED <<cloud, job>>

-----------------------------------------------------------------------------
(* The environment.                                                        *)

\* A pool is outbid or breaks, and may come back.
PoolLost(n) ==
    /\ PoolsMayFail
    /\ pools[n].status = "ok"
    /\ pools' = [pools EXCEPT ![n].status = "lost"]
    /\ UNCHANGED <<floor, cordoned, pc, job, mem>>

PoolBack(n) ==
    /\ PoolsMayFail
    /\ pools[n].status = "lost"
    /\ pools' = [pools EXCEPT ![n].status = "ok"]
    /\ UNCHANGED <<floor, cordoned, pc, job, mem>>

FloorMoves(c) ==
    /\ \E p \in Prices[c] \ {floor[c]} : floor' = [floor EXCEPT ![c] = p]
    /\ UNCHANGED <<pools, cordoned, pc, job, mem>>

Cordon(k) ==
    /\ cordoned' = cordoned \cup {k}
    /\ cordoned' # cordoned
    /\ UNCHANGED <<pools, floor, pc, job, mem>>

-----------------------------------------------------------------------------
\* The steps that compute, sleep, or wait for the Spot API.
SpotStep(r) ==
    \/ ListPools(r)     \/ DeleteLost(r)     \/ RelistPools(r)
    \/ ListError(r)     \/ SkipClass(r)      \/ PrepareUpdate(r)
    \/ PrepareCreate(r) \/ CallAccepted(r)   \/ BidRejected(r)
    \/ CallError(r)     \/ CollectStale(r)   \/ Wake(r)
    \/ DeleteStale(r)   \/ DeleteError(r)

\* The steps that wait for the cluster's own API.
NodeStep(r) == ListNodes(r) \/ ListNodesError(r) \/ UncordonNode(r)

Step(r) == SpotStep(r) \/ NodeStep(r)

World ==
    \/ \E n \in Names : PoolLost(n) \/ PoolBack(n)
    \/ \E c \in Classes : FloorMoves(c)
    \/ \E k \in Nodes : Cordon(k)

Next ==
    \/ \E r \in Runners : Step(r) \/ Start(r) \/ Crash(r)
    \/ World

Spec == Init /\ [][Next]_vars

\* The HTTP client of the Spot SDK gives up after 30 seconds, so its requests
\* are answered or fail.  The Kubernetes client has no timeout and is called
\* with the background context: nothing says that a NodeStep is ever taken.
FairSpec == Spec /\ \A r \in Runners : WF_vars(SpotStep(r))

-----------------------------------------------------------------------------
(* Properties.                                                             *)

\* Types of the cloudspace's state and of the local variables of the runs.
TypeOK ==
    /\ pools \in [Names -> Pool]
    /\ floor \in Minimums
    /\ cordoned \in SUBSET Nodes
    /\ pc \in [Runners -> Labels]
    /\ job \in [Runners -> Job]
    /\ mem \in [Runners -> Memory]

\* Make before break: once a run starts to retire pools, and until it has
\* ended well, every class of its plan has a pool of the planned size, for
\* every order of the map iteration and every failure on the way.  (It is
\* about a run that is the only writer; the classes of the other runs' plans
\* are theirs to delete.)
Retiring(r) == pc[r] \in {"sleep", "delete", "uncordon", "nodes", "done"}
Provisioned(r, c) == \E n \in Names : /\ Live(n)
                                      /\ pools[n].class = c
                                      /\ pools[n].desired = job[r].plan[c]
RetireOnlyAfterProvision ==
    \A r \in Runners : Retiring(r) /\ ~job[r].dry =>
        \A c \in Planned(r) : Provisioned(r, c)

\* The same with a pool that is not lost: what --delay-destroy promises.
Healthy(c) == \E n \in Names : pools[n].class = c /\ pools[n].status = "ok"
ReplacedByHealthy ==
    \A r \in Runners : pc[r] \in {"sleep", "delete"} =>
        \A c \in Planned(r) : Healthy(c)

\* Runs that do not overlap never make a second pool for a class, although a
\* create may land and report an error, and the next run starts from scratch.
OnePoolPerClass ==
    \A m, n \in Names : /\ Live(m) /\ Live(n)
                        /\ pools[m].class = pools[n].class
                        => m = n

\* A run that ends well has left no managed pool of an unused class among the
\* pools it listed.
UnusedPoolsRetired ==
    \A r \in Runners : pc[r] = "done" /\ ~job[r].dry =>
        \A n \in mem[r].listed :
            Live(n) /\ pools[n].managed => pools[n].class \in Planned(r)

\* No pool is ever deleted except by a run that means it: it listed the pool
\* as lost, or the pool is managed, its class is not in the run's plan and
\* the run has handled all of its plan.  Holds for overlapping runs, with the
\* snapshots as old as the twenty minutes of sleep make them.
OnlyUnusedOrLostDeleted ==
    [][\A n \in Names : Live(n) /\ ~Live(n)' =>
        \E r \in Runners :
            /\ ~job[r].dry
            /\ \/ n \in mem[r].lost
               \/ /\ pc[r] = "delete"
                  /\ mem[r].todo = {}
                  /\ pools[n].managed
                  /\ pools[n].class \notin Planned(r)]_vars

\* While all the active runs are dry runs no pool appears, goes or changes
\* size, and no node is uncordoned.
DryRunReadOnly ==
    [][(\A r \in Runners : Active(r) => job[r].dry) =>
        /\ \A n \in Names : /\ Live(n) <=> Live(n)'
                            /\ pools[n].desired = pools'[n].desired
        /\ cordoned \subseteq cordoned']_vars

\* Nodes are uncordoned last: only by a run that has the plan in place and
\* has nothing left to delete.
UncordonsLast ==
    [][\A k \in cordoned \ cordoned' :
        \E r \in Runners : /\ ~job[r].dry
                           /\ mem[r].stale = {}
                           /\ \A c \in Planned(r) : Provisioned(r, c)]_vars

\* The one retry is worth its while: its bid is valid (a multiple of half a
\* cent), it is refused once more only if the minimum has risen since the
\* first refusal, and it is at most a step above the minimum it was told.
\* (Less than a step would be wrong: a minimum of 0.035 is retried with 0.04.)
RetryBidEnough ==
    \A r \in Runners : LET call == mem[r].call IN call.retried =>
        /\ call.bid % 5 = 0
        /\ call.bid < floor[call.class] => call.min < floor[call.class]
        /\ call.bid <= call.min + 5

\* Whatever the Spot API answers and however the minimum moves, a run ends or
\* gets as far as uncordoning nodes, where it may wait for ever.
RunEndsOrUncordons ==
    \A r \in Runners : Active(r) ~> ~Active(r) \/ pc[r] \in {"uncordon", "nodes"}

-----------------------------------------------------------------------------
(* What makes them inductive: how far a run may trust its snapshots.       *)

\* A pool a run has seen keeps its class, and its label as long as it lives.
SeenOK(r) ==
    \A c \in Classes : LET s == mem[r].seen[c] IN s.name # None =>
        /\ s.name \in mem[r].listed
        /\ pools[s.name].class = c
        /\ Live(s.name) => pools[s.name].managed = s.managed

StaleOK(r) ==
    \A n \in mem[r].stale :
        /\ n \in mem[r].listed
        /\ pools[n].class \notin Planned(r)
        /\ Live(n) => pools[n].managed

\* A name minted for a create belongs to nobody else.
CreateOK(r) ==
    pc[r] = "submit" =>
        IF Creates(r)
        THEN /\ ~Live(mem[r].call.name)
             /\ \A q \in Runners :
                   /\ mem[r].call.name \notin mem[q].listed
                   /\ q # r => mem[r].call.name # mem[q].call.name
        ELSE mem[r].call.name = mem[r].seen[mem[r].call.class].name

PhaseOK(r) ==
    /\ pc[r] \in {"list", "cleanup", "relist"} =>
          \A c \in Classes : mem[r].seen[c].name = None
    /\ pc[r] = "submit" => mem[r].call.class \in mem[r].todo
    /\ pc[r] \in {"submit", "sleep", "delete"} => ~job[r].dry
    /\ Retiring(r) => mem[r].todo = {}
    /\ pc[r] \notin {"sleep", "delete"} => mem[r].stale = {}

SnapshotInv ==
    \A r \in Runners : SeenOK(r) /\ StaleOK(r) /\ CreateOK(r) /\ PhaseOK(r)

\* Nobody else writes: what the sole run has listed is still so.
ListingCurrent(r) ==
    pc[r] \in {"provision", "submit"} =>
        \A c \in mem[r].todo : LET s == mem[r].seen[c] IN
            IF s.name = None
            THEN \A n \in Names : Live(n) => pools[n].class # c
            ELSE Live(s.name) /\ pools[s.name].desired = s.desired

ProgressKept(r) ==
    (pc[r] \in {"provision", "submit"} \/ Retiring(r)) /\ ~job[r].dry =>
        \A c \in Planned(r) \ mem[r].todo : Provisioned(r, c)

SoleInv == \A r \in Runners : ListingCurrent(r) /\ ProgressKept(r)
=============================================================================
