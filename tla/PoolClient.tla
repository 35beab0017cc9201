----------------------------- MODULE PoolClient -----------------------------
(***************************************************************************)
(* internal/spot, Client: goroutines create and delete nodes by resizing   *)
(* the node pools of the cloudspace.  An operation lists the pools,        *)
(* decides, and sends one request (two when a bid is refused); the client  *)
(* holds sdkMu from the listing to the answer.  Requests fail, and some    *)
(* that fail were carried out.                                             *)
(***************************************************************************)
EXTENDS Integers, FiniteSets

CONSTANTS
    Callers,     \* goroutines using the client
    Classes,     \* server classes
    Names,       \* pool names
    ClassOf,     \* the server class of a pool
    OwnName,     \* generatePoolName: the name the client gives to a pool
    Managed,     \* the pools labelled karpetrack.io/managed
    MaxCount,    \* bound: the largest pool the account's quota allows
    Prices,      \* bids and minimum prices, in thousandths of a dollar
    Raised,      \* those on the grid that float64 may take for above it
    DefaultBid,  \* what parseBidPrice returns for a text it cannot read
    IdForms,     \* the node ids in use: "pending" (CreateNode), "listed" (ListNodes)
    Targets,     \* the sizes asked of ScaleNodePool and UpdateNodePool
    None

ASSUME NameAssumption == /\ ClassOf \in [Names -> Classes]
                         /\ OwnName \in [Classes -> Names]
                         /\ \A c \in Classes : ClassOf[OwnName[c]] = c
                         /\ Managed \subseteq Names
ASSUME CountAssumption == MaxCount \in Nat \ {0} /\ Targets \subseteq 0..MaxCount
ASSUME PriceAssumption == Prices \subseteq Nat /\ DefaultBid \in Nat \ {0}
ASSUME FormAssumption  == IdForms \subseteq {"pending", "listed"}
ASSUME NoneAssumption  == None \notin Callers \cup Names

VARIABLES
    pools,    \* the pools of the cloudspace
    floor,    \* the lowest bid the API accepts, by class
    writer,   \* who holds sdkMu for writing, or None
    readers,  \* who holds it for reading
    pc,       \* where each caller is
    op,       \* the operation each caller is in
    req       \* the request it has decided on

cloud == <<pools, floor>>
mutex == <<writer, readers>>
vars  == <<pools, floor, writer, readers, pc, op, req>>

-----------------------------------------------------------------------------
Sizes == 1..MaxCount
Pool  == [live : BOOLEAN, desired : 0..MaxCount, bid : Nat]
Req   == [verb : {"create", "update", "delete"}, name : Names,
          desired : Nat, bid : Nat,
          retry : BOOLEAN]   \* whether a refused bid is tried again

NoPool == [live |-> FALSE, desired |-> 0, bid |-> 0]
NoOp   == [kind |-> "none"]
NoReq  == [verb |-> "none", name |-> None, desired |-> 0, bid |-> 0,
           retry |-> FALSE]

\* "ok", "lost" and "error": the answer is in, the caller has not unlocked.
\* Of the two errors, "lost" is the one whose request was carried out.
Answers == {"ok", "lost", "error"}
Labels  == {"idle", "lock", "list", "send"} \cup Answers

\* RoundBidPrice: up to the next half cent, at least one.  The quotient by
\* 0.005 is a float64, so a price on the grid may be raised by a step.
RoundBids(p) == LET up == IF p = 0 THEN 5 ELSE ((p + 4) \div 5) * 5
                IN  {up} \cup {b \in {up + 5} : up = p /\ p \in Raised}

\* Mutant: an unreadable text is taken for 0.
ParsedBidUnchecked(bid) == 0

\* parseBidPrice: the API writes a bid as "$0.0100", which %f does not scan.
ParsedBid(bid) == DefaultBid

Goto(p, label) == pc' = [pc EXCEPT ![p] = label]

-----------------------------------------------------------------------------
Init ==
    /\ pools \in [Names -> {NoPool} \cup [live : {TRUE}, desired : Sizes,
                                          bid : UNION {RoundBids(b) : b \in Prices}]]
    /\ floor \in [Classes -> Prices]
    /\ writer = None
    /\ readers = {}
    /\ pc = [p \in Callers |-> "idle"]
    /\ op = [p \in Callers |-> NoOp]
    /\ req = [p \in Callers |-> NoReq]

-----------------------------------------------------------------------------
(* Calls.                                                                  *)

Calls ==
    [kind : {"create"}, class : Classes, bid : Prices]
    \cup [kind : {"delete"}, name : Managed, form : IdForms]
    \cup [kind : {"scale"}, name : Names, count : Targets]
    \cup [kind : {"update"}, name : Names, count : Targets, bid : Prices]
    \cup {[kind |-> "list"]}

\* A goroutine calls the client.
Begin(p) ==
    /\ pc[p] = "idle"
    /\ \E o \in Calls : op' = [op EXCEPT ![p] = o]
    /\ Goto(p, "lock")
    /\ UNCHANGED <<cloud, mutex, req>>

\* Mutant: operations that write take the lock for reading.
LockShared(p) ==
    /\ pc[p] = "lock"
    /\ writer = None
    /\ readers' = readers \cup {p}
    /\ Goto(p, "list")
    /\ UNCHANGED <<cloud, writer, op, req>>

\* sdkMu.RLock for ListNodes and ListManagedPools, sdkMu.Lock for the others.
Lock(p) ==
    /\ pc[p] = "lock"
    /\ writer = None
    /\ \/ /\ op[p].kind = "list"
          /\ readers' = readers \cup {p} /\ writer' = writer
       \/ /\ op[p].kind # "list"
          /\ readers = {}
          /\ writer' = p /\ readers' = readers
    /\ Goto(p, "list")
    /\ UNCHANGED <<cloud, op, req>>

\* Mutant: the unlock is not deferred, so an error return skips it.
ReturnLocked(p) ==
    /\ pc[p] \in Answers
    /\ Goto(p, "idle")
    /\ writer' = IF writer = p /\ pc[p] = "ok" THEN None ELSE writer
    /\ readers' = readers \ {p}
    /\ op' = [op EXCEPT ![p] = NoOp]
    /\ req' = [req EXCEPT ![p] = NoReq]
    /\ UNCHANGED cloud

\* The deferred unlock, whatever is returned.
Return(p) ==
    /\ pc[p] \in Answers
    /\ Goto(p, "idle")
    /\ writer' = IF writer = p THEN None ELSE writer
    /\ readers' = readers \ {p}
    /\ op' = [op EXCEPT ![p] = NoOp]
    /\ req' = [req EXCEPT ![p] = NoReq]
    /\ UNCHANGED cloud

-----------------------------------------------------------------------------
(* From the listing to a request.                                          *)

Decide(p, request) ==
    /\ pc[p] = "list"
    /\ req' = [req EXCEPT ![p] = request]
    /\ Goto(p, "send")
    /\ UNCHANGED <<cloud, mutex, op>>

Bidding(verb, n, size, bid, again) ==
    [verb |-> verb, name |-> n, desired |-> size, bid |-> bid, retry |-> again]

\* The managed pools of the class.
Candidates(p) ==
    {n \in Managed : pools[n].live /\ ClassOf[n] = op[p].class}

\* CreateNode: one more node in the first managed pool of the class listed.
DecideGrow(p) ==
    /\ op[p].kind = "create"
    /\ \E n \in Candidates(p), bid \in RoundBids(op[p].bid) :
          Decide(p, Bidding("update", n, pools[n].desired + 1, bid, TRUE))

\* CreateNode without such a pool: one with a single node.
DecideCreate(p) ==
    /\ op[p].kind = "create"
    /\ Candidates(p) = {}
    /\ \E bid \in RoundBids(op[p].bid) :
          Decide(p, Bidding("create", OwnName[op[p].class], 1, bid, TRUE))

\* extractPoolNameFromNodeID: an id made by CreateNode holds the pool's name;
\* one made by ListNodes yields a text that names no pool.
Found(p) == op[p].form = "pending" /\ pools[op[p].name].live

\* DeleteNode of the last node: the pool goes.
DecideDrop(p) ==
    /\ op[p].kind = "delete"
    /\ Found(p)
    /\ pools[op[p].name].desired <= 1
    /\ Decide(p, Bidding("delete", op[p].name, 0, 0, FALSE))

\* DeleteNode of another node.  A refused bid is not tried again.
DecideShrink(p) ==
    /\ op[p].kind = "delete"
    /\ Found(p)
    /\ pools[op[p].name].desired > 1
    /\ Decide(p, Bidding("update", op[p].name, pools[op[p].name].desired - 1,
                         ParsedBid(pools[op[p].name].bid), FALSE))

\* DeleteNode without the pool: nil, the node is taken to be gone.
AlreadyGone(p) ==
    /\ pc[p] = "list" /\ op[p].kind = "delete"
    /\ ~Found(p)
    /\ Goto(p, "ok")
    /\ UNCHANGED <<cloud, mutex, op, req>>

\* ScaleNodePool takes the bid of the pool.
DecideScale(p) ==
    LET n == op[p].name
    IN  /\ op[p].kind = "scale"
        /\ \E bid \in RoundBids(ParsedBid(pools[n].bid)) :
              Decide(p, Bidding("update", n, op[p].count, bid, TRUE))

\* UpdateNodePool takes it from the caller, and does not list.
DecideUpdate(p) ==
    /\ op[p].kind = "update"
    /\ \E bid \in RoundBids(op[p].bid) :
          Decide(p, Bidding("update", op[p].name, op[p].count, bid, TRUE))

\* ListNodes and ListManagedPools.
Listed(p) ==
    /\ pc[p] = "list" /\ op[p].kind = "list"
    /\ Goto(p, "ok")
    /\ UNCHANGED <<cloud, mutex, op, req>>

\* The listing fails.
ListError(p) ==
    /\ pc[p] = "list" /\ op[p].kind # "update"
    /\ Goto(p, "error")
    /\ UNCHANGED <<cloud, mutex, op, req>>

-----------------------------------------------------------------------------
(* From the request to an answer.                                          *)

BidTooLow(p) == /\ req[p].verb # "delete"
                /\ req[p].bid < floor[ClassOf[req[p].name]]

\* The API can carry the request out.
Admissible(p) ==
    /\ pools[req[p].name].live <=> req[p].verb # "create"
    /\ req[p].desired <= MaxCount
    /\ ~BidTooLow(p)

\* The update is a merge patch, in which 0 nodes are left out ("omitempty"):
\* then the API leaves the size alone.
Served(p) ==
    LET r == req[p]
    IN  [pools EXCEPT ![r.name] =
           IF r.verb = "delete" THEN NoPool
           ELSE [live |-> TRUE, bid |-> r.bid,
                 desired |-> IF r.verb = "update" /\ r.desired = 0
                             THEN pools[r.name].desired ELSE r.desired]]

\* The API carries the request out; its answer arrives or is lost.
CarryOut(p) ==
    /\ pc[p] = "send"
    /\ Admissible(p)
    /\ pools' = Served(p)
    /\ Goto(p, "ok") \/ Goto(p, "lost")
    /\ UNCHANGED <<floor, mutex, op, req>>

\* The API names the minimum: the same request again, with that bid.
Retry(p) ==
    /\ pc[p] = "send"
    /\ req[p].retry
    /\ BidTooLow(p)
    /\ \E bid \in RoundBids(floor[ClassOf[req[p].name]]) :
          req' = [req EXCEPT ![p] = [req[p] EXCEPT !.bid = bid, !.retry = FALSE]]
    /\ UNCHANGED <<cloud, mutex, pc, op>>

\* Any other error: no pool of that name, one too many, a bid refused for good
\* or in words without a minimum, a timeout before the request arrived.
SendError(p) ==
    /\ pc[p] = "send"
    /\ Goto(p, "error")
    /\ UNCHANGED <<cloud, mutex, op, req>>

-----------------------------------------------------------------------------
\* The market moves the minimum bids.
FloorMoves(c) ==
    /\ \E b \in Prices \ {floor[c]} : floor' = [floor EXCEPT ![c] = b]
    /\ UNCHANGED <<pools, mutex, pc, op, req>>

Choose(p) ==
    \/ DecideGrow(p) \/ DecideCreate(p) \/ DecideDrop(p) \/ DecideShrink(p)
    \/ DecideScale(p) \/ DecideUpdate(p)

Step(p) ==
    \/ Choose(p) \/ AlreadyGone(p) \/ Listed(p) \/ ListError(p)
    \/ CarryOut(p) \/ Retry(p) \/ SendError(p) \/ Return(p)

Next ==
    \/ \E p \in Callers : Begin(p) \/ Lock(p) \/ Step(p)
    \/ \E c \in Classes : FloorMoves(c)

Spec == Init /\ [][Next]_vars

\* The HTTP client gives every request an end, and a sync.RWMutex starves
\* neither readers nor writers.
FairSpec == Spec /\ \A p \in Callers : WF_vars(Step(p)) /\ SF_vars(Lock(p))

-----------------------------------------------------------------------------
(* Properties.                                                             *)

\* Types.  A live pool has a node: none is ever scaled to zero.  No request
\* bids nothing, which "omitempty" would leave out.
TypeOK ==
    /\ pools \in [Names -> Pool]
    /\ \A n \in Names : pools[n].live <=> pools[n].desired > 0
    /\ floor \in [Classes -> Prices]
    /\ writer \in Callers \cup {None}
    /\ readers \in SUBSET Callers
    /\ pc \in [Callers -> Labels]
    /\ op \in [Callers -> Calls \cup {NoOp}]
    /\ req \in [Callers -> Req \cup {NoReq}]
    /\ \A p \in Callers : req[p].verb \in {"create", "update"} => req[p].bid > 0

\* The client keeps its promise: each call changes one pool by exactly what was
\* asked, once, however callers interleave and bids are refused; a call that
\* says it succeeded has done so (CreateNode, DeleteNode, ScaleNodePool and
\* UpdateNodePool).
Phase(label) == CASE label = "idle"           -> "idle"
                  [] label \in {"ok", "lost"} -> "done"
                  [] label = "error"          -> "failed"
                  [] OTHER                    -> "asked"
Promise == INSTANCE NodeCounts WITH
               Operations <- Calls,
               Idle  <- NoOp,
               size  <- [n \in Names |-> pools[n].desired],
               phase <- [p \in Callers |-> Phase(pc[p])]
KeepsCount == Promise!Spec

\* Shrinking or scaling a pool keeps its bid, unless the minimum is above it
\* ("Get current pool to preserve bid price").
BidKept ==
    [][\A p \in Callers :
         /\ pc[p] = "send" /\ pc'[p] = "ok"
         /\ op[p].kind \in {"delete", "scale"}
         /\ req[p].verb = "update"
         => pools'[req[p].name].bid = pools[req[p].name].bid
            \/ pools[req[p].name].bid < floor[ClassOf[req[p].name]]]_vars

\* Every call gets its turn at the lock and returns, although readers keep
\* coming and the minimum moves between a bid and its retry.
CallReturns == \A p \in Callers : pc[p] = "lock" ~> pc[p] = "idle"

-----------------------------------------------------------------------------
(* What makes the refinement inductive.                                    *)

InCall(p) == pc[p] \notin {"idle", "lock"}

\* Nobody is inside together with a writer.
Excluded ==
    \A p \in Callers : InCall(p) =>
        IF op[p].kind = "list"
        THEN p \in readers /\ writer = None
        ELSE writer = p /\ readers = {}

\* The request still fits the pools: nothing has changed since the listing.
Current(p) ==
    LET r == req[p]
        n == r.name
        k == op[p].kind
    IN  /\ k \in {"create", "delete", "scale", "update"}
        /\ k = "create" =>
              /\ ClassOf[n] = op[p].class
              /\ r.desired = IF r.verb = "create" THEN 1 ELSE pools[n].desired + 1
              /\ r.verb # "delete"
        /\ k = "delete" =>
              /\ n = op[p].name
              /\ r.verb = "delete" => pools[n].desired = 1
              /\ r.verb # "delete" => /\ r.verb = "update"
                                      /\ r.desired = pools[n].desired - 1
                                      /\ r.desired > 0
        /\ k \in {"scale", "update"} =>
              /\ r.verb = "update"
              /\ n = op[p].name
              /\ r.desired = op[p].count

ClientInv == /\ Excluded
             /\ \A p \in Callers : pc[p] = "send" => Current(p)
=============================================================================
