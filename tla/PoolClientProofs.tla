-------------------------- MODULE PoolClientProofs --------------------------
(***************************************************************************)
(* PoolClient keeps its types, and implements NodeCounts: with the lock    *)
(* held from the listing to the answer, the request still fits the pools   *)
(* when it is carried out.                                                 *)
(***************************************************************************)
EXTENDS PoolClient, TLAPS

LEMMA BidPositive == \A p \in Nat : \A b \in RoundBids(p) : b \in Nat /\ b > 0
  BY DEF RoundBids

LEMMA ParsedPositive == \A b : ParsedBid(b) \in Nat /\ ParsedBid(b) > 0
  BY PriceAssumption DEF ParsedBid

LEMMA SizesNat == Targets \subseteq Nat /\ 0..MaxCount \subseteq Nat
                  /\ 1..MaxCount \subseteq 0..MaxCount
  BY CountAssumption

\* The fields of a call, by its kind.
LEMMA CallFields ==
  ASSUME NEW o \in Calls \cup {NoOp}
  PROVE  /\ o.kind \in {"none", "create", "delete", "scale", "update", "list"}
         /\ o.kind = "create" => o.class \in Classes
         /\ o.kind \in {"create", "update"} => o.bid \in Nat
         /\ o.kind \in {"delete", "scale", "update"} => o.name \in Names
         /\ o.kind \in {"scale", "update"} => o.count \in Nat
<1>1. CASE o = NoOp
  BY <1>1 DEF NoOp
<1>2. CASE o \in [kind : {"create"}, class : Classes, bid : Prices]
  BY <1>2, PriceAssumption
<1>3. CASE o \in [kind : {"delete"}, name : Managed, form : IdForms]
  BY <1>3, NameAssumption
<1>4. CASE o \in [kind : {"scale"}, name : Names, count : Targets]
  BY <1>4, SizesNat
<1>5. CASE o \in [kind : {"update"}, name : Names, count : Targets, bid : Prices]
  BY <1>5, SizesNat, PriceAssumption
<1>6. CASE o = [kind |-> "list"]
  BY <1>6
<1> QED BY <1>1, <1>2, <1>3, <1>4, <1>5, <1>6 DEF Calls

\* A request to send exists, and a create asks for one node.
Sendable ==
    \A p \in Callers :
        /\ pc[p] = "send" => req[p] \in Req
        /\ req[p].verb = "create" => req[p].desired = 1

LEMMA InitTypes == Init => TypeOK /\ Sendable
<1> SUFFICES ASSUME Init PROVE TypeOK /\ Sendable OBVIOUS
<1> DEFINE Bids  == UNION {RoundBids(b) : b \in Prices}
           Start == {NoPool} \cup [live : {TRUE}, desired : Sizes, bid : Bids]
<1>1. Bids \subseteq Nat
  BY BidPositive, PriceAssumption
<1>3. pools \in [Names -> Start]
  BY DEF Init
<1> HIDE DEF Bids
<1>2. \A x \in Start : x \in Pool /\ (x.live <=> x.desired > 0)
  <2>1. NoPool \in Pool /\ (NoPool.live <=> NoPool.desired > 0)
    BY CountAssumption DEF Pool, NoPool
  <2>2. ASSUME NEW x \in [live : {TRUE}, desired : Sizes, bid : Bids]
        PROVE  x \in Pool /\ x.live /\ x.desired > 0
    <3>1. x.desired \in 1..MaxCount /\ x.bid \in Nat /\ x.live = TRUE
      BY <1>1 DEF Sizes
    <3>2. x \in Pool
      BY <3>1, <1>1, SizesNat DEF Pool, Sizes
    <3> QED BY <3>1, <3>2
  <2> QED BY <2>1, <2>2
<1> HIDE DEF Start
<1>4. pools \in [Names -> Pool] /\ \A n \in Names : pools[n].live <=> pools[n].desired > 0
  BY <1>2, <1>3
<1> QED BY <1>4 DEF Init, TypeOK, Sendable, Labels, NoReq

\* A request that is decided on has its types.
LEMMA DecideTypes ==
  ASSUME TypeOK, NEW p \in Callers, NEW verb \in {"create", "update", "delete"},
         NEW n \in Names, NEW size \in Nat, NEW bid \in Nat, NEW again \in BOOLEAN,
         verb # "delete" => bid > 0, verb = "create" => size = 1, Sendable,
         Decide(p, Bidding(verb, n, size, bid, again))
  PROVE  TypeOK' /\ Sendable'
<1> DEFINE r == Bidding(verb, n, size, bid, again)
<1>1. /\ r \in Req
      /\ (r.verb \in {"create", "update"} => r.bid > 0)
      /\ (r.verb = "create" => r.desired = 1)
  BY DEF Req, Bidding
<1>2. /\ req' = [req EXCEPT ![p] = r] /\ pc' = [pc EXCEPT ![p] = "send"]
      /\ UNCHANGED <<pools, floor, writer, readers, op>>
  BY DEF Decide, Goto, cloud, mutex
<1> HIDE DEF r
<1>3. req' \in [Callers -> Req \cup {NoReq}]
  BY <1>1, <1>2 DEF TypeOK
<1>5. pc' \in [Callers -> Labels]
  BY <1>2 DEF TypeOK, Labels
<1>4. \A q \in Callers :
                         /\ req'[q].verb \in {"create", "update"} => req'[q].bid > 0
                         /\ req'[q].verb = "create" => req'[q].desired = 1
                         /\ pc'[q] = "send" => req'[q] \in Req
  BY <1>1, <1>2 DEF TypeOK, Sendable
<1> QED BY <1>2, <1>3, <1>4, <1>5 DEF TypeOK, Sendable

LEMMA ChooseTypes ==
  ASSUME TypeOK, Sendable, NEW p \in Callers, Choose(p)
  PROVE  TypeOK' /\ Sendable'
<1>0. op[p] \in Calls \cup {NoOp}
  BY DEF TypeOK
<1>a. op[p].kind \in {"create", "update"} =>
          \A b \in RoundBids(op[p].bid) : b \in Nat /\ b > 0
  BY <1>0, CallFields, BidPositive
<1>b. \A m \in Names : /\ pools[m].desired \in Nat
                       /\ pools[m].live => pools[m].desired > 0
  BY CountAssumption DEF TypeOK, Pool
<1>1. CASE DecideGrow(p)
  <2>1. PICK m \in Candidates(p), b \in RoundBids(op[p].bid) :
             Decide(p, Bidding("update", m, pools[m].desired + 1, b, TRUE))
    BY <1>1 DEF DecideGrow
  <2>2. m \in Names
    BY NameAssumption DEF Candidates
  <2>3. pools[m].desired + 1 \in Nat
    BY <1>b, <2>2
  <2> QED BY <1>1, <2>1, <2>2, <2>3, <1>a, DecideTypes DEF DecideGrow
<1>2. CASE DecideCreate(p)
  <2>1. OwnName[op[p].class] \in Names
    BY <1>0, <1>2, CallFields, NameAssumption DEF DecideCreate
  <2> QED BY <1>2, <2>1, <1>a, DecideTypes DEF DecideCreate
<1>3. CASE DecideDrop(p)
  <2>1. op[p].name \in Names
    BY <1>0, <1>3, CallFields DEF DecideDrop
  <2> QED BY <1>3, <2>1, DecideTypes DEF DecideDrop
<1>4. CASE DecideShrink(p)
  <2>1. op[p].name \in Names
    BY <1>0, <1>4, CallFields DEF DecideShrink
  <2>2. pools[op[p].name].desired - 1 \in Nat
    BY <1>4, <1>b, <2>1 DEF DecideShrink
  <2> QED BY <1>4, <2>1, <2>2, ParsedPositive, DecideTypes DEF DecideShrink
<1>5. CASE DecideScale(p)
  <2>1. op[p].name \in Names /\ op[p].count \in Nat
    BY <1>0, <1>5, CallFields DEF DecideScale
  <2> QED BY <1>5, <2>1, ParsedPositive, BidPositive, DecideTypes DEF DecideScale
<1>6. CASE DecideUpdate(p)
  <2>1. op[p].name \in Names /\ op[p].count \in Nat
    BY <1>0, <1>6, CallFields DEF DecideUpdate
  <2> QED BY <1>6, <2>1, <1>a, DecideTypes DEF DecideUpdate
<1> QED BY <1>1, <1>2, <1>3, <1>4, <1>5, <1>6 DEF Choose

\* What a carried out request leaves in its pool.
LEMMA ServedPool ==
  ASSUME TypeOK, Sendable, NEW p \in Callers, pc[p] = "send", Admissible(p)
  PROVE  LET n == req[p].name
             new == Served(p)
         IN  /\ n \in Names
             /\ new \in [Names -> Pool]
             /\ \A m \in Names \ {n} : new[m] = pools[m]
             /\ new[n].live <=> new[n].desired > 0
             /\ req[p].verb = "delete" => new[n].desired = 0
             /\ req[p].verb # "delete" /\ req[p].desired > 0
                  => new[n].desired = req[p].desired
<1> DEFINE r == req[p]
           n == r.name
           k == IF r.verb = "update" /\ r.desired = 0
                THEN pools[n].desired ELSE r.desired
           new == IF r.verb = "delete" THEN NoPool
                  ELSE [live |-> TRUE, bid |-> r.bid, desired |-> k]
<1>0. r \in Req
  BY DEF Sendable
<1>1. r \in Req /\ n \in Names /\ r.desired \in Nat /\ r.bid \in Nat
  BY <1>0 DEF Req
<1>2. Served(p) = [pools EXCEPT ![n] = new]
  BY DEF Served
<1>3. pools[n].desired \in 0..MaxCount /\ (pools[n].live <=> pools[n].desired > 0)
  BY <1>1 DEF TypeOK, Pool
<1>4. k \in 0..MaxCount
  BY <1>1, <1>3, CountAssumption DEF Admissible
<1>5. r.verb # "delete" => k > 0
  <2>1. r.verb # "create" => pools[n].live
    BY <1>1 DEF Admissible, TypeOK, Pool
  <2>2. r.verb = "create" => r.desired = 1
    BY DEF Sendable
  <2>3. r.verb \in {"create", "update", "delete"}
    BY <1>0 DEF Req
  <2>4. CASE r.verb = "update"
    BY <2>1, <2>4, <1>1, <1>3
  <2>5. CASE r.verb = "create"
    BY <2>2, <2>5
  <2> QED BY <2>3, <2>4, <2>5
<1>6. new \in Pool /\ (new.live <=> new.desired > 0)
  BY <1>1, <1>4, <1>5, CountAssumption DEF Pool, NoPool
<1>7. r.verb = "delete" => new.desired = 0
  BY DEF NoPool
<1>8. r.verb # "delete" /\ r.desired > 0 => new.desired = r.desired
  BY <1>1
<1> HIDE DEF new, k
<1> QED BY <1>1, <1>2, <1>6, <1>7, <1>8 DEF TypeOK

LEMMA CarryOutTypes ==
  ASSUME TypeOK, Sendable, NEW p \in Callers, CarryOut(p)
  PROVE  TypeOK' /\ Sendable'
<1>1. PICK label \in {"ok", "lost"} : pc' = [pc EXCEPT ![p] = label]
  BY DEF CarryOut, Goto
<1>2. pc' \in [Callers -> Labels] /\ \A q \in Callers : pc'[q] = "send" => pc[q] = "send"
  BY <1>1 DEF TypeOK, Labels, Answers
<1>3. /\ pools' = Served(p) /\ Admissible(p) /\ pc[p] = "send"
      /\ UNCHANGED <<floor, writer, readers, op, req>>
  BY DEF CarryOut, mutex
<1>4. pools' \in [Names -> Pool] /\ \A n \in Names : pools'[n].live <=> pools'[n].desired > 0
  BY <1>3, ServedPool DEF TypeOK
<1> QED BY <1>2, <1>3, <1>4 DEF TypeOK, Sendable

LEMMA StepTypes == TypeOK /\ Sendable /\ [Next]_vars => TypeOK' /\ Sendable'
<1> SUFFICES ASSUME TypeOK, Sendable, [Next]_vars PROVE TypeOK' /\ Sendable'
  OBVIOUS
<1>1. ASSUME NEW p \in Callers, Begin(p) PROVE TypeOK' /\ Sendable'
  BY <1>1 DEF Begin, Goto, cloud, mutex, TypeOK, Sendable, Labels
<1>2. ASSUME NEW p \in Callers, Lock(p) PROVE TypeOK' /\ Sendable'
  BY <1>2 DEF Lock, Goto, cloud, TypeOK, Sendable, Labels
<1>3. ASSUME NEW p \in Callers, AlreadyGone(p) \/ Listed(p) \/ ListError(p) \/ SendError(p)
      PROVE  TypeOK' /\ Sendable'
  BY <1>3 DEF AlreadyGone, Listed, ListError, SendError, Goto, cloud, mutex,
              TypeOK, Sendable, Labels, Answers
<1>4. ASSUME NEW p \in Callers, Retry(p) PROVE TypeOK' /\ Sendable'
  <2>1. floor[ClassOf[req[p].name]] \in Nat /\ req[p] \in Req
    BY <1>4, NameAssumption, PriceAssumption DEF Retry, TypeOK, Sendable, Req
  <2>2. PICK b \in RoundBids(floor[ClassOf[req[p].name]]) :
             req' = [req EXCEPT ![p] = [req[p] EXCEPT !.bid = b, !.retry = FALSE]]
    BY <1>4 DEF Retry
  <2> DEFINE r == [req[p] EXCEPT !.bid = b, !.retry = FALSE]
  <2>5. b \in Nat /\ b > 0
    BY <2>1, BidPositive
  <2>3. r \in Req /\ r.bid > 0 /\ r.verb = req[p].verb /\ r.desired = req[p].desired
    BY <2>1, <2>5 DEF Req
  <2>4. req' = [req EXCEPT ![p] = r] /\ UNCHANGED <<pools, floor, writer, readers, pc, op>>
    BY <1>4, <2>2 DEF Retry, cloud, mutex
  <2> HIDE DEF r
  <2> QED BY <2>1, <2>3, <2>4 DEF TypeOK, Sendable
<1>5. ASSUME NEW p \in Callers, Return(p) PROVE TypeOK' /\ Sendable'
  <2>1. \A q \in Callers : /\ req'[q] = IF q = p THEN NoReq ELSE req[q]
                           /\ pc'[q] = IF q = p THEN "idle" ELSE pc[q]
    BY <1>5 DEF Return, Goto, TypeOK
  <2>2. Sendable'
    BY <2>1 DEF Sendable, NoReq
  <2>3. \A q \in Callers : req'[q].verb \in {"create", "update"} => req'[q].bid > 0
    BY <2>1 DEF TypeOK, NoReq
  <2> QED BY <1>5, <2>2, <2>3 DEF Return, Goto, cloud, TypeOK, Labels
<1>6. ASSUME NEW c \in Classes, FloorMoves(c) PROVE TypeOK' /\ Sendable'
  BY <1>6 DEF FloorMoves, mutex, TypeOK, Sendable
<1>7. CASE UNCHANGED vars
  BY <1>7 DEF vars, TypeOK, Sendable
<1> QED
  BY <1>1, <1>2, <1>3, <1>4, <1>5, <1>6, <1>7, ChooseTypes, CarryOutTypes
  DEF Next, Step

\* The types of the client's state hold for all callers, pools and prices: in
\* particular no pool is ever left with no node, and no request bids nothing.
THEOREM ClientTypes == Spec => [](TypeOK /\ Sendable)
<1> QED BY InitTypes, StepTypes, PTL DEF Spec

-----------------------------------------------------------------------------
\* Whoever holds the lock for writing is alone.
LEMMA Alone ==
  ASSUME Excluded, NEW p \in Callers, InCall(p), op[p].kind # "list",
         NEW q \in Callers, InCall(q)
  PROVE  q = p
  BY NoneAssumption DEF Excluded

LEMMA StepExcluded == TypeOK /\ Excluded /\ [Next]_vars => Excluded'
<1> SUFFICES ASSUME TypeOK, Excluded, [Next]_vars PROVE Excluded'
  OBVIOUS
<1>1. ASSUME NEW p \in Callers, Begin(p) PROVE Excluded'
  BY <1>1 DEF Begin, Goto, mutex, Excluded, InCall, TypeOK
<1>2. ASSUME NEW p \in Callers, Lock(p) PROVE Excluded'
  BY <1>2, NoneAssumption DEF Lock, Goto, Excluded, InCall, TypeOK
<1>3. ASSUME NEW p \in Callers, InCall(p), UNCHANGED <<mutex, op>>,
             NEW label, pc' = [pc EXCEPT ![p] = label]
      PROVE  Excluded'
  BY <1>3 DEF mutex, Excluded, InCall, TypeOK
<1>4. ASSUME NEW p \in Callers, Return(p) PROVE Excluded'
  BY <1>4, NoneAssumption DEF Return, Goto, Answers, Excluded, InCall, TypeOK
<1>5. ASSUME UNCHANGED <<mutex, pc, op>> PROVE Excluded'
  BY <1>5 DEF mutex, Excluded, InCall
<1>6. ASSUME NEW p \in Callers, Choose(p) PROVE Excluded'
  BY <1>6, <1>3 DEF Choose, DecideGrow, DecideCreate, DecideDrop, DecideShrink,
                    DecideScale, DecideUpdate, Decide, Goto, mutex, InCall
<1>7. ASSUME NEW p \in Callers,
             AlreadyGone(p) \/ Listed(p) \/ ListError(p) \/ CarryOut(p) \/ SendError(p)
      PROVE  Excluded'
  BY <1>7, <1>3 DEF AlreadyGone, Listed, ListError, CarryOut, SendError, Goto,
                    mutex, InCall
<1>8. ASSUME NEW p \in Callers, Retry(p) PROVE Excluded'
  BY <1>8, <1>5 DEF Retry
<1>9. ASSUME NEW c \in Classes, FloorMoves(c) PROVE Excluded'
  BY <1>9, <1>5 DEF FloorMoves
<1>10. CASE UNCHANGED vars
  BY <1>10, <1>5 DEF vars, mutex
<1> QED
  BY <1>1, <1>2, <1>4, <1>6, <1>7, <1>8, <1>9, <1>10 DEF Next, Step

\* What a decision asks for is still what the caller wants done to the pools.
LEMMA ChooseCurrent ==
  ASSUME TypeOK, NEW p \in Callers, Choose(p)
  PROVE  Current(p)'
<1>0. op[p] \in Calls \cup {NoOp} /\ p \in DOMAIN req
  BY DEF TypeOK
<1>1. ASSUME NEW r, Decide(p, r)
      PROVE  req'[p] = r /\ pools' = pools /\ op' = op
  BY <1>1, <1>0 DEF Decide, cloud
<1>2. CASE DecideGrow(p)
  <2>1. PICK n \in Candidates(p), b \in RoundBids(op[p].bid) :
             Decide(p, Bidding("update", n, pools[n].desired + 1, b, TRUE))
    BY <1>2 DEF DecideGrow
  <2>2. ClassOf[n] = op[p].class
    BY DEF Candidates
  <2> QED BY <1>1, <1>2, <2>1, <2>2 DEF DecideGrow, Current, Bidding
<1>3. CASE DecideCreate(p)
  <2>1. ClassOf[OwnName[op[p].class]] = op[p].class
    BY <1>0, <1>3, CallFields, NameAssumption DEF DecideCreate
  <2> QED BY <1>1, <1>3, <2>1 DEF DecideCreate, Current, Bidding
<1>4. CASE DecideDrop(p)
  <2>1. pools[op[p].name].desired = 1
    BY <1>0, <1>4, CallFields, SizesNat DEF DecideDrop, Found, TypeOK, Pool
  <2> QED BY <1>1, <1>4, <2>1 DEF DecideDrop, Current, Bidding
<1>5. CASE DecideShrink(p)
  <2>1. pools[op[p].name].desired - 1 > 0
    BY <1>0, <1>5, CallFields, SizesNat DEF DecideShrink, Found, TypeOK, Pool
  <2> QED BY <1>1, <1>5, <2>1 DEF DecideShrink, Current, Bidding
<1>6. CASE DecideScale(p)
  BY <1>1, <1>6 DEF DecideScale, Current, Bidding
<1>7. CASE DecideUpdate(p)
  BY <1>1, <1>7 DEF DecideUpdate, Current, Bidding
<1> QED BY <1>2, <1>3, <1>4, <1>5, <1>6, <1>7 DEF Choose

AllCurrent == \A p \in Callers : pc[p] = "send" => Current(p)

\* A step that sends nobody anew and leaves pools, requests and calls alone.
LEMMA QuietCurrent ==
  ASSUME AllCurrent, UNCHANGED pools,
         \A q \in Callers : pc'[q] = "send" =>
             pc[q] = "send" /\ req'[q] = req[q] /\ op'[q] = op[q]
  PROVE  AllCurrent'
  BY DEF AllCurrent, Current

LEMMA StepCurrent ==
  TypeOK /\ Excluded /\ AllCurrent /\ [Next]_vars => AllCurrent'
<1> SUFFICES ASSUME TypeOK, Excluded, AllCurrent, [Next]_vars PROVE AllCurrent'
  OBVIOUS
<1>1. ASSUME NEW p \in Callers, Choose(p) PROVE AllCurrent'
  <2>1. pools' = pools /\ op' = op
    BY <1>1 DEF Choose, DecideGrow, DecideCreate, DecideDrop, DecideShrink,
                DecideScale, DecideUpdate, Decide, cloud
  <2>2. \A q \in Callers \ {p} : req'[q] = req[q] /\ pc'[q] = pc[q]
    BY <1>1 DEF Choose, DecideGrow, DecideCreate, DecideDrop, DecideShrink,
                DecideScale, DecideUpdate, Decide, Goto, TypeOK
  <2>3. \A q \in Callers \ {p} : pc'[q] = "send" => Current(q)'
    BY <2>1, <2>2 DEF AllCurrent, Current
  <2> QED BY <1>1, <2>3, ChooseCurrent DEF AllCurrent
<1>2. ASSUME NEW p \in Callers, CarryOut(p) PROVE AllCurrent'
  <2>1. Current(p) /\ InCall(p) /\ op[p].kind # "list"
    BY <1>2 DEF CarryOut, AllCurrent, Current, InCall
  <2>2. pc'[p] # "send" /\ \A q \in Callers \ {p} : pc'[q] = pc[q]
    BY <1>2 DEF CarryOut, Goto, TypeOK
  <2>3. \A q \in Callers \ {p} : pc[q] # "send"
    BY <2>1, Alone DEF InCall
  <2> QED BY <2>2, <2>3 DEF AllCurrent
<1>3. ASSUME NEW p \in Callers, Retry(p) PROVE AllCurrent'
  <2>1. /\ req'[p].verb = req[p].verb /\ req'[p].name = req[p].name
        /\ req'[p].desired = req[p].desired
        /\ \A q \in Callers \ {p} : req'[q] = req[q]
    <3>1. req[p].verb \in {"create", "update", "delete"} => req[p] \in Req
      BY DEF TypeOK, Req, NoReq
    <3> QED BY <1>3 DEF Retry, TypeOK, Req, NoReq
  <2>2. UNCHANGED <<pools, op, pc>>
    BY <1>3 DEF Retry, cloud
  <2>3. Current(p)'
    BY <1>3, <2>1, <2>2 DEF Retry, AllCurrent, Current
  <2>4. \A q \in Callers \ {p} : pc'[q] = "send" => Current(q)'
    BY <2>1, <2>2 DEF AllCurrent, Current
  <2> QED BY <2>3, <2>4 DEF AllCurrent
<1>4. ASSUME NEW p \in Callers, Begin(p) \/ Lock(p) PROVE AllCurrent'
  BY <1>4, QuietCurrent DEF Begin, Lock, Goto, cloud, TypeOK
<1>5. ASSUME NEW p \in Callers,
             AlreadyGone(p) \/ Listed(p) \/ ListError(p) \/ SendError(p) \/ Return(p)
      PROVE  AllCurrent'
  BY <1>5, QuietCurrent
  DEF AlreadyGone, Listed, ListError, SendError, Return, Goto, cloud, TypeOK
<1>6. ASSUME NEW c \in Classes, FloorMoves(c) PROVE AllCurrent'
  BY <1>6, QuietCurrent DEF FloorMoves
<1>7. CASE UNCHANGED vars
  BY <1>7, QuietCurrent DEF vars
<1> QED
  BY <1>1, <1>2, <1>3, <1>4, <1>5, <1>6, <1>7 DEF Next, Step

\* The lock excludes, and every request still fits the pools it will meet.
THEOREM RequestsCurrent == Spec => []ClientInv
<1>1. Init => Excluded /\ AllCurrent
  BY DEF Init, Excluded, InCall, AllCurrent
<1>2. Excluded /\ AllCurrent => ClientInv
  BY DEF ClientInv, AllCurrent
<1> QED
  BY <1>1, <1>2, ClientTypes, StepExcluded, StepCurrent, PTL DEF Spec

-----------------------------------------------------------------------------
SizeOf  == [n \in Names |-> pools[n].desired]
PhaseOf == [p \in Callers |-> Phase(pc[p])]

LEMMA PhaseMoves ==
  ASSUME pc \in [Callers -> Labels], NEW p \in Callers, NEW label,
         pc' = [pc EXCEPT ![p] = label]
  PROVE  PhaseOf' = [PhaseOf EXCEPT ![p] = Phase(label)]
  BY DEF PhaseOf

LEMMA PhaseNames ==
  /\ Phase("idle") = "idle" /\ Phase("error") = "failed"
  /\ Phase("ok") = "done" /\ Phase("lost") = "done"
  /\ Phase("lock") = "asked" /\ Phase("list") = "asked" /\ Phase("send") = "asked"
  BY DEF Phase

\* A step that the abstract specification does not see.
LEMMA Stutters ==
  ASSUME UNCHANGED <<pools, op>>, PhaseOf' = PhaseOf
  PROVE  UNCHANGED Promise!counts
  BY DEF Promise!counts, PhaseOf

LEMMA ServedCounts ==
  ASSUME TypeOK, Sendable, ClientInv, 0 \notin Targets,
         NEW p \in Callers, CarryOut(p)
  PROVE  Promise!Grow(p) \/ Promise!Shrink(p) \/ Promise!Resize(p)
<1> DEFINE n == req[p].name
<1>1. Current(p) /\ op[p] \in Calls \cup {NoOp}
  BY DEF ClientInv, CarryOut, TypeOK
<1>2. /\ n \in Names
      /\ SizeOf \in [Names -> Nat]
      /\ SizeOf' = [SizeOf EXCEPT ![n] = pools'[n].desired]
      /\ req[p].verb = "delete" => pools'[n].desired = 0
      /\ req[p].verb # "delete" /\ req[p].desired > 0
           => pools'[n].desired = req[p].desired
  <2>1. /\ n \in Names /\ \A m \in Names \ {n} : pools'[m] = pools[m]
        /\ req[p].verb = "delete" => pools'[n].desired = 0
        /\ req[p].verb # "delete" /\ req[p].desired > 0
             => pools'[n].desired = req[p].desired
    BY ServedPool DEF CarryOut
  <2>2. \A m \in Names : pools[m].desired \in Nat
    BY SizesNat DEF TypeOK, Pool
  <2> QED BY <2>1, <2>2 DEF SizeOf
<1>3. pools[n].desired \in Nat /\ (pools[n].live <=> pools[n].desired > 0)
  BY <1>2, SizesNat DEF TypeOK, Pool
<1>4. CASE op[p].kind = "create"
  <2>1. pools'[n].desired = pools[n].desired + 1
    <3>1. CASE req[p].verb = "create"
      BY <3>1, <1>1, <1>2, <1>3, <1>4 DEF Current, CarryOut, Admissible
    <3>2. CASE req[p].verb # "create"
      BY <3>2, <1>1, <1>2, <1>3, <1>4 DEF Current
    <3> QED BY <3>1, <3>2
  <2>2. ClassOf[n] = op[p].class
    BY <1>1, <1>4 DEF Current
  <2>3. SizeOf' = [SizeOf EXCEPT ![n] = SizeOf[n] + 1]
    BY <1>2, <2>1 DEF SizeOf
  <2> QED BY <1>2, <1>4, <2>2, <2>3 DEF Promise!Grow, SizeOf
<1>5. CASE op[p].kind = "delete"
  <2>1. n = op[p].name
    BY <1>1, <1>5 DEF Current
  <2>2. pools'[n].desired = pools[n].desired - 1 /\ pools[n].desired > 0
    BY <1>1, <1>2, <1>3, <1>5 DEF Current
  <2>3. SizeOf[n] = pools[n].desired /\ SizeOf[n] # 0
    BY <1>2, <1>3, <2>2 DEF SizeOf
  <2>5. SizeOf' = [SizeOf EXCEPT ![n] = SizeOf[n] - 1]
    BY <1>2, <2>2, <2>3
  <2>4. SizeOf' = [SizeOf EXCEPT ![n] = IF SizeOf[n] = 0 THEN 0 ELSE SizeOf[n] - 1]
    BY <2>3, <2>5
  <2> QED BY <1>5, <2>1, <2>4 DEF Promise!Shrink, SizeOf
<1>6. CASE op[p].kind \in {"scale", "update"}
  <2>1. op[p].count \in Targets
    BY <1>1, <1>6 DEF Calls, NoOp
  <2>2. op[p].count > 0 /\ op[p].count \in Nat
    <3>1. \A k \in Nat : k # 0 => k > 0
      OBVIOUS
    <3>2. op[p].count # 0 /\ op[p].count \in Nat
      BY <2>1, SizesNat
    <3> QED BY <3>1, <3>2
  <2>3. n = op[p].name /\ pools'[n].desired = op[p].count
    BY <1>1, <1>2, <1>6, <2>2 DEF Current
  <2> QED BY <1>2, <1>6, <2>3 DEF Promise!Resize, SizeOf
<1> QED BY <1>1, <1>4, <1>5, <1>6 DEF Current

LEMMA StepPromised ==
  ASSUME TypeOK, Sendable, ClientInv, IdForms \subseteq {"pending"},
         0 \notin Targets, [Next]_vars
  PROVE  Promise!Next \/ UNCHANGED Promise!counts
<1>0. pc \in [Callers -> Labels] /\ op \in [Callers -> Calls \cup {NoOp}]
  BY DEF TypeOK
<1>a. ASSUME NEW p \in Callers, NEW from, NEW label, pc[p] = from,
             pc' = [pc EXCEPT ![p] = label]
      PROVE  Promise!Enter(p, Phase(from), Phase(label))
  BY <1>a, <1>0 DEF Promise!Enter
<1>1. ASSUME NEW p \in Callers, Begin(p) PROVE Promise!Ask(p)
  <2>1. pc[p] = "idle" /\ pc' = [pc EXCEPT ![p] = "lock"] /\ pools' = pools
    BY <1>1 DEF Begin, Goto, cloud
  <2>2. op'[p] \in Calls /\ op' = [op EXCEPT ![p] = op'[p]]
    BY <1>0, <1>1 DEF Begin
  <2>3. Promise!Enter(p, "idle", "asked")
    BY <2>1, <1>a, PhaseNames
  <2> QED BY <2>1, <2>2, <2>3, Zenon DEF Promise!Ask
<1>2. ASSUME NEW p \in Callers, Lock(p) PROVE UNCHANGED Promise!counts
  <2>1. pc[p] = "lock" /\ pc' = [pc EXCEPT ![p] = "list"] /\ UNCHANGED <<pools, op>>
    BY <1>2 DEF Lock, Goto, cloud
  <2>2. PhaseOf' = PhaseOf
    BY <1>0, <2>1, PhaseNames DEF PhaseOf
  <2> QED BY <2>1, <2>2, Stutters
<1>3. ASSUME NEW p \in Callers, Choose(p) PROVE UNCHANGED Promise!counts
  <2>1. pc[p] = "list" /\ pc' = [pc EXCEPT ![p] = "send"] /\ UNCHANGED <<pools, op>>
    BY <1>3 DEF Choose, DecideGrow, DecideCreate, DecideDrop, DecideShrink,
                DecideScale, DecideUpdate, Decide, Goto, cloud
  <2>2. PhaseOf' = PhaseOf
    BY <1>0, <2>1, PhaseNames DEF PhaseOf
  <2> QED BY <2>1, <2>2, Stutters
<1>4. ASSUME NEW p \in Callers, AlreadyGone(p) PROVE Promise!TakeEffect(p)
  <2>1. /\ pc[p] = "list" /\ pc' = [pc EXCEPT ![p] = "ok"]
        /\ op[p].kind = "delete" /\ UNCHANGED <<pools, op>>
    BY <1>4 DEF AlreadyGone, Goto, cloud
  <2>2. op[p].name \in Names /\ op[p].form \in IdForms
    BY <1>0, <2>1, NameAssumption DEF Calls, NoOp
  <2>3. ~pools[op[p].name].live
    BY <1>4, <2>2 DEF AlreadyGone, Found
  <2>4. pools[op[p].name].desired = 0
    BY <2>2, <2>3, SizesNat DEF TypeOK, Pool
  <2>5. Promise!Shrink(p)
    BY <2>1, <2>2, <2>4 DEF Promise!Shrink
  <2> QED BY <2>1, <2>5, <1>a, PhaseNames DEF Promise!TakeEffect
<1>5. ASSUME NEW p \in Callers, Listed(p) PROVE Promise!TakeEffect(p)
  <2>1. /\ pc[p] = "list" /\ pc' = [pc EXCEPT ![p] = "ok"]
        /\ op[p].kind = "list" /\ UNCHANGED <<pools, op>>
    BY <1>5 DEF Listed, Goto, cloud
  <2>2. Promise!Look(p)
    BY <2>1 DEF Promise!Look
  <2> QED BY <2>1, <2>2, <1>a, PhaseNames DEF Promise!TakeEffect
<1>6. ASSUME NEW p \in Callers, ListError(p) \/ SendError(p) PROVE Promise!Fail(p)
  <2>1. /\ pc[p] \in {"list", "send"} /\ pc' = [pc EXCEPT ![p] = "error"]
        /\ UNCHANGED <<pools, op>>
    BY <1>6 DEF ListError, SendError, Goto, cloud
  <2> QED BY <2>1, <1>a, PhaseNames DEF Promise!Fail
<1>7. ASSUME NEW p \in Callers, CarryOut(p) PROVE Promise!TakeEffect(p)
  <2>1. PICK label \in {"ok", "lost"} : pc' = [pc EXCEPT ![p] = label]
    BY <1>7 DEF CarryOut, Goto
  <2>2. pc[p] = "send" /\ op' = op
    BY <1>7 DEF CarryOut
  <2> QED BY <1>7, <2>1, <2>2, <1>a, PhaseNames, ServedCounts DEF Promise!TakeEffect
<1>8. ASSUME NEW p \in Callers, Retry(p) PROVE UNCHANGED Promise!counts
  BY <1>8, Stutters DEF Retry, cloud, PhaseOf
<1>9. ASSUME NEW p \in Callers, Return(p) PROVE Promise!Return(p)
  <2>1. /\ pc[p] \in Answers /\ pc' = [pc EXCEPT ![p] = "idle"]
        /\ op' = [op EXCEPT ![p] = NoOp] /\ pools' = pools
    BY <1>9 DEF Return, Goto, cloud
  <2> QED BY <2>1, <1>a, PhaseNames DEF Promise!Return, Answers
<1>10. ASSUME NEW c \in Classes, FloorMoves(c) PROVE UNCHANGED Promise!counts
  BY <1>10, Stutters DEF FloorMoves, PhaseOf
<1>11. CASE UNCHANGED vars
  BY <1>11, Stutters DEF vars, PhaseOf
<1> QED
  BY <1>1, <1>2, <1>3, <1>4, <1>5, <1>6, <1>7, <1>8, <1>9, <1>10, <1>11
  DEF Next, Step, Promise!Next

LEMMA InitPromised == Init => Promise!Init
<1> SUFFICES ASSUME Init PROVE Promise!Init OBVIOUS
<1>1. SizeOf \in [Names -> Nat]
  BY InitTypes, SizesNat DEF TypeOK, Pool, SizeOf
<1>2. PhaseOf = [p \in Callers |-> "idle"]
  BY PhaseNames DEF Init, PhaseOf
<1> QED BY <1>1, <1>2 DEF Init, Promise!Init, SizeOf, PhaseOf

\* The client keeps its promise for any number of callers, classes and pools: as
\* long as nobody scales a pool to zero nodes or deletes by an id of ListNodes
\* (the two cases that the code gets wrong), every call takes effect at most
\* once and by exactly what was asked, and a success means that it did.
THEOREM ClientKeepsCount ==
  ASSUME IdForms \subseteq {"pending"}, 0 \notin Targets
  PROVE  Spec => KeepsCount
<1>1. TypeOK /\ Sendable /\ ClientInv /\ [Next]_vars
        => [Promise!Next]_(Promise!counts)
  BY StepPromised
<1>2. Spec => [](TypeOK /\ Sendable) /\ []ClientInv
  BY ClientTypes, RequestsCurrent
<1> QED
  BY <1>1, <1>2, InitPromised, PTL DEF Spec, KeepsCount, Promise!Spec
=============================================================================
