---------------------------- MODULE PricingCache ----------------------------
(***************************************************************************)
(* internal/spot, PricingProvider.GetPricing and refresh: callers share a  *)
(* cached price list.  Who finds it stale takes the write lock, looks      *)
(* again, and keeps the lock while the endpoint is asked; a failure of the *)
(* endpoint is hidden behind the old list.                                 *)
(***************************************************************************)
EXTENDS Naturals

CONSTANTS
    Callers,   \* goroutines using the provider
    TTL,       \* cacheTTL, in ticks
    Timeout,   \* the timeout of the HTTP client, in ticks
    Editions,  \* bound: the number of price lists that are published
    Nobody

ASSUME TimeAssumption    == TTL \in Nat \ {0} /\ Timeout \in Nat
ASSUME EditionAssumption == Editions \in Nat \ {0}
ASSUME NobodyAssumption  == Nobody \notin Callers

VARIABLES
    market,  \* the edition of the price list at the endpoint
    cache,   \* the edition in the cache, 0 for nil
    age,     \* time since lastFetch, as far as it matters: up to TTL
    since,   \* time since the request for the cached list was sent, likewise
    writer,  \* who holds mu for writing, or Nobody
    pc,      \* where each caller is
    flight,  \* time since a caller's request was sent
    reply,   \* the edition in the reply to it
    answer   \* what the last call of each caller returned, 0 for an error

clocks == <<age, since, flight>>
vars   == <<market, cache, age, since, writer, pc, flight, reply, answer>>

Labels   == {"idle", "peek", "lock", "check", "fetch", "reply"}
OldestIs == TTL + Timeout
Fetching(p) == pc[p] \in {"fetch", "reply"}

Init ==
    /\ market = 1
    /\ cache = 0
    /\ age = TTL
    /\ since = OldestIs
    /\ writer = Nobody
    /\ pc = [p \in Callers |-> "idle"]
    /\ flight = [p \in Callers |-> 0]
    /\ reply = [p \in Callers |-> 0]
    /\ answer = [p \in Callers |-> 0]

Fresh == cache # 0 /\ age < TTL

Goto(p, label) == pc' = [pc EXCEPT ![p] = label]

\* GetPricing is called.
Call(p) ==
    /\ pc[p] = "idle"
    /\ Goto(p, "peek")
    /\ UNCHANGED <<market, cache, clocks, writer, reply, answer>>

\* The call returns, without mu.
Return(p, edition) ==
    /\ answer' = [answer EXCEPT ![p] = edition]
    /\ Goto(p, "idle")
    /\ writer' = IF writer = p THEN Nobody ELSE writer
    /\ flight' = [flight EXCEPT ![p] = 0]
    /\ reply' = [reply EXCEPT ![p] = 0]

\* GetPricing under RLock: a fresh list is returned, a stale one refreshed.
Peek(p) ==
    /\ pc[p] = "peek"
    /\ writer = Nobody
    /\ \/ Fresh /\ Return(p, cache)
       \/ ~Fresh /\ Goto(p, "lock") /\ UNCHANGED <<writer, flight, reply, answer>>
    /\ UNCHANGED <<market, cache, age, since>>

\* refresh: mu.Lock.
Lock(p) ==
    /\ pc[p] = "lock"
    /\ writer = Nobody
    /\ writer' = p
    /\ Goto(p, "check")
    /\ UNCHANGED <<market, cache, clocks, reply, answer>>

\* Mutant: no second look under the lock.
CheckNothing(p) ==
    /\ pc[p] = "check"
    /\ Goto(p, "fetch")
    /\ UNCHANGED <<market, cache, clocks, writer, reply, answer>>

\* The second look: somebody else may have refreshed the list meanwhile.
Check(p) ==
    /\ pc[p] = "check"
    /\ \/ Fresh /\ Return(p, cache)
       \/ ~Fresh /\ Goto(p, "fetch") /\ UNCHANGED <<writer, flight, reply, answer>>
    /\ UNCHANGED <<market, cache, age, since>>

\* The endpoint reads its list and sends it.
Serve(p) ==
    /\ pc[p] = "fetch"
    /\ reply' = [reply EXCEPT ![p] = market]
    /\ Goto(p, "reply")
    /\ UNCHANGED <<market, cache, clocks, writer, answer>>

\* The list is parsed, stored and returned.
Store(p) ==
    /\ pc[p] = "reply"
    /\ cache' = reply[p]
    /\ age' = 0
    /\ since' = flight[p]
    /\ Return(p, reply[p])
    /\ UNCHANGED market

\* Mutant: a failure is always shown.
FetchErrorShown(p) ==
    /\ Fetching(p)
    /\ Return(p, 0)
    /\ UNCHANGED <<market, cache, age, since>>

\* Mutant: a failure counts as a fetch, to spare the endpoint.
FetchErrorBacksOff(p) ==
    /\ Fetching(p)
    /\ age' = 0
    /\ Return(p, cache)
    /\ UNCHANGED <<market, cache, since>>

\* Mutant: the error return precedes the deferred unlock.
FetchErrorLocked(p) ==
    /\ Fetching(p)
    /\ answer' = [answer EXCEPT ![p] = cache]
    /\ Goto(p, "idle")
    /\ UNCHANGED <<market, cache, clocks, writer, reply>>

\* No answer in time, another status than 200, a broken body or JSON: the old
\* list is returned whatever its age, without one an error.
FetchError(p) ==
    /\ Fetching(p)
    /\ Return(p, cache)
    /\ UNCHANGED <<market, cache, age, since>>

\* A new price list is published.
Publish ==
    /\ market < Editions
    /\ market' = market + 1
    /\ UNCHANGED <<cache, clocks, writer, pc, reply, answer>>

Capped(t, top) == IF t < top THEN t + 1 ELSE top

\* Mutant: a client without a timeout.
TickUntimed ==
    /\ age' = Capped(age, TTL)
    /\ since' = Capped(since, OldestIs)
    /\ flight' = [p \in Callers |-> IF Fetching(p) THEN flight[p] + 1 ELSE flight[p]]
    /\ UNCHANGED <<market, cache, writer, pc, reply, answer>>

\* Time passes, for no request beyond its timeout.
Tick ==
    /\ \A p \in Callers : Fetching(p) => flight[p] < Timeout
    /\ age' = Capped(age, TTL)
    /\ since' = Capped(since, OldestIs)
    /\ flight' = [p \in Callers |-> IF Fetching(p) THEN flight[p] + 1 ELSE flight[p]]
    /\ UNCHANGED <<market, cache, writer, pc, reply, answer>>

Step(p) == Check(p) \/ Serve(p) \/ Store(p) \/ FetchError(p)
Wait(p) == Peek(p) \/ Lock(p)

Next ==
    \/ \E p \in Callers : Call(p) \/ Wait(p) \/ Step(p)
    \/ Publish \/ Tick

Spec == Init /\ [][Next]_vars

\* The HTTP client gives every request an end, and a sync.RWMutex starves
\* neither readers nor writers.
FairSpec == Spec /\ \A p \in Callers : WF_vars(Step(p)) /\ SF_vars(Wait(p))

-----------------------------------------------------------------------------
\* Types of the provider's state, and of the calls.
TypeOK ==
    /\ market \in 1..Editions
    /\ cache \in 0..market
    /\ age \in 0..TTL
    /\ since \in 0..OldestIs
    /\ writer \in Callers \cup {Nobody}
    /\ pc \in [Callers -> Labels]
    /\ flight \in [Callers -> 0..Timeout]
    /\ reply \in [Callers -> 0..market]
    /\ answer \in [Callers -> 0..market]

\* The endpoint is asked by one caller at a time, and only while the cached
\* list is stale: however many callers find it stale together, those that
\* waited behind a fetch that succeeded do not fetch again (the second look in
\* refresh).  Behind a fetch that failed the next of them asks at once, so the
\* endpoint may be asked any number of times in one TTL.
NoNeedlessFetch ==
    \A p \in Callers : Fetching(p) =>
        /\ ~Fresh
        /\ \A q \in Callers : Fetching(q) => q = p

\* A list that counts as fresh was asked for less than the TTL and a timeout
\* ago, although lastFetch is the time of its arrival and failures of the
\* endpoint are hidden.
FreshIsRecent == Fresh => since < OldestIs

\* The provider is a feed in which prices never go back, and fails only
\* while it has no list at all.
Feed == INSTANCE PriceFeed WITH
            published <- market,
            seen      <- cache,
            busy      <- {p \in Callers : pc[p] # "idle"}
KeepsFeed == Feed!Spec

\* Every call returns, although callers queue for the lock behind requests
\* that time out.
CallReturns == \A p \in Callers : pc[p] = "peek" ~> pc[p] = "idle"

-----------------------------------------------------------------------------
(* What makes them inductive.                                              *)

\* Only the holder of the lock is past it.
Excluded ==
    \A p \in Callers : pc[p] \in {"check", "fetch", "reply"} <=> writer = p

\* A reply is no older than the cached list.
RepliesNew == \A p \in Callers : pc[p] = "reply" => reply[p] >= cache /\ reply[p] > 0

\* The list is at most a timeout older than its arrival.
Recent == cache # 0 => age = TTL \/ since <= age + Timeout

FetchesStale == \A p \in Callers : Fetching(p) => ~Fresh

CacheInv == Excluded /\ RepliesNew /\ FetchesStale /\ Recent
=============================================================================
