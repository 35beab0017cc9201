---------------------------- MODULE PricingProofs ----------------------------
(***************************************************************************)
(* PricingCache keeps its types, asks the endpoint only for a stale list,  *)
(* calls fresh only what is recent, and implements PriceFeed; and what the *)
(* queries on the price list return, for any number of callers, any price  *)
(* lists and any questions.                                                *)
(***************************************************************************)
EXTENDS PricingQueries, FiniteSetTheorems, TLAPS

-----------------------------------------------------------------------------
(* The cache.                                                              *)

LEMMA InitTypes == Init => TypeOK /\ CacheInv
  BY TimeAssumption, EditionAssumption, NobodyAssumption
  DEF Init, TypeOK, CacheInv, Excluded, RepliesNew, FetchesStale, Recent,
      Fetching, Labels, OldestIs

LEMMA CappedTypes ==
  ASSUME NEW top \in Nat, NEW t \in 0..top
  PROVE  Capped(t, top) \in 0..top /\ Capped(t, top) >= t /\ Capped(t, top) <= t + 1
  BY DEF Capped

LEMMA StepTypes == TypeOK /\ CacheInv /\ [Next]_vars => TypeOK'
<1> SUFFICES ASSUME TypeOK, CacheInv, [Next]_vars PROVE TypeOK'
  OBVIOUS
<1>0. TTL \in Nat /\ Timeout \in Nat /\ Editions \in Nat
  BY TimeAssumption, EditionAssumption
<1>a. ASSUME NEW p \in Callers, NEW e \in 0..market, Return(p, e)
      PROVE  /\ writer' \in Callers \cup {Nobody}
             /\ pc' \in [Callers -> Labels]
             /\ flight' \in [Callers -> 0..Timeout]
             /\ reply' \in [Callers -> 0..market]
             /\ answer' \in [Callers -> 0..market]
  BY <1>a, <1>0 DEF Return, Goto, Labels, TypeOK
<1>1. ASSUME NEW p \in Callers, Call(p) PROVE TypeOK'
  BY <1>1 DEF Call, Goto, Labels, TypeOK, clocks
<1>2. ASSUME NEW p \in Callers, Lock(p) PROVE TypeOK'
  BY <1>2 DEF Lock, Goto, Labels, TypeOK, clocks
<1>3. ASSUME NEW p \in Callers, Peek(p) PROVE TypeOK'
  BY <1>3, <1>a DEF Peek, Goto, Labels, TypeOK
<1>4. ASSUME NEW p \in Callers, Check(p) PROVE TypeOK'
  BY <1>4, <1>a DEF Check, Goto, Labels, TypeOK
<1>5. ASSUME NEW p \in Callers, Serve(p) PROVE TypeOK'
  BY <1>5 DEF Serve, Goto, Labels, TypeOK, clocks
<1>6. ASSUME NEW p \in Callers, Store(p) PROVE TypeOK'
  <2>1. reply[p] \in 0..market /\ flight[p] \in 0..Timeout
    BY DEF TypeOK
  <2>2. flight[p] \in 0..OldestIs /\ 0 \in 0..TTL
    BY <2>1, <1>0 DEF OldestIs
  <2>3. Return(p, reply[p]) /\ UNCHANGED market /\ cache' = reply[p]
        /\ age' = 0 /\ since' = flight[p]
    BY <1>6 DEF Store
  <2> QED BY <2>1, <2>2, <2>3, <1>a DEF TypeOK
<1>7. ASSUME NEW p \in Callers, FetchError(p) PROVE TypeOK'
  BY <1>7, <1>a DEF FetchError, TypeOK
<1>8. CASE Publish
  <2>1. market' \in 1..Editions /\ 0..market \subseteq 0..market'
    BY <1>8, <1>0 DEF Publish, TypeOK
  <2> QED BY <1>8, <2>1 DEF Publish, TypeOK, clocks
<1>9. CASE Tick
  <2>1. age' \in 0..TTL /\ since' \in 0..OldestIs
    BY <1>9, <1>0, CappedTypes DEF Tick, TypeOK, OldestIs
  <2>2. flight' \in [Callers -> 0..Timeout]
    BY <1>9, <1>0 DEF Tick, TypeOK
  <2> QED BY <1>9, <2>1, <2>2 DEF Tick, TypeOK
<1>10. CASE UNCHANGED vars
  BY <1>10 DEF vars, clocks, TypeOK
<1> QED
  BY <1>1, <1>2, <1>3, <1>4, <1>5, <1>6, <1>7, <1>8, <1>9, <1>10
  DEF Next, Wait, Step

\* A step that stores no list and lets no time pass, of a caller that gets
\* the lock, keeps it, or returns.
LEMMA CallerSteps ==
  ASSUME TypeOK, CacheInv, NEW p \in Callers, UNCHANGED <<cache, age, since>>,
         NEW label \in Labels, pc' = [pc EXCEPT ![p] = label],
         IF label \in {"check", "fetch", "reply"}
           THEN writer' = p /\ writer \in {Nobody, p}
           ELSE writer' = IF writer = p THEN Nobody ELSE writer,
         label \in {"fetch", "reply"} => ~Fresh,
         label = "reply" => reply'[p] >= cache /\ reply'[p] > 0,
         \A q \in Callers \ {p} : reply'[q] = reply[q]
  PROVE  CacheInv'
<1>1. Excluded'
  BY NobodyAssumption DEF CacheInv, Excluded, TypeOK
<1>2. RepliesNew'
  BY DEF CacheInv, RepliesNew, TypeOK
<1>3. FetchesStale'
  BY DEF CacheInv, FetchesStale, Fetching, Fresh, TypeOK
<1>4. Recent'
  BY DEF CacheInv, Recent
<1> QED BY <1>1, <1>2, <1>3, <1>4 DEF CacheInv

LEMMA ReturnSteps ==
  ASSUME TypeOK, CacheInv, NEW p \in Callers, NEW e, Return(p, e),
         UNCHANGED <<cache, age, since>>
  PROVE  CacheInv'
  BY CallerSteps DEF Return, Goto, Labels, TypeOK

LEMMA StepInv == TypeOK /\ CacheInv /\ [Next]_vars => CacheInv'
<1> SUFFICES ASSUME TypeOK, CacheInv, [Next]_vars PROVE CacheInv'
  OBVIOUS
<1>0. TTL \in Nat /\ Timeout \in Nat /\ TTL > 0
  BY TimeAssumption
<1>1. ASSUME NEW p \in Callers, Call(p) PROVE CacheInv'
  BY <1>1, CallerSteps DEF Call, Goto, Labels, clocks, CacheInv, Excluded
<1>2. ASSUME NEW p \in Callers, Lock(p) PROVE CacheInv'
  BY <1>2, CallerSteps DEF Lock, Goto, Labels, clocks
<1>3. ASSUME NEW p \in Callers, Peek(p) PROVE CacheInv'
  BY <1>3, CallerSteps, ReturnSteps, NobodyAssumption
  DEF Peek, Goto, Labels
<1>4. ASSUME NEW p \in Callers, Check(p) PROVE CacheInv'
  BY <1>4, CallerSteps, ReturnSteps DEF Check, Goto, Labels, CacheInv, Excluded
<1>5. ASSUME NEW p \in Callers, Serve(p) PROVE CacheInv'
  <2>1. writer = p /\ ~Fresh
    BY <1>5 DEF Serve, CacheInv, Excluded, FetchesStale, Fetching
  <2>2. reply'[p] = market /\ market >= cache /\ market > 0
        /\ \A q \in Callers \ {p} : reply'[q] = reply[q]
    BY <1>5 DEF Serve, TypeOK
  <2> QED BY <1>5, <2>1, <2>2, CallerSteps DEF Serve, Goto, Labels, clocks
<1>6. ASSUME NEW p \in Callers, Store(p) PROVE CacheInv'
  <2>1. writer = p /\ \A q \in Callers \ {p} : pc[q] \notin {"check", "fetch", "reply"}
    BY <1>6 DEF Store, CacheInv, Excluded
  <2>2. writer' = Nobody /\ pc' = [pc EXCEPT ![p] = "idle"]
    BY <1>6, <2>1 DEF Store, Return, Goto
  <2>3. \A q \in Callers : pc'[q] \notin {"check", "fetch", "reply"}
    BY <2>1, <2>2 DEF TypeOK
  <2>4. age' = 0 /\ since' \in 0..Timeout
    BY <1>6 DEF Store, TypeOK
  <2>5. Recent'
    BY <2>4, <1>0 DEF Recent
  <2> QED BY <2>2, <2>3, <2>5, NobodyAssumption
          DEF CacheInv, Excluded, RepliesNew, FetchesStale, Fetching
<1>7. ASSUME NEW p \in Callers, FetchError(p) PROVE CacheInv'
  BY <1>7, ReturnSteps DEF FetchError
<1>8. CASE Publish
  BY <1>8 DEF Publish, clocks, CacheInv, Excluded, RepliesNew, FetchesStale,
              Fetching, Fresh, Recent
<1>9. CASE Tick
  <2>1. Fresh' => Fresh
    BY <1>9, <1>0 DEF Tick, Fresh, Capped, TypeOK
  <2>2. Recent'
    BY <1>9, <1>0 DEF Tick, Capped, CacheInv, Recent, TypeOK, OldestIs
  <2> QED BY <1>9, <2>1, <2>2
          DEF Tick, CacheInv, Excluded, RepliesNew, FetchesStale, Fetching
<1>10. CASE UNCHANGED vars
  BY <1>10 DEF vars, clocks, CacheInv, Excluded, RepliesNew, FetchesStale,
               Fetching, Fresh, Recent
<1> QED
  BY <1>1, <1>2, <1>3, <1>4, <1>5, <1>6, <1>7, <1>8, <1>9, <1>10
  DEF Next, Wait, Step

\* The types of the provider's state hold for all callers, time limits and
\* price lists, and the parts of the invariant below hold with them.
THEOREM CacheTypes == Spec => [](TypeOK /\ CacheInv)
<1> QED BY InitTypes, StepTypes, StepInv, PTL DEF Spec

\* Callers ask the endpoint one at a time and only while the list is stale: who
\* comes second sees the list that came meanwhile.
THEOREM NoFetchWhileFresh == Spec => []NoNeedlessFetch
<1>1. CacheInv => NoNeedlessFetch
  BY DEF CacheInv, Excluded, FetchesStale, NoNeedlessFetch, Fetching
<1> QED BY <1>1, CacheTypes, PTL

\* What counts as fresh was asked for less than the TTL and a timeout ago.
THEOREM FreshMeansRecent == Spec => []FreshIsRecent
<1>1. TypeOK /\ CacheInv => FreshIsRecent
  BY TimeAssumption DEF TypeOK, CacheInv, Recent, FreshIsRecent, Fresh, OldestIs
<1> QED BY <1>1, CacheTypes, PTL

-----------------------------------------------------------------------------
Busy == {p \in Callers : pc[p] # "idle"}

LEMMA ReturnAnswers ==
  ASSUME TypeOK, NEW p \in Callers, pc[p] # "idle", NEW e \in cache..market,
         Return(p, e), cache' = e, market' = market
  PROVE  Feed!Answer(p)
<1>1. pc' = [pc EXCEPT ![p] = "idle"] /\ answer' = [answer EXCEPT ![p] = e]
  BY DEF Return, Goto
<1>2. p \in Busy /\ Busy' = Busy \ {p}
  BY <1>1 DEF TypeOK, Busy
<1> QED BY <1>1, <1>2 DEF Feed!Answer, Busy

LEMMA StepFeeds ==
  ASSUME TypeOK, CacheInv, [Next]_vars
  PROVE  Feed!Next \/ UNCHANGED Feed!feed
<1>0. cache \in Nat /\ market \in Nat /\ cache <= market
  BY DEF TypeOK
<1>a. ASSUME UNCHANGED <<market, cache, answer>>, Busy' = Busy
      PROVE  UNCHANGED Feed!feed
  BY <1>a DEF Feed!feed, Busy
<1>b. ASSUME NEW p \in Callers, NEW label, label # "idle", pc[p] # "idle",
             pc' = [pc EXCEPT ![p] = label]
      PROVE  Busy' = Busy
  BY <1>b DEF TypeOK, Busy
<1>1. ASSUME NEW p \in Callers, Call(p) PROVE Feed!Ask(p)
  <2>1. p \notin Busy /\ Busy' = Busy \cup {p}
    BY <1>1 DEF Call, Goto, TypeOK, Busy
  <2> QED BY <1>1, <2>1 DEF Call, Feed!Ask, Busy
<1>2. ASSUME NEW p \in Callers, Lock(p) PROVE UNCHANGED Feed!feed
  BY <1>2, <1>a, <1>b DEF Lock, Goto
<1>3. ASSUME NEW p \in Callers, Peek(p) PROVE Feed!Answer(p) \/ UNCHANGED Feed!feed
  <2>1. CASE Return(p, cache)
    BY <1>3, <2>1, <1>0, ReturnAnswers DEF Peek
  <2>2. CASE Goto(p, "lock") /\ answer' = answer
    BY <1>3, <2>2, <1>a, <1>b DEF Peek, Goto
  <2> QED BY <1>3, <2>1, <2>2 DEF Peek
<1>4. ASSUME NEW p \in Callers, Check(p) PROVE Feed!Answer(p) \/ UNCHANGED Feed!feed
  <2>1. CASE Return(p, cache)
    BY <1>4, <2>1, <1>0, ReturnAnswers DEF Check
  <2>2. CASE Goto(p, "fetch") /\ answer' = answer
    BY <1>4, <2>2, <1>a, <1>b DEF Check, Goto
  <2> QED BY <1>4, <2>1, <2>2 DEF Check
<1>5. ASSUME NEW p \in Callers, Serve(p) PROVE UNCHANGED Feed!feed
  BY <1>5, <1>a, <1>b DEF Serve, Goto
<1>6. ASSUME NEW p \in Callers, Store(p) PROVE Feed!Answer(p)
  <2>1. reply[p] \in cache..market
    BY <1>6, <1>0 DEF Store, TypeOK, CacheInv, RepliesNew
  <2> QED BY <1>6, <2>1, ReturnAnswers DEF Store
<1>7. ASSUME NEW p \in Callers, FetchError(p) PROVE Feed!Answer(p)
  <2>1. pc[p] # "idle" /\ cache \in cache..market
    BY <1>7, <1>0 DEF FetchError, Fetching
  <2> QED BY <1>7, <2>1, ReturnAnswers DEF FetchError
<1>8. ASSUME Publish PROVE Feed!Publish
  <2>1. market' = market + 1 /\ UNCHANGED <<cache, answer>> /\ Busy' = Busy
    BY <1>8 DEF Publish, Busy
  <2> QED BY <2>1 DEF Feed!Publish, Busy
<1>9. CASE Tick
  BY <1>9, <1>a DEF Tick, Busy
<1>10. CASE UNCHANGED vars
  BY <1>10, <1>a DEF vars, Busy
<1> QED
  BY <1>1, <1>2, <1>3, <1>4, <1>5, <1>6, <1>7, <1>8, <1>9, <1>10
  DEF Next, Wait, Step, Feed!Next

\* For any number of callers and price lists: prices never go back, from one
\* call to the next or from one caller to another, and a call fails only as
\* long as no list was ever obtained.
THEOREM CacheKeepsFeed == Spec => KeepsFeed
<1>1. Init => Feed!Init
  BY DEF Init, Feed!Init
<1>2. TypeOK /\ CacheInv /\ [Next]_vars => [Feed!Next]_(Feed!feed)
  BY StepFeeds
<1> QED BY <1>1, <1>2, CacheTypes, PTL DEF Spec, KeepsFeed, Feed!Spec

-----------------------------------------------------------------------------
(* About one price list.                                                   *)

\* The grid of bids.
LEMMA RoundsUp ==
  ASSUME NEW x \in Int, x > 0
  PROVE  /\ RoundBidPrice(x) \in Int /\ RoundBidPrice(x) % 5 = 0
         /\ RoundBidPrice(x) >= x /\ RoundBidPrice(x) <= x + 5
<1> DEFINE q == (x + 4) \div 5
<1>1. \/ RoundBidPrice(x) = q * 5
      \/ RoundBidPrice(x) = q * 5 + 5 /\ q * 5 = x
  BY DEF RoundBidPrice, Step5
<1>2. q \in Int /\ 5 * q <= x + 4 /\ x + 4 < 5 * q + 5
  OBVIOUS
<1> HIDE DEF q
<1>3. (q * 5) % 5 = 0 /\ (q * 5 + 5) % 5 = 0
  BY <1>2
<1> QED
  BY <1>1, <1>2, <1>3 DEF q

\* What an option says of its entry.
LEMMA OptionsKnown ==
  ASSUME NEW list, IsPriceList(list), NEW o \in GetInstanceTypes(list)
  PROVE  LET e == list[o.region][o.type]
         IN  /\ Has(list, o.region, o.type)
             /\ e.market \in Nat /\ e.market > 0 /\ e.p50 \in Nat
             /\ o.cpu = e.cpu /\ e.cpu \in Nat
             /\ o.memory = e.memory \div 4 /\ e.memory \in Nat
             /\ o.category = e.category
             /\ o.price \in Nat /\ o.price >= e.market /\ o.price >= e.p50
<1>0. PICK r \in DOMAIN list :
         \E c \in DOMAIN list[r] : Complete(list[r][c]) /\ o = Option(list, r, c)
  BY DEF GetInstanceTypes
<1>1. PICK c \in DOMAIN list[r] : Complete(list[r][c]) /\ o = Option(list, r, c)
  BY <1>0
<1>2. /\ o.region = r /\ o.type = c /\ o.category = list[r][c].category
      /\ o.cpu = list[r][c].cpu /\ o.memory = FlexInt(list[r][c].memory)
      /\ o.price = Higher(list[r][c])
  BY <1>1 DEF Option
<1>3. /\ list[r][c].cpu \in Nat /\ list[r][c].memory \in Nat /\ list[r][c].p50 \in Nat
      /\ list[r][c].market \in Nat \cup {NotFound}
  BY <1>1 DEF IsPriceList
<1>4. list[r][c].market \in Nat /\ list[r][c].market > 0
  BY <1>1, <1>3 DEF Complete, NotFound
<1>5. Higher(list[r][c]) \in Nat /\ Higher(list[r][c]) >= list[r][c].market
      /\ Higher(list[r][c]) >= list[r][c].p50
  BY <1>3, <1>4 DEF Higher
<1> QED
  BY <1>1, <1>2, <1>3, <1>4, <1>5 DEF Has, FlexInt, Unit

\* A list that is sorted by price has every option, the cheapest first.
LEMMA SortedLists ==
  ASSUME NEW opts, IsFiniteSet(opts), \A o \in opts : o.price \in Int,
         NEW s \in SortedByPrice(opts)
  PROVE  /\ s = <<>> => opts = {}
         /\ \A i \in DOMAIN s : /\ 1 \in DOMAIN s /\ s[i] \in opts /\ s[1] \in opts
                                /\ i # 1 => 1 < i
         /\ \A i \in DOMAIN s : s[1].price <= s[i].price
         /\ \A o \in opts : \E i \in DOMAIN s : s[i] = o
<1> DEFINE n == Cardinality(opts)
<1>1. n \in Nat
  BY FS_CardinalityType
<1>2. /\ s \in [1..n -> opts]
      /\ \A i, j \in DOMAIN s : i < j => s[i] # s[j] /\ s[i].price <= s[j].price
  BY DEF SortedByPrice
<1> HIDE DEF n
<1>3. s \in Injection(1..n, opts)
  BY <1>1, <1>2 DEF Injection, IsInjective
<1>4. IsFiniteSet(1..n) /\ Cardinality(1..n) = n
  BY <1>1, FS_Interval
<1>5. s \in Surjection(1..n, opts)
  BY <1>3, <1>4, FS_Injection DEF n
<1>6. \A o \in opts : \E i \in 1..n : s[i] = o
  BY <1>5 DEF Surjection
<1>7. \A i \in DOMAIN s : 1 \in DOMAIN s /\ s[i] \in opts /\ s[1] \in opts /\ (i # 1 => 1 < i)
  BY <1>1, <1>2
<1>8. \A i \in DOMAIN s : s[1].price <= s[i].price
  BY <1>2, <1>7
<1>9. s = <<>> => opts = {}
  BY <1>2, <1>6
<1> QED
  BY <1>2, <1>6, <1>7, <1>8, <1>9

LEMMA SavesMore ==
  ASSUME NEW paid \in Int, NEW a \in Int, NEW b \in Int, a <= b, NEW t \in Nat,
         Saves(paid, b, t)
  PROVE  Saves(paid, a, t)
<1> DEFINE least == t * paid
<1>1. least \in Int /\ (paid - b) * 100 >= least
  BY DEF Saves
<1> HIDE DEF least
<1>2. (paid - a) * 100 >= least
  BY <1>1
<1> QED
  BY <1>2 DEF Saves, least

\* To save something is to cost less.
LEMMA SavesSomething ==
  ASSUME NEW paid \in Nat, NEW a \in Nat, a > 0, NEW t \in Nat, t > 0, Saves(paid, a, t)
  PROVE  a < paid
<1> DEFINE least == t * paid
<1>1. least \in Nat /\ (paid - a) * 100 >= least
  BY DEF Saves
<1>2. paid > 0 => least > 0
  OBVIOUS
<1> HIDE DEF least
<1> QED
  BY <1>1, <1>2

LEMMA SuitableKnown ==
  ASSUME NEW list, IsPriceList(list), NEW q \in Questions
  PROVE  /\ IsFiniteSet(Suitable(list, q.reqs))
         /\ \A o \in Suitable(list, q.reqs) :
               /\ o \in GetInstanceTypes(list)
               /\ o.price \in Nat /\ o.price > 0
               /\ Adequate(o, q.reqs, list)
<1>1. Suitable(list, q.reqs) \in SUBSET GetInstanceTypes(list)
  BY DEF Suitable
<1>2. IsFiniteSet(Suitable(list, q.reqs))
  BY <1>1, FS_Subset DEF IsPriceList
<1>3. ASSUME NEW o \in Suitable(list, q.reqs)
      PROVE  o.price \in Nat /\ o.price > 0 /\ Adequate(o, q.reqs, list)
  <2> DEFINE e == list[o.region][o.type]
  <2>1. o \in GetInstanceTypes(list) /\ MeetsRequirements(o, q.reqs)
    BY DEF Suitable
  <2>2. /\ e.market \in Nat /\ e.market > 0 /\ o.cpu = e.cpu /\ e.cpu \in Nat
        /\ o.memory = e.memory \div 4 /\ e.memory \in Nat /\ o.category = e.category
        /\ o.price \in Nat /\ o.price >= e.market
    BY <2>1, OptionsKnown
  <2>3. q.reqs.cpu \in Nat /\ q.reqs.memory \in Nat /\ q.reqs.maxPrice \in Nat
    BY QuestionAssumption
  <2> HIDE DEF e
  <2>4. e.cpu * Unit >= q.reqs.cpu /\ e.memory > q.reqs.memory - Unit
    <3>1. e.cpu * Unit >= q.reqs.cpu /\ e.memory \div 4 >= q.reqs.memory \div 4
      BY <2>1, <2>2 DEF MeetsRequirements, Roomy, Unit
    <3>2. e.memory > q.reqs.memory - 4
      BY <2>2, <2>3, <3>1
    <3> QED
      BY <3>1, <3>2 DEF Unit
  <2>5. e.category = "GPU" => q.reqs.categories # {}
    BY <2>1, <2>2 DEF MeetsRequirements, CategoryMet
  <2>6. q.reqs.maxPrice > 0 => e.market <= q.reqs.maxPrice
    BY <2>1, <2>2, <2>3 DEF MeetsRequirements
  <2>7. q.reqs.categories # {} =>
           \E c \in q.reqs.categories : e.category \in Named(c)
    BY <2>1, <2>2 DEF MeetsRequirements, CategoryMet
  <2> QED
    BY <2>2, <2>4, <2>5, <2>6, <2>7 DEF Adequate, e
<1> QED
  BY <1>1, <1>2, <1>3

\* The first option that saves enough is the cheapest of all, and there is one
\* if any option saves enough.
LEMMA FirstIsCheapest ==
  ASSUME NEW list, IsPriceList(list), NEW q \in Questions, NEW paid \in Nat,
         q.threshold > 0, paid # NotFound,
         NEW s \in GetCheapestInstances(list, q.reqs)
  PROVE  /\ FirstSaving(s, paid, q.threshold) = {} =>
               \A x \in Suitable(list, q.reqs) : ~Saves(paid, x.price, q.threshold)
         /\ \A o \in FirstSaving(s, paid, q.threshold) :
               /\ o \in Suitable(list, q.reqs) /\ Saves(paid, o.price, q.threshold)
               /\ \A x \in Suitable(list, q.reqs) : o.price <= x.price
               /\ o.region = q.region /\ o.type = q.type =>
                     paid > GetPriceForInstance(list, q.region, q.type)
<1> DEFINE fit == Suitable(list, q.reqs)
           t   == q.threshold
<1>1. t \in Nat
  BY QuestionAssumption
<1>2. IsFiniteSet(fit) /\ \A o \in fit : o \in GetInstanceTypes(list) /\ o.price \in Nat /\ o.price > 0
  BY SuitableKnown
<1>3. s \in SortedByPrice(fit)
  BY DEF GetCheapestInstances
<1> HIDE DEF fit
<1>4. /\ \A i \in DOMAIN s : /\ 1 \in DOMAIN s /\ s[i] \in fit /\ s[1] \in fit
                             /\ i # 1 => 1 < i
      /\ \A i \in DOMAIN s : s[1].price <= s[i].price
      /\ \A o \in fit : \E i \in DOMAIN s : s[i] = o
  BY <1>2, <1>3, SortedLists
<1>5. \A i \in DOMAIN s : Saves(paid, s[i].price, t) => Saves(paid, s[1].price, t)
  BY <1>1, <1>2, <1>4, SavesMore
<1>6. ASSUME NEW x \in fit, Saves(paid, x.price, t)
      PROVE  s[1] \in FirstSaving(s, paid, t)
  <2>1. PICK i \in DOMAIN s : s[i] = x
    BY <1>4
  <2>2. 1 \in DOMAIN s /\ Saves(paid, s[1].price, t)
    BY <1>4, <1>5, <1>6, <2>1
  <2> QED
    BY <2>2 DEF FirstSaving
<1>7. ASSUME NEW o \in FirstSaving(s, paid, t)
      PROVE  o = s[1] /\ o \in fit /\ Saves(paid, o.price, t)
  <2>1. PICK k \in DOMAIN s : /\ o = s[k] /\ Saves(paid, s[k].price, t)
                              /\ \A j \in 1..(k-1) : ~Saves(paid, s[j].price, t)
    BY DEF FirstSaving
  <2>2. k \in Nat
    BY <1>2, FS_CardinalityType, <1>3 DEF SortedByPrice
  <2>3. k = 1
    BY <1>4, <1>5, <2>1, <2>2
  <2> QED
    BY <1>4, <2>1, <2>3
<1>8. ASSUME NEW o \in FirstSaving(s, paid, t)
      PROVE  \A x \in fit : o.price <= x.price
  BY <1>4, <1>7, <1>8
<1>9. ASSUME NEW o \in FirstSaving(s, paid, t), o.region = q.region, o.type = q.type
      PROVE  paid > GetPriceForInstance(list, q.region, q.type)
  <2>1. o \in fit /\ o.price \in Nat /\ o.price > 0 /\ o \in GetInstanceTypes(list)
    BY <1>2, <1>7
  <2>2. o.price < paid
    BY <1>1, <1>7, <1>9, <2>1, SavesSomething
  <2>3. /\ Has(list, q.region, q.type) /\ list[q.region][q.type].market \in Nat
        /\ o.price >= list[q.region][q.type].market
    BY <1>9, <2>1, OptionsKnown
  <2> QED
    BY <2>1, <2>2, <2>3 DEF GetPriceForInstance
<1> QED
  BY <1>6, <1>7, <1>8, <1>9 DEF fit

\* What CreateNode bids.
LEMMA BidsGood ==
  ASSUME NEW list, IsPriceList(list), NEW q \in Questions
  PROVE  /\ CreateNodeBid(q, list) \in Int /\ CreateNodeBid(q, list) > 0
         /\ q.bid = 0 /\ q.type \in DOMAIN Split =>
              LET r == Split[q.type][2]
                  b == Split[q.type][1]
              IN  Has(list, r, b) /\ list[r][b].market > 0 =>
                     Covers(CreateNodeBid(q, list), list[r][b])
<1> DEFINE r == Split[q.type][2]
           b == Split[q.type][1]
           e == list[r][b]
           bid == GetBidPriceForServerClass(list, q.type)
<1>1. q.bid \in Nat
  BY QuestionAssumption
<1>2. GetMinBidPrice(q.type) \in Nat /\ GetMinBidPrice(q.type) > 0
  BY MinBidAssumption DEF GetMinBidPrice
<1>3. Has(list, r, b) => e.p50 \in Nat /\ e.market \in Nat \cup {NotFound}
  BY DEF Has, IsPriceList
<1>4. CASE q.type \in DOMAIN Split /\ Has(list, r, b) /\ e.market # NotFound
  <2>1. e.p50 \in Nat /\ e.market \in Nat
    BY <1>3, <1>4
  <2>2. bid = RoundBidPrice(Higher(e))
    BY <1>4 DEF GetBidPriceForServerClass, GetPriceForInstance
  <2>3. /\ Higher(e) \in Nat /\ Higher(e) >= e.market /\ Higher(e) >= e.p50
        /\ Higher(e) \in {e.market, e.p50}
    BY <2>1 DEF Higher
  <2> HIDE DEF e
  <2>4. CASE Higher(e) > 0
    <3>1. bid \in Int /\ bid % 5 = 0 /\ bid >= Higher(e) /\ bid <= Higher(e) + 5
      BY <2>2, <2>3, <2>4, RoundsUp
    <3>2. Covers(bid, e) /\ bid > 0
      BY <2>1, <2>3, <2>4, <3>1 DEF Covers
    <3> QED
      BY <1>1, <1>2, <3>1, <3>2 DEF CreateNodeBid, e
  <2>5. CASE Higher(e) = 0
    <3>1. bid = 5
      BY <2>2, <2>5 DEF RoundBidPrice, Step5
    <3>2. ~(e.market > 0)
      BY <2>1, <2>3, <2>5
    <3> QED
      BY <1>1, <1>2, <3>1, <3>2 DEF CreateNodeBid, e
  <2> QED
    BY <2>3, <2>4, <2>5
<1>5. CASE ~(q.type \in DOMAIN Split /\ Has(list, r, b) /\ e.market # NotFound)
  <2>1. bid = 0
    BY <1>5 DEF GetBidPriceForServerClass, GetPriceForInstance
  <2>2. q.type \in DOMAIN Split /\ Has(list, r, b) => ~(e.market > 0)
    BY <1>5 DEF NotFound
  <2> QED
    BY <1>1, <1>2, <2>1, <2>2 DEF CreateNodeBid
<1> QED
  BY <1>4, <1>5

-----------------------------------------------------------------------------
(* About the callers.                                                      *)

\* What is promised to one shopper, in full.
Promised(p) ==
    /\ Done(p, "cheaper") =>
          RealBargain(question[p], found[p], history[answer[p]],
                      {history[e] : e \in 1..answer[p]})
    /\ Done(p, "cheapest") =>
          Adequate(found[p].option, question[p].reqs, history[answer[p]])
    /\ Done(p, "bid") =>
          LET c == question[p].type
          IN  /\ found[p].price > 0
              /\ answer[p] # 0 /\ question[p].bid = 0 /\ c \in DOMAIN Split =>
                   LET r == Split[c][2]
                       b == Split[c][1]
                       l == history[answer[p]]
                   IN  Has(l, r, b) /\ l[r][b].market > 0 =>
                          Covers(found[p].price, l[r][b])

AllInv == TypeOK /\ CacheInv /\ QueryInv /\ \A p \in Shoppers : Promised(p)

LEMMA CacheGoesOn == [QueriesNext]_qvars => [Next]_vars
  BY DEF QueriesNext, qvars, Ask, AskAgain, JustCall, Getting, Next

\* A step of GetPricing returns the cached list, which is no older than before,
\* or does not return.
LEMMA Gets ==
  ASSUME TypeOK, CacheInv, NEW p \in Callers, Wait(p) \/ Step(p)
  PROVE  /\ cache' >= cache
         /\ \E label \in Labels : pc' = [pc EXCEPT ![p] = label]
         /\ pc[p] # "idle"
         /\ \/ pc'[p] = "idle" /\ answer' = [answer EXCEPT ![p] = cache']
            \/ pc'[p] # "idle" /\ answer' = answer
<1>0. cache \in Nat /\ pc \in [Callers -> Labels] /\ \A q \in Callers : reply[q] \in Nat
  BY DEF TypeOK
<1>a. ASSUME NEW e, Return(p, e)
      PROVE  /\ \E label \in Labels : pc' = [pc EXCEPT ![p] = label]
             /\ pc'[p] = "idle" /\ answer' = [answer EXCEPT ![p] = e]
  BY <1>0, <1>a DEF Return, Goto, Labels
<1>b. ASSUME NEW label \in Labels, label # "idle", Goto(p, label)
      PROVE  /\ \E l \in Labels : pc' = [pc EXCEPT ![p] = l]
             /\ pc'[p] # "idle"
  BY <1>0, <1>b DEF Goto
<1>1. CASE Peek(p)
  BY <1>0, <1>1, <1>a, <1>b DEF Peek, Labels
<1>2. CASE Lock(p)
  BY <1>0, <1>2, <1>b DEF Lock, Labels
<1>3. CASE Check(p)
  BY <1>0, <1>3, <1>a, <1>b DEF Check, Labels
<1>4. CASE Serve(p)
  BY <1>0, <1>4, <1>b DEF Serve, Labels
<1>5. CASE Store(p)
  BY <1>0, <1>5, <1>a DEF Store, CacheInv, RepliesNew
<1>6. CASE FetchError(p)
  BY <1>0, <1>6, <1>a DEF FetchError, Fetching
<1> QED
  BY <1>1, <1>2, <1>3, <1>4, <1>5, <1>6 DEF Wait, Step

\* A shopper that nothing happens to.
LEMMA Undisturbed ==
  ASSUME QueryInv, NEW q \in Shoppers, Promised(q), history' = history,
         question'[q] = question[q], asks'[q] = asks[q], current'[q] = current[q],
         found'[q] = found[q], answer'[q] = answer[q]
  PROVE  Promised(q)' /\ PaidKnown(q)'
  BY DEF Promised, Done, QueryInv, PaidKnown

\* A shopper is given a list.
LEMMA Served ==
  ASSUME QueryInv, NEW p \in Shoppers, asks[p] # "none",
         history' = history, question' = question,
         NEW a \in 0..Editions, answer[p] \in 0..a, answer'[p] = a, Use(p, a)
  PROVE  /\ Promised(p)' /\ PaidKnown(p)'
         /\ asks' \in [Shoppers -> {"none", "price", "options"}]
         /\ DOMAIN current' = Shoppers /\ DOMAIN found' = Shoppers
         /\ asks'[p] = "price" => question[p].kind = "cheaper"
         /\ \A q \in Shoppers \ {p} : /\ asks'[q] = asks[q] /\ current'[q] = current[q]
                                       /\ found'[q] = found[q]
<1> DEFINE Q == question[p]
           list == IF a = 0 THEN NoList ELSE history[a]
<1>1. Q \in Questions /\ history \in Histories
  BY DEF QueryInv
<1>2. a # 0 => IsPriceList(history[a])
  BY <1>1, HistoryAssumption
<1>3. IsPriceList(list)
  <2>1. IsPriceList(NoList)
    BY FS_EmptySet DEF IsPriceList, NoList, GetInstanceTypes
  <2> QED
    BY <1>2, <2>1
<1>4. ASSUME NEW ans, Finish(p, ans)
      PROVE  /\ asks' \in [Shoppers -> {"none", "price", "options"}] /\ asks'[p] = "none"
             /\ DOMAIN current' = Shoppers /\ DOMAIN found' = Shoppers /\ found'[p] = ans
             /\ \A q \in Shoppers \ {p} : /\ asks'[q] = asks[q] /\ current'[q] = current[q]
                                           /\ found'[q] = found[q]
             /\ PaidKnown(p)'
  BY <1>4 DEF Finish, QueryInv, PaidKnown
<1>5. CASE Fail(p)
  <2>1. Finish(p, AnswerTo(Q)) /\ AnswerTo(Q).failed
    BY <1>5 DEF Fail, AnswerTo
  <2> QED
    BY <1>4, <2>1 DEF Promised, Done
<1>6. CASE Q.kind = "bid" /\ TakeBid(p, list)
  <2> DEFINE ans == [AnswerTo(Q) EXCEPT !.price = CreateNodeBid(Q, list), !.failed = FALSE]
  <2>1. Finish(p, ans) /\ ans.kind = "bid" /\ ans.price = CreateNodeBid(Q, list)
    BY <1>6 DEF TakeBid, AnswerTo
  <2> HIDE DEF ans
  <2>2. found'[p] = ans /\ question'[p] = Q /\ answer'[p] = a
    BY <1>4, <2>1
  <2>3. ans.price > 0
    BY <1>1, <1>3, <2>1, BidsGood
  <2>4. a # 0 => list = history[a]
    OBVIOUS
  <2>5. /\ ~Done(p, "cheaper")' /\ ~Done(p, "cheapest")'
    BY <2>1, <2>2 DEF Done
  <2> HIDE DEF list, Q
  <2>6. Promised(p)'
    BY <1>1, <1>3, <2>1, <2>2, <2>3, <2>4, <2>5, BidsGood DEF Promised
  <2> QED
    BY <1>4, <2>1, <2>6
<1>7. CASE a # 0 /\ Q.kind = "cheaper" /\ asks[p] = "price" /\ TakePrice(p, list)
  <2> DEFINE x == GetPriceForInstance(list, Q.region, Q.type)
  <2>1. CASE x = NotFound
    BY <1>5, <1>7, <2>1 DEF TakePrice
  <2>2. CASE x # NotFound
    <3>1. /\ asks' = [asks EXCEPT ![p] = "options"] /\ current' = [current EXCEPT ![p] = x]
          /\ found' = found
      BY <1>7, <2>2 DEF TakePrice
    <3>2. asks'[p] = "options" /\ current'[p] = x
      BY <3>1 DEF QueryInv
    <3>3. a \in 1..answer'[p] /\ x = GetPriceForInstance(history'[a], question'[p].region, question'[p].type)
      BY <1>7
    <3> HIDE DEF x
    <3>4. PaidKnown(p)'
      BY <2>2, <3>2, <3>3 DEF PaidKnown
    <3>5. Promised(p)'
      BY <3>2 DEF Promised, Done
    <3> QED
      BY <1>7, <3>1, <3>2, <3>4, <3>5 DEF QueryInv
  <2> QED
    BY <2>1, <2>2
<1>8. CASE a # 0 /\ Q.kind = "cheaper" /\ asks[p] = "options" /\ TakeAlternatives(p, list)
  <2> DEFINE paid == current[p]
             ans(o) == [AnswerTo(Q) EXCEPT !.price = paid, !.option = o, !.failed = FALSE]
  <2>1. PICK s \in GetCheapestInstances(list, Q.reqs) :
          \E o \in IF FirstSaving(s, paid, Q.threshold) = {}
                   THEN {NoOption} ELSE FirstSaving(s, paid, Q.threshold) : Finish(p, ans(o))
    BY <1>8 DEF TakeAlternatives
  <2>2. PICK o \in IF FirstSaving(s, paid, Q.threshold) = {}
                   THEN {NoOption} ELSE FirstSaving(s, paid, Q.threshold) : Finish(p, ans(o))
    BY <2>1
  <2>3. ans(o).kind = "cheaper" /\ ans(o).price = paid /\ ans(o).option = o
    BY <1>8 DEF AnswerTo
  <2> DEFINE result == ans(o)
  <2> HIDE DEF ans
  <2>4. PICK e \in 1..answer[p] :
          paid # NotFound /\ paid = GetPriceForInstance(history[e], Q.region, Q.type)
    BY <1>8 DEF QueryInv, PaidKnown
  <2>5. e \in 1..a /\ e \in 1..Editions /\ IsPriceList(history[e])
    <3>1. Editions \in Nat
      BY EditionAssumption
    <3>2. e \in 1..a /\ e \in 1..Editions
      BY <2>4, <3>1
    <3> QED
      BY <1>1, <3>2, HistoryAssumption
  <2>6. paid \in Nat
    BY <2>4, <2>5 DEF GetPriceForInstance, Has, IsPriceList
  <2>7. Q.threshold > 0 /\ list = history[a] /\ IsPriceList(list)
    BY <1>1, <1>2, <1>8, QuestionAssumption
  <2> HIDE DEF paid, list, Q, result
  <2>8. /\ FirstSaving(s, paid, Q.threshold) = {} =>
              \A x \in Suitable(list, Q.reqs) : ~Saves(paid, x.price, Q.threshold)
        /\ o \in FirstSaving(s, paid, Q.threshold) =>
              /\ o \in Suitable(list, Q.reqs) /\ Saves(paid, o.price, Q.threshold)
              /\ \A x \in Suitable(list, Q.reqs) : o.price <= x.price
              /\ o.region = Q.region /\ o.type = Q.type =>
                    paid > GetPriceForInstance(list, Q.region, Q.type)
    BY <1>1, <2>1, <2>4, <2>6, <2>7, FirstIsCheapest
  <2>9. RealBargain(Q, result, list, {history[x] : x \in 1..a})
    BY <2>2, <2>3, <2>4, <2>5, <2>8 DEF RealBargain, result
  <2>10. /\ found'[p] = result /\ result.kind = "cheaper"
         /\ question'[p] = Q /\ answer'[p] = a /\ history'[answer'[p]] = list
    BY <1>4, <2>2, <2>3, <2>7 DEF result, Q
  <2>11. {history'[x] : x \in 1..answer'[p]} = {history[x] : x \in 1..a}
    BY <2>10
  <2>12. Promised(p)'
    BY <2>9, <2>10, <2>11 DEF Promised, Done
  <2> QED
    BY <1>4, <2>2, <2>12
<1>9. CASE a # 0 /\ Q.kind = "cheapest" /\ TakeCheapest(p, list)
  <2>1. PICK s \in GetCheapestInstances(list, Q.reqs) :
          IF s = <<>> THEN Fail(p)
          ELSE Finish(p, [AnswerTo(Q) EXCEPT !.option = s[1], !.failed = FALSE])
    BY <1>9 DEF TakeCheapest
  <2>2. CASE s = <<>>
    BY <1>5, <2>1, <2>2
  <2>3. CASE s # <<>>
    <3> DEFINE ans == [AnswerTo(Q) EXCEPT !.option = s[1], !.failed = FALSE]
    <3>1. Finish(p, ans) /\ ans.kind = "cheapest" /\ ans.option = s[1]
      BY <1>9, <2>1, <2>3 DEF AnswerTo
    <3> HIDE DEF ans
    <3>2. found'[p] = ans /\ question'[p] = Q /\ answer'[p] = a /\ list = history[a]
      BY <1>4, <1>9, <3>1
    <3>3. /\ IsFiniteSet(Suitable(list, Q.reqs))
          /\ \A o \in Suitable(list, Q.reqs) : o.price \in Int /\ Adequate(o, Q.reqs, list)
      BY <1>1, <1>3, SuitableKnown
    <3>4. 1 \in DOMAIN s
      BY <2>1, <2>3, <3>3, FS_CardinalityType DEF GetCheapestInstances, SortedByPrice
    <3>5. s[1] \in Suitable(list, Q.reqs)
      BY <2>1, <3>4 DEF GetCheapestInstances, SortedByPrice
    <3> HIDE DEF list, Q
    <3>6. Promised(p)'
      BY <3>1, <3>2, <3>3, <3>5 DEF Promised, Done
    <3> QED
      BY <1>4, <3>1, <3>6
  <2> QED
    BY <2>2, <2>3
<1> QED
  BY <1>5, <1>6, <1>7, <1>8, <1>9 DEF Use

\* The cache's own steps leave the shoppers alone.
LEMMA Elsewhere ==
  ASSUME AllInv, UNCHANGED <<answer, shop, history>>,
         \A p \in Shoppers : pc'[p] # "idle" => asks[p] # "none",
         cache' >= cache, TypeOK', CacheInv'
  PROVE  AllInv'
<1>1. \A q \in Shoppers : Promised(q)' /\ PaidKnown(q)'
  BY Undisturbed DEF AllInv, shop
<1>2. \A q \in Callers : answer'[q] <= cache'
  BY DEF AllInv, QueryInv, TypeOK
<1>3. QueryInv'
  BY <1>1, <1>2 DEF AllInv, QueryInv, shop
<1> QED
  BY <1>1, <1>3 DEF AllInv

LEMMA CallOnly ==
  ASSUME TypeOK, NEW p \in Callers, Call(p)
  PROVE  /\ pc[p] = "idle" /\ UNCHANGED <<answer, cache>>
         /\ \A q \in Callers \ {p} : pc'[q] = pc[q]
BY DEF Call, Goto, TypeOK

LEMMA QueriesStart == QueriesInit => AllInv
<1> SUFFICES ASSUME QueriesInit PROVE AllInv
  OBVIOUS
<1>1. TypeOK /\ CacheInv
  BY InitTypes DEF QueriesInit
<1>2. \A p \in Shoppers : Promised(p) /\ PaidKnown(p)
  BY DEF QueriesInit, Promised, Done, AnswerTo, PaidKnown
<1>3. \A p \in Shoppers : pc[p] = "idle"
  BY ShopperAssumption DEF QueriesInit, Init
<1>4. \A p \in Callers : answer[p] <= cache
  <2> TAKE p \in Callers
  <2>1. answer[p] = 0 /\ cache = 0
    BY DEF QueriesInit, Init
  <2>2. 0 <= 0
    OBVIOUS
  <2> QED
    BY <2>1, <2>2
<1>5. QueryInv
  BY <1>2, <1>3, <1>4 DEF QueriesInit, QueryInv
<1> QED
  BY <1>1, <1>2, <1>5 DEF AllInv

LEMMA QueriesGoOn == AllInv /\ [QueriesNext]_qvars => AllInv'
<1> SUFFICES ASSUME AllInv, [QueriesNext]_qvars PROVE AllInv'
  OBVIOUS
<1>0. TypeOK' /\ CacheInv'
  BY CacheGoesOn, StepTypes, StepInv DEF AllInv
<1>a. TypeOK /\ CacheInv /\ QueryInv /\ \A p \in Shoppers : Promised(p)
  BY DEF AllInv
<1>b. cache \in Nat
  BY <1>a DEF TypeOK
<1>1. ASSUME NEW p \in Callers, Ask(p) PROVE AllInv'
  <2>1. Call(p) /\ p \in Shoppers /\ asks[p] = "none"
    BY <1>1 DEF Ask
  <2>2. PICK q \in Questions :
          /\ question' = [question EXCEPT ![p] = q]
          /\ asks' = [asks EXCEPT ![p] = IF q.kind = "cheaper" THEN "price" ELSE "options"]
          /\ found' = [found EXCEPT ![p] = AnswerTo(q)]
    BY <1>1 DEF Ask
  <2>3. /\ pc[p] = "idle" /\ UNCHANGED <<answer, cache, current, history>>
        /\ \A x \in Callers \ {p} : pc'[x] = pc[x]
    BY <1>1, <1>a, <2>1, CallOnly DEF Ask
  <2>4. /\ asks'[p] = IF q.kind = "cheaper" THEN "price" ELSE "options"
        /\ question'[p] = q
    BY <1>a, <2>1, <2>2 DEF QueryInv
  <2>5. Promised(p)' /\ PaidKnown(p)'
    BY <2>4 DEF Promised, Done, PaidKnown
  <2>6. \A x \in Shoppers \ {p} : /\ question'[x] = question[x] /\ asks'[x] = asks[x]
                                   /\ found'[x] = found[x]
    BY <1>a, <2>2 DEF QueryInv
  <2>7. \A x \in Shoppers \ {p} : Promised(x)' /\ PaidKnown(x)'
    BY <1>a, <2>3, <2>6, Undisturbed
  <2>8. \A x \in Shoppers : pc'[x] # "idle" => asks'[x] # "none"
    BY <1>a, <2>3, <2>4, <2>6, ShopperAssumption DEF QueryInv
  <2>9. \A x \in Shoppers : asks'[x] = "price" => question'[x].kind = "cheaper"
    BY <1>a, <2>4, <2>6 DEF QueryInv
  <2>10. /\ question' \in [Shoppers -> Questions]
         /\ asks' \in [Shoppers -> {"none", "price", "options"}]
         /\ DOMAIN found' = Shoppers
    BY <1>a, <2>2 DEF QueryInv
  <2>11. QueryInv'
    BY <1>a, <2>3, <2>5, <2>7, <2>8, <2>9, <2>10 DEF QueryInv
  <2> QED
    BY <1>0, <2>5, <2>7, <2>11 DEF AllInv
<1>2. ASSUME NEW p \in Callers, AskAgain(p) PROVE AllInv'
  <2>1. /\ Call(p) /\ UNCHANGED <<shop, history>> /\ asks[p] = "options"
    BY <1>2 DEF AskAgain
  <2>2. \A x \in Shoppers : pc'[x] # "idle" => asks[x] # "none"
    BY <1>a, <2>1, CallOnly, ShopperAssumption DEF QueryInv
  <2>3. UNCHANGED <<answer, cache>>
    BY <1>a, <2>1, CallOnly
  <2> QED
    BY <1>0, <1>b, <2>1, <2>2, <2>3, Elsewhere
<1>3. ASSUME NEW p \in Callers, JustCall(p) PROVE AllInv'
  <2>1. /\ Call(p) /\ UNCHANGED <<shop, history>> /\ p \notin Shoppers
    BY <1>3 DEF JustCall
  <2>2. \A x \in Shoppers : pc'[x] # "idle" => asks[x] # "none"
    BY <1>a, <2>1, CallOnly, ShopperAssumption DEF QueryInv
  <2>3. UNCHANGED <<answer, cache>>
    BY <1>a, <2>1, CallOnly
  <2> QED
    BY <1>0, <1>b, <2>1, <2>2, <2>3, Elsewhere
<1>4. ASSUME NEW p \in Callers, Getting(p, Wait(p)) \/ Getting(p, Step(p)) PROVE AllInv'
  <2>1. Wait(p) \/ Step(p)
    BY <1>4 DEF Getting
  <2>2. /\ UNCHANGED history
        /\ IF p \in Shoppers /\ pc'[p] = "idle"
           THEN Use(p, answer'[p]) /\ question' = question
           ELSE UNCHANGED shop
    BY <1>4 DEF Getting
  <2>3. PICK label \in Labels : pc' = [pc EXCEPT ![p] = label]
    BY <1>a, <2>1, Gets
  <2>4. /\ cache' >= cache /\ pc[p] # "idle"
        /\ \/ pc'[p] = "idle" /\ answer' = [answer EXCEPT ![p] = cache']
           \/ pc'[p] # "idle" /\ answer' = answer
    BY <1>a, <2>1, Gets
  <2>5. \A x \in Callers \ {p} : pc'[x] = pc[x]
    BY <1>a, <2>3 DEF TypeOK
  <2>6. cache' \in Nat /\ cache' \in 0..Editions
    BY <1>0, EditionAssumption DEF TypeOK
  <2>7. answer \in [Callers -> Nat]
    BY <1>a DEF TypeOK
  <2>8. \A x \in Callers : answer'[x] <= cache'
    BY <1>a, <1>b, <2>4, <2>6, <2>7 DEF QueryInv
  <2>9. CASE p \in Shoppers /\ pc'[p] = "idle"
    <3>1. answer'[p] = cache' /\ \A x \in Callers \ {p} : answer'[x] = answer[x]
      BY <2>4, <2>7, <2>9
    <3>2. answer[p] \in 0..cache'
      BY <1>a, <1>b, <2>4, <2>6, <2>7 DEF QueryInv
    <3>3. Use(p, cache') /\ question' = question
      BY <2>2, <2>9, <3>1
    <3>4. asks[p] # "none"
      BY <1>a, <2>4, <2>9 DEF QueryInv
    <3>5. /\ Promised(p)' /\ PaidKnown(p)'
          /\ asks' \in [Shoppers -> {"none", "price", "options"}]
          /\ DOMAIN current' = Shoppers /\ DOMAIN found' = Shoppers
          /\ asks'[p] = "price" => question[p].kind = "cheaper"
          /\ \A q \in Shoppers \ {p} : /\ asks'[q] = asks[q] /\ current'[q] = current[q]
                                        /\ found'[q] = found[q]
      BY <1>a, <2>2, <2>6, <2>9, <3>1, <3>2, <3>3, <3>4, Served
    <3>6. \A x \in Shoppers \ {p} : Promised(x)' /\ PaidKnown(x)'
      BY <1>a, <2>2, <3>1, <3>3, <3>5, Undisturbed, ShopperAssumption
    <3>7. \A x \in Shoppers : pc'[x] # "idle" => asks'[x] # "none"
      BY <1>a, <2>5, <2>9, <3>5, ShopperAssumption DEF QueryInv
    <3>8. \A x \in Shoppers : asks'[x] = "price" => question'[x].kind = "cheaper"
      BY <1>a, <3>3, <3>5 DEF QueryInv
    <3>9. QueryInv'
      BY <1>a, <2>2, <2>8, <3>3, <3>5, <3>6, <3>7, <3>8 DEF QueryInv
    <3> QED
      BY <1>0, <3>5, <3>6, <3>9 DEF AllInv
  <2>10. CASE ~(p \in Shoppers /\ pc'[p] = "idle")
    <3>1. UNCHANGED <<shop, history>>
      BY <2>2, <2>10
    <3>2. \A x \in Shoppers : answer'[x] = answer[x]
      BY <2>4, <2>7, <2>10, ShopperAssumption
    <3>3. \A x \in Shoppers : Promised(x)' /\ PaidKnown(x)'
      BY <1>a, <3>1, <3>2, Undisturbed DEF shop
    <3>4. \A x \in Shoppers : pc'[x] # "idle" => asks'[x] # "none"
      BY <1>a, <2>4, <2>5, <3>1, ShopperAssumption DEF QueryInv, shop
    <3>5. QueryInv'
      BY <1>a, <2>8, <3>1, <3>3, <3>4 DEF QueryInv, shop
    <3> QED
      BY <1>0, <3>3, <3>5 DEF AllInv
  <2> QED
    BY <2>9, <2>10
<1>5. CASE (Publish \/ Tick) /\ UNCHANGED <<shop, history>>
  <2>1. UNCHANGED <<answer, pc, cache>>
    BY <1>5 DEF Publish, Tick
  <2> QED
    BY <1>0, <1>a, <1>b, <1>5, <2>1, Elsewhere DEF QueryInv
<1>6. CASE UNCHANGED qvars
  <2>1. UNCHANGED <<answer, pc, cache, shop, history>>
    BY <1>6 DEF qvars, vars
  <2> QED
    BY <1>0, <1>a, <1>b, <2>1, Elsewhere DEF QueryInv
<1> QED
  BY <1>1, <1>2, <1>3, <1>4, <1>5, <1>6 DEF QueriesNext

LEMMA QueriesKeep == QueriesSpec => []AllInv
<1> QED BY QueriesStart, QueriesGoOn, PTL DEF QueriesSpec

-----------------------------------------------------------------------------
(* The theorems.                                                           *)

\* FindCheaperAlternative: whenever the cached list is replaced between its two
\* reads, the alternative is the cheapest of the second list, it saves the
\* threshold against a price once listed, and it is the instance itself only if
\* its price fell meanwhile.
THEOREM BargainsAreReal == QueriesSpec => []BargainsReal
<1>1. AllInv => BargainsReal
  BY DEF AllInv, Promised, BargainsReal
<1> QED BY <1>1, QueriesKeep, PTL

\* GetCheapestInstance: what it returns lacks no core and less than a Gi, is of a
\* category that was named (no GPU, if none was), and is within the price.
THEOREM CheapestIsAdequate == QueriesSpec => []CheapestAdequate
<1>1. AllInv => CheapestAdequate
  BY DEF AllInv, Promised, CheapestAdequate
<1> QED BY <1>1, QueriesKeep, PTL

\* CreateNode: a bid from the list lies on the grid, covers the market price and
\* the median of one edition, and is at most a step above the higher of them,
\* whichever prices the division raises.
THEOREM BidsAlwaysCover == QueriesSpec => []BidsCover
<1>1. AllInv => BidsCover
  BY DEF AllInv, Promised, BidsCover
<1> QED BY <1>1, QueriesKeep, PTL

\* The cache serves its queries as it does callers that only want the list.
THEOREM QueriesUseTheCache == QueriesSpec => Spec
<1>1. QueriesInit => Init
  BY DEF QueriesInit
<1> QED BY <1>1, CacheGoesOn, PTL DEF QueriesSpec, Spec
=============================================================================
