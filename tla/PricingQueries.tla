---------------------------- MODULE PricingQueries ----------------------------
(***************************************************************************)
(* internal/spot, PricingProvider: callers of the queries over the price   *)
(* cache.  Each query asks GetPricing for the list, FindCheaperAlternative *)
(* twice: for the price of the current instance and for the alternatives,  *)
(* between which the cached list may be replaced, by anyone.               *)
(***************************************************************************)
EXTENDS PricingCache, PriceList

CONSTANTS
    Shoppers,   \* the callers that ask queries
    Questions,  \* what they ask, see Question
    Histories,  \* sequences of price lists that may be published
    NoOption    \* no instance found

ASSUME ShopperAssumption  == Shoppers \subseteq Callers
ASSUME HistoryAssumption  == \A h \in Histories : /\ DOMAIN h = 1..Editions
                                                   /\ \A e \in 1..Editions : IsPriceList(h[e])
ASSUME QuestionAssumption == \A q \in Questions :
    /\ {q.bid, q.threshold, q.reqs.cpu, q.reqs.memory, q.reqs.maxPrice} \subseteq Nat
    /\ q.kind = "cheaper" => q.threshold > 0

VARIABLES
    history,   \* the price lists, by edition
    question,  \* the query of each shopper
    asks,      \* how far it is: "none", "price", "options"
    current,   \* currentPrice of FindCheaperAlternative
    found      \* the last answer of each shopper

shop  == <<question, asks, current, found>>
qvars == <<vars, history, shop>>

\* The queries: kind, an instance, requirements, and for "cheaper" a threshold
\* in percent, for "bid" the bid of the NodeSpec, 0 for none.
AnswerTo(q) == [kind |-> q.kind, price |-> 0, option |-> NoOption, failed |-> TRUE]

QueriesInit ==
    /\ Init
    /\ history \in Histories
    /\ question \in [Shoppers -> Questions]
    /\ asks = [p \in Shoppers |-> "none"]
    /\ current = [p \in Shoppers |-> 0]
    /\ found = [p \in Shoppers |-> AnswerTo(question[p])]

-----------------------------------------------------------------------------
(* A query begins, and asks for the list.                                  *)

Ask(p) ==
    /\ p \in Shoppers /\ asks[p] = "none"
    /\ Call(p)
    /\ \E q \in Questions :
          /\ question' = [question EXCEPT ![p] = q]
          /\ asks' = [asks EXCEPT ![p] = IF q.kind = "cheaper" THEN "price" ELSE "options"]
          /\ found' = [found EXCEPT ![p] = AnswerTo(q)]
    /\ UNCHANGED <<current, history>>

\* FindCheaperAlternative asks again, for the alternatives.
AskAgain(p) ==
    /\ p \in Shoppers /\ asks[p] = "options"
    /\ Call(p)
    /\ UNCHANGED <<shop, history>>

\* The goroutines that only want the list.
JustCall(p) ==
    /\ p \notin Shoppers
    /\ Call(p)
    /\ UNCHANGED <<shop, history>>

-----------------------------------------------------------------------------
(* What a query does with the list it is given.                            *)

Finish(p, ans) ==
    /\ asks' = [asks EXCEPT ![p] = "none"]
    /\ current' = [current EXCEPT ![p] = 0]
    /\ found' = [found EXCEPT ![p] = ans]

\* GetPricing failed and there was no list, ever.
Fail(p) == Finish(p, AnswerTo(question[p]))

\* FindCheaperAlternative: the current price, or an error.
TakePrice(p, list) ==
    LET q     == question[p]
        price == GetPriceForInstance(list, q.region, q.type)
    IN  IF price = NotFound THEN Fail(p)
        ELSE /\ asks' = [asks EXCEPT ![p] = "options"]
             /\ current' = [current EXCEPT ![p] = price]
             /\ found' = found

\* Mutant: without an alternative, another list is asked for.
TakeAlternativesAgain(p, list) ==
    \E s \in GetCheapestInstances(list, question[p].reqs) :
        LET saving == FirstSaving(s, current[p], question[p].threshold)
        IN  \/ saving = {} /\ UNCHANGED <<asks, current, found>>
            \/ \E o \in saving :
                   Finish(p, [AnswerTo(question[p]) EXCEPT
                                !.price = current[p], !.option = o, !.failed = FALSE])

\* FindCheaperAlternative: the alternatives, or none.
TakeAlternatives(p, list) ==
    \E s \in GetCheapestInstances(list, question[p].reqs) :
        LET saving == FirstSaving(s, current[p], question[p].threshold)
        IN  \E o \in IF saving = {} THEN {NoOption} ELSE saving :
                Finish(p, [AnswerTo(question[p]) EXCEPT
                             !.price = current[p], !.option = o, !.failed = FALSE])

\* GetCheapestInstance, or an error when there is none.
TakeCheapest(p, list) ==
    \E s \in GetCheapestInstances(list, question[p].reqs) :
        IF s = <<>> THEN Fail(p)
        ELSE Finish(p, [AnswerTo(question[p]) EXCEPT !.option = s[1], !.failed = FALSE])

\* CreateNode chooses its bid: its caller's, the list's, or the probed one.
CreateNodeBid(q, list) ==
    IF q.bid > 0 THEN q.bid
    ELSE LET bid == GetBidPriceForServerClass(list, q.type)
         IN  IF bid > 0 THEN bid ELSE GetMinBidPrice(q.type)

TakeBid(p, list) ==
    Finish(p, [AnswerTo(question[p]) EXCEPT
                 !.price = CreateNodeBid(question[p], list), !.failed = FALSE])

NoList == [r \in {} |-> <<>>]

Use(p, edition) ==
    LET list == IF edition = 0 THEN NoList ELSE history[edition]
        kind == question[p].kind
    IN  \/ edition = 0 /\ kind # "bid" /\ Fail(p)
        \/ kind = "bid" /\ TakeBid(p, list)
        \/ /\ edition # 0
           /\ \/ kind = "cheaper" /\ asks[p] = "price" /\ TakePrice(p, list)
              \/ kind = "cheaper" /\ asks[p] = "options" /\ TakeAlternatives(p, list)
              \/ kind = "cheapest" /\ TakeCheapest(p, list)

\* A step of GetPricing; with its last one the query goes on.
Getting(p, A) ==
    /\ A
    /\ IF p \in Shoppers /\ pc'[p] = "idle"
       THEN Use(p, answer'[p]) /\ question' = question
       ELSE UNCHANGED shop
    /\ UNCHANGED history

QueriesNext ==
    \/ \E p \in Callers : Ask(p) \/ AskAgain(p) \/ JustCall(p)
    \/ \E p \in Callers : Getting(p, Wait(p)) \/ Getting(p, Step(p))
    \/ (Publish \/ Tick) /\ UNCHANGED <<shop, history>>

QueriesSpec == QueriesInit /\ [][QueriesNext]_qvars

\* As in PricingCache; and a query that has its first list asks for the next.
FairQueriesSpec ==
    /\ QueriesSpec
    /\ \A p \in Callers : /\ WF_qvars(Getting(p, Step(p)))
                          /\ SF_qvars(Getting(p, Wait(p)))
                          /\ WF_qvars(AskAgain(p))

-----------------------------------------------------------------------------
(* Properties.                                                             *)

Done(p, kind) == /\ asks[p] = "none"
                 /\ found[p].kind = kind /\ ~found[p].failed

\* Of an answer to q, given from the list, after the price paid for was read
\* from one of the lists in earlier.
RealBargain(q, ans, list, earlier) ==
    LET o    == ans.option
        fit  == Suitable(list, q.reqs)
        paid == ans.price
    IN  /\ \E l \in earlier : paid = GetPriceForInstance(l, q.region, q.type)
        /\ \/ /\ o = NoOption
              /\ \A x \in fit : ~Saves(paid, x.price, q.threshold)
           \/ /\ o \in fit /\ Saves(paid, o.price, q.threshold)
              /\ \A x \in fit : o.price <= x.price
              /\ o.region = q.region /\ o.type = q.type =>
                    paid > GetPriceForInstance(list, q.region, q.type)

\* An alternative that FindCheaperAlternative returns is on sale in the list it
\* was given last, is the cheapest there that is large enough, and saves the
\* threshold against a price the instance had in that list or an earlier one;
\* it finds one if there is one; and it offers the instance itself only if the
\* cache was refreshed between the two lists and the price fell meanwhile.
BargainsReal ==
    \A p \in Shoppers : Done(p, "cheaper") =>
        RealBargain(question[p], found[p], history[answer[p]],
                    {history[e] : e \in 1..answer[p]})

\* o is enough for reqs.
Adequate(o, reqs, list) ==
    LET e == list[o.region][o.type]
    IN  /\ e.cpu * Unit >= reqs.cpu
        /\ e.memory > reqs.memory - Unit
        /\ e.category = "GPU" => reqs.categories # {}
        /\ reqs.categories # {} => \E c \in reqs.categories : e.category \in Named(c)
        /\ reqs.maxPrice > 0 => e.market <= reqs.maxPrice

\* A query for a cheapest instance never returns one that falls short of the
\* cores asked for, or by a whole Gi of the memory asked for, a GPU that nobody
\* asked for, one that is in none of the categories asked for, or one above
\* the price limit by its own market price.
CheapestAdequate ==
    \A p \in Shoppers : Done(p, "cheapest") =>
        Adequate(found[p].option, question[p].reqs, history[answer[p]])

\* The bid covers what the list says of the entry, and is at most a step of
\* the grid above it.
Covers(bid, e) == /\ bid % 5 = 0
                  /\ e.market <= bid /\ e.p50 <= bid
                  /\ e.market >= bid - 5 \/ e.p50 >= bid - 5

\* A bid that CreateNode takes from the list is one the API takes (on the grid,
\* and at least the market price and the median of one edition) and at most a
\* step above the dearer of the two; and there is always a bid.
BidsCover ==
    \A p \in Shoppers : Done(p, "bid") =>
        LET c == question[p].type
        IN  /\ found[p].price > 0
            /\ answer[p] # 0 /\ question[p].bid = 0 /\ c \in DOMAIN Split =>
                 LET r == Split[c][2]
                     b == Split[c][1]
                     l == history[answer[p]]
                 IN  Has(l, r, b) /\ l[r][b].market > 0 =>
                        Covers(found[p].price, l[r][b])

\* Every query ends, although it may wait for the list twice.
QueryReturns == \A p \in Shoppers : asks[p] # "none" ~> asks[p] = "none"

-----------------------------------------------------------------------------
(* What makes them inductive.                                              *)

\* FindCheaperAlternative holds a price from the list it was given last, or an
\* earlier one.
PaidKnown(p) ==
    asks[p] = "options" /\ question[p].kind = "cheaper" =>
        /\ current[p] # NotFound
        /\ \E e \in 1..answer[p] :
              current[p] = GetPriceForInstance(history[e], question[p].region,
                                               question[p].type)

\* Who waits for a list has asked, and nobody was given a list newer than the
\* cached one.
QueryInv ==
    /\ history \in Histories
    /\ question \in [Shoppers -> Questions]
    /\ asks \in [Shoppers -> {"none", "price", "options"}]
    /\ DOMAIN current = Shoppers /\ DOMAIN found = Shoppers
    /\ \A p \in Shoppers : /\ pc[p] # "idle" => asks[p] # "none"
                           /\ asks[p] = "price" => question[p].kind = "cheaper"
                           /\ PaidKnown(p)
    /\ \A p \in Callers : answer[p] <= cache
=============================================================================
