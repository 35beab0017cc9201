------------------------------ MODULE PriceList ------------------------------
(***************************************************************************)
(* internal/spot, the queries of PricingProvider: what they compute from   *)
(* one price list, by region and server class.  Prices are in thousandths  *)
(* of a dollar; CPU and memory are asked for, and memory is listed, in     *)
(* quarters of a core and of a Gi, which the code cuts to whole ones.      *)
(* Names that strings.EqualFold takes for equal are equal here.            *)
(***************************************************************************)
EXTENDS Integers, FiniteSets, Sequences

CONSTANTS
    Split,        \* server class -> <<base type, region>> around its last dash
    MinBidPrices, \* the probed minimum bids, by server class
    Raised        \* prices on the grid whose float64 quotient by the step is
                  \* above a whole number: 35, 70, 140, 280, 555, ...

ASSUME MinBidAssumption == \A c \in DOMAIN MinBidPrices : MinBidPrices[c] \in Nat \ {0}

Unit == 4         \* quarters
Step5 == 5        \* BidPriceStep
NotFound == -1    \* an error, and a market price that is no number

\* Mutant: rounds to the nearest multiple.
RoundBidNearest(price) ==
    IF price <= 0 THEN Step5 ELSE ((price + 2) \div Step5) * Step5

\* RoundBidPrice: up to the grid of half a cent, or a step further when the
\* division makes a price on the grid look as if it were above it.
RoundBidPrice(price) ==
    LET up == ((price + Step5 - 1) \div Step5) * Step5
    IN  IF price <= 0 THEN Step5
        ELSE IF up = price /\ price \in Raised THEN up + Step5 ELSE up

\* FlexInt: "3.75GB" is 3.
FlexInt(quarters) == quarters \div Unit

-----------------------------------------------------------------------------
(* GetInstanceTypes: the entries with nothing missing, as options.         *)

Complete(e) == e.named /\ e.cpu > 0 /\ FlexInt(e.memory) > 0 /\ e.market > 0

Higher(e) == IF e.p50 > e.market THEN e.p50 ELSE e.market

Option(list, r, c) ==
    LET e == list[r][c]
    IN  [region |-> r, type |-> c, category |-> e.category, cpu |-> e.cpu,
         memory |-> FlexInt(e.memory),
         storage |-> IF e.storage <= 0 THEN 40 ELSE e.storage,
         price |-> Higher(e)]

GetInstanceTypes(list) ==
    UNION {{Option(list, r, c) : c \in {d \in DOMAIN list[r] : Complete(list[r][d])}}
              : r \in DOMAIN list}

\* A price list as the code may read it from JSON.
IsPriceList(list) ==
    /\ IsFiniteSet(GetInstanceTypes(list))
    /\ \A r \in DOMAIN list : \A c \in DOMAIN list[r] :
           LET e == list[r][c]
           IN  /\ {e.cpu, e.memory, e.p50} \subseteq Nat
               /\ e.market \in Nat \cup {NotFound}

-----------------------------------------------------------------------------
(* GetCheapestInstances.                                                   *)

CategoryAliases == [gp |-> "General Purpose", ch |-> "Compute Heavy",
                    mh |-> "Memory Heavy", bm |-> "Bare Metal", gpu |-> "GPU"]

Named(c) == IF c \in DOMAIN CategoryAliases THEN {c, CategoryAliases[c]} ELSE {c}

\* Mutant: with a wish for categories any category will do.
AnyCategory(category, wanted) == wanted # {} \/ category # "GPU"

\* Without a wish for a category everything but GPUs will do.
CategoryMet(category, wanted) ==
    IF wanted = {} THEN category # "GPU"
    ELSE category \in UNION {Named(c) : c \in wanted}

\* Mutant: memory is not looked at.
CoresOnly(opt, reqs) == opt.cpu * Unit >= reqs.cpu

\* Quantity.Value rounds the cores up; the division by 1 Gi rounds down.
Roomy(opt, reqs) == /\ opt.cpu * Unit >= reqs.cpu
                    /\ opt.memory >= reqs.memory \div Unit

MeetsRequirements(opt, reqs) ==
    /\ Roomy(opt, reqs)
    /\ reqs.regions # {} => opt.region \in reqs.regions
    /\ CategoryMet(opt.category, reqs.categories)
    /\ reqs.maxPrice > 0 => opt.price <= reqs.maxPrice

Suitable(list, reqs) == {o \in GetInstanceTypes(list) : MeetsRequirements(o, reqs)}

\* Mutant: in the order of the map.
ListedAnyhow(opts) ==
    {s \in [1..Cardinality(opts) -> opts] : \A i, j \in DOMAIN s : i < j => s[i] # s[j]}

\* sort.Slice is not stable: every order that is sorted by price.
SortedByPrice(opts) ==
    {s \in [1..Cardinality(opts) -> opts] :
        \A i, j \in DOMAIN s : i < j => s[i] # s[j] /\ s[i].price <= s[j].price}

GetCheapestInstances(list, reqs) == SortedByPrice(Suitable(list, reqs))

-----------------------------------------------------------------------------
(* Prices of one instance.                                                 *)

Has(list, r, c) == r \in DOMAIN list /\ c \in DOMAIN list[r]

GetPriceForInstance(list, r, c) ==
    IF Has(list, r, c) THEN list[r][c].market ELSE NotFound

\* 0 for an error: the class has no dash, or there is no such entry.
GetBidPriceForServerClass(list, c) ==
    IF c \notin DOMAIN Split THEN 0
    ELSE LET base == Split[c][1]
             r    == Split[c][2]
         IN  IF GetPriceForInstance(list, r, base) = NotFound THEN 0
             ELSE RoundBidPrice(Higher(list[r][base]))

GetMinBidPrice(c) == IF c \in DOMAIN MinBidPrices THEN MinBidPrices[c] ELSE 10

-----------------------------------------------------------------------------
(* FindCheaperAlternative, from the current price on.                      *)

\* threshold is in percent.  A current price of 0 is an infinite loss.
Saves(current, price, threshold) == (current - price) * 100 >= threshold * current

\* The first of the options that saves enough, if any does.
FirstSaving(s, current, threshold) ==
    {s[i] : i \in {k \in DOMAIN s :
        /\ Saves(current, s[k].price, threshold)
        /\ \A j \in 1..(k-1) : ~Saves(current, s[j].price, threshold)}}
=============================================================================
