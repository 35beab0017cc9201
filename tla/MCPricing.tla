------------------------------ MODULE MCPricing ------------------------------
(* An instance of PricingQueries for TLC.                                  *)
EXTENDS PricingQueries

Entry(cat, cpu, mem, now, med) ==
    [named |-> TRUE, category |-> cat, cpu |-> cpu, memory |-> mem,
     storage |-> 0, market |-> now, p50 |-> med]

GP(now, med) == Entry("General Purpose", 2, 15, now, med)
CH(now, med) == Entry("Compute Heavy", 4, 12, now, med)
Unnamed         == [GP(1, 1) EXCEPT !.named = FALSE]
Unpriced        == GP(NotFound, 2)
Small           == Entry("General Purpose", 2, 7, 1, 1)
GPU             == Entry("GPU", 4, 16, 2, 2)

\* The price of gp falls; or ch becomes cheap, and the median of gp is a price
\* that is on the grid and still rounded up.  A GPU is always the cheapest; an
\* entry without a name or a price is of no use.  Regions and classes are named as the comments of the
\* code name them, and in one list as in the sample of types_test.go, where the
\* bid lookup does not find them.
First == [iad |-> [gp |-> GP(20, 22), ch |-> CH(18, 18), gpu |-> GPU]]
Fall  == [iad |-> [gp |-> GP(12, 12), ch |-> CH(14, 16)], ord |-> [gp |-> Unnamed]]
Turn  == [iad |-> [gp |-> GP(18, 35), ch |-> CH(9, 12), small |-> Small],
          ord |-> [gp |-> Unpriced],
          us_west_sjc |-> [gp_sjc |-> GP(19, 21)]]

MCHistories == {<<First, Fall>>, <<First, Turn>>}

MCSplit   == [gp_iad |-> <<"gp", "iad">>, gp_sjc |-> <<"gp", "sjc">>]
MCMinBids == [gp_iad |-> 2]
MCRaised  == {35, 70}

Reqs(cpu, mem, categories, max) ==
    [cpu |-> cpu, memory |-> mem, regions |-> {}, categories |-> categories,
     maxPrice |-> max]
Question(kind, r, t, reqs) ==
    [kind |-> kind, region |-> r, type |-> t, reqs |-> reqs, threshold |-> 20, bid |-> 0]

MCQuestions ==
    {Question("cheaper", "iad", "gp", Reqs(8, 8, {}, 0)),
     Question("cheapest", "iad", "gp", Reqs(6, 15, {}, 20)),
     Question("cheapest", "iad", "gp", Reqs(6, 8, {"gp"}, 0)),
     Question("bid", "iad", "gp_iad", Reqs(0, 0, {}, 0)),
     Question("bid", "us_west_sjc", "gp_sjc", Reqs(0, 0, {}, 0))}
=============================================================================
