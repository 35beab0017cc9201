------------------------------ MODULE PriceFeed ------------------------------
(***************************************************************************)
(* What spot.PricingProvider promises its callers: prices that were        *)
(* published, that never go back in time, not even from one caller to      *)
(* another, and an error only as long as no price has ever been obtained.  *)
(***************************************************************************)
EXTENDS Naturals

CONSTANT Callers

VARIABLES
    published,  \* the latest edition of the price list, from 1
    seen,       \* the latest edition anybody was given, 0 for none
    busy,       \* the callers that wait for an answer
    answer      \* the last answer of each caller, 0 for an error

feed == <<published, seen, busy, answer>>

Init ==
    /\ published = 1
    /\ seen = 0
    /\ busy = {}
    /\ answer = [p \in Callers |-> 0]

Publish ==
    /\ published' = published + 1
    /\ UNCHANGED <<seen, busy, answer>>

Ask(p) ==
    /\ p \notin busy
    /\ busy' = busy \cup {p}
    /\ UNCHANGED <<published, seen, answer>>

Answer(p) ==
    /\ p \in busy
    /\ busy' = busy \ {p}
    /\ seen' \in seen..published
    /\ answer' = [answer EXCEPT ![p] = seen']
    /\ published' = published

Next == Publish \/ \E p \in Callers : Ask(p) \/ Answer(p)

Spec == Init /\ [][Next]_feed
=============================================================================
