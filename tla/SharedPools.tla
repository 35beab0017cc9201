----------------------------- MODULE SharedPools -----------------------------
(***************************************************************************)
(* The cloudspace as cmd/discover-minbids shares it with the runs of       *)
(* cmd/optimize.  The probe bids a tenth of a cent for each server class   *)
(* of the price list, learns the minimum from the refusal, and deletes the *)
(* pool at once when the bid is accepted.  It takes no lock, labels        *)
(* nothing and looks at no listing, and the runs of ApplyPlan see its      *)
(* pools like any other.                                                   *)
(***************************************************************************)
EXTENDS ApplyPlan

CONSTANTS
    Listed,    \* the server classes of the price list
    ProbeBid   \* the probing bid, in thousandths of a dollar

ASSUME ListedAssumption   == Listed \subseteq Classes
ASSUME ProbeBidAssumption == ProbeBid \in Nat

VARIABLES
    at,     \* where the probe is: "idle", "probing", "created" or "failed"
    mine,   \* the class and the name of the pool it has to delete
    minima  \* what it has found so far (results), by class

probe      == <<at, mine, minima>>
sharedVars == <<vars, probe>>

Unprobed == [kind |-> "none",   price |-> 0]
Failed   == [kind |-> "error",  price |-> 0]
Found(p) == [kind |-> "price",  price |-> p]
Nothing  == [class |-> None, name |-> None]

ToProbe  == {c \in Listed : minima[c] = Unprobed}

\* A pool as the probe makes it: one node, and no label.
Probing(c) == [class |-> c, desired |-> 1, managed |-> FALSE, status |-> "ok"]
With(c, n) == [pools EXCEPT ![n] = Probing(c)]

ProbeInit ==
    /\ at = "idle"
    /\ mine = Nothing
    /\ minima = [c \in Listed |-> Unprobed]

SharedInit == Init /\ ProbeInit

\* The price list is read: from here on one class after the other.  (The code
\* takes them in the order of their names; here the order is any.)
ProbeStart ==
    /\ at \in {"idle", "failed"}
    /\ at' = "probing"
    /\ minima' = [c \in Listed |-> Unprobed]
    /\ UNCHANGED <<vars, mine>>

\* The bid is refused, and the error names the minimum.
ProbeRefused(c) ==
    /\ at = "probing"
    /\ c \in ToProbe
    /\ ProbeBid < floor[c]
    /\ minima' = [minima EXCEPT ![c] = Found(floor[c])]
    /\ UNCHANGED <<vars, at, mine>>

\* Any other error is written down as it is; the pool may be there all the
\* same, when only the answer was lost.
ProbeError(c) ==
    /\ at = "probing"
    /\ c \in ToProbe
    /\ minima' = [minima EXCEPT ![c] = Failed]
    /\ \/ UNCHANGED pools
       \/ \E n \in Names : /\ ProbeBid >= floor[c]
                           /\ Fresh(n)
                           /\ pools' = With(c, n)
    /\ UNCHANGED <<floor, cordoned, pc, job, mem, at, mine>>

ProbeAccepted(c) ==
    /\ at = "probing"
    /\ c \in ToProbe
    /\ ProbeBid >= floor[c]
    /\ \E n \in Names : /\ Fresh(n)
                        /\ pools' = With(c, n)
                        /\ mine' = [class |-> c, name |-> n]
    /\ at' = "created"
    /\ UNCHANGED <<floor, cordoned, pc, job, mem, minima>>

\* The pool is deleted at once.  A run may have deleted it before (as lost),
\* or the deletion fails: nobody looks at the error.
ProbeDelete ==
    /\ at = "created"
    /\ \/ Live(mine.name) /\ pools' = Removed(mine.name)
       \/ UNCHANGED pools
    /\ minima' = [minima EXCEPT ![mine.class] = Found(ProbeBid)]
    /\ mine' = Nothing
    /\ at' = "probing"
    /\ UNCHANGED <<floor, cordoned, pc, job, mem>>

\* The results are written to the file and the program ends; without the file
\* they are lost.
ProbeWrite ==
    /\ at = "probing"
    /\ ToProbe = {}
    /\ at' \in {"idle", "failed"}
    /\ UNCHANGED <<vars, mine, minima>>

\* The process dies between two requests.
ProbeCrash ==
    /\ at \in {"probing", "created"}
    /\ at' = "failed"
    /\ mine' = Nothing
    /\ UNCHANGED <<vars, minima>>

Probe ==
    \/ ProbeStart \/ ProbeDelete \/ ProbeWrite \/ ProbeCrash
    \/ \E c \in Listed : ProbeRefused(c) \/ ProbeError(c) \/ ProbeAccepted(c)

\* A run that begins to make a pool mints no name that the probe uses.
MintsOwn(r) == pc[r] # "submit" /\ pc'[r] = "submit" /\ Creates(r)' =>
                   mem'[r].call.name # mine.name

Apply == /\ Next
         /\ \A r \in Runners : MintsOwn(r)
         /\ UNCHANGED probe

SharedNext == Apply \/ Probe
SharedSpec == SharedInit /\ [][SharedNext]_sharedVars

-----------------------------------------------------------------------------
(* Properties.                                                             *)

\* With the probe and any number of runs at work, a pool is deleted only by a
\* run that means it (it listed the pool as lost, or the pool is managed, not
\* in its plan, and the plan is in place) or by the probe that has just made
\* it, and then no run has made it its own.  So nobody ever collects a pool
\* that the probe has left behind, and the probe deletes no pool of a run.
DeletionsMeant ==
    [][\A n \in Names : Live(n) /\ ~Live(n)' =>
        \/ /\ at = "created"
           /\ n = mine.name
           /\ pools[n].class = mine.class
           /\ ~pools[n].managed
        \/ \E r \in Runners :
              /\ ~job[r].dry
              /\ \/ n \in mem[r].lost
                 \/ /\ pc[r] = "delete"
                    /\ mem[r].todo = {}
                    /\ pools[n].managed
                    /\ pools[n].class \notin Planned(r)]_sharedVars

\* What it rests on: the probe's pool is still the unlabelled pool it made, and
\* no run is about to make a pool under its name.
ProbeInv ==
    /\ at \in {"idle", "probing", "created", "failed"}
    /\ at = "created" =>
          /\ mine.class \in Listed
          /\ mine.name \in Names
          /\ Live(mine.name) => /\ pools[mine.name].class = mine.class
                                /\ ~pools[mine.name].managed
          /\ \A r \in Runners : pc[r] = "submit" /\ Creates(r) =>
                mem[r].call.name # mine.name
    /\ at # "created" => mine = Nothing
=============================================================================
