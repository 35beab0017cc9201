------------------------------ MODULE PodFetch ------------------------------
(***************************************************************************)
(* cmd/optimize, fetchPods: the pods the plan is made for are read with    *)
(* one listing per namespace and phase, while the cluster goes on: pods    *)
(* are created, start to run, end, and are replaced under the same name.   *)
(***************************************************************************)
EXTENDS Naturals, Sequences, FiniteSets

CONSTANTS
    Pods,        \* namespace/name of the pods
    Namespaces,
    Home,        \* the namespace of a pod
    Flags        \* values of --namespace: sequences of namespaces, <<>> for all

ASSUME PodAssumption  == IsFiniteSet(Pods)
ASSUME HomeAssumption == Home \in [Pods -> Namespaces]
ASSUME FlagAssumption == Flags \subseteq Seq(Namespaces)

VARIABLES
    cluster,  \* the phase of each pod in the cluster
    settled,  \* the pods whose phase has not changed since the fetch began
    present,  \* the pods that have been in the cluster, unfinished, since then
    stage,    \* of the fetch
    scope,    \* the namespaces it asks for
    queue,    \* the listings still to make
    tally,    \* how often each pod is in the result
    counts    \* PodCounts

vars  == <<cluster, settled, present, stage, scope, queue, tally, counts>>
fetch == <<stage, scope, queue, tally, counts>>

-----------------------------------------------------------------------------
Phases     == <<"Running", "Pending">>
Unfinished == {p \in Pods : cluster[p] \in {"Running", "Pending"}}
NoCounts   == [Running |-> 0, Pending |-> 0]
Listing(spaces, phase) == [spaces |-> spaces, phase |-> phase]

\* Without the flag one listing per phase; with it, for each namespace in turn.
Listings(flag) ==
    IF flag = <<>>
    THEN [i \in 1..2 |-> Listing(Namespaces, Phases[i])]
    ELSE [i \in 1..(2 * Len(flag)) |->
             Listing({flag[(i + 1) \div 2]}, Phases[IF i % 2 = 1 THEN 1 ELSE 2])]

Init ==
    /\ cluster \in [Pods -> {"none", "Pending", "Running"}]
    /\ settled = Pods
    /\ present = Unfinished
    /\ stage = "idle"
    /\ scope = {}
    /\ queue = <<>>
    /\ tally = [p \in Pods |-> 0]
    /\ counts = NoCounts

Start ==
    /\ stage = "idle"
    /\ stage' = "list"
    /\ \E flag \in Flags : /\ queue' = Listings(flag)
                           /\ scope' = UNION {l.spaces : l \in {queue'[i] : i \in DOMAIN queue'}}
    /\ settled' = Pods
    /\ present' = Unfinished
    /\ UNCHANGED <<cluster, tally, counts>>

Matching(l) == {p \in Pods : Home[p] \in l.spaces /\ cluster[p] = l.phase}

\* Mutant: no seenPods.
NewAlways(l) == Matching(l)

\* What a listing adds: the pods that are not in the result yet (seenPods).
New(l) == {p \in Matching(l) : tally[p] = 0}

\* Mutant: an empty listing ends the fetch.
ListStops ==
    /\ stage = "list"
    /\ LET l == Head(queue)
       IN  /\ tally' = [p \in Pods |-> IF p \in New(l) THEN tally[p] + 1 ELSE tally[p]]
           /\ counts' = [counts EXCEPT ![l.phase] = @ + Cardinality(New(l))]
           /\ queue' = Tail(queue)
           /\ stage' = IF queue' = <<>> \/ Matching(l) = {} THEN "done" ELSE "list"
    /\ UNCHANGED <<cluster, settled, present, scope>>

List ==
    /\ stage = "list"
    /\ LET l == Head(queue)
       IN  /\ tally' = [p \in Pods |-> IF p \in New(l) THEN tally[p] + 1 ELSE tally[p]]
           /\ counts' = [counts EXCEPT ![l.phase] = @ + Cardinality(New(l))]
           /\ queue' = Tail(queue)
           /\ stage' = IF queue' = <<>> THEN "done" ELSE "list"
    /\ UNCHANGED <<cluster, settled, present, scope>>

\* Mutant: a namespace that cannot be listed is left out.
ListErrorSkips ==
    /\ stage = "list"
    /\ queue' = Tail(queue)
    /\ stage' = IF queue' = <<>> THEN "done" ELSE "list"
    /\ UNCHANGED <<cluster, settled, present, scope, tally, counts>>

\* A listing fails: there is no result.
ListError ==
    /\ stage = "list"
    /\ stage' = "failed"
    /\ queue' = <<>>
    /\ UNCHANGED <<cluster, settled, present, scope, tally, counts>>

\* The cluster goes on.
Changes(p, phase) ==
    /\ cluster' = [cluster EXCEPT ![p] = phase]
    /\ settled' = settled \ {p}
    /\ present' = IF phase \in {"Pending", "Running"} /\ p \in Unfinished
                  THEN present ELSE present \ {p}
    /\ UNCHANGED fetch

Appears(p) == cluster[p] = "none" /\ Changes(p, "Pending")
Starts(p)  == cluster[p] = "Pending" /\ Changes(p, "Running")
Ends(p)    == cluster[p] \in {"Pending", "Running"} /\ Changes(p, "Ended")
Goes(p)    == cluster[p] # "none" /\ Changes(p, "none")

World == \E p \in Pods : Appears(p) \/ Starts(p) \/ Ends(p) \/ Goes(p)
Next  == Start \/ List \/ ListError \/ World
Spec  == Init /\ [][Next]_vars

-----------------------------------------------------------------------------
\* Types.  A result is given out only when every listing has been made.
TypeOK ==
    /\ cluster \in [Pods -> {"none", "Pending", "Running", "Ended"}]
    /\ settled \in SUBSET Pods /\ present \in SUBSET Pods
    /\ stage \in {"idle", "list", "done", "failed"}
    /\ scope \in SUBSET Namespaces
    /\ stage = "list" <=> queue # <<>>
    /\ tally \in [Pods -> Nat]
    /\ counts \in [{"Running", "Pending"} -> Nat]

\* No pod is planned for twice, although it may be replaced by one of the same
\* name between two listings, and a namespace may be given twice; the numbers
\* of running and pending pods that are printed add up (seenPods).
CountedOnce ==
    /\ \A p \in Pods : tally[p] <= 1
    /\ counts.Running + counts.Pending = Cardinality({p \in Pods : tally[p] = 1})

\* A pod of the namespaces asked for that stays as it is gets planned for.
SettledCounted ==
    stage = "done" =>
        \A p \in settled \cap Unfinished : Home[p] \in scope => tally[p] = 1

\* "Fetch both Running and Pending pods to account for all resource requests":
\* so does one that starts to run meanwhile.
AllCounted ==
    stage = "done" =>
        \A p \in present : Home[p] \in scope => tally[p] = 1
=============================================================================
