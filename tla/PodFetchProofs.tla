--------------------------- MODULE PodFetchProofs ---------------------------
(***************************************************************************)
(* Theorems about PodFetch, for any number of pods and namespaces.         *)
(***************************************************************************)
EXTENDS PodFetch, FiniteSetTheorems, TLAPS

Query   == [spaces : SUBSET Namespaces, phase : {"Running", "Pending"}]
Fetched == {p \in Pods : tally[p] = 1}

\* A listing that is still to be made asks for p as it is now.
Awaited(p) == \E i \in 1..Len(queue) : /\ Home[p] \in queue[i].spaces
                                       /\ queue[i].phase = cluster[p]

\* Once the fetch has begun, a pod that stays as it is has been found or is
\* still to be asked for.
Covered == stage \in {"list", "done"} =>
    \A p \in settled \cap Unfinished :
        Home[p] \in scope => tally[p] = 1 \/ Awaited(p)

FetchInv == /\ TypeOK
            /\ queue \in Seq(Query)
            /\ stage = "idle" => tally = [p \in Pods |-> 0]
            /\ CountedOnce
            /\ Covered

LEMMA InitFetch == Init => FetchInv
<1> SUFFICES ASSUME Init PROVE FetchInv
  OBVIOUS
<1>1. TypeOK /\ queue \in Seq(Query)
  BY DEF Init, TypeOK, Unfinished, NoCounts, Query
<1>2. CountedOnce
  <2>1. {p \in Pods : tally[p] = 1} = {}
    BY DEF Init
  <2>2. Cardinality({p \in Pods : tally[p] = 1}) = 0
    BY <2>1, FS_EmptySet
  <2>3. counts["Running"] = 0 /\ counts["Pending"] = 0 /\ \A p \in Pods : tally[p] <= 1
    BY DEF Init, NoCounts
  <2> QED
    BY <2>2, <2>3 DEF CountedOnce
<1> QED
  BY <1>1, <1>2 DEF FetchInv, Covered, Init

\* Every flag asks for each phase in each of its namespaces.
LEMMA ListingsComplete ==
    ASSUME NEW flag \in Seq(Namespaces)
    PROVE  /\ Listings(flag) \in Seq(Query)
           /\ Listings(flag) # <<>>
           /\ \A i \in DOMAIN Listings(flag) : Listings(flag)[i] \in Query
           /\ \A s \in Namespaces, phase \in {"Running", "Pending"} :
                (\E i \in DOMAIN Listings(flag) : s \in Listings(flag)[i].spaces) =>
                (\E i \in DOMAIN Listings(flag) : /\ s \in Listings(flag)[i].spaces
                                                  /\ Listings(flag)[i].phase = phase)
<1>1. Phases[1] = "Running" /\ Phases[2] = "Pending"
  BY DEF Phases
<1>2. CASE flag = <<>>
  <2>1. Listings(flag) = [i \in 1..2 |-> Listing(Namespaces, Phases[i])]
    BY <1>2 DEF Listings
  <2>2. \A i \in 1..2 : Listings(flag)[i] \in Query
    BY <1>1, <2>1 DEF Listing, Query
  <2>3. Listings(flag) \in Seq(Query) /\ DOMAIN Listings(flag) = 1..2 /\ Len(Listings(flag)) = 2
    BY <2>1, <2>2
  <2>4. \A s \in Namespaces : /\ s \in Listings(flag)[1].spaces /\ Listings(flag)[1].phase = "Running"
                              /\ s \in Listings(flag)[2].spaces /\ Listings(flag)[2].phase = "Pending"
    BY <1>1, <2>1 DEF Listing
  <2>5. 1 \in DOMAIN Listings(flag) /\ 2 \in DOMAIN Listings(flag)
    BY <2>3
  <2>6. ASSUME NEW s \in Namespaces, NEW phase \in {"Running", "Pending"}
        PROVE  \E i \in DOMAIN Listings(flag) : /\ s \in Listings(flag)[i].spaces
                                                /\ Listings(flag)[i].phase = phase
    <3>1. CASE phase = "Running"
      BY <2>4, <2>5, <3>1
    <3>2. CASE phase = "Pending"
      BY <2>4, <2>5, <3>2
    <3> QED
      BY <3>1, <3>2
  <2>7. Listings(flag) # <<>>
    BY <2>1, <2>5
  <2>8. \A i \in DOMAIN Listings(flag) : Listings(flag)[i] \in Query
    BY <2>2, <2>3
  <2> QED
    BY <2>3, <2>6, <2>7, <2>8
<1>3. CASE flag # <<>>
  <2> DEFINE n == Len(flag)
  <2>1. n \in Nat /\ n > 0 /\ \A k \in 1..n : flag[k] \in Namespaces
    BY <1>3
  <2>2. /\ DOMAIN Listings(flag) = 1..(2 * n)
        /\ \A i \in 1..(2 * n) : Listings(flag)[i] =
              Listing({flag[(i + 1) \div 2]}, Phases[IF i % 2 = 1 THEN 1 ELSE 2])
        /\ Listings(flag) = [i \in 1..(2 * n) |-> Listings(flag)[i]]
    BY <1>3 DEF Listings
  <2> HIDE DEF n
  <2>3. \A i \in 1..(2 * n) : (i + 1) \div 2 \in 1..n
    BY <2>1
  <2>4. \A i \in 1..(2 * n) : Listings(flag)[i] \in Query
    BY <1>1, <2>1, <2>2, <2>3 DEF Listing, Query
  <2>5. Listings(flag) \in Seq(Query)
    BY <2>1, <2>2, <2>4
  <2>6. Listings(flag) # <<>>
    BY <2>1, <2>2
  <2>7. ASSUME NEW s \in Namespaces, NEW phase \in {"Running", "Pending"},
               NEW i \in DOMAIN Listings(flag), s \in Listings(flag)[i].spaces
        PROVE  \E j \in DOMAIN Listings(flag) : /\ s \in Listings(flag)[j].spaces
                                                /\ Listings(flag)[j].phase = phase
    <3> DEFINE k == (i + 1) \div 2
               j == IF phase = "Running" THEN 2 * k - 1 ELSE 2 * k
    <3>1. i \in 1..(2 * n) /\ k \in 1..n
      BY <2>2, <2>3, <2>7
    <3>2. s = flag[k]
      BY <2>2, <2>7, <3>1 DEF Listing
    <3>3. /\ j \in 1..(2 * n) /\ (j + 1) \div 2 = k
          /\ phase = "Running" => j % 2 = 1
          /\ phase = "Pending" => j % 2 = 0
      BY <2>1, <3>1
    <3>4. Listings(flag)[j] = Listing({flag[k]}, phase)
      BY <1>1, <2>2, <3>3
    <3> HIDE DEF j, k
    <3>5. j \in DOMAIN Listings(flag)
      BY <2>2, <3>3
    <3>6. s \in Listings(flag)[j].spaces /\ Listings(flag)[j].phase = phase
      BY <3>2, <3>4 DEF Listing
    <3> QED
      BY <3>5, <3>6
  <2>8. \A i \in DOMAIN Listings(flag) : Listings(flag)[i] \in Query
    BY <2>2, <2>4
  <2> QED
    BY <2>5, <2>6, <2>7, <2>8
<1> QED
  BY <1>2, <1>3

LEMMA StartFetch == ASSUME FetchInv, Start PROVE FetchInv'
<1>1. PICK flag \in Flags :
         /\ queue' = Listings(flag)
         /\ scope' = UNION {l.spaces : l \in {queue'[i] : i \in DOMAIN queue'}}
  BY DEF Start
<1>2. flag \in Seq(Namespaces)
  BY FlagAssumption
<1>3. queue' \in Seq(Query) /\ queue' # <<>>
  BY <1>1, <1>2, ListingsComplete
<1>4. scope' \subseteq Namespaces
  <2>1. \A i \in DOMAIN queue' : queue'[i] \in Query
    BY <1>1, <1>2, ListingsComplete
  <2>2. \A i \in DOMAIN queue' : queue'[i].spaces \subseteq Namespaces
    BY <2>1 DEF Query
  <2> QED
    BY <1>1, <2>2
<1>5. TypeOK' /\ CountedOnce'
  BY <1>3, <1>4 DEF FetchInv, TypeOK, CountedOnce, Start, Unfinished
<1>6. ASSUME NEW p \in Pods, cluster[p] \in {"Running", "Pending"}, Home[p] \in scope'
      PROVE  \E i \in 1..Len(queue') : /\ Home[p] \in queue'[i].spaces
                                       /\ queue'[i].phase = cluster[p]
  <2>1. \E i \in DOMAIN queue' : Home[p] \in queue'[i].spaces
    BY <1>1, <1>6
  <2>2. Home[p] \in Namespaces
    BY HomeAssumption
  <2>3. PICK i \in DOMAIN queue' : Home[p] \in queue'[i].spaces /\ queue'[i].phase = cluster[p]
    BY <1>1, <1>2, <1>6, <2>1, <2>2, ListingsComplete
  <2>4. i \in 1..Len(queue')
    BY <1>3, <2>3
  <2> QED
    BY <2>3, <2>4
<1>7. Covered'
  BY <1>6 DEF Covered, Awaited, Unfinished, Start
<1> QED
  BY <1>3, <1>5, <1>7 DEF FetchInv, Start

LEMMA ListFetch == ASSUME FetchInv, List PROVE FetchInv'
<1> DEFINE l == Head(queue)
           new == New(l)
<1> USE DEF FetchInv
<1>1. /\ queue \in Seq(Query) /\ queue # <<>> /\ queue' = Tail(queue)
      /\ stage = "list" /\ stage' \in {"list", "done"} /\ (stage' = "list" <=> queue' # <<>>)
      /\ l = queue[1] /\ l \in Query
  BY DEF List, TypeOK
<1>2. queue' \in Seq(Query)
  BY <1>1
<1>3. new \subseteq Pods /\ IsFiniteSet(new) /\ Cardinality(new) \in Nat
  <2>1. new \subseteq Pods
    BY DEF New, Matching
  <2> QED
    BY <2>1, PodAssumption, FS_Subset, FS_CardinalityType
<1>4. tally' = [p \in Pods |-> IF p \in new THEN tally[p] + 1 ELSE tally[p]]
  BY DEF List
<1>5. \A p \in Pods : p \in new => tally[p] = 0
  BY DEF New
<1>6. tally \in [Pods -> Nat] /\ \A p \in Pods : tally[p] <= 1
  BY DEF TypeOK, CountedOnce
<1> HIDE DEF new
<1>7. tally' \in [Pods -> Nat] /\ \A p \in Pods : tally'[p] <= 1
  BY <1>4, <1>5, <1>6
<1>8. Fetched' = Fetched \cup new /\ Fetched \cap new = {}
  BY <1>3, <1>4, <1>5, <1>6 DEF Fetched
<1>9. IsFiniteSet(Fetched) /\ Cardinality(Fetched) \in Nat
  BY PodAssumption, FS_Subset, FS_CardinalityType DEF Fetched
<1>10. Cardinality(Fetched') = Cardinality(Fetched) + Cardinality(new)
  <2>1. Cardinality(Fetched \cup new)
          = Cardinality(Fetched) + Cardinality(new) - Cardinality(Fetched \cap new)
    BY <1>3, <1>9, FS_Union
  <2>2. Cardinality(Fetched \cap new) = 0
    BY <1>8, FS_EmptySet
  <2>3. Cardinality(Fetched') = Cardinality(Fetched \cup new)
    BY <1>8
  <2> QED
    BY <1>3, <1>9, <2>1, <2>2, <2>3
<1>11. /\ counts' \in [{"Running", "Pending"} -> Nat]
       /\ counts'["Running"] + counts'["Pending"]
            = counts["Running"] + counts["Pending"] + Cardinality(new)
  <2>1. counts' = [counts EXCEPT ![l.phase] = @ + Cardinality(new)]
    BY DEF List, new
  <2>2. counts \in [{"Running", "Pending"} -> Nat] /\ l.phase \in {"Running", "Pending"}
    BY <1>1 DEF TypeOK, Query
  <2> QED
    BY <1>3, <2>1, <2>2
<1>12. CountedOnce'
  BY <1>7, <1>10, <1>11 DEF CountedOnce, Fetched
<1>13. TypeOK'
  BY <1>1, <1>7, <1>11 DEF TypeOK, List
<1>14. ASSUME NEW p \in settled \cap Unfinished, Home[p] \in scope
       PROVE  tally'[p] = 1 \/ \E i \in 1..Len(queue') : /\ Home[p] \in queue'[i].spaces
                                                         /\ queue'[i].phase = cluster[p]
  <2>1. p \in Pods
    BY DEF Unfinished
  <2>2. CASE tally[p] = 1
    BY <1>4, <1>5, <2>1, <2>2
  <2>3. CASE tally[p] # 1 /\ Awaited(p)
    <3>1. PICK i \in 1..Len(queue) : Home[p] \in queue[i].spaces /\ queue[i].phase = cluster[p]
      BY <2>3 DEF Awaited
    <3>2. CASE i = 1
      <4>1. tally[p] = 0
        BY <1>6, <2>1, <2>3
      <4>2. p \in new
        BY <1>1, <2>1, <3>1, <3>2, <4>1 DEF new, New, Matching
      <4> QED
        BY <1>4, <2>1, <4>1, <4>2
    <3>3. CASE i > 1
      <4>1. i - 1 \in 1..Len(queue') /\ queue'[i - 1] = queue[i]
        BY <1>1, <3>3
      <4> QED
        BY <3>1, <4>1
    <3> QED
      BY <1>1, <3>2, <3>3
  <2> QED
    BY <1>1, <1>14, <2>2, <2>3 DEF Covered
<1>15. Covered'
  BY <1>14 DEF Covered, Awaited, List, Unfinished
<1> QED
  BY <1>1, <1>2, <1>12, <1>13, <1>15

LEMMA WorldFetch == ASSUME FetchInv, World PROVE FetchInv'
<1>1. PICK p \in Pods, phase \in {"none", "Pending", "Running", "Ended"} : Changes(p, phase)
  BY DEF World, Appears, Starts, Ends, Goes
<1>2. UNCHANGED fetch /\ settled' = settled \ {p}
      /\ cluster' = [cluster EXCEPT ![p] = phase] /\ present' \subseteq present
  BY <1>1 DEF Changes
<1>3. TypeOK' /\ CountedOnce'
  BY <1>2 DEF fetch, FetchInv, TypeOK, CountedOnce
<1>4. \A q \in (settled \cap Unfinished)' :
         q \in settled \cap Unfinished /\ cluster'[q] = cluster[q]
  BY <1>2 DEF FetchInv, TypeOK, Unfinished
<1>5. Covered'
  BY <1>2, <1>4 DEF fetch, FetchInv, Covered, Awaited
<1> QED
  BY <1>2, <1>3, <1>5 DEF fetch, FetchInv

LEMMA NextFetch == FetchInv /\ [Next]_vars => FetchInv'
<1> SUFFICES ASSUME FetchInv, [Next]_vars PROVE FetchInv'
  OBVIOUS
<1>1. CASE ListError
  <2>1. TypeOK' /\ queue' \in Seq(Query)
    BY <1>1 DEF ListError, FetchInv, TypeOK
  <2> QED
    BY <1>1, <2>1 DEF ListError, FetchInv, CountedOnce, Covered
<1>2. CASE UNCHANGED vars
  BY <1>2 DEF vars, FetchInv, TypeOK, CountedOnce, Covered, Awaited, Unfinished
<1> QED
  BY <1>1, <1>2, StartFetch, ListFetch, WorldFetch DEF Next

\* The fetch keeps its types, and a result is complete.
THEOREM FetchTypes == Spec => []TypeOK
<1>1. FetchInv => TypeOK
  BY DEF FetchInv
<1> QED
  BY <1>1, InitFetch, NextFetch, PTL DEF Spec

\* No pod is counted twice, whatever overlaps the namespaces of the flag have
\* and however pods are replaced meanwhile; the counts add up.
THEOREM FetchCountsOnce == Spec => []CountedOnce
<1>1. FetchInv => CountedOnce
  BY DEF FetchInv
<1> QED
  BY <1>1, InitFetch, NextFetch, PTL DEF Spec

\* A pod that stays as it is while the listings are made is counted.
THEOREM FetchCountsSettled == Spec => []SettledCounted
<1>1. FetchInv => SettledCounted
  BY DEF FetchInv, TypeOK, Covered, Awaited, SettledCounted
<1> QED
  BY <1>1, InitFetch, NextFetch, PTL DEF Spec
=============================================================================
