--------------------------- MODULE OptimizerProofs ---------------------------
(***************************************************************************)
(* Theorems about Optimizer, for any pods, price lists and callers: from   *)
(* the containers and the entries of the list to the plan.                 *)
(***************************************************************************)
EXTENDS Optimizer, BinPackProofs

-----------------------------------------------------------------------------
(* requirements.go and daemonset.go.                                       *)

IsSummed(k, seq, d) ==
    /\ k[0] = 0 /\ k[Len(seq)] = Summed(seq, d)
    /\ \A i \in 1..Len(seq) : k[i] = k[i-1] + seq[i][d]
HasSummed(seq, d) == \E k \in [0..Len(seq) -> Nat] : IsSummed(k, seq, d)

LEMMA SummedRuns ==
  ASSUME NEW seq \in Seq(Requests), NEW d \in Kinds
  PROVE  HasSummed(seq, d)
<1> DEFINE S == Requests
           A == Nat
           step == [ax \in A \X S |-> ax[1] + ax[2][d]]
           Body(g) == [s \in SUBSET DOMAIN seq |-> IF s = {} THEN 0
                          ELSE g[s \ {Max(s)}] + seq[Max(s)][d]]
           it == CHOOSE g : g = Body(g)
<1>0. \A a \in A, x \in S : a + x[d] \in A
  BY DEF Requests, Kinds
<1>1. step \in [A \X S -> A] /\ 0 \in A
  BY <1>0
<1>2. \A a \in A, x \in S : step[<<a, x>>] = a + x[d]
  OBVIOUS
<1>3. \A s \in SUBSET DOMAIN seq : s # {} => seq[Max(s)] \in S
  BY LastIn
<1>4. Summed(seq, d) = it[DOMAIN seq]
  BY DEF Summed, FoldLeft, MapThenFoldSet
<1> HIDE DEF S, A, step
<1>a. seq \in Seq(S)
  BY DEF S
<1>5. PICK g \in [SUBSET DOMAIN seq -> A] : IsRun(g, seq, S, A, 0, step)
  BY <1>a, <1>1, RunExists
<1>6. g = Body(g)
  BY <1>2, <1>5 DEF IsRun
<1>7. it = Body(it)
  <2> HIDE DEF Body
  <2> QED
    BY <1>6
<1> HIDE DEF it, Body
<1>8. Runs(it, seq, A, 0, step)
  BY <1>2, <1>3, <1>7 DEF Runs, Body
<1>9. PICK k \in [0..Len(seq) -> A] :
            IsTrace(k, seq, 0, step) /\ k[Len(seq)] = it[DOMAIN seq]
  <2>1. HasTrace(it, seq, A, 0, step)
    BY <1>a, <1>1, <1>8, RunSteps
  <2> QED
    BY <2>1 DEF HasTrace
<1>10. ASSUME NEW i \in 1..Len(seq) PROVE k[i] = k[i-1] + seq[i][d]
  <2>1. k[i-1] \in A /\ seq[i] \in S
    BY <1>a
  <2> QED
    BY <1>2, <1>9, <2>1 DEF IsTrace
<1> QED
  BY <1>4, <1>9, <1>10 DEF IsTrace, HasSummed, IsSummed, A

LEMMA SummedOf ==
  ASSUME NEW d \in Kinds
  PROVE  /\ \A seq \in Seq(Requests) : Summed(seq, d) \in Nat
         /\ \A r \in Requests : Summed(<<r>>, d) = r[d]
<1>1. ASSUME NEW seq \in Seq(Requests) PROVE Summed(seq, d) \in Nat
  <2>1. HasSummed(seq, d)
    BY SummedRuns
  <2>2. Len(seq) \in 0..Len(seq)
    OBVIOUS
  <2> QED
    BY <2>1, <2>2 DEF HasSummed, IsSummed
<1>2. ASSUME NEW r \in Requests PROVE Summed(<<r>>, d) = r[d]
  <2> DEFINE seq == <<r>>
  <2>1. seq \in Seq(Requests) /\ Len(seq) = 1 /\ seq[1] = r /\ r[d] \in Nat
    BY DEF Requests, Kinds
  <2> HIDE DEF seq
  <2>2. HasSummed(seq, d)
    BY <2>1, SummedRuns
  <2>3. PICK k \in [0..Len(seq) -> Nat] : IsSummed(k, seq, d)
    BY <2>2 DEF HasSummed
  <2>4. k[1] = k[1-1] + seq[1][d]
    BY <2>1, <2>3 DEF IsSummed
  <2>5. Summed(seq, d) = r[d]
    BY <2>1, <2>3, <2>4 DEF IsSummed
  <2> QED
    BY <2>5 DEF seq
<1> QED
  BY <1>1, <1>2

IsRaised(k, seq, least, d) ==
    /\ k[0] = least /\ k[Len(seq)] = RaisedBy(least, seq, d)
    /\ \A i \in 1..Len(seq) : k[i] = (IF seq[i][d] > k[i-1] THEN seq[i][d] ELSE k[i-1])
HasRaised(seq, least, d) == \E k \in [0..Len(seq) -> Nat] : IsRaised(k, seq, least, d)

LEMMA RaisedRuns ==
  ASSUME NEW seq \in Seq(Requests), NEW least \in Nat, NEW d \in Kinds
  PROVE  HasRaised(seq, least, d)
<1> DEFINE S == Requests
           A == Nat
           step == [ax \in A \X S |-> (IF ax[2][d] > ax[1] THEN ax[2][d] ELSE ax[1])]
           Body(g) == [s \in SUBSET DOMAIN seq |-> IF s = {} THEN least
                          ELSE (IF seq[Max(s)][d] > g[s \ {Max(s)}] THEN seq[Max(s)][d]
                                ELSE g[s \ {Max(s)}])]
           it == CHOOSE g : g = Body(g)
<1>0. \A a \in A, x \in S : (IF x[d] > a THEN x[d] ELSE a) \in A
  BY DEF Requests, Kinds
<1>1. step \in [A \X S -> A] /\ least \in A
  BY <1>0
<1>2. \A a \in A, x \in S : step[<<a, x>>] = (IF x[d] > a THEN x[d] ELSE a)
  OBVIOUS
<1>3. \A s \in SUBSET DOMAIN seq : s # {} => seq[Max(s)] \in S
  BY LastIn
<1>4. RaisedBy(least, seq, d) = it[DOMAIN seq]
  BY DEF RaisedBy, FoldLeft, MapThenFoldSet
<1> HIDE DEF S, A, step
<1>a. seq \in Seq(S)
  BY DEF S
<1>5. PICK g \in [SUBSET DOMAIN seq -> A] : IsRun(g, seq, S, A, least, step)
  BY <1>a, <1>1, RunExists
<1>6. g = Body(g)
  BY <1>2, <1>5 DEF IsRun
<1>7. it = Body(it)
  <2> HIDE DEF Body
  <2> QED
    BY <1>6
<1> HIDE DEF it, Body
<1>8. Runs(it, seq, A, least, step)
  BY <1>2, <1>3, <1>7 DEF Runs, Body
<1>9. PICK k \in [0..Len(seq) -> A] :
            IsTrace(k, seq, least, step) /\ k[Len(seq)] = it[DOMAIN seq]
  <2>1. HasTrace(it, seq, A, least, step)
    BY <1>a, <1>1, <1>8, RunSteps
  <2> QED
    BY <2>1 DEF HasTrace
<1>10. ASSUME NEW i \in 1..Len(seq)
       PROVE  k[i] = (IF seq[i][d] > k[i-1] THEN seq[i][d] ELSE k[i-1])
  <2>1. k[i-1] \in A /\ seq[i] \in S
    BY <1>a
  <2> QED
    BY <1>2, <1>9, <2>1 DEF IsTrace
<1> QED
  BY <1>4, <1>9, <1>10 DEF IsTrace, HasRaised, IsRaised, A

LEMMA RaisedOf ==
  ASSUME NEW seq \in Seq(Requests), NEW least \in Nat, NEW d \in Kinds
  PROVE  /\ RaisedBy(least, seq, d) \in Nat /\ RaisedBy(least, seq, d) >= least
         /\ \A r \in ToSet(seq) : RaisedBy(least, seq, d) >= r[d]
<1>1. HasRaised(seq, least, d)
  BY RaisedRuns
<1>2. PICK k \in [0..Len(seq) -> Nat] : IsRaised(k, seq, least, d)
  BY <1>1 DEF HasRaised
<1> DEFINE T == {i \in 0..Len(seq) : k[i] >= least /\ \A j \in 1..i : k[i] >= seq[j][d]}
<1>a. \A r \in Requests : r[d] \in Nat
  BY DEF Requests, Kinds
<1>3. /\ Len(seq) \in Nat /\ DOMAIN seq = 1..Len(seq)
      /\ \A i \in 1..Len(seq) : seq[i] \in Requests /\ seq[i][d] \in Nat
  BY <1>a
<1>4. 0 \in T
  BY <1>2, <1>3 DEF IsRaised
<1>5. ASSUME NEW i \in 1..Len(seq), i - 1 \in T PROVE i \in T
  <2>1. /\ k[i-1] \in Nat /\ k[i] \in Nat /\ k[i-1] >= least
        /\ \A j \in 1..(i-1) : k[i-1] >= seq[j][d]
    BY <1>3, <1>5
  <2>2. k[i] = IF seq[i][d] > k[i-1] THEN seq[i][d] ELSE k[i-1]
    BY <1>2 DEF IsRaised
  <2>3. k[i] >= k[i-1] /\ k[i] >= seq[i][d]
    BY <1>3, <2>1, <2>2
  <2>4. ASSUME NEW j \in 1..i PROVE k[i] >= seq[j][d]
    <3>1. j \in 1..Len(seq) /\ (j = i \/ j \in 1..(i-1))
      BY <1>3
    <3> QED
      BY <1>3, <2>1, <2>3, <3>1
  <2> QED
    BY <1>3, <2>1, <2>3, <2>4
<1>6. \A i \in 0..Len(seq) : i \in T
  <2> HIDE DEF T
  <2> QED
    BY <1>3, <1>4, <1>5, UpTo
<1>7. Len(seq) \in T
  <2>1. Len(seq) \in 0..Len(seq)
    BY <1>3
  <2> QED
    BY <1>6, <2>1
<1>8. k[Len(seq)] = RaisedBy(least, seq, d)
  BY <1>2 DEF IsRaised
<1>9. ASSUME NEW r \in ToSet(seq) PROVE k[Len(seq)] >= r[d]
  <2>1. PICK j \in 1..Len(seq) : r = seq[j]
    BY <1>3 DEF ToSet
  <2> QED
    BY <1>7, <2>1
<1>10. k[Len(seq)] \in Nat /\ k[Len(seq)] >= least
  BY <1>7
<1> QED
  BY <1>8, <1>9, <1>10

LEMMA NeedsOf ==
  ASSUME NEW s \in PodRecords, NEW d \in Kinds
  PROVE  /\ GetPodRequirements(s)[d] \in Nat
         /\ \A ph \in Phases(s) : /\ Summed(ph, d) \in Nat
                                  /\ d # "gpu" => Summed(ph, d) <= GetPodRequirements(s)[d]
<1>1. s.main \in Seq(Requests) /\ s.init \in Seq(Requests)
  BY DEF PodRecords
<1> DEFINE mains == Summed(s.main, d)
           all   == RaisedBy(mains, s.init, d)
<1>2. mains \in Nat
  BY <1>1, SummedOf
<1>3. /\ all \in Nat /\ all >= mains
      /\ \A r \in ToSet(s.init) : all >= r[d]
  BY <1>1, <1>2, RaisedOf
<1>4. GetPodRequirements(s)[d] = IF d = "gpu" THEN mains ELSE all
  BY DEF GetPodRequirements, Kinds
<1> HIDE DEF mains, all
<1>5. ASSUME NEW r \in ToSet(s.init)
      PROVE  Summed(<<r>>, d) = r[d] /\ r[d] \in Nat
  <2>1. r \in Requests
    BY <1>1 DEF ToSet
  <2> QED
    BY <2>1, SummedOf DEF Requests, Kinds
<1>6. ASSUME NEW ph \in Phases(s) PROVE Summed(ph, d) \in Nat /\ Summed(ph, d) <= all
  <2>1. CASE ph = s.main
    BY <1>2, <1>3, <2>1 DEF mains
  <2>2. CASE \E r \in ToSet(s.init) : ph = <<r>>
    BY <1>3, <1>5, <2>2
  <2> QED
    BY <2>1, <2>2 DEF Phases
<1> QED
  BY <1>2, <1>3, <1>4, <1>6

LEMMA PodOverheadNat ==
  ASSUME NEW ds \in PodRecords, NEW d \in Kinds
  PROVE  PodOverhead(ds, d) \in Nat
<1>1. ds.main \in Seq(Requests) /\ ds.init \in Seq(Requests)
  BY DEF PodRecords
<1>2. Summed(ds.main, d) \in Nat /\ RaisedBy(0, ds.init, d) \in Nat
  BY <1>1, SummedOf, RaisedOf
<1> QED
  BY <1>2 DEF PodOverhead

OverheadOf(sets, d) == FoldLeft(LAMBDA sum, ds : sum + PodOverhead(ds, d), 0, sets)
IsOverhead(k, seq, d) ==
    /\ k[0] = 0 /\ k[Len(seq)] = OverheadOf(seq, d)
    /\ \A i \in 1..Len(seq) : k[i] = k[i-1] + PodOverhead(seq[i], d)
HasOverhead(seq, d) == \E k \in [0..Len(seq) -> Nat] : IsOverhead(k, seq, d)

LEMMA OverheadRuns ==
  ASSUME NEW seq \in Seq(PodRecords), NEW d \in Kinds
  PROVE  HasOverhead(seq, d)
<1> DEFINE S == PodRecords
           A == Nat
           step == [ax \in A \X S |-> ax[1] + PodOverhead(ax[2], d)]
           Body(g) == [s \in SUBSET DOMAIN seq |-> IF s = {} THEN 0
                          ELSE g[s \ {Max(s)}] + PodOverhead(seq[Max(s)], d)]
           it == CHOOSE g : g = Body(g)
<1>0. \A a \in A, x \in S : a + PodOverhead(x, d) \in A
  BY PodOverheadNat
<1>1. step \in [A \X S -> A] /\ 0 \in A
  BY <1>0
<1>2. \A a \in A, x \in S : step[<<a, x>>] = a + PodOverhead(x, d)
  OBVIOUS
<1>3. \A s \in SUBSET DOMAIN seq : s # {} => seq[Max(s)] \in S
  BY LastIn
<1>4. OverheadOf(seq, d) = it[DOMAIN seq]
  BY DEF OverheadOf, FoldLeft, MapThenFoldSet
<1> HIDE DEF S, A, step
<1>a. seq \in Seq(S)
  BY DEF S
<1>5. PICK g \in [SUBSET DOMAIN seq -> A] : IsRun(g, seq, S, A, 0, step)
  BY <1>a, <1>1, RunExists
<1>6. g = Body(g)
  BY <1>2, <1>5 DEF IsRun
<1>7. it = Body(it)
  <2> HIDE DEF Body
  <2> QED
    BY <1>6
<1> HIDE DEF it, Body
<1>8. Runs(it, seq, A, 0, step)
  BY <1>2, <1>3, <1>7 DEF Runs, Body
<1>9. PICK k \in [0..Len(seq) -> A] :
            IsTrace(k, seq, 0, step) /\ k[Len(seq)] = it[DOMAIN seq]
  <2>1. HasTrace(it, seq, A, 0, step)
    BY <1>a, <1>1, <1>8, RunSteps
  <2> QED
    BY <2>1 DEF HasTrace
<1>10. ASSUME NEW i \in 1..Len(seq) PROVE k[i] = k[i-1] + PodOverhead(seq[i], d)
  <2>1. k[i-1] \in A /\ seq[i] \in S
    BY <1>a
  <2> QED
    BY <1>2, <1>9, <2>1 DEF IsTrace
<1> QED
  BY <1>4, <1>9, <1>10 DEF IsTrace, HasOverhead, IsOverhead, A

LEMMA DaemonSetsNat ==
  ASSUME NEW sets \in Seq(PodRecords)
  PROVE  /\ GetDaemonSetOverhead(sets)["cpu"] \in Nat
         /\ GetDaemonSetOverhead(sets)["mem"] \in Nat
<1>1. ASSUME NEW d \in Kinds PROVE OverheadOf(sets, d) \in Nat
  <2>1. HasOverhead(sets, d)
    BY OverheadRuns
  <2>2. Len(sets) \in 0..Len(sets)
    OBVIOUS
  <2> QED
    BY <2>1, <2>2 DEF HasOverhead, IsOverhead
<1>2. /\ GetDaemonSetOverhead(sets)["cpu"] = OverheadOf(sets, "cpu")
      /\ GetDaemonSetOverhead(sets)["mem"] = OverheadOf(sets, "mem")
  BY DEF GetDaemonSetOverhead, OverheadOf
<1> QED
  BY <1>1, <1>2 DEF Kinds

\* The overhead of a DaemonSet is enough for each phase of its pod.
LEMMA OverheadOfPhase ==
  ASSUME NEW ds \in PodRecords, NEW d \in {"cpu", "mem"}, NEW ph \in Phases(ds)
  PROVE  Summed(ph, d) \in Nat /\ Summed(ph, d) <= PodOverhead(ds, d)
<1>0. d \in Kinds
  BY DEF Kinds
<1>1. ds.main \in Seq(Requests) /\ ds.init \in Seq(Requests)
  BY DEF PodRecords
<1> DEFINE mains == Summed(ds.main, d)
           inits == RaisedBy(0, ds.init, d)
<1>2. mains \in Nat
  BY <1>0, <1>1, SummedOf
<1>3. inits \in Nat /\ \A r \in ToSet(ds.init) : inits >= r[d]
  BY <1>0, <1>1, RaisedOf
<1>4. PodOverhead(ds, d) = IF inits > mains THEN inits ELSE mains
  BY DEF PodOverhead
<1> HIDE DEF inits
<1>5. CASE ph = ds.main
  <2>1. Summed(ph, d) = mains
    BY <1>5
  <2> HIDE DEF mains
  <2> QED
    BY <1>2, <1>3, <1>4, <2>1
<1>6. CASE \E r \in ToSet(ds.init) : ph = <<r>>
  <2>1. PICK r \in ToSet(ds.init) : ph = <<r>>
    BY <1>6
  <2>2. r \in Requests
    BY <1>1 DEF ToSet
  <2>3. Summed(ph, d) = r[d] /\ r[d] \in Nat
    BY <1>0, <2>1, <2>2, SummedOf DEF Requests, Kinds
  <2>4. inits >= r[d]
    BY <1>3, <2>1
  <2> HIDE DEF mains
  <2> QED
    BY <1>2, <1>3, <1>4, <2>3, <2>4
<1> QED
  BY <1>5, <1>6 DEF Phases

LEMMA SumTop ==
  ASSUME NEW n \in Nat, NEW i \in 1..n, NEW g, \A x \in 1..n : g[x] \in Nat
  PROVE  Sum(g, (1..(i-1)) \cup {i}) = g[i] + Sum(g, 1..(i-1))
<1> DEFINE D == 1..n
           U == 1..(i-1)
<1>1. IsFiniteSet(D)
  BY FS_Interval
<1>2. i \in D /\ U \in SUBSET D /\ i \notin U
  OBVIOUS
<1>3. \A x \in D : g[x] \in Nat
  OBVIOUS
<1>4. ASSUME NEW A, IsFiniteSet(A), NEW e \in A, NEW B \in SUBSET A, e \notin B,
             \A x \in A : g[x] \in Nat
      PROVE  Sum(g, B \cup {e}) = g[e] + Sum(g, B)
  BY <1>4, SumAdds
<1> HIDE DEF D, U
<1>5. Sum(g, U \cup {i}) = g[i] + Sum(g, U)
  BY <1>1, <1>2, <1>3, <1>4
<1> QED
  BY <1>5 DEF U

\* Numbers below the overheads of the DaemonSets, in total.
LEMMA OverheadCovers ==
  ASSUME NEW sets \in Seq(PodRecords), NEW d \in Kinds, NEW f,
         \A i \in DOMAIN sets : f[i] \in Nat /\ f[i] <= PodOverhead(sets[i], d)
  PROVE  Sum(f, DOMAIN sets) \in Nat /\ Sum(f, DOMAIN sets) <= OverheadOf(sets, d)
<1> DEFINE n == Len(sets)
<1>1. n \in Nat /\ DOMAIN sets = 1..n /\ IsFiniteSet(1..n)
  BY FS_Interval
<1>2. HasOverhead(sets, d)
  BY OverheadRuns
<1>3. PICK k \in [0..n -> Nat] : IsOverhead(k, sets, d)
  BY <1>2 DEF HasOverhead
<1>4. \A i \in 1..n : /\ f[i] \in Nat /\ PodOverhead(sets[i], d) \in Nat
                       /\ f[i] <= PodOverhead(sets[i], d)
                       /\ k[i] = k[i-1] + PodOverhead(sets[i], d)
  <2> TAKE i \in 1..n
  <2>1. sets[i] \in PodRecords
    BY <1>1
  <2> QED
    BY <1>1, <1>3, <2>1, PodOverheadNat DEF IsOverhead
<1>5. k[0] = 0 /\ k[n] = OverheadOf(sets, d)
  BY <1>3 DEF IsOverhead
<1> DEFINE Below(i) == Sum(f, 1..i) \in Nat /\ Sum(f, 1..i) <= k[i]
           T == {i \in 0..n : Below(i)}
<1>6. DOMAIN sets = 1..n
  BY <1>1
<1> HIDE DEF n
<1>7. Below(0)
  <2>1. 1..0 = {} /\ IsFiniteSet({})
    BY FS_EmptySet
  <2>2. Sum(f, {}) = 0
    BY <2>1, SumUnfolds
  <2> QED
    BY <1>5, <2>1, <2>2
<1>8. ASSUME NEW i \in 1..n, Below(i - 1) PROVE Below(i)
  <2>1. /\ 1..i = (1..(i-1)) \cup {i} /\ i \notin 1..(i-1) /\ 1..(i-1) \in SUBSET (1..n)
        /\ i - 1 \in 0..n
    BY <1>1
  <2>2. Sum(f, (1..(i-1)) \cup {i}) = f[i] + Sum(f, 1..(i-1))
    BY <1>1, <1>4, <2>1, SumTop
  <2>3. /\ f[i] \in Nat /\ PodOverhead(sets[i], d) \in Nat
        /\ f[i] <= PodOverhead(sets[i], d)
        /\ k[i] = k[i-1] + PodOverhead(sets[i], d)
    BY <1>4
  <2>4. k[i-1] \in Nat
    BY <1>3, <2>1
  <2>5. Sum(f, 1..i) = f[i] + Sum(f, 1..(i-1))
    BY <2>1, <2>2
  <2>6. Sum(f, 1..(i-1)) \in Nat /\ Sum(f, 1..(i-1)) <= k[i-1]
    BY <1>8
  <2> QED
    BY <2>3, <2>4, <2>5, <2>6
<1> HIDE DEF Below
<1>9. 0 \in T
  BY <1>1, <1>7
<1>10. ASSUME NEW i \in 1..n, i - 1 \in T PROVE i \in T
  BY <1>1, <1>8, <1>10
<1>11. \A i \in 0..n : i \in T
  <2> HIDE DEF T
  <2> QED
    BY <1>1, <1>9, <1>10, UpTo
<1>12. Below(n)
  <2>1. n \in 0..n
    BY <1>1
  <2> QED
    BY <1>11, <2>1
<1> QED
  BY <1>5, <1>6, <1>12 DEF Below

-----------------------------------------------------------------------------
(* What a packing costs, and buildNodePoolPlan.                            *)

LEMMA PricesOf ==
  ASSUME InputOK, NEW n \in PlannedNodes
  PROVE  price[n.type] \in Nat \ {0}
  BY DEF InputOK, PlannedNodes

IsTotal(k, seq) ==
    /\ k[0] = 0 /\ k[Len(seq)] = Total(seq)
    /\ \A i \in 1..Len(seq) : k[i] = k[i-1] + price[seq[i].type]
HasTotal(seq) == \E k \in [0..Len(seq) -> Nat] : IsTotal(k, seq)

LEMMA TotalRuns ==
  ASSUME NEW seq \in Seq(PlannedNodes), InputOK
  PROVE  HasTotal(seq)
<1> DEFINE S == PlannedNodes
           A == Nat
           step == [ax \in A \X S |-> ax[1] + price[ax[2].type]]
           Body(g) == [s \in SUBSET DOMAIN seq |-> IF s = {} THEN 0
                          ELSE g[s \ {Max(s)}] + price[seq[Max(s)].type]]
           it == CHOOSE g : g = Body(g)
<1>0. \A a \in A, x \in S : a + price[x.type] \in A
  BY PricesOf
<1>1. step \in [A \X S -> A] /\ 0 \in A
  BY <1>0
<1>2. \A a \in A, x \in S : step[<<a, x>>] = a + price[x.type]
  OBVIOUS
<1>3. \A s \in SUBSET DOMAIN seq : s # {} => seq[Max(s)] \in S
  BY LastIn
<1>4. Total(seq) = it[DOMAIN seq]
  BY DEF Total, FoldLeft, MapThenFoldSet
<1> HIDE DEF S, A, step
<1>a. seq \in Seq(S)
  BY DEF S
<1>5. PICK g \in [SUBSET DOMAIN seq -> A] : IsRun(g, seq, S, A, 0, step)
  BY <1>a, <1>1, RunExists
<1>6. g = Body(g)
  BY <1>2, <1>5 DEF IsRun
<1>7. it = Body(it)
  <2> HIDE DEF Body
  <2> QED
    BY <1>6
<1> HIDE DEF it, Body
<1>8. Runs(it, seq, A, 0, step)
  BY <1>2, <1>3, <1>7 DEF Runs, Body
<1>9. PICK k \in [0..Len(seq) -> A] :
            IsTrace(k, seq, 0, step) /\ k[Len(seq)] = it[DOMAIN seq]
  <2>1. HasTrace(it, seq, A, 0, step)
    BY <1>a, <1>1, <1>8, RunSteps
  <2> QED
    BY <2>1 DEF HasTrace
<1>10. ASSUME NEW i \in 1..Len(seq) PROVE k[i] = k[i-1] + price[seq[i].type]
  <2>1. k[i-1] \in A /\ seq[i] \in S
    BY <1>a
  <2> QED
    BY <1>2, <1>9, <2>1 DEF IsTrace
<1> QED
  BY <1>4, <1>9, <1>10 DEF IsTrace, HasTotal, IsTotal, A

LEMMA TotalNat ==
  ASSUME InputOK, NEW nodes \in Seq(PlannedNodes)
  PROVE  Total(nodes) \in Nat
<1>1. HasTotal(nodes)
  BY TotalRuns
<1>2. Len(nodes) \in 0..Len(nodes)
  OBVIOUS
<1> QED
  BY <1>1, <1>2 DEF HasTotal, IsTotal

LEMMA TotalOfNone == InputOK => Total(<<>>) = 0
<1> SUFFICES ASSUME InputOK PROVE Total(<<>>) = 0
  OBVIOUS
<1> DEFINE seq == <<>>
<1>1. seq \in Seq(PlannedNodes) /\ Len(seq) = 0
  OBVIOUS
<1> HIDE DEF seq
<1>2. HasTotal(seq)
  BY <1>1, TotalRuns
<1>3. Total(seq) = 0
  BY <1>1, <1>2 DEF HasTotal, IsTotal
<1> QED
  BY <1>3 DEF seq

LEMMA BidsRoundUp ==
  ASSUME NEW x \in Nat \ {0}
  PROVE  LET b == Market!RoundBidPrice(x)
         IN  b \in Nat /\ b % 5 = 0 /\ x <= b /\ b <= x + 5
<1> DEFINE q == (x + 4) \div 5
<1>1. \/ Market!RoundBidPrice(x) = q * 5
      \/ Market!RoundBidPrice(x) = q * 5 + 5 /\ q * 5 = x
  BY DEF Market!RoundBidPrice, Market!Step5
<1>2. q \in Nat /\ 5 * q <= x + 4 /\ x + 4 < 5 * q + 5
  OBVIOUS
<1> HIDE DEF q
<1>3. (q * 5) % 5 = 0 /\ (q * 5 + 5) % 5 = 0
  BY <1>2
<1> QED
  BY <1>1, <1>2, <1>3

Pools == [count : Nat, bid : Nat]

LEMMA PlannedNodeOf ==
  ASSUME InputOK, Offered \subseteq Types, NEW pl \in [Classes -> Pools],
         NEW n \in PlannedNodes
  PROVE  /\ PlannedNode(pl, n) \in [Classes -> Pools] /\ n.type[2] \in Classes
         /\ \A c \in Classes \ {n.type[2]} : PlannedNode(pl, n)[c] = pl[c]
         /\ PlannedNode(pl, n)[n.type[2]].count = pl[n.type[2]].count + 1
         /\ PlannedNode(pl, n)[n.type[2]].bid =
               IF price[n.type] > pl[n.type[2]].bid
               THEN Market!RoundBidPrice(price[n.type]) ELSE pl[n.type[2]].bid
<1>1. n.type \in Types
  BY DEF PlannedNodes
<1> DEFINE c == n.type[2]
           new == [count |-> pl[c].count + 1,
                   bid   |-> IF price[n.type] > pl[c].bid
                             THEN Market!RoundBidPrice(price[n.type]) ELSE pl[c].bid]
<1>2. c \in Classes
  BY <1>1 DEF Classes
<1>3. Market!RoundBidPrice(price[n.type]) \in Nat
  BY PricesOf, BidsRoundUp
<1>4. pl[c] \in Pools
  BY <1>2
<1> HIDE DEF c
<1>5. new \in Pools
  BY <1>3, <1>4 DEF Pools
<1>6. PlannedNode(pl, n) = [pl EXCEPT ![c] = new]
  BY <1>2 DEF PlannedNode, c
<1>7. /\ new.count = pl[c].count + 1
      /\ new.bid = IF price[n.type] > pl[c].bid
                   THEN Market!RoundBidPrice(price[n.type]) ELSE pl[c].bid
  OBVIOUS
<1> HIDE DEF new
<1>8. /\ PlannedNode(pl, n) \in [Classes -> Pools] /\ PlannedNode(pl, n)[c] = new
      /\ \A k \in Classes \ {c} : PlannedNode(pl, n)[k] = pl[k]
  BY <1>2, <1>5, <1>6
<1> QED
  BY <1>2, <1>7, <1>8 DEF c

IsPlanned(k, seq) ==
    /\ k[0] = NoPlan /\ k[Len(seq)] = BuildNodePoolPlan(seq)
    /\ \A i \in 1..Len(seq) : k[i] = PlannedNode(k[i-1], seq[i])
HasPlanned(seq) == \E k \in [0..Len(seq) -> [Classes -> Pools]] : IsPlanned(k, seq)

LEMMA PlannedRuns ==
  ASSUME NEW seq \in Seq(PlannedNodes), InputOK, Offered \subseteq Types
  PROVE  HasPlanned(seq)
<1> DEFINE S == PlannedNodes
           A == [Classes -> Pools]
           step == [ax \in A \X S |-> PlannedNode(ax[1], ax[2])]
           Body(g) == [s \in SUBSET DOMAIN seq |-> IF s = {} THEN NoPlan
                          ELSE PlannedNode(g[s \ {Max(s)}], seq[Max(s)])]
           it == CHOOSE g : g = Body(g)
<1>0. \A a \in A, x \in S : PlannedNode(a, x) \in A
  BY PlannedNodeOf
<1>1. step \in [A \X S -> A] /\ NoPlan \in A
  BY <1>0 DEF NoPlan, Unused, Pools
<1>2. \A a \in A, x \in S : step[<<a, x>>] = PlannedNode(a, x)
  OBVIOUS
<1>3. \A s \in SUBSET DOMAIN seq : s # {} => seq[Max(s)] \in S
  BY LastIn
<1>4. BuildNodePoolPlan(seq) = it[DOMAIN seq]
  BY DEF BuildNodePoolPlan, FoldLeft, MapThenFoldSet
<1> HIDE DEF S, A, step
<1>a. seq \in Seq(S)
  BY DEF S
<1>5. PICK g \in [SUBSET DOMAIN seq -> A] : IsRun(g, seq, S, A, NoPlan, step)
  BY <1>a, <1>1, RunExists
<1>6. g = Body(g)
  BY <1>2, <1>5 DEF IsRun
<1>7. it = Body(it)
  <2> HIDE DEF Body
  <2> QED
    BY <1>6
<1> HIDE DEF it, Body
<1>8. Runs(it, seq, A, NoPlan, step)
  BY <1>2, <1>3, <1>7 DEF Runs, Body
<1>9. PICK k \in [0..Len(seq) -> A] :
            IsTrace(k, seq, NoPlan, step) /\ k[Len(seq)] = it[DOMAIN seq]
  <2>1. HasTrace(it, seq, A, NoPlan, step)
    BY <1>a, <1>1, <1>8, RunSteps
  <2> QED
    BY <2>1 DEF HasTrace
<1>10. ASSUME NEW i \in 1..Len(seq) PROVE k[i] = PlannedNode(k[i-1], seq[i])
  <2>1. k[i-1] \in A /\ seq[i] \in S
    BY <1>a
  <2> QED
    BY <1>2, <1>9, <2>1 DEF IsTrace
<1> QED
  BY <1>4, <1>9, <1>10 DEF IsTrace, HasPlanned, IsPlanned, A

\* What the plan says of a class after the first nodes of the packing.
Mine(nodes, c, i) == {j \in 1..i : nodes[j].type[2] = c}
PlannedFor(pool, nodes, J) ==
    /\ pool.count = Cardinality(J)
    /\ J = {} => pool.bid = 0
    /\ J # {} => /\ pool.bid % 5 = 0
                 /\ \A j \in J : price[nodes[j].type] <= pool.bid
                 /\ \E j \in J : pool.bid <= price[nodes[j].type] + 5

LEMMA PlanGrows ==
  ASSUME InputOK, Offered \subseteq Types, NEW nodes \in Seq(PlannedNodes),
         NEW i \in 1..Len(nodes), NEW pl \in [Classes -> Pools],
         \A c \in Classes : PlannedFor(pl[c], nodes, Mine(nodes, c, i - 1))
  PROVE  \A c \in Classes : PlannedFor(PlannedNode(pl, nodes[i])[c], nodes, Mine(nodes, c, i))
<1> DEFINE n == nodes[i]
           k == n.type[2]
           new == PlannedNode(pl, n)
<1>1. n \in PlannedNodes /\ i \in Nat \ {0} /\ price[n.type] \in Nat \ {0}
  BY PricesOf
<1>2. /\ new \in [Classes -> Pools] /\ k \in Classes
      /\ \A c \in Classes \ {k} : new[c] = pl[c]
      /\ new[k].count = pl[k].count + 1
      /\ new[k].bid = IF price[n.type] > pl[k].bid
                      THEN Market!RoundBidPrice(price[n.type]) ELSE pl[k].bid
  BY <1>1, PlannedNodeOf
<1>3. 1..i = (1..(i-1)) \cup {i} /\ i \notin 1..(i-1)
  BY <1>1
<1>4. ASSUME NEW c \in Classes \ {k}
      PROVE  PlannedFor(new[c], nodes, Mine(nodes, c, i))
  <2>1. Mine(nodes, c, i) = Mine(nodes, c, i - 1)
    BY <1>3 DEF Mine
  <2> HIDE DEF new, k
  <2> QED
    BY <1>2, <2>1
<1> DEFINE J == Mine(nodes, k, i - 1)
           M == Mine(nodes, k, i)
           b == Market!RoundBidPrice(price[n.type])
<1>5. M = J \cup {i} /\ i \notin J
  BY <1>3 DEF Mine
<1>6. IsFiniteSet(J) /\ Cardinality(J) \in Nat
  <2>1. IsFiniteSet(1..(i-1))
    BY <1>1, FS_Interval
  <2>2. J \subseteq 1..(i-1)
    BY DEF Mine
  <2> QED
    BY <2>1, <2>2, FS_Subset, FS_CardinalityType
<1>7. Cardinality(M) = Cardinality(J) + 1
  BY <1>5, <1>6, FS_AddElement
<1>8. PlannedFor(pl[k], nodes, J)
  BY <1>2
<1>9. b \in Nat /\ b % 5 = 0 /\ price[n.type] <= b /\ b <= price[n.type] + 5
  BY <1>1, BidsRoundUp
<1>10. pl[k].bid \in Nat /\ pl[k].count \in Nat
  BY <1>2 DEF Pools
<1>11. \A j \in J : price[nodes[j].type] \in Nat \ {0}
  <2> TAKE j \in J
  <2>1. j \in 1..Len(nodes)
    BY <1>1 DEF Mine
  <2>2. nodes[j] \in PlannedNodes
    BY <2>1
  <2> QED
    BY <2>2, PricesOf
<1> DEFINE p == price[n.type]
           Paid(j) == price[nodes[j].type]
<1>12. Paid(i) = p
  OBVIOUS
<1> HIDE DEF J, M, b, new, k, p, Paid
<1>13. new[k].count = Cardinality(M) /\ M # {}
  BY <1>2, <1>5, <1>7, <1>8 DEF PlannedFor
<1>14. ASSUME p > pl[k].bid PROVE PlannedFor(new[k], nodes, M)
  <2>1. new[k].bid = b
    BY <1>2, <1>14 DEF p, b
  <2>2. b \in Nat /\ b % 5 = 0 /\ p <= b /\ b <= p + 5 /\ p \in Nat
    BY <1>1, <1>9 DEF p
  <2>3. \A j \in J : Paid(j) <= b
    <3> TAKE j \in J
    <3>1. Paid(j) \in Nat /\ Paid(j) <= pl[k].bid
      BY <1>8, <1>11 DEF PlannedFor, Paid
    <3> QED
      BY <1>10, <1>14, <2>2, <3>1
  <2>4. \A j \in M : Paid(j) <= b
    BY <1>5, <1>12, <2>2, <2>3
  <2>5. \E j \in M : b <= Paid(j) + 5
    BY <1>5, <1>12, <2>2
  <2> QED
    BY <1>13, <2>1, <2>2, <2>4, <2>5 DEF PlannedFor, Paid
<1>15. ASSUME ~(p > pl[k].bid) PROVE PlannedFor(new[k], nodes, M)
  <2>1. new[k].bid = pl[k].bid /\ p \in Nat \ {0} /\ p <= pl[k].bid
    BY <1>1, <1>2, <1>10, <1>15 DEF p
  <2>2. J # {}
    BY <1>8, <2>1 DEF PlannedFor
  <2>3. /\ pl[k].bid % 5 = 0
        /\ \A j \in J : Paid(j) <= pl[k].bid
        /\ \E j \in J : pl[k].bid <= Paid(j) + 5
    BY <1>8, <2>2 DEF PlannedFor, Paid
  <2>4. /\ \A j \in M : Paid(j) <= pl[k].bid
        /\ \E j \in M : pl[k].bid <= Paid(j) + 5
    BY <1>5, <1>12, <2>1, <2>3
  <2> QED
    BY <1>13, <2>1, <2>3, <2>4 DEF PlannedFor, Paid
<1>16. PlannedFor(new[k], nodes, M)
  BY <1>14, <1>15
<1> QED
  BY <1>4, <1>16 DEF new, M, k

LEMMA PlanCovers ==
  ASSUME InputOK, Offered \subseteq Types, NEW nodes \in Seq(PlannedNodes)
  PROVE  \A c \in Classes :
            PlannedFor(BuildNodePoolPlan(nodes)[c], nodes, Mine(nodes, c, Len(nodes)))
<1>1. HasPlanned(nodes)
  BY PlannedRuns
<1>2. PICK k \in [0..Len(nodes) -> [Classes -> Pools]] : IsPlanned(k, nodes)
  BY <1>1 DEF HasPlanned
<1> DEFINE Right(i) == \A c \in Classes : PlannedFor(k[i][c], nodes, Mine(nodes, c, i))
           T == {i \in 0..Len(nodes) : Right(i)}
<1>3. Len(nodes) \in Nat
  OBVIOUS
<1>4. Right(0)
  <2>1. \A c : Mine(nodes, c, 0) = {}
    BY DEF Mine
  <2>2. Cardinality({}) = 0
    BY FS_EmptySet
  <2>3. \A c \in Classes : k[0][c].count = 0 /\ k[0][c].bid = 0
    BY <1>2 DEF IsPlanned, NoPlan, Unused
  <2> QED
    BY <2>1, <2>2, <2>3 DEF PlannedFor
<1>5. ASSUME NEW i \in 1..Len(nodes), Right(i - 1) PROVE Right(i)
  <2>1. k[i] = PlannedNode(k[i-1], nodes[i]) /\ i - 1 \in 0..Len(nodes)
    BY <1>2, <1>3 DEF IsPlanned
  <2>2. k[i-1] \in [Classes -> Pools]
    BY <2>1
  <2> QED
    BY <1>5, <2>1, <2>2, PlanGrows
<1> HIDE DEF Right
<1>6. 0 \in T
  BY <1>3, <1>4
<1>7. ASSUME NEW i \in 1..Len(nodes), i - 1 \in T PROVE i \in T
  BY <1>3, <1>5, <1>7
<1>8. \A i \in 0..Len(nodes) : i \in T
  <2> HIDE DEF T
  <2> QED
    BY <1>3, <1>6, <1>7, UpTo
<1>9. Right(Len(nodes))
  <2>1. Len(nodes) \in 0..Len(nodes)
    BY <1>3
  <2> QED
    BY <1>8, <2>1
<1> QED
  BY <1>2, <1>9 DEF Right, IsPlanned

-----------------------------------------------------------------------------
(* CanFit and CanFitMultiple.                                              *)

LEMMA AskedGrows ==
  ASSUME InputOK, NEW P \in SUBSET Wanted, NEW p \in Wanted \ P, NEW d \in Kinds
  PROVE  Asked(P \cup {p}, d) = need[p][d] + Asked(P, d)
<1>1. IsFiniteSet(Wanted) /\ \A q \in Wanted : need[q][d] \in Nat
  BY DEF InputOK, Kinds
<1>2. P \cup {p} \in SUBSET Wanted /\ IsFiniteSet(P) /\ IsFiniteSet(P \cup {p})
  BY <1>1, FS_Subset
<1>3. Asked(P, d) = Sum(NeedOf(d), P) /\ Asked(P \cup {p}, d) = Sum(NeedOf(d), P \cup {p})
  BY <1>1, <1>2, AskedSum
<1>4. \A q \in Wanted : NeedOf(d)[q] \in Nat /\ NeedOf(d)[q] = need[q][d]
  BY <1>1 DEF NeedOf
<1>5. Sum(NeedOf(d), P \cup {p}) = NeedOf(d)[p] + Sum(NeedOf(d), P)
  BY <1>1, <1>4, SumAdds
<1> QED
  BY <1>3, <1>4, <1>5

LEMMA AskedNone ==
  ASSUME InputOK, NEW d \in Kinds
  PROVE  Asked({}, d) = 0
<1>1. \A q \in Wanted : need[q][d] \in Nat
  BY DEF InputOK, Kinds
<1>2. {} \in SUBSET Wanted /\ IsFiniteSet({})
  BY FS_EmptySet
<1>3. Asked({}, d) = Sum(NeedOf(d), {})
  BY <1>1, <1>2, AskedSum
<1>4. Sum(NeedOf(d), {}) = 0
  BY <1>2, SumUnfolds
<1> QED
  BY <1>3, <1>4

\* On a node without DaemonSet pods, CanFit asks what fitPodsToNode asks.
LEMMA FitsAgree ==
  ASSUME InputOK, overhead = NoOverhead, NEW t \in Offered, NEW taken,
         ToSet(taken) \subseteq Wanted, NEW p \in Wanted \ ToSet(taken),
         NEW node, \A d \in Kinds : node[d] = cap[t][d] - Asked(ToSet(taken), d),
         node["gpu"] >= 0
  PROVE  HasRoom(taken, p, t) <=> CanFit(node, need[p])
<1> DEFINE P == ToSet(taken)
<1>1. \A d \in Kinds : /\ Asked(P, d) \in Nat /\ need[p][d] \in Nat /\ cap[t][d] \in Nat
                       /\ Asked(P \cup {p}, d) = need[p][d] + Asked(P, d)
  <2> TAKE d \in Kinds
  <2>1. Asked(P, d) \in Nat
    BY AskedNat
  <2>2. Asked(P \cup {p}, d) = need[p][d] + Asked(P, d)
    BY AskedGrows
  <2>3. need[p][d] \in Nat /\ cap[t][d] \in Nat
    BY DEF InputOK, Kinds
  <2> QED
    BY <2>1, <2>2, <2>3
<1>2. \A d \in Kinds : Room(t, d) = cap[t][d]
  BY <1>1 DEF Room, NoOverhead, Kinds
<1>3. ASSUME NEW d \in Kinds
      PROVE  Asked(P \cup {p}, d) <= Room(t, d) <=> node[d] >= need[p][d]
  <2>1. /\ Asked(P, d) \in Nat /\ need[p][d] \in Nat /\ cap[t][d] \in Nat
        /\ Asked(P \cup {p}, d) = need[p][d] + Asked(P, d)
        /\ Room(t, d) = cap[t][d] /\ node[d] = cap[t][d] - Asked(P, d)
    BY <1>1, <1>2
  <2> QED
    BY <2>1
<1>4. HasRoom(taken, p, t) <=> \A d \in Kinds : node[d] >= need[p][d]
  BY <1>3 DEF HasRoom, Kinds
<1>5. CanFit(node, need[p]) <=> \A d \in Kinds : node[d] >= need[p][d]
  <2>1. need[p]["gpu"] = 0 => node["gpu"] >= need[p]["gpu"]
    OBVIOUS
  <2> QED
    BY <2>1 DEF CanFit, Kinds
<1> QED
  BY <1>4, <1>5

\* One step of CanFitMultiple, and all of them.
Leftover == [cpu : Int, mem : Int, gpu : Int]
Counts   == [left : Leftover, count : Nat]
Counting(a, r) == IF CanFit(a.left, r)
                  THEN [left |-> Less(a.left, r), count |-> a.count + 1] ELSE a
CountOf(reqs, node) ==
    FoldLeft(LAMBDA t, r : IF CanFit(t.left, r)
                           THEN [left |-> Less(t.left, r), count |-> t.count + 1]
                           ELSE t,
             [left |-> node, count |-> 0], reqs)

IsCounted(k, seq, node) ==
    /\ k[0] = [left |-> node, count |-> 0] /\ k[Len(seq)] = CountOf(seq, node)
    /\ \A i \in 1..Len(seq) : k[i] = Counting(k[i-1], seq[i])
HasCounted(seq, node) == \E k \in [0..Len(seq) -> Counts] : IsCounted(k, seq, node)

LEMMA CountedRuns ==
  ASSUME NEW seq \in Seq(Requests), NEW node \in Leftover
  PROVE  HasCounted(seq, node)
<1> DEFINE S == Requests
           A == Counts
           step == [ax \in A \X S |-> Counting(ax[1], ax[2])]
           Body(g) == [s \in SUBSET DOMAIN seq |-> IF s = {} THEN [left |-> node, count |-> 0]
                          ELSE Counting(g[s \ {Max(s)}], seq[Max(s)])]
           it == CHOOSE g : g = Body(g)
<1>0. \A a \in A, x \in S : Counting(a, x) \in A
  BY DEF Counts, Leftover, Requests, Counting, Less
<1>1. step \in [A \X S -> A] /\ [left |-> node, count |-> 0] \in A
  BY <1>0 DEF Counts
<1>2. \A a \in A, x \in S : step[<<a, x>>] = Counting(a, x)
  OBVIOUS
<1>3. \A s \in SUBSET DOMAIN seq : s # {} => seq[Max(s)] \in S
  BY LastIn
<1>4. CountOf(seq, node) = it[DOMAIN seq]
  BY DEF CountOf, Counting, FoldLeft, MapThenFoldSet
<1> HIDE DEF S, A, step
<1>a. seq \in Seq(S)
  BY DEF S
<1>5. PICK g \in [SUBSET DOMAIN seq -> A] :
            IsRun(g, seq, S, A, [left |-> node, count |-> 0], step)
  BY <1>a, <1>1, RunExists
<1>6. g = Body(g)
  BY <1>2, <1>5 DEF IsRun
<1>7. it = Body(it)
  <2> HIDE DEF Body
  <2> QED
    BY <1>6
<1> HIDE DEF it, Body
<1>8. Runs(it, seq, A, [left |-> node, count |-> 0], step)
  BY <1>2, <1>3, <1>7 DEF Runs, Body
<1>9. PICK k \in [0..Len(seq) -> A] :
            IsTrace(k, seq, [left |-> node, count |-> 0], step) /\ k[Len(seq)] = it[DOMAIN seq]
  <2>1. HasTrace(it, seq, A, [left |-> node, count |-> 0], step)
    BY <1>a, <1>1, <1>8, RunSteps
  <2> QED
    BY <2>1 DEF HasTrace
<1>10. ASSUME NEW i \in 1..Len(seq) PROVE k[i] = Counting(k[i-1], seq[i])
  <2>1. k[i-1] \in A /\ seq[i] \in S
    BY <1>a
  <2> QED
    BY <1>2, <1>9, <2>1 DEF IsTrace
<1> QED
  BY <1>4, <1>9, <1>10 DEF IsTrace, HasCounted, IsCounted, A

\* CanFitMultiple takes the pods that fitPodsToNode takes.
LEMMA CountsFit ==
  ASSUME InputOK, overhead = NoOverhead, NEW t \in Offered, NEW seq \in Seq(Wanted),
         \A i, j \in DOMAIN seq : i # j => seq[i] # seq[j]
  PROVE  CanFitMultiple(cap[t], [i \in DOMAIN seq |-> need[seq[i]]]) = Len(Fit(seq, t))
<1> DEFINE n    == Len(seq)
           reqs == [i \in DOMAIN seq |-> need[seq[i]]]
           node == cap[t]
<1>1. n \in Nat /\ DOMAIN seq = 1..n /\ \A i \in 1..n : seq[i] \in Wanted
  OBVIOUS
<1>2. \A p \in Wanted : need[p] \in Requests
  BY DEF InputOK, Requests
<1>3. /\ reqs \in Seq(Requests) /\ Len(reqs) = n
      /\ \A i \in 1..n : reqs[i] = need[seq[i]]
  <2>1. reqs \in [1..n -> Requests]
    BY <1>1, <1>2
  <2> QED
    BY <1>1, <2>1
<1>4. node \in Leftover /\ \A d \in Kinds : node[d] \in Nat
  BY DEF InputOK, Leftover, Kinds
<1> HIDE DEF reqs, n, node
<1>5. HasCounted(reqs, node) /\ HasFitting(Wanted, seq, t)
  BY <1>3, <1>4, CountedRuns, FitRuns
<1>6. PICK c \in [0..Len(reqs) -> Counts] : IsCounted(c, reqs, node)
  BY <1>5 DEF HasCounted
<1>7. PICK k \in [0..Len(seq) -> Seq(Wanted)] : IsFitting(k, seq, t)
  BY <1>5 DEF HasFitting
<1> DEFINE Agree(i) ==
             /\ ToSet(k[i]) \subseteq {seq[j] : j \in 1..i}
             /\ c[i].count = Len(k[i])
             /\ \A d \in Kinds : /\ c[i].left[d] = node[d] - Asked(ToSet(k[i]), d)
                                 /\ c[i].left[d] >= 0
           T == {i \in 0..n : Agree(i)}
<1>8. Agree(0)
  <2>1. k[0] = <<>> /\ c[0] = [left |-> node, count |-> 0]
    BY <1>6, <1>7 DEF IsCounted, IsFitting
  <2>2. ToSet(<<>>) = {} /\ Len(<<>>) = 0
    BY DEF ToSet
  <2>3. \A d \in Kinds : Asked({}, d) = 0
    BY AskedNone
  <2> QED
    BY <1>4, <2>1, <2>2, <2>3
<1>9. ASSUME NEW i \in 1..n, Agree(i - 1) PROVE Agree(i)
  <2> DEFINE p == seq[i]
             a == k[i-1]
             P == ToSet(a)
             e == c[i-1]
  <2>1. i \in Nat \ {0} /\ i - 1 \in 0..n /\ p \in Wanted
    BY <1>1
  <2>2. a \in Seq(Wanted) /\ P \subseteq {seq[j] : j \in 1..(i-1)}
    BY <1>7, <1>9, <2>1 DEF n
  <2>3. P \subseteq Wanted
    BY <1>1, <2>1, <2>2
  <2>4. p \notin P
    <3>1. \A j \in 1..(i-1) : j \in DOMAIN seq /\ j # i /\ i \in DOMAIN seq
      BY <1>1, <2>1
    <3> QED
      BY <2>2, <3>1
  <2>5. k[i] = Taking(a, p, t) /\ c[i] = Counting(e, need[p])
    BY <1>3, <1>6, <1>7 DEF IsFitting, IsCounted, n
  <2>6. e \in Counts
    BY <1>3, <1>6, <2>1
  <2>7. /\ e.count = Len(a)
        /\ \A d \in Kinds : e.left[d] = node[d] - Asked(P, d) /\ e.left[d] >= 0
    BY <1>9
  <2>8. (1..(i-1)) \cup {i} = 1..i
    BY <2>1
  <2>9. \A d \in Kinds : /\ Asked(P, d) \in Nat /\ need[p][d] \in Nat
                         /\ Asked(P \cup {p}, d) = need[p][d] + Asked(P, d)
    <3> TAKE d \in Kinds
    <3>1. Asked(P, d) \in Nat
      BY <2>3, AskedNat
    <3>2. Asked(P \cup {p}, d) = need[p][d] + Asked(P, d)
      BY <2>1, <2>3, <2>4, AskedGrows
    <3>3. need[p][d] \in Nat
      BY <2>1 DEF InputOK, Kinds
    <3> QED
      BY <3>1, <3>2, <3>3
  <2> HIDE DEF p, a, e
  <2>10. HasRoom(a, p, t) <=> CanFit(e.left, need[p])
    <3>1. "gpu" \in Kinds
      BY DEF Kinds
    <3>2. /\ \A d \in Kinds : e.left[d] = cap[t][d] - Asked(ToSet(a), d)
          /\ e.left["gpu"] >= 0
      BY <2>7, <3>1 DEF node
    <3> QED
      BY <2>1, <2>3, <2>4, <3>2, FitsAgree
  <2>11. ASSUME HasRoom(a, p, t) PROVE Agree(i)
    <3>1. /\ k[i] = Append(a, p)
          /\ c[i] = [left |-> Less(e.left, need[p]), count |-> e.count + 1]
      BY <2>5, <2>10, <2>11 DEF Taking, Counting
    <3>2. ToSet(k[i]) = P \cup {p} /\ Len(k[i]) = Len(a) + 1
      BY <2>1, <2>2, <3>1, Appended
    <3>3. \A d \in Kinds : c[i].left[d] = e.left[d] - need[p][d]
      BY <3>1 DEF Less, Kinds
    <3>4. \A d \in Kinds : e.left[d] >= need[p][d]
      <4>1. \A d \in Kinds : Asked(P \cup {p}, d) <= node[d]
        BY <1>4, <2>11 DEF HasRoom, Room, NoOverhead, Kinds, node
      <4> TAKE d \in Kinds
      <4>2. /\ Asked(P, d) \in Nat /\ need[p][d] \in Nat /\ node[d] \in Nat
            /\ need[p][d] + Asked(P, d) <= node[d] /\ e.left[d] = node[d] - Asked(P, d)
        BY <1>4, <2>7, <2>9, <4>1
      <4> QED
        BY <4>2
    <3>5. \A d \in Kinds : /\ c[i].left[d] = node[d] - Asked(ToSet(k[i]), d)
                           /\ c[i].left[d] >= 0
      <4> TAKE d \in Kinds
      <4>1. /\ Asked(P, d) \in Nat /\ need[p][d] \in Nat /\ node[d] \in Nat
            /\ Asked(ToSet(k[i]), d) = need[p][d] + Asked(P, d)
            /\ e.left[d] = node[d] - Asked(P, d) /\ e.left[d] >= need[p][d]
            /\ c[i].left[d] = e.left[d] - need[p][d]
        BY <1>4, <2>7, <2>9, <3>2, <3>3, <3>4
      <4> QED
        BY <4>1
    <3>6. ToSet(k[i]) \subseteq {seq[j] : j \in 1..i}
      BY <2>2, <2>8, <3>2 DEF p
    <3>7. c[i].count = Len(k[i])
      BY <2>7, <3>1, <3>2
    <3> QED
      BY <3>5, <3>6, <3>7
  <2>12. ASSUME ~HasRoom(a, p, t) PROVE Agree(i)
    <3>1. k[i] = a /\ c[i] = e
      BY <2>5, <2>10, <2>12 DEF Taking, Counting
    <3>2. P \subseteq {seq[j] : j \in 1..i}
      BY <2>2, <2>8
    <3> QED
      BY <2>7, <3>1, <3>2
  <2> QED
    BY <2>11, <2>12
<1> HIDE DEF Agree
<1>10. 0 \in T
  BY <1>1, <1>8
<1>11. ASSUME NEW i \in 1..n, i - 1 \in T PROVE i \in T
  BY <1>1, <1>9, <1>11
<1>12. \A i \in 0..n : i \in T
  <2> HIDE DEF T
  <2> QED
    BY <1>1, <1>10, <1>11, UpTo
<1>13. Agree(n)
  <2>1. n \in 0..n
    BY <1>1
  <2> QED
    BY <1>12, <2>1
<1>14. CanFitMultiple(node, reqs) = CountOf(reqs, node).count
  BY DEF CanFitMultiple, CountOf
<1>15. c[n] = CountOf(reqs, node) /\ k[n] = Fit(seq, t)
  BY <1>3, <1>6, <1>7 DEF IsCounted, IsFitting, n
<1>16. CanFitMultiple(node, reqs) = Len(Fit(seq, t))
  BY <1>13, <1>14, <1>15 DEF Agree
<1> QED
  BY <1>16 DEF node, reqs

LEMMA CountsAlone ==
  ASSUME InputOK, overhead = NoOverhead, NEW t \in Offered, NEW p \in Wanted
  PROVE  CanFit(cap[t], need[p]) <=> Fit(<<p>>, t) # <<>>
<1>1. ToSet(<<>>) = {}
  BY DEF ToSet
<1>2. \A d \in Kinds : cap[t][d] \in Nat /\ Asked({}, d) = 0
  <2> TAKE d \in Kinds
  <2>1. cap[t][d] \in Nat
    BY DEF InputOK, Kinds
  <2> QED
    BY <2>1, AskedNone
<1>3. /\ \A d \in Kinds : cap[t][d] = cap[t][d] - Asked(ToSet(<<>>), d)
      /\ cap[t]["gpu"] >= 0
  <2>1. \A d \in Kinds : cap[t][d] = cap[t][d] - Asked(ToSet(<<>>), d)
    <3> TAKE d \in Kinds
    <3>1. cap[t][d] \in Nat /\ Asked(ToSet(<<>>), d) = 0
      BY <1>1, <1>2
    <3> QED
      BY <3>1
  <2>2. cap[t]["gpu"] \in Nat
    BY <1>2 DEF Kinds
  <2> QED
    BY <2>1, <2>2
<1>4. HasRoom(<<>>, p, t) <=> CanFit(cap[t], need[p])
  BY <1>1, <1>3, FitsAgree
<1>5. Append(<<>>, p) # <<>>
  BY Appended
<1> QED
  BY <1>4, <1>5, FitAlone DEF Taking

-----------------------------------------------------------------------------
(* getAvailableNodeTypes: what an option has of its entry in the list.     *)

EntryOf(t) == list[t[1]][t[2]]

LEMMA OptionIs ==
  ASSUME list \in PriceLists, NEW t \in Available
  PROVE  /\ t \in Types
         /\ OptionOf(t) = Market!Option(list, t[1], t[2])
         /\ Market!Complete(EntryOf(t))
         /\ Market!MeetsRequirements(OptionOf(t), ask.reqs)
         /\ {EntryOf(t).cpu, EntryOf(t).memory, EntryOf(t).p50} \subseteq Nat
         /\ EntryOf(t).market \in Nat \cup {-1}
<1> DEFINE o == OptionOf(t)
<1>1. o \in Options /\ <<o.region, o.type>> = t
  BY DEF Available, OptionOf
<1> HIDE DEF o
<1>2. o \in Market!GetInstanceTypes(list) /\ Market!MeetsRequirements(o, ask.reqs)
  BY <1>1 DEF Options, Market!Suitable
<1>a. PICK r \in DOMAIN list : \E c \in DOMAIN list[r] :
            Market!Complete(list[r][c]) /\ o = Market!Option(list, r, c)
  BY <1>2 DEF Market!GetInstanceTypes
<1>3. PICK c \in DOMAIN list[r] :
            Market!Complete(list[r][c]) /\ o = Market!Option(list, r, c)
  BY <1>a
<1>4. o.region = r /\ o.type = c
  BY <1>3 DEF Market!Option
<1>5. t = <<r, c>> /\ t[1] = r /\ t[2] = c
  BY <1>1, <1>4
<1>6. /\ Market!IsPriceList(list) /\ <<r, c>> \in Types
  BY ListAssumption
<1>7. /\ {list[r][c].cpu, list[r][c].memory, list[r][c].p50} \subseteq Nat
      /\ list[r][c].market \in Nat \cup {-1}
  BY <1>6 DEF Market!IsPriceList, Market!NotFound
<1> QED
  BY <1>2, <1>3, <1>5, <1>6, <1>7 DEF o, EntryOf

LEMMA OptionHas ==
  ASSUME list \in PriceLists, NEW t \in Available
  PROVE  /\ OptionOf(t).cpu \in Nat \ {0} /\ OptionOf(t).cpu = EntryOf(t).cpu
         /\ OptionOf(t).memory \in Nat \ {0}
         /\ OptionOf(t).memory = EntryOf(t).memory \div 4
         /\ OptionOf(t).price \in Nat \ {0}
         /\ OptionOf(t).price >= EntryOf(t).market /\ OptionOf(t).price >= EntryOf(t).p50
         /\ OptionOf(t).region = t[1]
         /\ OptionOf(t).category = EntryOf(t).category
<1> DEFINE o == OptionOf(t)
           e == EntryOf(t)
<1>1. o = Market!Option(list, t[1], t[2]) /\ Market!Complete(e)
  BY OptionIs
<1>2. e.cpu \in Nat /\ e.memory \in Nat /\ e.p50 \in Nat /\ e.market \in Nat \cup {-1}
  BY OptionIs
<1>3. /\ o.cpu = e.cpu /\ o.memory = e.memory \div 4 /\ o.price = Market!Higher(e)
      /\ o.region = t[1] /\ o.category = e.category
  BY <1>1 DEF Market!Option, Market!FlexInt, Market!Unit, EntryOf
<1>4. e.cpu > 0 /\ e.memory \div 4 > 0 /\ e.market > 0
  BY <1>1 DEF Market!Complete, Market!FlexInt, Market!Unit
<1> HIDE DEF o, e
<1>5. e.memory \div 4 \in Nat
  BY <1>2
<1>6. /\ Market!Higher(e) \in Nat \ {0}
      /\ Market!Higher(e) >= e.market /\ Market!Higher(e) >= e.p50
  BY <1>2, <1>4 DEF Market!Higher
<1>7. /\ o.cpu \in Nat \ {0} /\ o.memory \in Nat \ {0} /\ o.price \in Nat \ {0}
      /\ o.price >= e.market /\ o.price >= e.p50
  BY <1>2, <1>3, <1>4, <1>5, <1>6
<1> QED
  BY <1>3, <1>7 DEF o, e

-----------------------------------------------------------------------------
(* The invariant: that of Pack, and where its input comes from.            *)

Brought ==
    stage # "direct" =>
        /\ spec \in [Wanted -> PodSpecs]
        /\ need = [p \in Wanted |-> GetPodRequirements(spec[p])]
        /\ list \in PriceLists /\ ask \in Asks

AsListed ==
    stage # "direct" =>
        \A t \in Offered : /\ t \in Available
                           /\ cap[t].cpu = OptionOf(t).cpu
                           /\ cap[t].mem = OptionOf(t).memory
                           /\ price[t] = OptionOf(t).price

Untouched ==
    stage = "ask" => strategy = "start" /\ Offered = {} /\ plan = NoPlan /\ advice = FALSE

\* No pod is twice among the sorted ones.
Distinct == Running => \A i, j \in DOMAIN pods : i # j => pods[i] # pods[j]

\* What Pack leaves free on each node is for the DaemonSets that were reported.
Offering == stage = "packing" \/ (stage = "done" /\ Offered # {})
Reserved ==
    Offering => overhead = IF ask.daemonSets = "nil" THEN NoOverhead
                           ELSE GetDaemonSetOverhead(ask.daemonSets)

OptInput == Brought /\ AsListed /\ Untouched /\ Distinct /\ Reserved
OptInv   == PackInv /\ OptInput /\ LimitsKept /\ PlanMatches

LEMMA MarketSame ==
  ASSUME list' = list, ask' = ask
  PROVE  Available' = Available /\ \A t : OptionOf(t)' = OptionOf(t)
  BY DEF Available, OptionOf, Options

LEMMA TotalSame ==
  ASSUME price' = price, best' = best
  PROVE  Total(best.nodes)' = Total(best.nodes)
  BY DEF Total, FoldLeft, MapThenFoldSet

\* Once there is an answer, it stays.
LEMMA AnswerStays ==
  ASSUME LimitsKept, PlanMatches, UNCHANGED <<vars, optimizer>>
  PROVE  LimitsKept' /\ PlanMatches'
<1>1. /\ stage' = stage /\ list' = list /\ ask' = ask /\ plan' = plan /\ advice' = advice
      /\ best' = best /\ price' = price
  BY DEF vars, input, optimizer
<1>2. Total(best.nodes)' = Total(best.nodes)
  BY <1>1, TotalSame
<1>3. LimitsKept'
  BY <1>1, <1>2 DEF LimitsKept, Nodes
<1>4. PlanMatches'
  BY <1>1 DEF PlanMatches
<1> QED
  BY <1>3, <1>4

\* Until there is one, nothing is said of it.
LEMMA NoAnswer ==
  ASSUME stage' # "done"
  PROVE  LimitsKept' /\ PlanMatches'
  BY DEF LimitsKept, PlanMatches

LEMMA InputStays ==
  ASSUME Brought, AsListed, UNCHANGED <<need, cap, price, spec, list, ask>>,
         stage' # "direct" => stage # "direct"
  PROVE  Brought' /\ AsListed'
<1>1. Available' = Available /\ \A t : OptionOf(t)' = OptionOf(t)
  BY MarketSame
<1>2. Wanted' = Wanted /\ Offered' = Offered
  BY DEF Wanted, Offered
<1> QED
  BY <1>1, <1>2 DEF Brought, AsListed

LEMMA ReservedStays ==
  ASSUME Reserved, UNCHANGED <<cap, overhead, ask>>, Offering' => Offering
  PROVE  Reserved'
  BY DEF Reserved

-----------------------------------------------------------------------------
(* The invariant is inductive.                                             *)

\* What Pack is given by the optimizer.
LEMMA NeedsBrought ==
  ASSUME NEW s \in PodSpecs
  PROVE  GetPodRequirements(s) \in [cpu : Nat, mem : Nat, gpu : Nat]
<1>1. s \in PodRecords
  BY SpecAssumption
<1>2. \A d \in Kinds : GetPodRequirements(s)[d] \in Nat
  BY <1>1, NeedsOf
<1>3. /\ GetPodRequirements(s)["cpu"] \in Nat /\ GetPodRequirements(s)["mem"] \in Nat
      /\ GetPodRequirements(s)["gpu"] \in Nat
  BY <1>2 DEF Kinds
<1> QED
  BY <1>3 DEF GetPodRequirements

LEMMA OptimizeInitInv == OptimizeInit /\ plan = NoPlan /\ advice = FALSE => OptInv
<1> SUFFICES ASSUME OptimizeInit, plan = NoPlan, advice = FALSE PROVE OptInv
  OBVIOUS
<1> USE DEF OptimizeInit
<1>1. PICK W \in SUBSET Pods : spec \in [W -> PodSpecs]
  OBVIOUS
<1>2. Wanted = W /\ Offered = {}
  BY <1>1 DEF Wanted, Offered, NoTypes
<1>3. need = [p \in Wanted |-> GetPodRequirements(spec[p])]
  BY <1>1, <1>2
<1>4. InputOK
  <2>1. IsFiniteSet(Wanted) /\ IsFiniteSet(Offered)
    BY <1>1, <1>2, FiniteAssumption, FS_Subset, FS_EmptySet
  <2>2. \A p \in Wanted : need[p] \in [cpu : Nat, mem : Nat, gpu : Nat]
    BY <1>1, <1>2, <1>3, NeedsBrought
  <2>3. overhead["cpu"] \in Nat /\ overhead["mem"] \in Nat
    BY DEF NoOverhead
  <2> QED
    BY <1>2, <2>1, <2>2, <2>3 DEF InputOK
<1>5. PackTypes /\ Sorted
  BY DEF PackTypes, Sorted, Running, Nothing
<1>6. EveryPodOnce /\ NoOversubscription /\ FoundAfterFirst
  BY DEF Nothing, EveryPodOnce, NoOversubscription, FoundAfterFirst, Nodes
<1>7. OptInput
  BY <1>1, <1>2, <1>3 DEF OptInput, Brought, AsListed, Untouched, Distinct, Running,
                          Reserved, Offering
<1>8. LimitsKept /\ PlanMatches
  BY DEF LimitsKept, PlanMatches
<1> QED
  BY <1>4, <1>5, <1>6, <1>7, <1>8 DEF OptInv, PackInv

LEMMA OptimizerInitInv == OptimizerInit => OptInv
<1> SUFFICES ASSUME OptimizerInit PROVE OptInv
  OBVIOUS
<1>1. CASE OptimizeInit
  BY <1>1, OptimizeInitInv DEF OptimizerInit
<1>2. CASE DirectInit
  <2>1. PackInv
    BY <1>2, InitInv DEF DirectInit
  <2>2. stage = "direct" /\ strategy = "start"
    BY <1>2 DEF DirectInit, Init
  <2>3. OptInput /\ LimitsKept /\ PlanMatches
    BY <2>2 DEF OptInput, Brought, AsListed, Untouched, Distinct, Running,
                Reserved, Offering, LimitsKept, PlanMatches
  <2> QED
    BY <2>1, <2>3 DEF OptInv
<1> QED
  BY <1>1, <1>2 DEF OptimizerInit

\* The steps that leave Pack alone.
LEMMA PackAlone ==
  ASSUME OptInv, UNCHANGED vars
  PROVE  PackInv' /\ Distinct'
<1>1. PackInv'
  BY StutterStep DEF OptInv
<1>2. Distinct'
  BY DEF OptInv, OptInput, Distinct, Running, vars
<1> QED
  BY <1>1, <1>2

LEMMA GivesUpStep ==
  ASSUME OptInv, PricingFails \/ NoneAvailable \/ Refuse
  PROVE  OptInv'
<1>1. /\ UNCHANGED vars /\ UNCHANGED <<spec, list, ask, plan, advice>>
      /\ stage' = "failed" /\ stage \in {"ask", "packing"}
  BY DEF PricingFails, NoneAvailable, Refuse
<1>2. UNCHANGED <<need, cap, price>>
  BY <1>1 DEF vars, input
<1>3. Brought' /\ AsListed'
  BY <1>1, <1>2, InputStays DEF OptInv, OptInput
<1>4. Untouched'
  BY <1>1 DEF Untouched
<1>5. PackInv' /\ Distinct'
  BY <1>1, PackAlone
<1>6. LimitsKept' /\ PlanMatches'
  BY <1>1, NoAnswer
<1>7. Reserved'
  BY <1>1 DEF Reserved, Offering
<1> QED
  BY <1>3, <1>4, <1>5, <1>6, <1>7 DEF OptInv, OptInput

LEMMA OffersStep == OptInv /\ GetAvailableNodeTypes => OptInv'
<1> SUFFICES ASSUME OptInv, GetAvailableNodeTypes PROVE OptInv'
  OBVIOUS
<1>1. /\ stage = "ask" /\ stage' = "packing" /\ strategy = "start"
      /\ UNCHANGED <<need, pods, types, strategy, left, packed, best,
                     spec, list, ask, plan, advice>>
  BY DEF GetAvailableNodeTypes, OptInv, OptInput, Untouched, PackInv, Sorted
<1>2. /\ cap' = [t \in Available |-> [cpu |-> OptionOf(t).cpu,
                                      mem |-> OptionOf(t).memory, gpu |-> 0]]
      /\ price' = [t \in Available |-> OptionOf(t).price]
  BY DEF GetAvailableNodeTypes
<1>3. /\ Wanted' = Wanted /\ Offered' = Available
      /\ Available' = Available /\ \A t : OptionOf(t)' = OptionOf(t)
  BY <1>1, <1>2, MarketSame DEF Wanted, Offered
<1>4. /\ spec \in [Wanted -> PodSpecs]
      /\ need = [p \in Wanted |-> GetPodRequirements(spec[p])]
      /\ list \in PriceLists /\ ask \in Asks
  BY <1>1 DEF OptInv, OptInput, Brought
<1>5. InputOK'
  <2>1. IsFiniteSet(Wanted) /\ \A p \in Wanted : need[p] \in [cpu : Nat, mem : Nat, gpu : Nat]
    BY DEF OptInv, PackInv, InputOK
  <2>2. IsFiniteSet(Available)
    <3>1. Available \subseteq Types
      BY <1>4, OptionIs
    <3> QED
      BY <3>1, FiniteAssumption, FS_Subset
  <2>3. \A t \in Available :
           /\ cap'[t] \in [cpu : Nat \ {0}, mem : Nat \ {0}, gpu : Nat]
           /\ price'[t] \in Nat \ {0}
    BY <1>2, <1>4, OptionHas
  <2>4. overhead'["cpu"] \in Nat /\ overhead'["mem"] \in Nat
    <3>1. CASE ask.daemonSets = "nil"
      BY <3>1 DEF GetAvailableNodeTypes, NoOverhead
    <3>2. CASE ask.daemonSets # "nil"
      <4>1. ask.daemonSets \in Seq(PodRecords)
        BY <1>4, <3>2, AskAssumption
      <4>2. overhead' = GetDaemonSetOverhead(ask.daemonSets)
        BY <3>2 DEF GetAvailableNodeTypes
      <4> QED
        BY <4>1, <4>2, DaemonSetsNat
    <3> QED
      BY <3>1, <3>2
  <2> QED
    BY <1>1, <1>3, <2>1, <2>2, <2>3, <2>4 DEF InputOK
<1>6. /\ pods' = <<>> /\ types' = <<>> /\ left' = <<>> /\ packed' = <<>> /\ best' = Nothing
      /\ strategy' = "start"
  BY <1>1 DEF OptInv, PackInv, Sorted
<1>7. PackTypes' /\ Sorted'
  BY <1>6 DEF PackTypes, Sorted, Running, Nothing
<1>8. EveryPodOnce' /\ NoOversubscription' /\ FoundAfterFirst'
  BY <1>6 DEF Nothing, EveryPodOnce, NoOversubscription, FoundAfterFirst, Nodes
<1>9. Brought'
  BY <1>1, <1>3, <1>4 DEF Brought
<1>10. AsListed'
  BY <1>2, <1>3 DEF AsListed
<1>11. Untouched' /\ Distinct'
  BY <1>1, <1>6 DEF Untouched, Distinct, Running
<1>12. LimitsKept' /\ PlanMatches'
  BY <1>1, NoAnswer
<1>13. Reserved'
  BY <1>1 DEF GetAvailableNodeTypes, Reserved
<1> QED
  BY <1>5, <1>7, <1>8, <1>9, <1>10, <1>11, <1>12, <1>13 DEF OptInv, OptInput, PackInv

LEMMA PackingStep == OptInv /\ Packing => OptInv'
<1> SUFFICES ASSUME OptInv, Packing PROVE OptInv'
  OBVIOUS
<1>1. /\ Next /\ UNCHANGED optimizer /\ stage \in {"packing", "direct"}
      /\ stage' = stage
      /\ UNCHANGED <<spec, list, ask, plan, advice>>
  BY DEF Packing, optimizer
<1>2. PackInv'
  BY <1>1, PackStep DEF OptInv
<1>3. UNCHANGED <<need, cap, price, overhead>>
  BY <1>1 DEF Next, Start, StartTrivial, Place, Stuck, Complete, Single, NextStrategy, input
<1>4. Brought' /\ AsListed'
  BY <1>1, <1>3, InputStays DEF OptInv, OptInput
<1>5. Untouched'
  BY <1>1 DEF Untouched
<1>6. Distinct'
  <2>1. CASE Start
    <3>1. pods' \in SetToSeqs(Wanted)
      BY <2>1 DEF Start
    <3>2. \A i, j \in DOMAIN pods' : i # j => pods'[i] # pods'[j]
      BY <3>1, SeqsOfSet DEF OptInv, PackInv, InputOK
    <3> QED
      BY <3>2 DEF Distinct
  <2>2. CASE StartTrivial
    BY <2>2 DEF StartTrivial, Distinct, Running
  <2>3. CASE Place \/ Stuck \/ Complete \/ Single
    <3>1. pods' = pods /\ Running
      BY <2>3 DEF Place, Stuck, Complete, Single, NextStrategy, Running
    <3> QED
      BY <3>1 DEF OptInv, OptInput, Distinct
  <2> QED
    BY <1>1, <2>1, <2>2, <2>3 DEF Next
<1>7. LimitsKept' /\ PlanMatches'
  BY <1>1, NoAnswer
<1>8. Reserved'
  <2>1. Offering' => Offering
    BY <1>1 DEF Offering
  <2> QED
    BY <1>1, <1>3, <2>1, ReservedStays DEF OptInv, OptInput
<1> QED
  BY <1>2, <1>4, <1>5, <1>6, <1>7, <1>8 DEF OptInv, OptInput

\* What is advised saves the threshold.
LEMMA AdvisedSaves ==
  ASSUME NEW current \in Int, NEW threshold \in Int, NEW total \in Nat,
         Market!Saves(current, total, threshold)
  PROVE  total * 100 <= current * (100 - threshold)
<1>1. (current - total) * 100 >= threshold * current
  BY DEF Market!Saves
<1>2. /\ (current - total) * 100 = current * 100 - total * 100
      /\ current * (100 - threshold) = current * 100 - threshold * current
  OBVIOUS
<1>3. threshold * current \in Int
  OBVIOUS
<1> QED
  BY <1>1, <1>2, <1>3

LEMMA NoPodsStep == OptInv /\ NoPods => OptInv'
<1> SUFFICES ASSUME OptInv, NoPods PROVE OptInv'
  OBVIOUS
<1>1. /\ UNCHANGED vars /\ UNCHANGED <<spec, list, ask, plan>>
      /\ stage = "ask" /\ stage' = "done" /\ advice' = Advised(<<>>)
  BY DEF NoPods
<1>a. Reserved'
  <2>1. Offered' = {} /\ stage' # "packing"
    BY <1>1 DEF OptInv, OptInput, Untouched, Offered, vars, input
  <2> QED
    BY <2>1 DEF Reserved, Offering
<1>2. UNCHANGED <<need, cap, price, best>>
  BY <1>1 DEF vars, input
<1>3. Brought' /\ AsListed'
  BY <1>1, <1>2, InputStays DEF OptInv, OptInput
<1>4. Untouched'
  BY <1>1 DEF Untouched
<1>5. PackInv' /\ Distinct'
  BY <1>1, PackAlone
<1>6. best = Nothing /\ best.nodes = <<>> /\ plan = NoPlan /\ ask \in Asks
  BY <1>1 DEF OptInv, OptInput, PackInv, Sorted, Untouched, Brought, Nothing
<1>7. Total(best.nodes) = 0 /\ Total(best.nodes)' = 0 /\ Total(<<>>) = 0
  BY <1>2, <1>6, TotalOfNone, TotalSame DEF OptInv, PackInv
<1>8. {ask.maxTotal, ask.currentCost, ask.threshold} \subseteq Int
  BY <1>6, AskAssumption
<1>9. LimitsKept'
  <2>1. best'.nodes = <<>> /\ Nodes(best.nodes)' = {}
    BY <1>2, <1>6 DEF Nodes
  <2>2. advice' => 0 * 100 <= ask.currentCost * (100 - ask.threshold)
    <3> SUFFICES ASSUME advice' PROVE 0 * 100 <= ask.currentCost * (100 - ask.threshold)
      OBVIOUS
    <3>1. Market!Saves(ask.currentCost, 0, ask.threshold)
      BY <1>1, <1>7 DEF Advised
    <3> QED
      BY <1>8, <3>1, AdvisedSaves
  <2>3. ask.maxTotal > 0 => 0 <= ask.maxTotal
    BY <1>8
  <2> QED
    BY <1>1, <1>7, <2>1, <2>2, <2>3 DEF LimitsKept
<1>10. PlanMatches'
  <2>1. best'.nodes = <<>> /\ DOMAIN best'.nodes = {} /\ plan' = NoPlan
    BY <1>1, <1>2, <1>6
  <2>2. Cardinality({}) = 0
    BY FS_EmptySet
  <2>3. \A c \in Classes : plan'[c].count = 0
    BY <2>1 DEF NoPlan, Unused
  <2> QED
    BY <2>1, <2>2, <2>3 DEF PlanMatches
<1> QED
  BY <1>a, <1>3, <1>4, <1>5, <1>9, <1>10 DEF OptInv, OptInput

\* The limits that the filters keep for the types, the packing keeps.
LEMMA NodesListed ==
  ASSUME OptInv, stage # "direct", NEW n \in Nodes(best.nodes)
  PROVE  /\ n.type \in Offered /\ n.pods \subseteq Wanted
         /\ n.type \in Available
         /\ cap[n.type].cpu = OptionOf(n.type).cpu
         /\ cap[n.type].mem = OptionOf(n.type).memory
<1>1. n \in PlannedNodes
  BY NodesOf DEF OptInv, PackInv, PackTypes
<1>2. n.type \in Offered /\ n.pods \subseteq Wanted
  BY <1>1 DEF PlannedNodes
<1> QED
  BY <1>2 DEF OptInv, OptInput, AsListed

LEMMA FiltersHold ==
  ASSUME OptInv, stage # "direct", NEW n \in Nodes(best.nodes)
  PROVE  LET e == EntryOf(n.type)
             q == ask.reqs
         IN  /\ q.regions # {} => n.type[1] \in q.regions
             /\ IF q.categories = {} THEN e.category # "GPU"
                ELSE \E c \in q.categories : e.category \in Market!Named(c)
             /\ q.maxPrice > 0 => e.market <= q.maxPrice /\ e.p50 <= q.maxPrice
<1> DEFINE t == n.type
           o == OptionOf(t)
           e == EntryOf(t)
           q == ask.reqs
<1>1. t \in Available /\ list \in PriceLists /\ ask \in Asks
  BY NodesListed DEF OptInv, OptInput, Brought
<1>2. /\ Market!MeetsRequirements(o, q)
      /\ {e.cpu, e.memory, e.p50} \subseteq Nat /\ e.market \in Nat \cup {-1}
  BY <1>1, OptionIs
<1>3. /\ o.price \in Nat \ {0} /\ o.price >= e.market /\ o.price >= e.p50
      /\ o.region = t[1] /\ o.category = e.category
  BY <1>1, OptionHas
<1>4. q.maxPrice \in Int
  BY <1>1, AskAssumption
<1> HIDE DEF o, e, t, q
<1>5. q.regions # {} => t[1] \in q.regions
  BY <1>2, <1>3 DEF Market!MeetsRequirements
<1>6. IF q.categories = {} THEN e.category # "GPU"
      ELSE \E c \in q.categories : e.category \in Market!Named(c)
  <2>1. Market!CategoryMet(e.category, q.categories)
    BY <1>2, <1>3 DEF Market!MeetsRequirements
  <2>2. ASSUME q.categories # {}
        PROVE  \E c \in q.categories : e.category \in Market!Named(c)
    BY <2>1, <2>2 DEF Market!CategoryMet
  <2>3. q.categories = {} => e.category # "GPU"
    BY <2>1 DEF Market!CategoryMet
  <2> QED
    BY <2>2, <2>3
<1>7. q.maxPrice > 0 => e.market <= q.maxPrice /\ e.p50 <= q.maxPrice
  <2>1. q.maxPrice > 0 => o.price <= q.maxPrice
    BY <1>2 DEF Market!MeetsRequirements
  <2> QED
    BY <1>2, <1>3, <1>4, <2>1
<1> QED
  BY <1>5, <1>6, <1>7 DEF e, t, q

LEMMA ConcludeStep == OptInv /\ Conclude => OptInv'
<1> SUFFICES ASSUME OptInv, Conclude PROVE OptInv'
  OBVIOUS
<1>1. /\ UNCHANGED vars /\ UNCHANGED <<spec, list, ask>>
      /\ stage = "packing" /\ stage' = "done"
      /\ plan' = BuildNodePoolPlan(best.nodes)
      /\ advice' = Advised(best.nodes)
      /\ best.found /\ ~TooDear(best.nodes)
  BY DEF Conclude
<1>a. Reserved'
  <2>1. UNCHANGED <<cap, overhead, ask>> /\ Offering
    BY <1>1 DEF vars, input, Offering
  <2> QED
    BY <2>1, ReservedStays DEF OptInv, OptInput
<1>2. UNCHANGED <<need, cap, price, best>>
  BY <1>1 DEF vars, input
<1>3. Brought' /\ AsListed'
  BY <1>1, <1>2, InputStays DEF OptInv, OptInput
<1>4. Untouched'
  BY <1>1 DEF Untouched
<1>5. PackInv' /\ Distinct'
  BY <1>1, PackAlone
<1>6. /\ ask \in Asks /\ best.nodes \in Seq(PlannedNodes) /\ InputOK
  BY <1>1 DEF OptInv, OptInput, Brought, PackInv, PackTypes
<1>7. {ask.maxTotal, ask.currentCost, ask.threshold} \subseteq Int
  BY <1>6, AskAssumption
<1>8. Total(best.nodes) \in Nat /\ Total(best.nodes)' = Total(best.nodes)
  BY <1>2, <1>6, TotalNat, TotalSame
<1>9. LimitsKept'
  <2>1. /\ \A n \in Nodes(best.nodes) :
              /\ ask.reqs.regions # {} => n.type[1] \in ask.reqs.regions
              /\ IF ask.reqs.categories = {} THEN EntryOf(n.type).category # "GPU"
                 ELSE \E c \in ask.reqs.categories :
                         EntryOf(n.type).category \in Market!Named(c)
              /\ ask.reqs.maxPrice > 0 => /\ EntryOf(n.type).market <= ask.reqs.maxPrice
                                          /\ EntryOf(n.type).p50 <= ask.reqs.maxPrice
    BY <1>1, FiltersHold
  <2>2. ask.maxTotal > 0 => Total(best.nodes) <= ask.maxTotal
    BY <1>1, <1>7, <1>8 DEF TooDear
  <2>3. advice' => Total(best.nodes) * 100 <= ask.currentCost * (100 - ask.threshold)
    <3> SUFFICES ASSUME advice'
                 PROVE Total(best.nodes) * 100 <= ask.currentCost * (100 - ask.threshold)
      OBVIOUS
    <3>1. Market!Saves(ask.currentCost, Total(best.nodes), ask.threshold)
      BY <1>1 DEF Advised
    <3> QED
      BY <1>7, <1>8, <3>1, AdvisedSaves
  <2>4. Nodes(best.nodes)' = Nodes(best.nodes)
    BY <1>2 DEF Nodes
  <2> QED
    BY <1>1, <1>2, <1>8, <2>1, <2>2, <2>3, <2>4 DEF LimitsKept, EntryOf
<1>10. PlanMatches'
  <2> DEFINE nodes == best.nodes
  <2>1. Offered \subseteq Types
    <3>1. Offered \subseteq Available /\ list \in PriceLists
      BY <1>1 DEF OptInv, OptInput, AsListed, Brought
    <3> QED
      BY <3>1, OptionIs
  <2>2. \A c \in Classes : PlannedFor(plan'[c], nodes, Mine(nodes, c, Len(nodes)))
    BY <1>1, <1>6, <2>1, PlanCovers
  <2>3. DOMAIN nodes = 1..Len(nodes)
    BY <1>6
  <2> HIDE DEF nodes
  <2>4. ASSUME NEW c \in Classes
        PROVE  LET mine == {i \in DOMAIN nodes : nodes[i].type[2] = c}
                   paid == {price[nodes[i].type] : i \in mine}
               IN  /\ plan'[c].count = Cardinality(mine)
                   /\ mine # {} => /\ plan'[c].bid % 5 = 0
                                   /\ \A x \in paid : x <= plan'[c].bid
                                   /\ \E x \in paid : plan'[c].bid <= x + 5
    <3>1. Mine(nodes, c, Len(nodes)) = {i \in DOMAIN nodes : nodes[i].type[2] = c}
      BY <2>3 DEF Mine
    <3> QED
      BY <2>2, <3>1 DEF PlannedFor
  <2>5. best'.nodes = nodes /\ price' = price
    BY <1>2 DEF nodes
  <2> QED
    BY <2>4, <2>5 DEF PlanMatches
<1> QED
  BY <1>a, <1>3, <1>4, <1>5, <1>9, <1>10 DEF OptInv, OptInput

LEMMA OptimizerStutter == OptInv /\ UNCHANGED ovars => OptInv'
<1> SUFFICES ASSUME OptInv, UNCHANGED ovars PROVE OptInv'
  OBVIOUS
<1>1. UNCHANGED vars /\ UNCHANGED optimizer
  BY DEF ovars
<1>2. /\ UNCHANGED <<need, cap, price, strategy, best>>
      /\ UNCHANGED <<stage, spec, list, ask, plan, advice>>
  BY <1>1 DEF vars, input, optimizer
<1>3. Brought' /\ AsListed'
  BY <1>2, InputStays DEF OptInv, OptInput
<1>4. Untouched'
  BY <1>2 DEF OptInv, OptInput, Untouched, Offered
<1>5. PackInv' /\ Distinct'
  BY <1>1, PackAlone
<1>6. LimitsKept' /\ PlanMatches'
  BY <1>1, AnswerStays DEF OptInv
<1>7. Reserved'
  <2>1. UNCHANGED <<cap, overhead, ask>> /\ (Offering' => Offering)
    BY <1>1, <1>2 DEF vars, input, Offering, Offered
  <2> QED
    BY <2>1, ReservedStays DEF OptInv, OptInput
<1> QED
  BY <1>3, <1>4, <1>5, <1>6, <1>7 DEF OptInv, OptInput

-----------------------------------------------------------------------------
(* The theorems.                                                           *)

\* Pack's invariant holds inside the optimizer too, on input that comes from
\* pods and a price list, and what it answers is right.
THEOREM OptimizerInvariant == OptimizerSpec => []OptInv
<1>1. OptimizerInit => OptInv
  BY OptimizerInitInv
<1>2. OptInv /\ [OptimizerNext]_ovars => OptInv'
  BY GivesUpStep, OffersStep, PackingStep, NoPodsStep, ConcludeStep, OptimizerStutter
  DEF OptimizerNext
<1> QED
  BY <1>1, <1>2, PTL DEF OptimizerSpec

\* Whether Pack is called by the optimizer or directly, every pod is somewhere
\* once, no node is oversubscribed, and a packing is found where each pod fits.
THEOREM OptimizerPacks ==
  OptimizerSpec => [](TypeOK /\ EveryPodOnce /\ NoOversubscription /\ PacksIfPossible)
<1>1. OptInv => TypeOK /\ EveryPodOnce /\ NoOversubscription /\ PacksIfPossible
  BY InvImplies DEF OptInv
<1> QED
  BY <1>1, OptimizerInvariant, PTL

\* The pods of a node, each in a phase of its own.
LEMMA PhasesSum ==
  ASSUME NEW P, IsFiniteSet(P), NEW ph, NEW d, \A p \in P : Summed(ph[p], d) \in Nat
  PROVE  MapThenSumSet(LAMBDA p : Summed(ph[p], d), P) = Sum([p \in P |-> Summed(ph[p], d)], P)
<1> DEFINE f == [p \in P |-> Summed(ph[p], d)]
           Body(g) == [s \in SUBSET P |-> IF s = {} THEN 0
                          ELSE Summed(ph[Chosen(s)], d) + g[s \ {Chosen(s)}]]
           it == CHOOSE g : g = Body(g)
<1>1. PICK g \in [SUBSET P -> Nat] : IsSumming(g, f, P) /\ Sum(f, P) = g[P]
  <2>1. \A p \in P : f[p] \in Nat
    OBVIOUS
  <2> HIDE DEF f
  <2> QED
    BY <2>1, SumSumming
<1>2. \A s \in SUBSET P : s # {} => f[Chosen(s)] = Summed(ph[Chosen(s)], d)
  BY DEF Chosen
<1>3. g = Body(g)
  BY <1>1, <1>2 DEF IsSumming
<1>4. it = Body(it)
  <2> HIDE DEF Body
  <2> QED
    BY <1>3
<1>5. MapThenSumSet(LAMBDA p : Summed(ph[p], d), P) = it[P]
  BY DEF MapThenSumSet, MapThenFoldSet, Chosen
<1> HIDE DEF it, f
<1>6. IsSumming(it, f, P)
  BY <1>2, <1>4 DEF IsSumming
<1>7. it[P] = g[P]
  BY <1>1, <1>6, SummingUnique
<1> QED
  BY <1>1, <1>5, <1>7 DEF f

\* The DaemonSets, each in a phase of its own.
LEMMA DaemonSetsFit ==
  ASSUME OptInv, Offering, ask \in Asks, NEW d \in {"cpu", "mem"},
         NEW run \in PhasesOf(Reported)
  PROVE  /\ MapThenSumSet(LAMBDA i : Summed(run[i], d), DOMAIN run) \in Nat
         /\ MapThenSumSet(LAMBDA i : Summed(run[i], d), DOMAIN run) <= overhead[d]
<1> DEFINE sets == Reported
           D == DOMAIN run
           f == [i \in D |-> Summed(run[i], d)]
<1>0. d \in Kinds
  BY DEF Kinds
<1>1. sets \in Seq(PodRecords)
  BY AskAssumption DEF Reported
<1>2. D = DOMAIN sets /\ \A i \in D : run[i] \in Phases(sets[i])
  BY DEF PhasesOf
<1>3. overhead[d] = OverheadOf(sets, d)
  <2>1. CASE ask.daemonSets = "nil"
    <3>1. sets = <<>> /\ overhead[d] = 0
      BY <2>1 DEF Reported, OptInv, OptInput, Reserved, NoOverhead
    <3>2. Len(sets) = 0
      BY <3>1
    <3> HIDE DEF sets
    <3>3. HasOverhead(sets, d)
      BY <1>0, <1>1, OverheadRuns
    <3>4. OverheadOf(sets, d) = 0
      BY <3>2, <3>3 DEF HasOverhead, IsOverhead
    <3> QED
      BY <3>1, <3>4
  <2>2. CASE ask.daemonSets # "nil"
    BY <2>2 DEF Reported, OptInv, OptInput, Reserved, GetDaemonSetOverhead, OverheadOf
  <2> QED
    BY <2>1, <2>2
<1> HIDE DEF sets
<1>4. \A i \in D : /\ Summed(run[i], d) \in Nat
                    /\ Summed(run[i], d) <= PodOverhead(sets[i], d)
  <2> TAKE i \in D
  <2>1. sets[i] \in PodRecords
    BY <1>1, <1>2
  <2> QED
    BY <1>2, <2>1, OverheadOfPhase
<1>5. IsFiniteSet(D)
  <2>1. D = 1..Len(sets) /\ Len(sets) \in Nat
    BY <1>1, <1>2
  <2> QED
    BY <2>1, FS_Interval
<1>6. MapThenSumSet(LAMBDA i : Summed(run[i], d), D) = Sum(f, D)
  BY <1>4, <1>5, PhasesSum
<1>7. \A i \in DOMAIN sets : f[i] \in Nat /\ f[i] <= PodOverhead(sets[i], d)
  BY <1>2, <1>4
<1> HIDE DEF f
<1>8. Sum(f, DOMAIN sets) \in Nat /\ Sum(f, DOMAIN sets) <= OverheadOf(sets, d)
  BY <1>0, <1>1, <1>7, OverheadCovers
<1> QED
  BY <1>2, <1>3, <1>6, <1>8

LEMMA PhasesInv == OptInv => PhasesFit
<1> SUFFICES ASSUME OptInv, stage \in {"packing", "done"}, NEW n \in Nodes(best.nodes),
                    NEW d \in {"cpu", "mem"},
                    NEW ph \in PhasesOf([p \in n.pods |-> spec[p]]),
                    NEW run \in PhasesOf(Reported)
             PROVE  MapThenSumSet(LAMBDA p : Summed(ph[p], d), n.pods)
                       + MapThenSumSet(LAMBDA i : Summed(run[i], d), DOMAIN run)
                       <= IF d = "cpu" THEN EntryOf(n.type).cpu
                          ELSE EntryOf(n.type).memory \div 4
  BY DEF PhasesFit, EntryOf
<1> DEFINE P == n.pods
           g == [p \in P |-> Summed(ph[p], d)]
           ds  == MapThenSumSet(LAMBDA i : Summed(run[i], d), DOMAIN run)
           has == IF d = "cpu" THEN EntryOf(n.type).cpu ELSE EntryOf(n.type).memory \div 4
<1>0. \A p \in P : ph[p] \in Phases(spec[p])
  BY DEF PhasesOf
<1>1. /\ P \subseteq Wanted /\ n.type \in Available /\ list \in PriceLists
      /\ cap[n.type].cpu = OptionOf(n.type).cpu
      /\ cap[n.type].mem = OptionOf(n.type).memory
  BY NodesListed DEF OptInv, OptInput, Brought
<1>2. has = cap[n.type][d] /\ has \in Nat
  BY <1>1, OptionHas
<1>3. IsFiniteSet(P) /\ \A p \in Wanted : need[p][d] \in Nat
  BY <1>1, FS_Subset DEF OptInv, PackInv, InputOK
<1>4. ASSUME NEW p \in P
      PROVE  /\ g[p] \in Nat /\ g[p] = Summed(ph[p], d)
             /\ NeedOf(d)[p] \in Nat /\ g[p] <= NeedOf(d)[p]
  <2>1. spec[p] \in PodRecords /\ need[p] = GetPodRequirements(spec[p])
    BY <1>1, SpecAssumption DEF OptInv, OptInput, Brought
  <2>2. Summed(ph[p], d) \in Nat /\ Summed(ph[p], d) <= GetPodRequirements(spec[p])[d]
    BY <1>0, <2>1, NeedsOf DEF Kinds
  <2>3. NeedOf(d)[p] = need[p][d] /\ need[p][d] \in Nat
    BY <1>1, <1>3 DEF NeedOf
  <2> QED
    BY <2>1, <2>2, <2>3
<1>5. MapThenSumSet(LAMBDA p : Summed(ph[p], d), P) = Sum(g, P)
  <2>1. \A p \in P : Summed(ph[p], d) \in Nat
    BY <1>4
  <2> QED
    BY <1>3, <2>1, PhasesSum
<1> HIDE DEF g, has
<1>6. Sum(g, P) \in Nat /\ Sum(NeedOf(d), P) \in Nat /\ Sum(g, P) <= Sum(NeedOf(d), P)
  BY <1>3, <1>4, SumUnfolds, SumMonotone
<1>7. Asked(P, d) = Sum(NeedOf(d), P)
  BY <1>1, <1>3, AskedSum
<1>8. Asked(P, d) + overhead[d] <= cap[n.type][d] /\ overhead[d] \in Nat
  BY DEF OptInv, PackInv, NoOversubscription, InputOK
<1>9. ds \in Nat /\ ds <= overhead[d]
  <2>1. Offering /\ ask \in Asks
    <3>1. n.type \in Offered
      BY NodesListed
    <3> QED
      BY <3>1 DEF Offering, OptInv, OptInput, Brought
  <2> QED
    BY <2>1, DaemonSetsFit
<1> HIDE DEF ds
<1>10. Sum(g, P) + ds <= has
  BY <1>2, <1>6, <1>7, <1>8, <1>9
<1> QED
  BY <1>5, <1>10 DEF has, ds

\* In no mixture of phases do the containers of a node's pods and of the
\* DaemonSets ask for more than the instance of the list has.
THEOREM EveryPhaseFits == OptimizerSpec => []PhasesFit
<1>1. OptInv => PhasesFit
  BY PhasesInv
<1> QED
  BY <1>1, OptimizerInvariant, PTL

\* The answer of the optimizer is within the limits of its caller: its regions,
\* its categories by either name or no GPU, the price per node, the total, and
\* the saving that was asked for.
THEOREM LimitsAlwaysKept == OptimizerSpec => []LimitsKept
<1>1. OptInv => LimitsKept
  BY DEF OptInv
<1> QED
  BY <1>1, OptimizerInvariant, PTL

\* The plan has the nodes of the packing, class by class, and the bid of a class
\* lies on the grid, covers each of them, and is at most a step above the dearest.
THEOREM PlanIsThePacking == OptimizerSpec => []PlanMatches
<1>1. OptInv => PlanMatches
  BY DEF OptInv
<1> QED
  BY <1>1, OptimizerInvariant, PTL

\* The two ways to count the pods that fit on a node are the same.
THEOREM CountsAlwaysAgree == OptimizerSpec => []CountsAgree
<1>1. OptInv => CountsAgree
  <2> SUFFICES ASSUME OptInv, strategy = "ffd", overhead = NoOverhead, NEW t \in Offered
               PROVE  /\ CanFitMultiple(cap[t], [i \in DOMAIN pods |-> need[pods[i]]])
                            = Len(Fit(pods, t))
                      /\ \A p \in Wanted : CanFit(cap[t], need[p]) <=> Fit(<<p>>, t) # <<>>
    BY DEF CountsAgree
  <2>1. /\ pods \in Seq(Wanted) /\ InputOK
        /\ \A i, j \in DOMAIN pods : i # j => pods[i] # pods[j]
    BY DEF OptInv, OptInput, PackInv, PackTypes, Distinct, Running
  <2> QED
    BY <2>1, CountsFit, CountsAlone
<1> QED
  BY <1>1, OptimizerInvariant, PTL

\* Without a packing no node is over its GPUs.
LEMMA EmptyWithinGPUs == packed = <<>> /\ best = Nothing => OnlySingleOverGPUs
  BY DEF OnlySingleOverGPUs, Nothing, Nodes

LEMMA OptimizerGPUsStep ==
  OptInv /\ OnlySingleOverGPUs /\ [OptimizerNext]_ovars => OnlySingleOverGPUs'
<1> SUFFICES ASSUME OptInv, OnlySingleOverGPUs, [OptimizerNext]_ovars
             PROVE  OnlySingleOverGPUs'
  OBVIOUS
<1>1. CASE GetAvailableNodeTypes
  <2>1. packed' = <<>> /\ best' = Nothing
    BY <1>1 DEF GetAvailableNodeTypes, OptInv, OptInput, Untouched, PackInv, Sorted
  <2> QED
    BY <2>1 DEF OnlySingleOverGPUs, Nothing, Nodes
<1>2. ASSUME [Next]_vars PROVE OnlySingleOverGPUs'
  BY <1>2, GPUsStep DEF OptInv
<1>3. GetAvailableNodeTypes \/ [Next]_vars
  BY DEF OptimizerNext, PricingFails, NoneAvailable, Packing, NoPods, Refuse, Conclude,
         ovars
<1> QED
  BY <1>1, <1>2, <1>3

\* Whether Pack is called by the optimizer or directly, only a node that takes
\* all the pods may be asked for GPUs it has not.
THEOREM OptimizerForgetsGPUs == OptimizerSpec => []OnlySingleOverGPUs
<1>1. OptimizerInit => OnlySingleOverGPUs
  BY EmptyWithinGPUs DEF OptimizerInit, OptimizeInit, DirectInit, Init
<1>2. OptInv /\ OnlySingleOverGPUs /\ [OptimizerNext]_ovars => OnlySingleOverGPUs'
  BY OptimizerGPUsStep
<1> QED
  BY <1>1, <1>2, OptimizerInvariant, PTL DEF OptimizerSpec

\* Nor do its loops go on, whoever calls it: what the optimizer does before and
\* after leaves Pack's state as it is, and each step of Pack has less to do.
THEOREM OptimizerTerminates == OptimizerSpec => LoopsEnd
<1>1. OptInv /\ OptInv' /\ [OptimizerNext]_ovars
         => [Todo' < Todo]_<<strategy, left, packed, best>>
  <2> SUFFICES ASSUME OptInv, OptInv', [OptimizerNext]_ovars
               PROVE  [Todo' < Todo]_<<strategy, left, packed, best>>
    OBVIOUS
  <2>1. [Next]_vars \/ UNCHANGED <<strategy, left, packed, best>>
    BY DEF OptimizerNext, PricingFails, NoneAvailable, GetAvailableNodeTypes, Packing,
           NoPods, Refuse, Conclude, ovars
  <2>2. CASE [Next]_vars
    BY <2>2, TodoStep DEF OptInv
  <2> QED
    BY <2>1, <2>2
<1> QED
  BY <1>1, OptimizerInvariant, PTL DEF OptimizerSpec, LoopsEnd
=============================================================================
