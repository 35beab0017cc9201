--------------------------- MODULE BinPackProofs ---------------------------
(***************************************************************************)
(* Theorems about BinPack, for any pods, types, prices and overhead.       *)
(***************************************************************************)
EXTENDS BinPack, FiniteSetTheorems, TLAPS

-----------------------------------------------------------------------------
(* Induction, with sets of numbers for the predicates: the theorems of the  *)
(* library that take an operator cannot be instantiated.                   *)

LEMMA Least ==
  ASSUME NEW T \in SUBSET Nat, T # {}
  PROVE  \E m \in T : \A n \in T : m <= n
<1> DEFINE R == OpToRel(<, Nat)
<1>1. IsWellFoundedOn(R, Nat)
  BY NatLessThanWellFounded
<1>2. \A a, b \in Nat : a < b => <<a, b>> \in R
  BY DEF OpToRel
<1> HIDE DEF R
<1>3. PICK m \in T : \A n \in T : <<n, m>> \notin R
  BY <1>1, WFMin
<1>4. \A n \in T : ~(n < m)
  BY <1>2, <1>3
<1> QED
  BY <1>4

LEMMA Inductive ==
  ASSUME NEW T \in SUBSET Nat, 0 \in T, \A n \in T : n + 1 \in T
  PROVE  T = Nat
<1> SUFFICES ASSUME Nat \ T # {} PROVE FALSE
  OBVIOUS
<1>1. PICK m \in Nat \ T : \A n \in Nat \ T : m <= n
  BY Least
<1>2. m # 0 /\ m - 1 \in Nat /\ ~(m <= m - 1)
  BY <1>1
<1>3. m - 1 \in T /\ (m - 1) + 1 = m
  BY <1>1, <1>2
<1> QED
  BY <1>1, <1>3

\* A fold over a finite set picks its elements one after the other.
IsPick(pick, S) == \A s \in SUBSET S : s # {} => pick[s] \in s
IsFold(g, S, base, step, pick) ==
    \A s \in SUBSET S :
        g[s] = IF s = {} THEN base ELSE step[<<pick[s], g[s \ {pick[s]}]>>]

\* There is a function for it.
LEMMA FoldExists ==
  ASSUME NEW S, IsFiniteSet(S), NEW A, NEW base \in A, NEW step \in [S \X A -> A],
         NEW pick, IsPick(pick, S)
  PROVE  \E g \in [SUBSET S -> A] : IsFold(g, S, base, step, pick)
<1> USE DEF IsPick
<1> DEFINE Next1(g, s) == IF s = {} THEN base ELSE step[<<pick[s], g[s \ {pick[s]}]>>]
           Upto(n) == \E g \in [SUBSET S -> A] : \A s \in SUBSET S :
                         Cardinality(s) <= n => g[s] = Next1(g, s)
           T == {n \in Nat : Upto(n)}
<1>0. \A s \in SUBSET S : /\ Cardinality(s) \in Nat
                          /\ Cardinality(s) = 0 <=> s = {}
                          /\ Cardinality(s) <= Cardinality(S)
                          /\ s # {} => Cardinality(s \ {pick[s]}) = Cardinality(s) - 1
  <2> TAKE s \in SUBSET S
  <2>1. IsFiniteSet(s) /\ Cardinality(s) <= Cardinality(S)
    BY FS_Subset
  <2> QED
    BY <2>1, FS_CardinalityType, FS_EmptySet, FS_RemoveElement
<1>0a. \A n \in Nat : n \in T <=> Upto(n)
  <2> HIDE DEF Upto
  <2> QED
    OBVIOUS
<1> HIDE DEF T, Upto, Next1
<1>1. 0 \in T
  <2>1. [s \in SUBSET S |-> base] \in [SUBSET S -> A]
    OBVIOUS
  <2>2. ASSUME NEW s \in SUBSET S, Cardinality(s) <= 0 PROVE s = {}
    <3>1. Cardinality(s) \in Nat /\ (Cardinality(s) = 0 <=> s = {})
      BY <1>0
    <3> QED
      BY <2>2, <3>1
  <2>3. Upto(0)
    BY <2>1, <2>2 DEF Upto, Next1
  <2> QED
    BY <2>3, <1>0a
<1>2. ASSUME NEW n \in T PROVE n + 1 \in T
  <2>1. PICK g \in [SUBSET S -> A] : \A s \in SUBSET S :
                         Cardinality(s) <= n => g[s] = Next1(g, s)
    BY <1>2, <1>0a DEF T, Upto
  <2> DEFINE h == [s \in SUBSET S |-> IF Cardinality(s) <= n THEN g[s] ELSE Next1(g, s)]
  <2>2. \A s \in SUBSET S : Next1(g, s) \in A
    BY <2>1 DEF Next1
  <2>3. h \in [SUBSET S -> A]
    BY <2>1, <2>2
  <2>4. ASSUME NEW s \in SUBSET S, Cardinality(s) <= n + 1
        PROVE  h[s] = Next1(h, s)
    <3>1. h[s] = Next1(g, s)
      BY <2>1
    <3>a. Cardinality(s) \in Nat /\ n \in Nat
      BY <1>0 DEF T
    <3>b. s # {} => Cardinality(s \ {pick[s]}) = Cardinality(s) - 1
      BY <1>0
    <3>2. s # {} => Cardinality(s \ {pick[s]}) <= n
      BY <3>a, <3>b, <2>4
    <3>3. s # {} => h[s \ {pick[s]}] = g[s \ {pick[s]}]
      BY <3>2
    <3> QED
      BY <3>1, <3>3 DEF Next1
  <2> HIDE DEF h
  <2>5. Upto(n + 1)
    BY <2>3, <2>4 DEF Upto
  <2>6. n + 1 \in Nat
    BY <1>2 DEF T
  <2> QED
    BY <2>5, <2>6, <1>0a
<1>3. T = Nat
  <2>1. T \in SUBSET Nat
    BY DEF T
  <2> QED
    BY <1>1, <1>2, <2>1, Inductive
<1>4. Cardinality(S) \in Nat
  BY <1>0
<1>5. Upto(Cardinality(S))
  BY <1>3, <1>4, <1>0a
<1>6. PICK g \in [SUBSET S -> A] :
            \A s \in SUBSET S : Cardinality(s) <= Cardinality(S) => g[s] = Next1(g, s)
  BY <1>5 DEF Upto
<1> QED
  BY <1>6, <1>0 DEF Next1, IsFold

\* There is only one such function.
LEMMA FoldUnique ==
  ASSUME NEW S, IsFiniteSet(S), NEW base, NEW step, NEW pick, IsPick(pick, S),
         NEW g, IsFold(g, S, base, step, pick),
         NEW h, IsFold(h, S, base, step, pick)
  PROVE  \A s \in SUBSET S : g[s] = h[s]
<1> USE DEF IsPick, IsFold
<1> SUFFICES ASSUME NEW s0 \in SUBSET S, g[s0] # h[s0] PROVE FALSE
  OBVIOUS
<1> DEFINE T == {Cardinality(s) : s \in {x \in SUBSET S : g[x] # h[x]}}
<1>1. \A s \in SUBSET S : IsFiniteSet(s) /\ Cardinality(s) \in Nat
  BY FS_Subset, FS_CardinalityType
<1>2. T \in SUBSET Nat /\ T # {}
  BY <1>1
<1>3. PICK m \in T : \A n \in T : m <= n
  BY <1>2, Least
<1>4. PICK s \in SUBSET S : g[s] # h[s] /\ m = Cardinality(s)
  BY <1>3
<1>5. s # {}
  BY <1>4
<1> DEFINE r == s \ {pick[s]}
<1>6. Cardinality(r) = m - 1 /\ m \in Nat
  BY <1>1, <1>4, <1>5, FS_RemoveElement
<1>7. r \in SUBSET S /\ g[r] # h[r]
  BY <1>4, <1>5
<1>8. Cardinality(r) \in T
  BY <1>7
<1>9. m <= Cardinality(r)
  BY <1>3, <1>8
<1> QED
  BY <1>6, <1>9

-----------------------------------------------------------------------------
(* Sums over finite sets.                                                  *)

Sum(f, S) == MapThenSumSet(LAMBDA x : f[x], S)

Chosen(s) == CHOOSE x \in s : TRUE
IsSumming(g, f, S) ==
    \A s \in SUBSET S :
        g[s] = IF s = {} THEN 0 ELSE f[Chosen(s)] + g[s \ {Chosen(s)}]

LEMMA SummingExists ==
  ASSUME NEW S, IsFiniteSet(S), NEW f, \A x \in S : f[x] \in Nat
  PROVE  \E g \in [SUBSET S -> Nat] : IsSumming(g, f, S)
<1> DEFINE pick == [s \in SUBSET S |-> Chosen(s)]
           step == [xa \in S \X Nat |-> f[xa[1]] + xa[2]]
<1>1. IsPick(pick, S)
  BY DEF Chosen, IsPick
<1>2. step \in [S \X Nat -> Nat]
  OBVIOUS
<1>3. \A x \in S, a \in Nat : step[<<x, a>>] = f[x] + a
  OBVIOUS
<1>4. \A s \in SUBSET S : pick[s] = Chosen(s)
  OBVIOUS
<1> HIDE DEF pick, step
<1>5. PICK g \in [SUBSET S -> Nat] : IsFold(g, S, 0, step, pick)
  BY <1>1, <1>2, FoldExists
<1>6. ASSUME NEW s \in SUBSET S, s # {}
      PROVE  g[s] = f[Chosen(s)] + g[s \ {Chosen(s)}]
  <2>1. Chosen(s) \in S /\ s \ {Chosen(s)} \in SUBSET S
    BY <1>1, <1>4, <1>6 DEF IsPick
  <2>2. g[s \ {Chosen(s)}] \in Nat
    BY <2>1
  <2> QED
    BY <1>3, <1>4, <1>5, <1>6, <2>1, <2>2 DEF IsFold
<1>7. g[{}] = 0
  BY <1>5 DEF IsFold
<1> QED
  BY <1>6, <1>7 DEF IsSumming

LEMMA SummingUnique ==
  ASSUME NEW S, IsFiniteSet(S), NEW f,
         NEW g, IsSumming(g, f, S), NEW h, IsSumming(h, f, S)
  PROVE  \A s \in SUBSET S : g[s] = h[s]
<1> DEFINE pick == [s \in SUBSET S |-> Chosen(s)]
           A == {g[s] : s \in SUBSET S} \cup {h[s] : s \in SUBSET S}
           step == [xa \in S \X A |-> f[xa[1]] + xa[2]]
<1>1. \A s \in SUBSET S : pick[s] = Chosen(s) /\ (s # {} => pick[s] \in s)
  BY DEF Chosen
<1>2. \A x \in S, a \in A : step[<<x, a>>] = f[x] + a
  OBVIOUS
<1>3. \A s \in SUBSET S : g[s] \in A /\ h[s] \in A
  OBVIOUS
<1> HIDE DEF pick, step, A
<1>4. ASSUME NEW s \in SUBSET S
      PROVE  /\ g[s] = IF s = {} THEN 0 ELSE step[<<pick[s], g[s \ {pick[s]}]>>]
             /\ h[s] = IF s = {} THEN 0 ELSE step[<<pick[s], h[s \ {pick[s]}]>>]
  <2>1. CASE s = {}
    BY <2>1 DEF IsSumming
  <2>2. CASE s # {}
    <3>1. pick[s] \in S /\ s \ {pick[s]} \in SUBSET S
      BY <1>1, <2>2
    <3>2. g[s \ {pick[s]}] \in A /\ h[s \ {pick[s]}] \in A
      BY <1>3, <3>1
    <3>3. /\ step[<<pick[s], g[s \ {pick[s]}]>>] = f[pick[s]] + g[s \ {pick[s]}]
          /\ step[<<pick[s], h[s \ {pick[s]}]>>] = f[pick[s]] + h[s \ {pick[s]}]
      BY <1>2, <3>1, <3>2
    <3>4. /\ g[s] = f[pick[s]] + g[s \ {pick[s]}]
          /\ h[s] = f[pick[s]] + h[s \ {pick[s]}]
      BY <1>1, <2>2 DEF IsSumming
    <3> QED
      BY <2>2, <3>3, <3>4
  <2> QED
    BY <2>1, <2>2
<1>5. IsPick(pick, S)
  BY <1>1 DEF IsPick
<1>6. IsFold(g, S, 0, step, pick) /\ IsFold(h, S, 0, step, pick)
  BY <1>4 DEF IsFold
<1> QED
  BY <1>5, <1>6, FoldUnique

LEMMA SumSumming ==
  ASSUME NEW S, IsFiniteSet(S), NEW f, \A x \in S : f[x] \in Nat
  PROVE  \E g \in [SUBSET S -> Nat] : IsSumming(g, f, S) /\ Sum(f, S) = g[S]
<1> DEFINE Body(g) == [s \in SUBSET S |-> IF s = {} THEN 0
                 ELSE f[Chosen(s)] + g[s \ {Chosen(s)}]]
           it == CHOOSE g : g = Body(g)
<1>1. PICK g \in [SUBSET S -> Nat] : IsSumming(g, f, S)
  BY SummingExists
<1>2. g = Body(g)
  BY <1>1 DEF IsSumming
<1>3. it = Body(it)
  <2> HIDE DEF Body
  <2> QED
    BY <1>2
<1>4. Sum(f, S) = it[S]
  BY DEF Sum, MapThenSumSet, MapThenFoldSet, Chosen
<1> HIDE DEF Body
<1>6. it \in [SUBSET S -> Nat] /\ IsSumming(it, f, S)
  <2>1. IsSumming(it, f, S)
    BY <1>3 DEF Body, IsSumming
  <2>2. \A s \in SUBSET S : it[s] = g[s]
    BY <1>1, <2>1, SummingUnique
  <2> QED
    BY <1>1, <1>3, <2>1, <2>2 DEF Body
<1> QED
  BY <1>4, <1>6

LEMMA SumUnfolds ==
  ASSUME NEW S, IsFiniteSet(S), NEW f, \A x \in S : f[x] \in Nat
  PROVE  /\ Sum(f, S) \in Nat
         /\ S = {} => Sum(f, S) = 0
         /\ S # {} => /\ Chosen(S) \in S
                      /\ Sum(f, S) = f[Chosen(S)] + Sum(f, S \ {Chosen(S)})
<1>1. PICK g \in [SUBSET S -> Nat] : IsSumming(g, f, S) /\ Sum(f, S) = g[S]
  BY SumSumming
<1>2. g[S] \in Nat /\ (S = {} => g[S] = 0)
  BY <1>1 DEF IsSumming
<1>3. ASSUME S # {}
      PROVE  /\ Chosen(S) \in S
             /\ Sum(f, S) = f[Chosen(S)] + Sum(f, S \ {Chosen(S)})
  <2> DEFINE R == S \ {Chosen(S)}
  <2>1. Chosen(S) \in S
    BY <1>3 DEF Chosen
  <2>2. IsFiniteSet(R) /\ R \in SUBSET S
    BY FS_RemoveElement
  <2>3. PICK h \in [SUBSET R -> Nat] : IsSumming(h, f, R) /\ Sum(f, R) = h[R]
    BY <2>2, SumSumming
  <2>4. IsSumming(g, f, R)
    BY <1>1, <2>2 DEF IsSumming
  <2>5. g[R] = h[R]
    BY <2>2, <2>3, <2>4, SummingUnique
  <2>6. g[S] = f[Chosen(S)] + g[R]
    BY <1>1, <1>3 DEF IsSumming
  <2> QED
    BY <1>1, <2>1, <2>3, <2>5, <2>6
<1> QED
  BY <1>1, <1>2, <1>3

\* Whichever element is taken out of the sum.
LEMMA SumRemoves ==
  ASSUME NEW S, IsFiniteSet(S), NEW f, \A x \in S : f[x] \in Nat
  PROVE  \A T \in SUBSET S : \A e \in T : Sum(f, T) = f[e] + Sum(f, T \ {e})
<1> DEFINE Takes(T) == \A e \in T : Sum(f, T) = f[e] + Sum(f, T \ {e})
           Bad == {T \in SUBSET S : ~Takes(T)}
           Sizes == {Cardinality(T) : T \in Bad}
<1>1. \A T \in SUBSET S : IsFiniteSet(T) /\ Cardinality(T) \in Nat /\ Sum(f, T) \in Nat
  BY FS_Subset, FS_CardinalityType, SumUnfolds
<1> HIDE DEF Takes
<1> SUFFICES ASSUME Bad # {} PROVE FALSE
  BY DEF Takes
<1>2. Sizes \in SUBSET Nat /\ Sizes # {}
  BY <1>1
<1>3. PICK m \in Sizes : \A n \in Sizes : m <= n
  BY <1>2, Least
<1>4. PICK T \in Bad : m = Cardinality(T)
  BY <1>3
<1>5. \A U \in SUBSET S : Cardinality(U) < m => Takes(U)
  BY <1>1, <1>2, <1>3
<1>6. PICK e \in T : Sum(f, T) # f[e] + Sum(f, T \ {e})
  BY <1>4 DEF Takes
<1> DEFINE c == Chosen(T)
<1>7. T \in SUBSET S /\ T # {} /\ IsFiniteSet(T) /\ m \in Nat
  BY <1>1, <1>4, <1>6
<1>8. c \in T /\ Sum(f, T) = f[c] + Sum(f, T \ {c})
  BY <1>7, SumUnfolds
<1> HIDE DEF c
<1>9. e # c
  BY <1>6, <1>8
<1>10. /\ Cardinality(T \ {c}) < m /\ Cardinality(T \ {e}) < m
  BY <1>1, <1>4, <1>6, <1>7, <1>8, FS_RemoveElement
<1>11. Sum(f, T \ {c}) = f[e] + Sum(f, (T \ {c}) \ {e})
  BY <1>5, <1>6, <1>7, <1>9, <1>10 DEF Takes
<1>12. Sum(f, T \ {e}) = f[c] + Sum(f, (T \ {e}) \ {c})
  BY <1>5, <1>7, <1>8, <1>9, <1>10 DEF Takes
<1>13. (T \ {c}) \ {e} = (T \ {e}) \ {c}
  OBVIOUS
<1>14. f[c] \in Nat /\ f[e] \in Nat /\ Sum(f, (T \ {e}) \ {c}) \in Nat
  BY <1>1, <1>6, <1>7, <1>8
<1>15. Sum(f, (T \ {c}) \ {e}) = Sum(f, (T \ {e}) \ {c})
  BY <1>13
<1>16. Sum(f, T) = f[e] + Sum(f, T \ {e})
  BY <1>8, <1>11, <1>12, <1>14, <1>15
<1> QED
  BY <1>6, <1>16

LEMMA SumAdds ==
  ASSUME NEW S, IsFiniteSet(S), NEW f, \A x \in S : f[x] \in Nat, NEW e \in S,
         NEW T \in SUBSET S, e \notin T
  PROVE  Sum(f, T \cup {e}) = f[e] + Sum(f, T)
<1>1. T \cup {e} \in SUBSET S /\ (T \cup {e}) \ {e} = T
  OBVIOUS
<1> QED
  BY <1>1, SumRemoves

LEMMA SumSame ==
  ASSUME NEW S, IsFiniteSet(S), NEW f, NEW g,
         \A x \in S : f[x] \in Nat /\ g[x] = f[x]
  PROVE  Sum(f, S) = Sum(g, S)
<1>1. PICK h \in [SUBSET S -> Nat] : IsSumming(h, f, S) /\ Sum(f, S) = h[S]
  BY SumSumming
<1>2. PICK k \in [SUBSET S -> Nat] : IsSumming(k, g, S) /\ Sum(g, S) = k[S]
  BY SumSumming
<1>3. IsSumming(h, g, S)
  <2>1. \A s \in SUBSET S : s # {} => Chosen(s) \in S
    BY DEF Chosen
  <2> QED
    BY <1>1, <2>1 DEF IsSumming
<1> QED
  BY <1>1, <1>2, <1>3, SummingUnique

\* Fewer or smaller summands have no larger sum.
LEMMA SumMonotone ==
  ASSUME NEW S, IsFiniteSet(S), NEW f, NEW g,
         \A x \in S : f[x] \in Nat /\ g[x] \in Nat /\ f[x] <= g[x]
  PROVE  Sum(f, S) <= Sum(g, S)
<1> DEFINE Bad == {T \in SUBSET S : ~(Sum(f, T) <= Sum(g, T))}
           Sizes == {Cardinality(T) : T \in Bad}
<1>1. \A T \in SUBSET S : /\ IsFiniteSet(T) /\ Cardinality(T) \in Nat
                          /\ Sum(f, T) \in Nat /\ Sum(g, T) \in Nat
  BY FS_Subset, FS_CardinalityType, SumUnfolds
<1> SUFFICES ASSUME Bad # {} PROVE FALSE
  OBVIOUS
<1>2. Sizes \in SUBSET Nat /\ Sizes # {}
  BY <1>1
<1>3. PICK m \in Sizes : \A n \in Sizes : m <= n
  BY <1>2, Least
<1>4. PICK T \in Bad : m = Cardinality(T)
  BY <1>3
<1>5. T # {}
  <2>1. Sum(f, {}) = 0 /\ Sum(g, {}) = 0
    BY FS_EmptySet, SumUnfolds
  <2> QED
    BY <1>4, <2>1
<1>6. PICK e \in T : TRUE
  BY <1>5
<1> DEFINE R == T \ {e}
<1>7. R \in SUBSET S /\ Cardinality(R) = m - 1 /\ m \in Nat
  BY <1>1, <1>4, <1>6, FS_RemoveElement
<1>8. R \notin Bad
  <2> SUFFICES ASSUME R \in Bad PROVE FALSE
    OBVIOUS
  <2>1. m <= Cardinality(R)
    BY <1>3
  <2> QED
    BY <1>7, <2>1
<1>9. Sum(f, R) <= Sum(g, R)
  BY <1>7, <1>8
<1>10. Sum(f, T) = f[e] + Sum(f, R) /\ Sum(g, T) = g[e] + Sum(g, R)
  BY <1>4, <1>6, SumRemoves
<1>11. /\ f[e] \in Nat /\ g[e] \in Nat /\ f[e] <= g[e]
       /\ Sum(f, R) \in Nat /\ Sum(g, R) \in Nat
       /\ ~(Sum(f, T) <= Sum(g, T))
  BY <1>1, <1>4, <1>6, <1>7
<1> QED
  BY <1>9, <1>10, <1>11

-----------------------------------------------------------------------------
(* What a set of pods asks for.                                            *)

NeedOf(d) == [p \in Wanted |-> need[p][d]]

LEMMA AskedSum ==
  ASSUME NEW P \in SUBSET Wanted, IsFiniteSet(P), NEW d,
         \A p \in Wanted : need[p][d] \in Nat
  PROVE  Asked(P, d) = Sum(NeedOf(d), P)
<1> DEFINE f == NeedOf(d)
           Body(g) == [s \in SUBSET P |-> IF s = {} THEN 0
                 ELSE need[Chosen(s)][d] + g[s \ {Chosen(s)}]]
           it == CHOOSE g : g = Body(g)
<1>1. PICK g \in [SUBSET P -> Nat] : IsSumming(g, f, P) /\ Sum(f, P) = g[P]
  <2>1. \A p \in P : f[p] \in Nat
    BY DEF NeedOf
  <2> QED
    BY <2>1, SumSumming
<1>2. \A s \in SUBSET P : s # {} => f[Chosen(s)] = need[Chosen(s)][d]
  BY DEF Chosen, NeedOf
<1>3. g = Body(g)
  BY <1>1, <1>2 DEF IsSumming
<1>4. it = Body(it)
  <2> HIDE DEF Body
  <2> QED
    BY <1>3
<1>5. Asked(P, d) = it[P]
  BY DEF Asked, MapThenSumSet, MapThenFoldSet, Chosen
<1> HIDE DEF it, f
<1>6. IsSumming(it, f, P)
  BY <1>2, <1>4 DEF IsSumming
<1>7. it[P] = g[P]
  BY <1>1, <1>6, SummingUnique
<1> QED
  BY <1>1, <1>5, <1>7 DEF f

-----------------------------------------------------------------------------
(* Folds over sequences, from the left.                                    *)

LEMMA UpTo ==
  ASSUME NEW n \in Nat, NEW T, 0 \in T, \A i \in 1..n : i - 1 \in T => i \in T
  PROVE  \A i \in 0..n : i \in T
<1> DEFINE U == {i \in Nat : i <= n => i \in T}
<1>1. 0 \in U
  OBVIOUS
<1>2. ASSUME NEW i \in U PROVE i + 1 \in U
  <2>1. CASE i + 1 <= n
    <3>1. i + 1 \in 1..n /\ (i + 1) - 1 = i /\ i <= n
      BY <2>1
    <3> QED
      BY <3>1
  <2> QED
    BY <2>1
<1>3. U = Nat
  <2>1. U \in SUBSET Nat
    OBVIOUS
  <2> HIDE DEF U
  <2> QED
    BY <1>1, <1>2, <2>1, Inductive
<1> QED
  BY <1>3

LEMMA MaxUpTo ==
  ASSUME NEW n \in Nat, NEW s \in SUBSET (1..n), s # {}
  PROVE  Max(s) \in s /\ \A i \in s : i <= Max(s)
<1> DEFINE T == {n - i : i \in s}
<1>0. \A i \in s : i \in Nat /\ i <= n /\ n - i \in Nat
  OBVIOUS
<1>1. T \in SUBSET Nat /\ T # {}
  BY <1>0
<1>2. PICK m \in T : \A i \in T : m <= i
  BY <1>1, Least
<1>3. PICK x \in s : m = n - x
  BY <1>2
<1>4. ASSUME NEW y \in s PROVE x >= y
  <2>1. n - x <= n - y
    BY <1>2, <1>3
  <2> QED
    BY <1>0, <2>1
<1> QED
  BY <1>3, <1>4 DEF Max

LEMMA MaxOfUpTo ==
  ASSUME NEW i \in Nat \ {0}
  PROVE  Max(1..i) = i
<1>2. i \in 1..i /\ 1..i \in SUBSET (1..i) /\ 1..i # {} /\ i \in Nat
  OBVIOUS
<1>1. Max(1..i) \in 1..i /\ \A j \in 1..i : j <= Max(1..i)
  BY <1>2, MaxUpTo
<1>3. i <= Max(1..i)
  BY <1>1, <1>2
<1> QED
  BY <1>1, <1>3

LEMMA LastIn ==
  ASSUME NEW S, NEW seq \in Seq(S), NEW s \in SUBSET DOMAIN seq, s # {}
  PROVE  Max(s) \in DOMAIN seq /\ seq[Max(s)] \in S
<1>1. DOMAIN seq = 1..Len(seq) /\ Len(seq) \in Nat
  OBVIOUS
<1>2. Max(s) \in DOMAIN seq
  BY <1>1, MaxUpTo
<1> QED
  BY <1>1, <1>2

\* The function that such a fold is defined by.
IsRun(g, seq, S, A, base, step) ==
    \A s \in SUBSET DOMAIN seq :
        /\ s = {} => g[s] = base
        /\ s # {} => /\ g[s \ {Max(s)}] \in A /\ seq[Max(s)] \in S
                     /\ g[s] = step[<<g[s \ {Max(s)}], seq[Max(s)]>>]
LEMMA RunExists ==
  ASSUME NEW S, NEW seq \in Seq(S), NEW A, NEW base \in A, NEW step \in [A \X S -> A]
  PROVE  \E g \in [SUBSET (DOMAIN seq) -> A] : IsRun(g, seq, S, A, base, step)
<1> DEFINE D == DOMAIN seq
           pick == [s \in SUBSET D |-> Max(s)]
           istep == [xa \in D \X A |-> step[<<xa[2], seq[xa[1]]>>]]
<1>0. D = 1..Len(seq) /\ Len(seq) \in Nat /\ IsFiniteSet(D)
  BY FS_Interval
<1>1. \A s \in SUBSET D : s # {} => Max(s) \in s
  BY <1>0, MaxUpTo
<1>2. IsPick(pick, D)
  BY <1>1 DEF IsPick
<1>3. istep \in [D \X A -> A]
  OBVIOUS
<1>4. PICK g \in [SUBSET D -> A] : IsFold(g, D, base, istep, pick)
  BY <1>0, <1>2, <1>3, FoldExists
<1>5. ASSUME NEW s \in SUBSET D, s # {}
      PROVE  /\ g[s \ {Max(s)}] \in A /\ seq[Max(s)] \in S
             /\ g[s] = step[<<g[s \ {Max(s)}], seq[Max(s)]>>]
  <2>1. Max(s) \in D /\ s \ {Max(s)} \in SUBSET D
    BY <1>1, <1>5
  <2>2. g[s \ {Max(s)}] \in A /\ seq[Max(s)] \in S
    BY <2>1
  <2>3. g[s] = istep[<<pick[s], g[s \ {pick[s]}]>>]
    BY <1>4, <1>5 DEF IsFold
  <2> QED
    BY <2>1, <2>2, <2>3
<1>6. g[{}] = base
  BY <1>4 DEF IsFold
<1> QED
  BY <1>5, <1>6 DEF IsRun

\* Its values, element by element: for what the fold is defined by, before its
\* type is known.
Runs(it, seq, A, base, step) ==
    \A s \in SUBSET DOMAIN seq :
        /\ s = {} => it[s] = base
        /\ s # {} /\ it[s \ {Max(s)}] \in A =>
              it[s] = step[<<it[s \ {Max(s)}], seq[Max(s)]>>]

IsTrace(k, seq, base, step) ==
    /\ k[0] = base
    /\ \A i \in 1..Len(seq) : k[i] = step[<<k[i-1], seq[i]>>]
HasTrace(it, seq, A, base, step) ==
    \E k \in [0..Len(seq) -> A] :
        IsTrace(k, seq, base, step) /\ k[Len(seq)] = it[DOMAIN seq]

LEMMA RunSteps ==
  ASSUME NEW S, NEW seq \in Seq(S), NEW A, NEW base \in A, NEW step \in [A \X S -> A],
         NEW it, Runs(it, seq, A, base, step)
  PROVE  HasTrace(it, seq, A, base, step)
<1> DEFINE V(i) == it[1..i]
           k == [i \in 0..Len(seq) |-> V(i)]
           T == {i \in 0..Len(seq) : V(i) \in A}
<1>0. DOMAIN seq = 1..Len(seq) /\ Len(seq) \in Nat
  OBVIOUS
<1>1. V(0) = base
  <2>1. {} \in SUBSET DOMAIN seq /\ 1..0 = {}
    OBVIOUS
  <2>2. it[{}] = base
    BY <2>1 DEF Runs
  <2> QED
    BY <2>1, <2>2
<1>2. ASSUME NEW i \in 1..Len(seq), V(i-1) \in A
      PROVE  V(i) = step[<<V(i-1), seq[i]>>]
  <2>1. i \in Nat \ {0}
    BY <1>0
  <2>2. Max(1..i) = i
    BY <2>1, MaxOfUpTo
  <2>3. 1..i \in SUBSET DOMAIN seq /\ 1..i # {}
    <3>1. i \in 1..i /\ \A j \in 1..i : j \in 1..Len(seq)
      BY <1>0, <2>1
    <3> QED
      BY <1>0, <3>1
  <2>4. (1..i) \ {i} = 1..(i-1)
    BY <2>1
  <2>5. (1..i) \ {Max(1..i)} = 1..(i-1)
    BY <2>2, <2>4
  <2>6. it[1..i] = step[<<it[(1..i) \ {Max(1..i)}], seq[Max(1..i)]>>]
    BY <1>2, <2>3, <2>5 DEF Runs
  <2> QED
    BY <2>2, <2>5, <2>6
<1> HIDE DEF V
<1>3. 0 \in T
  BY <1>0, <1>1
<1>4. ASSUME NEW i \in 1..Len(seq), i - 1 \in T PROVE i \in T
  <2>1. V(i-1) \in A /\ seq[i] \in S
    BY <1>4
  <2>2. V(i) \in A
    BY <1>2, <2>1
  <2> QED
    BY <1>0, <2>2
<1>5. \A i \in 0..Len(seq) : i \in T
  <2> HIDE DEF T
  <2> QED
    BY <1>0, <1>3, <1>4, UpTo
<1>6. k \in [0..Len(seq) -> A]
  BY <1>5
<1>7. IsTrace(k, seq, base, step)
  <2>1. k[0] = base
    BY <1>0, <1>1
  <2>2. ASSUME NEW i \in 1..Len(seq) PROVE k[i] = step[<<k[i-1], seq[i]>>]
    <3>1. i - 1 \in 0..Len(seq) /\ i \in 0..Len(seq)
      BY <1>0
    <3>2. V(i) = step[<<V(i-1), seq[i]>>]
      BY <1>2, <1>5, <3>1
    <3> QED
      BY <3>1, <3>2
  <2> QED
    BY <2>1, <2>2 DEF IsTrace
<1>8. k[Len(seq)] = it[DOMAIN seq]
  BY <1>0 DEF V
<1> HIDE DEF k
<1> QED
  BY <1>6, <1>7, <1>8 DEF HasTrace

-----------------------------------------------------------------------------
(* fitPodsToNode.                                                          *)

IsFitting(k, seq, t) ==
    /\ k[0] = <<>> /\ k[Len(seq)] = Fit(seq, t)
    /\ \A i \in 1..Len(seq) : k[i] = Taking(k[i-1], seq[i], t)
HasFitting(S, seq, t) == \E k \in [0..Len(seq) -> Seq(S)] : IsFitting(k, seq, t)

LEMMA FitRuns ==
  ASSUME NEW S, NEW seq \in Seq(S), NEW t
  PROVE  HasFitting(S, seq, t)
<1> DEFINE A == Seq(S)
           step == [ax \in A \X S |-> Taking(ax[1], ax[2], t)]
           Body(g) == [s \in SUBSET DOMAIN seq |-> IF s = {} THEN <<>>
                          ELSE Taking(g[s \ {Max(s)}], seq[Max(s)], t)]
           it == CHOOSE g : g = Body(g)
<1>1. step \in [A \X S -> A] /\ <<>> \in A
  BY DEF Taking
<1>2. \A a \in A, x \in S : step[<<a, x>>] = Taking(a, x, t)
  OBVIOUS
<1>3. \A s \in SUBSET DOMAIN seq : s # {} => seq[Max(s)] \in S
  BY LastIn
<1>4. Fit(seq, t) = it[DOMAIN seq]
  BY DEF Fit, FoldLeft, MapThenFoldSet
<1> HIDE DEF A, step
<1>5. PICK g \in [SUBSET DOMAIN seq -> A] : IsRun(g, seq, S, A, <<>>, step)
  BY <1>1, RunExists DEF A
<1>6. g = Body(g)
  BY <1>2, <1>5 DEF IsRun
<1>7. it = Body(it)
  <2> HIDE DEF Body
  <2> QED
    BY <1>6
<1> HIDE DEF it, Body
<1>8. Runs(it, seq, A, <<>>, step)
  BY <1>2, <1>3, <1>7 DEF Runs, Body
<1>9. PICK k \in [0..Len(seq) -> A] :
            IsTrace(k, seq, <<>>, step) /\ k[Len(seq)] = it[DOMAIN seq]
  <2>1. HasTrace(it, seq, A, <<>>, step)
    BY <1>1, <1>8, RunSteps
  <2> QED
    BY <2>1 DEF HasTrace
<1>10. ASSUME NEW i \in 1..Len(seq) PROVE k[i] = Taking(k[i-1], seq[i], t)
  <2>1. k[i-1] \in A /\ seq[i] \in S
    OBVIOUS
  <2> QED
    BY <1>2, <1>9, <2>1 DEF IsTrace
<1> QED
  BY <1>4, <1>9, <1>10 DEF IsTrace, HasFitting, IsFitting, A

LEMMA Appended ==
  ASSUME NEW S, NEW seq \in Seq(S), NEW x \in S
  PROVE  /\ ToSet(Append(seq, x)) = ToSet(seq) \cup {x} /\ Append(seq, x) # <<>>
         /\ Append(seq, x) \in Seq(S)
<1>1. /\ Append(seq, x) \in Seq(S) /\ Len(Append(seq, x)) = Len(seq) + 1
      /\ DOMAIN Append(seq, x) = 1..(Len(seq) + 1) /\ DOMAIN seq = 1..Len(seq)
      /\ Len(seq) \in Nat
      /\ \A i \in 1..Len(seq) : Append(seq, x)[i] = seq[i]
      /\ Append(seq, x)[Len(seq) + 1] = x
  OBVIOUS
<1>2. ToSet(Append(seq, x)) \subseteq ToSet(seq) \cup {x}
  BY <1>1 DEF ToSet
<1>3. ToSet(seq) \subseteq ToSet(Append(seq, x))
  BY <1>1 DEF ToSet
<1>4. x \in ToSet(Append(seq, x))
  <2>1. Len(seq) + 1 \in DOMAIN Append(seq, x)
    BY <1>1
  <2> QED
    BY <1>1, <2>1 DEF ToSet
<1> QED
  BY <1>1, <1>2, <1>3, <1>4

\* It takes only pods that are in its list, and no more than there is room for.
LEMMA FitTakes ==
  ASSUME NEW S, NEW seq \in Seq(S), NEW t
  PROVE  /\ Fit(seq, t) \in Seq(S) /\ ToSet(Fit(seq, t)) \subseteq ToSet(seq)
         /\ Fit(seq, t) # <<>> => \A d \in {"cpu", "mem", "gpu"} :
               Asked(ToSet(Fit(seq, t)), d) <= Room(t, d)
<1>0. HasFitting(S, seq, t)
  BY FitRuns
<1>1. PICK k \in [0..Len(seq) -> Seq(S)] : IsFitting(k, seq, t)
  BY <1>0 DEF HasFitting
<1> USE DEF IsFitting
<1> DEFINE Good(a) == /\ ToSet(a) \subseteq ToSet(seq)
                      /\ a # <<>> => \A d \in {"cpu", "mem", "gpu"} :
                            Asked(ToSet(a), d) <= Room(t, d)
           T == {i \in 0..Len(seq) : Good(k[i])}
<1>2. Len(seq) \in Nat /\ DOMAIN seq = 1..Len(seq)
  OBVIOUS
<1>3. Good(<<>>)
  BY DEF ToSet
<1>4. ASSUME NEW a \in Seq(S), Good(a), NEW i \in 1..Len(seq)
      PROVE  Good(Taking(a, seq[i], t))
  <2>1. seq[i] \in S /\ seq[i] \in ToSet(seq)
    BY <1>2 DEF ToSet
  <2>2. ToSet(Append(a, seq[i])) = ToSet(a) \cup {seq[i]}
    BY <2>1, Appended
  <2> QED
    BY <1>4, <2>1, <2>2 DEF Taking, HasRoom
<1> HIDE DEF Good
<1>5. 0 \in T
  BY <1>1, <1>2, <1>3
<1>6. ASSUME NEW i \in 1..Len(seq), i - 1 \in T PROVE i \in T
  BY <1>1, <1>2, <1>4, <1>6
<1>7. \A i \in 0..Len(seq) : i \in T
  <2> HIDE DEF T
  <2> QED
    BY <1>2, <1>5, <1>6, UpTo
<1>8. Good(Fit(seq, t)) /\ Fit(seq, t) \in Seq(S)
  BY <1>1, <1>2, <1>7
<1> QED
  BY <1>8 DEF Good

\* Where one of the pods has room alone, one of them is taken.
LEMMA FitTakesSome ==
  ASSUME NEW S, NEW seq \in Seq(S), NEW t, NEW p \in ToSet(seq), HasRoom(<<>>, p, t)
  PROVE  Fit(seq, t) # <<>>
<1>0. HasFitting(S, seq, t)
  BY FitRuns
<1>1. PICK k \in [0..Len(seq) -> Seq(S)] : IsFitting(k, seq, t)
  BY <1>0 DEF HasFitting
<1> USE DEF IsFitting
<1>2. Len(seq) \in Nat /\ DOMAIN seq = 1..Len(seq)
  OBVIOUS
<1>3. PICK j \in 1..Len(seq) : seq[j] = p
  BY <1>2 DEF ToSet
<1> DEFINE T == {i \in 0..Len(seq) : i >= j => k[i] # <<>>}
<1>4. 0 \in T
  BY <1>2
<1>5. ASSUME NEW i \in 1..Len(seq), i - 1 \in T PROVE i \in T
  <2>0. k[i-1] \in Seq(S) /\ seq[i] \in S
    BY <1>2
  <2>1. Append(k[i-1], seq[i]) # <<>>
    BY <2>0, Appended
  <2>2. CASE i = j
    <3>1. k[i-1] = <<>> => k[i] = Append(k[i-1], seq[i])
      BY <1>1, <1>3, <2>2 DEF Taking
    <3>2. k[i-1] # <<>> => k[i] # <<>>
      BY <1>1, <2>1 DEF Taking
    <3> QED
      BY <1>2, <2>1, <3>1, <3>2
  <2>3. CASE i # j
    <3>1. i >= j => k[i-1] # <<>>
      BY <1>2, <1>5, <2>3
    <3>2. k[i] = Append(k[i-1], seq[i]) \/ k[i] = k[i-1]
      BY <1>1 DEF Taking
    <3> QED
      BY <1>2, <2>1, <3>1, <3>2
  <2> QED
    BY <2>2, <2>3
<1>6. \A i \in 0..Len(seq) : i \in T
  <2> HIDE DEF T
  <2> QED
    BY <1>2, <1>4, <1>5, UpTo
<1>7. Len(seq) \in T /\ Len(seq) >= j
  BY <1>2, <1>6
<1> QED
  BY <1>1, <1>7

LEMMA FitAlone ==
  ASSUME NEW p, NEW t
  PROVE  Fit(<<p>>, t) = Taking(<<>>, p, t)
<1> DEFINE seq == <<p>>
<1>1. seq \in Seq({p}) /\ Len(seq) = 1 /\ seq[1] = p
  OBVIOUS
<1> HIDE DEF seq
<1>0. HasFitting({p}, seq, t)
  BY <1>1, FitRuns
<1>2. PICK k \in [0..Len(seq) -> Seq({p})] : IsFitting(k, seq, t)
  BY <1>0 DEF HasFitting
<1> USE DEF IsFitting
<1>3. k[1] = Taking(k[1-1], seq[1], t)
  BY <1>1, <1>2
<1>4. Fit(seq, t) = Taking(<<>>, p, t)
  BY <1>1, <1>2, <1>3
<1> QED
  BY <1>4 DEF seq

-----------------------------------------------------------------------------
(* removePods.                                                             *)

IsRemoving(k, seq, P) ==
    /\ k[0] = <<>> /\ k[Len(seq)] = RemovePods(seq, P)
    /\ \A i \in 1..Len(seq) : k[i] = Keeping(k[i-1], seq[i], P)
HasRemoving(S, seq, P) == \E k \in [0..Len(seq) -> Seq(S)] : IsRemoving(k, seq, P)

LEMMA RemovePodsRuns ==
  ASSUME NEW S, NEW seq \in Seq(S), NEW P
  PROVE  HasRemoving(S, seq, P)
<1> DEFINE A == Seq(S)
           step == [ax \in A \X S |-> Keeping(ax[1], ax[2], P)]
           Body(g) == [s \in SUBSET DOMAIN seq |-> IF s = {} THEN <<>>
                          ELSE Keeping(g[s \ {Max(s)}], seq[Max(s)], P)]
           it == CHOOSE g : g = Body(g)
<1>1. step \in [A \X S -> A] /\ <<>> \in A
  BY DEF Keeping
<1>2. \A a \in A, x \in S : step[<<a, x>>] = Keeping(a, x, P)
  OBVIOUS
<1>3. \A s \in SUBSET DOMAIN seq : s # {} => seq[Max(s)] \in S
  BY LastIn
<1>4. RemovePods(seq, P) = it[DOMAIN seq]
  BY DEF RemovePods, FoldLeft, MapThenFoldSet
<1> HIDE DEF A, step
<1>5. PICK g \in [SUBSET DOMAIN seq -> A] : IsRun(g, seq, S, A, <<>>, step)
  BY <1>1, RunExists DEF A
<1>6. g = Body(g)
  BY <1>2, <1>5 DEF IsRun
<1>7. it = Body(it)
  <2> HIDE DEF Body
  <2> QED
    BY <1>6
<1> HIDE DEF it, Body
<1>8. Runs(it, seq, A, <<>>, step)
  BY <1>2, <1>3, <1>7 DEF Runs, Body
<1>9. PICK k \in [0..Len(seq) -> A] :
            IsTrace(k, seq, <<>>, step) /\ k[Len(seq)] = it[DOMAIN seq]
  <2>1. HasTrace(it, seq, A, <<>>, step)
    BY <1>1, <1>8, RunSteps
  <2> QED
    BY <2>1 DEF HasTrace
<1>10. ASSUME NEW i \in 1..Len(seq) PROVE k[i] = Keeping(k[i-1], seq[i], P)
  <2>1. k[i-1] \in A /\ seq[i] \in S
    OBVIOUS
  <2> QED
    BY <1>2, <1>9, <2>1 DEF IsTrace
<1> QED
  BY <1>4, <1>9, <1>10 DEF IsTrace, HasRemoving, IsRemoving, A

LEMMA RemovesThem ==
  ASSUME NEW S, NEW seq \in Seq(S), NEW P
  PROVE  /\ RemovePods(seq, P) \in Seq(S)
         /\ ToSet(RemovePods(seq, P)) = ToSet(seq) \ P
<1>0. HasRemoving(S, seq, P)
  BY RemovePodsRuns
<1>1. PICK k \in [0..Len(seq) -> Seq(S)] : IsRemoving(k, seq, P)
  BY <1>0 DEF HasRemoving
<1> DEFINE Before(i) == {seq[j] : j \in 1..i}
           T == {i \in 0..Len(seq) : ToSet(k[i]) = Before(i) \ P}
<1>2. Len(seq) \in Nat /\ DOMAIN seq = 1..Len(seq)
  OBVIOUS
<1>3. ASSUME NEW i \in 1..Len(seq) PROVE Before(i) = Before(i-1) \cup {seq[i]}
  <2>1. 1..i = (1..(i-1)) \cup {i}
    BY <1>2
  <2> QED
    BY <2>1
<1>4. Before(0) = {} /\ Before(Len(seq)) = ToSet(seq)
  BY <1>2 DEF ToSet
<1> HIDE DEF Before
<1>5. 0 \in T
  BY <1>1, <1>2, <1>4 DEF IsRemoving, ToSet
<1>6. ASSUME NEW i \in 1..Len(seq), i - 1 \in T PROVE i \in T
  <2>1. k[i-1] \in Seq(S) /\ seq[i] \in S /\ ToSet(k[i-1]) = Before(i-1) \ P
    BY <1>2, <1>6
  <2>2. k[i] = Keeping(k[i-1], seq[i], P)
    BY <1>1 DEF IsRemoving
  <2>3. ToSet(Append(k[i-1], seq[i])) = ToSet(k[i-1]) \cup {seq[i]}
    BY <2>1, Appended
  <2>4. ToSet(k[i]) = Before(i) \ P
    BY <1>3, <2>1, <2>2, <2>3 DEF Keeping
  <2> QED
    BY <1>2, <2>4
<1>7. \A i \in 0..Len(seq) : i \in T
  <2> HIDE DEF T
  <2> QED
    BY <1>2, <1>5, <1>6, UpTo
<1> QED
  BY <1>1, <1>2, <1>4, <1>7 DEF IsRemoving

-----------------------------------------------------------------------------
(* findBestNodeForPods, and the search of packBestFit.                     *)

LEMMA Scaled ==
  ASSUME NEW x \in Int, NEW y \in Int, NEW q \in Nat \ {0}
  PROVE  /\ x > y <=> x * q > y * q
         /\ x <= y <=> x * q <= y * q
  OBVIOUS

\* Quotients are compared without dividing.
LEMMA Quotients ==
  ASSUME NEW x \in Nat, NEW y \in Nat, NEW z \in Nat,
         NEW p \in Nat \ {0}, NEW q \in Nat \ {0}, NEW r \in Nat \ {0},
         x * q > y * p, ~(z * q > y * r)
  PROVE  x * r > z * p
<1>1. (x * q) * r > (y * p) * r
  BY Scaled
<1>2. (z * q) * p <= (y * r) * p
  BY Scaled
<1>3. /\ (x * q) * r = (x * r) * q
      /\ (z * q) * p = (z * p) * q
      /\ (y * p) * r = (y * r) * p
  OBVIOUS
<1>4. /\ x * r \in Int /\ z * p \in Int /\ (y * r) * p \in Int
      /\ (x * r) * q \in Int /\ (z * p) * q \in Int
  OBVIOUS
<1>5. (x * r) * q > (z * p) * q
  BY <1>1, <1>2, <1>3, <1>4
<1> QED
  BY <1>4, <1>5, Scaled

\* A first of the best is found, whatever better means, if it is an order.
LEMMA ChoiceExists ==
  ASSUME NEW n \in Nat, Useful \subseteq 1..n, Useful # {},
         \A i, j, c \in Useful : Better(i, c) /\ ~Better(j, c) => Better(i, j),
         \A i, j \in Useful : Better(i, j) => ~Better(j, i)
  PROVE  Choice # {}
<1> DEFINE Best(c, m) == \A j \in (Useful \cap (1..m)) \ {c} :
                            ~Better(j, c) /\ (j < c => Better(c, j))
           T == {m \in 0..n : Useful \cap (1..m) # {} =>
                                 \E c \in Useful \cap (1..m) : Best(c, m)}
<1>1. 0 \in T
  OBVIOUS
<1>2. ASSUME NEW m \in 1..n, m - 1 \in T PROVE m \in T
  <2>0. 1..m = (1..(m-1)) \cup {m} /\ m \notin 1..(m-1)
    OBVIOUS
  <2>1. CASE m \notin Useful
    <3>1. Useful \cap (1..m) = Useful \cap (1..(m-1))
      BY <2>0, <2>1
    <3> QED
      BY <1>2, <3>1
  <2>2. CASE m \in Useful /\ Useful \cap (1..(m-1)) = {}
    <3>1. Useful \cap (1..m) = {m}
      BY <2>0, <2>2
    <3> QED
      BY <3>1
  <2>3. CASE m \in Useful /\ Useful \cap (1..(m-1)) # {}
    <3>1. PICK c \in Useful \cap (1..(m-1)) : Best(c, m-1)
      BY <1>2, <2>3
    <3>2. c < m /\ c \in Useful \cap (1..m) /\ m \in Useful \cap (1..m)
      BY <2>0, <2>3, <3>1
    <3>3. CASE Better(m, c)
      <4>1. ASSUME NEW j \in (Useful \cap (1..m)) \ {m} PROVE Better(m, j) /\ ~Better(j, m)
        <5>1. j \in Useful \cap (1..(m-1))
          BY <2>0
        <5>2. ~Better(j, c)
          BY <3>1, <3>3, <5>1, <2>3
        <5> QED
          BY <2>3, <3>1, <3>3, <5>1, <5>2
      <4>2. Best(m, m)
        BY <4>1
      <4> QED
        BY <3>2, <4>2
    <3>4. CASE ~Better(m, c)
      <4>1. Best(c, m)
        BY <2>0, <3>1, <3>2, <3>4
      <4> QED
        BY <3>2, <4>1
    <3> QED
      BY <3>3, <3>4
  <2> QED
    BY <2>1, <2>2, <2>3
<1>3. \A m \in 0..n : m \in T
  <2> HIDE DEF T
  <2> QED
    BY <1>1, <1>2, UpTo
<1>4. n \in T /\ Useful \cap (1..n) = Useful
  <2>1. n \in 0..n
    OBVIOUS
  <2>2. n \in T
    BY <1>3, <2>1
  <2> QED
    BY <2>2
<1>5. PICK c \in Useful : Best(c, n)
  BY <1>4
<1> QED
  BY <1>4, <1>5 DEF Choice

-----------------------------------------------------------------------------
(* The invariant.  What it says of the input follows from the constants    *)
(* here; module Optimizer makes the input itself.                          *)

Kinds == {"cpu", "mem", "gpu"}
InputOK ==
    /\ IsFiniteSet(Wanted) /\ IsFiniteSet(Offered)
    /\ \A p \in Wanted : need[p] \in [cpu : Nat, mem : Nat, gpu : Nat]
    /\ \A t \in Offered : /\ cap[t] \in [cpu : Nat \ {0}, mem : Nat \ {0}, gpu : Nat]
                          /\ price[t] \in Nat \ {0}
    /\ overhead["cpu"] \in Nat /\ overhead["mem"] \in Nat

PlannedNodes == [type : Offered, pods : (SUBSET Wanted) \ {{}}]
PackTypes ==
    /\ strategy \in {"start", "ffd", "bestfit", "single", "done"}
    /\ pods \in Seq(Wanted) /\ types \in Seq(Offered) /\ left \in Seq(Wanted)
    /\ packed \in Seq(PlannedNodes)
    /\ best \in [found : BOOLEAN, nodes : Seq(PlannedNodes)]

\* Pack has sorted its input, and starts with nothing.
Running == strategy \in {"ffd", "bestfit", "single"}
Sorted ==
    /\ strategy = "start" => /\ pods = <<>> /\ types = <<>> /\ left = <<>>
                             /\ packed = <<>> /\ best = Nothing
    /\ Running => /\ ToSet(pods) = Wanted /\ ToSet(types) = Offered
                  /\ Wanted # {}

\* After the first strategy there is a packing, if every pod fits somewhere.
EachHasRoom == \A p \in Wanted : \E t \in Offered : HasRoom(<<>>, p, t)
FoundAfterFirst ==
    strategy \in {"bestfit", "single", "done"} /\ EachHasRoom => best.found

PackInv == /\ InputOK /\ PackTypes /\ Sorted
           /\ EveryPodOnce /\ NoOversubscription /\ FoundAfterFirst

-----------------------------------------------------------------------------
(* About the input.                                                        *)

LEMMA AskedSame ==
  ASSUME need' = need, NEW P, NEW d
  PROVE  Asked(P, d)' = Asked(P, d)
  BY DEF Asked, MapThenSumSet, MapThenFoldSet

LEMMA AskedNat ==
  ASSUME InputOK, NEW P \in SUBSET Wanted, NEW d \in Kinds
  PROVE  Asked(P, d) \in Nat
<1>1. IsFiniteSet(P)
  BY FS_Subset DEF InputOK
<1>2. \A p \in Wanted : need[p][d] \in Nat
  BY DEF InputOK, Kinds
<1>3. Asked(P, d) = Sum(NeedOf(d), P)
  BY <1>1, <1>2, AskedSum
<1>4. \A p \in P : NeedOf(d)[p] \in Nat
  BY <1>2 DEF NeedOf
<1> QED
  BY <1>1, <1>3, <1>4, SumUnfolds

LEMMA SeqsOfSet ==
  ASSUME NEW S, IsFiniteSet(S), NEW s \in SetToSeqs(S)
  PROVE  /\ s \in Seq(S) /\ ToSet(s) = S /\ Len(s) = Cardinality(S)
         /\ \A i, j \in DOMAIN s : i # j => s[i] # s[j]
<1> DEFINE n == Cardinality(S)
<1>1. n \in Nat
  BY FS_CardinalityType
<1>2. s \in [1..n -> S] /\ \A i, j \in 1..n : i # j => s[i] # s[j]
  BY DEF SetToSeqs
<1>3. IsFiniteSet(1..n) /\ Cardinality(1..n) = n
  BY <1>1, FS_Interval
<1>4. s \in Injection(1..n, S)
  BY <1>2 DEF Injection, IsInjective
<1>5. s \in Surjection(1..n, S)
  BY <1>3, <1>4, FS_Injection
<1>6. ToSet(s) = S
  BY <1>2, <1>5 DEF Surjection, ToSet
<1> QED
  BY <1>1, <1>2, <1>6

LEMMA InputKept ==
  ASSUME InputOK, UNCHANGED input
  PROVE  /\ InputOK' /\ Wanted' = Wanted /\ Offered' = Offered
         /\ PlannedNodes' = PlannedNodes
         /\ EachHasRoom' <=> EachHasRoom
<1>1. need' = need /\ cap' = cap /\ price' = price /\ overhead' = overhead
  BY DEF input
<1>2. Wanted' = Wanted /\ Offered' = Offered
  BY <1>1 DEF Wanted, Offered
<1>3. \A p, t : HasRoom(<<>>, p, t)' <=> HasRoom(<<>>, p, t)
  BY <1>1, AskedSame DEF HasRoom, Room
<1> QED
  BY <1>1, <1>2, <1>3 DEF InputOK, PlannedNodes, EachHasRoom

\* A pod that fits on a type alone keeps the strategies going.
LEMMA ChoiceFound ==
  ASSUME InputOK, PackTypes, ToSet(types) = Offered, EachHasRoom, left # <<>>
  PROVE  Choice # {}
<1> DEFINE n == Len(types)
           Fits(i) == Fit(left, types[i])
           Size(i) == cap[types[i]].cpu * cap[types[i]].mem
<1>1. n \in Nat /\ DOMAIN types = 1..n /\ \A i \in 1..n : types[i] \in Offered
  BY DEF PackTypes
<1>2. Useful \subseteq 1..n
  BY <1>1 DEF Useful
<1>3. Useful # {}
  <2>1. left[1] \in ToSet(left) /\ left[1] \in Wanted
    BY DEF PackTypes, ToSet
  <2>2. PICK t \in Offered : HasRoom(<<>>, left[1], t)
    BY <2>1 DEF EachHasRoom
  <2>3. PICK i \in DOMAIN types : types[i] = t
    BY <2>2 DEF ToSet
  <2>4. Fit(left, t) # <<>>
    BY <2>1, <2>2, FitTakesSome DEF PackTypes
  <2> QED
    BY <2>3, <2>4 DEF Useful
<1>4. ASSUME NEW i \in Useful
      PROVE  /\ Len(Fits(i)) \in Nat /\ Used(i) \in Nat
             /\ price[types[i]] \in Nat \ {0} /\ Size(i) \in Nat \ {0}
             /\ cap[types[i]].cpu \in Nat /\ cap[types[i]].mem \in Nat
  <2>1. Fits(i) \in Seq(Wanted) /\ ToSet(Fits(i)) \subseteq ToSet(left)
    BY FitTakes DEF PackTypes
  <2>2. ToSet(Fits(i)) \in SUBSET Wanted
    BY <2>1 DEF ToSet
  <2>3. /\ Asked(ToSet(Fits(i)), "cpu") \in Nat /\ Asked(ToSet(Fits(i)), "mem") \in Nat
    BY <2>2, AskedNat DEF Kinds
  <2>4. /\ cap[types[i]].cpu \in Nat \ {0} /\ cap[types[i]].mem \in Nat \ {0}
        /\ price[types[i]] \in Nat \ {0}
    BY <1>1, <1>2 DEF InputOK
  <2>5. Len(Fits(i)) \in Nat
    BY <2>1
  <2>6. Used(i) \in Nat
    BY <2>3, <2>4 DEF Used
  <2>7. Size(i) \in Nat \ {0}
    BY <2>4
  <2> QED
    BY <2>4, <2>5, <2>6, <2>7
<1>5. ASSUME NEW i \in Useful, NEW j \in Useful
      PROVE  /\ Denser(i, j) <=>
                   Len(Fits(i)) * price[types[j]] > Len(Fits(j)) * price[types[i]]
             /\ Fuller(i, j) <=> Used(i) * Size(j) > Used(j) * Size(i)
  <2>1. /\ Used(i) * cap[types[j]].cpu * cap[types[j]].mem = Used(i) * Size(j)
        /\ Used(j) * cap[types[i]].cpu * cap[types[i]].mem = Used(j) * Size(i)
    <3>1. \A a, b, c \in Nat : a * b * c = a * (b * c)
      OBVIOUS
    <3>2. /\ Used(i) \in Nat /\ cap[types[i]].cpu \in Nat /\ cap[types[i]].mem \in Nat
          /\ Used(j) \in Nat /\ cap[types[j]].cpu \in Nat /\ cap[types[j]].mem \in Nat
      BY <1>4
    <3> QED
      BY <3>1, <3>2
  <2> QED
    BY <2>1 DEF Denser, Fuller
<1> HIDE DEF Fits, Size
<1>6. ASSUME NEW i \in Useful, NEW j \in Useful, NEW c \in Useful
      PROVE  /\ Denser(i, c) /\ ~Denser(j, c) => Denser(i, j)
             /\ Fuller(i, c) /\ ~Fuller(j, c) => Fuller(i, j)
  <2>1. ASSUME Denser(i, c), ~Denser(j, c) PROVE Denser(i, j)
    BY <1>4, <1>5, <2>1, Quotients
  <2>2. ASSUME Fuller(i, c), ~Fuller(j, c) PROVE Fuller(i, j)
    BY <1>4, <1>5, <2>2, Quotients
  <2> QED
    BY <2>1, <2>2
<1>7. ASSUME NEW i \in Useful, NEW j \in Useful
      PROVE  (Denser(i, j) => ~Denser(j, i)) /\ (Fuller(i, j) => ~Fuller(j, i))
  <2>1. /\ Len(Fits(i)) * price[types[j]] \in Int /\ Len(Fits(j)) * price[types[i]] \in Int
        /\ Used(i) * Size(j) \in Int /\ Used(j) * Size(i) \in Int
    BY <1>4
  <2> QED
    BY <1>5, <2>1
<1>8. /\ \A i, j, c \in Useful : Better(i, c) /\ ~Better(j, c) => Better(i, j)
      /\ \A i, j \in Useful : Better(i, j) => ~Better(j, i)
  BY <1>6, <1>7 DEF Better
<1> QED
  BY <1>1, <1>2, <1>3, <1>8, ChoiceExists

LEMMA MinOf ==
  ASSUME NEW n \in Nat, NEW s \in SUBSET (1..n), s # {}
  PROVE  Min(s) \in s
<1>1. PICK m \in s : \A i \in s : m <= i
  BY Least
<1> QED
  BY <1>1 DEF Min

LEMMA OnceAppends ==
  ASSUME NEW S, NEW nodes \in Seq(S), NEW P, NEW Q, NEW x \in S, Once(nodes, P),
         \A n \in Nodes(nodes) : n.pods \cap x.pods = {},
         Q \subseteq P \cup x.pods
  PROVE  Once(Append(nodes, x), Q)
<1> DEFINE more == Append(nodes, x)
           l == Len(nodes)
<1>1. /\ l \in Nat /\ DOMAIN nodes = 1..l /\ DOMAIN more = 1..(l + 1)
      /\ more[l + 1] = x /\ \A i \in 1..l : more[i] = nodes[i]
  OBVIOUS
<1> HIDE DEF more, l
<1>2. \A i \in 1..(l + 1) : i \in 1..l \/ i = l + 1
  BY <1>1
<1>3. \A p \in Q : \E i \in DOMAIN more : p \in more[i].pods
  <2> TAKE p \in Q
  <2>1. CASE p \in x.pods
    <3>1. l + 1 \in DOMAIN more
      BY <1>1
    <3> QED
      BY <1>1, <2>1, <3>1
  <2>2. CASE p \in P
    <3>1. PICK i \in 1..l : p \in nodes[i].pods
      BY <1>1, <2>2 DEF Once
    <3>2. i \in DOMAIN more
      BY <1>1
    <3> QED
      BY <1>1, <3>1, <3>2
  <2> QED
    BY <2>1, <2>2
<1>4. ASSUME NEW i \in DOMAIN more, NEW j \in DOMAIN more, i # j
      PROVE  more[i].pods \cap more[j].pods = {}
  BY <1>1, <1>2, <1>4 DEF Once, Nodes
<1> QED
  BY <1>3, <1>4 DEF Once, more

-----------------------------------------------------------------------------
(* The invariant is inductive.                                             *)

LEMMA NodesOf ==
  ASSUME NEW S, NEW seq \in Seq(S)
  PROVE  /\ Nodes(<<>>) = {} /\ Nodes(seq) \subseteq S
         /\ \A x \in S : Nodes(Append(seq, x)) = Nodes(seq) \cup {x}
<1>1. \A q : Nodes(q) = ToSet(q)
  BY DEF Nodes, ToSet
<1>2. \A x \in S : ToSet(Append(seq, x)) = ToSet(seq) \cup {x}
  BY Appended
<1>3. ToSet(<<>>) = {} /\ ToSet(seq) \subseteq S
  BY DEF ToSet
<1> QED
  BY <1>1, <1>2, <1>3

LEMMA InitInv == Init => PackInv
<1> SUFFICES ASSUME Init PROVE PackInv
  OBVIOUS
<1>1. Wanted \in SUBSET Pods /\ need \in [Wanted -> Needs]
  BY DEF Init, Wanted
<1>2. Offered \in SUBSET Types /\ cap \in [Offered -> Caps] /\ price \in [Offered -> Costs]
  BY DEF Init, Offered
<1>3. InputOK
  <2>1. IsFiniteSet(Wanted) /\ IsFiniteSet(Offered)
    BY <1>1, <1>2, FiniteAssumption, FS_Subset
  <2>2. \A p \in Wanted : need[p] \in [cpu : Nat, mem : Nat, gpu : Nat]
    BY <1>1, NeedAssumption
  <2>3. \A t \in Offered : /\ cap[t] \in [cpu : Nat \ {0}, mem : Nat \ {0}, gpu : Nat]
                            /\ price[t] \in Nat \ {0}
    BY <1>2, CapAssumption, CostAssumption
  <2>4. overhead["cpu"] \in Nat /\ overhead["mem"] \in Nat
    BY OverAssumption DEF Init
  <2> QED
    BY <2>1, <2>2, <2>3, <2>4 DEF InputOK
<1>4. PackTypes /\ Sorted
  BY DEF Init, PackTypes, Sorted, Running, Nothing
<1>5. EveryPodOnce /\ NoOversubscription /\ FoundAfterFirst
  BY DEF Init, Nothing, EveryPodOnce, NoOversubscription, FoundAfterFirst, Nodes
<1> QED
  BY <1>3, <1>4, <1>5 DEF PackInv

\* The nodes that are kept.
FitOn(n) == \A d \in {"cpu", "mem"} : Asked(n.pods, d) + overhead[d] <= cap[n.type][d]

LEMMA FitOnSame ==
  ASSUME UNCHANGED input, NEW n
  PROVE  FitOn(n)' <=> FitOn(n)
  BY AskedSame DEF FitOn, input

LEMMA RoomFits ==
  ASSUME InputOK, NEW t \in Offered, NEW P \in SUBSET Wanted,
         \A d \in {"cpu", "mem"} : Asked(P, d) <= Room(t, d)
  PROVE  FitOn(Node(t, P))
<1>1. /\ Asked(P, "cpu") \in Nat /\ Asked(P, "mem") \in Nat
  BY AskedNat DEF Kinds
<1>2. /\ cap[t]["cpu"] \in Nat /\ cap[t]["mem"] \in Nat
      /\ overhead["cpu"] \in Nat /\ overhead["mem"] \in Nat
  BY DEF InputOK
<1> QED
  BY <1>1, <1>2 DEF FitOn, Node, Room

LEMMA StartStep == PackInv /\ Start => PackInv'
<1> SUFFICES ASSUME PackInv, Start PROVE PackInv'
  OBVIOUS
<1>1. /\ InputOK' /\ Wanted' = Wanted /\ Offered' = Offered /\ PlannedNodes' = PlannedNodes
      /\ EachHasRoom' <=> EachHasRoom
  BY InputKept DEF PackInv, Start
<1>2. pods' \in SetToSeqs(Wanted) /\ types' \in SetToSeqs(Offered)
  BY DEF Start
<1>3. /\ pods' \in Seq(Wanted) /\ ToSet(pods') = Wanted
      /\ types' \in Seq(Offered) /\ ToSet(types') = Offered
  BY <1>2, SeqsOfSet DEF PackInv, InputOK
<1>4. /\ strategy' = "ffd" /\ left' = pods' /\ packed' = <<>> /\ best' = Nothing
      /\ Wanted # {}
  BY DEF Start, PackInv, Sorted
<1>5. PackTypes' /\ Sorted'
  BY <1>1, <1>3, <1>4 DEF PackTypes, Sorted, Running, Nothing
<1>6. EveryPodOnce' /\ NoOversubscription' /\ FoundAfterFirst'
  BY <1>1, <1>3, <1>4
  DEF EveryPodOnce, Once, NoOversubscription, FoundAfterFirst, Nodes, Nothing
<1> QED
  BY <1>1, <1>5, <1>6 DEF PackInv

LEMMA StartTrivialStep == PackInv /\ StartTrivial => PackInv'
<1> SUFFICES ASSUME PackInv, StartTrivial PROVE PackInv'
  OBVIOUS
<1>1. /\ InputOK' /\ Wanted' = Wanted /\ Offered' = Offered /\ PlannedNodes' = PlannedNodes
      /\ EachHasRoom' <=> EachHasRoom
  BY InputKept DEF PackInv, StartTrivial
<1>2. /\ strategy' = "done" /\ pods' = pods /\ types' = types /\ left' = left
      /\ packed' = packed /\ packed = <<>>
      /\ Wanted = {} \/ Offered = {}
      /\ best'.found <=> Wanted = {}
      /\ best'.found \in BOOLEAN /\ best'.nodes = <<>>
      /\ best' = [found |-> best'.found, nodes |-> best'.nodes]
  BY DEF StartTrivial, PackInv, Sorted
<1>3. PackTypes' /\ Sorted'
  <2>1. best' \in [found : BOOLEAN, nodes : Seq(PlannedNodes)]
    <3>1. <<>> \in Seq(PlannedNodes)
      OBVIOUS
    <3> QED
      BY <1>2, <3>1
  <2> QED
    BY <1>1, <1>2, <2>1 DEF PackInv, PackTypes, Sorted, Running
<1>4. EveryPodOnce' /\ NoOversubscription'
  BY <1>1, <1>2 DEF EveryPodOnce, Once, NoOversubscription, Nodes
<1>5. FoundAfterFirst'
  BY <1>1, <1>2 DEF FoundAfterFirst, EachHasRoom
<1> QED
  BY <1>1, <1>3, <1>4, <1>5 DEF PackInv

LEMMA PlaceStep == PackInv /\ Place => PackInv'
<1> SUFFICES ASSUME PackInv, Place PROVE PackInv'
  OBVIOUS
<1>1. PICK i \in Choice :
         /\ packed' = Append(packed, Node(types[i], ToSet(Fit(left, types[i]))))
         /\ left' = RemovePods(left, ToSet(Fit(left, types[i])))
  BY DEF Place
<1> DEFINE t == types[i]
           P == ToSet(Fit(left, t))
           n == Node(t, P)
<1>2. /\ strategy \in {"ffd", "bestfit"} /\ strategy' = strategy /\ UNCHANGED input
      /\ pods' = pods /\ types' = types /\ best' = best
  BY DEF Place
<1>3. /\ InputOK' /\ Wanted' = Wanted /\ Offered' = Offered /\ PlannedNodes' = PlannedNodes
      /\ EachHasRoom' <=> EachHasRoom
  BY <1>2, InputKept DEF PackInv
<1>4. t \in Offered /\ Fit(left, t) # <<>>
  BY DEF Choice, Useful, PackInv, PackTypes
<1>5. /\ Fit(left, t) \in Seq(Wanted) /\ P \subseteq ToSet(left)
      /\ \A d \in {"cpu", "mem", "gpu"} : Asked(P, d) <= Room(t, d)
  BY <1>4, FitTakes DEF PackInv, PackTypes
<1>6. left \in Seq(Wanted) /\ ToSet(left) \subseteq Wanted
  BY DEF PackInv, PackTypes, ToSet
<1>7. P \in (SUBSET Wanted) \ {{}}
  <2>1. 1 \in DOMAIN Fit(left, t)
    BY <1>4, <1>5
  <2>2. Fit(left, t)[1] \in P
    BY <2>1 DEF ToSet
  <2> QED
    BY <1>5, <1>6, <2>2
<1>8. n \in PlannedNodes /\ n.pods = P /\ n.type = t
  BY <1>4, <1>7 DEF PlannedNodes, Node
<1>9. packed \in Seq(PlannedNodes) /\ packed' = Append(packed, n)
  BY <1>1 DEF PackInv, PackTypes
<1>10. /\ left' \in Seq(Wanted) /\ ToSet(left') = ToSet(left) \ P
  BY <1>1, <1>6, RemovesThem
<1>11. FitOn(n)
  BY <1>4, <1>5, <1>7, RoomFits DEF PackInv
<1> HIDE DEF n, P, t
<1>12. /\ packed' \in Seq(PlannedNodes)
       /\ Nodes(packed') = Nodes(packed) \cup {n}
  <2>1. Nodes(Append(packed, n)) = Nodes(packed) \cup {n}
    BY <1>8, <1>9, NodesOf
  <2> QED
    BY <1>8, <1>9, <2>1, Appended
<1>13. PackTypes' /\ Sorted'
  BY <1>2, <1>3, <1>10, <1>12 DEF PackInv, PackTypes, Sorted, Running
<1>14. EveryPodOnce'
  <2>1. /\ Once(packed, Wanted \ ToSet(left))
        /\ \A m \in Nodes(packed) : m.pods \cap ToSet(left) = {}
        /\ best.found => Once(best.nodes, Wanted)
    BY <1>2 DEF PackInv, EveryPodOnce
  <2>2. \A m \in Nodes(packed) : m.pods \cap n.pods = {}
    BY <1>5, <1>8, <2>1
  <2>3. Wanted \ ToSet(left') \subseteq (Wanted \ ToSet(left)) \cup n.pods
    BY <1>8, <1>10
  <2>4. Once(packed', Wanted \ ToSet(left'))
    BY <1>8, <1>9, <2>1, <2>2, <2>3, OnceAppends
  <2>5. \A m \in Nodes(packed') : m.pods \cap ToSet(left') = {}
    BY <1>8, <1>10, <1>12, <2>1
  <2> QED
    BY <1>2, <1>3, <2>1, <2>4, <2>5 DEF EveryPodOnce, Once
<1>15. NoOversubscription'
  <2>1. \A m \in Nodes(packed) \cup Nodes(best.nodes) : FitOn(m)
    BY DEF PackInv, NoOversubscription, FitOn
  <2>2. \A m \in Nodes(packed)' \cup Nodes(best.nodes)' : FitOn(m)'
    BY <1>2, <1>11, <1>12, <2>1, FitOnSame DEF Nodes
  <2> QED
    BY <2>2 DEF NoOversubscription, FitOn
<1>16. FoundAfterFirst'
  BY <1>2, <1>3 DEF PackInv, FoundAfterFirst
<1> QED
  BY <1>3, <1>13, <1>14, <1>15, <1>16 DEF PackInv

\* The next strategy starts with all the pods, and with the best so far.
LEMMA NextStrategyStep ==
  ASSUME PackInv, strategy \in {"ffd", "bestfit", "single"}, NextStrategy,
         best' \in [found : BOOLEAN, nodes : Seq(PlannedNodes)],
         best'.found => Once(best'.nodes, Wanted),
         \A n \in Nodes(best'.nodes) : FitOn(n),
         EachHasRoom => best'.found
  PROVE  PackInv'
<1>1. /\ UNCHANGED input /\ pods' = pods /\ types' = types /\ left' = pods /\ packed' = <<>>
      /\ strategy' \in {"bestfit", "single", "done"}
  BY DEF NextStrategy
<1>2. /\ InputOK' /\ Wanted' = Wanted /\ Offered' = Offered /\ PlannedNodes' = PlannedNodes
      /\ EachHasRoom' <=> EachHasRoom
  BY <1>1, InputKept DEF PackInv
<1>3. ToSet(pods) = Wanted /\ ToSet(types) = Offered /\ Wanted # {}
  BY DEF PackInv, Sorted, Running
<1>4. packed' \in Seq(PlannedNodes) /\ Nodes(packed') = {} /\ DOMAIN packed' = {}
  BY <1>1 DEF Nodes
<1>5. PackTypes' /\ Sorted'
  BY <1>1, <1>2, <1>3, <1>4 DEF PackInv, PackTypes, Sorted, Running
<1>6. EveryPodOnce'
  BY <1>1, <1>2, <1>3, <1>4 DEF EveryPodOnce, Once
<1>7. NoOversubscription'
  <2>1. \A n \in Nodes(packed)' \cup Nodes(best.nodes)' : FitOn(n)'
    BY <1>1, <1>4, FitOnSame DEF Nodes
  <2> QED
    BY <2>1 DEF NoOversubscription, FitOn
<1>8. FoundAfterFirst'
  BY <1>2 DEF FoundAfterFirst
<1> QED
  BY <1>2, <1>5, <1>6, <1>7, <1>8 DEF PackInv

LEMMA KeepsBest ==
  ASSUME PackInv
  PROVE  /\ best \in [found : BOOLEAN, nodes : Seq(PlannedNodes)]
         /\ best.found => Once(best.nodes, Wanted)
         /\ \A n \in Nodes(best.nodes) : FitOn(n)
  BY DEF PackInv, PackTypes, EveryPodOnce, NoOversubscription, FitOn

LEMMA KeepStep ==
  ASSUME PackInv, strategy \in {"ffd", "bestfit", "single"}, NextStrategy,
         NEW nodes \in Seq(PlannedNodes), Keep(nodes),
         Once(nodes, Wanted), \A n \in Nodes(nodes) : FitOn(n)
  PROVE  PackInv'
<1>1. best' = [found |-> TRUE, nodes |-> nodes] \/ (best' = best /\ best.found)
  BY DEF Keep
<1>2. CASE best' = [found |-> TRUE, nodes |-> nodes]
  <2>1. /\ best' \in [found : BOOLEAN, nodes : Seq(PlannedNodes)]
        /\ best'.found /\ best'.nodes = nodes
    BY <1>2
  <2> QED
    BY <2>1, NextStrategyStep
<1>3. CASE best' = best /\ best.found
  BY <1>3, KeepsBest, NextStrategyStep
<1> QED
  BY <1>1, <1>2, <1>3

LEMMA StuckStep == PackInv /\ Stuck => PackInv'
<1> SUFFICES ASSUME PackInv, Stuck PROVE PackInv'
  OBVIOUS
<1>1. ~EachHasRoom
  BY ChoiceFound DEF Stuck, PackInv, Sorted, Running
<1> QED
  BY <1>1, KeepsBest, NextStrategyStep DEF Stuck

LEMMA CompleteStep == PackInv /\ Complete => PackInv'
<1> SUFFICES ASSUME PackInv, Complete PROVE PackInv'
  OBVIOUS
<1>1. ToSet(left) = {} /\ packed \in Seq(PlannedNodes)
  BY DEF Complete, ToSet, PackInv, PackTypes
<1>2. Once(packed, Wanted)
  BY <1>1 DEF PackInv, EveryPodOnce, Complete
<1>3. \A n \in Nodes(packed) : FitOn(n)
  BY DEF PackInv, NoOversubscription, FitOn
<1> QED
  BY <1>1, <1>2, <1>3, KeepStep DEF Complete

LEMMA SingleStep == PackInv /\ Single => PackInv'
<1> SUFFICES ASSUME PackInv, Single PROVE PackInv'
  OBVIOUS
<1> DEFINE holding == {i \in DOMAIN types : HoldsAll(types[i])}
           nodes == <<Node(types[Min(holding)], Wanted)>>
<1>1. strategy = "single" /\ NextStrategy
  BY DEF Single
<1>2. CASE holding = {}
  <2>1. best' = best
    BY <1>2 DEF Single
  <2>2. EachHasRoom => best.found
    BY <1>1 DEF PackInv, FoundAfterFirst
  <2> QED
    BY <1>1, <2>1, <2>2, KeepsBest, NextStrategyStep
<1>3. CASE holding # {}
  <2>1. Keep(nodes)
    BY <1>3 DEF Single
  <2>2. DOMAIN types = 1..Len(types) /\ Len(types) \in Nat
    BY DEF PackInv, PackTypes
  <2>3. Min(holding) \in holding
    BY <1>3, <2>2, MinOf
  <2> DEFINE t == types[Min(holding)]
             n == Node(t, Wanted)
  <2>4. t \in Offered /\ HoldsAll(t)
    BY <2>2, <2>3 DEF PackInv, PackTypes
  <2>5. Wanted # {}
    BY <1>1 DEF PackInv, Sorted, Running
  <2>6. FitOn(n)
    BY <2>4, RoomFits DEF PackInv, HoldsAll
  <2>7. n \in PlannedNodes /\ n.pods = Wanted
    BY <2>4, <2>5 DEF PlannedNodes, Node
  <2> HIDE DEF n
  <2>8. /\ <<n>> \in Seq(PlannedNodes) /\ Nodes(<<n>>) = {n}
        /\ DOMAIN <<n>> = {1} /\ <<n>>[1] = n
    BY <2>7 DEF Nodes
  <2>9. Once(<<n>>, Wanted)
    BY <2>7, <2>8 DEF Once
  <2> QED
    BY <1>1, <2>1, <2>6, <2>8, <2>9, KeepStep DEF n
<1> QED
  BY <1>2, <1>3

LEMMA StutterStep == PackInv /\ UNCHANGED vars => PackInv'
<1> SUFFICES ASSUME PackInv, UNCHANGED vars PROVE PackInv'
  OBVIOUS
<1>1. /\ UNCHANGED input /\ pods' = pods /\ types' = types /\ left' = left
      /\ packed' = packed /\ best' = best /\ strategy' = strategy
  BY DEF vars, input
<1>2. /\ InputOK' /\ Wanted' = Wanted /\ Offered' = Offered /\ PlannedNodes' = PlannedNodes
      /\ EachHasRoom' <=> EachHasRoom
  BY <1>1, InputKept DEF PackInv
<1>3. PackTypes' /\ Sorted'
  BY <1>1, <1>2 DEF PackInv, PackTypes, Sorted, Running
<1>4. EveryPodOnce' /\ FoundAfterFirst'
  BY <1>1, <1>2 DEF PackInv, EveryPodOnce, Once, Nodes, FoundAfterFirst
<1>5. NoOversubscription'
  BY <1>1, AskedSame DEF PackInv, NoOversubscription, Nodes, input
<1> QED
  BY <1>2, <1>3, <1>4, <1>5 DEF PackInv

LEMMA PackStep == PackInv /\ [Next]_vars => PackInv'
  BY StartStep, StartTrivialStep, PlaceStep, StuckStep, CompleteStep, SingleStep,
     StutterStep DEF Next

-----------------------------------------------------------------------------
(* The theorems.                                                           *)

THEOREM PackInvariant == Spec => []PackInv
<1>1. Init => PackInv
  BY InitInv
<1>2. PackInv /\ [Next]_vars => PackInv'
  BY PackStep
<1> QED
  BY <1>1, <1>2, PTL DEF Spec

\* The invariant has the parts that the runs check.
LEMMA InvImplies == PackInv => TypeOK /\ EveryPodOnce /\ NoOversubscription /\ PacksIfPossible
<1> SUFFICES ASSUME PackInv
             PROVE  TypeOK /\ EveryPodOnce /\ NoOversubscription /\ PacksIfPossible
  OBVIOUS
<1>1. TypeOK
  <2>1. ToSet(pods) \subseteq Wanted /\ ToSet(types) \subseteq Offered
    BY DEF PackInv, PackTypes, ToSet
  <2>2. ToSet(left) \subseteq Wanted
    BY DEF PackInv, PackTypes, ToSet
  <2>3. Nodes(packed) \subseteq PlannedNodes /\ Nodes(best.nodes) \subseteq PlannedNodes
    BY NodesOf DEF PackInv, PackTypes
  <2>4. \A n \in PlannedNodes : n.type \in Offered /\ n.pods \subseteq Wanted /\ n.pods # {}
    BY DEF PlannedNodes
  <2> QED
    BY <2>1, <2>2, <2>3, <2>4 DEF TypeOK, PackInv, PackTypes
<1>2. PacksIfPossible
  <2> SUFFICES ASSUME strategy = "done",
                      \A p \in Wanted : \E t \in Offered : Fit(<<p>>, t) # <<>>
               PROVE  best.found
    BY DEF PacksIfPossible
  <2>1. EachHasRoom
    BY FitAlone DEF EachHasRoom, Taking
  <2> QED
    BY <2>1 DEF PackInv, FoundAfterFirst
<1> QED
  BY <1>1, <1>2 DEF PackInv

\* Pods, types and nodes are what they should be, at every step of Pack.
THEOREM TypesKept == Spec => []TypeOK
<1>1. PackInv => TypeOK
  BY InvImplies
<1> QED
  BY <1>1, PackInvariant, PTL

\* Pack neither loses a pod nor places one twice, in any strategy.
THEOREM PodsPlacedOnce == Spec => []EveryPodOnce
<1>1. PackInv => EveryPodOnce
  BY InvImplies
<1> QED
  BY <1>1, PackInvariant, PTL

\* No node is given more CPU or memory than it has beside its DaemonSet pods,
\* by fitPodsToNode one by one or by packSingleLargeNode at once.
THEOREM NeverOversubscribed == Spec => []NoOversubscription
<1>1. PackInv => NoOversubscription
  BY InvImplies
<1> QED
  BY <1>1, PackInvariant, PTL

\* Pack finds a packing whenever each pod fits on some type alone.
THEOREM PackingFound == Spec => []PacksIfPossible
<1>1. PackInv => PacksIfPossible
  BY InvImplies
<1> QED
  BY <1>1, PackInvariant, PTL

-----------------------------------------------------------------------------
(* GPUs.                                                                   *)

LEMMA GPUsInSame ==
  ASSUME UNCHANGED input, NEW n
  PROVE  GPUsIn(n)' <=> GPUsIn(n)
  BY AskedSame DEF GPUsIn, input

\* What the strategies keep: their own packing, or all pods on one node.
AllOnOne(nodes) == \E t \in Offered : nodes = <<Node(t, Wanted)>>
WithinGPUs(nodes) == (\A n \in Nodes(nodes) : GPUsIn(n)) \/ AllOnOne(nodes)

LEMMA GPUsSame ==
  ASSUME OnlySingleOverGPUs, UNCHANGED input,
         packed' = packed \/ packed' = <<>>,
         best' = best \/ \E nodes : WithinGPUs(nodes) /\ best'.nodes = nodes
  PROVE  OnlySingleOverGPUs'
<1>1. Wanted' = Wanted /\ Offered' = Offered
  BY DEF input, Wanted, Offered
<1>2. \A n : GPUsIn(n)' <=> GPUsIn(n)
  BY GPUsInSame
<1>3. \A n \in Nodes(packed') : GPUsIn(n)
  BY DEF OnlySingleOverGPUs, Nodes
<1>4. WithinGPUs(best'.nodes)
  BY DEF OnlySingleOverGPUs, WithinGPUs, AllOnOne
<1>5. Nodes(packed)' = Nodes(packed') /\ Nodes(best.nodes)' = Nodes(best'.nodes)
  BY DEF Nodes
<1>6. \A n \in Nodes(packed)' : GPUsIn(n)'
  BY <1>2, <1>3, <1>5
<1>7. \/ \A n \in Nodes(best.nodes)' : GPUsIn(n)'
      \/ \E t \in Offered' : best'.nodes = <<Node(t, Wanted')>>
  BY <1>1, <1>2, <1>4, <1>5 DEF WithinGPUs, AllOnOne
<1> QED
  BY <1>6, <1>7 DEF OnlySingleOverGPUs, Node

LEMMA GPUsPlaced == PackInv /\ OnlySingleOverGPUs /\ Place => OnlySingleOverGPUs'
<1> SUFFICES ASSUME PackInv, OnlySingleOverGPUs, Place PROVE OnlySingleOverGPUs'
  OBVIOUS
<1>1. PICK i \in Choice : packed' = Append(packed, Node(types[i], ToSet(Fit(left, types[i]))))
  BY DEF Place
<1> DEFINE t == types[i]
           n == Node(t, ToSet(Fit(left, t)))
<1>2. UNCHANGED input /\ best' = best
  BY DEF Place
<1>3. t \in Offered /\ Fit(left, t) # <<>>
  BY DEF Choice, Useful, PackInv, PackTypes
<1>4. GPUsIn(n)
  <2>1. Asked(ToSet(Fit(left, t)), "gpu") <= Room(t, "gpu")
    BY <1>3, FitTakes DEF PackInv, PackTypes
  <2> QED
    BY <2>1 DEF GPUsIn, Node, Room
<1>5. packed \in Seq(Nodes(packed) \cup {n}) /\ packed' = Append(packed, n)
  <2>1. packed \in Seq(PlannedNodes)
    BY DEF PackInv, PackTypes
  <2>2. \A j \in DOMAIN packed : packed[j] \in Nodes(packed)
    BY DEF Nodes
  <2> HIDE DEF n
  <2>3. packed \in Seq(Nodes(packed) \cup {n})
    BY <2>1, <2>2
  <2> QED
    BY <1>1, <2>3 DEF n
<1> HIDE DEF n, t
<1>6. Nodes(Append(packed, n)) = Nodes(packed) \cup {n}
  BY <1>5, NodesOf
<1>7. Wanted' = Wanted /\ Offered' = Offered
  BY <1>2 DEF input, Wanted, Offered
<1>8. \A m : GPUsIn(m)' <=> GPUsIn(m)
  BY <1>2, GPUsInSame
<1>9. Nodes(packed)' = Nodes(packed) \cup {n} /\ Nodes(best.nodes)' = Nodes(best.nodes)
  BY <1>2, <1>5, <1>6 DEF Nodes
<1>10. \A m \in Nodes(packed)' : GPUsIn(m)'
  BY <1>4, <1>8, <1>9 DEF OnlySingleOverGPUs
<1>11. \/ \A m \in Nodes(best.nodes)' : GPUsIn(m)'
       \/ \E s \in Offered' : best'.nodes = <<Node(s, Wanted')>>
  BY <1>2, <1>7, <1>8, <1>9 DEF OnlySingleOverGPUs
<1> QED
  BY <1>10, <1>11 DEF OnlySingleOverGPUs, Node

LEMMA GPUsStep == PackInv /\ OnlySingleOverGPUs /\ [Next]_vars => OnlySingleOverGPUs'
<1> SUFFICES ASSUME PackInv, OnlySingleOverGPUs, [Next]_vars PROVE OnlySingleOverGPUs'
  OBVIOUS
<1>1. CASE Start
  BY <1>1, GPUsSame DEF Start
<1>2. CASE StartTrivial
  <2>1. UNCHANGED input /\ packed' = packed /\ best'.nodes = <<>>
    BY <1>2 DEF StartTrivial
  <2>2. WithinGPUs(<<>>)
    BY DEF WithinGPUs, Nodes
  <2> QED
    BY <2>1, <2>2, GPUsSame
<1>3. CASE Place
  BY <1>3, GPUsPlaced
<1>4. CASE Stuck
  BY <1>4, GPUsSame DEF Stuck, NextStrategy
<1>5. CASE Complete
  <2>1. UNCHANGED input /\ packed' = <<>>
    BY <1>5 DEF Complete, NextStrategy
  <2>2. best' = best \/ best'.nodes = packed
    BY <1>5 DEF Complete, Keep
  <2>3. WithinGPUs(packed)
    BY DEF OnlySingleOverGPUs, WithinGPUs
  <2> QED
    BY <2>1, <2>2, <2>3, GPUsSame
<1>6. CASE Single
  <2> DEFINE holding == {i \in DOMAIN types : HoldsAll(types[i])}
             nodes == <<Node(types[Min(holding)], Wanted)>>
  <2>1. UNCHANGED input /\ packed' = <<>>
    BY <1>6 DEF Single, NextStrategy
  <2>2. best' = best \/ (holding # {} /\ best'.nodes = nodes)
    BY <1>6 DEF Single, Keep
  <2>3. ASSUME holding # {} PROVE WithinGPUs(nodes)
    <3>1. DOMAIN types = 1..Len(types) /\ Len(types) \in Nat
      BY DEF PackInv, PackTypes
    <3>2. Min(holding) \in holding
      BY <2>3, <3>1, MinOf
    <3>3. types[Min(holding)] \in Offered
      BY <3>1, <3>2 DEF PackInv, PackTypes
    <3> QED
      BY <3>3 DEF WithinGPUs, AllOnOne
  <2> HIDE DEF nodes, holding
  <2> QED
    BY <2>1, <2>2, <2>3, GPUsSame
<1>7. CASE UNCHANGED vars
  <2>1. UNCHANGED input /\ packed' = packed /\ best' = best
    BY <1>7 DEF vars, input
  <2>2. WithinGPUs(packed)
    BY DEF OnlySingleOverGPUs, WithinGPUs
  <2> QED
    BY <2>1, <2>2, GPUsSame
<1> QED
  BY <1>1, <1>2, <1>3, <1>4, <1>5, <1>6, <1>7 DEF Next

\* Only a node that takes all the pods may be asked for GPUs it has not.
THEOREM OnlySingleForgetsGPUs == Spec => []OnlySingleOverGPUs
<1>1. Init => OnlySingleOverGPUs
  BY DEF Init, OnlySingleOverGPUs, Nothing, Nodes
<1>2. PackInv /\ OnlySingleOverGPUs /\ [Next]_vars => OnlySingleOverGPUs'
  BY GPUsStep
<1> QED
  BY <1>1, <1>2, PackInvariant, PTL DEF Spec

-----------------------------------------------------------------------------
(* How long it takes.                                                      *)

LEMMA TodoOf ==
  ASSUME InputOK, NEW l \in Seq(Wanted)
  PROVE  /\ Cardinality(Wanted) \in Nat /\ IsFiniteSet(ToSet(l))
         /\ Cardinality(ToSet(l)) \in Nat
         /\ Cardinality(ToSet(l)) <= Cardinality(Wanted)
<1>1. ToSet(l) \subseteq Wanted
  BY DEF ToSet
<1> QED
  BY <1>1, FS_Subset, FS_CardinalityType DEF InputOK

\* A strategy ends, whatever pods are then left for the next.
LEMMA TodoOfNext ==
  ASSUME PackInv, PackInv', Wanted' = Wanted, ToGo[strategy] \in Nat,
         ToGo[strategy'] + 1 = ToGo[strategy]
  PROVE  Todo' < Todo
<1> DEFINE n == Cardinality(Wanted)
           g == ToGo[strategy']
           old == Cardinality(ToSet(left))
           new == Cardinality(ToSet(left'))
<1>1. left \in Seq(Wanted) /\ left' \in Seq(Wanted) /\ InputOK
  BY DEF PackInv, PackTypes
<1>2. n \in Nat /\ old \in Nat /\ new \in Nat /\ new <= n
  BY <1>1, TodoOf
<1>3. Todo = ToGo[strategy] * (n + 1) + old /\ Todo' = g * (n + 1) + new
  BY DEF Todo, ToSet
<1>4. strategy' \in DOMAIN ToGo /\ g \in Nat
  BY DEF PackInv, PackTypes, ToGo
<1> HIDE DEF n, g, old, new
<1>5. (g + 1) * (n + 1) = g * (n + 1) + (n + 1) /\ g * (n + 1) \in Int
  BY <1>2, <1>4
<1> QED
  BY <1>2, <1>3, <1>4, <1>5 DEF g

LEMMA TodoOfPlace ==
  ASSUME PackInv, Place
  PROVE  Todo' < Todo /\ ToSet(left') \subseteq ToSet(left) /\ ToSet(left') # ToSet(left)
<1>1. PICK i \in Choice : left' = RemovePods(left, ToSet(Fit(left, types[i])))
  BY DEF Place
<1> DEFINE t == types[i]
           P == ToSet(Fit(left, t))
           old == Cardinality(ToSet(left))
           new == Cardinality(ToSet(left'))
<1>2. left \in Seq(Wanted) /\ InputOK /\ strategy' = strategy /\ Wanted' = Wanted
      /\ strategy \in {"ffd", "bestfit"}
  BY DEF PackInv, PackTypes, Place, input, Wanted
<1>3. Fit(left, t) # <<>> /\ Fit(left, t) \in Seq(Wanted) /\ P \subseteq ToSet(left)
  BY <1>2, FitTakes DEF Choice, Useful
<1>4. P # {}
  <2>1. 1 \in DOMAIN Fit(left, t)
    BY <1>3
  <2> QED
    BY <2>1 DEF ToSet
<1>5. left' \in Seq(Wanted) /\ ToSet(left') = ToSet(left) \ P
  BY <1>1, <1>2, RemovesThem
<1> HIDE DEF P, t
<1>6. ToSet(left') \subseteq ToSet(left) /\ ToSet(left') # ToSet(left)
  BY <1>3, <1>4, <1>5
<1>7. old \in Nat /\ new \in Nat /\ IsFiniteSet(ToSet(left)) /\ Cardinality(Wanted) \in Nat
  BY <1>2, <1>5, TodoOf
<1>8. new <= old /\ new # old
  BY <1>6, <1>7, FS_Subset
<1> DEFINE g == ToGo[strategy] * (Cardinality(Wanted) + 1)
<1>9. Todo = g + old /\ Todo' = g + new
  BY <1>2 DEF Todo, ToSet
<1>10. g \in Int
  BY <1>2, <1>7 DEF ToGo
<1> HIDE DEF g, old, new
<1>11. Todo' < Todo
  BY <1>7, <1>8, <1>9, <1>10
<1> QED
  BY <1>6, <1>11

LEMMA TodoStep ==
  PackInv /\ PackInv' /\ [Next]_vars => [Todo' < Todo]_<<strategy, left, packed, best>>
<1> SUFFICES ASSUME PackInv, PackInv', [Next]_vars
             PROVE  [Todo' < Todo]_<<strategy, left, packed, best>>
  OBVIOUS
<1>1. CASE Start
  <2>1. Wanted' = Wanted /\ ToGo[strategy] = 4 /\ ToGo[strategy'] = 3
    BY <1>1 DEF Start, ToGo, input, Wanted
  <2> QED
    BY <2>1, TodoOfNext
<1>2. CASE StartTrivial
  <2>1. /\ Wanted' = Wanted /\ ToGo[strategy] = 4 /\ ToGo[strategy'] = 0
        /\ left' = left /\ left \in Seq(Wanted) /\ InputOK
    BY <1>2 DEF StartTrivial, ToGo, input, Wanted, PackInv, PackTypes
  <2>2. Cardinality(Wanted) \in Nat /\ Cardinality(ToSet(left)) \in Nat
    BY <2>1, TodoOf
  <2>3. /\ Todo = 4 * (Cardinality(Wanted) + 1) + Cardinality(ToSet(left))
        /\ Todo' = 0 * (Cardinality(Wanted) + 1) + Cardinality(ToSet(left))
    BY <2>1 DEF Todo, ToSet
  <2> QED
    BY <2>2, <2>3
<1>3. CASE Place
  BY <1>3, TodoOfPlace
<1>4. CASE Stuck \/ Complete \/ Single
  <2>1. Wanted' = Wanted
    BY <1>4 DEF Stuck, Complete, Single, NextStrategy, input, Wanted
  <2>2. /\ strategy \in {"ffd", "bestfit", "single"}
        /\ strategy' = CASE strategy = "ffd"     -> "bestfit"
                         [] strategy = "bestfit" -> "single"
                         [] strategy = "single"  -> "done"
    BY <1>4 DEF Stuck, Complete, Single, NextStrategy
  <2>3. ToGo[strategy] \in Nat /\ ToGo[strategy'] + 1 = ToGo[strategy]
    <3>1. CASE strategy = "ffd"
      BY <2>2, <3>1 DEF ToGo
    <3>2. CASE strategy = "bestfit"
      BY <2>2, <3>2 DEF ToGo
    <3>3. CASE strategy = "single"
      BY <2>2, <3>3 DEF ToGo
    <3> QED
      BY <2>2, <3>1, <3>2, <3>3
  <2> QED
    BY <2>1, <2>3, TodoOfNext
<1>5. CASE UNCHANGED vars
  BY <1>5 DEF vars
<1> QED
  BY <1>1, <1>2, <1>3, <1>4, <1>5 DEF Next

\* Each step of Pack has less to do after it than before: every iteration of
\* packFirstFitDecreasing and packBestFit assigns a pod that was left, so with n
\* pods Pack returns after at most 4 (n + 1) steps, in whatever state it starts.
THEOREM PackTerminates == Spec => LoopsEnd
<1>1. PackInv /\ PackInv' /\ [Next]_vars => [Todo' < Todo]_<<strategy, left, packed, best>>
  BY TodoStep
<1> QED
  BY <1>1, PackInvariant, PTL DEF Spec, LoopsEnd
=============================================================================
