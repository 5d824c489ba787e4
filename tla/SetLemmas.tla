------------------------------- MODULE SetLemmas -------------------------------
(***************************************************************************)
(* Facts about finite sets and sets of natural numbers that the proofs     *)
(* rest on: extreme elements, sizes, ranks, and folds.                     *)
(*                                                                         *)
(* Where one would use induction, the fact is proved from the smallest     *)
(* number it would fail for (LeastNatural).                                *)
(***************************************************************************)
EXTENDS Integers, FiniteSetsExt, FiniteSetTheorems, WellFoundedInduction, TLAPS

(* A nonempty set of naturals has a least element. *)
LEMMA LeastNatural ==
    ASSUME NEW S \in SUBSET Nat, S # {}
    PROVE  \E m \in S : \A k \in S : m <= k
  <1>1. PICK m \in S : \A k \in S : <<k, m>> \notin OpToRel(<, Nat)
    BY NatLessThanWellFounded, WFMin
  <1>2. \A k \in S : ~ (k < m)
    BY <1>1 DEF OpToRel
  <1> QED
    BY <1>2

(* One with an upper bound has a greatest. *)
LEMMA GreatestNatural ==
    ASSUME NEW S \in SUBSET Nat, S # {}, NEW b \in Nat, \A s \in S : s <= b
    PROVE  \E m \in S : \A k \in S : k <= m
  <1> DEFINE T == {b - s : s \in S}
  <1>1. T \subseteq Nat /\ T # {}
    <2>1. \A s \in S : b - s \in Nat
      OBVIOUS
    <2>2. PICK s \in S : TRUE
      OBVIOUS
    <2>3. b - s \in T
      BY <2>2
    <2> QED
      BY <2>1, <2>3
  <1>2. PICK t \in T : \A u \in T : t <= u
    BY <1>1, LeastNatural
  <1>3. PICK m \in S : t = b - m
    OBVIOUS
  <1>4. \A k \in S : b - m <= b - k
    BY <1>2, <1>3
  <1>5. \A k \in S : k <= m
    BY <1>4
  <1> QED
    BY <1>5

(* Moving a set by one does not change its size. *)
LEMMA ShiftedSize ==
    ASSUME NEW S \in SUBSET Nat, IsFiniteSet(S)
    PROVE  /\ IsFiniteSet({s + 1 : s \in S})
           /\ Cardinality({s + 1 : s \in S}) = Cardinality(S)
  <1> DEFINE T == {s + 1 : s \in S}
             f == [s \in S |-> s + 1]
  <1>1. f \in [S -> T] /\ \A s \in S : f[s] = s + 1
    OBVIOUS
  <1>2. \A r, s \in S : f[r] = f[s] => r = s
    BY <1>1
  <1>3. \A t \in T : \E s \in S : f[s] = t
    BY <1>1
  <1> HIDE DEF f, T
  <1>4. f \in Bijection(S, T)
    BY <1>1, <1>2, <1>3 DEF Bijection, Injection, Surjection, IsInjective
  <1>5. ExistsBijection(S, T)
    BY <1>4 DEF ExistsBijection
  <1> QED
    BY <1>5, FS_Bijection DEF T

(* A finite set without one of its elements. *)
LEMMA SizeWithout ==
    ASSUME NEW S, IsFiniteSet(S), NEW x \in S
    PROVE  /\ IsFiniteSet(S \ {x})
           /\ Cardinality(S \ {x}) \in Nat /\ Cardinality(S) \in Nat
           /\ Cardinality(S \ {x}) = Cardinality(S) - 1
  <1>1. IsFiniteSet(S \ {x}) /\ Cardinality(S \ {x}) = Cardinality(S) - 1
    BY FS_RemoveElement
  <1> QED
    BY <1>1, FS_CardinalityType

(* A strict order has a minimal element in every nonempty finite set: the  *)
(* smallest set without one would have one once an element is left out.    *)
LEMMA FiniteMinimal ==
    ASSUME NEW S, IsFiniteSet(S), S # {}, NEW less,
           \A x \in S : <<x, x>> \notin less,
           \A x, y, z \in S : <<x, y>> \in less /\ <<y, z>> \in less => <<x, z>> \in less
    PROVE  \E m \in S : \A q \in S : <<q, m>> \notin less
  <1> DEFINE HasMinimal(T) == \E m \in T : \A q \in T : <<q, m>> \notin less
             Bad == {n \in Nat : \E T \in SUBSET S :
                                    T # {} /\ Cardinality(T) = n /\ ~HasMinimal(T)}
  <1>1. SUFFICES ASSUME ~HasMinimal(S)
                 PROVE  FALSE
    OBVIOUS
  <1>2. Cardinality(S) \in Bad
    BY <1>1, FS_CardinalityType
  <1>3. PICK n \in Bad : \A k \in Bad : n <= k
    <2>1. Bad \in SUBSET Nat /\ Bad # {}
      BY <1>2
    <2> HIDE DEF Bad
    <2> QED
      BY <2>1, LeastNatural
  <1>4. PICK T \in SUBSET S : T # {} /\ Cardinality(T) = n /\ ~HasMinimal(T)
    BY <1>3
  <1>5. PICK x \in T : TRUE
    BY <1>4
  <1>6. IsFiniteSet(T \ {x}) /\ Cardinality(T \ {x}) = n - 1 /\ n - 1 \in Nat
    <2>1. IsFiniteSet(T)
      BY FS_Subset
    <2>2. Cardinality(T \ {x}) = Cardinality(T) - 1 /\ Cardinality(T \ {x}) \in Nat
      BY <1>5, <2>1, SizeWithout
    <2>3. IsFiniteSet(T \ {x})
      BY <1>5, <2>1, SizeWithout
    <2> QED
      BY <1>4, <2>2, <2>3
  <1>7. CASE T \ {x} = {}
    BY <1>4, <1>5, <1>7
  <1>8. CASE T \ {x} # {}
    <2>1. HasMinimal(T \ {x})
      <3>1. n - 1 \notin Bad
        BY <1>3, <1>6
      <3> QED
        BY <1>6, <1>8, <3>1
    <2>2. PICK m \in T \ {x} : \A q \in T \ {x} : <<q, m>> \notin less
      BY <2>1
    <2>3. CASE <<x, m>> \notin less
      BY <1>4, <1>5, <2>2, <2>3
    <2>4. CASE <<x, m>> \in less
      <3>1. \A q \in T : <<q, x>> \notin less
        BY <1>5, <2>2, <2>4
      <3> QED
        BY <1>4, <1>5, <3>1
    <2> QED
      BY <2>3, <2>4
  <1> QED
    BY <1>7, <1>8

LEMMA MinIn ==
    ASSUME NEW R \in SUBSET Nat, R # {}
    PROVE  Min(R) \in R /\ \A p \in R : Min(R) <= p
  BY LeastNatural DEF Min

LEMMA MaxIn ==
    ASSUME NEW R \in SUBSET Nat, R # {}, IsFiniteSet(R)
    PROVE  Max(R) \in R /\ \A p \in R : p <= Max(R)
  <1> DEFINE less == {e \in R \X R : e[1] > e[2]}
  <1>1. PICK m \in R : \A q \in R : <<q, m>> \notin less
    <2>1. \A x, y, z \in R : <<x, y>> \in less /\ <<y, z>> \in less => <<x, z>> \in less
      OBVIOUS
    <2>2. \A x \in R : <<x, x>> \notin less
      OBVIOUS
    <2> HIDE DEF less
    <2> QED
      BY <2>1, <2>2, FiniteMinimal
  <1>2. \A q \in R : m >= q
    <2> SUFFICES ASSUME NEW q \in R, q > m
                 PROVE  FALSE
      OBVIOUS
    <2>1. <<q, m>> \in R \X R /\ <<q, m>>[1] > <<q, m>>[2]
      OBVIOUS
    <2> QED
      BY <1>1, <2>1
  <1> QED
    BY <1>2 DEF Max

(* Ranks: every position below the size is taken by one element. *)
LEMMA RankTaken ==
    ASSUME NEW R \in SUBSET Nat, IsFiniteSet(R), NEW k \in Nat, k < Cardinality(R)
    PROVE  \E p \in R : Cardinality({q \in R : q < p}) = k
  <1> DEFINE below(p) == {q \in R : q < p}
             n == Cardinality(R)
             rank == [p \in R |-> Cardinality(below(p))]
  <1>1. n \in Nat /\ n > 0 /\ n - 1 \in Int /\ k \in 0 .. n - 1
    BY FS_CardinalityType
  <1>2. \A p \in R : below(p) \in SUBSET (R \ {p}) /\ IsFiniteSet(below(p))
                     /\ below(p) \in SUBSET R /\ Cardinality(below(p)) \in Nat
    <2>1. \A p \in R : below(p) \in SUBSET (R \ {p}) /\ below(p) \in SUBSET R
      OBVIOUS
    <2> HIDE DEF below
    <2> QED
      BY <2>1, FS_Subset, FS_CardinalityType
  <1>3. \A p \in R : Cardinality(below(p)) \in 0 .. n - 1
    <2> SUFFICES ASSUME NEW p \in R
                 PROVE  Cardinality(below(p)) \in 0 .. n - 1
      OBVIOUS
    <2> HIDE DEF below
    <2>1. IsFiniteSet(R \ {p}) /\ Cardinality(R \ {p}) = n - 1
      BY SizeWithout
    <2>2. Cardinality(below(p)) <= Cardinality(R \ {p})
      BY <1>2, <2>1, FS_Subset
    <2> HIDE DEF n
    <2> QED
      BY <1>1, <1>2, <2>1, <2>2
  <1>4. ASSUME NEW p \in R, NEW r \in R, p < r
        PROVE  Cardinality(below(p)) < Cardinality(below(r))
    <2>1. below(p) \in SUBSET (below(r) \ {p}) /\ p \in below(r)
      <3>1. \A q \in R : q < p => q < r /\ q # p
        BY <1>4
      <3>2. p \in below(r)
        BY <1>4
      <3> QED
        BY <3>1, <3>2
    <2> HIDE DEF below
    <2>2. /\ IsFiniteSet(below(r) \ {p})
          /\ Cardinality(below(r) \ {p}) = Cardinality(below(r)) - 1
      BY <1>2, <2>1, SizeWithout
    <2>3. Cardinality(below(p)) <= Cardinality(below(r) \ {p})
      BY <2>1, <2>2, FS_Subset
    <2> QED
      BY <1>2, <2>2, <2>3
  <1>5. rank \in Injection(R, 0 .. n - 1)
    <2>1. rank \in [R -> 0 .. n - 1] /\ \A p \in R : rank[p] = Cardinality(below(p))
      <3> HIDE DEF below, n
      <3> QED
        BY <1>3
    <2>2. ASSUME NEW p \in R, NEW r \in R, rank[p] = rank[r]
          PROVE  p = r
      <3>1. Cardinality(below(p)) = Cardinality(below(r))
        BY <2>1, <2>2
      <3> HIDE DEF below, rank, n
      <3>2. ~ (p < r) /\ ~ (r < p)
        BY <1>2, <1>4, <3>1
      <3> QED
        BY <3>2
    <2> HIDE DEF rank, n, below
    <2> QED
      BY <2>1, <2>2 DEF Injection, IsInjective
  <1>6. rank \in Surjection(R, 0 .. n - 1)
    <2>1. IsFiniteSet(0 .. n - 1) /\ Cardinality(0 .. n - 1) = n
      <3>1. 0 \in Int
        OBVIOUS
      <3> HIDE DEF n
      <3> QED
        BY <1>1, <3>1, FS_Interval
    <2>2. Cardinality(R) = Cardinality(0 .. n - 1)
      BY <2>1
    <2> HIDE DEF n, rank
    <2> QED
      BY <1>5, <2>1, <2>2, FS_Injection
  <1>7. PICK p \in R : rank[p] = k
    <2> HIDE DEF n, rank
    <2> QED
      BY <1>1, <1>6 DEF Surjection
  <1>8. Cardinality({q \in R : q < p}) = k
    BY <1>7
  <1> QED
    BY <1>8

-----------------------------------------------------------------------------
\* f is the recursive function that folds S with op, taking the elements as
\* choose says.
IsFold(f, S, base, choose, op) ==
    f = [s \in SUBSET S |-> IF s = {} THEN base ELSE op[choose[s]][f[s \ {choose[s]}]]]

Chooses(choose, S) == \A s \in SUBSET S : s # {} => choose[s] \in s

(* It exists, and its values are where those of op are. *)
LEMMA FoldExists ==
    ASSUME NEW S, IsFiniteSet(S), NEW V, NEW base \in V,
           NEW choose, Chooses(choose, S),
           NEW op \in [S -> [V -> V]]
    PROVE  \E f \in [SUBSET S -> V] : IsFold(f, S, base, choose, op)
  <1> DEFINE Value(f, s) == IF s = {} THEN base ELSE op[choose[s]][f[s \ {choose[s]}]]
             Upto(n) == \E f \in [SUBSET S -> V] :
                           \A s \in SUBSET S : Cardinality(s) <= n => f[s] = Value(f, s)
             Bad == {n \in Nat : ~Upto(n)}
  <1>1. \A s \in SUBSET S : /\ IsFiniteSet(s) /\ Cardinality(s) \in Nat
                            /\ Cardinality(s) <= Cardinality(S)
    BY FS_Subset, FS_CardinalityType
  <1>2. ASSUME NEW f \in [SUBSET S -> V], NEW s \in SUBSET S
        PROVE  Value(f, s) \in V
    <2>1. CASE s = {}
      BY <2>1
    <2>2. CASE s # {}
      <3>1. choose[s] \in S /\ s \ {choose[s]} \in SUBSET S
        BY <2>2 DEF Chooses
      <3> QED
        BY <2>2, <3>1
    <2> QED
      BY <2>1, <2>2
  <1>3. Upto(0)
    <2> DEFINE f == [s \in SUBSET S |-> base]
    <2>1. ASSUME NEW s \in SUBSET S, Cardinality(s) <= 0
          PROVE  f[s] = Value(f, s)
      <3>1. s = {}
        BY <1>1, <2>1, FS_EmptySet
      <3> QED
        BY <3>1
    <2>2. f \in [SUBSET S -> V]
      OBVIOUS
    <2> HIDE DEF f, Value
    <2> QED
      BY <2>1, <2>2
  <1>4. ASSUME NEW n \in Nat, Upto(n)
        PROVE  Upto(n + 1)
    <2>1. PICK f \in [SUBSET S -> V] :
             \A s \in SUBSET S : Cardinality(s) <= n => f[s] = Value(f, s)
      BY <1>4
    <2> DEFINE g == [s \in SUBSET S |-> IF Cardinality(s) <= n THEN f[s] ELSE Value(f, s)]
    <2>2. g \in [SUBSET S -> V]
      <3>1. \A s \in SUBSET S : f[s] \in V /\ Value(f, s) \in V
        BY <1>2
      <3> HIDE DEF Value
      <3> QED
        BY <3>1
    <2>3. ASSUME NEW s \in SUBSET S, Cardinality(s) <= n + 1
          PROVE  g[s] = Value(g, s)
      <3>1. g[s] = Value(f, s)
        <4> HIDE DEF Value
        <4> QED
          BY <2>1
      <3>2. Value(g, s) = Value(f, s)
        <4>1. CASE s = {}
          BY <4>1
        <4>2. CASE s # {}
          <5> DEFINE x == choose[s]
          <5>1. x \in s
            BY <4>2 DEF Chooses
          <5> HIDE DEF x
          <5>2. s \ {x} \in SUBSET S /\ Cardinality(s \ {x}) <= n
            BY <1>1, <2>3, <5>1, FS_RemoveElement
          <5>3. g[s \ {x}] = f[s \ {x}]
            BY <5>2
          <5> QED
            BY <4>2, <5>3 DEF x
        <4> QED
          BY <4>1, <4>2
      <3> HIDE DEF g, Value
      <3> QED
        BY <3>1, <3>2
    <2> HIDE DEF g, Value
    <2> QED
      BY <2>2, <2>3
  <1>5. Bad = {}
    <2>1. SUFFICES ASSUME Bad # {}
                   PROVE  FALSE
      OBVIOUS
    <2>2. Bad \in SUBSET Nat
      OBVIOUS
    <2>3. PICK m \in Bad : \A k \in Bad : m <= k
      <3> HIDE DEF Bad
      <3> QED
        BY <2>1, <2>2, LeastNatural
    <2> HIDE DEF Upto
    <2>4. m \in Nat /\ ~Upto(m) /\ m # 0
      BY <1>3, <2>3
    <2>5. m - 1 \in Nat /\ m - 1 \notin Bad
      BY <2>3, <2>4
    <2>6. Upto(m - 1)
      BY <2>5
    <2>7. Upto((m - 1) + 1)
      BY <1>4, <2>5, <2>6
    <2> QED
      BY <2>4, <2>7
  <1>6. Upto(Cardinality(S))
    BY <1>1, <1>5
  <1>7. PICK f \in [SUBSET S -> V] : \A s \in SUBSET S : f[s] = Value(f, s)
    BY <1>1, <1>6
  <1>8. f = [s \in SUBSET S |-> Value(f, s)]
    <2> HIDE DEF Value
    <2> QED
      BY <1>7
  <1> QED
    BY <1>8 DEF IsFold

\* The sum of w over S.
SumOf(w, S) == MapThenSumSet(LAMBDA q : w[q], S)

OneOf(s) == CHOOSE x \in s : TRUE

\* h is the recursive function that sums w over the subsets of S.
IsSum(h, w, S) ==
    h = [s \in SUBSET S |-> IF s = {} THEN 0 ELSE w[OneOf(s)] + h[s \ {OneOf(s)}]]

LEMMA SumExists ==
    ASSUME NEW S, IsFiniteSet(S), NEW w, \A x \in S : w[x] \in Nat
    PROVE  \E h : IsSum(h, w, S) /\ SumOf(w, S) = h[S]
  <1> DEFINE h == CHOOSE f : IsSum(f, w, S)
  <1>1. SumOf(w, S) = h[S]
    BY DEF SumOf, MapThenSumSet, MapThenFoldSet, IsSum, OneOf
  <1>2. \E f : IsSum(f, w, S)
    <2> DEFINE choose == [s \in SUBSET S |-> OneOf(s)]
               op == [x \in S |-> [n \in Nat |-> w[x] + n]]
    <2>1. PICK f \in [SUBSET S -> Nat] : IsFold(f, S, 0, choose, op)
      <3> DEFINE base == 0
                 V == Nat
      <3>1. op \in [S -> [V -> V]] /\ base \in V
        OBVIOUS
      <3>2. Chooses(choose, S)
        BY DEF Chooses, OneOf
      <3> HIDE DEF op, choose, base, V
      <3>3. \E f \in [SUBSET S -> V] : IsFold(f, S, base, choose, op)
        BY <3>1, <3>2, FoldExists
      <3> QED
        BY <3>3 DEF base, V
    <2>2. ASSUME NEW s \in SUBSET S, s # {}
          PROVE  op[choose[s]][f[s \ {choose[s]}]] = w[OneOf(s)] + f[s \ {OneOf(s)}]
      <3>1. choose[s] = OneOf(s) /\ OneOf(s) \in S
        BY <2>2 DEF OneOf
      <3>2. f[s \ {OneOf(s)}] \in Nat
        OBVIOUS
      <3>3. op[OneOf(s)][f[s \ {OneOf(s)}]] = w[OneOf(s)] + f[s \ {OneOf(s)}]
        BY <3>1, <3>2
      <3> QED
        BY <3>1, <3>3
    <2> HIDE DEF op, choose
    <2>3. IsSum(f, w, S)
      BY <2>1, <2>2 DEF IsFold, IsSum
    <2> QED
      BY <2>3
  <1>3. IsSum(h, w, S)
    BY <1>2
  <1> HIDE DEF h
  <1> QED
    BY <1>1, <1>3

(* Over a subset it takes the same value as the sum over the whole set.    *)
LEMMA SumRestricts ==
    ASSUME NEW S, IsFiniteSet(S), NEW T \in SUBSET S, NEW w, NEW g, NEW h,
           IsSum(h, w, S), IsSum(g, w, T)
    PROVE  \A s \in SUBSET T : g[s] = h[s]
  <1> DEFINE Bad == {n \in Nat : \E s \in SUBSET T : Cardinality(s) = n /\ g[s] # h[s]}
  <1>1. Bad = {}
    <2>1. SUFFICES ASSUME Bad # {}
                   PROVE  FALSE
      OBVIOUS
    <2>2. Bad \in SUBSET Nat
      OBVIOUS
    <2>3. PICK m \in Bad : \A k \in Bad : m <= k
      <3> HIDE DEF Bad
      <3> QED
        BY <2>1, <2>2, LeastNatural
    <2>4. PICK s \in SUBSET T : Cardinality(s) = m /\ g[s] # h[s]
      BY <2>3
    <2>5. s # {}
      BY <2>4 DEF IsSum
    <2>6. OneOf(s) \in s
      BY <2>5 DEF OneOf
    <2>7. g[s] = w[OneOf(s)] + g[s \ {OneOf(s)}] /\ h[s] = w[OneOf(s)] + h[s \ {OneOf(s)}]
      BY <2>5 DEF IsSum
    <2>8. Cardinality(s \ {OneOf(s)}) = m - 1 /\ m - 1 \in Nat
      <3>1. IsFiniteSet(s)
        BY FS_Subset
      <3> QED
        BY <2>4, <2>6, <3>1, SizeWithout
    <2>9. g[s \ {OneOf(s)}] = h[s \ {OneOf(s)}]
      <3>1. m - 1 \notin Bad
        BY <2>3, <2>8
      <3> QED
        BY <2>8, <3>1
    <2> QED
      BY <2>4, <2>7, <2>9
  <1> QED
    BY <1>1, FS_Subset, FS_CardinalityType

LEMMA SumAny ==
    ASSUME NEW S, IsFiniteSet(S), NEW w, \A x \in S : w[x] \in Nat
    PROVE  /\ SumOf(w, {}) = 0
           /\ S # {} => SumOf(w, S) = w[OneOf(S)] + SumOf(w, S \ {OneOf(S)})
  <1>1. PICK h : IsSum(h, w, S) /\ SumOf(w, S) = h[S]
    BY SumExists
  <1>2. \A T \in SUBSET S : SumOf(w, T) = h[T]
    <2> SUFFICES ASSUME NEW T \in SUBSET S
                 PROVE  SumOf(w, T) = h[T]
      OBVIOUS
    <2>1. IsFiniteSet(T)
      BY FS_Subset
    <2>2. PICK g : IsSum(g, w, T) /\ SumOf(w, T) = g[T]
      BY <2>1, SumExists
    <2> QED
      BY <1>1, <2>2, SumRestricts
  <1>3. SumOf(w, {}) = 0
    BY <1>1, <1>2 DEF IsSum
  <1>4. ASSUME S # {}
        PROVE  SumOf(w, S) = w[OneOf(S)] + SumOf(w, S \ {OneOf(S)})
    <2>1. h[S] = w[OneOf(S)] + h[S \ {OneOf(S)}]
      BY <1>1, <1>4 DEF IsSum
    <2> QED
      BY <1>1, <1>2, <2>1
  <1> QED
    BY <1>3, <1>4

(* A sum of naturals is a natural, in proportion to its terms, positive if *)
(* they are.                                                               *)
LEMMA SumNatural ==
    ASSUME NEW S, IsFiniteSet(S), NEW w, \A x \in S : w[x] \in Nat
    PROVE  /\ SumOf(w, S) \in Nat
           /\ S # {} /\ (\A x \in S : w[x] > 0) => SumOf(w, S) > 0
  <1> DEFINE Bad == {n \in Nat : \E s \in SUBSET S : Cardinality(s) = n /\ SumOf(w, s) \notin Nat}
  <1>1. ASSUME NEW s \in SUBSET S, s # {}
        PROVE  /\ OneOf(s) \in s /\ SumOf(w, s) = w[OneOf(s)] + SumOf(w, s \ {OneOf(s)})
               /\ Cardinality(s \ {OneOf(s)}) = Cardinality(s) - 1
               /\ Cardinality(s \ {OneOf(s)}) \in Nat
    <2>1. IsFiniteSet(s) /\ OneOf(s) \in s
      BY <1>1, FS_Subset DEF OneOf
    <2> QED
      BY <1>1, <2>1, SumAny, SizeWithout
  <1>2. SumOf(w, {}) = 0
    BY SumAny
  <1>3. Bad = {}
    <2>1. SUFFICES ASSUME Bad # {}
                   PROVE  FALSE
      OBVIOUS
    <2>2. Bad \in SUBSET Nat
      OBVIOUS
    <2>3. PICK m \in Bad : \A k \in Bad : m <= k
      <3> HIDE DEF Bad
      <3> QED
        BY <2>1, <2>2, LeastNatural
    <2>4. PICK s \in SUBSET S : Cardinality(s) = m /\ SumOf(w, s) \notin Nat
      BY <2>3
    <2>5. s # {}
      BY <1>2, <2>4
    <2>6. m - 1 \in Nat /\ m - 1 \notin Bad
      <3>1. m - 1 \in Nat
        BY <1>1, <2>4, <2>5
      <3> HIDE DEF Bad
      <3> QED
        BY <2>2, <2>3, <3>1
    <2>7. SumOf(w, s \ {OneOf(s)}) \in Nat
      BY <1>1, <2>4, <2>5, <2>6
    <2>8. w[OneOf(s)] \in Nat
      BY <1>1, <2>5
    <2> QED
      BY <1>1, <2>4, <2>5, <2>7, <2>8
  <1>4. \A s \in SUBSET S : SumOf(w, s) \in Nat
    BY <1>3, FS_Subset, FS_CardinalityType
  <1>5. ASSUME S # {}, \A x \in S : w[x] > 0
        PROVE  SumOf(w, S) > 0
    <2>1. OneOf(S) \in S /\ SumOf(w, S) = w[OneOf(S)] + SumOf(w, S \ {OneOf(S)})
      BY <1>1, <1>5
    <2>2. SumOf(w, S \ {OneOf(S)}) \in Nat /\ w[OneOf(S)] \in Nat /\ w[OneOf(S)] > 0
      BY <1>4, <1>5, <2>1
    <2> QED
      BY <2>1, <2>2
  <1> QED
    BY <1>4, <1>5

(* OneOf element may be the one that is taken out.                           *)
LEMMA SumWithout ==
    ASSUME NEW S, IsFiniteSet(S), NEW w, \A x \in S : w[x] \in Nat, NEW y \in S
    PROVE  SumOf(w, S) = w[y] + SumOf(w, S \ {y})
  <1> DEFINE Good(s) == \A x \in s : SumOf(w, s) = w[x] + SumOf(w, s \ {x})
             Bad == {n \in Nat : \E s \in SUBSET S : Cardinality(s) = n /\ ~Good(s)}
  <1>1. \A s \in SUBSET S : IsFiniteSet(s) /\ SumOf(w, s) \in Nat
    BY FS_Subset, SumNatural
  <1>2. Bad = {}
    <2>1. SUFFICES ASSUME Bad # {}
                   PROVE  FALSE
      OBVIOUS
    <2>2. Bad \in SUBSET Nat
      OBVIOUS
    <2>3. PICK m \in Bad : \A k \in Bad : m <= k
      <3> HIDE DEF Bad
      <3> QED
        BY <2>1, <2>2, LeastNatural
    <2>4. PICK s \in SUBSET S : Cardinality(s) = m /\ ~Good(s)
      BY <2>3
    <2>5. PICK x \in s : SumOf(w, s) # w[x] + SumOf(w, s \ {x})
      BY <2>4
    <2> DEFINE a == OneOf(s)
    <2>6. a \in s /\ SumOf(w, s) = w[a] + SumOf(w, s \ {a})
      BY <1>1, SumAny DEF OneOf
    <2> HIDE DEF a
    <2>7. a # x
      BY <2>5, <2>6
    <2>8. \A e \in s : Good(s \ {e})
      <3> SUFFICES ASSUME NEW e \in s
                   PROVE  Good(s \ {e})
        OBVIOUS
      <3> HIDE DEF Good
      <3>1. Cardinality(s \ {e}) = m - 1 /\ m - 1 \in Nat
        BY <1>1, <2>4, SizeWithout
      <3>2. m - 1 \notin Bad
        BY <2>3, <3>1
      <3> QED
        BY <3>1, <3>2
    <2> DEFINE rest == SumOf(w, s \ {a, x})
    <2>9. SumOf(w, s \ {a}) = w[x] + rest /\ SumOf(w, s \ {x}) = w[a] + rest
      <3>1. (s \ {a}) \ {x} = s \ {a, x} /\ (s \ {x}) \ {a} = s \ {a, x}
        OBVIOUS
      <3>2. x \in s \ {a} /\ a \in s \ {x}
        BY <2>6, <2>7
      <3>3. SumOf(w, s \ {a}) = w[x] + SumOf(w, (s \ {a}) \ {x})
        BY <2>6, <2>8, <3>2
      <3>4. SumOf(w, s \ {x}) = w[a] + SumOf(w, (s \ {x}) \ {a})
        BY <2>8, <3>2
      <3> QED
        BY <3>1, <3>3, <3>4
    <2>10. rest \in Nat /\ w[x] \in Nat /\ w[a] \in Nat
      BY <1>1, <2>6
    <2> HIDE DEF rest
    <2> QED
      BY <2>5, <2>6, <2>9, <2>10
  <1>3. Good(S)
    <2> HIDE DEF Good
    <2> QED
      BY <1>2, FS_CardinalityType
  <1> QED
    BY <1>3

(* A sum of terms up to b. *)
LEMMA SumBound ==
    ASSUME NEW S, IsFiniteSet(S), NEW b \in Nat, NEW w, \A x \in S : w[x] \in 0 .. b
    PROVE  SumOf(w, S) <= Cardinality(S) * b
  <1> DEFINE Good(s) == SumOf(w, s) <= Cardinality(s) * b
             Bad == {n \in Nat : \E s \in SUBSET S : Cardinality(s) = n /\ ~Good(s)}
  <1>0. \A x \in S : w[x] \in Nat
    OBVIOUS
  <1>1. \A s \in SUBSET S : IsFiniteSet(s) /\ SumOf(w, s) \in Nat /\ Cardinality(s) \in Nat
    BY FS_Subset, FS_CardinalityType, SumNatural
  <1>2. Bad = {}
    <2>1. SUFFICES ASSUME Bad # {}
                   PROVE  FALSE
      OBVIOUS
    <2>2. Bad \in SUBSET Nat
      OBVIOUS
    <2>3. PICK m \in Bad : \A k \in Bad : m <= k
      <3> HIDE DEF Bad
      <3> QED
        BY <2>1, <2>2, LeastNatural
    <2>4. PICK s \in SUBSET S : Cardinality(s) = m /\ ~Good(s)
      BY <2>3
    <2>5. s # {}
      <3>1. SumOf(w, {}) = 0
        BY <1>0, SumAny
      <3>2. Cardinality({}) = 0
        BY FS_EmptySet
      <3>3. 0 <= 0 * b
        OBVIOUS
      <3>4. Good({})
        BY <3>1, <3>2, <3>3
      <3> HIDE DEF Good
      <3> QED
        BY <2>4, <3>4
    <2>6. PICK x \in s : TRUE
      BY <2>5
    <2>7. Cardinality(s \ {x}) = m - 1 /\ m - 1 \in Nat
      BY <1>1, <2>4, SizeWithout
    <2>8. Good(s \ {x})
      <3>1. m - 1 \notin Bad
        BY <2>3, <2>7
      <3> HIDE DEF Good
      <3> QED
        BY <2>7, <3>1
    <2>9. SumOf(w, s) = w[x] + SumOf(w, s \ {x})
      BY <1>1, SumWithout
    <2> DEFINE r == SumOf(w, s \ {x})
    <2>10. r \in Nat /\ r <= (m - 1) * b
      BY <1>1, <2>7, <2>8
    <2>11. w[x] \in 0 .. b
      OBVIOUS
    <2> HIDE DEF r
    <2>12. w[x] + r <= m * b
      <3>1. m \in Nat /\ (m - 1) * b = m * b - b /\ m * b \in Nat
        BY <2>7
      <3> QED
        BY <2>10, <2>11, <3>1
    <2> QED
      BY <2>4, <2>9, <2>12 DEF r
  <1>3. Good(S)
    <2> HIDE DEF Good
    <2> QED
      BY <1>2, FS_CardinalityType
  <1> QED
    BY <1>3

(* More terms do not make it less. *)
LEMMA SumMonotone ==
    ASSUME NEW S, IsFiniteSet(S), NEW w, \A x \in S : w[x] \in Nat, NEW T \in SUBSET S
    PROVE  SumOf(w, T) <= SumOf(w, S)
  <1> DEFINE Good(s) == SumOf(w, T) <= SumOf(w, s)
             Bad == {n \in Nat : \E s \in SUBSET S : T \subseteq s /\ Cardinality(s) = n /\ ~Good(s)}
  <1>1. \A s \in SUBSET S : IsFiniteSet(s) /\ SumOf(w, s) \in Nat /\ Cardinality(s) \in Nat
    BY FS_Subset, FS_CardinalityType, SumNatural
  <1>2. Bad = {}
    <2>1. SUFFICES ASSUME Bad # {}
                   PROVE  FALSE
      OBVIOUS
    <2>2. Bad \in SUBSET Nat
      OBVIOUS
    <2>3. PICK m \in Bad : \A k \in Bad : m <= k
      <3> HIDE DEF Bad
      <3> QED
        BY <2>1, <2>2, LeastNatural
    <2>4. PICK s \in SUBSET S : T \subseteq s /\ Cardinality(s) = m /\ ~Good(s)
      BY <2>3
    <2>5. PICK x \in s : x \notin T
      <3>1. T # s
        BY <1>1, <2>4
      <3> QED
        BY <2>4, <3>1
    <2>6. Cardinality(s \ {x}) = m - 1 /\ m - 1 \in Nat
      BY <1>1, <2>4, SizeWithout
    <2>7. SumOf(w, s) = w[x] + SumOf(w, s \ {x})
      BY <1>1, SumWithout
    <2>8. Good(s \ {x})
      <3>1. m - 1 \notin Bad
        BY <2>3, <2>6
      <3>2. T \subseteq s \ {x} /\ s \ {x} \in SUBSET S
        BY <2>4, <2>5
      <3> HIDE DEF Good
      <3> QED
        BY <2>6, <3>1, <3>2
    <2>9. SumOf(w, T) \in Nat /\ SumOf(w, s \ {x}) \in Nat /\ w[x] \in Nat
      BY <1>1
    <2> QED
      BY <2>4, <2>7, <2>8, <2>9
  <1>3. Good(S)
    <2> HIDE DEF Good
    <2> QED
      BY <1>1, <1>2
  <1> QED
    BY <1>3

-----------------------------------------------------------------------------
(* Whatever holds of 0 and passes on from n - 1 to n holds up to N. *)
LEMMA StepByStep ==
    ASSUME NEW N \in Nat, NEW S, 0 \in S, \A n \in 1 .. N : n - 1 \in S => n \in S
    PROVE  \A n \in 0 .. N : n \in S
  <1> DEFINE Bad == {n \in 0 .. N : n \notin S}
  <1> SUFFICES ASSUME Bad # {}
               PROVE  FALSE
    OBVIOUS
  <1>1. Bad \in SUBSET Nat
    OBVIOUS
  <1>2. PICK m \in Bad : \A k \in Bad : m <= k
    <2> HIDE DEF Bad
    <2> QED
      BY <1>1, LeastNatural
  <1>3. m \in 1 .. N /\ m - 1 \in 0 .. N
    OBVIOUS
  <1>4. m - 1 \in S
    BY <1>2, <1>3
  <1> QED
    BY <1>3, <1>4

(* The first positions of a sequence, the last of which is taken from it. *)
LEMMA FirstPositions ==
    ASSUME NEW n \in Nat \ {0}
    PROVE  Max(1 .. n) = n /\ (1 .. n) \ {n} = 1 .. (n - 1) /\ 1 .. n # {}
  <1>1. 1 .. n \in SUBSET Nat /\ n \in 1 .. n
    OBVIOUS
  <1>2. IsFiniteSet(1 .. n)
    BY FS_Interval
  <1>3. Max(1 .. n) \in 1 .. n /\ \A p \in 1 .. n : p <= Max(1 .. n)
    BY <1>1, <1>2, MaxIn
  <1> QED
    BY <1>1, <1>3

=============================================================================
