----------------------------- MODULE DataLemmas -----------------------------
(***************************************************************************)
(* Lemmas about numbers, sequences, sums and the folds of the community    *)
(* modules, which hold whatever is counted or listed, and the induction    *)
(* they rest on: a set of naturals has a least element.                    *)
(***************************************************************************)
EXTENDS FiniteSetTheorems, SequenceTheorems, WellFoundedInduction, TLAPS

LEMMA LeastNat ==
    ASSUME NEW A \in SUBSET Nat, A # {}
    PROVE  \E x \in A : \A y \in A : x =< y
<1> DEFINE T == {0..x : x \in A}
           R == StrictSubsetOrdering(Nat)
           F == FiniteSubsetsOf(Nat)
<1>1. IsWellFoundedOn(R, F)
  BY FS_StrictSubsetOrderingWellFounded
<1>2. T \subseteq F /\ T # {}
  <2>1. \A x \in A : 0 \in Int /\ x \in Int /\ 0..x \in SUBSET Nat
    OBVIOUS
  <2>2. \A x \in A : IsFiniteSet(0..x)
    BY <2>1, FS_Interval
  <2> QED
    BY <2>1, <2>2 DEF FiniteSubsetsOf
<1>3. \E S \in T : \A U \in T : <<U, S>> \notin R
  <2> HIDE DEF T, R, F
  <2> QED
    BY <1>1, <1>2, WFMin
<1>4. PICK x \in A : \A y \in A : <<0..y, 0..x>> \notin R
  BY <1>3
<1>5. ASSUME NEW y \in A, ~(x =< y) PROVE FALSE
  <2>1. x \in Nat /\ y \in Nat /\ y < x
    BY <1>5
  <2>2. (0..y) \subseteq (0..x) /\ x \in 0..x /\ x \notin 0..y
    BY <2>1
  <2>3. <<0..y, 0..x>> \in R
    BY <2>2 DEF StrictSubsetOrdering
  <2> QED
    BY <1>4, <2>3
<1> QED
  BY <1>5

LEMMA GreatestNat ==
    ASSUME NEW n \in Nat, NEW A \in SUBSET (0..n), A # {}
    PROVE  \E x \in A : \A y \in A : x >= y
<1> DEFINE B == {m \in 0..n : n - m \in A}
<1>1. B \in SUBSET Nat /\ B # {}
  <2>1. PICK a \in A : TRUE
    OBVIOUS
  <2>2. a \in 0..n /\ n - a \in 0..n /\ n - (n - a) = a
    BY <2>1
  <2> QED
    BY <2>1, <2>2
<1>2. PICK m \in B : \A k \in B : m =< k
  BY <1>1, LeastNat
<1>3. n - m \in A
  BY <1>2
<1>4. ASSUME NEW a \in A PROVE n - m >= a
  <2>1. a \in 0..n /\ n - a \in 0..n /\ n - (n - a) = a
    OBVIOUS
  <2>2. n - a \in B
    BY <2>1
  <2> QED
    BY <1>2, <2>1, <2>2
<1> QED
  BY <1>3, <1>4

-----------------------------------------------------------------------------
(* Folds of the community modules with +.                                   *)

\* What the recursive function behind a fold with + gives a set.
Picked(s) == CHOOSE x \in s : TRUE
Summed(f, g, s) == IF s = {} THEN 0 ELSE f[Picked(s)] + g[s \ {Picked(s)}]

LEMMA FoldIsIter ==
    ASSUME NEW D, NEW f \in [D -> Nat]
    PROVE  FoldFunction(+, 0, f) = (CHOOSE g : g = [s \in SUBSET D |-> Summed(f, g, s)])[D]
<1>1. DOMAIN f = D
  OBVIOUS
<1>2. FoldFunction(+, 0, f) = (CHOOSE g : g = [s \in SUBSET DOMAIN f |-> Summed(f, g, s)])[DOMAIN f]
  BY DEF FoldFunction, FoldFunctionOnSet, MapThenFoldSet, Summed, Picked
<1> QED
  BY <1>1, <1>2

LEMMA PickedIsIn == \A s : s # {} => Picked(s) \in s
BY DEF Picked

\* A property of the naturals that fails has a first failure.
LEMMA FirstFailure ==
    ASSUME NEW Good \in SUBSET Nat, 0 \in Good, \A n \in Good : n + 1 \in Good
    PROVE  Good = Nat
<1> SUFFICES ASSUME Nat \ Good # {} PROVE FALSE
  OBVIOUS
<1>1. PICK n \in Nat \ Good : \A m \in Nat \ Good : n =< m
  BY LeastNat
<1>2. n # 0 /\ n - 1 \in Nat /\ (n - 1) + 1 = n
  BY <1>1
<1>3. n - 1 \notin Good
  BY <1>1, <1>2
<1> QED
  BY <1>1, <1>2, <1>3

\* A set without one of its elements has one element less.
LEMMA OneLess ==
    ASSUME NEW D, IsFiniteSet(D), NEW s \in SUBSET D
    PROVE  /\ Cardinality(s) \in Nat /\ (s = {} <=> Cardinality(s) = 0)
           /\ \A x \in s : Cardinality(s \ {x}) = Cardinality(s) - 1
<1>1. IsFiniteSet(s)
  BY FS_Subset
<1>2. Cardinality(s) \in Nat
  BY <1>1, FS_CardinalityType
<1>3. s = {} <=> Cardinality(s) = 0
  BY <1>1, FS_EmptySet
<1>4. \A x \in s : Cardinality(s \ {x}) = Cardinality(s) - 1
  BY <1>1, FS_RemoveElement
<1> QED
  BY <1>2, <1>3, <1>4

\* The recursive function exists on a finite domain, and its values are the
\* same whichever element is taken first.
IsSum(f, g, D) ==
    /\ g \in [SUBSET D -> Nat] /\ g[{}] = 0
    /\ \A s \in SUBSET D : \A x \in s : g[s] = f[x] + g[s \ {x}]

\* The recursive function behind a fold exists on a finite domain, for any
\* operation (a function, since lemmas have no operators for parameters) and
\* whichever element of a set is taken first.
Iterated(op, base, f, pick, g, s) ==
    IF s = {} THEN base ELSE op[<<f[pick[s]], g[s \ {pick[s]}]>>]

Folds(op, base, f, pick, g, D) == \A s \in SUBSET D : g[s] = Iterated(op, base, f, pick, g, s)
Picks(pick, D) == \A s \in SUBSET D : s # {} => pick[s] \in s

LEMMA FoldExists ==
    ASSUME NEW D, IsFiniteSet(D), NEW A, NEW B, NEW op \in [B \X A -> A], NEW base \in A,
           NEW f \in [D -> B], NEW pick, Picks(pick, D)
    PROVE  \E g \in [SUBSET D -> A] : Folds(op, base, f, pick, g, D)
<1> DEFINE Upto(n, g) == \A s \in SUBSET D : Cardinality(s) =< n => g[s] = Iterated(op, base, f, pick, g, s)
           Good == {n \in Nat : \E g \in [SUBSET D -> A] : Upto(n, g)}
           After(g) == [s \in SUBSET D |-> Iterated(op, base, f, pick, g, s)]
<1> USE DEF Picks
<1>1. ASSUME NEW g \in [SUBSET D -> A]
      PROVE  After(g) \in [SUBSET D -> A]
  <2>1. ASSUME NEW s \in SUBSET D PROVE Iterated(op, base, f, pick, g, s) \in A
    <3>1. CASE s = {}
      BY <3>1 DEF Iterated
    <3>2. CASE s # {}
      <4>1. pick[s] \in D /\ s \ {pick[s]} \in SUBSET D
        BY <3>2
      <4>2. f[pick[s]] \in B /\ g[s \ {pick[s]}] \in A
        BY <4>1
      <4>3. op[<<f[pick[s]], g[s \ {pick[s]}]>>] \in A
        BY <4>2
      <4> QED
        BY <3>2, <4>3 DEF Iterated
    <3> QED
      BY <3>1, <3>2
  <2> QED
    BY <2>1
<1>2. ASSUME NEW n \in Nat, NEW g \in [SUBSET D -> A], n = 0 \/ (n - 1 \in Nat /\ Upto(n - 1, g))
      PROVE  Upto(n, After(g))
  <2> DEFINE h == After(g)
  <2> SUFFICES ASSUME NEW s \in SUBSET D, Cardinality(s) =< n
               PROVE  h[s] = Iterated(op, base, f, pick, h, s)
    OBVIOUS
  <2>1. h[s] = Iterated(op, base, f, pick, g, s)
    OBVIOUS
  <2>2. CASE s = {}
    BY <2>1, <2>2 DEF Iterated
  <2>3. CASE s # {}
    <3> DEFINE r == s \ {pick[s]}
    <3>1. pick[s] \in s /\ r \in SUBSET D
      BY <2>3
    <3>2. n - 1 \in Nat /\ Cardinality(r) =< n - 1 /\ Upto(n - 1, g)
      BY <1>2, <2>3, <3>1, OneLess
    <3>3. g[r] = Iterated(op, base, f, pick, g, r)
      BY <3>1, <3>2
    <3>4. g[r] = h[r]
      BY <3>1, <3>3
    <3> HIDE DEF h
    <3> QED
      BY <2>1, <2>3, <3>4 DEF Iterated
  <2> QED
    BY <2>2, <2>3
<1>3. 0 \in Good
  <2>1. [s \in SUBSET D |-> base] \in [SUBSET D -> A]
    OBVIOUS
  <2>2. 0 \in Nat
    OBVIOUS
  <2> HIDE DEF Upto, After
  <2> QED
    BY <1>1, <1>2, <2>1, <2>2
<1>4. ASSUME NEW n \in Good PROVE n + 1 \in Good
  <2>1. PICK g \in [SUBSET D -> A] : Upto(n, g)
    OBVIOUS
  <2>2. n + 1 \in Nat /\ (n + 1) - 1 = n
    OBVIOUS
  <2> HIDE DEF Upto, After
  <2>3. Upto(n + 1, After(g))
    BY <1>2, <2>1, <2>2
  <2> QED
    BY <1>1, <2>2, <2>3
<1>5. Good = Nat
  <2> HIDE DEF Good
  <2>1. Good \in SUBSET Nat
    BY DEF Good
  <2> QED
    BY <1>3, <1>4, <2>1, FirstFailure
<1>6. Cardinality(D) \in Nat
  BY FS_CardinalityType
<1>7. PICK g \in [SUBSET D -> A] : Upto(Cardinality(D), g)
  BY <1>5, <1>6
<1>8. ASSUME NEW s \in SUBSET D PROVE g[s] = Iterated(op, base, f, pick, g, s)
  <2>1. Cardinality(s) =< Cardinality(D)
    BY FS_Subset
  <2> QED
    BY <1>7, <2>1
<1> QED
  BY <1>8 DEF Folds

Iterates(f, g, D) == \A s \in SUBSET D : g[s] = Summed(f, g, s)

LEMMA IterExists ==
    ASSUME NEW D, IsFiniteSet(D), NEW f \in [D -> Nat]
    PROVE  \E g \in [SUBSET D -> Nat] : Iterates(f, g, D)
<1> DEFINE plus == [p \in Nat \X Nat |-> p[1] + p[2]]
           pick == [s \in SUBSET D |-> Picked(s)]
<1>1. plus \in [Nat \X Nat -> Nat] /\ \A a, b \in Nat : plus[<<a, b>>] = a + b
  OBVIOUS
<1>2. \A s \in SUBSET D : pick[s] = Picked(s) /\ (s # {} => pick[s] \in s)
  BY PickedIsIn
<1> HIDE DEF plus, pick
<1>3. PICK g \in [SUBSET D -> Nat] : Folds(plus, 0, f, pick, g, D)
  <2>1. /\ plus \in [Nat \X Nat -> Nat] /\ 0 \in Nat /\ IsFiniteSet(D) /\ f \in [D -> Nat]
        /\ Picks(pick, D)
    BY <1>1, <1>2 DEF Picks
  <2> QED
    BY <2>1, FoldExists
<1>4. ASSUME NEW s \in SUBSET D PROVE g[s] = Summed(f, g, s)
  <2>1. g[s] = IF s = {} THEN 0 ELSE plus[<<f[pick[s]], g[s \ {pick[s]}]>>]
    BY <1>3 DEF Folds, Iterated
  <2>2. s # {} => f[Picked(s)] \in Nat /\ g[s \ {Picked(s)}] \in Nat
    BY PickedIsIn
  <2> QED
    BY <1>1, <1>2, <2>1, <2>2 DEF Summed
<1> QED
  BY <1>4 DEF Iterates

LEMMA IterIsSum ==
    ASSUME NEW D, IsFiniteSet(D), NEW f \in [D -> Nat], NEW g \in [SUBSET D -> Nat],
           Iterates(f, g, D)
    PROVE  IsSum(f, g, D)
<1>1. \A s \in SUBSET D : g[s] = Summed(f, g, s)
  BY DEF Iterates
<1>2. g[{}] = 0
  BY <1>1 DEF Summed
<1> DEFINE Good == {n \in Nat : \A s \in SUBSET D :
                      Cardinality(s) = n => \A x \in s : g[s] = f[x] + g[s \ {x}]}
<1>3. 0 \in Good
  BY OneLess
<1>4. ASSUME NEW n \in Good PROVE n + 1 \in Good
  <2>0. n \in Nat /\ n + 1 \in Nat
    OBVIOUS
  <2> SUFFICES ASSUME NEW s \in SUBSET D, Cardinality(s) = n + 1, NEW x \in s
               PROVE  g[s] = f[x] + g[s \ {x}]
    BY <2>0
  <2> DEFINE y == Picked(s)
  <2>1. y \in s /\ g[s] = f[y] + g[s \ {y}]
    BY <1>1, PickedIsIn DEF Summed
  <2>2. CASE x = y
    BY <2>1, <2>2
  <2>3. CASE x # y
    <3> HIDE DEF y
    <3> DEFINE sx == s \ {x}
               sy == s \ {y}
    <3>1. /\ sx \in SUBSET D /\ sy \in SUBSET D /\ y \in sx /\ x \in sy /\ sx \ {y} = sy \ {x}
          /\ Cardinality(sx) = n /\ Cardinality(sy) = n /\ x \in D /\ y \in D
      BY <2>1, <2>3, OneLess
    <3>2. g[sx] = f[y] + g[sx \ {y}] /\ g[sy] = f[x] + g[sy \ {x}]
      BY <3>1
    <3>3. f[x] \in Nat /\ f[y] \in Nat /\ g[sx \ {y}] \in Nat /\ g[sx] \in Nat /\ g[sy] \in Nat
      BY <3>1
    <3>4. g[s] = f[y] + g[sy] /\ g[sx \ {y}] = g[sy \ {x}]
      BY <2>1, <3>1
    <3> DEFINE a == f[x]
               b == f[y]
               rest == g[sx \ {y}]
    <3>5. a \in Nat /\ b \in Nat /\ rest \in Nat /\ g[sx] = b + rest /\ g[sy] = a + rest /\ g[s] = b + g[sy]
      BY <3>2, <3>3, <3>4
    <3> HIDE DEF sx, sy, a, b, rest
    <3>6. g[s] = a + g[sx]
      BY <3>5
    <3> QED
      BY <3>6 DEF sx, a
  <2> QED
    BY <2>2, <2>3
<1>5. Good = Nat
  <2> HIDE DEF Good
  <2>1. Good \in SUBSET Nat
    BY DEF Good
  <2> QED
    BY <1>3, <1>4, <2>1, FirstFailure
<1>6. \A s \in SUBSET D : Cardinality(s) \in Nat
  BY OneLess
<1> QED
  BY <1>2, <1>5, <1>6 DEF IsSum

LEMMA IterIsOne ==
    ASSUME NEW D, IsFiniteSet(D), NEW f, NEW g, NEW h,
           Iterates(f, g, D), Iterates(f, h, D)
    PROVE  g[D] = h[D]
<1>1. \A s \in SUBSET D : g[s] = Summed(f, g, s) /\ h[s] = Summed(f, h, s)
  BY DEF Iterates
<1> DEFINE Good == {n \in Nat : \A s \in SUBSET D : Cardinality(s) = n => g[s] = h[s]}
<1>2. 0 \in Good
  BY <1>1, OneLess DEF Summed
<1>3. ASSUME NEW n \in Good PROVE n + 1 \in Good
  <2>0. n \in Nat /\ n + 1 \in Nat
    OBVIOUS
  <2> SUFFICES ASSUME NEW s \in SUBSET D, Cardinality(s) = n + 1 PROVE g[s] = h[s]
    BY <2>0
  <2>1. s # {} /\ Picked(s) \in s
    BY OneLess, PickedIsIn
  <2>2. Cardinality(s \ {Picked(s)}) = n
    BY <2>1, OneLess
  <2>3. g[s \ {Picked(s)}] = h[s \ {Picked(s)}]
    BY <2>2
  <2> QED
    BY <1>1, <2>1, <2>3 DEF Summed
<1>4. Good = Nat
  <2> HIDE DEF Good
  <2>1. Good \in SUBSET Nat
    BY DEF Good
  <2> QED
    BY <1>2, <1>3, <2>1, FirstFailure
<1> QED
  BY <1>4, OneLess

\* The folds the meters use.
SumOver(f) == FoldFunction(+, 0, f)

LEMMA FoldIsSum ==
    ASSUME NEW D, IsFiniteSet(D), NEW f \in [D -> Nat]
    PROVE  \E g : IsSum(f, g, D) /\ SumOver(f) = g[D]
<1>1. PICK g \in [SUBSET D -> Nat] : Iterates(f, g, D)
  BY IterExists
<1> DEFINE c == CHOOSE h : h = [s \in SUBSET D |-> Summed(f, h, s)]
<1>2. c = [s \in SUBSET D |-> Summed(f, c, s)]
  <2>1. g = [s \in SUBSET D |-> Summed(f, g, s)]
    BY <1>1 DEF Iterates
  <2> QED
    BY <2>1
<1>3. SumOver(f) = c[D]
  BY FoldIsIter DEF SumOver
<1> HIDE DEF c
<1>4. c[D] = g[D]
  <2>1. Iterates(f, c, D)
    BY <1>2 DEF Iterates
  <2> QED
    BY <1>1, <2>1, IterIsOne
<1>5. IsSum(f, g, D)
  BY <1>1, IterIsSum
<1> QED
  BY <1>3, <1>4, <1>5
\* Functions that agree on a set have the same sum on it.
LEMMA SumsAgree ==
    ASSUME NEW D, IsFiniteSet(D), NEW f, NEW g, IsSum(f, g, D),
           NEW E, NEW f2, NEW g2, IsSum(f2, g2, E),
           NEW S \in SUBSET D, S \subseteq E, \A x \in S : f[x] = f2[x]
    PROVE  g[S] = g2[S]
<1> DEFINE Good == {n \in Nat : \A s \in SUBSET S : Cardinality(s) = n => g[s] = g2[s]}
<1>1. 0 \in Good
  BY OneLess DEF IsSum
<1>2. ASSUME NEW n \in Good PROVE n + 1 \in Good
  <2>0. n \in Nat /\ n + 1 \in Nat
    OBVIOUS
  <2> SUFFICES ASSUME NEW s \in SUBSET S, Cardinality(s) = n + 1 PROVE g[s] = g2[s]
    BY <2>0
  <2>1. PICK x \in s : Cardinality(s \ {x}) = n
    BY <2>0, OneLess
  <2>2. g[s \ {x}] = g2[s \ {x}]
    BY <2>1
  <2>3. g[s] = f[x] + g[s \ {x}] /\ g2[s] = f2[x] + g2[s \ {x}]
    BY DEF IsSum
  <2> QED
    BY <2>2, <2>3
<1>3. Good = Nat
  <2> HIDE DEF Good
  <2>1. Good \in SUBSET Nat
    BY DEF Good
  <2> QED
    BY <1>1, <1>2, <2>1, FirstFailure
<1>4. Cardinality(S) \in Nat
  BY OneLess
<1> QED
  BY <1>3, <1>4

\* The sum of a function that is changed at one place.
LEMMA SumChanged ==
    ASSUME NEW D, IsFiniteSet(D), NEW f \in [D -> Nat], NEW f2 \in [D -> Nat],
           NEW x \in D, \A y \in D : y # x => f2[y] = f[y]
    PROVE  /\ SumOver(f) \in Nat
           /\ SumOver(f2) \in Nat
           /\ SumOver(f) >= f[x]
           /\ SumOver(f2) = (SumOver(f) - f[x]) + f2[x]
<1> DEFINE S == D \ {x}
           v == f2[x]
<1>1. f2 \in [D -> Nat] /\ f2[x] = v /\ v \in Nat /\ S \in SUBSET D /\ \A y \in S : f[y] = f2[y]
  OBVIOUS
<1> HIDE DEF S, v
<1>2. PICK g : IsSum(f, g, D) /\ SumOver(f) = g[D]
  BY FoldIsSum
<1>3. PICK g2 : IsSum(f2, g2, D) /\ SumOver(f2) = g2[D]
  BY <1>1, FoldIsSum
<1>4. g[S] = g2[S]
  <2>1. IsSum(f, g, D) /\ IsSum(f2, g2, D) /\ S \in SUBSET D /\ S \subseteq D /\ \A y \in S : f[y] = f2[y]
    BY <1>1, <1>2, <1>3
  <2> QED
    BY <2>1, SumsAgree
<1>5. g[D] = f[x] + g[S] /\ g2[D] = v + g2[S] /\ g[S] \in Nat /\ f[x] \in Nat
  BY <1>1, <1>2, <1>3 DEF IsSum, S
<1>6. g[D] \in Nat /\ g2[D] \in Nat /\ g[D] >= f[x] /\ g2[D] = (g[D] - f[x]) + v
  BY <1>1, <1>4, <1>5
<1> QED
  BY <1>2, <1>3, <1>6 DEF v

\* The sum of a function that is 0 everywhere.
LEMMA SumOfNone ==
    ASSUME NEW D, IsFiniteSet(D)
    PROVE  SumOver([x \in D |-> 0]) = 0
<1> DEFINE f == [x \in D |-> 0]
<1>1. f \in [D -> Nat] /\ \A x \in D : f[x] = 0
  OBVIOUS
<1> HIDE DEF f
<1>2. PICK g : IsSum(f, g, D) /\ SumOver(f) = g[D]
  BY <1>1, FoldIsSum
<1> DEFINE h == [s \in SUBSET D |-> 0]
<1>3. IsSum(f, h, D)
  BY <1>1 DEF IsSum
<1> HIDE DEF h
<1>4. g[D] = h[D]
  <2>1. IsSum(f, g, D) /\ IsSum(f, h, D) /\ D \in SUBSET D /\ D \subseteq D /\ \A y \in D : f[y] = f[y]
    BY <1>2, <1>3
  <2> QED
    BY <2>1, SumsAgree
<1>5. h[D] = 0
  BY DEF h
<1> QED
  BY <1>2, <1>4, <1>5 DEF f

\* The partial sums of a sequence.
IsPartial(s, P) ==
    /\ P \in [0..Len(s) -> Nat] /\ P[0] = 0
    /\ \A k \in 1..Len(s) : P[k] = s[k] + P[k - 1]

LEMMA SequenceSum ==
    ASSUME NEW s \in Seq(Nat)
    PROVE  \E P : IsPartial(s, P) /\ SumOver(s) = P[Len(s)]
<1> DEFINE n == Len(s)
<1>1. n \in Nat /\ s \in [1..n -> Nat]
  OBVIOUS
<1> HIDE DEF n
<1>2. IsFiniteSet(1..n)
  BY <1>1, FS_Interval
<1>3. PICK g : IsSum(s, g, 1..n) /\ SumOver(s) = g[1..n]
  BY <1>1, <1>2, FoldIsSum
<1> DEFINE P == [k \in 0..n |-> g[1..k]]
<1>4. P \in [0..n -> Nat]
  <2>1. \A k \in 0..n : (1..k) \in SUBSET (1..n)
    BY <1>1
  <2>2. \A k \in 0..n : g[1..k] \in Nat
    BY <1>3, <2>1 DEF IsSum
  <2> QED
    BY <2>2
<1>5. P[0] = 0
  <2>1. 1..0 = {}
    OBVIOUS
  <2>2. g[{}] = 0
    BY <1>3 DEF IsSum
  <2>3. 0 \in 0..n
    BY <1>1
  <2>4. P[0] = g[1..0]
    BY <2>3
  <2> HIDE DEF P
  <2> QED
    BY <2>1, <2>2, <2>4
<1>6. ASSUME NEW k \in 1..n PROVE P[k] = s[k] + P[k - 1]
  <2>1. (1..k) \in SUBSET (1..n) /\ k \in 1..k /\ (1..k) \ {k} = 1..(k - 1) /\ k - 1 \in 0..n /\ k \in 0..n
    BY <1>1
  <2>2. g[1..k] = s[k] + g[(1..k) \ {k}]
    BY <1>3, <2>1 DEF IsSum
  <2> QED
    BY <2>1, <2>2
<1>7. SumOver(s) = P[n]
  <2>1. P[n] = g[1..n]
    BY <1>1
  <2> QED
    BY <1>3, <2>1
<1> QED
  BY <1>4, <1>5, <1>6, <1>7 DEF IsPartial, n

\* The partial sums of a sequence are determined.
LEMMA PartialIsOne ==
    ASSUME NEW s \in Seq(Nat), NEW P, NEW Q, IsPartial(s, P), IsPartial(s, Q)
    PROVE  P[Len(s)] = Q[Len(s)]
<1> DEFINE n == Len(s)
           Good == {k \in Nat : k <= n => P[k] = Q[k]}
<1>1. n \in Nat
  OBVIOUS
<1>2. /\ P[0] = 0 /\ \A k \in 1..n : P[k] = s[k] + P[k - 1]
      /\ Q[0] = 0 /\ \A k \in 1..n : Q[k] = s[k] + Q[k - 1]
  BY DEF IsPartial
<1> HIDE DEF n
<1>3. 0 \in Good
  BY <1>2
<1>4. ASSUME NEW k \in Good PROVE k + 1 \in Good
  <2>1. k \in Nat /\ k + 1 \in Nat /\ (k + 1) - 1 = k
    OBVIOUS
  <2>2. ASSUME k + 1 <= n PROVE P[k + 1] = Q[k + 1]
    <3>1. k + 1 \in 1..n /\ P[k] = Q[k]
      BY <1>1, <2>1, <2>2
    <3> QED
      BY <1>2, <2>1, <3>1
  <2> QED
    BY <2>1, <2>2
<1>5. Good = Nat
  <2> HIDE DEF Good
  <2>1. Good \in SUBSET Nat
    BY DEF Good
  <2> QED
    BY <1>3, <1>4, <2>1, FirstFailure
<1>6. n \in Good /\ n <= n
  <2> HIDE DEF Good
  <2> QED
    BY <1>1, <1>5
<1> QED
  BY <1>6 DEF n

\* The sum of a sequence with a new element in front.
LEMMA SumPrepended ==
    ASSUME NEW s \in Seq(Nat), NEW v \in Nat
    PROVE  /\ SumOver(s) \in Nat
           /\ SumOver(<<v>> \o s) = v + SumOver(s)
<1> DEFINE t == <<v>> \o s
           n == Len(s)
<1>1. t \in Seq(Nat) /\ Len(t) = n + 1 /\ t[1] = v /\ n \in Nat /\ \A k \in 1..n : t[k + 1] = s[k]
  OBVIOUS
<1> HIDE DEF t, n
<1>2. PICK P : IsPartial(s, P) /\ SumOver(s) = P[n]
  BY SequenceSum DEF n
<1>3. PICK Q : IsPartial(t, Q) /\ SumOver(t) = Q[n + 1]
  BY <1>1, SequenceSum
<1>4. /\ P \in [0..n -> Nat] /\ P[0] = 0 /\ \A k \in 1..n : P[k] = s[k] + P[k - 1]
      /\ Q \in [0..(n + 1) -> Nat] /\ Q[0] = 0 /\ \A k \in 1..(n + 1) : Q[k] = t[k] + Q[k - 1]
  BY <1>1, <1>2, <1>3 DEF IsPartial, n
<1> DEFINE Good == {k \in Nat : k =< n => Q[k + 1] = v + P[k]}
<1>5. 0 \in Good
  <2>1. 1 \in 1..(n + 1) /\ 1 - 1 = 0 /\ 0 + 1 = 1
    BY <1>1
  <2>2. Q[1] = t[1] + Q[0]
    BY <1>4, <2>1
  <2> QED
    BY <1>1, <1>4, <2>1, <2>2
<1>6. ASSUME NEW k \in Good PROVE k + 1 \in Good
  <2>1. CASE k + 1 =< n
    <3>1. k \in Nat /\ k =< n /\ k + 1 \in 1..n /\ k + 2 \in 1..(n + 1) /\ (k + 2) - 1 = k + 1 /\ (k + 1) - 1 = k
      BY <1>1, <2>1
    <3>2. Q[k + 2] = t[k + 2] + Q[k + 1] /\ P[k + 1] = s[k + 1] + P[k]
      BY <1>4, <3>1
    <3>3. t[k + 2] = s[k + 1]
      <4>1. t[(k + 1) + 1] = s[k + 1] /\ (k + 1) + 1 = k + 2
        BY <1>1, <3>1
      <4> QED
        BY <4>1
    <3>4. Q[k + 1] = v + P[k]
      BY <3>1
    <3>5. s[k + 1] \in Nat /\ P[k] \in Nat /\ (k + 1) + 1 = k + 2
      <4>1. s[k + 1] \in Nat
        BY <3>1 DEF n
      <4> QED
        BY <1>4, <3>1, <4>1
    <3> QED
      BY <3>1, <3>2, <3>3, <3>4, <3>5
  <2>2. CASE ~(k + 1 =< n)
    BY <1>1, <2>2
  <2> QED
    BY <2>1, <2>2
<1>7. Good = Nat
  <2> HIDE DEF Good
  <2>1. Good \in SUBSET Nat
    BY DEF Good
  <2> QED
    BY <1>5, <1>6, <2>1, FirstFailure
<1>8. Q[n + 1] = v + P[n] /\ P[n] \in Nat
  <2>1. n \in Good /\ n =< n
    <3> HIDE DEF Good
    <3> QED
      BY <1>1, <1>7
  <2>2. P[n] \in Nat
    BY <1>1, <1>4
  <2> QED
    BY <2>1, <2>2
<1> QED
  BY <1>2, <1>3, <1>8 DEF t

\* The sum of a sequence without its last element.
LEMMA SumWithoutLast ==
    ASSUME NEW s \in Seq(Nat), s # <<>>
    PROVE  /\ s[Len(s)] \in Nat /\ SumOver(s) \in Nat
           /\ SubSeq(s, 1, Len(s) - 1) \in Seq(Nat)
           /\ SumOver(SubSeq(s, 1, Len(s) - 1)) = SumOver(s) - s[Len(s)]
<1> DEFINE t == SubSeq(s, 1, Len(s) - 1)
           n == Len(s)
<1>1. n \in Nat /\ n # 0
  OBVIOUS
<1>2. t \in Seq(Nat) /\ Len(t) = n - 1 /\ \A k \in 1..(n - 1) : t[k] = s[k]
  <2>1. \A m \in Nat : m =< Len(s) => 
            /\ SubSeq(s, 1, m) \in Seq(Nat) /\ Len(SubSeq(s, 1, m)) = m
            /\ \A k \in 1..m : SubSeq(s, 1, m)[k] = s[k]
    OBVIOUS
  <2>2. n - 1 \in Nat /\ n - 1 =< Len(s)
    BY <1>1
  <2> QED
    BY <2>1, <2>2
<1>3. s[n] \in Nat
  BY <1>1
<1> HIDE DEF t, n
<1>4. PICK P : IsPartial(s, P) /\ SumOver(s) = P[n]
  BY SequenceSum DEF n
<1>5. PICK Q : IsPartial(t, Q) /\ SumOver(t) = Q[n - 1]
  BY <1>2, SequenceSum
<1>6. /\ P \in [0..n -> Nat] /\ P[0] = 0 /\ \A k \in 1..n : P[k] = s[k] + P[k - 1]
      /\ Q \in [0..(n - 1) -> Nat] /\ Q[0] = 0 /\ \A k \in 1..(n - 1) : Q[k] = t[k] + Q[k - 1]
  BY <1>2, <1>4, <1>5 DEF IsPartial, n
<1> DEFINE Good == {k \in Nat : k =< n - 1 => Q[k] = P[k]}
<1>7. 0 \in Good
  BY <1>6
<1>8. ASSUME NEW k \in Good PROVE k + 1 \in Good
  <2>1. CASE k + 1 =< n - 1
    <3>1. k \in Nat /\ k =< n - 1 /\ k + 1 \in 1..(n - 1) /\ k + 1 \in 1..n /\ (k + 1) - 1 = k
      BY <1>1, <2>1
    <3>2. Q[k + 1] = t[k + 1] + Q[k] /\ P[k + 1] = s[k + 1] + P[k]
      BY <1>6, <3>1
    <3> QED
      BY <1>2, <3>1, <3>2
  <2>2. CASE ~(k + 1 =< n - 1)
    BY <1>1, <2>2
  <2> QED
    BY <2>1, <2>2
<1>9. Good = Nat
  <2> HIDE DEF Good
  <2>1. Good \in SUBSET Nat
    BY DEF Good
  <2> QED
    BY <1>7, <1>8, <2>1, FirstFailure
<1>10. n - 1 \in Nat /\ n - 1 \in 0..n /\ n \in 1..n
  BY <1>1
<1>11. Q[n - 1] = P[n - 1] /\ P[n] = s[n] + P[n - 1] /\ P[n - 1] \in Nat
  BY <1>6, <1>9, <1>10
<1>12. P[n] \in Nat /\ Q[n - 1] = P[n] - s[n]
  BY <1>3, <1>11
<1>13. SumOver(s) \in Nat /\ SumOver(t) = SumOver(s) - s[n]
  BY <1>4, <1>5, <1>12
<1> QED
  BY <1>2, <1>3, <1>13 DEF t, n

\* A finite set of naturals has a greatest element.
LEMMA GreatestFinite ==
    ASSUME NEW A \in SUBSET Nat, IsFiniteSet(A), A # {}
    PROVE  \E x \in A : \A y \in A : x >= y
<1> DEFINE Bounded(S) == \E m \in Nat : \A y \in S : m >= y
           Good == {n \in Nat : \A S \in SUBSET A : Cardinality(S) = n => Bounded(S)}
<1>1. 0 \in Good
  <2> SUFFICES ASSUME NEW S \in SUBSET A, Cardinality(S) = 0 PROVE Bounded(S)
    OBVIOUS
  <2>1. S = {}
    BY OneLess
  <2>2. 0 \in Nat /\ \A y \in S : 0 >= y
    BY <2>1
  <2> QED
    BY <2>2
<1>2. ASSUME NEW n \in Good PROVE n + 1 \in Good
  <2>0. n \in Nat /\ n + 1 \in Nat
    OBVIOUS
  <2> SUFFICES ASSUME NEW S \in SUBSET A, Cardinality(S) = n + 1 PROVE Bounded(S)
    BY <2>0
  <2>1. S # {}
    BY <2>0, OneLess
  <2>2. PICK x \in S : TRUE
    BY <2>1
  <2>3. Cardinality(S \ {x}) = Cardinality(S) - 1
    BY <2>2, OneLess
  <2>4. Cardinality(S \ {x}) = n
    BY <2>0, <2>3
  <2>5. PICK m \in Nat : \A y \in S \ {x} : m >= y
    BY <2>4
  <2>6. x \in Nat /\ m + x \in Nat /\ \A y \in S : m + x >= y
    BY <2>5
  <2> QED
    BY <2>6
<1>3. Good = Nat
  <2> HIDE DEF Good
  <2>1. Good \in SUBSET Nat
    BY DEF Good
  <2> QED
    BY <1>1, <1>2, <2>1, FirstFailure
<1>4. PICK m \in Nat : \A y \in A : m >= y
  BY <1>3, OneLess
<1>5. A \in SUBSET (0..m)
  BY <1>4
<1> QED
  BY <1>5, GreatestNat

\* The sum of a function does not depend on the order of its values.
Permuted(f, p, D) == [x \in D |-> f[p[x]]]

LEMMA SumPermuted ==
    ASSUME NEW D, IsFiniteSet(D), NEW f \in [D -> Nat], NEW p \in [D -> D],
           \A x, y \in D : p[x] = p[y] => x = y
    PROVE  SumOver(Permuted(f, p, D)) = SumOver(f)
<1> DEFINE f2 == Permuted(f, p, D)
           Image(S) == {p[x] : x \in S}
<1>1. f2 \in [D -> Nat] /\ \A x \in D : f2[x] = f[p[x]]
  BY DEF Permuted
<1> HIDE DEF f2
<1>2. PICK g : IsSum(f, g, D) /\ SumOver(f) = g[D]
  BY FoldIsSum
<1>3. PICK g2 : IsSum(f2, g2, D) /\ SumOver(f2) = g2[D]
  BY <1>1, FoldIsSum
<1>4. \A S \in SUBSET D : Image(S) \in SUBSET D
  OBVIOUS
<1> DEFINE Same(S) == g2[S] = g[Image(S)] /\ Cardinality(Image(S)) = Cardinality(S)
           Good == {n \in Nat : \A S \in SUBSET D : Cardinality(S) = n => Same(S)}
<1>5. 0 \in Good
  <2> SUFFICES ASSUME NEW S \in SUBSET D, Cardinality(S) = 0 PROVE Same(S)
    OBVIOUS
  <2>1. S = {} /\ Image(S) = {}
    BY OneLess
  <2> QED
    BY <1>2, <1>3, <2>1 DEF IsSum
<1>6. ASSUME NEW n \in Good PROVE n + 1 \in Good
  <2>0. n \in Nat /\ n + 1 \in Nat
    OBVIOUS
  <2> SUFFICES ASSUME NEW S \in SUBSET D, Cardinality(S) = n + 1 PROVE Same(S)
    BY <2>0
  <2>1. PICK x \in S : Cardinality(S \ {x}) = n
    BY <2>0, OneLess
  <2> DEFINE r == S \ {x}
  <2>2. Same(r)
    BY <2>1
  <2>3. Image(r) = Image(S) \ {p[x]} /\ p[x] \in Image(S) /\ Image(S) \in SUBSET D /\ p[x] \in D
    OBVIOUS
  <2>4. g2[S] = f[p[x]] + g2[r]
    <3>1. g2[S] = f2[x] + g2[S \ {x}]
      BY <1>3 DEF IsSum
    <3>2. f2[x] = f[p[x]]
      BY <1>1
    <3> QED
      BY <3>1, <3>2
  <2> HIDE DEF Image
  <2>5. g[Image(S)] = f[p[x]] + g[Image(r)]
    <3>1. g[Image(S)] = f[p[x]] + g[Image(S) \ {p[x]}]
      BY <1>2, <2>3 DEF IsSum
    <3> QED
      BY <2>3, <3>1
  <2>6. Cardinality(Image(r)) = Cardinality(Image(S)) - 1 /\ Cardinality(Image(S)) \in Nat
    BY <2>3, OneLess
  <2> QED
    BY <2>0, <2>1, <2>2, <2>4, <2>5, <2>6
<1>7. Good = Nat
  <2> HIDE DEF Good
  <2>1. Good \in SUBSET Nat
    BY DEF Good
  <2> QED
    BY <1>5, <1>6, <2>1, FirstFailure
<1>8. Same(D)
  BY <1>7, OneLess
<1>9. Image(D) = D
  <2> HIDE DEF Image
  <2> QED
    BY <1>4, <1>8, FS_Subset
<1> QED
  BY <1>2, <1>3, <1>8, <1>9 DEF f2

-----------------------------------------------------------------------------
(* Folds over a sequence from left to right.                                *)

GreatestOf(S) == CHOOSE x \in S : \A y \in S : x >= y

LEMMA GreatestIsIn ==
    ASSUME NEW n \in Nat, NEW S \in SUBSET (1..n), S # {}
    PROVE  GreatestOf(S) \in S /\ \A y \in S : GreatestOf(S) >= y
<1>1. S \in SUBSET (0..n)
  OBVIOUS
<1>2. \E x \in S : \A y \in S : x >= y
  BY <1>1, GreatestNat
<1> QED
  BY <1>2 DEF GreatestOf

LEMMA GreatestOfFirst ==
    ASSUME NEW n \in Nat, NEW k \in 1..n
    PROVE  GreatestOf(1..k) = k /\ (1..k) \ {k} = 1..(k - 1) /\ 1..k # {} /\ (1..k) \in SUBSET (1..n)
<1>1. (1..k) \in SUBSET (1..n) /\ k \in 1..k /\ (1..k) \ {k} = 1..(k - 1)
  OBVIOUS
<1>2. GreatestOf(1..k) \in 1..k /\ GreatestOf(1..k) >= k
  BY <1>1, GreatestIsIn
<1> QED
  BY <1>1, <1>2

\* What the fold of op over s has after each of its elements.
IsLeftFold(op, base, s, h) ==
    h[0] = base /\ \A k \in 1..Len(s) : h[k] = op[<<h[k - 1], s[k]>>]

LeftFolded(op, base, s, g) ==
    \A S \in SUBSET DOMAIN s :
        g[S] = IF S = {} THEN base ELSE op[<<g[S \ {GreatestOf(S)}], s[GreatestOf(S)]>>]

LEMMA LeftFoldExists ==
    ASSUME NEW A, NEW B, NEW op \in [A \X B -> A], NEW base \in A, NEW s \in Seq(B)
    PROVE  \E g \in [SUBSET DOMAIN s -> A] : LeftFolded(op, base, s, g)
<1> DEFINE D == DOMAIN s
           swapped == [p \in B \X A |-> op[<<p[2], p[1]>>]]
           pick == [S \in SUBSET D |-> GreatestOf(S)]
<1>1. Len(s) \in Nat /\ D = 1..Len(s) /\ s \in [D -> B]
  OBVIOUS
<1>2. IsFiniteSet(D)
  <2>1. 1 \in Int /\ Len(s) \in Int
    BY <1>1
  <2>2. IsFiniteSet(1..Len(s))
    BY <2>1, FS_Interval
  <2> QED
    BY <1>1, <2>2
<1>3. swapped \in [B \X A -> A] /\ \A a \in A, b \in B : swapped[<<b, a>>] = op[<<a, b>>]
  OBVIOUS
<1>4. \A S \in SUBSET D : pick[S] = GreatestOf(S)
  OBVIOUS
<1> HIDE DEF D, swapped, pick
<1>5. \A S \in SUBSET D : S # {} => GreatestOf(S) \in S
  BY <1>1, GreatestIsIn
<1>6. Picks(pick, D)
  BY <1>4, <1>5 DEF Picks
<1>7. PICK g \in [SUBSET D -> A] : Folds(swapped, base, s, pick, g, D)
  BY <1>1, <1>2, <1>3, <1>6, FoldExists
<1>8. ASSUME NEW S \in SUBSET D
      PROVE  g[S] = IF S = {} THEN base ELSE op[<<g[S \ {GreatestOf(S)}], s[GreatestOf(S)]>>]
  <2>1. g[S] = IF S = {} THEN base ELSE swapped[<<s[GreatestOf(S)], g[S \ {GreatestOf(S)}]>>]
    BY <1>4, <1>7 DEF Folds, Iterated
  <2>2. S # {} => s[GreatestOf(S)] \in B /\ g[S \ {GreatestOf(S)}] \in A
    BY <1>1, <1>5
  <2> QED
    BY <1>3, <2>1, <2>2
<1> QED
  BY <1>8 DEF LeftFolded, D

\* A recursive function that agrees with op wherever it has a value of A
\* gives what op gives after each element.
FoldsWithin(A, op, base, s, c) ==
    /\ c[{}] = base
    /\ \A S \in SUBSET DOMAIN s :
        S # {} /\ c[S \ {GreatestOf(S)}] \in A =>
            c[S] = op[<<c[S \ {GreatestOf(S)}], s[GreatestOf(S)]>>]

HasValues(A, s, h) == h \in [0..Len(s) -> A]
EndsIn(c, s, h) == c[DOMAIN s] = h[Len(s)]

LEMMA LeftFoldIs ==
    ASSUME NEW A, NEW B, NEW op \in [A \X B -> A], NEW base \in A, NEW s \in Seq(B), NEW c,
           FoldsWithin(A, op, base, s, c)
    PROVE  \E h : HasValues(A, s, h) /\ IsLeftFold(op, base, s, h) /\ EndsIn(c, s, h)
<1> DEFINE n == Len(s)
           h == [k \in 0..n |-> c[1..k]]
<1>1. n \in Nat /\ DOMAIN s = 1..n /\ \A k \in 1..n : s[k] \in B
  OBVIOUS
<1> HIDE DEF n
<1>2. c[1..0] = base
  <2>1. 1..0 = {}
    OBVIOUS
  <2> QED
    BY <2>1 DEF FoldsWithin
<1>3. ASSUME NEW k \in 1..n, c[1..(k - 1)] \in A
      PROVE  c[1..k] = op[<<c[1..(k - 1)], s[k]>>] /\ c[1..k] \in A
  <2>1. GreatestOf(1..k) = k /\ (1..k) \ {k} = 1..(k - 1) /\ 1..k # {} /\ (1..k) \in SUBSET (1..n)
    BY <1>1, GreatestOfFirst
  <2>2. c[1..k] = op[<<c[1..(k - 1)], s[k]>>]
    BY <1>1, <1>3, <2>1 DEF FoldsWithin
  <2>3. s[k] \in B
    BY <1>1
  <2> QED
    BY <1>3, <2>2, <2>3
<1> DEFINE Good == {k \in Nat : k <= n => c[1..k] \in A}
<1>4. 0 \in Good
  BY <1>2
<1>5. ASSUME NEW k \in Good PROVE k + 1 \in Good
  <2>1. k \in Nat /\ k + 1 \in Nat /\ (k + 1) - 1 = k
    OBVIOUS
  <2>2. ASSUME k + 1 <= n PROVE c[1..(k + 1)] \in A
    <3>1. k + 1 \in 1..n /\ c[1..k] \in A
      BY <1>1, <2>1, <2>2
    <3> QED
      BY <1>3, <2>1, <3>1
  <2> QED
    BY <2>1, <2>2
<1>6. Good = Nat
  <2> HIDE DEF Good
  <2>1. Good \in SUBSET Nat
    BY DEF Good
  <2> QED
    BY <1>4, <1>5, <2>1, FirstFailure
<1>7. \A k \in 0..n : c[1..k] \in A
  BY <1>1, <1>6
<1>8. h \in [0..n -> A] /\ \A k \in 0..n : h[k] = c[1..k]
  BY <1>7
<1> HIDE DEF h
<1>9. 0 \in 0..n /\ n \in 0..n /\ \A k \in 1..n : k \in 0..n /\ k - 1 \in 0..n
  BY <1>1
<1>10. \A k \in 1..n : h[k] = op[<<h[k - 1], s[k]>>]
  BY <1>3, <1>7, <1>8, <1>9
<1>11. h[0] = base /\ h[n] = c[DOMAIN s]
  BY <1>1, <1>2, <1>8, <1>9
<1> QED
  BY <1>8, <1>10, <1>11 DEF IsLeftFold, HasValues, EndsIn, n

\* One element more at the end.
LEMMA LeftFoldAppend ==
    ASSUME NEW B, NEW op, NEW base, NEW s \in Seq(B), NEW x \in B, NEW h, NEW h2,
           IsLeftFold(op, base, s, h), IsLeftFold(op, base, Append(s, x), h2)
    PROVE  h2[Len(s) + 1] = op[<<h[Len(s)], x>>]
<1> DEFINE n == Len(s)
           t == Append(s, x)
<1>1. n \in Nat /\ Len(t) = n + 1 /\ t[n + 1] = x /\ \A k \in 1..n : t[k] = s[k]
  OBVIOUS
<1>2. /\ h[0] = base /\ \A k \in 1..n : h[k] = op[<<h[k - 1], s[k]>>]
      /\ h2[0] = base /\ \A k \in 1..(n + 1) : h2[k] = op[<<h2[k - 1], t[k]>>]
  BY <1>1 DEF IsLeftFold
<1> HIDE DEF n, t
<1> DEFINE Good == {k \in Nat : k <= n => h2[k] = h[k]}
<1>3. 0 \in Good
  BY <1>2
<1>4. ASSUME NEW k \in Good PROVE k + 1 \in Good
  <2>1. k \in Nat /\ k + 1 \in Nat /\ (k + 1) - 1 = k
    OBVIOUS
  <2>2. ASSUME k + 1 <= n PROVE h2[k + 1] = h[k + 1]
    <3>1. k + 1 \in 1..n /\ k + 1 \in 1..(n + 1) /\ h2[k] = h[k]
      BY <1>1, <2>1, <2>2
    <3> QED
      BY <1>1, <1>2, <2>1, <3>1
  <2> QED
    BY <2>1, <2>2
<1>5. Good = Nat
  <2> HIDE DEF Good
  <2>1. Good \in SUBSET Nat
    BY DEF Good
  <2> QED
    BY <1>3, <1>4, <2>1, FirstFailure
<1>6. h2[n] = h[n]
  BY <1>1, <1>5
<1>7. n + 1 \in 1..(n + 1) /\ (n + 1) - 1 = n
  BY <1>1
<1> QED
  BY <1>1, <1>2, <1>6, <1>7 DEF n

\* The first element first, then the others.
LEMMA LeftFoldHead ==
    ASSUME NEW B, NEW op, NEW base, NEW s \in Seq(B), s # <<>>, NEW h, NEW h2,
           IsLeftFold(op, base, s, h), IsLeftFold(op, op[<<base, Head(s)>>], Tail(s), h2)
    PROVE  h[Len(s)] = h2[Len(Tail(s))]
<1> DEFINE n == Len(s)
           t == Tail(s)
           first == op[<<base, Head(s)>>]
<1>1. n \in Nat /\ n # 0 /\ Len(t) = n - 1 /\ Head(s) = s[1] /\ \A k \in 1..(n - 1) : t[k] = s[k + 1]
  OBVIOUS
<1>2. /\ h[0] = base /\ \A k \in 1..n : h[k] = op[<<h[k - 1], s[k]>>]
      /\ h2[0] = first /\ \A k \in 1..(n - 1) : h2[k] = op[<<h2[k - 1], t[k]>>]
  BY <1>1 DEF IsLeftFold
<1>3. first = op[<<base, s[1]>>]
  BY <1>1
<1> HIDE DEF n, t, first
<1> DEFINE Good == {k \in Nat : k <= n - 1 => h2[k] = h[k + 1]}
<1>4. 0 \in Good
  <2>1. 1 \in 1..n /\ 1 - 1 = 0 /\ 0 + 1 = 1
    BY <1>1
  <2>2. h[1] = first
    BY <1>2, <1>3, <2>1
  <2> QED
    BY <1>2, <2>1, <2>2
<1>5. ASSUME NEW k \in Good PROVE k + 1 \in Good
  <2>1. k \in Nat /\ k + 1 \in Nat /\ (k + 1) - 1 = k
    OBVIOUS
  <2>2. ASSUME k + 1 <= n - 1 PROVE h2[k + 1] = h[(k + 1) + 1]
    <3>1. /\ k + 1 \in 1..(n - 1) /\ (k + 1) + 1 \in 1..n /\ ((k + 1) + 1) - 1 = k + 1
          /\ h2[k] = h[k + 1]
      BY <1>1, <2>1, <2>2
    <3>2. t[k + 1] = s[(k + 1) + 1]
      BY <1>1, <3>1
    <3>3. h2[k + 1] = op[<<h2[k], t[k + 1]>>]
      BY <1>2, <2>1, <3>1
    <3>4. h[(k + 1) + 1] = op[<<h[k + 1], s[(k + 1) + 1]>>]
      BY <1>2, <3>1
    <3> QED
      BY <3>1, <3>2, <3>3, <3>4
  <2> QED
    BY <2>1, <2>2
<1>6. Good = Nat
  <2> HIDE DEF Good
  <2>1. Good \in SUBSET Nat
    BY DEF Good
  <2> QED
    BY <1>4, <1>5, <2>1, FirstFailure
<1>7. n - 1 \in Nat /\ (n - 1) + 1 = n
  BY <1>1
<1>8. h2[n - 1] = h[n]
  <2> HIDE DEF Good
  <2>1. n - 1 \in Good
    BY <1>6, <1>7
  <2> QED
    BY <1>7, <2>1 DEF Good
<1> QED
  BY <1>1, <1>8 DEF n, t

LEMMA EmptySum == SumOver(<<>>) = 0
<1>1. <<>> \in Seq(Nat) /\ Len(<<>>) = 0
  OBVIOUS
<1>2. PICK P : IsPartial(<<>>, P) /\ SumOver(<<>>) = P[0]
  BY <1>1, SequenceSum
<1> QED
  BY <1>2 DEF IsPartial

LEMMA SumOfNothing == SumOver([x \in {} |-> 0]) = 0
<1>1. IsFiniteSet({})
  BY FS_EmptySet
<1> QED
  BY <1>1, SumOfNone

\* A sum over an interval with one more number in it.
LEMMA SumExtended ==
    ASSUME NEW a \in Nat, NEW n \in Nat, n >= a - 1, NEW f \in [a..(n + 1) -> Nat], NEW g \in [a..n -> Nat],
           \A x \in a..n : g[x] = f[x]
    PROVE  SumOver(g) \in Nat /\ SumOver(f) = SumOver(g) + f[n + 1]
<1> DEFINE D == a..(n + 1)
           E == a..n
<1>1. IsFiniteSet(D) /\ IsFiniteSet(E)
  BY FS_Interval
<1>2. E \in SUBSET D /\ n + 1 \in D /\ D \ {n + 1} = E
  OBVIOUS
<1>3. PICK F : IsSum(f, F, D) /\ SumOver(f) = F[D]
  BY <1>1, FoldIsSum
<1>4. PICK G : IsSum(g, G, E) /\ SumOver(g) = G[E]
  BY <1>1, FoldIsSum
<1> HIDE DEF D, E
<1>5. F[D] = f[n + 1] + F[D \ {n + 1}]
  BY <1>2, <1>3 DEF IsSum
<1>6. F[E] = G[E]
  <2>1. \A x \in E : f[x] = g[x]
    BY DEF E
  <2>2. E \subseteq E
    OBVIOUS
  <2> QED
    BY <1>1, <1>2, <1>3, <1>4, <2>1, <2>2, SumsAgree
<1>7. G[E] \in Nat /\ f[n + 1] \in Nat
  BY <1>2, <1>4 DEF IsSum, D
<1>8. F[D] = f[n + 1] + G[E]
  BY <1>2, <1>5, <1>6
<1>9. F[D] = G[E] + f[n + 1]
  BY <1>7, <1>8
<1> QED
  BY <1>3, <1>4, <1>7, <1>9

-----------------------------------------------------------------------------
(* Quotients, remainders and powers.                                        *)

LEMMA Divided ==
    ASSUME NEW n \in Nat, NEW d \in Nat \ {0}
    PROVE  n \div d \in Nat /\ (n \div d) * d <= n /\ n < ((n \div d) + 1) * d
<1>1. n = (d * (n \div d)) + (n % d) /\ n % d \in 0..(d - 1) /\ n \div d \in Nat
  OBVIOUS
<1> DEFINE q == n \div d
<1>2. d * q = q * d /\ (q + 1) * d = (q * d) + d
  BY <1>1
<1> QED
  BY <1>1, <1>2

LEMMA CancelFactor ==
    ASSUME NEW a \in Int, NEW b \in Int, NEW d \in Nat \ {0}, a * d < b * d
    PROVE  a < b
<1>1. CASE a < b
  BY <1>1
<1>2. CASE b <= a
  <2>1. PICK k \in Nat : a = b + k
    <3>1. a - b \in Nat /\ a = b + (a - b)
      BY <1>2
    <3> QED
      BY <3>1
  <2>2. a * d = (b * d) + (k * d) /\ k * d >= 0
    BY <2>1
  <2> QED
    BY <2>2
<1> QED
  BY <1>1, <1>2

\* Numbers are in the order of their quotients, then of their remainders.
LEMMA QuotientOrder ==
    ASSUME NEW n \in Nat, NEW m \in Nat, NEW d \in Nat \ {0}
    PROVE  /\ n % d \in 0..(d - 1) /\ m % d \in 0..(d - 1)
           /\ n \div d > m \div d => n > m
           /\ n > m => n \div d > m \div d \/ (n \div d = m \div d /\ n % d > m % d)
<1> DEFINE q == n \div d
           r == m \div d
<1>1. /\ n = (d * q) + (n % d) /\ n % d \in 0..(d - 1) /\ q \in Nat
      /\ m = (d * r) + (m % d) /\ m % d \in 0..(d - 1) /\ r \in Nat
  OBVIOUS
<1> DEFINE x == n % d
           y == m % d
<1> HIDE DEF q, r, x, y
<1>2. n = (d * q) + x /\ x \in 0..(d - 1) /\ q \in Nat /\ m = (d * r) + y /\ y \in 0..(d - 1) /\ r \in Nat
  BY <1>1 DEF x, y
<1>3. ASSUME NEW a \in Nat, NEW c \in Nat, a > c PROVE d * a >= (d * c) + d
  <2>1. a - c - 1 \in Nat /\ d * a = ((d * c) + d) + (d * (a - c - 1)) /\ d * (a - c - 1) \in Nat /\ d * c \in Nat
    BY <1>3
  <2> QED
    BY <2>1
<1>4. d * q \in Nat /\ d * r \in Nat
  BY <1>2
<1>5. ASSUME q > r PROVE n > m
  <2>1. d * q >= (d * r) + d
    BY <1>2, <1>3, <1>5
  <2> QED
    BY <1>2, <1>4, <2>1
<1>6. ASSUME n > m, ~(q > r) PROVE q = r /\ x > y
  <2>1. CASE r > q
    <3>1. d * r >= (d * q) + d
      BY <1>2, <1>3, <2>1
    <3> QED
      BY <1>2, <1>4, <1>6, <3>1
  <2>2. CASE q = r
    BY <1>2, <1>4, <1>6, <2>2
  <2> QED
    BY <1>2, <1>6, <2>1, <2>2
<1> QED
  BY <1>2, <1>5, <1>6 DEF q, r, x, y

\* The first eleven powers of two.
LEMMA BaseOfBackoff ==
    ASSUME NEW m \in 0..10
    PROVE  2^m \in 1..1024 /\ 2^m \in Int
<1>1. CASE m = 0
  BY <1>1
<1>2. CASE m = 1
  BY <1>2
<1>3. CASE m = 2
  BY <1>3
<1>4. CASE m = 3
  BY <1>4
<1>5. CASE m = 4
  BY <1>5
<1>6. CASE m = 5
  BY <1>6
<1>7. CASE m = 6
  BY <1>7
<1>8. CASE m = 7
  BY <1>8
<1>9. CASE m = 8
  BY <1>9
<1>10. CASE m = 9
  BY <1>10
<1>11. CASE m = 10
  BY <1>11
<1>12. m = 0 \/ m = 1 \/ m = 2 \/ m = 3 \/ m = 4 \/ m = 5 \/ m = 6 \/ m = 7 \/ m = 8 \/ m = 9 \/ m = 10
  OBVIOUS
<1> QED
  BY <1>1, <1>2, <1>3, <1>4, <1>5, <1>6, <1>7, <1>8, <1>9, <1>10, <1>11, <1>12

\* A function that goes up from zero.
Rises(n, h, w) ==
    h[0] = 0 /\ \A i \in 1..n : h[i - 1] \in Nat /\ w[i] \in Nat \ {0} /\ h[i] = h[i - 1] + w[i]

LEMMA RisesAbove ==
    ASSUME NEW n \in Nat, NEW h, NEW w, Rises(n, h, w)
    PROVE  \A k \in 0..n : h[k] \in Nat /\ \A j \in 0..k : h[j] <= h[k]
<1> DEFINE Good == {k \in Nat : k <= n => h[k] \in Nat /\ \A j \in 0..k : h[j] <= h[k]}
<1>1. 0 \in Good
  BY DEF Rises
<1>2. ASSUME NEW k \in Good PROVE k + 1 \in Good
  <2>1. k \in Nat /\ k + 1 \in Nat /\ (k + 1) - 1 = k
    OBVIOUS
  <2>2. ASSUME k + 1 <= n PROVE h[k + 1] \in Nat /\ \A j \in 0..(k + 1) : h[j] <= h[k + 1]
    <3>1. h[k] \in Nat /\ \A j \in 0..k : h[j] <= h[k]
      BY <2>1, <2>2
    <3>2. w[k + 1] \in Nat /\ h[k + 1] = h[k] + w[k + 1]
      BY <2>1, <2>2 DEF Rises
    <3>3. ASSUME NEW j \in 0..k PROVE h[j] <= h[k + 1]
      <4>1. h[j] <= h[k] /\ h[j] \in Int
        <5>1. j \in 1..n \/ j = 0
          BY <2>1, <2>2
        <5>2. h[0] \in Int /\ \A i \in 1..n : h[i] \in Int
          BY DEF Rises
        <5> QED
          BY <3>1, <5>1, <5>2
      <4> QED
        BY <3>1, <3>2, <4>1
    <3>4. \A j \in 0..(k + 1) : j \in 0..k \/ j = k + 1
      BY <2>1
    <3> QED
      BY <3>1, <3>2, <3>3, <3>4
  <2> QED
    BY <2>1, <2>2
<1>3. Good \in SUBSET Nat
  OBVIOUS
<1>4. Good = Nat
  <2> HIDE DEF Good
  <2> QED
    BY <1>1, <1>2, <1>3, FirstFailure
<1> QED
  BY <1>4

-----------------------------------------------------------------------------
(* Some places of a sequence.                                               *)

\* As the modules that call retain define them.
PlaceOf(n, places) == CHOOSE i \in places : Cardinality({j \in places : j <= i}) = n
AtPlaces(s, places) == [n \in 1..Cardinality(places) |-> s[PlaceOf(n, places)]]

\* Every number up to the size of a set of places is the rank of one of them.
LEMMA RanksAreMet ==
    ASSUME NEW m \in Nat, NEW P \in SUBSET (1..m)
    PROVE  /\ IsFiniteSet(P) /\ Cardinality(P) \in 0..m
           /\ \A n \in 1..Cardinality(P) : \E i \in P : Cardinality({j \in P : j <= i}) = n
           /\ \A i \in P : Cardinality({j \in P : j <= i}) \in 1..Cardinality(P)
           /\ \A i, k \in P : Cardinality({j \in P : j <= i}) = Cardinality({j \in P : j <= k}) => i = k
<1> DEFINE Below(i) == {j \in P : j <= i}
           rank == [i \in P |-> Cardinality(Below(i))]
           N == Cardinality(P)
<1>1. IsFiniteSet(P) /\ N \in 0..m /\ N \in Nat
  <2>1. IsFiniteSet(1..m) /\ Cardinality(1..m) = m
    BY FS_Interval
  <2>2. IsFiniteSet(P) /\ N <= m
    BY <2>1, FS_Subset
  <2>3. N \in Nat
    BY <2>2, FS_CardinalityType
  <2> QED
    BY <2>2, <2>3
<1>2. ASSUME NEW i \in P PROVE IsFiniteSet(Below(i)) /\ Cardinality(Below(i)) \in 1..N
  <2>1. IsFiniteSet(Below(i)) /\ Cardinality(Below(i)) <= N
    BY <1>1, FS_Subset
  <2>2. i \in Below(i)
    OBVIOUS
  <2>3. Cardinality(Below(i)) \in Nat /\ Cardinality(Below(i)) # 0
    BY <2>1, <2>2, FS_CardinalityType, FS_EmptySet
  <2> QED
    BY <1>1, <2>1, <2>3
<1>3. ASSUME NEW i \in P, NEW k \in P, Cardinality(Below(i)) = Cardinality(Below(k)), i < k PROVE FALSE
  <2>1. Below(i) \subseteq Below(k) /\ k \in Below(k) /\ k \notin Below(i)
    <3>1. i \in Int /\ k \in Int /\ \A j \in P : j \in Int
      OBVIOUS
    <3>2. \A j \in P : j <= i => j <= k
      BY <1>3, <3>1
    <3>3. k <= k /\ ~(k <= i)
      BY <1>3, <3>1
    <3>4. \A x, j : j \in Below(x) <=> j \in P /\ j <= x
      OBVIOUS
    <3> HIDE DEF Below
    <3> QED
      BY <3>2, <3>3, <3>4
  <2>2. Below(k) = Below(i)
    BY <1>2, <1>3, <2>1, FS_Subset
  <2> QED
    BY <2>1, <2>2
<1>4. ASSUME NEW i \in P, NEW k \in P, Cardinality(Below(i)) = Cardinality(Below(k)) PROVE i = k
  <2>1. i \in Int /\ k \in Int
    OBVIOUS
  <2>2. ~(i < k)
    BY <1>3, <1>4
  <2>3. ~(k < i)
    BY <1>3, <1>4
  <2> QED
    BY <2>1, <2>2, <2>3
<1>5. rank \in [P -> 1..N] /\ \A i, k \in P : rank[i] = rank[k] => i = k
  <2> HIDE DEF Below
  <2> QED
    BY <1>2, <1>4
<1>6. IsFiniteSet(1..N) /\ Cardinality(1..N) = N
  BY <1>1, FS_Interval
<1>7. ASSUME NEW n \in 1..N PROVE \E i \in P : rank[i] = n
  <2>1. SUFFICES ASSUME \A i \in P : rank[i] # n PROVE FALSE
    OBVIOUS
  <2>2. rank \in [P -> (1..N) \ {n}]
    BY <1>5, <2>1
  <2>3. IsFiniteSet((1..N) \ {n}) /\ Cardinality((1..N) \ {n}) = N - 1
    BY <1>6, FS_RemoveElement
  <2>4. \E x, y \in P : x # y /\ rank[x] = rank[y]
    <3> HIDE DEF rank
    <3>1. Cardinality((1..N) \ {n}) < Cardinality(P)
      BY <1>1, <2>3
    <3> QED
      BY <1>1, <2>2, <2>3, <3>1, FS_PigeonHole
  <2> QED
    BY <1>5, <2>4
<1> QED
  BY <1>1, <1>2, <1>4, <1>7

\* AtPlaces has as many entries as there are places, and those of the places.
LEMMA AtPlacesHas ==
    ASSUME NEW S, NEW s \in Seq(S), NEW P \in SUBSET (1..Len(s))
    PROVE  /\ AtPlaces(s, P) \in Seq(S) /\ Len(AtPlaces(s, P)) = Cardinality(P)
           /\ Cardinality(P) \in 0..Len(s)
           /\ \A n \in 1..Cardinality(P) : \E i \in P : AtPlaces(s, P)[n] = s[i]
           /\ \A i \in P : \E n \in 1..Cardinality(P) : AtPlaces(s, P)[n] = s[i]
<1> DEFINE N == Cardinality(P)
           Rank(i) == Cardinality({j \in P : j <= i})
<1>1. Len(s) \in Nat /\ \A i \in 1..Len(s) : s[i] \in S
  BY LenProperties, ElementOfSeq
<1>2. /\ N \in 0..Len(s)
      /\ \A n \in 1..N : \E i \in P : Rank(i) = n
      /\ \A i \in P : Rank(i) \in 1..N
      /\ \A i, k \in P : Rank(i) = Rank(k) => i = k
  BY <1>1, RanksAreMet
<1>3. \A n : PlaceOf(n, P) = CHOOSE i \in P : Rank(i) = n
  BY DEF PlaceOf
<1> HIDE DEF Rank
<1>4. \A n \in 1..N : PlaceOf(n, P) \in P /\ Rank(PlaceOf(n, P)) = n
  BY <1>2, <1>3
<1>5. \A i \in P : PlaceOf(Rank(i), P) = i
  BY <1>2, <1>4
<1>6. AtPlaces(s, P) = [n \in 1..N |-> s[PlaceOf(n, P)]]
  BY DEF AtPlaces
<1>7. AtPlaces(s, P) \in [1..N -> S]
  BY <1>1, <1>4, <1>6
<1>8. AtPlaces(s, P) \in Seq(S) /\ Len(AtPlaces(s, P)) = N
  BY <1>2, <1>7
<1>9. \A n \in 1..N : AtPlaces(s, P)[n] = s[PlaceOf(n, P)]
  BY <1>6
<1>10. ASSUME NEW i \in P PROVE \E n \in 1..N : AtPlaces(s, P)[n] = s[i]
  BY <1>2, <1>5, <1>9
<1> QED
  BY <1>2, <1>4, <1>8, <1>9, <1>10

-----------------------------------------------------------------------------
(* Short sequences, entry by entry.                                         *)

LEMMA PairIs ==
    ASSUME NEW s \in Seq(STRING), Len(s) = 2
    PROVE  s = <<s[1], s[2]>> /\ 1 \in DOMAIN s /\ 2 \in DOMAIN s
<1>1. DOMAIN s = 1..2 /\ 1..2 = {1, 2}
  OBVIOUS
<1> QED
  BY <1>1

LEMMA OneAndTwo ==
    ASSUME NEW S, NEW s \in Seq(S), NEW t \in Seq(S), Len(s) = 1, Len(t) = 2
    PROVE  s \o t = <<s[1], t[1], t[2]>>
<1>1. /\ s \o t \in Seq(S) /\ Len(s \o t) = Len(s) + Len(t)
      /\ \A i \in 1 .. Len(s) + Len(t) : (s \o t)[i] = IF i <= Len(s) THEN s[i] ELSE t[i - Len(s)]
  BY ConcatProperties
<1> DEFINE u == s \o t
<1>2. u \in Seq(S) /\ Len(u) = 3 /\ \A i \in 1..3 : u[i] = IF i <= 1 THEN s[i] ELSE t[i - 1]
  BY <1>1
<1> HIDE DEF u
<1>3. u[1] = s[1] /\ u[2] = t[1] /\ u[3] = t[2]
  BY <1>2
<1>4. DOMAIN u = 1..3
  BY <1>2
<1>5. u = <<u[1], u[2], u[3]>>
  BY <1>2, <1>4
<1> QED
  BY <1>3, <1>5 DEF u

LEMMA TwoAndTwo ==
    ASSUME NEW S, NEW s \in Seq(S), NEW t \in Seq(S), Len(s) = 2, Len(t) = 2
    PROVE  s \o t = <<s[1], s[2], t[1], t[2]>>
<1>1. /\ s \o t \in Seq(S) /\ Len(s \o t) = Len(s) + Len(t)
      /\ \A i \in 1 .. Len(s) + Len(t) : (s \o t)[i] = IF i <= Len(s) THEN s[i] ELSE t[i - Len(s)]
  BY ConcatProperties
<1> DEFINE u == s \o t
<1>2. u \in Seq(S) /\ Len(u) = 4 /\ \A i \in 1..4 : u[i] = IF i <= 2 THEN s[i] ELSE t[i - 2]
  BY <1>1
<1> HIDE DEF u
<1>3. u[1] = s[1] /\ u[2] = s[2] /\ u[3] = t[1] /\ u[4] = t[2]
  BY <1>2
<1>4. DOMAIN u = 1..4
  BY <1>2
<1>5. u = <<u[1], u[2], u[3], u[4]>>
  BY <1>2, <1>4
<1> QED
  BY <1>3, <1>5 DEF u

LEMMA ThreeAndTwo ==
    ASSUME NEW S, NEW s \in Seq(S), NEW t \in Seq(S), Len(s) = 3, Len(t) = 2
    PROVE  s \o t = <<s[1], s[2], s[3], t[1], t[2]>>
<1>1. /\ s \o t \in Seq(S) /\ Len(s \o t) = Len(s) + Len(t)
      /\ \A i \in 1 .. Len(s) + Len(t) : (s \o t)[i] = IF i <= Len(s) THEN s[i] ELSE t[i - Len(s)]
  BY ConcatProperties
<1> DEFINE u == s \o t
<1>2. u \in Seq(S) /\ Len(u) = 5 /\ \A i \in 1..5 : u[i] = IF i <= 3 THEN s[i] ELSE t[i - 3]
  BY <1>1
<1> HIDE DEF u
<1>3. u[1] = s[1] /\ u[2] = s[2] /\ u[3] = s[3] /\ u[4] = t[1] /\ u[5] = t[2]
  BY <1>2
<1>4. DOMAIN u = 1..5
  BY <1>2
<1>5. u = <<u[1], u[2], u[3], u[4], u[5]>>
  BY <1>2, <1>4
<1> QED
  BY <1>3, <1>5 DEF u
=============================================================================
