------------------------------ MODULE GapProofs ------------------------------
(***************************************************************************)
(* Proofs about the scores of a day, for any number of pilots, any flights,*)
(* rules of a meet and penalties.                                          *)
(*                                                                         *)
(* The scores are a function of what was entered, so that the invariant    *)
(* says little and the functions everything: every share of the points is  *)
(* a quotient of the best by the pilot's, and a step of the rules either   *)
(* keeps the order of two pilots or is a named exception.                  *)
(***************************************************************************)
EXTENDS GapScoring, FiniteSetTheorems, WellFoundedInduction, TLAPS

-----------------------------------------------------------------------------
(* Loops, sums and least elements: what the library's induction, which     *)
(* takes an operator, cannot be asked.                                     *)

LEMMA LeastNumber ==
  ASSUME NEW T, T \subseteq Nat, T # {}
  PROVE  \E x \in T : \A y \in T : x <= y
<1>1. IsWellFoundedOn(OpToRel(<, Nat), Nat)
  BY NatLessThanWellFounded
<1>2. PICK x \in T : \A y \in T : <<y, x>> \notin OpToRel(<, Nat)
  BY <1>1, WFMin, Zenon
<1>3. \A y \in T : x <= y
  <2> TAKE y \in T
  <2>1. <<y, x>> \in Nat \X Nat /\ <<y, x>>[1] = y /\ <<y, x>>[2] = x
    OBVIOUS
  <2>2. <<y, x>> \in OpToRel(<, Nat) <=> <<y, x>>[1] < <<y, x>>[2]
    BY <2>1, Zenon DEF OpToRel
  <2>3. ~(y < x)
    BY <1>2, <2>1, <2>2, Zenon
  <2> QED BY <2>3
<1> QED BY <1>3, Zenon

\* The states of a loop that takes n steps, from s.
IsRun(f, n, S, s, G) ==
    f \in [0..n -> S] /\ f[0] = s /\ \A k \in 1..n : f[k] = G[k][f[k - 1]]

LEMMA UpTo ==
  ASSUME NEW n \in Nat, NEW T, 0 \in T, \A k \in 1..n : k - 1 \in T => k \in T
  PROVE  0..n \subseteq T
<1> DEFINE B == {k \in 0..n : k \notin T}
<1>1. B = {}
  <2> SUFFICES ASSUME B # {} PROVE FALSE
    OBVIOUS
  <2>1. B \subseteq Nat
    OBVIOUS
  <2>2. PICK x \in B : \A y \in B : x <= y
    BY <2>1, LeastNumber
  <2>3. x \in 1..n
    BY <2>2
  <2>4. x - 1 \notin B
    BY <2>2, <2>3
  <2> QED BY <2>2, <2>3, <2>4
<1> QED BY <1>1

LEMMA RunExists ==
  ASSUME NEW n \in Nat, NEW S, NEW s \in S, NEW G \in [1..n -> [S -> S]]
  PROVE  \E f : IsRun(f, n, S, s, G)
<1> DEFINE T == {m \in 0..n : \E f : IsRun(f, m, S, s, G)}
<1>1. 0 \in T
  <2>1. PICK f : f = [k \in 0..0 |-> s]
    OBVIOUS
  <2>2. IsRun(f, 0, S, s, G)
    BY <2>1 DEF IsRun
  <2> QED BY <2>2
<1>2. ASSUME NEW k \in 1..n, k - 1 \in T PROVE k \in T
  <2>1. PICK f : IsRun(f, k - 1, S, s, G)
    BY <1>2
  <2> DEFINE h == [j \in 0..k |-> IF j = k THEN G[k][f[k - 1]] ELSE f[j]]
  <2>2. f[k - 1] \in S
    BY <2>1 DEF IsRun
  <2>3. G[k][f[k - 1]] \in S
    BY <2>2
  <2>4. \A j \in 0..k : j # k => j \in 0..k - 1
    OBVIOUS
  <2>5. \A j \in 0..k : h[j] = IF j = k THEN G[k][f[k - 1]] ELSE f[j]
    OBVIOUS
  <2>6. h \in [0..k -> S]
    BY <2>1, <2>3, <2>4 DEF IsRun
  <2> HIDE DEF h
  <2>7. h[0] = s
    BY <2>1, <2>5 DEF IsRun
  <2>8. ASSUME NEW j \in 1..k PROVE h[j] = G[j][h[j - 1]]
    <3>1. h[j - 1] = f[j - 1]
      BY <2>5
    <3>2. CASE j = k
      BY <2>5, <3>1, <3>2
    <3>3. CASE j # k
      <4>1. j \in 1..k - 1
        BY <3>3
      <4> QED BY <2>1, <2>5, <3>1, <3>3, <4>1 DEF IsRun
    <3> QED BY <3>2, <3>3
  <2>9. IsRun(h, k, S, s, G)
    BY <2>6, <2>7, <2>8 DEF IsRun
  <2> QED BY <2>9
<1>3. 0..n \subseteq T
  <2> HIDE DEF T
  <2> QED BY <1>1, <1>2, UpTo
<1> QED BY <1>3

LEMMA RunStays ==
  ASSUME NEW n \in Nat, NEW S, NEW s \in S, NEW G \in [1..n -> [S -> S]],
         NEW h, h = [k \in 0..n |-> h[k]], h[0] = s, \A k \in 1..n : h[k - 1] \in S => h[k] = G[k][h[k - 1]]
  PROVE  IsRun(h, n, S, s, G)
<1> DEFINE T == {k \in 0..n : h[k] \in S}
<1>1. 0 \in T
  OBVIOUS
<1>2. ASSUME NEW k \in 1..n, k - 1 \in T PROVE k \in T
  <2>1. h[k - 1] \in S /\ h[k] = G[k][h[k - 1]]
    BY <1>2
  <2> QED BY <2>1
<1>3. 0..n \subseteq T
  <2> HIDE DEF T
  <2> QED BY <1>1, <1>2, UpTo
<1>4. \A k \in 0..n : h[k] \in S
  BY <1>3
<1>5. \A k \in 1..n : k - 1 \in 0..n
  OBVIOUS
<1>6. h \in [0..n -> S]
  BY <1>4
<1> QED BY <1>4, <1>5, <1>6 DEF IsRun

\* Of some subsets of a finite set there is one that leaves them with any of
\* its elements.
LEMMA SmallestSubset ==
  ASSUME NEW S, IsFiniteSet(S), NEW B, B \subseteq SUBSET S, B # {}
  PROVE  \E R \in B : \A x \in R : R \ {x} \notin B
<1> DEFINE T == {Cardinality(R) : R \in B}
<1>1. \A R \in B : IsFiniteSet(R) /\ Cardinality(R) \in Nat
  BY FS_Subset, FS_CardinalityType
<1>2. T \subseteq Nat /\ T # {}
  BY <1>1
<1>3. PICK n \in T : \A m \in T : n <= m
  <2> HIDE DEF T
  <2> QED BY <1>2, LeastNumber, Zenon
<1>4. PICK R \in B : n = Cardinality(R)
  BY <1>3
<1>5. ASSUME NEW x \in R, R \ {x} \in B PROVE FALSE
  <2>1. Cardinality(R \ {x}) = Cardinality(R) - 1
    BY <1>1, <1>4, FS_RemoveElement
  <2>2. Cardinality(R \ {x}) \in T
    BY <1>5
  <2>3. Cardinality(R) <= Cardinality(R \ {x})
    BY <1>3, <1>4, <2>2
  <2>4. Cardinality(R) \in Nat
    BY <1>1, <1>4
  <2> HIDE DEF T
  <2> QED BY <2>1, <2>3, <2>4
<1> QED BY <1>5

Pick(s) == CHOOSE x \in s : TRUE

LEMMA PickIs == ASSUME NEW s, s # {} PROVE Pick(s) \in s
BY DEF Pick

IsFold(g, h, b, S) ==
    /\ g \in [SUBSET S -> Nat]
    /\ \A s \in SUBSET S : g[s] = IF s = {} THEN b ELSE h[Pick(s)][g[s \ {Pick(s)}]]

LEMMA FoldExists ==
  ASSUME NEW S, IsFiniteSet(S), NEW b \in Nat, NEW h \in [S -> [Nat -> Nat]]
  PROVE  \E g : IsFold(g, h, b, S)
<1> DEFINE Small(n) == {s \in SUBSET S : Cardinality(s) <= n}
           Holds(n, g) ==
              /\ g \in [Small(n) -> Nat]
              /\ \A s \in Small(n) : g[s] = IF s = {} THEN b ELSE h[Pick(s)][g[s \ {Pick(s)}]]
           T == {n \in Nat : ~\E g : Holds(n, g)}
<1>1. \A s \in SUBSET S : IsFiniteSet(s) /\ Cardinality(s) \in Nat
  BY FS_Subset, FS_CardinalityType
<1>2. ASSUME NEW s \in SUBSET S, s # {}
      PROVE  /\ Pick(s) \in S /\ s \ {Pick(s)} \in SUBSET S
             /\ Cardinality(s \ {Pick(s)}) = Cardinality(s) - 1
  BY <1>1, <1>2, PickIs, FS_RemoveElement
<1>3. T = {}
  <2> SUFFICES ASSUME T # {} PROVE FALSE
    OBVIOUS
  <2>1. T \subseteq Nat
    OBVIOUS
  <2>2. PICK n \in T : \A m \in T : n <= m
    <3> HIDE DEF T
    <3> QED BY <2>1, LeastNumber, Zenon
  <2>3. CASE n = 0
    <3>1. \A s \in Small(0) : s = {}
      BY <1>1, FS_EmptySet
    <3> DEFINE g == [s \in Small(0) |-> b]
    <3>2. Holds(0, g)
      BY <3>1
    <3> QED BY <2>2, <2>3, <3>2
  <2>4. CASE n # 0
    <3> n \in Nat
      BY <2>1, <2>2
    <3>1. n - 1 \in Nat /\ n - 1 \notin T
      <4> HIDE DEF T
      <4> QED BY <2>2, <2>4
    <3>2. PICK g : Holds(n - 1, g)
      BY <3>1
    <3> DEFINE k == [s \in Small(n) |-> IF s = {} THEN b ELSE h[Pick(s)][g[s \ {Pick(s)}]]]
    <3>3. ASSUME NEW s \in Small(n), s # {}
          PROVE  s \ {Pick(s)} \in Small(n - 1) /\ Pick(s) \in S
      <4>1. Cardinality(s) \in Nat /\ Cardinality(s) <= n
        BY <1>1
      <4>2. Cardinality(s \ {Pick(s)}) <= n - 1
        BY <1>2, <3>3, <4>1
      <4> QED BY <1>2, <3>3, <4>2
    <3>4. k \in [Small(n) -> Nat]
      <4>1. ASSUME NEW s \in Small(n), s # {}
            PROVE  h[Pick(s)][g[s \ {Pick(s)}]] \in Nat
        <5>1. g[s \ {Pick(s)}] \in Nat
          BY <3>2, <3>3, <4>1
        <5> QED BY <3>3, <4>1, <5>1
      <4> QED BY <4>1
    <3>5. \A s \in Small(n - 1) : s \in Small(n) /\ k[s] = g[s]
      <4>1. \A s \in Small(n - 1) : s \in Small(n)
        BY <1>1, <2>2
      <4>2. \A s \in Small(n - 1) : g[s] = IF s = {} THEN b ELSE h[Pick(s)][g[s \ {Pick(s)}]]
        BY <3>2
      <4> QED BY <4>1, <4>2
    <3>6. Holds(n, k)
      <4>1. ASSUME NEW s \in Small(n), s # {}
            PROVE  k[s] = h[Pick(s)][k[s \ {Pick(s)}]]
        <5>1. k[s \ {Pick(s)}] = g[s \ {Pick(s)}]
          BY <3>3, <3>5, <4>1
        <5> QED BY <4>1, <5>1
      <4>2. \A s \in Small(n) : s = {} => k[s] = b
        OBVIOUS
      <4> HIDE DEF k
      <4> QED BY <3>4, <4>1, <4>2
    <3> QED BY <2>2, <3>6
  <2> QED BY <2>3, <2>4
<1>4. Cardinality(S) \in Nat /\ Small(Cardinality(S)) = SUBSET S
  <2>1. \A s \in SUBSET S : Cardinality(s) <= Cardinality(S)
    BY FS_Subset
  <2> QED BY <1>1, <2>1
<1>5. PICK g : Holds(Cardinality(S), g)
  BY <1>3, <1>4
<1> QED BY <1>4, <1>5 DEF IsFold

IsSum(g, f, S) ==
    /\ g \in [SUBSET S -> Nat]
    /\ \A s \in SUBSET S : g[s] = IF s = {} THEN 0 ELSE f[Pick(s)] + g[s \ {Pick(s)}]

LEMMA SumIs ==
  ASSUME NEW S, IsFiniteSet(S), NEW f, \A x \in S : f[x] \in Nat
  PROVE  \E g : IsSum(g, f, S) /\ SumFunctionOnSet(f, S) = g[S]
<1> DEFINE Body(g) == [s \in SUBSET S |-> IF s = {} THEN 0 ELSE f[Pick(s)] + g[s \ {Pick(s)}]]
<1>1. \E g : IsSum(g, f, S)
  <2> DEFINE h == [x \in S |-> [a \in Nat |-> f[x] + a]]
  <2>1. h \in [S -> [Nat -> Nat]]
    OBVIOUS
  <2>2. \A x \in S, a \in Nat : h[x][a] = f[x] + a
    OBVIOUS
  <2> HIDE DEF h
  <2>3. PICK g : IsFold(g, h, 0, S)
    BY <2>1, FoldExists
  <2>4. ASSUME NEW s \in SUBSET S, s # {} PROVE g[s] = f[Pick(s)] + g[s \ {Pick(s)}]
    <3>1. Pick(s) \in S /\ g[s \ {Pick(s)}] \in Nat
      BY <2>3, <2>4, PickIs DEF IsFold
    <3> QED BY <2>2, <2>3, <2>4, <3>1 DEF IsFold
  <2>5. \A s \in SUBSET S : s = {} => g[s] = 0
    BY <2>3 DEF IsFold
  <2> QED BY <2>3, <2>4, <2>5 DEF IsFold, IsSum
<1>2. \E g : g = Body(g)
  BY <1>1 DEF IsSum
<1>3. SumFunctionOnSet(f, S) = (CHOOSE g : g = Body(g))[S]
  BY Zenon DEF SumFunctionOnSet, FoldFunctionOnSet, MapThenFoldSet, Pick
<1> DEFINE k == CHOOSE g : g = Body(g)
<1>4. k = Body(k)
  BY <1>2
<1>5. PICK g : IsSum(g, f, S)
  BY <1>1
<1>6. \A s \in SUBSET S : k[s] = IF s = {} THEN 0 ELSE f[Pick(s)] + k[s \ {Pick(s)}]
  <2> HIDE DEF k
  <2> QED BY <1>4
<1>7. \A s \in SUBSET S : k[s] = g[s]
  <2> HIDE DEF k
  <2> DEFINE B == {s \in SUBSET S : k[s] # g[s]}
  <2> SUFFICES ASSUME B # {} PROVE FALSE
    OBVIOUS
  <2>1. PICK R \in B : \A x \in R : R \ {x} \notin B
    <3>1. B \subseteq SUBSET S
      OBVIOUS
    <3> HIDE DEF B
    <3> QED BY <3>1, SmallestSubset
  <2>2. CASE R = {}
    BY <1>5, <1>6, <2>1, <2>2 DEF IsSum
  <2>3. CASE R # {}
    <3>1. Pick(R) \in R
      BY <2>3, PickIs
    <3>2. k[R \ {Pick(R)}] = g[R \ {Pick(R)}]
      BY <2>1, <3>1
    <3> QED BY <1>5, <1>6, <2>1, <2>3, <3>2 DEF IsSum
  <2> QED BY <2>2, <2>3
<1>8. S \in SUBSET S
  OBVIOUS
<1> HIDE DEF k
<1>9. k[S] = g[S]
  BY <1>7, <1>8
<1> QED BY <1>3, <1>5, <1>9 DEF k

\* It does not matter which element is added first.
LEMMA SumRemoves ==
  ASSUME NEW S, IsFiniteSet(S), NEW f, \A x \in S : f[x] \in Nat, NEW g, IsSum(g, f, S),
         NEW R \in SUBSET S, NEW x \in R
  PROVE  g[R] = f[x] + g[R \ {x}]
<1> DEFINE Bad(Q, y) == y \in Q /\ g[Q] # f[y] + g[Q \ {y}]
           B == {Q \in SUBSET S : \E y \in S : Bad(Q, y)}
<1> SUFFICES ASSUME B # {} PROVE FALSE
  OBVIOUS
<1>1. PICK Q \in B : \A y \in Q : Q \ {y} \notin B
  <2>1. B \subseteq SUBSET S
    OBVIOUS
  <2> HIDE DEF B
  <2> QED BY <2>1, SmallestSubset
<1>2. PICK y \in S : Bad(Q, y)
  BY <1>1
<1> DEFINE c == Pick(Q)
<1>3. c \in Q /\ Q \in SUBSET S /\ y \in Q
  BY <1>1, <1>2, PickIs
<1>4. g[Q] = f[c] + g[Q \ {c}]
  BY <1>3 DEF IsSum
<1> HIDE DEF c
<1>5. c # y
  BY <1>2, <1>4
<1>6. ~Bad(Q \ {c}, y) /\ ~Bad(Q \ {y}, c)
  BY <1>1, <1>3
<1>7. g[Q \ {c}] = f[y] + g[(Q \ {c}) \ {y}] /\ g[Q \ {y}] = f[c] + g[(Q \ {y}) \ {c}]
  BY <1>3, <1>5, <1>6
<1>8. (Q \ {c}) \ {y} = (Q \ {y}) \ {c}
  OBVIOUS
<1>9. f[c] \in Nat /\ f[y] \in Nat /\ g[(Q \ {c}) \ {y}] \in Nat
  BY <1>3 DEF IsSum
<1> DEFINE rest == g[(Q \ {c}) \ {y}]
<1>10. g[Q \ {c}] = f[y] + rest /\ g[Q \ {y}] = f[c] + rest /\ rest \in Nat
  BY <1>7, <1>8, <1>9
<1> HIDE DEF rest
<1>11. g[Q] = f[y] + g[Q \ {y}]
  BY <1>4, <1>9, <1>10
<1> QED BY <1>2, <1>11

LEMMA SumIsNumber ==
  ASSUME NEW S, IsFiniteSet(S), NEW f, \A x \in S : f[x] \in Nat
  PROVE  SumFunctionOnSet(f, S) \in Nat
<1>1. PICK g : IsSum(g, f, S) /\ SumFunctionOnSet(f, S) = g[S]
  BY SumIs
<1>2. S \in SUBSET S /\ g \in [SUBSET S -> Nat]
  BY <1>1 DEF IsSum
<1> QED BY <1>1, <1>2

\* A finite set of numbers has a greatest one.
LEMMA MaxIsNumber ==
  ASSUME NEW S, S \subseteq Nat, S # {}, IsFiniteSet(S)
  PROVE  Max(S) \in S /\ \A y \in S : y <= Max(S)
<1> DEFINE B == {R \in SUBSET S : R # {} /\ ~\E m \in R : \A y \in R : y <= m}
<1>1. B = {}
  <2> SUFFICES ASSUME B # {} PROVE FALSE
    OBVIOUS
  <2>1. PICK R \in B : \A x \in R : R \ {x} \notin B
    <3>1. B \subseteq SUBSET S
      OBVIOUS
    <3> HIDE DEF B
    <3> QED BY <3>1, SmallestSubset
  <2>2. PICK x \in R : TRUE
    BY <2>1
  <2>3. x \in Nat /\ \A y \in R : y = x \/ y \in R \ {x}
    BY <2>1
  <2>4. CASE R \ {x} = {}
    BY <2>1, <2>3, <2>4
  <2>5. CASE R \ {x} # {}
    <3>1. PICK m \in R \ {x} : \A y \in R \ {x} : y <= m
      BY <2>1, <2>2, <2>5
    <3>2. m \in Nat /\ m \in R
      BY <2>1, <3>1
    <3>3. CASE m <= x
      <4>1. \A y \in R : y <= x
        <5> TAKE y \in R
        <5>1. y \in Nat
          BY <2>1
        <5> QED BY <2>3, <3>1, <3>2, <3>3, <5>1
      <4> QED BY <2>1, <2>2, <4>1
    <3>4. CASE x <= m
      <4>1. \A y \in R : y <= m
        BY <2>3, <3>1, <3>2, <3>4
      <4> QED BY <2>1, <3>2, <4>1
    <3> QED BY <2>3, <3>2, <3>3, <3>4
  <2> QED BY <2>4, <2>5
<1>2. S \in SUBSET S /\ S \notin B
  BY <1>1
<1>3. \E m \in S : \A y \in S : y <= m
  BY <1>2
<1>4. PICK m \in S : \A y \in S : m >= y
  <2>1. PICK m \in S : \A y \in S : y <= m
    BY <1>3
  <2> QED BY <2>1
<1>5. Max(S) \in S /\ \A y \in S : Max(S) >= y
  <2> HIDE DEF B
  <2> QED BY <1>4, Zenon DEF Max
<1> QED BY <1>5

LEMMA LowerFour ==
  ASSUME NEW k, NEW l, DOMAIN k = 1..4
  PROVE  Lower(k, l)
            <=> \/ k[1] < l[1]
                \/ /\ k[1] = l[1]
                   /\ \/ k[2] < l[2]
                      \/ k[2] = l[2] /\ (k[3] < l[3] \/ (k[3] = l[3] /\ k[4] < l[4]))
<1>1. 1..4 = {1, 2, 3, 4} /\ 1..(1 - 1) = {} /\ 1..(2 - 1) = {1} /\ 1..(3 - 1) = {1, 2} /\ 1..(4 - 1) = {1, 2, 3}
  OBVIOUS
<1>2. Lower(k, l) <=> \E i \in {1, 2, 3, 4} : k[i] < l[i] /\ \A j \in 1..(i - 1) : k[j] = l[j]
  BY <1>1 DEF Lower
<1> DEFINE Same(i) == \A j \in 1..(i - 1) : k[j] = l[j]
<1>3. /\ Same(1) /\ (Same(2) <=> k[1] = l[1]) /\ (Same(3) <=> k[1] = l[1] /\ k[2] = l[2])
      /\ Same(4) <=> k[1] = l[1] /\ k[2] = l[2] /\ k[3] = l[3]
  BY <1>1
<1> HIDE DEF Same
<1>4. Lower(k, l) <=> \/ (k[1] < l[1] /\ Same(1)) \/ (k[2] < l[2] /\ Same(2))
                     \/ (k[3] < l[3] /\ Same(3)) \/ (k[4] < l[4] /\ Same(4))
  BY <1>2 DEF Same
<1> QED BY <1>3, <1>4

-----------------------------------------------------------------------------
(* Whole numbers.                                                          *)

LEMMA DivIs ==
  ASSUME NEW a \in Int, NEW d \in Nat, d > 0
  PROVE  a \div d \in Int /\ d * (a \div d) <= a /\ a < d * (a \div d) + d
BY SMT

LEMMA DivGrows ==
  ASSUME NEW a \in Int, NEW b \in Int, a <= b, NEW d \in Nat, d > 0
  PROVE  a \div d <= b \div d
<1> DEFINE x == a \div d
           y == b \div d
<1>1. x \in Int /\ d * x <= a /\ a < d * x + d
  BY DivIs
<1>2. y \in Int /\ d * y <= b /\ b < d * y + d
  BY DivIs
<1> HIDE DEF x, y
<1>3. d * x < d * (y + 1)
  BY <1>1, <1>2
<1>4. x < y + 1
  BY <1>1, <1>2, <1>3
<1> QED BY <1>1, <1>2, <1>4 DEF x, y

\* A number from 0 to c times d is divided by d into one from 0 to c.
LEMMA DivWithin ==
  ASSUME NEW a \in Nat, NEW c \in Nat, NEW d \in Nat, d > 0, a <= c * d
  PROVE  a \div d \in 0..c
<1> DEFINE x == a \div d
<1>1. x \in Int /\ d * x <= a /\ a < d * x + d
  BY DivIs
<1> HIDE DEF x
<1>2. d * x <= d * c /\ 0 < d * (x + 1)
  BY <1>1
<1>3. x <= c /\ 0 < x + 1
  BY <1>1, <1>2
<1> QED BY <1>1, <1>3 DEF x

LEMMA DivIsNat ==
  ASSUME NEW a \in Nat, NEW d \in Nat, d > 0
  PROVE  a \div d \in Nat
<1>1. a <= a * d
  OBVIOUS
<1> QED BY <1>1, DivWithin

LEMMA ProductGrows ==
  ASSUME NEW a \in Nat, NEW x \in Int, NEW y \in Int, x <= y
  PROVE  a * x \in Int /\ a * y \in Int /\ a * x <= a * y
<1>1. y - x \in Nat /\ a * (y - x) \in Nat
  OBVIOUS
<1>2. a * y = a * x + a * (y - x)
  OBVIOUS
<1> QED BY <1>1, <1>2

LEMMA BoundIs ==
  ASSUME NEW x \in Int, NEW high \in Nat
  PROVE  Bound(x, 0, high) \in 0..high
BY DEF Bound

LEMMA BoundGrows ==
  ASSUME NEW x \in Int, NEW y \in Int, x <= y, NEW high \in Nat
  PROVE  Bound(x, 0, high) <= Bound(y, 0, high)
BY DEF Bound

\* The larger of two numbers, as a set
LEMMA MostOfTwo ==
  ASSUME NEW a \in Int, NEW b \in Int
  PROVE  Most({a, b}, 0) = IF a <= b THEN b ELSE a
<1> DEFINE m == IF a <= b THEN b ELSE a
<1>1. m \in {a, b} /\ (\A y \in {a, b} : m >= y)
  OBVIOUS
<1>2. \A x \in {a, b} : (\A y \in {a, b} : x >= y) => x = m
  OBVIOUS
<1>3. Max({a, b}) = m
  <2> HIDE DEF m
  <2> QED BY <1>1, <1>2 DEF Max
<1> QED BY <1>3 DEF Most

LEMMA LeastIs ==
  ASSUME NEW S, S \subseteq Nat, NEW none \in Nat
  PROVE  /\ Least(S, none) \in Nat /\ (S = {} => Least(S, none) = none)
         /\ S # {} => Least(S, none) \in S /\ \A y \in S : Least(S, none) <= y
<1>1. CASE S = {}
  BY <1>1 DEF Least
<1>2. CASE S # {}
  <2>1. PICK x \in S : \A y \in S : x <= y
    BY <1>2, LeastNumber
  <2>2. Min(S) \in S /\ \A y \in S : Min(S) <= y
    BY <2>1, Zenon DEF Min
  <2> QED BY <1>2, <2>2 DEF Least
<1> QED BY <1>1, <1>2

\* Of what a function takes on a finite set, one is the greatest.
LEMMA ImageIsFinite ==
  ASSUME NEW T, IsFiniteSet(T), NEW f
  PROVE  IsFiniteSet({f[x] : x \in T})
<1> DEFINE g == [x \in T |-> f[x]]
           S == {f[x] : x \in T}
<1>1. g \in Surjection(T, S)
  BY DEF Surjection
<1> HIDE DEF g
<1> QED BY <1>1, FS_Surjection

LEMMA GreatestIs ==
  ASSUME NEW S, S \subseteq Nat, IsFiniteSet(S), NEW none \in Nat
  PROVE  /\ Most(S, none) \in Nat /\ (S = {} => Most(S, none) = none)
         /\ S # {} => Most(S, none) \in S /\ \A y \in S : y <= Most(S, none)
<1>1. CASE S = {}
  BY <1>1 DEF Most
<1>2. CASE S # {}
  BY <1>2, MaxIsNumber DEF Most
<1> QED BY <1>1, <1>2

-----------------------------------------------------------------------------
(* The formula, the results of the pilots and the totals of the day.       *)

Outings == FlightRecords \cup StatusOnly

IsFormula(f) ==
    /\ f.mindist \in Nat \ {0} /\ f.nomdist \in Nat \ {0} /\ f.nomtime \in Nat \ {0}
    /\ f.sspenalty \in 0..100 /\ f.lwf \in Nat /\ f.open \in Nat
    /\ f.departure \in {"off", "leadout", "departure"} /\ f.arrival \in {"off", "position", "timed"}

LEMMA FormulaIs ==
  ASSUME NEW ev \in EventRecords
  PROVE  IsFormula(Formula(ev))
<1>1. /\ ev.mindist \in Nat /\ ev.nomdist \in Nat /\ ev.nomtime \in Nat /\ ev.sspenalty \in Nat /\ ev.lwf \in Nat
      /\ ev.open \in Nat
  BY DEF EventRecords
<1>2. /\ Setting(ev.mindist, 1) \in Nat \ {0} /\ Setting(ev.nomdist, 2) \in Nat \ {0}
      /\ Setting(ev.nomtime, 4) \in Nat \ {0} /\ Setting(ev.lwf, 100) \in Nat
  BY <1>1 DEF Setting
<1>3. Bound(ev.sspenalty, 0, 100) \in 0..100
  <2>1. ev.sspenalty \in Int /\ 100 \in Nat
    BY <1>1
  <2> QED BY <2>1, BoundIs
<1>4. DepartureMode(ev.use) \in {"off", "leadout", "departure"} /\ ArrivalMode(ev.use) \in {"off", "position", "timed"}
  BY DEF DepartureMode, ArrivalMode
<1> QED BY <1>1, <1>2, <1>3, <1>4 DEF Formula, IsFormula

IsPilot(x) ==
    /\ x.dist \in Nat /\ x.start \in Nat /\ x.end \in Nat /\ x.time \in Nat /\ x.penalty \in Nat /\ x.lead \in Nat
    /\ x.goal \in BOOLEAN /\ x.result \in {"dnf", "abs", "lo"}
    /\ x.time > 0 <=> x.end > x.start
    /\ x.time > 0 => x.time = x.end - x.start
    /\ x.result # "lo" => ~x.goal /\ x.time = 0 /\ x.lead = 0 /\ x.start = 0

LEMMA PilotIs ==
  ASSUME NEW f, IsFormula(f), NEW e \in Outings
  PROVE  IsPilot(PilotResult(f, e))
<1>1. f.mindist \in Nat
  BY DEF IsFormula
<1>2. CASE e \in FlightRecords
  <2>1. /\ e.status \in {"goal", "ess", "partial"} /\ e.dist \in Nat /\ e.start \in Nat /\ e.ess \in Nat
        /\ e.lead \in Nat /\ e.jump \in Nat
    BY <1>2 DEF FlightRecords
  <2>2. PilotResult(f, e).result = "lo"
    BY <2>1 DEF PilotResult
  <2> QED BY <1>1, <2>1, <2>2 DEF PilotResult, IsPilot
<1>3. CASE e \in StatusOnly
  <2>1. \E st \in {"minimum_distance", "did_not_fly", "absent"} : e = NoFlight(st)
    BY <1>3 DEF StatusOnly
  <2>2. PICK st \in {"minimum_distance", "did_not_fly", "absent"} : e = NoFlight(st)
    BY <2>1
  <2>3. /\ e.status = st /\ e.dist = 0 /\ e.start = 0 /\ e.ess = 0 /\ e.lead = 0 /\ e.jump = 0
    BY <2>2 DEF NoFlight
  <2> DEFINE x == PilotResult(f, e)
  <2>4. x.start = 0 /\ x.end = 0 /\ x.time = 0 /\ x.penalty = 0 /\ x.lead = 0
    BY <2>3 DEF PilotResult
  <2>5. x.dist \in Nat
    BY <1>1, <2>3 DEF PilotResult
  <2>6. x.goal = FALSE
    BY <2>3 DEF PilotResult
  <2>7. x.result \in {"dnf", "abs", "lo"}
    BY <2>3 DEF PilotResult
  <2> HIDE DEF x
  <2>8. x.start \in Nat /\ x.end \in Nat /\ x.time \in Nat /\ x.penalty \in Nat /\ x.lead \in Nat
    BY <2>4
  <2>9. ~(x.time > 0) /\ ~(x.end > x.start)
    BY <2>4
  <2>10. x.goal \in BOOLEAN /\ ~x.goal
    BY <2>6, Zenon
  <2>11. IsPilot(x)
    BY <2>4, <2>5, <2>7, <2>8, <2>9, <2>10, Zenon DEF IsPilot
  <2> QED BY <2>11 DEF x
<1> QED BY <1>2, <1>3 DEF Outings

IsField(r) == DOMAIN r \subseteq Nat /\ IsFiniteSet(DOMAIN r) /\ \A p \in DOMAIN r : IsPilot(r[p])

\* The sets that the totals are of
LEMMA GroupsAre ==
  ASSUME NEW f, IsFormula(f), NEW r, IsField(r)
  PROVE  /\ Active(r) \subseteq DOMAIN r /\ IsFiniteSet(Active(r)) /\ Count(Active(r)) \in Nat
         /\ Timed(r) \subseteq Active(r) /\ IsFiniteSet(Timed(r)) /\ Count(Timed(r)) \in Nat
         /\ InGoal(r) \subseteq Launched(r) /\ IsFiniteSet(InGoal(r)) /\ Count(InGoal(r)) \in Nat
         /\ Launched(r) \subseteq Active(r) /\ IsFiniteSet(Launched(r)) /\ Count(Launched(r)) \in Nat
         /\ Count(InGoal(r)) <= Count(Launched(r))
         /\ Spread(f, r) \subseteq Launched(r) /\ IsFiniteSet(Spread(f, r)) /\ Count(Spread(f, r)) \in Nat
         /\ Count(Spread(f, r)) <= Count(Launched(r))
<1>1. IsFiniteSet(DOMAIN r) /\ \A p \in DOMAIN r : IsPilot(r[p])
  BY DEF IsField
<1>2. Active(r) \subseteq DOMAIN r
  BY DEF Active
<1>3. Timed(r) \subseteq Active(r) /\ Launched(r) \subseteq Active(r)
  BY DEF Timed, Launched
<1>4. InGoal(r) \subseteq Launched(r) /\ Scorable(r) \subseteq Launched(r)
  BY <1>1, <1>2 DEF InGoal, Launched, Scorable, Active, Flew, IsPilot
<1>5. Spread(f, r) \subseteq Launched(r)
  BY <1>4 DEF Spread
<1>6. IsFiniteSet(Active(r))
  BY <1>1, <1>2, FS_Subset
<1>7. IsFiniteSet(Timed(r)) /\ IsFiniteSet(Launched(r))
  BY <1>3, <1>6, FS_Subset
<1>8. /\ IsFiniteSet(InGoal(r)) /\ IsFiniteSet(Spread(f, r))
      /\ Cardinality(InGoal(r)) <= Cardinality(Launched(r)) /\ Cardinality(Spread(f, r)) <= Cardinality(Launched(r))
  BY <1>4, <1>5, <1>7, FS_Subset
<1> QED BY <1>2, <1>3, <1>4, <1>5, <1>6, <1>7, <1>8, FS_CardinalityType DEF Count

IsTotals(f, r, t) ==
    /\ t.pilots \in Nat /\ t.launched \in Nat /\ t.goal \in Nat /\ t.goal <= t.launched /\ t.ess \in Nat
    /\ t.pilots = 0 => t.launched = 0
    /\ t.distance \in Nat /\ t.maxdist \in Nat \ {0} /\ \A p \in Active(r) : r[p].dist <= t.maxdist
    /\ t.fastest \in Nat /\ t.tqtime \in Nat /\ t.firstdepart \in Nat /\ t.firstarrival \in Nat /\ t.lastarrival \in Nat
    /\ \A p \in Timed(r) : t.fastest <= r[p].time /\ t.fastest > 0 /\ t.ess > 0
    /\ t.mincoeff \in Nat
    /\ \A p \in Leaders(r) : t.mincoeff \in {r[q].lead : q \in Leaders(r)} /\ t.mincoeff <= r[p].lead
    /\ t.spread \subseteq DOMAIN r /\ IsFiniteSet(t.spread) /\ Count(t.spread) \in Nat /\ Count(t.spread) <= t.launched
    /\ t.lookahead \in Nat

LEMMA EffectiveIs ==
  ASSUME NEW f, IsFormula(f), NEW r, IsField(r)
  PROVE  \A p \in Active(r) : Effective(f, r)[p] \in Nat /\ r[p].dist <= Effective(f, r)[p]
<1>1. f.mindist \in Nat /\ \A p \in Active(r) : r[p].dist \in Nat
  BY DEF IsFormula, IsField, IsPilot, Active
<1> QED BY <1>1 DEF Effective

LEMMA LookaheadIs ==
  ASSUME NEW f, IsFormula(f), NEW r, IsField(r)
  PROVE  Lookahead(f, r) \in Nat
<1> DEFINE R == Active(r) \ InGoal(r)
           D == [p \in DOMAIN r |-> r[p].dist]
           S == {D[p] : p \in R} \cup {f.mindist}
           n == Count(Launched(r)) - Count(InGoal(r))
<1>1. f.mindist \in Nat /\ (\A p \in DOMAIN r : r[p].dist \in Nat) /\ Active(r) \subseteq DOMAIN r /\ IsFiniteSet(Active(r))
  BY GroupsAre DEF IsFormula, IsField, IsPilot
<1>2. {D[p] : p \in R} = {r[p].dist : p \in R}
  BY <1>1
<1>3. S \subseteq Nat
  BY <1>1
<1>4. IsFiniteSet(R)
  BY <1>1, FS_Subset
<1>5. IsFiniteSet({D[p] : p \in R})
  <2> HIDE DEF R, D
  <2> QED BY <1>4, ImageIsFinite
<1>6. IsFiniteSet(S)
  <2> HIDE DEF R, D
  <2> QED BY <1>5, FS_AddElement
<1>7. Most(S, 0) \in Nat
  <2> HIDE DEF S
  <2>1. 0 \in Nat
    OBVIOUS
  <2> QED BY <1>3, <1>6, <2>1, GreatestIs
<1>8. n \in Int
  BY GroupsAre
<1>9. Lookahead(f, r) = IF n > 0 THEN (3 * Most(S, 0)) \div n ELSE 0
  <2>1. Lookahead(f, r) = IF n > 0 THEN (3 * Most({r[p].dist : p \in R} \cup {f.mindist}, 0)) \div n ELSE 0
    BY Zenon DEF Lookahead
  <2> HIDE DEF n, R, D
  <2> QED BY <1>2, <2>1
<1> DEFINE m == 3 * Most(S, 0)
<1>10. m \in Nat
  <2> HIDE DEF S
  <2> QED BY <1>7
<1> HIDE DEF n, S, m
<1>11. n > 0 => m \div n \in Nat
  <2>1. n > 0 => n \in Nat
    BY <1>8
  <2> QED BY <1>10, <2>1, DivIsNat
<1> QED BY <1>9, <1>11 DEF m

\* The largest and the smallest of a group of pilots
LEMMA LeastOf ==
  ASSUME NEW D, NEW G, \A p \in D : G[p] \in Nat, NEW T \in SUBSET D, NEW none \in Nat
  PROVE  /\ Least({G[p] : p \in T}, none) \in Nat
         /\ T # {} => /\ \E p \in T : Least({G[x] : x \in T}, none) = G[p]
                      /\ \A p \in T : Least({G[x] : x \in T}, none) <= G[p]
<1> DEFINE S == {G[p] : p \in T}
<1>1. S \subseteq Nat /\ (T # {} => S # {}) /\ \A p \in T : G[p] \in S
  OBVIOUS
<1>2. \A x \in S : \E p \in T : x = G[p]
  OBVIOUS
<1> HIDE DEF S
<1>3. Least(S, none) \in Nat /\ (S # {} => Least(S, none) \in S /\ \A y \in S : Least(S, none) <= y)
  BY <1>1, LeastIs
<1>4. T # {} => (\E p \in T : Least(S, none) = G[p]) /\ (\A p \in T : Least(S, none) <= G[p])
  BY <1>1, <1>2, <1>3
<1> QED BY <1>3, <1>4 DEF S

LEMMA TotalsAre ==
  ASSUME NEW f, IsFormula(f), NEW r, IsField(r)
  PROVE  IsTotals(f, r, Totals(f, r))
<1> DEFINE t == Totals(f, r)
           D == DOMAIN r
           eff == Effective(f, r)
           fastest == Least({r[p].time : p \in Timed(r)}, 0)
<1>1. /\ t.pilots = Count(Active(r)) /\ t.launched = Count(Launched(r)) /\ t.goal = Count(InGoal(r))
      /\ t.ess = Count(Timed(r)) /\ t.distance = SumFunctionOnSet(eff, Active(r))
      /\ t.maxdist = Most({eff[p] : p \in Active(r)} \cup {f.mindist}, 0)
      /\ t.fastest = fastest /\ t.tqtime = Least({r[p].time : p \in Second(r)}, fastest)
      /\ t.firstdepart = Least({r[p].start : p \in {q \in InGoal(r) : r[q].start > 0}}, 0)
      /\ t.firstarrival = Least({r[p].end : p \in Timed(r)}, 0) /\ t.lastarrival = Most({r[p].end : p \in Timed(r)}, 0)
      /\ t.mincoeff = Least({r[p].lead : p \in Leaders(r)}, 0)
      /\ t.spread = Spread(f, r) /\ t.lookahead = Lookahead(f, r)
  BY DEF Totals
<1>2. /\ Active(r) \subseteq D /\ IsFiniteSet(Active(r)) /\ Count(Active(r)) \in Nat
      /\ Timed(r) \subseteq Active(r) /\ IsFiniteSet(Timed(r)) /\ Count(Timed(r)) \in Nat
      /\ InGoal(r) \subseteq Launched(r) /\ IsFiniteSet(InGoal(r)) /\ Count(InGoal(r)) \in Nat
      /\ Launched(r) \subseteq Active(r) /\ IsFiniteSet(Launched(r)) /\ Count(Launched(r)) \in Nat
      /\ Count(InGoal(r)) <= Count(Launched(r))
      /\ Spread(f, r) \subseteq Launched(r) /\ IsFiniteSet(Spread(f, r)) /\ Count(Spread(f, r)) \in Nat
      /\ Count(Spread(f, r)) <= Count(Launched(r))
  BY GroupsAre
<1>3. /\ \A p \in D : r[p].dist \in Nat /\ r[p].time \in Nat /\ r[p].start \in Nat /\ r[p].end \in Nat /\ r[p].lead \in Nat
      /\ \A p \in D : r[p].time > 0 <=> r[p].end > r[p].start
      /\ f.mindist \in Nat \ {0}
  BY DEF IsField, IsPilot, IsFormula
<1>4. \A p \in Active(r) : eff[p] \in Nat /\ r[p].dist <= eff[p]
  BY EffectiveIs
<1> DEFINE times == [p \in D |-> r[p].time]
           starts == [p \in D |-> r[p].start]
           ends == [p \in D |-> r[p].end]
           leads == [p \in D |-> r[p].lead]
<1>5. \A p \in D : times[p] = r[p].time /\ starts[p] = r[p].start /\ ends[p] = r[p].end /\ leads[p] = r[p].lead
  OBVIOUS
<1>6. \A p \in D : times[p] \in Nat /\ starts[p] \in Nat /\ ends[p] \in Nat /\ leads[p] \in Nat
  BY <1>3
<1> HIDE DEF t, D, eff, fastest, times, starts, ends, leads
<1> DEFINE Gone == {q \in InGoal(r) : r[q].start > 0}
<1>7. /\ Timed(r) \in SUBSET D /\ Second(r) \in SUBSET D /\ Leaders(r) \in SUBSET D /\ Gone \in SUBSET D
  BY <1>2 DEF Second, Leaders
<1>8. /\ \A T \in SUBSET D : /\ {times[p] : p \in T} = {r[p].time : p \in T} /\ {starts[p] : p \in T} = {r[p].start : p \in T}
                             /\ {ends[p] : p \in T} = {r[p].end : p \in T} /\ {leads[p] : p \in T} = {r[p].lead : p \in T}
  BY <1>5
<1> HIDE DEF Gone
<1>9. 0 \in Nat
  OBVIOUS
<1>10. fastest \in Nat /\ \A p \in Timed(r) : fastest <= r[p].time /\ fastest > 0
  <2>1. /\ Least({times[p] : p \in Timed(r)}, 0) \in Nat
        /\ Timed(r) # {} => /\ \E p \in Timed(r) : Least({times[x] : x \in Timed(r)}, 0) = times[p]
                            /\ \A p \in Timed(r) : Least({times[x] : x \in Timed(r)}, 0) <= times[p]
    BY <1>6, <1>7, <1>9, LeastOf
  <2>2. fastest = Least({times[p] : p \in Timed(r)}, 0)
    BY <1>7, <1>8 DEF fastest
  <2>3. \A p \in Timed(r) : p \in D /\ r[p].time > 0 /\ times[p] = r[p].time
    BY <1>3, <1>5, <1>7 DEF Timed
  <2> QED BY <2>1, <2>2, <2>3
<1>11. t.tqtime \in Nat
  <2>1. Least({times[p] : p \in Second(r)}, fastest) \in Nat
    BY <1>6, <1>7, <1>10, LeastOf
  <2> QED BY <1>1, <1>7, <1>8, <2>1
<1>12. t.firstdepart \in Nat
  <2>1. Least({starts[p] : p \in Gone}, 0) \in Nat
    BY <1>6, <1>7, <1>9, LeastOf
  <2> QED BY <1>1, <1>7, <1>8, <2>1 DEF Gone
<1>13. t.firstarrival \in Nat
  <2>1. Least({ends[p] : p \in Timed(r)}, 0) \in Nat
    BY <1>6, <1>7, <1>9, LeastOf
  <2> QED BY <1>1, <1>7, <1>8, <2>1
<1>14. t.lastarrival \in Nat
  <2>1. IsFiniteSet({ends[p] : p \in Timed(r)})
    BY <1>2, ImageIsFinite
  <2>2. {ends[p] : p \in Timed(r)} \subseteq Nat
    BY <1>6, <1>7
  <2>3. Most({ends[p] : p \in Timed(r)}, 0) \in Nat
    BY <1>9, <2>1, <2>2, GreatestIs
  <2> QED BY <1>1, <1>7, <1>8, <2>3
<1>15. t.mincoeff \in Nat /\ \A p \in Leaders(r) : t.mincoeff \in {r[q].lead : q \in Leaders(r)} /\ t.mincoeff <= r[p].lead
  <2>1. /\ Least({leads[p] : p \in Leaders(r)}, 0) \in Nat
        /\ Leaders(r) # {} => /\ \E p \in Leaders(r) : Least({leads[x] : x \in Leaders(r)}, 0) = leads[p]
                            /\ \A p \in Leaders(r) : Least({leads[x] : x \in Leaders(r)}, 0) <= leads[p]
    BY <1>6, <1>7, <1>9, LeastOf
  <2>2. t.mincoeff = Least({leads[p] : p \in Leaders(r)}, 0)
    BY <1>1, <1>7, <1>8
  <2>3. \A p \in Leaders(r) : leads[p] = r[p].lead
    BY <1>5, <1>7
  <2> QED BY <2>1, <2>2, <2>3
<1>16. t.maxdist \in Nat \ {0} /\ \A p \in Active(r) : r[p].dist <= t.maxdist
  <2> DEFINE E == {eff[p] : p \in Active(r)}
             S == E \cup {f.mindist}
  <2>1. S \subseteq Nat /\ f.mindist \in S
    BY <1>3, <1>4
  <2>2. \A p \in Active(r) : eff[p] \in S
    OBVIOUS
  <2>3. IsFiniteSet(E)
    BY <1>2, ImageIsFinite
  <2> HIDE DEF E
  <2>4. IsFiniteSet(S)
    BY <2>3, FS_AddElement
  <2> HIDE DEF S
  <2>5. Most(S, 0) \in Nat /\ \A y \in S : y <= Most(S, 0)
    BY <1>9, <2>1, <2>4, GreatestIs
  <2>6. t.maxdist = Most(S, 0)
    BY <1>1 DEF S, E
  <2>7. t.maxdist \in Nat /\ f.mindist <= t.maxdist /\ \A p \in Active(r) : eff[p] <= t.maxdist
    BY <2>1, <2>2, <2>5, <2>6
  <2>8. t.maxdist # 0
    BY <1>3, <2>7
  <2>9. ASSUME NEW p \in Active(r) PROVE r[p].dist <= t.maxdist
    <3>1. p \in D /\ r[p].dist \in Nat /\ eff[p] \in Nat /\ r[p].dist <= eff[p]
      BY <1>2, <1>3, <1>4
    <3> QED BY <2>7, <3>1
  <2> QED BY <2>7, <2>8, <2>9
<1>17. t.distance \in Nat
  BY <1>1, <1>2, <1>4, SumIsNumber
<1>18. t.ess \in Nat /\ \A p \in Timed(r) : t.ess > 0
  <2>1. Timed(r) # {} => Count(Timed(r)) # 0
    BY <1>2, FS_EmptySet DEF Count
  <2> QED BY <1>1, <1>2, <2>1
<1>19. t.pilots = 0 => t.launched = 0
  <2>1. Count(Launched(r)) <= Count(Active(r))
    BY <1>2, FS_Subset DEF Count
  <2> QED BY <1>1, <1>2, <2>1
<1>20. t.lookahead \in Nat
  BY <1>1, LookaheadIs
<1>21. t.spread \subseteq D /\ IsFiniteSet(t.spread) /\ Count(t.spread) \in Nat /\ Count(t.spread) <= t.launched
  BY <1>1, <1>2
<1>22. t.pilots \in Nat /\ t.launched \in Nat /\ t.goal \in Nat /\ t.goal <= t.launched
  BY <1>1, <1>2
<1>23. IsTotals(f, r, t)
  <2>1. \A p \in Timed(r) : t.fastest <= r[p].time /\ t.fastest > 0 /\ t.ess > 0
    BY <1>1, <1>10, <1>18
  <2>2. t.fastest \in Nat
    BY <1>1, <1>10
  <2> QED BY <1>11, <1>12, <1>13, <1>14, <1>15, <1>16, <1>17, <1>18, <1>19, <1>20, <1>21, <1>22, <2>1, <2>2, Zenon DEF IsTotals, D
<1> QED BY <1>23 DEF t

-----------------------------------------------------------------------------
(* What a rescoring writes.                                                *)

GapPoints(f, r, t, p) == Points(f, r, t, Weights(f, t), LeastLead(f, t, r), p)
RawOf(f, r, t) == [p \in DOMAIN r |-> TotalPoints(GapPoints(f, r, t, p), r[p])]

LEMMA ScoresAre ==
  ASSUME NEW ev, NEW e, NEW cs, NEW f, f = Formula(ev), NEW r, r = PilotResults(ev, e), NEW t, t = Totals(f, r)
  PROVE  /\ DOMAIN Scores(ev, e, cs) = Entered(e) /\ DOMAIN r = Entered(e)
         /\ \A p \in Entered(e) :
              LET s == Scores(ev, e, cs)[p] IN
              /\ s.points = GapPoints(f, r, t, p) /\ s.raw = TotalPoints(GapPoints(f, r, t, p), r[p])
              /\ s.adjusted = Adjusted(ev, RawOf(f, r, t), e)[p]
              /\ s.final = Penalised(Adjusted(ev, RawOf(f, r, t), e)[p], cs[p])
<1> DEFINE a == Weights(f, t)
           least == LeastLead(f, t, r)
           points == AllPoints(f, r, t, a, least)
           raw == [p \in DOMAIN r |-> TotalPoints(points[p], r[p])]
           adjusted == Adjusted(ev, raw, e)
<1>1. Scores(ev, e, cs) = ScoresOf(ev, e, cs, f, r)
  BY Zenon DEF Scores
<1>2. ScoresOf(ev, e, cs, f, r) = AfterPoints(ev, e, cs, r, PointsFor(f, r, t))
  BY Zenon DEF ScoresOf
<1>3. PointsFor(f, r, t) = points
  BY Zenon DEF PointsFor
<1>4. AfterPoints(ev, e, cs, r, points) = AfterHandicap(ev, e, cs, points, raw)
  BY Zenon DEF AfterPoints
<1>5. AfterHandicap(ev, e, cs, points, raw) = Final(points, raw, adjusted, cs)
  BY Zenon DEF AfterHandicap
<1>6. DOMAIN r = Entered(e)
  BY DEF PilotResults
<1>7. \A p \in Entered(e) : points[p] = GapPoints(f, r, t, p)
  BY <1>6 DEF AllPoints, GapPoints
<1>8. raw = RawOf(f, r, t)
  <2> HIDE DEF points
  <2> QED BY <1>6, <1>7 DEF RawOf
<1>9. DOMAIN raw = Entered(e) /\ \A p \in Entered(e) : raw[p] = TotalPoints(GapPoints(f, r, t, p), r[p])
  BY <1>6, <1>8, Zenon DEF RawOf
<1>10. Scores(ev, e, cs) = Final(points, raw, adjusted, cs)
  BY <1>1, <1>2, <1>3, <1>4, <1>5, Zenon
<1> HIDE DEF points, raw, adjusted
<1> DEFINE S == Final(points, raw, adjusted, cs)
<1>11. DOMAIN S = DOMAIN raw
  BY DEF Final
<1>12. ASSUME NEW p \in DOMAIN raw
       PROVE  /\ S[p].points = points[p] /\ S[p].raw = raw[p] /\ S[p].adjusted = adjusted[p]
              /\ S[p].final = Penalised(adjusted[p], cs[p])
  BY DEF Final
<1>13. adjusted = Adjusted(ev, RawOf(f, r, t), e)
  BY <1>8, Zenon DEF adjusted
<1> HIDE DEF S
<1>14. S = Scores(ev, e, cs)
  BY <1>10, Zenon DEF S
<1>15. ASSUME NEW p \in Entered(e)
       PROVE  /\ S[p].points = GapPoints(f, r, t, p) /\ S[p].raw = TotalPoints(GapPoints(f, r, t, p), r[p])
              /\ S[p].adjusted = Adjusted(ev, RawOf(f, r, t), e)[p]
              /\ S[p].final = Penalised(Adjusted(ev, RawOf(f, r, t), e)[p], cs[p])
  BY <1>7, <1>9, <1>12, <1>13
<1> QED BY <1>6, <1>9, <1>11, <1>14, <1>15, Zenon

-----------------------------------------------------------------------------
(* The desk: a sheet is the scores of what was entered and charged.        *)

GapInv ==
    /\ event \in EventRecords
    /\ entry \in [Rivals -> Outings \cup {None}]
    /\ charged \in [Rivals -> Seq(Charges)]
    /\ DOMAIN sheet = Entered(entry)
    /\ DOMAIN sheet # {} => sheet = Scores(event, entry, charged)

LEMMA NoneIsNoOuting == None \notin Outings
<1> DEFINE R == [status : {"goal", "ess", "partial", "minimum_distance", "did_not_fly", "absent"}, dist : Nat, start : Nat, ess : Nat, lead : Nat, jump : Nat]
<1>1. FlightRecords \subseteq R
  BY DEF FlightRecords
<1>2. StatusOnly \subseteq R
  BY DEF StatusOnly, NoFlight
<1>3. None \notin R
  BY GapAssumption
<1> HIDE DEF R
<1> QED BY <1>1, <1>2, <1>3 DEF Outings

LEMMA GapInitHolds == GapInit => GapInv
<1> SUFFICES ASSUME GapInit PROVE GapInv
  OBVIOUS
<1>1. event \in EventRecords /\ entry = [p \in Rivals |-> None] /\ charged = [p \in Rivals |-> <<>>] /\ sheet = <<>>
  BY GapAssumption DEF GapInit
<1>2. Entered(entry) = {} /\ DOMAIN sheet = {}
  BY <1>1 DEF Entered
<1> QED BY <1>1, <1>2 DEF GapInv

LEMMA GapNextKeeps == GapInv /\ [GapNext]_gapvars => GapInv'
<1> SUFFICES ASSUME GapInv, [GapNext]_gapvars PROVE GapInv'
  OBVIOUS
<1>1. ASSUME NEW p \in Rivals, NEW g \in Flights \cup StatusOnly, Enter(p, g) PROVE GapInv'
  <2> DEFINE e == [entry EXCEPT ![p] = g]
  <2>1. entry' = e /\ sheet' = Scores(event, e, charged) /\ UNCHANGED <<event, charged>>
    BY <1>1, Zenon DEF Enter
  <2>2. g \in Outings
    BY GapAssumption DEF Outings
  <2>3. e \in [Rivals -> Outings \cup {None}]
    BY <2>2 DEF GapInv
  <2> HIDE DEF e
  <2>4. DOMAIN Scores(event, e, charged) = Entered(e)
    BY ScoresAre
  <2>5. Entered(entry)' = Entered(e)
    BY <2>1 DEF Entered
  <2>6. sheet' = Scores(event, entry, charged)'
    BY <2>1
  <2> QED BY <2>1, <2>3, <2>4, <2>5, <2>6 DEF GapInv
<1>2. ASSUME NEW p \in Rivals, NEW c \in Charges, Charge(p, c) PROVE GapInv'
  <2> DEFINE cs == [charged EXCEPT ![p] = Append(@, c)]
  <2>1. charged' = cs /\ sheet' = Scores(event, entry, cs) /\ UNCHANGED <<event, entry>>
    BY <1>2, Zenon DEF Charge
  <2>2. cs \in [Rivals -> Seq(Charges)]
    <3>1. charged \in [Rivals -> Seq(Charges)]
      BY DEF GapInv
    <3>2. Append(charged[p], c) \in Seq(Charges)
      BY <3>1
    <3> QED BY <3>1, <3>2
  <2> HIDE DEF cs
  <2>4. DOMAIN Scores(event, entry, cs) = Entered(entry)
    BY ScoresAre
  <2>5. Entered(entry)' = Entered(entry)
    BY <2>1 DEF Entered
  <2>6. sheet' = Scores(event, entry, charged)'
    BY <2>1
  <2> QED BY <2>1, <2>2, <2>4, <2>5, <2>6 DEF GapInv
<1>3. CASE UNCHANGED gapvars
  BY <1>3 DEF gapvars, GapInv, Entered
<1> QED BY <1>1, <1>2, <1>3 DEF GapNext

LEMMA GapInvHolds == GapSpec => []GapInv
<1>1. GapInit => GapInv
  BY GapInitHolds
<1>2. GapInv /\ [GapNext]_gapvars => GapInv'
  BY GapNextKeeps
<1> QED BY <1>1, <1>2, PTL DEF GapSpec

\* What is scored is a field of pilots by one formula.
LEMMA FieldIs ==
  ASSUME NEW ev \in EventRecords, NEW e \in [Rivals -> Outings \cup {None}]
  PROVE  /\ IsFormula(Formula(ev)) /\ IsField(PilotResults(ev, e)) /\ DOMAIN PilotResults(ev, e) = Entered(e)
         /\ IsTotals(Formula(ev), PilotResults(ev, e), Totals(Formula(ev), PilotResults(ev, e)))
         /\ Entered(e) \subseteq Rivals /\ \A p \in Entered(e) : e[p] \in Outings
<1> DEFINE f == Formula(ev)
           r == PilotResults(ev, e)
<1>1. IsFormula(f)
  BY FormulaIs
<1>2. DOMAIN r = Entered(e) /\ \A p \in Entered(e) : r[p] = PilotResult(f, e[p])
  BY Zenon DEF PilotResults
<1>3. Entered(e) \subseteq Rivals
  BY DEF Entered
<1>4. IsFiniteSet(Entered(e)) /\ Entered(e) \subseteq Nat
  BY <1>3, GapAssumption, FS_Subset
<1>5. \A p \in Entered(e) : e[p] \in Outings
  BY DEF Entered
<1> HIDE DEF f, r
<1>6. \A p \in Entered(e) : IsPilot(r[p])
  BY <1>1, <1>2, <1>5, PilotIs
<1>7. IsField(r)
  BY <1>2, <1>4, <1>6 DEF IsField
<1>8. IsTotals(f, r, Totals(f, r))
  BY <1>1, <1>7, TotalsAre
<1> QED BY <1>1, <1>2, <1>3, <1>5, <1>7, <1>8 DEF f, r

-----------------------------------------------------------------------------
(* The quality of the day and the shares of the points.                    *)

\* A thousandth of a product of two shares of a thousand is one.
Mille == 1000

LEMMA Permille ==
  ASSUME NEW c \in Nat, NEW a \in 0..c, NEW b \in 0..Mille
  PROVE  (a * b) \div Mille \in 0..c
<1>1. Mille \in Nat /\ Mille > 0
  BY DEF Mille
<1> DEFINE x == a * b
<1>2. x \in Nat /\ x <= c * Mille
  <2>1. a \in Nat /\ a * b <= a * Mille
    BY <1>1, ProductGrows
  <2>2. a * Mille <= c * Mille /\ a * b \in Nat
    BY DEF Mille
  <2> QED BY <1>1, <2>1, <2>2
<1> HIDE DEF x
<1>3. x \div Mille \in 0..c
  BY <1>1, <1>2, DivWithin, Zenon
<1> QED BY <1>3 DEF x

LEMMA QualityIs ==
  ASSUME NEW f, IsFormula(f), NEW r, NEW t, IsTotals(f, r, t)
  PROVE  Quality(f, t) \in 0..1000
<1>1. CASE t.pilots = 0
  BY <1>1 DEF Quality
<1>2. CASE t.pilots # 0
  <2>1. t.pilots \in Nat /\ t.launched \in Nat /\ t.distance \in Nat /\ t.maxdist \in Nat /\ t.fastest \in Nat /\ t.tqtime \in Nat
    BY DEF IsTotals
  <2>2. f.mindist \in Nat /\ f.nomdist \in Nat \ {0} /\ f.nomtime \in Nat \ {0}
    BY DEF IsFormula
  <2>4. LaunchValidity(t) \in 0..1000
    <3> DEFINE n == 20 * t.launched
               d == 19 * t.pilots
               x == 27 * n * d * d + 2917 * n * n * d - 1944 * n * n * n
               c == d * d * d
    <3>1. n \in Nat /\ d \in Nat /\ d > 0
      BY <1>2, <2>1
    <3>2. LaunchValidity(t) = IF n > d THEN 1000 ELSE Bound(x \div c, 0, 1000)
      BY Zenon DEF LaunchValidity
    <3> HIDE DEF n, d
    <3>3. x \in Int /\ c \in Nat /\ c > 0
      <4>1. d * d \in Nat /\ d * d > 0
        BY <3>1
      <4>2. (d * d) * d \in Nat /\ (d * d) * d > 0
        BY <3>1, <4>1
      <4> QED BY <3>1, <4>2
    <3> HIDE DEF x, c
    <3>4. x \div c \in Int
      BY <3>3, DivIs
    <3> DEFINE y == x \div c
    <3>5. y \in Int /\ LaunchValidity(t) = IF n > d THEN 1000 ELSE Bound(y, 0, 1000)
      BY <3>2, <3>4
    <3> HIDE DEF y
    <3> QED BY <3>5 DEF Bound
  <2>5. DistValidity(f, t) \in 0..1000
    <3> DEFINE area == t.launched * (130 * (f.nomdist - f.mindist) + 30 * Most({0, t.maxdist - f.nomdist}, 0))
               x == 200000 * (t.distance - t.launched * f.mindist)
    <3>1. DistValidity(f, t) = IF area <= 0 THEN 0 ELSE Bound(x \div area, 0, 1000)
      BY DEF DistValidity
    <3>2. Most({0, t.maxdist - f.nomdist}, 0) \in Int
      <4>1. 0 \in Int /\ t.maxdist - f.nomdist \in Int
        BY <2>1, <2>2
      <4> QED BY <4>1, MostOfTwo
    <3>3. area \in Int /\ x \in Int
      BY <2>1, <2>2, <3>2
    <3> HIDE DEF area, x
    <3>4. CASE area <= 0
      BY <3>1, <3>4
    <3>5. CASE ~(area <= 0)
      <4>1. area \in Nat /\ area > 0
        BY <3>3, <3>5
      <4>2. x \div area \in Int
        BY <3>3, <4>1, DivIs
      <4> DEFINE y == x \div area
      <4>3. y \in Int /\ DistValidity(f, t) = Bound(y, 0, 1000)
        BY <3>1, <3>5, <4>2
      <4> HIDE DEF y
      <4> QED BY <4>3 DEF Bound
    <3> QED BY <3>4, <3>5
  <2>6. TimeValidity(f, t) \in 0..1000
    <3> DEFINE n == IF t.ess = 0 THEN t.maxdist ELSE IF f.version >= 2021 THEN t.fastest ELSE t.tqtime
               d == IF t.ess = 0 THEN f.nomdist ELSE f.nomtime
               x == 2912 * n * d * d + 457 * n * n * n - 271 * d * d * d - 2098 * n * n * d
               c == d * d * d
    <3>1. n \in Nat /\ d \in Nat /\ d > 0
      BY <2>1, <2>2
    <3>2. TimeValidity(f, t) = IF n >= d THEN 1000 ELSE Bound(x \div c, 100, 1000)
      BY Zenon DEF TimeValidity
    <3> HIDE DEF n, d
    <3>3. x \in Int /\ c \in Nat /\ c > 0
      <4>1. d * d \in Nat /\ d * d > 0
        BY <3>1
      <4>2. (d * d) * d \in Nat /\ (d * d) * d > 0
        BY <3>1, <4>1
      <4> QED BY <3>1, <4>2
    <3> HIDE DEF x, c
    <3>4. x \div c \in Int
      BY <3>3, DivIs
    <3> DEFINE y == x \div c
    <3>5. y \in Int /\ TimeValidity(f, t) = IF n >= d THEN 1000 ELSE Bound(y, 100, 1000)
      BY <3>2, <3>4
    <3> HIDE DEF y
    <3> QED BY <3>5 DEF Bound
  <2> DEFINE dt == (DistValidity(f, t) * TimeValidity(f, t)) \div 1000
  <2>7. Quality(f, t) = (dt * LaunchValidity(t)) \div Mille /\ dt = (DistValidity(f, t) * TimeValidity(f, t)) \div Mille
    BY <1>2 DEF Quality, Mille
  <2> HIDE DEF dt
  <2>8. /\ DistValidity(f, t) \in 0..Mille /\ TimeValidity(f, t) \in 0..Mille /\ LaunchValidity(t) \in 0..Mille
        /\ Mille \in Nat
    BY <2>4, <2>5, <2>6 DEF Mille
  <2>9. (DistValidity(f, t) * TimeValidity(f, t)) \div Mille \in 0..Mille
    BY <2>8, Permille, Zenon
  <2>10. dt \in 0..Mille
    BY <2>7, <2>9, Zenon
  <2>11. (dt * LaunchValidity(t)) \div Mille \in 0..Mille
    BY <2>8, <2>10, Permille, Zenon
  <2>12. Quality(f, t) \in 0..Mille
    BY <2>7, <2>11, Zenon
  <2> QED BY <2>12 DEF Mille
<1> QED BY <1>1, <1>2

\* The weight of the distance: with m of d pilots out of goal, the polynomial is
\* 361 d^3 - 48 m^2 d + 587 m^3.
LEMMA DistanceWeightIs ==
  ASSUME NEW d \in Nat, d > 0, NEW n \in 0..d
  PROVE  DistanceWeight(n, d) \in 0..1000
<1> DEFINE x == 900 * d * d * d - 1665 * n * d * d + 1713 * n * n * d - 587 * n * n * n
           c == d * d * d
           m == d - n
<1>1. m \in Nat /\ m <= d /\ n = d - m
  OBVIOUS
<1>2. x = 361 * (d * d * d) - 48 * (m * m * d) + 587 * (m * m * m)
  OBVIOUS
<1>3. d * d \in Nat /\ d * d > 0 /\ m * m \in Nat
  OBVIOUS
<1>4. c \in Nat /\ c > 0 /\ m * m * d \in Nat /\ m * m * m \in Nat
  <2>1. (d * d) * d \in Nat /\ (d * d) * d > 0 /\ (m * m) * d \in Nat /\ (m * m) * m \in Nat
    BY <1>1, <1>3
  <2> QED BY <2>1
<1>5. m * m <= d * d
  <2>1. m * m <= m * d
    BY <1>1, ProductGrows
  <2>2. d * m <= d * d
    BY <1>1, ProductGrows
  <2> QED BY <1>1, <2>1, <2>2
<1>6. m * m * d <= c /\ m * m * m <= m * m * d
  <2>1. d * (m * m) <= d * (d * d)
    <3>1. m * m \in Int /\ d * d \in Int
      BY <1>1
    <3> QED BY <1>5, <3>1, ProductGrows
  <2>2. (m * m) * m <= (m * m) * d
    BY <1>1, <1>3, ProductGrows
  <2> QED BY <1>1, <2>1, <2>2
<1>7. x \in Nat /\ x <= 1000 * c
  <2> HIDE DEF x, m
  <2> DEFINE md == m * m * d
             mm == m * m * m
  <2>1. x = 361 * c - 48 * md + 587 * mm /\ c \in Nat /\ md \in Nat /\ mm \in Nat /\ md <= c /\ mm <= md
    BY <1>2, <1>4, <1>6
  <2> HIDE DEF c, md, mm
  <2> QED BY <2>1
<1>8. DistanceWeight(n, d) = x \div c
  BY Zenon DEF DistanceWeight
<1> HIDE DEF x, c
<1>9. 1000 \in Nat
  OBVIOUS
<1> QED BY <1>4, <1>7, <1>8, <1>9, DivWithin

AreShares(a) == a.distance \in Nat /\ a.speed \in Int /\ a.start \in Nat /\ a.arrival \in Nat

LEMMA SharesAre ==
  ASSUME NEW f, IsFormula(f), NEW distance \in Nat, NEW other \in Nat
  PROVE  /\ AreShares(Shares(f, distance, other))
         /\ LET a == Shares(f, distance, other) IN a.distance + a.speed + a.start + a.arrival = distance + other
         /\ f.arrival = "off" => Shares(f, distance, other).arrival = 0
<1>1. LeadingShare(f, other) \in Nat
  <2>1. f.lwf \in Nat
    BY DEF IsFormula
  <2> DEFINE k == IF f.lwf # 100 THEN 10 * f.lwf ELSE 175
  <2>2. k \in Nat
    BY <2>1
  <2>3. LeadingShare(f, other) = IF f.departure = "off" THEN 0 ELSE (other * k) \div 1000
    BY DEF LeadingShare
  <2> HIDE DEF k
  <2>4. other * k \in Nat /\ 1000 \in Nat /\ 1000 > 0
    BY <2>2
  <2>5. (other * k) \div 1000 \in Nat
    BY <2>4, DivIsNat
  <2> QED BY <2>3, <2>5
<1>2. ArrivalShare(f, other) \in Nat /\ (f.arrival = "off" => ArrivalShare(f, other) = 0)
  <2>1. other \div 8 \in Nat
    BY DivIsNat
  <2> QED BY <2>1 DEF ArrivalShare
<1> QED BY <1>1, <1>2 DEF Shares, AreShares

\* What is given is within a thousand times the quality of the day.
LEMMA WeightsAre ==
  ASSUME NEW f, IsFormula(f), NEW r, NEW t, IsTotals(f, r, t), NEW a, a = Weights(f, t)
  PROVE  /\ AreShares(a) /\ a.distance + a.speed + a.start + a.arrival <= Quality(f, t)
         /\ f.arrival = "off" => a.arrival = 0
<1>1. Quality(f, t) \in 0..1000
  BY QualityIs
<1>2. t.launched \in Nat /\ t.goal \in 0..t.launched
  BY DEF IsTotals
<1>3. CASE t.launched = 0
  <2>1. a = Shares(f, 0, 0)
    BY <1>3 DEF Weights
  <2>2. 0 \in Nat
    OBVIOUS
  <2>3. /\ AreShares(a) /\ a.distance + a.speed + a.start + a.arrival = 0 + 0
        /\ f.arrival = "off" => a.arrival = 0
    BY <2>1, <2>2, SharesAre
  <2> QED BY <1>1, <2>3
<1>4. CASE t.launched # 0
  <2> DEFINE q == Quality(f, t)
             w == DistanceWeight(t.goal, t.launched)
             distance == (q * w) \div 1000
             other == (q * (1000 - w)) \div 1000
  <2>1. t.launched > 0
    BY <1>2, <1>4
  <2>2. w \in 0..1000
    BY <1>2, <2>1, DistanceWeightIs
  <2>3. a = Shares(f, distance, other)
    BY <1>4 DEF Weights, WeightsOf
  <2> HIDE DEF q, w
  <2> DEFINE v == 1000 - w
             y == q * w
             z == q * v
  <2>4. /\ q \in 0..Mille /\ q \in Nat /\ Mille \in Nat /\ Mille > 0 /\ w \in 0..Mille /\ v \in 0..Mille
        /\ distance = y \div Mille /\ other = z \div Mille
    BY <1>1, <2>2 DEF q, Mille
  <2>5. y \in Int /\ z \in Int /\ y + z = Mille * q
    <3>1. q \in Nat /\ w \in 0..1000
      BY <1>1, <2>2 DEF q
    <3> QED BY <3>1 DEF Mille
  <2> HIDE DEF distance, other, v
  <2>6. y \div Mille \in 0..Mille /\ z \div Mille \in 0..Mille
    BY <2>4, Permille, Zenon
  <2> HIDE DEF y, z
  <2>7. Mille * (y \div Mille) <= y /\ Mille * (z \div Mille) <= z
    BY <2>4, <2>5, DivIs, Zenon
  <2>13. distance \in Nat /\ other \in Nat /\ Mille * distance <= y /\ Mille * other <= z
    BY <2>4, <2>6, <2>7
  <2>14. q \in Nat
    BY <2>4
  <2>8. distance + other <= q
    BY <2>5, <2>13, <2>14 DEF Mille
  <2> DEFINE s == Shares(f, distance, other)
  <2>15. /\ AreShares(s) /\ s.distance + s.speed + s.start + s.arrival = distance + other
         /\ f.arrival = "off" => s.arrival = 0
    BY <2>13, SharesAre, Zenon
  <2>9. /\ AreShares(a) /\ a.distance + a.speed + a.start + a.arrival = distance + other
        /\ f.arrival = "off" => a.arrival = 0
    BY <2>3, <2>15, Zenon
  <2> QED BY <2>8, <2>9 DEF q
<1> QED BY <1>3, <1>4

-----------------------------------------------------------------------------
(* Ranks.                                                                  *)

\* By a strict order of a finite set, all of which it compares, the ranks are 1, 2, 3, ...
IsOrder(B, S) ==
    /\ \A p \in S : <<p, p>> \notin B
    /\ \A p, q \in S : p # q => <<p, q>> \in B \/ <<q, p>> \in B
    /\ \A p, q, o \in S : <<p, q>> \in B /\ <<q, o>> \in B => <<p, o>> \in B

LEMMA RanksAre ==
  ASSUME NEW S, IsFiniteSet(S), NEW B, IsOrder(B, S)
  PROVE  /\ \A p \in S : Cardinality({o \in S : <<o, p>> \in B}) \in Nat
         /\ \A p, q \in S : <<p, q>> \in B =>
              Cardinality({o \in S : <<o, p>> \in B}) < Cardinality({o \in S : <<o, q>> \in B})
         /\ {1 + Cardinality({o \in S : <<o, p>> \in B}) : p \in S} = 1..Cardinality(S)
<1> DEFINE Below(p) == {o \in S : <<o, p>> \in B}
           n == Cardinality(S)
           rank == [p \in S |-> 1 + Cardinality(Below(p))]
           I == {rank[p] : p \in S}
<1>1. /\ \A p \in S : <<p, p>> \notin B
      /\ \A p, q \in S : p # q => <<p, q>> \in B \/ <<q, p>> \in B
      /\ \A p, q, o \in S : <<p, q>> \in B /\ <<q, o>> \in B => <<p, o>> \in B
  BY DEF IsOrder
<1>2. n \in Nat
  BY FS_CardinalityType
<1>3. ASSUME NEW p \in S
      PROVE  IsFiniteSet(Below(p)) /\ Cardinality(Below(p)) \in Nat /\ Cardinality(Below(p)) + 1 <= n
  <2>1. Below(p) \subseteq S \ {p}
    BY <1>1
  <2>2. IsFiniteSet(S \ {p}) /\ Cardinality(S \ {p}) = n - 1
    BY FS_RemoveElement
  <2>3. IsFiniteSet(Below(p)) /\ Cardinality(Below(p)) <= n - 1
    <3> HIDE DEF Below, n
    <3> QED BY <2>1, <2>2, FS_Subset
  <2>4. Cardinality(Below(p)) \in Nat
    <3> HIDE DEF Below
    <3> QED BY <2>3, FS_CardinalityType
  <2> HIDE DEF Below, n
  <2> QED BY <1>2, <2>3, <2>4
<1>4. ASSUME NEW p \in S, NEW q \in S, <<p, q>> \in B PROVE Cardinality(Below(p)) < Cardinality(Below(q))
  <2>1. p \notin Below(p) /\ Below(p) \cup {p} \subseteq Below(q)
    BY <1>1, <1>4
  <2> HIDE DEF Below
  <2>2. IsFiniteSet(Below(p)) /\ IsFiniteSet(Below(q)) /\ Cardinality(Below(p)) \in Nat /\ Cardinality(Below(q)) \in Nat
    BY <1>3
  <2>3. Cardinality(Below(p) \cup {p}) = Cardinality(Below(p)) + 1
    BY <2>1, <2>2, FS_AddElement
  <2>4. Cardinality(Below(p) \cup {p}) <= Cardinality(Below(q))
    BY <2>1, <2>2, FS_Subset
  <2> QED BY <2>2, <2>3, <2>4
<1> HIDE DEF Below, n
<1>5. \A p \in S : rank[p] \in 1..n /\ rank[p] = 1 + Cardinality(Below(p))
  BY <1>2, <1>3
<1>6. ASSUME NEW p \in S, NEW q \in S, p # q PROVE rank[p] # rank[q]
  <2> DEFINE x == Cardinality(Below(p))
             y == Cardinality(Below(q))
  <2>1. x \in Nat /\ y \in Nat /\ rank[p] = 1 + x /\ rank[q] = 1 + y
    BY <1>3, <1>5
  <2>2. x < y \/ y < x
    BY <1>1, <1>4, <1>6
  <2> HIDE DEF x, y, rank
  <2> QED BY <2>1, <2>2
<1>7. I \subseteq 1..n /\ \A p \in S : rank[p] \in I
  BY <1>5
<1>8. rank \in [S -> I] /\ \A y \in I : \E p \in S : rank[p] = y
  BY <1>7
<1> HIDE DEF rank
<1>9. Cardinality(I) = n
  <2> HIDE DEF I
  <2>1. rank \in Surjection(S, I)
    BY <1>8 DEF Surjection
  <2>2. rank \in Injection(S, I)
    <3>1. \A p, q \in S : rank[p] = rank[q] => p = q
      BY <1>6
    <3> QED BY <1>8, <3>1 DEF Injection, IsInjective
  <2> QED BY <2>1, <2>2, FS_Surjection DEF n
<1>10. IsFiniteSet(1..n) /\ Cardinality(1..n) = n
  BY <1>2, FS_Interval
<1>11. I = 1..n
  <2> HIDE DEF I
  <2> QED BY <1>7, <1>9, <1>10, FS_Subset
<1>12. I = {1 + Cardinality(Below(p)) : p \in S}
  BY <1>5
<1>13. /\ \A p \in S : Cardinality(Below(p)) \in Nat
       /\ \A p, q \in S : <<p, q>> \in B => Cardinality(Below(p)) < Cardinality(Below(q))
  BY <1>3, <1>4
<1>14. {1 + Cardinality(Below(p)) : p \in S} = 1..Cardinality(S)
  BY <1>11, <1>12 DEF n
<1> QED BY <1>13, <1>14 DEF Below

\* The order of the places: elapsed time, distance, id
LEMMA AheadIsOrder ==
  ASSUME NEW r, IsField(r)
  PROVE  /\ \A p \in DOMAIN r : ~Ahead(r, p, p)
         /\ \A p, q \in DOMAIN r : p # q => Ahead(r, p, q) \/ Ahead(r, q, p)
         /\ \A p, q, o \in DOMAIN r : Ahead(r, p, q) /\ Ahead(r, q, o) => Ahead(r, p, o)
<1>1. \A p \in DOMAIN r : p \in Nat /\ r[p].dist \in Nat /\ Elapsed(r[p]) \in Int
  BY DEF IsField, IsPilot, Elapsed
<1> QED BY <1>1 DEF Ahead

LEMMA PositionsAre ==
  ASSUME NEW r, IsField(r)
  PROVE  /\ \A p \in DOMAIN r : Position(r, p) \in Nat \ {0}
         /\ \A p, q \in DOMAIN r : Ahead(r, p, q) => Position(r, p) < Position(r, q)
         /\ \A p, q \in DOMAIN r : Position(r, p) = Position(r, q) => p = q
<1> DEFINE D == DOMAIN r
           B == {o \in D \X D : Ahead(r, o[1], o[2])}
<1>1. \A p, q \in D : <<p, q>> \in B <=> Ahead(r, p, q)
  OBVIOUS
<1> HIDE DEF B
<1>2. IsOrder(B, D)
  <2>1. \A p \in D : <<p, p>> \notin B
    BY <1>1, AheadIsOrder
  <2>2. \A p, q \in D : p # q => <<p, q>> \in B \/ <<q, p>> \in B
    BY <1>1, AheadIsOrder
  <2>3. ASSUME NEW p \in D, NEW q \in D, NEW o \in D, <<p, q>> \in B, <<q, o>> \in B PROVE <<p, o>> \in B
    BY <1>1, <2>3, AheadIsOrder
  <2> QED BY <2>1, <2>2, <2>3, Zenon DEF IsOrder
<1>3. IsFiniteSet(D)
  BY DEF IsField
<1>4. /\ \A p \in D : Cardinality({o \in D : <<o, p>> \in B}) \in Nat
      /\ \A p, q \in D : <<p, q>> \in B =>
           Cardinality({o \in D : <<o, p>> \in B}) < Cardinality({o \in D : <<o, q>> \in B})
  <2> HIDE DEF D
  <2> QED BY <1>2, <1>3, RanksAre
<1>5. ASSUME NEW p \in D PROVE Position(r, p) = 1 + Cardinality({o \in D : <<o, p>> \in B})
  <2>1. {o \in D : <<o, p>> \in B} = {q \in D : Ahead(r, q, p)}
    BY <1>1
  <2> QED BY <2>1 DEF Position, Count
<1> DEFINE C(p) == Cardinality({o \in D : <<o, p>> \in B})
<1>9. \A p \in D : C(p) \in Nat /\ Position(r, p) = 1 + C(p)
  BY <1>4, <1>5
<1>10. \A p, q \in D : Ahead(r, p, q) => C(p) < C(q)
  BY <1>1, <1>4
<1> HIDE DEF C
<1>6. \A p \in D : Position(r, p) \in Nat \ {0}
  BY <1>9
<1>7. \A p, q \in D : Ahead(r, p, q) => Position(r, p) < Position(r, q)
  BY <1>9, <1>10
<1>8. ASSUME NEW p \in D, NEW q \in D, Position(r, p) = Position(r, q), p # q PROVE FALSE
  <2>1. Ahead(r, p, q) \/ Ahead(r, q, p)
    BY <1>8, AheadIsOrder
  <2> QED BY <1>6, <1>7, <1>8, <2>1
<1> QED BY <1>6, <1>7, <1>8

\* A place is a position, and who is ahead has no later one.
LEMMA PlacesAre ==
  ASSUME NEW r, IsField(r)
  PROVE  /\ \A p \in DOMAIN r : Place(r, p) \in Nat \ {0}
         /\ \A p, q \in DOMAIN r : Ahead(r, p, q) => Place(r, p) <= Place(r, q)
<1> DEFINE D == DOMAIN r
           Heads(p) == {o \in D : Position(r, o) <= Position(r, p) /\
                                  \A m \in D : Position(r, m) \in Position(r, o)..Position(r, p) => r[m].end = r[p].end}
           S(p) == {Position(r, q) : q \in Heads(p)}
<1>1. /\ \A p \in D : Position(r, p) \in Nat \ {0}
      /\ \A p, q \in D : Ahead(r, p, q) => Position(r, p) < Position(r, q)
      /\ \A p, q \in D : Position(r, p) = Position(r, q) => p = q
  BY PositionsAre
<1>2. ASSUME NEW p \in D
      PROVE  /\ Place(r, p) \in Nat \ {0} /\ \E o \in Heads(p) : Place(r, p) = Position(r, o)
             /\ \A o \in Heads(p) : Place(r, p) <= Position(r, o)
             /\ p \in Heads(p)
  <2>1. p \in Heads(p)
    <3>1. ASSUME NEW m \in D, Position(r, m) \in Position(r, p)..Position(r, p) PROVE r[m].end = r[p].end
      <4>1. Position(r, m) = Position(r, p)
        BY <1>1, <3>1
      <4>2. m = p
        BY <1>1, <4>1
      <4> QED BY <4>2
    <3>2. Position(r, p) <= Position(r, p)
      BY <1>1
    <3> QED BY <3>1, <3>2
  <2>2. Heads(p) \subseteq D
    OBVIOUS
  <2>3. Place(r, p) = Min(S(p))
    BY DEF Place
  <2> HIDE DEF Heads
  <2>4. S(p) \subseteq Nat /\ Position(r, p) \in S(p) /\ 0 \notin S(p)
    BY <1>1, <2>1, <2>2
  <2>5. Least(S(p), 0) = Min(S(p)) /\ S(p) # {}
    BY <2>4 DEF Least
  <2>6. \A x \in S(p) : \E o \in Heads(p) : x = Position(r, o)
    OBVIOUS
  <2>7. \A o \in Heads(p) : Position(r, o) \in S(p)
    OBVIOUS
  <2>8. 0 \in Nat
    OBVIOUS
  <2> HIDE DEF S
  <2>9. Least(S(p), 0) \in S(p) /\ \A y \in S(p) : Least(S(p), 0) <= y
    BY <2>4, <2>5, <2>8, LeastIs
  <2> QED BY <2>1, <2>3, <2>4, <2>5, <2>6, <2>7, <2>9
<1>3. ASSUME NEW p \in D, NEW q \in D, Ahead(r, p, q) PROVE Place(r, p) <= Place(r, q)
  <2>1. PICK o \in Heads(q) : Place(r, q) = Position(r, o)
    BY <1>2
  <2>2. /\ o \in D /\ Position(r, o) <= Position(r, q)
        /\ \A m \in D : Position(r, m) \in Position(r, o)..Position(r, q) => r[m].end = r[q].end
    OBVIOUS
  <2>3. /\ Position(r, p) \in Nat /\ Position(r, q) \in Nat /\ Position(r, o) \in Nat /\ Position(r, p) < Position(r, q)
        /\ Place(r, p) \in Nat
    BY <1>1, <1>2, <1>3, <2>2
  <2>4. CASE Position(r, o) <= Position(r, p)
    <3>1. Position(r, p) \in Position(r, o)..Position(r, q)
      BY <2>3, <2>4
    <3>2. r[p].end = r[q].end
      BY <2>2, <3>1
    <3>3. ASSUME NEW m \in D, Position(r, m) \in Position(r, o)..Position(r, p) PROVE r[m].end = r[p].end
      <4>1. Position(r, m) \in Position(r, o)..Position(r, q)
        BY <2>3, <3>3
      <4> QED BY <2>2, <3>2, <4>1
    <3>4. o \in Heads(p)
      BY <2>2, <2>4, <3>3
    <3> HIDE DEF Heads
    <3> QED BY <1>2, <2>1, <3>4
  <2>5. CASE ~(Position(r, o) <= Position(r, p))
    <3>1. Place(r, p) <= Position(r, p)
      <4> HIDE DEF Heads
      <4> QED BY <1>2
    <3> QED BY <2>1, <2>3, <2>5, <3>1
  <2> QED BY <2>4, <2>5
<1>4. \A p \in D : Place(r, p) \in Nat \ {0}
  <2> HIDE DEF Heads
  <2> QED BY <1>2
<1> QED BY <1>3, <1>4

-----------------------------------------------------------------------------
(* The points of a pilot are within their share, and no less for who did   *)
(* no worse.                                                               *)

LEMMA MilleIs == Mille \in Nat /\ Mille > 0
BY DEF Mille

\* Twice a quotient grows: a product with a share, divided
LEMMA QuotientGrows ==
  ASSUME NEW c \in Nat, NEW x \in Int, NEW y \in Int, x <= y, NEW d \in Nat, d > 0
  PROVE  (c * x) \div d \in Int /\ (c * y) \div d \in Int /\ (c * x) \div d <= (c * y) \div d
<1> DEFINE a == c * x
           b == c * y
<1>1. a \in Int /\ b \in Int /\ a <= b
  BY ProductGrows
<1> HIDE DEF a, b
<1>2. a \div d \in Int /\ b \div d \in Int /\ a \div d <= b \div d
  BY <1>1, DivIs, DivGrows, Zenon
<1> QED BY <1>2 DEF a, b

\* The share of a whole, in thousandths
LEMMA ShareWithin ==
  ASSUME NEW n \in Nat, n > 0, NEW k \in 0..n
  PROVE  (1000 * k) \div n \in 0..1000
<1> DEFINE a == 1000 * k
<1>1. a \in Nat /\ a <= Mille * n
  BY DEF Mille
<1> HIDE DEF a
<1>2. a \div n \in 0..Mille
  BY <1>1, MilleIs, DivWithin, Zenon
<1> QED BY <1>2 DEF a, Mille

LEMMA SharesGrow ==
  ASSUME NEW n \in Nat, n > 0, NEW k \in 0..n, NEW l \in 0..n, k <= l
  PROVE  /\ (Mille * k) \div n \in 0..Mille /\ (Mille * l) \div n \in 0..Mille
         /\ (Mille * k) \div n <= (Mille * l) \div n
<1>1. (Mille * k) \div n \in 0..Mille /\ (Mille * l) \div n \in 0..Mille
  BY ShareWithin DEF Mille
<1> DEFINE a == Mille * k
           b == Mille * l
<1>2. a \in Int /\ b \in Int /\ a <= b
  BY DEF Mille
<1> HIDE DEF a, b
<1>3. a \div n <= b \div n
  BY <1>2, DivGrows, Zenon
<1> QED BY <1>1, <1>3 DEF a, b

LEMMA DifficultyGrows ==
  ASSUME NEW f, IsFormula(f), NEW r, IsField(r), NEW t, IsTotals(f, r, t), NEW c \in Nat, NEW d \in Nat, c <= d
  PROVE  /\ Difficulty(f, t, r, c) \in 0..Mille /\ Difficulty(f, t, r, d) \in 0..Mille
         /\ Difficulty(f, t, r, c) <= Difficulty(f, t, r, d)
<1> DEFINE H(x) == {q \in t.spread : Most({0, r[q].dist - t.lookahead}, 0) <= x}
           N == IF f.diffcalc = "lo" /\ t.spread # {} THEN Count(t.spread) ELSE Most({t.launched, 1}, 1)
<1>1. /\ t.spread \subseteq DOMAIN r /\ IsFiniteSet(t.spread) /\ Count(t.spread) \in Nat /\ Count(t.spread) <= t.launched
      /\ t.lookahead \in Nat /\ t.launched \in Nat
  BY DEF IsTotals
<1>2. \A q \in t.spread : Most({0, r[q].dist - t.lookahead}, 0) \in Int
  <2> TAKE q \in t.spread
  <2>1. 0 \in Int /\ r[q].dist - t.lookahead \in Int
    BY <1>1 DEF IsField, IsPilot
  <2> QED BY <2>1, MostOfTwo
<1>3. H(c) \subseteq H(d) /\ H(d) \subseteq t.spread
  BY <1>2
<1>4. Difficulty(f, t, r, c) = (Mille * Count(H(c))) \div N /\ Difficulty(f, t, r, d) = (Mille * Count(H(d))) \div N
  BY DEF Difficulty, Mille
<1> HIDE DEF H
<1>5. Count(H(c)) \in Nat /\ Count(H(d)) \in Nat /\ Count(H(c)) <= Count(H(d)) /\ Count(H(d)) <= Count(t.spread)
  BY <1>1, <1>3, FS_Subset, FS_CardinalityType DEF Count
<1>6. N \in Nat /\ N > 0 /\ Count(t.spread) <= N
  <2>1. t.spread # {} => Count(t.spread) # 0
    BY <1>1, FS_EmptySet DEF Count
  <2>2. Most({t.launched, 1}, 1) = IF t.launched <= 1 THEN 1 ELSE t.launched
    <3>1. Max({t.launched, 1}) = Most({t.launched, 1}, 0) /\ Max({t.launched, 1}) = Most({t.launched, 1}, 1)
      BY DEF Most
    <3>2. t.launched \in Int /\ 1 \in Int
      BY <1>1
    <3>3. Most({t.launched, 1}, 0) = IF t.launched <= 1 THEN 1 ELSE t.launched
      BY <3>2, MostOfTwo
    <3> QED BY <3>1, <3>3
  <2> QED BY <1>1, <2>1, <2>2
<1> DEFINE k == Count(H(c))
           l == Count(H(d))
<1>7. k \in 0..N /\ l \in 0..N /\ k <= l
  <2> HIDE DEF N
  <2> QED BY <1>1, <1>5, <1>6
<1> HIDE DEF k, l, N
<1>8. /\ (Mille * k) \div N \in 0..Mille /\ (Mille * l) \div N \in 0..Mille
      /\ (Mille * k) \div N <= (Mille * l) \div N
  BY <1>6, <1>7, SharesGrow, Zenon
<1> QED BY <1>4, <1>8 DEF k, l

LEMMA DistancePointsGrow ==
  ASSUME NEW f, IsFormula(f), NEW r, IsField(r), NEW t, IsTotals(f, r, t), NEW A \in Nat,
         NEW p \in Active(r), NEW q \in Active(r), r[q].dist <= r[p].dist
  PROVE  DistancePoints(f, t, r, p, A) \in 0..A /\ DistancePoints(f, t, r, q, A) <= DistancePoints(f, t, r, p, A)
<1> DEFINE c == r[q].dist
           d == r[p].dist
           m == t.maxdist
           C == (Mille * c) \div m + Difficulty(f, t, r, c)
           D == (Mille * d) \div m + Difficulty(f, t, r, d)
<1>1. c \in Nat /\ d \in Nat /\ c <= d /\ m \in Nat /\ m > 0 /\ d <= m
  BY DEF IsField, IsPilot, Active, IsTotals
<1>2. DistancePoints(f, t, r, p, A) = (A * D) \div 2000 /\ DistancePoints(f, t, r, q, A) = (A * C) \div 2000
  BY DEF DistancePoints, Mille
<1> HIDE DEF c, d, m
<1>3. /\ Difficulty(f, t, r, c) \in 0..Mille /\ Difficulty(f, t, r, d) \in 0..Mille
      /\ Difficulty(f, t, r, c) <= Difficulty(f, t, r, d)
  BY <1>1, DifficultyGrows, Zenon
<1>4. c \in 0..m /\ d \in 0..m
  BY <1>1
<1>5. /\ (Mille * c) \div m \in 0..Mille /\ (Mille * d) \div m \in 0..Mille
      /\ (Mille * c) \div m <= (Mille * d) \div m
  BY <1>1, <1>4, SharesGrow, Zenon
<1>6. C \in 0..2000 /\ D \in 0..2000 /\ C <= D
  <2> DEFINE u == (Mille * c) \div m
             v == (Mille * d) \div m
             w == Difficulty(f, t, r, c)
             z == Difficulty(f, t, r, d)
  <2>1. u \in 0..Mille /\ v \in 0..Mille /\ u <= v /\ w \in 0..Mille /\ z \in 0..Mille /\ w <= z
    BY <1>3, <1>5
  <2> HIDE DEF u, v, w, z
  <2>2. Mille = 1000 /\ u \in Int /\ v \in Int /\ w \in Int /\ z \in Int
    BY <2>1 DEF Mille
  <2>3. C = u + w /\ D = v + z
    BY DEF u, v, w, z
  <2> HIDE DEF C, D
  <2>4. u + w \in 0..2000
    BY <2>1, <2>2
  <2>5. v + z \in 0..2000
    BY <2>1, <2>2
  <2>6. u + w <= v + z
    BY <2>1, <2>2
  <2> QED BY <2>3, <2>4, <2>5, <2>6
<1> HIDE DEF C, D
<1> DEFINE h == 2000
           a == A * C
           b == A * D
<1>7. h \in Nat /\ h > 0
  OBVIOUS
<1>8. a \in Nat /\ b \in Nat /\ a <= b /\ b <= A * h
  <2>1. C \in Int /\ D \in Int /\ 2000 \in Int /\ D <= 2000 /\ C \in Nat /\ D \in Nat
    BY <1>6
  <2>2. A * C <= A * D /\ A * D <= A * 2000
    BY <1>6, <2>1, ProductGrows
  <2> QED BY <2>1, <2>2
<1> HIDE DEF a, b, h
<1>9. b \div h \in 0..A /\ a \div h <= b \div h
  <2>1. a \in Int /\ b \in Int
    BY <1>8
  <2> QED BY <1>7, <1>8, <2>1, DivWithin, DivGrows, Zenon
<1> QED BY <1>2, <1>9 DEF a, b, h

NoWorse(x, y) == y <= 0 \/ (x > 0 /\ x <= y)

\* What falls from all of A at F to none at twice F
Falling(A, F, x) == (A * (1000 - (1000 * (x - F)) \div F)) \div 1000

LEMMA FallingIs ==
  ASSUME NEW A \in Int, NEW F \in Nat, F > 0, NEW x \in Int
  PROVE  Falling(A, F, x) \in Int
<1> DEFINE a == 1000 * (x - F)
<1>1. a \in Int
  OBVIOUS
<1> HIDE DEF a
<1>2. a \div F \in Int
  BY <1>1, DivIs, Zenon
<1> DEFINE c == A * (1000 - a \div F)
<1>3. c \in Int
  BY <1>2
<1> HIDE DEF c
<1>4. c \div Mille \in Int
  BY <1>3, MilleIs, DivIs, Zenon
<1> QED BY <1>4 DEF Falling, c, a, Mille

LEMMA FallingFalls ==
  ASSUME NEW A \in Nat, NEW F \in Nat, F > 0, NEW x \in Int, NEW y \in Int, x <= y
  PROVE  Falling(A, F, y) <= Falling(A, F, x)
<1> DEFINE a == 1000 * (x - F)
           b == 1000 * (y - F)
<1>1. a \in Int /\ b \in Int /\ a <= b
  OBVIOUS
<1> HIDE DEF a, b
<1>2. a \div F \in Int /\ b \div F \in Int /\ a \div F <= b \div F
  BY <1>1, DivIs, DivGrows, Zenon
<1> DEFINE c == 1000 - a \div F
           d == 1000 - b \div F
<1>3. c \in Int /\ d \in Int /\ d <= c
  BY <1>2
<1>4. Falling(A, F, x) = (A * c) \div Mille /\ Falling(A, F, y) = (A * d) \div Mille
  BY DEF Falling, Mille, a, b
<1> HIDE DEF c, d
<1>5. (A * d) \div Mille <= (A * c) \div Mille
  BY <1>3, MilleIs, QuotientGrows, Zenon
<1> QED BY <1>4, <1>5

LEMMA SpeedPointsAre ==
  ASSUME NEW f, IsFormula(f), NEW r, IsField(r), NEW t, IsTotals(f, r, t), NEW A \in Int, NEW p \in Active(r)
  PROVE  SpeedPoints(t, r[p], A) \in Int
<1>1. /\ t.fastest \in Nat /\ r[p].time \in Nat
      /\ r[p].time > 0 => t.fastest > 0
  BY DEF IsField, IsPilot, Active, IsTotals, Timed
<1>2. SpeedPoints(t, r[p], A) = IF r[p].time <= 0 THEN 0 ELSE Bound(Falling(A, t.fastest, r[p].time), 0, A)
  BY DEF SpeedPoints, Falling
<1>3. ASSUME r[p].time > 0 PROVE Falling(A, t.fastest, r[p].time) \in Int
  <2>1. r[p].time \in Int /\ t.fastest \in Nat /\ t.fastest > 0
    BY <1>1, <1>3
  <2> QED BY <2>1, FallingIs
<1> DEFINE y == Falling(A, t.fastest, r[p].time)
<1>4. r[p].time > 0 => y \in Int
  BY <1>3
<1>5. SpeedPoints(t, r[p], A) = IF r[p].time <= 0 THEN 0 ELSE Bound(y, 0, A)
  BY <1>2
<1> HIDE DEF y
<1> QED BY <1>1, <1>4, <1>5 DEF Bound

LEMMA SpeedPointsGrow ==
  ASSUME NEW f, IsFormula(f), NEW r, IsField(r), NEW t, IsTotals(f, r, t), NEW A \in Nat,
         NEW p \in Active(r), NEW q \in Active(r)
  PROVE  /\ SpeedPoints(t, r[p], A) \in 0..A
         /\ NoWorse(r[p].time, r[q].time) => SpeedPoints(t, r[q], A) <= SpeedPoints(t, r[p], A)
<1> DEFINE F == t.fastest
           S(x) == Falling(A, F, x)
<1>1. /\ F \in Nat /\ r[p].time \in Nat /\ r[q].time \in Nat
      /\ r[p].time > 0 => F > 0
      /\ r[q].time > 0 => F > 0
  BY DEF IsField, IsPilot, Active, IsTotals, Timed
<1>2. \A x : SpeedPoints(t, x, A) = IF x.time <= 0 THEN 0 ELSE Bound(S(x.time), 0, A)
  BY DEF SpeedPoints, Falling
<1> HIDE DEF F
<1>3. ASSUME NEW x \in Nat, NEW y \in Nat, x <= y, F > 0
      PROVE  S(x) \in Int /\ S(y) \in Int /\ S(y) <= S(x)
  <2>1. x \in Int /\ y \in Int /\ A \in Int
    OBVIOUS
  <2> QED BY <1>1, <1>3, <2>1, FallingIs, FallingFalls
<1> HIDE DEF S
<1>4. SpeedPoints(t, r[p], A) \in 0..A
  <2>1. CASE r[p].time <= 0
    BY <1>2, <2>1
  <2>2. CASE ~(r[p].time <= 0)
    <3>1. S(r[p].time) \in Int
      BY <1>1, <1>3, <2>2
    <3>2. Bound(S(r[p].time), 0, A) \in 0..A
      BY <3>1, BoundIs
    <3> QED BY <1>2, <2>2, <3>2
  <2> QED BY <2>1, <2>2
<1>5. ASSUME NoWorse(r[p].time, r[q].time) PROVE SpeedPoints(t, r[q], A) <= SpeedPoints(t, r[p], A)
  <2>1. CASE r[q].time <= 0
    BY <1>2, <1>4, <2>1
  <2>2. CASE ~(r[q].time <= 0)
    <3>1. r[p].time > 0 /\ r[p].time <= r[q].time
      BY <1>5, <2>2 DEF NoWorse
    <3>2. S(r[p].time) \in Int /\ S(r[q].time) \in Int /\ S(r[q].time) <= S(r[p].time)
      BY <1>1, <1>3, <3>1
    <3>3. Bound(S(r[q].time), 0, A) <= Bound(S(r[p].time), 0, A)
      BY <3>2, BoundGrows
    <3> QED BY <1>1, <1>2, <2>2, <3>1, <3>3
  <2> QED BY <2>1, <2>2
<1> QED BY <1>4, <1>5

\* What is left of the points of a pilot who reached the end of speed section only
LEMMA KeptGrows ==
  ASSUME NEW A \in Nat, NEW x \in 0..A, NEW y \in 0..A, x <= y, NEW s \in 0..100
  PROVE  /\ x - (x * s) \div 100 \in 0..A /\ y - (y * s) \div 100 \in 0..A
         /\ x - (x * s) \div 100 <= y - (y * s) \div 100
         /\ x - (x * s) \div 100 <= x /\ y - (y * s) \div 100 <= y
<1> DEFINE h == 100
           a == x * s
           b == y * s
           u == a \div h
           v == b \div h
<1>1. a \in Nat /\ b \in Nat /\ a <= x * h /\ b <= y * h /\ b - a <= (y - x) * h
  <2>1. x \in Nat /\ y \in Nat /\ y - x \in Nat /\ s <= 100 /\ s \in Nat
    OBVIOUS
  <2>2. x * s <= x * 100 /\ y * s <= y * 100 /\ (y - x) * s <= (y - x) * 100
    BY <2>1, ProductGrows
  <2>3. b - a = (y - x) * s
    BY <2>1
  <2>4. a \in Nat /\ b \in Nat
    BY <2>1
  <2> QED BY <2>2, <2>3, <2>4
<1>2. h \in Nat /\ h > 0 /\ x \in Nat /\ y \in Nat
  OBVIOUS
<1> HIDE DEF a, b, h
<1>3. u \in 0..x /\ v \in 0..y
  BY <1>1, <1>2, DivWithin, Zenon
<1>4. h * u <= a /\ a < h * u + h /\ h * v <= b /\ b < h * v + h
  <2>1. a \in Int /\ b \in Int
    BY <1>1
  <2> QED BY <1>2, <2>1, DivIs, Zenon
<1> HIDE DEF u, v
<1>5. v - u <= y - x
  BY <1>1, <1>2, <1>3, <1>4 DEF h
<1>6. x - u \in 0..A /\ y - v \in 0..A /\ x - u <= y - v /\ x - u <= x /\ y - v <= y
  BY <1>3, <1>5
<1> QED BY <1>6 DEF u, v, a, b, h

-----------------------------------------------------------------------------
(* Arrival and departure.                                                  *)

LEMMA SquareIs == ASSUME NEW x \in Int PROVE x * x \in Nat
<1>1. CASE x >= 0
  <2>1. x \in Nat
    BY <1>1
  <2> QED BY <2>1
<1>2. CASE ~(x >= 0)
  <2>1. -x \in Nat /\ x * x = (-x) * (-x)
    BY <1>2
  <2>2. (-x) * (-x) \in Nat
    BY <2>1
  <2> QED BY <2>1, <2>2
<1> QED BY <1>1, <1>2

LEMMA CubeIs == ASSUME NEW d \in Nat, d > 0 PROVE d * d * d \in Nat /\ d * d * d > 0
<1>1. d * d \in Nat /\ d * d > 0
  OBVIOUS
<1>2. (d * d) * d \in Nat /\ (d * d) * d > 0
  BY <1>1
<1> QED BY <1>2

\* The curve of the arrival points rises everywhere: the difference of two of
\* its values is that of their arguments times a sum of squares.
LEMMA ArrivalRises ==
  ASSUME NEW d \in Nat, d > 0, NEW n \in Int, NEW m \in Int, n <= m
  PROVE  ArrivalCurve(n, d) \in Int /\ ArrivalCurve(m, d) \in Int /\ ArrivalCurve(n, d) <= ArrivalCurve(m, d)
<1> DEFINE N == 200 * d * d * d + 37 * n * d * d + 130 * n * n * d + 633 * n * n * n
           M == 200 * d * d * d + 37 * m * d * d + 130 * m * m * d + 633 * m * m * m
           G == 37 * d * d + 130 * d * (m + n) + 633 * (m * m + m * n + n * n)
           a == 65 * (m + n) + 36 * d
           c == d * d * d
<1>1. M - N = (m - n) * G
  OBVIOUS
<1>2. 36 * G = a * a + 36 * (d * d) + 12866 * ((m + n) * (m + n)) + 5697 * ((m - n) * (m - n))
  OBVIOUS
<1>3. G >= 0 /\ G \in Int
  <2>1. a \in Int /\ m + n \in Int /\ m - n \in Int /\ d \in Int /\ G \in Int
    OBVIOUS
  <2>2. a * a \in Nat /\ d * d \in Nat /\ (m + n) * (m + n) \in Nat /\ (m - n) * (m - n) \in Nat
    BY <2>1, SquareIs
  <2> DEFINE u == a * a
             v == d * d
             w == (m + n) * (m + n)
             z == (m - n) * (m - n)
  <2>3. 36 * G = u + 36 * v + 12866 * w + 5697 * z /\ u \in Nat /\ v \in Nat /\ w \in Nat /\ z \in Nat
    BY <1>2, <2>2
  <2> HIDE DEF G, u, v, w, z
  <2> QED BY <2>1, <2>3
<1>4. N \in Int /\ M \in Int
  OBVIOUS
<1>5. N <= M
  <2>1. G \in Nat /\ m - n \in Nat
    BY <1>3
  <2> HIDE DEF G
  <2>2. (m - n) * G \in Nat
    BY <2>1
  <2> HIDE DEF M, N
  <2> QED BY <1>1, <1>4, <2>2
<1>6. c \in Nat /\ c > 0
  BY CubeIs
<1>7. ArrivalCurve(n, d) = N \div c /\ ArrivalCurve(m, d) = M \div c
  BY DEF ArrivalCurve
<1> HIDE DEF N, M, c
<1>8. N \div c \in Int /\ M \div c \in Int /\ N \div c <= M \div c
  BY <1>4, <1>5, <1>6, DivIs, DivGrows, Zenon
<1> QED BY <1>7, <1>8

\* The argument of the curve for a pilot, and its parameter
ArrivalAt(f, t, x, place) == IF f.arrival = "timed" THEN 6 - (x.end - t.firstarrival) ELSE t.ess - place + 1
ArrivalOf(f, t) == IF f.arrival = "timed" THEN 6 ELSE t.ess

LEMMA ArrivalPointsGrow ==
  ASSUME NEW f, IsFormula(f), NEW r, IsField(r), NEW t, IsTotals(f, r, t), NEW A \in Nat,
         NEW p \in Active(r), NEW q \in Active(r), NEW i \in Nat, NEW j \in Nat
  PROVE  /\ ArrivalPoints(f, t, r[p], i, A) \in 0..A
         /\ A = 0 \/ f.arrival = "timed" \/ i <= j =>
              (NoWorse(r[p].time, r[q].time) /\ NoWorse(r[p].end, r[q].end) =>
                 ArrivalPoints(f, t, r[q], j, A) <= ArrivalPoints(f, t, r[p], i, A))
<1> DEFINE P == r[p].time
           Q == r[q].time
           n == ArrivalAt(f, t, r[p], i)
           m == ArrivalAt(f, t, r[q], j)
           d == ArrivalOf(f, t)
           S(k) == (A * ArrivalCurve(k, d)) \div 1000
<1>1. /\ P \in Nat /\ Q \in Nat /\ r[p].end \in Nat /\ r[q].end \in Nat /\ t.firstarrival \in Nat /\ t.ess \in Nat
      /\ P > 0 => t.ess > 0
      /\ Q > 0 => t.ess > 0 /\ r[q].end > 0
  BY DEF IsField, IsPilot, Active, IsTotals, Timed
<1>2. n \in Int /\ m \in Int /\ d \in Nat /\ (P > 0 \/ Q > 0 => d > 0)
  BY <1>1 DEF ArrivalAt, ArrivalOf
<1>3. /\ ArrivalPoints(f, t, r[p], i, A) = IF P <= 0 THEN 0 ELSE Bound(S(n), 0, A)
      /\ ArrivalPoints(f, t, r[q], j, A) = IF Q <= 0 THEN 0 ELSE Bound(S(m), 0, A)
  <2>1. P > 0 <=> ~(P <= 0)
    BY <1>1
  <2>2. Q > 0 <=> ~(Q <= 0)
    BY <1>1
  <2> QED BY <2>1, <2>2 DEF ArrivalPoints, ArrivalAt, ArrivalOf
<1>4. ASSUME NEW k \in Int, NEW l \in Int, k <= l, d > 0 PROVE S(k) \in Int /\ S(l) \in Int /\ S(k) <= S(l)
  <2> DEFINE x == ArrivalCurve(k, d)
             y == ArrivalCurve(l, d)
  <2>1. x \in Int /\ y \in Int /\ x <= y
    BY <1>2, <1>4, ArrivalRises, Zenon
  <2>2. S(k) = (A * x) \div Mille /\ S(l) = (A * y) \div Mille
    BY DEF Mille
  <2> HIDE DEF x, y, S
  <2>3. (A * x) \div Mille \in Int /\ (A * y) \div Mille \in Int /\ (A * x) \div Mille <= (A * y) \div Mille
    BY <2>1, MilleIs, QuotientGrows, Zenon
  <2> QED BY <2>2, <2>3
<1>5. ArrivalPoints(f, t, r[p], i, A) \in 0..A /\ ArrivalPoints(f, t, r[q], j, A) \in 0..A
  <2>1. P > 0 => S(n) \in Int
    <3>1. n <= n
      BY <1>2
    <3> HIDE DEF n, d, S
    <3> QED BY <1>2, <1>4, <3>1
  <2>2. Q > 0 => S(m) \in Int
    <3>1. m <= m
      BY <1>2
    <3> HIDE DEF m, d, S
    <3> QED BY <1>2, <1>4, <3>1
  <2> HIDE DEF n, m, S, P, Q
  <2>3. P > 0 => Bound(S(n), 0, A) \in 0..A
    BY <2>1, BoundIs
  <2>4. Q > 0 => Bound(S(m), 0, A) \in 0..A
    BY <2>2, BoundIs
  <2> QED BY <1>1, <1>3, <2>3, <2>4
<1>6. ASSUME A = 0 \/ f.arrival = "timed" \/ i <= j, NoWorse(P, Q), NoWorse(r[p].end, r[q].end)
      PROVE  ArrivalPoints(f, t, r[q], j, A) <= ArrivalPoints(f, t, r[p], i, A)
  <2>1. CASE A = 0
    BY <1>5, <2>1
  <2>2. CASE Q <= 0
    BY <1>3, <1>5, <2>2
  <2>3. CASE A # 0 /\ ~(Q <= 0)
    <3>1. P > 0 /\ Q > 0 /\ r[p].end <= r[q].end
      BY <1>1, <1>6, <2>3 DEF NoWorse
    <3>2. m <= n
      BY <1>1, <1>6, <2>3, <3>1 DEF ArrivalAt
    <3>3. S(m) \in Int /\ S(n) \in Int /\ S(m) <= S(n)
      <4> HIDE DEF n, m, d, S
      <4> QED BY <1>2, <1>4, <3>1, <3>2
    <3> HIDE DEF n, m, S
    <3>4. Bound(S(m), 0, A) <= Bound(S(n), 0, A)
      BY <3>3, BoundGrows
    <3> QED BY <1>1, <1>3, <3>1, <3>4
  <2> QED BY <2>1, <2>2, <2>3
<1> QED BY <1>5, <1>6

\* The curve of the departure points falls up to a third of the nominal time.
DepartureCurve(n, d) == 1000 * d * d * d - 6312 * n * d * d + 10932 * n * n * d - 2990 * n * n * n

LEMMA DepartureFalls ==
  ASSUME NEW d \in Nat, d > 0, NEW n \in Int, NEW m \in Int, n <= m, 3 * m <= d
  PROVE  DepartureCurve(m, d) \in Int /\ DepartureCurve(n, d) \in Int /\ DepartureCurve(m, d) <= DepartureCurve(n, d)
<1> DEFINE G == 6312 * d * d - 10932 * d * (m + n) + 2990 * (m * m + m * n + n * n)
           u == 2 * d - 3 * (m + n)
<1>1. DepartureCurve(n, d) - DepartureCurve(m, d) = (m - n) * G
  BY DEF DepartureCurve
<1>2. 36 * G = 744 * (d * d) + 95304 * (d * u) + 8970 * (u * u) + 26910 * ((m - n) * (m - n))
  OBVIOUS
<1>3. G \in Nat
  <2>1. u \in Nat /\ m - n \in Int /\ G \in Int
    OBVIOUS
  <2>2. d * d \in Nat /\ d * u \in Nat /\ u * u \in Nat /\ (m - n) * (m - n) \in Nat
    BY <2>1, SquareIs
  <2> DEFINE v == d * d
             w == d * u
             z == u * u
             y == (m - n) * (m - n)
  <2>3. 36 * G = 744 * v + 95304 * w + 8970 * z + 26910 * y /\ v \in Nat /\ w \in Nat /\ z \in Nat /\ y \in Nat
    BY <1>2, <2>2
  <2> HIDE DEF G, v, w, z, y
  <2> QED BY <2>1, <2>3
<1>4. DepartureCurve(n, d) \in Int /\ DepartureCurve(m, d) \in Int
  BY DEF DepartureCurve
<1>5. m - n \in Nat
  OBVIOUS
<1> HIDE DEF G
<1>6. (m - n) * G \in Nat
  BY <1>3, <1>5
<1> QED BY <1>1, <1>4, <1>6

\* The factor of the departure points: how much of the time points, of which n
DepartureFactor(n, d) == DepartureCurve(n, d) \div (d * d * d)

LEMMA FactorFalls ==
  ASSUME NEW d \in Nat, d > 0, NEW n \in Int
  PROVE  DepartureFactor(n, d) \in Int /\ \A m \in Int : n <= m /\ 3 * m <= d => DepartureFactor(m, d) <= DepartureFactor(n, d)
<1> DEFINE c == d * d * d
           N == DepartureCurve(n, d)
<1>1. c \in Nat /\ c > 0
  BY CubeIs
<1>2. N \in Int
  BY DEF DepartureCurve
<1>3. DepartureFactor(n, d) = N \div c
  BY Zenon DEF DepartureFactor
<1>4. ASSUME NEW m \in Int, n <= m, 3 * m <= d PROVE DepartureFactor(m, d) <= DepartureFactor(n, d)
  <2> DEFINE M == DepartureCurve(m, d)
  <2>1. M \in Int /\ M <= N
    BY <1>4, DepartureFalls
  <2>2. DepartureFactor(m, d) = M \div c
    BY Zenon DEF DepartureFactor
  <2> HIDE DEF M, N, c
  <2>3. M \div c <= N \div c
    BY <1>1, <1>2, <2>1, DivGrows, Zenon
  <2> QED BY <1>3, <2>2, <2>3
<1> HIDE DEF N, c
<1>5. N \div c \in Int
  BY <1>1, <1>2, DivIs, Zenon
<1> QED BY <1>3, <1>4, <1>5

\* Points for the departure before the field
Early(s, A, B, v) == (((s * A) \div Most({B, 1}, 1)) * v) \div 1000

LEMMA AtLeastOne == ASSUME NEW B \in Int PROVE Most({B, 1}, 1) \in Nat /\ Most({B, 1}, 1) > 0
<1>1. Most({B, 1}, 1) = Most({B, 1}, 0)
  BY DEF Most
<1>2. 1 \in Int
  OBVIOUS
<1>3. Most({B, 1}, 0) = IF B <= 1 THEN 1 ELSE B
  BY <1>2, MostOfTwo
<1> QED BY <1>1, <1>3

LEMMA EarlyIs ==
  ASSUME NEW s \in Int, NEW A \in Int, NEW B \in Int, NEW v \in Int
  PROVE  Early(s, A, B, v) \in Int
<1> DEFINE M == Most({B, 1}, 1)
           a == s * A
           e == a \div M
           b == e * v
<1>1. M \in Nat /\ M > 0 /\ a \in Int
  BY AtLeastOne
<1> HIDE DEF M, a
<1>2. e \in Int
  BY <1>1, DivIs, Zenon
<1> HIDE DEF e
<1>3. b \in Int
  BY <1>2
<1> HIDE DEF b
<1>4. b \div Mille \in Int
  BY <1>3, MilleIs, DivIs, Zenon
<1> QED BY <1>4 DEF Early, b, e, a, M, Mille

LEMMA EarlyGrows ==
  ASSUME NEW s \in Nat, NEW z \in Nat, z <= s, NEW A \in Nat, NEW B \in Int, NEW v \in Int, NEW w \in Int, w <= v
  PROVE  Early(z, A, B, w) <= 0 \/ Early(z, A, B, w) <= Early(s, A, B, v)
<1> DEFINE M == Most({B, 1}, 1)
           a == A * z
           b == A * s
           c == a \div M
           e == b \div M
<1>1. M \in Nat /\ M > 0
  BY AtLeastOne
<1>2. a \in Nat /\ b \in Nat /\ a <= b /\ a \in Int /\ b \in Int
  BY ProductGrows
<1> HIDE DEF a, b, M
<1>3. c \in Nat /\ e \in Nat /\ c <= e
  BY <1>1, <1>2, DivIsNat, DivGrows, Zenon
<1> HIDE DEF c, e
<1> DEFINE x == c * w
           y == e * v
<1>4. x \in Int /\ y \in Int /\ (x <= 0 \/ x <= y)
  <2>1. CASE w <= 0
    <3>1. c * w <= c * 0
      BY <1>3, <2>1, ProductGrows
    <3> QED BY <1>3, <3>1
  <2>2. CASE w > 0
    <3>1. w \in Nat /\ e \in Nat /\ c \in Int /\ e \in Int
      BY <1>3, <2>2
    <3>2. w * c <= w * e /\ e * w <= e * v
      BY <1>3, <3>1, ProductGrows
    <3> QED BY <1>3, <3>1, <3>2
  <2> QED BY <2>1, <2>2
<1>5. Early(z, A, B, w) = x \div Mille /\ Early(s, A, B, v) = y \div Mille
  <2>1. z * A = A * z /\ s * A = A * s
    OBVIOUS
  <2> QED BY <2>1 DEF Early, x, y, c, e, a, b, M, Mille
<1> HIDE DEF x, y
<1>6. CASE x <= y
  <2>1. x \div Mille <= y \div Mille
    BY <1>4, <1>6, MilleIs, DivGrows, Zenon
  <2> QED BY <1>5, <2>1
<1>7. CASE x <= 0
  <2> DEFINE k == x \div Mille
  <2>1. k \in Int /\ Mille * k <= x
    BY <1>4, MilleIs, DivIs, Zenon
  <2> HIDE DEF k
  <2>2. Mille = 1000
    BY DEF Mille
  <2>3. k <= 0
    BY <1>4, <1>7, <2>1, <2>2
  <2> QED BY <1>5, <2>3 DEF k
<1> QED BY <1>4, <1>6, <1>7

\* The points for leading, and for an early start
Led(A, least, lead) ==
    IF lead <= 0 THEN 0 ELSE IF lead <= least THEN A ELSE IF least <= 0 THEN 0 ELSE Bound(Falling(A, least, lead), 0, A)

LEMMA LedIs ==
  ASSUME NEW A \in Nat, NEW c \in Int, NEW lead \in Int
  PROVE  Led(A, c, lead) \in 0..A
<1>1. c > 0 => Bound(Falling(A, c, lead), 0, A) \in 0..A
  <2>1. c > 0 => c \in Nat /\ A \in Int
    OBVIOUS
  <2>2. c > 0 => Falling(A, c, lead) \in Int
    BY <2>1, FallingIs
  <2> QED BY <2>2, BoundIs
<1> QED BY <1>1 DEF Led

LEMMA LedGrows ==
  ASSUME NEW A \in Nat, NEW c \in Int, NEW x \in Int, NEW y \in Int, NoWorse(x, y)
  PROVE  Led(A, c, y) <= Led(A, c, x)
<1>1. Led(A, c, x) \in 0..A /\ Led(A, c, y) \in 0..A
  BY LedIs
<1>2. CASE y <= 0
  BY <1>1, <1>2 DEF Led
<1>3. CASE ~(y <= 0) /\ (x <= c \/ c <= 0)
  <2>1. x > 0 /\ x <= y
    BY <1>3 DEF NoWorse
  <2> QED BY <1>1, <1>3, <2>1 DEF Led
<1>4. CASE ~(y <= 0) /\ ~(x <= c \/ c <= 0)
  <2>1. x > 0 /\ x <= y /\ c > 0 /\ c \in Nat /\ x > c /\ y > c /\ A \in Int
    BY <1>4 DEF NoWorse
  <2>2. Falling(A, c, x) \in Int /\ Falling(A, c, y) \in Int /\ Falling(A, c, y) <= Falling(A, c, x)
    BY <2>1, FallingIs, FallingFalls
  <2>3. Bound(Falling(A, c, y), 0, A) <= Bound(Falling(A, c, x), 0, A)
    BY <2>2, BoundGrows
  <2> QED BY <2>1, <2>3 DEF Led
<1> QED BY <1>2, <1>3, <1>4

LEMMA DepartureIs ==
  ASSUME NEW f, NEW t, NEW x, NEW lead, NEW c, NEW A, NEW B
  PROVE  DeparturePoints(f, t, x, lead, c, A, B) =
           IF f.departure = "off" THEN 0
           ELSE IF f.departure = "leadout" THEN Led(A, c, lead)
           ELSE IF 2 * (x.start - t.firstdepart) >= f.nomtime \/ x.time <= 0 THEN 0
           ELSE Most({0, Early(SpeedPoints(t, x, B), A, B, DepartureFactor(x.start - t.firstdepart, f.nomtime))}, 0)
BY DEF DeparturePoints, Led, Falling, Early, DepartureFactor, DepartureCurve

LEMMA DeparturePointsAre ==
  ASSUME NEW f, IsFormula(f), NEW r, IsField(r), NEW t, IsTotals(f, r, t), NEW A \in Nat, NEW B \in Int,
         NEW p \in Active(r), NEW lead \in Int, NEW c \in Int
  PROVE  /\ DeparturePoints(f, t, r[p], lead, c, A, B) \in Nat
         /\ f.departure # "departure" =>
              DeparturePoints(f, t, r[p], lead, c, A, B) \in 0..A
<1> DEFINE n == r[p].start - t.firstdepart
           e == Early(SpeedPoints(t, r[p], B), A, B, DepartureFactor(n, f.nomtime))
<1>1. n \in Int /\ f.nomtime \in Nat /\ f.nomtime > 0 /\ f.departure \in {"off", "leadout", "departure"}
  BY DEF IsFormula, IsField, IsPilot, Active, IsTotals
<1>2. Led(A, c, lead) \in 0..A
  BY LedIs
<1>3. Most({0, e}, 0) \in Nat
  <2>1. SpeedPoints(t, r[p], B) \in Int
    BY SpeedPointsAre
  <2> HIDE DEF n
  <2>2. DepartureFactor(n, f.nomtime) \in Int
    BY <1>1, FactorFalls
  <2>3. 0 \in Int /\ e \in Int
    BY <2>1, <2>2, EarlyIs
  <2> HIDE DEF e
  <2> QED BY <2>3, MostOfTwo
<1>4. DeparturePoints(f, t, r[p], lead, c, A, B) =
           IF f.departure = "off" THEN 0
           ELSE IF f.departure = "leadout" THEN Led(A, c, lead)
           ELSE IF 2 * n >= f.nomtime \/ r[p].time <= 0 THEN 0
           ELSE Most({0, e}, 0)
  BY DepartureIs
<1> HIDE DEF n, e
<1> QED BY <1>1, <1>2, <1>3, <1>4

LEMMA DeparturePointsGrow ==
  ASSUME NEW f, IsFormula(f), NEW r, IsField(r), NEW t, IsTotals(f, r, t), NEW A \in Nat, NEW B \in Nat,
         NEW p \in Active(r), NEW q \in Active(r), NEW c \in Int, NEW x \in Int, NEW y \in Int, NoWorse(x, y),
         NoWorse(r[p].time, r[q].time),
         f.departure = "departure" =>
            /\ r[p].start <= r[q].start
            /\ 3 * (r[q].start - t.firstdepart) <= f.nomtime \/ 2 * (r[q].start - t.firstdepart) >= f.nomtime
  PROVE  DeparturePoints(f, t, r[q], y, c, A, B) <= DeparturePoints(f, t, r[p], x, c, A, B)
<1> DEFINE n == r[p].start - t.firstdepart
           m == r[q].start - t.firstdepart
           d == f.nomtime
           v == DepartureFactor(n, d)
           w == DepartureFactor(m, d)
           s == SpeedPoints(t, r[p], B)
           z == SpeedPoints(t, r[q], B)
           P == DeparturePoints(f, t, r[p], x, c, A, B)
           Q == DeparturePoints(f, t, r[q], y, c, A, B)
<1>1. n \in Int /\ m \in Int /\ d \in Nat /\ d > 0 /\ r[p].time \in Nat /\ r[q].time \in Nat
  BY DEF IsFormula, IsField, IsPilot, Active, IsTotals
<1>2. f.departure = "departure" => n <= m /\ (3 * m <= d \/ 2 * m >= d)
  BY DEF IsFormula, IsField, IsPilot, Active, IsTotals
<1>3. /\ P = IF f.departure = "off" THEN 0
             ELSE IF f.departure = "leadout" THEN Led(A, c, x)
             ELSE IF 2 * n >= d \/ r[p].time <= 0 THEN 0
             ELSE Most({0, Early(s, A, B, v)}, 0)
      /\ Q = IF f.departure = "off" THEN 0
             ELSE IF f.departure = "leadout" THEN Led(A, c, y)
             ELSE IF 2 * m >= d \/ r[q].time <= 0 THEN 0
             ELSE Most({0, Early(z, A, B, w)}, 0)
  BY DepartureIs
<1>4. P \in Nat /\ B \in Int
  <2>1. B \in Int
    OBVIOUS
  <2> QED BY <2>1, DeparturePointsAre
<1> HIDE DEF P, Q, n, m, d
<1>5. CASE f.departure = "off"
  BY <1>3, <1>4, <1>5 DEF P, Q
<1>6. CASE f.departure = "leadout"
  <2>1. Led(A, c, y) <= Led(A, c, x)
    BY LedGrows
  <2> QED BY <1>3, <1>6, <2>1 DEF P, Q
<1>7. CASE f.departure = "departure" /\ (2 * m >= d \/ r[q].time <= 0)
  BY <1>3, <1>4, <1>7 DEF P, Q
<1>8. CASE f.departure = "departure" /\ ~(2 * m >= d \/ r[q].time <= 0)
  <2>1. n <= m /\ 3 * m <= d /\ r[p].time > 0 /\ ~(2 * n >= d)
    BY <1>1, <1>2, <1>8 DEF NoWorse
  <2>2. v \in Int /\ w \in Int /\ w <= v
    BY <1>1, <2>1, FactorFalls
  <2>3. s \in 0..B /\ z \in 0..B /\ z <= s
    BY SpeedPointsGrow
  <2>4. s \in Nat /\ z \in Nat /\ s \in Int /\ z \in Int /\ A \in Int /\ B \in Int
    BY <2>3
  <2> HIDE DEF s, z, v, w
  <2> DEFINE e == Early(s, A, B, v)
             g == Early(z, A, B, w)
  <2>5. g <= 0 \/ g <= e
    BY <2>2, <2>3, <2>4, EarlyGrows
  <2>6. 0 \in Int /\ e \in Int /\ g \in Int
    <3>1. e \in Int
      BY <2>2, <2>4, EarlyIs
    <3>2. g \in Int
      BY <2>2, <2>4, EarlyIs
    <3> QED BY <3>1, <3>2
  <2>7. P = Most({0, e}, 0) /\ Q = Most({0, g}, 0)
    BY <1>3, <1>8, <2>1, <1>1
  <2> HIDE DEF e, g
  <2>8. Q <= P
    BY <2>5, <2>6, <2>7, MostOfTwo
  <2> QED BY <2>8 DEF P, Q
<1>9. f.departure \in {"off", "leadout", "departure"}
  BY DEF IsFormula
<1> QED BY <1>5, <1>6, <1>7, <1>8, <1>9

-----------------------------------------------------------------------------
(* Leading, and the points together.                                       *)

LEMMA LeadIs ==
  ASSUME NEW f, IsFormula(f), NEW r, IsField(r), NEW t, IsTotals(f, r, t), NEW p \in DOMAIN r
  PROVE  /\ Lead(f, t, r, p) \in Nat
         /\ r[p].end > r[p].start => Lead(f, t, r, p) = r[p].lead
         /\ r[p].result # "lo" => Lead(f, t, r, p) = 0
<1>1. /\ r[p].lead \in Nat /\ r[p].dist \in Nat /\ r[p].start \in Nat /\ t.lastarrival \in Nat /\ t.goal \in Nat
      /\ r[p].result # "lo" => r[p].lead = 0 /\ r[p].start = 0
      /\ Ess \in Nat
  BY GapAssumption DEF IsField, IsPilot, IsTotals
<1>2. Opened(f, r) \in Int
  <2> DEFINE S == {q \in DOMAIN r : r[q].start > 0}
  <2>1. S \subseteq Nat /\ 0 \in Nat
    BY DEF IsField
  <2>2. S # {} => Min(S) \in S
    <3> HIDE DEF S
    <3>1. S # {} => Least(S, 0) \in S
      BY <2>1, LeastIs
    <3> QED BY <3>1 DEF Least
  <2>3. S # {} => r[Min(S)].start \in Int
    BY <2>2 DEF IsField, IsPilot
  <2>4. Opened(f, r) = IF f.open # 0 THEN f.open ELSE IF S = {} THEN 0 ELSE r[Min(S)].start
    BY DEF Opened
  <2>5. f.open \in Int
    BY DEF IsFormula
  <2> HIDE DEF S
  <2> QED BY <2>3, <2>4, <2>5
<1> DEFINE left == Ess - r[p].dist
           o == Opened(f, r)
           c == r[p].lead - left * Window + left * (t.lastarrival - o)
<1>3. Lead(f, t, r, p) = IF ~Unfinished(t, r[p]) THEN r[p].lead ELSE Most({0, c}, 0)
  BY DEF Lead
<1>4. c \in Int
  <2> HIDE DEF o
  <2>1. left \in Int /\ t.lastarrival - o \in Int /\ Window \in Int
    BY <1>1, <1>2 DEF o, Window
  <2> HIDE DEF left
  <2> QED BY <1>1, <2>1
<1> HIDE DEF c
<1>5. Most({0, c}, 0) \in Nat
  <2>1. 0 \in Int
    OBVIOUS
  <2> QED BY <1>4, <2>1, MostOfTwo
<1> DEFINE late == Unfinished(t, r[p])
<1>6. CASE late
  <2>1. r[p].start # 0 /\ r[p].end <= r[p].start /\ r[p].end \in Int
    BY <1>6 DEF Unfinished, IsField, IsPilot
  <2>2. ~(r[p].end > r[p].start) /\ r[p].result = "lo"
    BY <1>1, <2>1
  <2> QED BY <1>3, <1>5, <1>6, <2>2
<1>7. CASE ~late
  BY <1>1, <1>3, <1>7
<1> QED BY <1>6, <1>7

LEMMA LeastLeadIs ==
  ASSUME NEW f, IsFormula(f), NEW r, IsField(r), NEW t, IsTotals(f, r, t)
  PROVE  /\ LeastLead(f, t, r) \in Nat
         /\ t.mincoeff # 0 => /\ LeastLead(f, t, r) > 0
                              /\ LeastLead(f, t, r) = t.mincoeff \/ \E p \in DOMAIN r : LeastLead(f, t, r) = Lead(f, t, r, p)
<1> DEFINE late == {p \in DOMAIN r : Unfinished(t, r[p])}
           L == {x \in {Lead(f, t, r, p) : p \in late} : x > 0}
           S == {t.mincoeff} \cup L
<1>1. t.mincoeff \in Nat
  BY DEF IsTotals
<1>2. \A p \in DOMAIN r : Lead(f, t, r, p) \in Nat
  BY LeadIs
<1>3. S \subseteq Nat /\ S # {} /\ \A x \in S : x = t.mincoeff \/ (x > 0 /\ \E p \in DOMAIN r : x = Lead(f, t, r, p))
  BY <1>1, <1>2
<1>4. LeastLead(f, t, r) = IF t.mincoeff = 0 THEN 0 ELSE Min(S)
  BY DEF LeastLead
<1> HIDE DEF S
<1>5. 0 \in Nat /\ Least(S, 0) = Min(S)
  BY <1>3 DEF Least
<1>6. Least(S, 0) \in S
  BY <1>3, <1>5, LeastIs
<1> DEFINE m == Min(S)
<1>7. m \in Nat /\ (m = t.mincoeff \/ (m > 0 /\ \E p \in DOMAIN r : m = Lead(f, t, r, p)))
  BY <1>3, <1>5, <1>6
<1>8. LeastLead(f, t, r) = IF t.mincoeff = 0 THEN 0 ELSE m
  BY <1>4
<1> HIDE DEF m
<1>9. CASE t.mincoeff = 0
  BY <1>8, <1>9
<1>10. CASE t.mincoeff # 0
  <2>1. LeastLead(f, t, r) = m
    BY <1>8, <1>10
  <2>2. m > 0
    BY <1>1, <1>7, <1>10
  <2> QED BY <1>7, <2>1, <2>2
<1> QED BY <1>9, <1>10

Kept(f, x, points) == IF x.goal THEN points ELSE points - (points * f.sspenalty) \div 100

LEMMA KeptIs ==
  ASSUME NEW f, IsFormula(f), NEW x, x.goal \in BOOLEAN, NEW v \in Int
  PROVE  Kept(f, x, v) \in Int
<1> DEFINE a == v * f.sspenalty
           h == 100
<1>1. a \in Int /\ h \in Nat /\ h > 0
  BY DEF IsFormula
<1> HIDE DEF a, h
<1>2. a \div h \in Int
  BY <1>1, DivIs, Zenon
<1> QED BY <1>2 DEF Kept, a, h

LEMMA KeptWithin ==
  ASSUME NEW f, IsFormula(f), NEW x, x.goal \in BOOLEAN, NEW A \in Nat, NEW v \in 0..A
  PROVE  Kept(f, x, v) \in 0..A
<1>1. f.sspenalty \in 0..100 /\ v <= v
  BY DEF IsFormula
<1>2. v - (v * f.sspenalty) \div 100 \in 0..A
  BY <1>1, KeptGrows
<1> QED BY <1>2 DEF Kept

LEMMA KeptKeeps ==
  ASSUME NEW f, IsFormula(f), NEW x, x.goal \in BOOLEAN, NEW y, y.goal \in BOOLEAN, y.goal => x.goal,
         NEW A \in Nat, NEW v \in 0..A, NEW w \in 0..A, w <= v
  PROVE  Kept(f, y, w) <= Kept(f, x, v)
<1>1. f.sspenalty \in 0..100
  BY DEF IsFormula
<1> DEFINE a == w - (w * f.sspenalty) \div 100
           b == v - (v * f.sspenalty) \div 100
<1>2. a \in 0..A /\ b \in 0..A /\ a <= b /\ a <= w
  BY <1>1, KeptGrows
<1>3. Kept(f, y, w) = (IF y.goal THEN w ELSE a) /\ Kept(f, x, v) = IF x.goal THEN v ELSE b
  BY DEF Kept
<1> HIDE DEF a, b
<1> QED BY <1>2, <1>3

\* The four kinds of points of a pilot who flew
LEMMA GapPointsAre ==
  ASSUME NEW f, NEW r, NEW t, NEW p, NEW a, a = Weights(f, t), NEW s, s = GapPoints(f, r, t, p)
  PROVE  /\ r[p].result \in {"dnf", "abs"} =>
              s.distance = 0 /\ s.speed = 0 /\ s.arrival = 0 /\ s.departure = 0
         /\ r[p].result \notin {"dnf", "abs"} =>
              /\ s.distance = DistancePoints(f, t, r, p, a.distance)
              /\ s.speed = Kept(f, r[p], SpeedPoints(t, r[p], a.speed))
              /\ s.arrival = Kept(f, r[p], ArrivalPoints(f, t, r[p], Place(r, p), a.arrival))
              /\ s.departure = DeparturePoints(f, t, r[p], Lead(f, t, r, p), LeastLead(f, t, r), a.start, a.speed)
BY DEF GapPoints, Points, Kept

LEMMA PointsWithin ==
  ASSUME NEW f, IsFormula(f), NEW r, IsField(r), NEW t, IsTotals(f, r, t), NEW p \in DOMAIN r,
         NEW a, a = Weights(f, t), NEW s, s = GapPoints(f, r, t, p)
  PROVE  /\ s.distance \in 0..a.distance /\ s.arrival \in 0..a.arrival /\ s.speed \in Int /\ s.departure \in Nat
         /\ a.speed >= 0 => s.speed \in 0..a.speed
         /\ f.departure # "departure" => s.departure \in 0..a.start
         /\ TotalPoints(s, r[p]) \in Nat
         /\ TotalPoints(s, r[p]) = IF 0 <= s.distance + s.speed + s.arrival + s.departure - r[p].penalty
                                   THEN s.distance + s.speed + s.arrival + s.departure - r[p].penalty ELSE 0
<1>1. AreShares(a)
  BY WeightsAre
<1>2. a.distance \in Nat /\ a.speed \in Int /\ a.start \in Nat /\ a.arrival \in Nat
  BY <1>1 DEF AreShares
<1>3. IsPilot(r[p])
  BY DEF IsField
<1>4. r[p].result \in {"dnf", "abs", "lo"} /\ r[p].penalty \in Nat /\ r[p].dist \in Nat /\ r[p].goal \in BOOLEAN
  BY <1>3 DEF IsPilot
<1>5. /\ s.distance \in 0..a.distance /\ s.arrival \in 0..a.arrival /\ s.speed \in Int /\ s.departure \in Nat
      /\ a.speed >= 0 => s.speed \in 0..a.speed
      /\ f.departure # "departure" => s.departure \in 0..a.start
  <2>1. CASE r[p].result \in {"dnf", "abs"}
    <3>1. s.distance = 0 /\ s.speed = 0 /\ s.arrival = 0 /\ s.departure = 0
      BY <2>1, GapPointsAre
    <3> QED BY <1>2, <3>1
  <2>2. CASE r[p].result \notin {"dnf", "abs"}
    <3>1. /\ s.distance = DistancePoints(f, t, r, p, a.distance)
          /\ s.speed = Kept(f, r[p], SpeedPoints(t, r[p], a.speed))
          /\ s.arrival = Kept(f, r[p], ArrivalPoints(f, t, r[p], Place(r, p), a.arrival))
          /\ s.departure = DeparturePoints(f, t, r[p], Lead(f, t, r, p), LeastLead(f, t, r), a.start, a.speed)
      BY <2>2, GapPointsAre
    <3>2. p \in Active(r)
      BY <2>2 DEF Active
    <3>3. s.distance \in 0..a.distance
      <4>1. r[p].dist <= r[p].dist
        BY <1>4
      <4> QED BY <1>2, <3>1, <3>2, <4>1, DistancePointsGrow
    <3>4. SpeedPoints(t, r[p], a.speed) \in Int
      BY <1>2, <3>2, SpeedPointsAre
    <3>5. s.speed \in Int
      BY <1>4, <3>1, <3>4, KeptIs
    <3>6. ASSUME a.speed >= 0 PROVE s.speed \in 0..a.speed
      <4>1. a.speed \in Nat
        BY <1>2, <3>6
      <4>2. SpeedPoints(t, r[p], a.speed) \in 0..a.speed
        BY <3>2, <4>1, SpeedPointsGrow
      <4> QED BY <1>4, <3>1, <4>1, <4>2, KeptWithin
    <3>7. s.arrival \in 0..a.arrival
      <4>1. Place(r, p) \in Nat
        BY PlacesAre
      <4>2. ArrivalPoints(f, t, r[p], Place(r, p), a.arrival) \in 0..a.arrival
        BY <1>2, <3>2, <4>1, ArrivalPointsGrow
      <4> QED BY <1>2, <1>4, <3>1, <4>2, KeptWithin
    <3>8. s.departure \in Nat /\ (f.departure # "departure" => s.departure \in 0..a.start)
      <4>1. Lead(f, t, r, p) \in Int /\ LeastLead(f, t, r) \in Int
        <5>1. Lead(f, t, r, p) \in Nat
          BY LeadIs
        <5>2. LeastLead(f, t, r) \in Nat
          BY LeastLeadIs
        <5> QED BY <5>1, <5>2
      <4> DEFINE d == DeparturePoints(f, t, r[p], Lead(f, t, r, p), LeastLead(f, t, r), a.start, a.speed)
      <4>2. d \in Nat /\ (f.departure # "departure" => d \in 0..a.start)
        BY <1>2, <3>2, <4>1, DeparturePointsAre
      <4> QED BY <3>1, <4>2
    <3> QED BY <3>3, <3>5, <3>6, <3>7, <3>8
  <2> QED BY <2>1, <2>2
<1> DEFINE sum == s.distance + s.speed + s.arrival + s.departure - r[p].penalty
<1>6. sum \in Int
  BY <1>2, <1>4, <1>5
<1>7. TotalPoints(s, r[p]) = Most({0, sum}, 0)
  BY DEF TotalPoints
<1>8. Most({0, sum}, 0) = IF 0 <= sum THEN sum ELSE 0
  <2> HIDE DEF sum
  <2>1. 0 \in Int
    OBVIOUS
  <2> QED BY <1>6, <2>1, MostOfTwo
<1>9. TotalPoints(s, r[p]) \in Nat
  <2> HIDE DEF sum
  <2> QED BY <1>6, <1>7, <1>8
<1> QED BY <1>5, <1>7, <1>8, <1>9

-----------------------------------------------------------------------------
(* Nobody is behind a pilot who was no better.                             *)

LEMMA RawNotBehind ==
  ASSUME NEW f, IsFormula(f), NEW r, IsField(r), NEW t, IsTotals(f, r, t), NEW p \in DOMAIN r, NEW q \in DOMAIN r,
         Weights(f, t).speed >= 0, r[p].result = "lo", r[q].dist <= r[p].dist, r[q].goal => r[p].goal,
         NoWorse(r[p].time, r[q].time), NoWorse(r[p].end, r[q].end), r[p].penalty <= r[q].penalty,
         NoWorse(Lead(f, t, r, p), Lead(f, t, r, q)), f.arrival = "position" => Ahead(r, p, q),
         f.departure = "departure" =>
            /\ r[p].start <= r[q].start
            /\ 3 * (r[q].start - t.firstdepart) <= f.nomtime \/ 2 * (r[q].start - t.firstdepart) >= f.nomtime
  PROVE  TotalPoints(GapPoints(f, r, t, q), r[q]) <= TotalPoints(GapPoints(f, r, t, p), r[p])
<1> DEFINE a == Weights(f, t)
           s == GapPoints(f, r, t, p)
           z == GapPoints(f, r, t, q)
           least == LeastLead(f, t, r)
<1>1. a.distance \in Nat /\ a.speed \in Nat /\ a.start \in Nat /\ a.arrival \in Nat
  <2>1. AreShares(a)
    BY WeightsAre
  <2> QED BY <2>1 DEF AreShares
<1>2. /\ s.distance \in 0..a.distance /\ s.arrival \in 0..a.arrival /\ s.speed \in 0..a.speed /\ s.departure \in Nat
      /\ TotalPoints(s, r[p]) = IF 0 <= s.distance + s.speed + s.arrival + s.departure - r[p].penalty
                                THEN s.distance + s.speed + s.arrival + s.departure - r[p].penalty ELSE 0
  BY PointsWithin
<1>3. /\ z.distance \in 0..a.distance /\ z.arrival \in 0..a.arrival /\ z.speed \in 0..a.speed /\ z.departure \in Nat
      /\ TotalPoints(z, r[q]) = IF 0 <= z.distance + z.speed + z.arrival + z.departure - r[q].penalty
                                THEN z.distance + z.speed + z.arrival + z.departure - r[q].penalty ELSE 0
  BY PointsWithin
<1>4. r[p].penalty \in Nat /\ r[q].penalty \in Nat /\ r[p].goal \in BOOLEAN /\ r[q].goal \in BOOLEAN
  BY DEF IsField, IsPilot
<1>5. /\ s.distance = DistancePoints(f, t, r, p, a.distance)
      /\ s.speed = Kept(f, r[p], SpeedPoints(t, r[p], a.speed))
      /\ s.arrival = Kept(f, r[p], ArrivalPoints(f, t, r[p], Place(r, p), a.arrival))
      /\ s.departure = DeparturePoints(f, t, r[p], Lead(f, t, r, p), least, a.start, a.speed)
  BY GapPointsAre
<1> HIDE DEF s, z, least
<1>6. z.distance <= s.distance /\ z.speed <= s.speed /\ z.arrival <= s.arrival /\ z.departure <= s.departure
  <2>1. CASE r[q].result \in {"dnf", "abs"}
    <3>1. z.distance = 0 /\ z.speed = 0 /\ z.arrival = 0 /\ z.departure = 0
      BY <2>1, GapPointsAre DEF z
    <3> QED BY <1>1, <1>2, <3>1
  <2>2. CASE r[q].result \notin {"dnf", "abs"}
    <3>1. /\ z.distance = DistancePoints(f, t, r, q, a.distance)
          /\ z.speed = Kept(f, r[q], SpeedPoints(t, r[q], a.speed))
          /\ z.arrival = Kept(f, r[q], ArrivalPoints(f, t, r[q], Place(r, q), a.arrival))
          /\ z.departure = DeparturePoints(f, t, r[q], Lead(f, t, r, q), least, a.start, a.speed)
      BY <2>2, GapPointsAre DEF z, least
    <3>2. p \in Active(r) /\ q \in Active(r)
      BY <2>2 DEF Active
    <3>3. f.arrival = "off" => a.arrival = 0
      BY WeightsAre
    <3> HIDE DEF a
    <3>4. z.distance <= s.distance
      BY <1>1, <1>5, <3>1, <3>2, DistancePointsGrow
    <3>5. z.speed <= s.speed
      <4> DEFINE x == SpeedPoints(t, r[p], a.speed)
                 y == SpeedPoints(t, r[q], a.speed)
      <4>1. x \in 0..a.speed /\ y <= x
        BY <1>1, <3>2, SpeedPointsGrow
      <4>2. y \in 0..a.speed
        BY <1>1, <3>2, SpeedPointsGrow
      <4> HIDE DEF x, y
      <4>3. Kept(f, r[q], y) <= Kept(f, r[p], x)
        BY <1>1, <1>4, <4>1, <4>2, KeptKeeps
      <4> QED BY <1>5, <3>1, <4>3 DEF x, y
    <3>6. z.arrival <= s.arrival
      <4> DEFINE i == Place(r, p)
                 j == Place(r, q)
                 x == ArrivalPoints(f, t, r[p], i, a.arrival)
                 y == ArrivalPoints(f, t, r[q], j, a.arrival)
      <4>1. i \in Nat /\ j \in Nat /\ (f.arrival = "position" => i <= j)
        BY PlacesAre
      <4>2. a.arrival = 0 \/ f.arrival = "timed" \/ i <= j
        BY <3>3, <4>1 DEF IsFormula
      <4> HIDE DEF i, j
      <4>3. x \in 0..a.arrival /\ y <= x
        BY <1>1, <3>2, <4>1, <4>2, ArrivalPointsGrow
      <4>4. y \in 0..a.arrival
        BY <1>1, <3>2, <4>1, ArrivalPointsGrow
      <4> HIDE DEF x, y
      <4>5. Kept(f, r[q], y) <= Kept(f, r[p], x)
        BY <1>1, <1>4, <4>3, <4>4, KeptKeeps
      <4> QED BY <1>5, <3>1, <4>5 DEF x, y, i, j
    <3>7. z.departure <= s.departure
      <4> DEFINE x == Lead(f, t, r, p)
                 y == Lead(f, t, r, q)
      <4>1. x \in Int /\ y \in Int /\ least \in Int
        <5>1. x \in Nat /\ y \in Nat
          BY LeadIs
        <5>2. least \in Nat
          BY LeastLeadIs DEF least
        <5> QED BY <5>1, <5>2
      <4>2. NoWorse(x, y)
        OBVIOUS
      <4> HIDE DEF x, y
      <4>3. DeparturePoints(f, t, r[q], y, least, a.start, a.speed) <= DeparturePoints(f, t, r[p], x, least, a.start, a.speed)
        BY <1>1, <3>2, <4>1, <4>2, DeparturePointsGrow
      <4> QED BY <1>5, <3>1, <4>3 DEF x, y
    <3> QED BY <3>4, <3>5, <3>6, <3>7
  <2> QED BY <2>1, <2>2
<1> DEFINE x == s.distance + s.speed + s.arrival + s.departure - r[p].penalty
           y == z.distance + z.speed + z.arrival + z.departure - r[q].penalty
<1>7. x \in Int /\ y \in Int /\ y <= x
  <2> HIDE DEF a
  <2>1. /\ s.distance \in Nat /\ s.speed \in Nat /\ s.arrival \in Nat /\ s.departure \in Nat
        /\ z.distance \in Nat /\ z.speed \in Nat /\ z.arrival \in Nat /\ z.departure \in Nat
    BY <1>1, <1>2, <1>3
  <2> QED BY <1>4, <1>6, <2>1
<1>8. TotalPoints(s, r[p]) = (IF 0 <= x THEN x ELSE 0) /\ TotalPoints(z, r[q]) = IF 0 <= y THEN y ELSE 0
  BY <1>2, <1>3
<1> HIDE DEF x, y
<1>9. TotalPoints(z, r[q]) <= TotalPoints(s, r[p])
  BY <1>7, <1>8
<1> QED BY <1>9 DEF s, z

-----------------------------------------------------------------------------
(* The sheet of a reachable state.                                         *)

LEMMA SheetIs ==
  ASSUME GapInv
  PROVE  /\ IsFormula(Formula(event)) /\ IsField(Results) /\ IsTotals(Formula(event), Results, DayTotals)
         /\ DOMAIN sheet = DOMAIN Results /\ DOMAIN sheet = Entered(entry)
         /\ Available = Weights(Formula(event), DayTotals)
         /\ \A p \in DOMAIN sheet :
              /\ p \in Rivals /\ entry[p] \in Outings /\ Results[p] = PilotResult(Formula(event), entry[p])
              /\ sheet[p].points = GapPoints(Formula(event), Results, DayTotals, p)
              /\ sheet[p].raw = TotalPoints(GapPoints(Formula(event), Results, DayTotals, p), Results[p])
              /\ sheet[p].adjusted = Adjusted(event, RawOf(Formula(event), Results, DayTotals), entry)[p]
              /\ sheet[p].final = Penalised(Adjusted(event, RawOf(Formula(event), Results, DayTotals), entry)[p], charged[p])
<1> DEFINE f == Formula(event)
           r == PilotResults(event, entry)
           t == Totals(f, r)
<1>1. /\ event \in EventRecords /\ entry \in [Rivals -> Outings \cup {None}] /\ DOMAIN sheet = Entered(entry)
      /\ DOMAIN sheet # {} => sheet = Scores(event, entry, charged)
  BY DEF GapInv
<1>2. /\ IsFormula(f) /\ IsField(r) /\ DOMAIN r = Entered(entry) /\ IsTotals(f, r, t)
      /\ Entered(entry) \subseteq Rivals /\ \A p \in Entered(entry) : entry[p] \in Outings
  BY <1>1, FieldIs
<1>3. Results = r /\ DayTotals = t /\ Available = Weights(f, t)
  BY DEF Results, DayTotals, Available
<1>4. \A p \in Entered(entry) : r[p] = PilotResult(f, entry[p])
  BY Zenon DEF PilotResults
<1> HIDE DEF f, r, t
<1>5. ASSUME NEW p \in DOMAIN sheet
      PROVE  /\ sheet[p].points = GapPoints(f, r, t, p) /\ sheet[p].raw = TotalPoints(GapPoints(f, r, t, p), r[p])
             /\ sheet[p].adjusted = Adjusted(event, RawOf(f, r, t), entry)[p]
             /\ sheet[p].final = Penalised(Adjusted(event, RawOf(f, r, t), entry)[p], charged[p])
  <2>1. sheet = Scores(event, entry, charged) /\ p \in Entered(entry)
    BY <1>1
  <2> DEFINE sc == Scores(event, entry, charged)[p]
  <2>2. /\ sc.points = GapPoints(f, r, t, p) /\ sc.raw = TotalPoints(GapPoints(f, r, t, p), r[p])
        /\ sc.adjusted = Adjusted(event, RawOf(f, r, t), entry)[p]
        /\ sc.final = Penalised(Adjusted(event, RawOf(f, r, t), entry)[p], charged[p])
    BY <2>1, ScoresAre DEF f, r, t
  <2>3. sc = sheet[p]
    BY <2>1
  <2> HIDE DEF sc
  <2> QED BY <2>2, <2>3, Zenon
<1> QED BY <1>1, <1>2, <1>3, <1>4, <1>5, Zenon DEF f

LEMMA BetterStay == GapInv => BetterNotBehind
<1> SUFFICES ASSUME GapInv PROVE BetterNotBehind
  OBVIOUS
<1> DEFINE f == Formula(event)
           r == Results
           t == DayTotals
           W(q) == r[q].start - t.firstdepart
<1>1. /\ IsFormula(f) /\ IsField(r) /\ IsTotals(f, r, t) /\ DOMAIN sheet = DOMAIN r /\ Available = Weights(f, t)
      /\ \A p \in DOMAIN sheet : sheet[p].raw = TotalPoints(GapPoints(f, r, t, p), r[p])
  BY SheetIs, Zenon
<1> HIDE DEF f, r, t
<1>2. ASSUME SpeedCounts, NEW p \in DOMAIN sheet, NEW q \in DOMAIN sheet,
             r[p].result = "lo", r[p].dist >= r[q].dist, r[q].goal => r[p].goal,
             NoWorse(r[p].time, r[q].time), NoWorse(r[p].end, r[q].end), r[p].penalty <= r[q].penalty,
             NoWorse(Lead(f, t, r, p), Lead(f, t, r, q)), f.arrival = "position" => Ahead(r, p, q),
             f.departure = "departure" => r[p].start <= r[q].start /\ (3 * W(q) <= f.nomtime \/ 2 * W(q) >= f.nomtime)
      PROVE  sheet[p].raw >= sheet[q].raw
  <2>1. p \in DOMAIN r /\ q \in DOMAIN r /\ Weights(f, t).speed >= 0
    BY <1>1, <1>2, Zenon DEF SpeedCounts
  <2>2. r[p].dist \in Nat /\ r[q].dist \in Nat
    BY <1>1, <2>1 DEF IsField, IsPilot
  <2>3. r[q].dist <= r[p].dist
    BY <1>2, <2>2
  <2> DEFINE x == TotalPoints(GapPoints(f, r, t, p), r[p])
             y == TotalPoints(GapPoints(f, r, t, q), r[q])
  <2>4. x \in Nat /\ y \in Nat
    BY <1>1, <2>1, PointsWithin
  <2>5. y <= x
    BY <1>1, <1>2, <2>1, <2>3, RawNotBehind
  <2>6. sheet[p].raw = x /\ sheet[q].raw = y
    BY <1>1
  <2> HIDE DEF x, y
  <2> QED BY <2>4, <2>5, <2>6
<1> QED BY <1>2, Zenon DEF BetterNotBehind, NoWorse, f, r, t

-----------------------------------------------------------------------------
(* Somebody takes the leading points.                                      *)

LEMMA LeadsDo == GapInv => SomeoneLeads
<1> SUFFICES ASSUME GapInv, Formula(event).departure = "leadout", NEW o \in Timed(Results), Results[o].lead > 0
             PROVE  \E p \in DOMAIN sheet : sheet[p].points.departure = Available.start
  BY DEF SomeoneLeads
<1> DEFINE f == Formula(event)
           r == Results
           t == DayTotals
           a == Weights(f, t)
           least == LeastLead(f, t, r)
<1>1. /\ IsFormula(f) /\ IsField(r) /\ IsTotals(f, r, t) /\ DOMAIN sheet = DOMAIN r /\ Available = Weights(f, t)
      /\ \A p \in DOMAIN sheet : sheet[p].points = GapPoints(f, r, t, p)
  BY SheetIs, Zenon
<1>2. f.departure = "leadout" /\ o \in Timed(r) /\ r[o].lead > 0
  OBVIOUS
<1> HIDE DEF f, r, t
<1>3. o \in Leaders(r) /\ \A q \in Leaders(r) : q \in Timed(r) /\ r[q].lead > 0
  BY <1>2 DEF Leaders
<1>4. t.mincoeff \in {r[q].lead : q \in Leaders(r)}
  BY <1>1, <1>3 DEF IsTotals
<1>5. PICK q \in Leaders(r) : t.mincoeff = r[q].lead
  BY <1>4
<1>6. q \in DOMAIN r /\ r[q].end > r[q].start /\ r[q].lead > 0
  BY <1>1, <1>3, <1>5, GroupsAre DEF Timed
<1>7. Lead(f, t, r, q) = t.mincoeff /\ t.mincoeff > 0
  BY <1>1, <1>5, <1>6, LeadIs
<1>8. least > 0 /\ (least = t.mincoeff \/ \E p \in DOMAIN r : least = Lead(f, t, r, p))
  <2>1. t.mincoeff # 0
    BY <1>7
  <2> QED BY <1>1, <2>1, LeastLeadIs
<1>9. \E p \in DOMAIN r : least = Lead(f, t, r, p)
  BY <1>6, <1>7, <1>8
<1>10. PICK p \in DOMAIN r : least = Lead(f, t, r, p)
  BY <1>9
<1>11. r[p].result = "lo"
  <2>1. r[p].result # "lo" => Lead(f, t, r, p) = 0
    BY <1>1, LeadIs
  <2> QED BY <1>8, <1>10, <2>1
<1>12. GapPoints(f, r, t, p).departure = DeparturePoints(f, t, r[p], Lead(f, t, r, p), least, a.start, a.speed)
  <2>1. r[p].result \notin {"dnf", "abs"}
    BY <1>11
  <2> QED BY <2>1, GapPointsAre
<1> HIDE DEF a
<1>13. DeparturePoints(f, t, r[p], Lead(f, t, r, p), least, a.start, a.speed) = Led(a.start, least, Lead(f, t, r, p))
  BY <1>2, DepartureIs
<1>14. least \in Nat
  BY <1>1, LeastLeadIs
<1> HIDE DEF least
<1>15. Led(a.start, least, Lead(f, t, r, p)) = a.start
  BY <1>8, <1>10, <1>14 DEF Led
<1> QED BY <1>1, <1>12, <1>13, <1>15 DEF a

-----------------------------------------------------------------------------
(* The handicap.                                                           *)

RatedOf(raw, e) == {p \in DOMAIN raw : e[p].status \in Competitive}
TargetOf(ev, raw, e) == IF ev.normalize THEN Mille ELSE Most({raw[p] : p \in RatedOf(raw, e)}, 0)

LEMMA AdjustedIs ==
  ASSUME NEW ev \in EventRecords, NEW raw, DOMAIN raw \subseteq Rivals, \A p \in DOMAIN raw : raw[p] \in Nat, NEW e
  PROVE  /\ DOMAIN Adjusted(ev, raw, e) = DOMAIN raw
         /\ \A p \in DOMAIN raw : Adjusted(ev, raw, e)[p] \in Nat /\ Multiplied(ev, raw, p) \in Nat
         /\ ev.handicap =>
              /\ \A p, q \in DOMAIN raw : Multiplied(ev, raw, p) <= Multiplied(ev, raw, q)
                    => Adjusted(ev, raw, e)[p] <= Adjusted(ev, raw, e)[q]
              /\ \A p \in RatedOf(raw, e) : (\A q \in RatedOf(raw, e) : Multiplied(ev, raw, q) <= Multiplied(ev, raw, p)) /\ Multiplied(ev, raw, p) > 0
                    => Adjusted(ev, raw, e)[p] = TargetOf(ev, raw, e)
<1> DEFINE rated == RatedOf(raw, e)
           target == TargetOf(ev, raw, e)
           M == [p \in DOMAIN raw |-> Multiplied(ev, raw, p)]
           S == {M[p] : p \in rated}
           T == {raw[p] : p \in rated}
           top == Most(S, 0)
           A == Adjusted(ev, raw, e)
           D == DOMAIN raw
<1> HIDE DEF target
<1>1. rated \subseteq D /\ IsFiniteSet(rated)
  <2>1. IsFiniteSet(Rivals)
    BY GapAssumption
  <2>2. rated \subseteq D
    BY DEF RatedOf
  <2> QED BY <2>1, <2>2, FS_Subset
<1> HIDE DEF rated
<1>2. \A p \in D : M[p] \in Nat
  <2> SUFFICES ASSUME NEW p \in D PROVE Multiplied(ev, raw, p) \in Nat
    OBVIOUS
  <2> DEFINE a == raw[p] * ev.multiplier[p]
             h == 100
  <2>1. ev.multiplier[p] \in Nat
    BY DEF EventRecords
  <2>2. a \in Nat /\ h \in Nat /\ h > 0
    BY <2>1
  <2> HIDE DEF a, h
  <2>3. a \div h \in Nat
    BY <2>2, DivIsNat, Zenon
  <2> QED BY <2>3 DEF Multiplied, a, h
<1>3. top \in Nat /\ (rated # {} => \E p \in rated : top = M[p]) /\ \A p \in rated : M[p] <= top
  <2>1. S \subseteq Nat /\ (rated # {} => S # {}) /\ (\A p \in rated : M[p] \in S) /\ \A x \in S : \E p \in rated : x = M[p]
    BY <1>1, <1>2
  <2> HIDE DEF M
  <2>2. IsFiniteSet(S)
    BY <1>1, ImageIsFinite
  <2> HIDE DEF S
  <2>3. top \in Nat /\ (S # {} => top \in S /\ \A y \in S : y <= top)
    BY <2>1, <2>2, GreatestIs
  <2> HIDE DEF top
  <2> QED BY <2>1, <2>3
<1>4. target \in Nat
  <2>1. T \subseteq Nat
    BY <1>1
  <2>2. IsFiniteSet(T)
    BY <1>1, ImageIsFinite
  <2> HIDE DEF T
  <2>3. Most(T, 0) \in Nat
    BY <2>1, <2>2, GreatestIs
  <2> QED BY <2>3, MilleIs DEF T, target, TargetOf, rated
<1>5. DOMAIN A = D /\ \A p \in D : A[p] = IF ~ev.handicap THEN raw[p] ELSE IF top > 0 THEN (M[p] * target) \div top ELSE M[p]
  <2>1. S = {Multiplied(ev, raw, p) : p \in rated}
    BY <1>1
  <2> HIDE DEF S, T
  <2> DEFINE R == {p \in DOMAIN raw : e[p].status \in Competitive}
             k == Most({Multiplied(ev, raw, p) : p \in R}, 0)
             g == IF ev.normalize THEN Mille ELSE Most({raw[p] : p \in R}, 0)
  <2>4. A = [p \in D |-> IF ~ev.handicap THEN raw[p] ELSE IF k > 0 THEN (Multiplied(ev, raw, p) * g) \div k ELSE Multiplied(ev, raw, p)]
    BY Zenon DEF Adjusted, Mille
  <2> HIDE DEF R
  <2>6. R = rated
    BY DEF R, rated, RatedOf
  <2>5. k = top /\ g = target
    BY <2>1, <2>6, Zenon DEF target, TargetOf, rated, top
  <2> HIDE DEF k, g, top, T
  <2>3. A = [p \in D |-> IF ~ev.handicap THEN raw[p] ELSE IF top > 0 THEN (Multiplied(ev, raw, p) * target) \div top ELSE Multiplied(ev, raw, p)]
    BY <2>4, <2>5, Zenon
  <2> HIDE DEF A
  <2> QED BY <2>3
<1> HIDE DEF A, top, S, T
<1>6. top > 0 => \A x \in Nat : (x * target) \div top \in Nat
  <2> SUFFICES ASSUME top > 0, NEW x \in Nat PROVE (x * target) \div top \in Nat
    OBVIOUS
  <2>1. x * target \in Nat
    BY <1>4
  <2> QED BY <1>3, <2>1, DivIsNat
<1>7. \A p \in D : A[p] \in Nat /\ Multiplied(ev, raw, p) \in Nat
  <2> SUFFICES ASSUME NEW p \in D PROVE A[p] \in Nat /\ M[p] \in Nat
    OBVIOUS
  <2>1. M[p] \in Nat
    BY <1>2
  <2> HIDE DEF M
  <2> DEFINE z == (M[p] * target) \div top
  <2>2. top > 0 => z \in Nat
    BY <1>6, <2>1
  <2> HIDE DEF z
  <2>3. A[p] = IF ~ev.handicap THEN raw[p] ELSE IF top > 0 THEN z ELSE M[p]
    BY <1>5 DEF z
  <2> QED BY <2>1, <2>2, <2>3
<1>8. ASSUME ev.handicap, NEW p \in D, NEW q \in D, M[p] <= M[q]
      PROVE  A[p] <= A[q]
  <2>1. M[p] \in Nat /\ M[q] \in Nat
    BY <1>2
  <2> HIDE DEF M
  <2> DEFINE x == target * M[p]
             y == target * M[q]
             X == x \div top
             Y == y \div top
  <2>2. x \in Int /\ y \in Int /\ x <= y
    BY <1>4, <1>8, <2>1, ProductGrows
  <2>3. M[p] * target = x /\ M[q] * target = y
    BY <1>4, <2>1
  <2>4. A[p] = (IF top > 0 THEN X ELSE M[p]) /\ A[q] = IF top > 0 THEN Y ELSE M[q]
    <3> HIDE DEF x, y
    <3> QED BY <1>5, <1>8, <2>3
  <2> HIDE DEF x, y
  <2>5. top > 0 => X <= Y
    BY <1>3, <2>2, DivGrows
  <2> HIDE DEF X, Y
  <2> QED BY <1>8, <2>1, <2>4, <2>5
<1>9. ASSUME ev.handicap, NEW p \in rated, \A q \in rated : M[q] <= M[p], M[p] > 0
      PROVE  A[p] = target
  <2>1. \A q \in rated : M[q] \in Nat
    BY <1>1, <1>2
  <2> HIDE DEF M
  <2>2. M[p] = top
    <3>1. PICK q \in rated : top = M[q]
      BY <1>3
    <3> QED BY <1>3, <1>9, <2>1, <3>1
  <2>3. A[p] = (top * target) \div top
    BY <1>1, <1>5, <1>9, <2>2
  <2> DEFINE x == (top * target) \div top
  <2>4. top * target \in Nat /\ top * target \in Int
    BY <1>3, <1>4
  <2>5. x \in Int /\ top * x <= top * target /\ top * target < top * x + top
    BY <1>3, <1>9, <2>2, <2>4, DivIs
  <2> HIDE DEF x
  <2>6. x <= target /\ target < x + 1
    <3>1. top > 0
      BY <1>9, <2>2
    <3>2. x > target => top * (target + 1) <= top * x
      <4>1. x > target => target + 1 <= x
        BY <1>4, <2>5
      <4> QED BY <1>3, <1>4, <2>5, <4>1, ProductGrows
    <3>3. x + 1 <= target => top * (x + 1) <= top * target
      BY <1>3, <1>4, <2>5, ProductGrows
    <3>4. top * (target + 1) = top * target + top /\ top * (x + 1) = top * x + top
      BY <1>3, <1>4, <2>5
    <3> QED BY <1>3, <1>4, <2>4, <2>5, <3>1, <3>2, <3>3, <3>4
  <2> QED BY <1>4, <2>3, <2>5, <2>6 DEF x
<1>10. \A p \in D : M[p] = Multiplied(ev, raw, p)
  OBVIOUS
<1> HIDE DEF M
<1>11. ASSUME ev.handicap
       PROVE  /\ \A p, q \in D : Multiplied(ev, raw, p) <= Multiplied(ev, raw, q) => A[p] <= A[q]
              /\ \A p \in rated : (\A q \in rated : Multiplied(ev, raw, q) <= Multiplied(ev, raw, p)) /\ Multiplied(ev, raw, p) > 0
                    => A[p] = target
  BY <1>1, <1>8, <1>9, <1>10, <1>11
<1> QED BY <1>5, <1>7, <1>11, Zenon DEF A, target, rated

LEMMA HandicapDoes == GapInv => HandicapFair
<1> SUFFICES ASSUME GapInv PROVE HandicapFair
  OBVIOUS
<1> DEFINE f == Formula(event)
           r == Results
           t == DayTotals
           raw == [p \in DOMAIN sheet |-> sheet[p].raw]
           A == Adjusted(event, raw, entry)
           target == TargetOf(event, raw, entry)
<1>1. /\ IsFormula(f) /\ IsField(r) /\ IsTotals(f, r, t) /\ DOMAIN sheet = DOMAIN r
      /\ \A p \in DOMAIN sheet :
              /\ p \in Rivals
              /\ sheet[p].raw = TotalPoints(GapPoints(f, r, t, p), r[p])
              /\ sheet[p].adjusted = Adjusted(event, RawOf(f, r, t), entry)[p]
  BY SheetIs, Zenon
<1> HIDE DEF f, r, t
<1>2. raw = RawOf(f, r, t)
  BY <1>1 DEF RawOf
<1>3. \A p \in DOMAIN raw : raw[p] \in Nat
  BY <1>1, PointsWithin
<1>4. DOMAIN raw = DOMAIN sheet /\ DOMAIN raw \subseteq Rivals
  BY <1>1
<1>5. \A p \in DOMAIN sheet : sheet[p].adjusted = A[p]
  BY <1>1, <1>2
<1> HIDE DEF raw
<1>6. event \in EventRecords /\ Rated = {p \in DOMAIN raw : entry[p].status \in Competitive}
  BY <1>4 DEF GapInv, Rated
<1>7. event.handicap =>
              /\ \A p, q \in DOMAIN raw : Multiplied(event, raw, p) <= Multiplied(event, raw, q) => A[p] <= A[q]
              /\ \A p \in Rated : (\A q \in Rated : Multiplied(event, raw, q) <= Multiplied(event, raw, p)) /\ Multiplied(event, raw, p) > 0
                    => A[p] = target
  <2>2. event \in EventRecords
    BY <1>6
  <2>3. Rated = RatedOf(raw, entry)
    BY <1>6 DEF RatedOf
  <2>4. DOMAIN raw \subseteq Rivals
    BY <1>4
  <2> HIDE DEF A
  <2>5. /\ DOMAIN A = DOMAIN raw
        /\ \A p \in DOMAIN raw : A[p] \in Nat /\ Multiplied(event, raw, p) \in Nat
        /\ event.handicap =>
              /\ \A p, q \in DOMAIN raw : Multiplied(event, raw, p) <= Multiplied(event, raw, q) => A[p] <= A[q]
              /\ \A p \in Rated : (\A q \in Rated : Multiplied(event, raw, q) <= Multiplied(event, raw, p)) /\ Multiplied(event, raw, p) > 0
                    => A[p] = target
    BY <1>3, <2>2, <2>3, <2>4, AdjustedIs, Zenon DEF A
  <2> QED BY <2>5, Zenon
<1> HIDE DEF A, target
<1>8. Rated \subseteq DOMAIN sheet
  BY DEF Rated
<1>9. \A p \in Rated : sheet[p].adjusted = A[p]
  BY <1>5, <1>8
<1>10. event.handicap => \A p, q \in Rated : Multiplied(event, raw, p) <= Multiplied(event, raw, q)
                                => sheet[p].adjusted <= sheet[q].adjusted
  BY <1>4, <1>7, <1>8, <1>9
<1>11. event.handicap => \A p \in {x \in Rated : \A q \in Rated : Multiplied(event, raw, q) <= Multiplied(event, raw, x)} :
             Multiplied(event, raw, p) > 0 =>
             sheet[p].adjusted = target
  BY <1>7, <1>9
<1>12. target = IF event.normalize THEN 1000 ELSE Most({raw[q] : q \in Rated}, 0)
  BY <1>6, Zenon DEF target, TargetOf, RatedOf, Mille
<1> HIDE DEF target
<1> QED BY <1>10, <1>11, <1>12, Zenon DEF HandicapFair, raw

-----------------------------------------------------------------------------
(* The penalties and the lines that explain them.                          *)

\* What one penalty leaves of a score
PercentStep(c, x) == IF c.type # "percentage" THEN x ELSE x - (x * c.value) \div 100
FixedStep(c, x) == IF c.type # "fixed" THEN x ELSE x - c.value
PercentSteps(cs) == [i \in 1..Len(cs) |-> [x \in Int |-> PercentStep(cs[i], x)]]
FixedSteps(cs) == [i \in 1..Len(cs) |-> [x \in Int |-> FixedStep(cs[i], x)]]

LEMMA RunsAgree ==
  ASSUME NEW n \in Nat, NEW S, NEW s, NEW G, NEW f, IsRun(f, n, S, s, G), NEW h, IsRun(h, n, S, s, G)
  PROVE  f[n] = h[n]
<1> DEFINE T == {k \in 0..n : f[k] = h[k]}
<1>1. 0 \in T
  BY DEF IsRun
<1>2. ASSUME NEW k \in 1..n, k - 1 \in T PROVE k \in T
  BY <1>2 DEF IsRun
<1>3. 0..n \subseteq T
  <2> HIDE DEF T
  <2> QED BY <1>1, <1>2, UpTo
<1> QED BY <1>3

LEMMA StepsAre ==
  ASSUME NEW cs \in Seq(Charges)
  PROVE  /\ Len(cs) \in Nat /\ \A i \in 1..Len(cs) : cs[i].type \in {"percentage", "fixed"} /\ cs[i].value \in Nat
         /\ \A i \in 1..Len(cs), x \in Int : PercentStep(cs[i], x) \in Int /\ FixedStep(cs[i], x) \in Int
         /\ PercentSteps(cs) \in [1..Len(cs) -> [Int -> Int]] /\ FixedSteps(cs) \in [1..Len(cs) -> [Int -> Int]]
<1>1. Len(cs) \in Nat /\ \A i \in 1..Len(cs) : cs[i] \in Charges
  OBVIOUS
<1>2. \A i \in 1..Len(cs) : cs[i].type \in {"percentage", "fixed"} /\ cs[i].value \in Nat
  BY <1>1, GapAssumption
<1>3. ASSUME NEW i \in 1..Len(cs), NEW x \in Int PROVE PercentStep(cs[i], x) \in Int /\ FixedStep(cs[i], x) \in Int
  <2> DEFINE a == x * cs[i].value
             h == 100
  <2>1. a \in Int /\ h \in Nat /\ h > 0 /\ cs[i].value \in Nat
    BY <1>2
  <2> HIDE DEF a, h
  <2>2. a \div h \in Int
    BY <2>1, DivIs, Zenon
  <2>3. PercentStep(cs[i], x) = IF cs[i].type # "percentage" THEN x ELSE x - a \div h
    BY DEF PercentStep, a, h
  <2> QED BY <2>1, <2>2, <2>3 DEF FixedStep
<1>4. PercentSteps(cs) \in [1..Len(cs) -> [Int -> Int]] /\ FixedSteps(cs) \in [1..Len(cs) -> [Int -> Int]]
  BY <1>3 DEF PercentSteps, FixedSteps
<1> QED BY <1>1, <1>2, <1>3, <1>4

\* A loop over the penalties, written with the steps of a run
LEMMA LoopIs ==
  ASSUME NEW n \in Nat, NEW s \in Int, NEW G \in [1..n -> [Int -> Int]]
  PROVE  \E f : /\ IsRun(f, n, Int, s, G) /\ f = [k \in 0..n |-> f[k]] /\ f[0] = s
                /\ \A k \in 1..n : k \in 0..n /\ k # 0 /\ f[k - 1] \in Int /\ f[k] = G[k][f[k - 1]]
<1>1. PICK f : IsRun(f, n, Int, s, G)
  BY RunExists
<1>2. \A k \in 1..n : k \in 0..n /\ k # 0 /\ k - 1 \in 0..n
  OBVIOUS
<1> QED BY <1>1, <1>2 DEF IsRun

LEMMA CutIs ==
  ASSUME NEW cs \in Seq(Charges), NEW score \in Int
  PROVE  \E f : IsRun(f, Len(cs), Int, score, PercentSteps(cs)) /\ Cut(score, cs) = f[Len(cs)]
<1> DEFINE n == Len(cs)
           G == PercentSteps(cs)
           All(f) == f = [i \in 0..n |-> IF i = 0 THEN score
                                         ELSE IF cs[i].type # "percentage" THEN f[i - 1]
                                         ELSE f[i - 1] - (f[i - 1] * cs[i].value) \div 100]
           Step(i, x) == IF cs[i].type # "percentage" THEN x ELSE x - (x * cs[i].value) \div 100
           h == CHOOSE x : All(x)
<1>1. n \in Nat /\ G \in [1..n -> [Int -> Int]]
  BY StepsAre
<1>2. \A i \in 1..n, x \in Int : G[i][x] = Step(i, x)
  BY DEF PercentSteps, PercentStep
<1>3. Cut(score, cs) = h[n]
  BY DEF Cut
<1> HIDE DEF n, G, h
<1>4. PICK f : /\ IsRun(f, n, Int, score, G) /\ f = [k \in 0..n |-> f[k]] /\ f[0] = score
               /\ \A k \in 1..n : k \in 0..n /\ k # 0 /\ f[k - 1] \in Int /\ f[k] = G[k][f[k - 1]]
  BY <1>1, LoopIs
<1>5. \A i \in 1..n : f[i] = Step(i, f[i - 1])
  BY <1>2, <1>4
<1>6. All(f)
  <2> HIDE DEF Step
  <2>1. \A i \in 0..n : i = 0 \/ i \in 1..n
    BY <1>1
  <2>2. f = [i \in 0..n |-> IF i = 0 THEN score ELSE Step(i, f[i - 1])]
    BY <1>4, <1>5, <2>1
  <2> QED BY <2>2, Zenon DEF Step
<1>7. All(h)
  BY <1>6, Zenon DEF h
<1>8. h = [k \in 0..n |-> h[k]] /\ h[0] = score /\ \A k \in 1..n : h[k] = Step(k, h[k - 1])
  <2> HIDE DEF Step
  <2>1. h = [i \in 0..n |-> IF i = 0 THEN score ELSE Step(i, h[i - 1])]
    BY <1>7, Zenon DEF Step
  <2>2. 0 \in 0..n /\ \A k \in 1..n : k \in 0..n /\ k # 0
    BY <1>1
  <2> HIDE DEF All
  <2>3. \A k \in 0..n : h[k] = IF k = 0 THEN score ELSE Step(k, h[k - 1])
    BY <2>1
  <2>4. h = [k \in 0..n |-> h[k]]
    BY <2>1, <2>3
  <2> QED BY <2>2, <2>3, <2>4
<1>9. IsRun(h, n, Int, score, G)
  <2> HIDE DEF Step
  <2>1. \A k \in 1..n : h[k - 1] \in Int => h[k] = G[k][h[k - 1]]
    BY <1>2, <1>8
  <2> QED BY <1>1, <1>8, <2>1, RunStays
<1> QED BY <1>3, <1>9 DEF n, G

LEMMA TakenIs ==
  ASSUME NEW cs \in Seq(Charges), NEW score \in Int
  PROVE  \E f : IsRun(f, Len(cs), Int, score, FixedSteps(cs)) /\ Taken(score, cs) = f[Len(cs)]
<1> DEFINE n == Len(cs)
           s == score
           G == FixedSteps(cs)
           All(f) == f = [i \in 0..n |-> IF i = 0 THEN s
                                         ELSE IF cs[i].type # "fixed" THEN f[i - 1] ELSE f[i - 1] - cs[i].value]
           Step(i, x) == IF cs[i].type # "fixed" THEN x ELSE x - cs[i].value
           h == CHOOSE x : All(x)
<1>1. n \in Nat /\ G \in [1..n -> [Int -> Int]] /\ s \in Int
  BY StepsAre
<1>2. \A i \in 1..n, x \in Int : G[i][x] = Step(i, x)
  BY DEF FixedSteps, FixedStep
<1>3. Taken(score, cs) = h[n]
  BY DEF Taken
<1> HIDE DEF n, G, h, s
<1>4. PICK f : /\ IsRun(f, n, Int, s, G) /\ f = [k \in 0..n |-> f[k]] /\ f[0] = s
               /\ \A k \in 1..n : k \in 0..n /\ k # 0 /\ f[k - 1] \in Int /\ f[k] = G[k][f[k - 1]]
  BY <1>1, LoopIs
<1>5. \A i \in 1..n : f[i] = Step(i, f[i - 1])
  BY <1>2, <1>4
<1>6. All(f)
  <2> HIDE DEF Step
  <2>1. \A i \in 0..n : i = 0 \/ i \in 1..n
    BY <1>1
  <2>2. f = [i \in 0..n |-> IF i = 0 THEN s ELSE Step(i, f[i - 1])]
    BY <1>4, <1>5, <2>1
  <2> QED BY <2>2, Zenon DEF Step
<1>7. All(h)
  BY <1>6, Zenon DEF h
<1>8. h = [k \in 0..n |-> h[k]] /\ h[0] = s /\ \A k \in 1..n : h[k] = Step(k, h[k - 1])
  <2> HIDE DEF Step
  <2>1. h = [i \in 0..n |-> IF i = 0 THEN s ELSE Step(i, h[i - 1])]
    BY <1>7, Zenon DEF Step
  <2>2. 0 \in 0..n /\ \A k \in 1..n : k \in 0..n /\ k # 0
    BY <1>1
  <2> HIDE DEF All
  <2>3. \A k \in 0..n : h[k] = IF k = 0 THEN s ELSE Step(k, h[k - 1])
    BY <2>1
  <2>4. h = [k \in 0..n |-> h[k]]
    BY <2>1, <2>3
  <2> QED BY <2>2, <2>3, <2>4
<1>9. IsRun(h, n, Int, s, G)
  <2> HIDE DEF Step
  <2>1. \A k \in 1..n : h[k - 1] \in Int => h[k] = G[k][h[k - 1]]
    BY <1>2, <1>8
  <2> QED BY <1>1, <1>8, <2>1, RunStays
<1> QED BY <1>3, <1>9 DEF n, G, s

LEMMA RunningCutIs ==
  ASSUME NEW cs \in Seq(Charges), NEW score \in Int
  PROVE  \E f : IsRun(f, Len(cs), Int, score, PercentSteps(cs)) /\ RunningCut(score, cs) = f[Len(cs)]
<1> DEFINE n == Len(cs)
           s == score
           G == PercentSteps(cs)
           All(f) == f = [i \in 0..n |-> IF i = 0 THEN s
                                         ELSE LET before == f[i - 1]
                                                  delta == (before * cs[i].value) \div 100
                                              IN IF OnLine(cs[i], "percentage") THEN before - delta ELSE before]
           Step(i, x) == IF OnLine(cs[i], "percentage") THEN x - (x * cs[i].value) \div 100 ELSE x
           h == CHOOSE x : All(x)
<1>1. n \in Nat /\ G \in [1..n -> [Int -> Int]] /\ s \in Int
  BY StepsAre
<1>2. \A i \in 1..n, x \in Int : G[i][x] = Step(i, x)
  <2> SUFFICES ASSUME NEW i \in 1..n, NEW x \in Int PROVE G[i][x] = Step(i, x)
    OBVIOUS
  <2>1. cs[i].type \in {"percentage", "fixed"} /\ cs[i].value \in Nat
    BY StepsAre
  <2>2. G[i][x] = PercentStep(cs[i], x)
    BY DEF PercentSteps
  <2>3. cs[i].value > 0 \/ cs[i].value = 0
    BY <2>1
  <2> QED BY <2>1, <2>2, <2>3 DEF PercentStep, OnLine
<1>3. RunningCut(score, cs) = h[n]
  BY DEF RunningCut
<1> HIDE DEF n, G, h, s
<1>4. PICK f : /\ IsRun(f, n, Int, s, G) /\ f = [k \in 0..n |-> f[k]] /\ f[0] = s
               /\ \A k \in 1..n : k \in 0..n /\ k # 0 /\ f[k - 1] \in Int /\ f[k] = G[k][f[k - 1]]
  BY <1>1, LoopIs
<1>5. \A i \in 1..n : f[i] = Step(i, f[i - 1])
  BY <1>2, <1>4
<1>6. All(f)
  <2> HIDE DEF Step
  <2>1. \A i \in 0..n : i = 0 \/ i \in 1..n
    BY <1>1
  <2>2. f = [i \in 0..n |-> IF i = 0 THEN s ELSE Step(i, f[i - 1])]
    BY <1>4, <1>5, <2>1
  <2> QED BY <2>2, Zenon DEF Step
<1>7. All(h)
  BY <1>6, Zenon DEF h
<1>8. h = [k \in 0..n |-> h[k]] /\ h[0] = s /\ \A k \in 1..n : h[k] = Step(k, h[k - 1])
  <2> HIDE DEF Step
  <2>1. h = [i \in 0..n |-> IF i = 0 THEN s ELSE Step(i, h[i - 1])]
    BY <1>7, Zenon DEF Step
  <2>2. 0 \in 0..n /\ \A k \in 1..n : k \in 0..n /\ k # 0
    BY <1>1
  <2> HIDE DEF All
  <2>3. \A k \in 0..n : h[k] = IF k = 0 THEN s ELSE Step(k, h[k - 1])
    BY <2>1
  <2>4. h = [k \in 0..n |-> h[k]]
    BY <2>1, <2>3
  <2> QED BY <2>2, <2>3, <2>4
<1>9. IsRun(h, n, Int, s, G)
  <2> HIDE DEF Step
  <2>1. \A k \in 1..n : h[k - 1] \in Int => h[k] = G[k][h[k - 1]]
    BY <1>2, <1>8
  <2> QED BY <1>1, <1>8, <2>1, RunStays
<1> QED BY <1>3, <1>9 DEF n, G, s

LEMMA RunningIs ==
  ASSUME NEW cs \in Seq(Charges), NEW score \in Int, RunningCut(score, cs) \in Int
  PROVE  \E f : IsRun(f, Len(cs), Int, RunningCut(score, cs), FixedSteps(cs)) /\ Running(score, cs) = f[Len(cs)]
<1> DEFINE n == Len(cs)
           s == RunningCut(score, cs)
           G == FixedSteps(cs)
           All(f) == f = [i \in 0..n |-> IF i = 0 THEN s
                                         ELSE LET before == f[i - 1]
                                              IN IF OnLine(cs[i], "fixed") THEN before - cs[i].value ELSE before]
           Step(i, x) == IF OnLine(cs[i], "fixed") THEN x - cs[i].value ELSE x
           h == CHOOSE x : All(x)
<1>1. n \in Nat /\ G \in [1..n -> [Int -> Int]] /\ s \in Int
  BY StepsAre
<1>2. \A i \in 1..n, x \in Int : G[i][x] = Step(i, x)
  <2> SUFFICES ASSUME NEW i \in 1..n, NEW x \in Int PROVE G[i][x] = Step(i, x)
    OBVIOUS
  <2>1. cs[i].type \in {"percentage", "fixed"} /\ cs[i].value \in Nat
    BY StepsAre
  <2>2. G[i][x] = FixedStep(cs[i], x)
    BY DEF FixedSteps
  <2>3. cs[i].value > 0 \/ cs[i].value = 0
    BY <2>1
  <2> QED BY <2>1, <2>2, <2>3 DEF FixedStep, OnLine
<1>3. Running(score, cs) = h[n]
  BY DEF Running
<1> HIDE DEF n, G, h, s
<1>4. PICK f : /\ IsRun(f, n, Int, s, G) /\ f = [k \in 0..n |-> f[k]] /\ f[0] = s
               /\ \A k \in 1..n : k \in 0..n /\ k # 0 /\ f[k - 1] \in Int /\ f[k] = G[k][f[k - 1]]
  BY <1>1, LoopIs
<1>5. \A i \in 1..n : f[i] = Step(i, f[i - 1])
  BY <1>2, <1>4
<1>6. All(f)
  <2> HIDE DEF Step
  <2>1. \A i \in 0..n : i = 0 \/ i \in 1..n
    BY <1>1
  <2>2. f = [i \in 0..n |-> IF i = 0 THEN s ELSE Step(i, f[i - 1])]
    BY <1>4, <1>5, <2>1
  <2> QED BY <2>2, Zenon DEF Step
<1>7. All(h)
  BY <1>6, Zenon DEF h
<1>8. h = [k \in 0..n |-> h[k]] /\ h[0] = s /\ \A k \in 1..n : h[k] = Step(k, h[k - 1])
  <2> HIDE DEF Step
  <2>1. h = [i \in 0..n |-> IF i = 0 THEN s ELSE Step(i, h[i - 1])]
    BY <1>7, Zenon DEF Step
  <2>2. 0 \in 0..n /\ \A k \in 1..n : k \in 0..n /\ k # 0
    BY <1>1
  <2> HIDE DEF All
  <2>3. \A k \in 0..n : h[k] = IF k = 0 THEN s ELSE Step(k, h[k - 1])
    BY <2>1
  <2>4. h = [k \in 0..n |-> h[k]]
    BY <2>1, <2>3
  <2> QED BY <2>2, <2>3, <2>4
<1>9. IsRun(h, n, Int, s, G)
  <2> HIDE DEF Step
  <2>1. \A k \in 1..n : h[k - 1] \in Int => h[k] = G[k][h[k - 1]]
    BY <1>2, <1>8
  <2> QED BY <1>1, <1>8, <2>1, RunStays
<1> QED BY <1>3, <1>9 DEF n, G, s

LEMMA RunEnds ==
  ASSUME NEW n \in Nat, NEW S, NEW s, NEW G, NEW f, IsRun(f, n, S, s, G)
  PROVE  f[n] \in S
BY DEF IsRun

\* The lines follow the penalties, and what is left of a score is no more
\* than the score.
LEMMA PenaltiesAre ==
  ASSUME NEW cs \in Seq(Charges), NEW score \in Nat
  PROVE  /\ Penalised(score, cs) \in Nat
         /\ Running(score, cs) \in Int /\ Penalised(score, cs) = Most({0, Running(score, cs)}, 0)
         /\ (\A i \in DOMAIN cs : cs[i].type = "percentage" => cs[i].value <= 100) => Penalised(score, cs) <= score
<1> DEFINE n == Len(cs)
           P == PercentSteps(cs)
           F == FixedSteps(cs)
           cut == Cut(score, cs)
           left == Taken(cut, cs)
<1>1. /\ n \in Nat /\ score \in Int /\ P \in [1..n -> [Int -> Int]] /\ F \in [1..n -> [Int -> Int]] /\ DOMAIN cs = 1..n
      /\ \A i \in 1..n : cs[i].type \in {"percentage", "fixed"} /\ cs[i].value \in Nat
  BY StepsAre
<1>2. PICK f : IsRun(f, n, Int, score, P) /\ cut = f[n]
  BY <1>1, CutIs
<1>3. PICK g : IsRun(g, n, Int, score, P) /\ RunningCut(score, cs) = g[n]
  BY <1>1, RunningCutIs
<1>4. cut \in Int /\ RunningCut(score, cs) = cut
  <2> HIDE DEF P, n, cut
  <2>1. cut \in Int
    BY <1>1, <1>2, RunEnds, Zenon
  <2>2. f[n] = g[n]
    <3>1. n \in Nat
      BY <1>1
    <3>2. score \in Int
      BY <1>1
    <3> QED BY <3>1, <1>2, <1>3, RunsAgree, SMT
  <2> QED BY <1>2, <1>3, <2>1, <2>2
<1>5. PICK h : IsRun(h, n, Int, cut, F) /\ left = h[n]
  BY <1>4, TakenIs
<1>6. PICK e : IsRun(e, n, Int, cut, F) /\ Running(score, cs) = e[n]
  BY <1>1, <1>4, RunningIs
<1>7. left \in Int /\ Running(score, cs) = left
  BY <1>1, <1>4, <1>5, <1>6, RunEnds, RunsAgree
<1>8. Penalised(score, cs) = Most({0, left}, 0)
  BY DEF Penalised
<1>9. ASSUME \A i \in DOMAIN cs : cs[i].type = "percentage" => cs[i].value <= 100
      PROVE  left <= score
  <2>1. \A i \in 1..n, x \in Int : 0 <= x /\ x <= score => 0 <= P[i][x] /\ P[i][x] <= score
    <3> SUFFICES ASSUME NEW i \in 1..n, NEW x \in Int, 0 <= x, x <= score PROVE 0 <= P[i][x] /\ P[i][x] <= score
      OBVIOUS
    <3>1. P[i][x] = PercentStep(cs[i], x)
      BY DEF PercentSteps
    <3>2. CASE cs[i].type # "percentage"
      BY <3>1, <3>2 DEF PercentStep
    <3>3. CASE cs[i].type = "percentage"
      <4> DEFINE v == cs[i].value
                 y == x - (x * v) \div 100
      <4>1. v \in 0..100 /\ x \in 0..x /\ x \in Nat /\ x <= x
        <5>1. v \in Nat /\ v <= 100
          BY <1>1, <1>9, <3>3
        <5> HIDE DEF v
        <5> QED BY <5>1
      <4>2. P[i][x] = y
        BY <3>1, <3>3 DEF PercentStep
      <4>3. y \in 0..x
        <5> HIDE DEF v
        <5> QED BY <4>1, KeptGrows
      <4> HIDE DEF y
      <4> QED BY <4>1, <4>2, <4>3
    <3> QED BY <3>2, <3>3
  <2>2. f[0] = score /\ \A k \in 1..n : f[k - 1] \in Int /\ f[k] = P[k][f[k - 1]]
    <3>1. \A k \in 1..n : k - 1 \in 0..n
      <4>1. n \in Nat
        BY <1>1
      <4> HIDE DEF n
      <4> QED BY <4>1
    <3> QED BY <1>2, <3>1 DEF IsRun
  <2>3. 0..n \subseteq {k \in 0..n : 0 <= f[k] /\ f[k] <= score}
    <3> DEFINE T == {k \in 0..n : 0 <= f[k] /\ f[k] <= score}
    <3>1. 0 \in T
      BY <1>1, <2>2
    <3>2. ASSUME NEW k \in 1..n, k - 1 \in T PROVE k \in T
      <4>1. 0 <= P[k][f[k - 1]] /\ P[k][f[k - 1]] <= score /\ k \in 0..n
        BY <1>1, <2>1, <2>2, <3>2
      <4> QED BY <2>2, <4>1
    <3> HIDE DEF T
    <3>3. 0..n \subseteq T
      BY <1>1, <3>1, <3>2, UpTo
    <3> QED BY <3>3 DEF T
  <2>4. cut <= score
    BY <1>1, <1>2, <2>3
  <2>5. \A i \in 1..n, x \in Int : F[i][x] \in Int /\ F[i][x] <= x
    BY <1>1 DEF FixedSteps, FixedStep
  <2>6. h[0] = cut /\ \A k \in 1..n : h[k - 1] \in Int /\ h[k] = F[k][h[k - 1]]
    <3>1. \A k \in 1..n : k - 1 \in 0..n
      BY <1>1
    <3> QED BY <1>5, <3>1 DEF IsRun
  <2>7. 0..n \subseteq {k \in 0..n : h[k] <= cut}
    <3> DEFINE T == {k \in 0..n : h[k] <= cut}
    <3> HIDE DEF cut
    <3>1. 0 \in T
      BY <1>1, <1>4, <2>6
    <3>2. ASSUME NEW k \in 1..n, k - 1 \in T PROVE k \in T
      <4>1. F[k][h[k - 1]] \in Int /\ F[k][h[k - 1]] <= h[k - 1] /\ h[k - 1] <= cut /\ h[k - 1] \in Int /\ k \in 0..n
        BY <1>1, <2>5, <2>6, <3>2
      <4> HIDE DEF F
      <4> QED BY <1>4, <2>6, <4>1
    <3> HIDE DEF T
    <3>3. 0..n \subseteq T
      BY <1>1, <3>1, <3>2, UpTo
    <3> QED BY <3>3 DEF T
  <2>8. left <= cut
    BY <1>1, <1>5, <2>7
  <2> HIDE DEF left, cut
  <2> QED BY <1>1, <1>4, <1>7, <2>4, <2>8
<1> HIDE DEF left, cut
<1>10. Most({0, left}, 0) = IF 0 <= left THEN left ELSE 0
  <2>1. 0 \in Int
    OBVIOUS
  <2> QED BY <1>7, <2>1, MostOfTwo
<1>11. Most({0, left}, 0) \in Nat /\ (left <= score => Most({0, left}, 0) <= score)
  BY <1>7, <1>10
<1> QED BY <1>7, <1>8, <1>9, <1>11

\* The numbers on the sheet
LEMMA NumbersAre ==
  ASSUME GapInv, NEW p \in DOMAIN sheet
  PROVE  /\ sheet[p].raw \in Nat /\ sheet[p].adjusted \in Nat /\ sheet[p].final \in Nat
         /\ charged[p] \in Seq(Charges) /\ sheet[p].final = Penalised(sheet[p].adjusted, charged[p])
         /\ Moderate(p) => sheet[p].final \in 0..sheet[p].adjusted
<1> DEFINE f == Formula(event)
           r == Results
           t == DayTotals
           raw == RawOf(f, r, t)
<1>1. /\ IsFormula(f) /\ IsField(r) /\ IsTotals(f, r, t) /\ DOMAIN sheet = DOMAIN r
      /\ \A q \in DOMAIN sheet :
              /\ q \in Rivals
              /\ sheet[q].raw = TotalPoints(GapPoints(f, r, t, q), r[q])
              /\ sheet[q].adjusted = Adjusted(event, raw, entry)[q]
              /\ sheet[q].final = Penalised(Adjusted(event, raw, entry)[q], charged[q])
  BY SheetIs, Zenon
<1> HIDE DEF f, r, t
<1>2. DOMAIN raw = DOMAIN sheet /\ \A q \in DOMAIN sheet : raw[q] = sheet[q].raw
  BY <1>1 DEF RawOf
<1>3. \A q \in DOMAIN sheet : sheet[q].raw \in Nat
  BY <1>1, PointsWithin
<1>4. DOMAIN raw \subseteq Rivals /\ \A q \in DOMAIN raw : raw[q] \in Nat
  BY <1>1, <1>2, <1>3
<1> HIDE DEF raw
<1>5. event \in EventRecords /\ charged[p] \in Seq(Charges)
  BY <1>1 DEF GapInv
<1>6. Adjusted(event, raw, entry)[p] \in Nat
  BY <1>2, <1>4, <1>5, AdjustedIs, Zenon
<1> DEFINE a == Adjusted(event, raw, entry)[p]
<1>7. /\ Penalised(a, charged[p]) \in Nat
      /\ (\A i \in DOMAIN charged[p] : charged[p][i].type = "percentage" => charged[p][i].value <= 100) => Penalised(a, charged[p]) <= a
  BY <1>5, <1>6, PenaltiesAre
<1>8. sheet[p].adjusted = a /\ sheet[p].final = Penalised(a, charged[p])
  BY <1>1
<1> HIDE DEF a
<1>9. Moderate(p) => Penalised(a, charged[p]) <= a
  BY <1>7 DEF Moderate
<1> QED BY <1>3, <1>5, <1>6, <1>7, <1>8, <1>9 DEF a

LEMMA LinesDo == GapInv => LinesExplain
<1> SUFFICES ASSUME GapInv, NEW p \in DOMAIN sheet, Moderate(p)
             PROVE  ShownPenalty(sheet[p].adjusted, charged[p]) = sheet[p].adjusted - sheet[p].final
  BY DEF LinesExplain
<1> DEFINE a == sheet[p].adjusted
           z == sheet[p].final
           cs == charged[p]
<1>1. a \in Nat /\ z \in Nat /\ z <= a /\ cs \in Seq(Charges) /\ z = Penalised(a, cs)
  BY NumbersAre
<1> HIDE DEF a, z, cs
<1>2. Penalised(a, cs) = Most({0, Running(a, cs)}, 0)
  BY <1>1, PenaltiesAre
<1>3. ShownPenalty(a, cs) = Most({0, a - z}, 0)
  BY <1>1, <1>2 DEF ShownPenalty
<1> DEFINE k == a - z
<1>4. k \in Int /\ 0 \in Int /\ 0 <= k
  BY <1>1
<1>5. Most({0, k}, 0) = k
  <2> HIDE DEF k
  <2> QED BY <1>4, MostOfTwo
<1> QED BY <1>3, <1>5 DEF a, z, cs

-----------------------------------------------------------------------------
(* The ranks.                                                              *)

AreKeys(k, S) == \A p \in S : k[p] \in [1..4 -> Int]

\* Four numbers order the pilots, and where all four are equal another order does.
LEMMA KeysOrder ==
  ASSUME NEW S, NEW k, AreKeys(k, S), NEW A, IsOrder(A, S), NEW B,
         \A p, q \in S : <<p, q>> \in B <=> Lower(k[p], k[q]) \/ (k[p] = k[q] /\ <<p, q>> \in A)
  PROVE  IsOrder(B, S)
<1> DEFINE a == [p \in S |-> k[p][1]]
           b == [p \in S |-> k[p][2]]
           c == [p \in S |-> k[p][3]]
           d == [p \in S |-> k[p][4]]
           Low(p, q) == \/ a[p] < a[q]
                        \/ a[p] = a[q] /\ (b[p] < b[q] \/ (b[p] = b[q] /\ (c[p] < c[q] \/ (c[p] = c[q] /\ d[p] < d[q]))))
           Even(p, q) == a[p] = a[q] /\ b[p] = b[q] /\ c[p] = c[q] /\ d[p] = d[q]
<1>1. \A p \in S : a[p] \in Int /\ b[p] \in Int /\ c[p] \in Int /\ d[p] \in Int
  BY DEF AreKeys
<1>2. \A p, q \in S : Lower(k[p], k[q]) <=> Low(p, q)
  <2> SUFFICES ASSUME NEW p \in S, NEW q \in S PROVE Lower(k[p], k[q]) <=> Low(p, q)
    OBVIOUS
  <2>1. DOMAIN k[p] = 1..4
    BY DEF AreKeys
  <2>2. a[p] = k[p][1] /\ b[p] = k[p][2] /\ c[p] = k[p][3] /\ d[p] = k[p][4]
    OBVIOUS
  <2>3. a[q] = k[q][1] /\ b[q] = k[q][2] /\ c[q] = k[q][3] /\ d[q] = k[q][4]
    OBVIOUS
  <2> DEFINE x == k[p]
             y == k[q]
  <2>4. Lower(x, y)
            <=> \/ x[1] < y[1]
                \/ /\ x[1] = y[1]
                   /\ \/ x[2] < y[2]
                      \/ x[2] = y[2] /\ (x[3] < y[3] \/ (x[3] = y[3] /\ x[4] < y[4]))
    <3>1. DOMAIN x = 1..4
      BY <2>1
    <3> HIDE DEF x, y
    <3> QED BY <3>1, LowerFour, Zenon
  <2> HIDE DEF a, b, c, d
  <2> QED BY <2>2, <2>3, <2>4, Zenon
<1>3. \A p, q \in S : k[p] = k[q] => Even(p, q)
  OBVIOUS
<1>4. \A p \in S : k[p] = [i \in 1..4 |-> k[p][i]]
  BY DEF AreKeys
<1>5. \A p, q \in S : Even(p, q) => k[p] = k[q]
  <2> SUFFICES ASSUME NEW p \in S, NEW q \in S, Even(p, q) PROVE k[p] = k[q]
    OBVIOUS
  <2>1. \A i \in 1..4 : i \in {1, 2, 3, 4}
    OBVIOUS
  <2>2. \A i \in 1..4 : k[p][i] = k[q][i]
    BY <2>1
  <2>3. DOMAIN k[p] = 1..4 /\ DOMAIN k[q] = 1..4
    BY DEF AreKeys
  <2> QED BY <1>4, <2>2, <2>3
<1> HIDE DEF a, b, c, d
<1>6. \A p, q \in S : <<p, q>> \in B <=> Low(p, q) \/ (Even(p, q) /\ <<p, q>> \in A)
  <2> HIDE DEF Low, Even
  <2> QED BY <1>2, <1>3, <1>5, Zenon
<1>7. \A p \in S : <<p, p>> \notin B
  <2> SUFFICES ASSUME NEW p \in S PROVE <<p, p>> \notin B
    OBVIOUS
  <2>1. ~Low(p, p)
    BY <1>1
  <2>2. <<p, p>> \notin A
    BY DEF IsOrder
  <2> HIDE DEF Low, Even
  <2> QED BY <1>6, <2>1, <2>2
<1>8. ASSUME NEW p \in S, NEW q \in S, p # q PROVE <<p, q>> \in B \/ <<q, p>> \in B
  <2>1. <<p, q>> \in A \/ <<q, p>> \in A
    BY <1>8 DEF IsOrder
  <2>2. Low(p, q) \/ Low(q, p) \/ (Even(p, q) /\ Even(q, p))
    BY <1>1
  <2> HIDE DEF Low, Even
  <2> QED BY <1>6, <2>1, <2>2
<1>9. ASSUME NEW p \in S, NEW q \in S, NEW o \in S, <<p, q>> \in B, <<q, o>> \in B PROVE <<p, o>> \in B
  <2>1. <<p, q>> \in A /\ <<q, o>> \in A => <<p, o>> \in A
    BY DEF IsOrder
  <2>2. /\ Low(p, q) /\ Low(q, o) => Low(p, o)
        /\ Low(p, q) /\ Even(q, o) => Low(p, o)
        /\ Even(p, q) /\ Low(q, o) => Low(p, o)
        /\ Even(p, q) /\ Even(q, o) => Even(p, o)
    BY <1>1
  <2>3. (Low(p, q) \/ (Even(p, q) /\ <<p, q>> \in A)) /\ (Low(q, o) \/ (Even(q, o) /\ <<q, o>> \in A))
    BY <1>6, <1>9
  <2>4. <<p, o>> \in B <=> Low(p, o) \/ (Even(p, o) /\ <<p, o>> \in A)
    BY <1>6
  <2> HIDE DEF Low, Even
  <2> QED BY <2>1, <2>2, <2>3, <2>4
<1> QED BY <1>7, <1>8, <1>9, Zenon DEF IsOrder

LEMMA RatedIs ==
  ASSUME GapInv
  PROVE  {Rank(event, entry, sheet, p) : p \in Rated} = 1..Count(Rated)
<1> DEFINE r == Results
           S == Rated
           key == [p \in S |-> Key(event, entry, sheet, p)]
           A == {o \in S \X S : Ahead(r, o[1], o[2])}
           B == {o \in S \X S : Lower(key[o[1]], key[o[2]]) \/ (key[o[1]] = key[o[2]] /\ <<o[1], o[2]>> \in A)}
<1>1. /\ IsField(r) /\ DOMAIN sheet = DOMAIN r
      /\ \A q \in DOMAIN sheet : q \in Rivals /\ entry[q] \in Outings
  BY SheetIs, Zenon
<1>2. S \subseteq DOMAIN r /\ S \subseteq DOMAIN sheet
  BY <1>1 DEF Rated
<1>3. IsFiniteSet(S)
  <2>1. IsFiniteSet(DOMAIN r)
    BY <1>1 DEF IsField
  <2> HIDE DEF r, S
  <2> QED BY <1>2, <2>1, FS_Subset
<1>4. \A p, q \in S : <<p, q>> \in A <=> Ahead(r, p, q)
  OBVIOUS
<1>5. IsOrder(A, S)
  <2> HIDE DEF A, r, S
  <2>1. \A p \in S : <<p, p>> \notin A
    BY <1>1, <1>2, <1>4, AheadIsOrder
  <2>2. \A p, q \in S : p # q => <<p, q>> \in A \/ <<q, p>> \in A
    BY <1>1, <1>2, <1>4, AheadIsOrder
  <2>3. ASSUME NEW p \in S, NEW q \in S, NEW o \in S, <<p, q>> \in A, <<q, o>> \in A PROVE <<p, o>> \in A
    BY <1>1, <1>2, <1>4, <2>3, AheadIsOrder
  <2> QED BY <2>1, <2>2, <2>3, Zenon DEF IsOrder
<1>6. AreKeys(key, S)
  <2> SUFFICES ASSUME NEW p \in S PROVE Key(event, entry, sheet, p) \in [1..4 -> Int]
    BY DEF AreKeys
  <2>1. sheet[p].raw \in Nat /\ sheet[p].final \in Nat /\ entry[p] \in Outings
    BY <1>1, <1>2, NumbersAre
  <2>2. entry[p].start \in Nat /\ entry[p].ess \in Nat /\ entry[p].dist \in Nat
    <3>1. CASE entry[p] \in FlightRecords
      BY <3>1 DEF FlightRecords
    <3>2. CASE entry[p] \in StatusOnly
      <4>1. PICK st \in {"minimum_distance", "did_not_fly", "absent"} : entry[p] = NoFlight(st)
        BY <3>2 DEF StatusOnly
      <4>2. entry[p].start = 0 /\ entry[p].ess = 0 /\ entry[p].dist = 0
        BY <4>1 DEF NoFlight
      <4> QED BY <4>2
    <3> QED BY <2>1, <3>1, <3>2 DEF Outings
  <2>3. StatusOrder[entry[p].status] \in Int
    <3>1. entry[p].status \in Competitive
      BY DEF Rated
    <3> QED BY <3>1 DEF Competitive, StatusOrder
  <2> DEFINE k1 == -(IF event.handicap THEN sheet[p].final ELSE sheet[p].raw)
             k2 == StatusOrder[entry[p].status]
             k3 == IF entry[p].ess > entry[p].start THEN entry[p].ess - entry[p].start ELSE 99
             k4 == -entry[p].dist
  <2>4. k1 \in Int /\ k2 \in Int /\ k3 \in Int /\ k4 \in Int
    BY <2>1, <2>2, <2>3
  <2>5. Key(event, entry, sheet, p) = <<k1, k2, k3, k4>>
    BY DEF Key
  <2> HIDE DEF k1, k2, k3, k4
  <2>6. \A i \in 1..4 : i \in {1, 2, 3, 4}
    OBVIOUS
  <2> QED BY <2>4, <2>5, <2>6
<1>7. \A p, q \in S : <<p, q>> \in B <=> Lower(key[p], key[q]) \/ (key[p] = key[q] /\ <<p, q>> \in A)
  <2> HIDE DEF A, key, S
  <2> QED OBVIOUS
<1>8. IsOrder(B, S)
  <2> HIDE DEF A, B, key, S
  <2> QED BY <1>5, <1>6, <1>7, KeysOrder
<1>9. {1 + Cardinality({o \in S : <<o, p>> \in B}) : p \in S} = 1..Cardinality(S)
  <2> HIDE DEF B, S
  <2> QED BY <1>3, <1>8, RanksAre
<1>10. ASSUME NEW p \in S PROVE Rank(event, entry, sheet, p) = 1 + Cardinality({o \in S : <<o, p>> \in B})
  <2> DEFINE T == {q \in DOMAIN sheet : entry[q].status \in Competitive /\
                  (Lower(Key(event, entry, sheet, q), Key(event, entry, sheet, p))
                   \/ (Key(event, entry, sheet, q) = Key(event, entry, sheet, p) /\ Ahead(r, q, p)))}
  <2>1. Rank(event, entry, sheet, p) = 1 + Cardinality(T)
    BY Zenon DEF Rank, Count, Results
  <2>2. \A q \in S : key[q] = Key(event, entry, sheet, q)
    OBVIOUS
  <2>3. \A q : q \in S <=> q \in DOMAIN sheet /\ entry[q].status \in Competitive
    BY DEF Rated
  <2> HIDE DEF A, B, key, S, r
  <2>4. T = {o \in S : <<o, p>> \in B}
    <3>1. \A q \in S : q \in T <=> <<q, p>> \in B
      BY <1>4, <1>7, <2>2, <2>3
    <3>2. T \subseteq S
      BY <2>3
    <3> HIDE DEF T
    <3> QED BY <3>1, <3>2
  <2> QED BY <2>1, <2>4
<1> HIDE DEF B
<1>11. {Rank(event, entry, sheet, p) : p \in S} = {1 + Cardinality({o \in S : <<o, p>> \in B}) : p \in S}
  BY <1>10
<1> QED BY <1>9, <1>11 DEF Count

LEMMA GapTyped == GapInv => GapTypeOK
<1> SUFFICES ASSUME GapInv PROVE GapTypeOK
  OBVIOUS
<1> DEFINE f == Formula(event)
           r == Results
           t == DayTotals
           a == Available
<1>1. /\ IsFormula(f) /\ IsField(r) /\ IsTotals(f, r, t) /\ DOMAIN sheet = DOMAIN r /\ Available = Weights(f, t)
      /\ \A p \in DOMAIN sheet : sheet[p].points = GapPoints(f, r, t, p)
  BY SheetIs, Zenon
<1> HIDE DEF f, r, t, a
<1>2. a = Weights(f, t)
  BY <1>1 DEF a
<1>3. a.distance + a.speed + a.start + a.arrival <= Quality(f, t)
  BY <1>1, <1>2, WeightsAre
<1>4. ASSUME NEW p \in DOMAIN sheet
      PROVE  LET s == sheet[p] IN
             /\ s.points.distance \in 0..a.distance /\ (SpeedCounts => s.points.speed \in 0..a.speed)
             /\ s.points.arrival \in 0..a.arrival
             /\ f.departure # "departure" => s.points.departure \in 0..a.start
             /\ Moderate(p) => s.final \in 0..s.adjusted
  <2> DEFINE s == sheet[p].points
  <2>1. s = GapPoints(f, r, t, p) /\ p \in DOMAIN r
    BY <1>1
  <2> HIDE DEF s
  <2>2. /\ s.distance \in 0..a.distance /\ s.arrival \in 0..a.arrival
        /\ a.speed >= 0 => s.speed \in 0..a.speed
        /\ f.departure # "departure" => s.departure \in 0..a.start
    BY <1>1, <1>2, <2>1, PointsWithin
  <2>3. SpeedCounts => a.speed >= 0
    BY DEF SpeedCounts, a
  <2>4. Moderate(p) => sheet[p].final \in 0..sheet[p].adjusted
    BY NumbersAre
  <2> QED BY <2>2, <2>3, <2>4, Zenon DEF s
<1>5. {Rank(event, entry, sheet, p) : p \in Rated} = 1..Count(Rated)
  BY RatedIs
<1> QED BY <1>3, <1>4, <1>5, Zenon DEF GapTypeOK, f, t, a

-----------------------------------------------------------------------------
(* Pilots that exchange their flights.                                     *)

IsSwap(w, D) == w \in [D -> D] /\ \A x \in D : w[w[x]] = x
Swapped(w, r) == [x \in DOMAIN r |-> r[w[x]]]
Moved(w, T) == {x \in DOMAIN w : w[x] \in T}

LEMMA MovedIs ==
  ASSUME NEW D, NEW w, IsSwap(w, D), NEW T \in SUBSET D
  PROVE  /\ Moved(w, T) \subseteq D /\ (\A x \in D : x \in Moved(w, T) <=> w[x] \in T)
         /\ \A x \in Moved(w, T) : w[x] \in T
         /\ \A y \in T : w[y] \in Moved(w, T) /\ w[w[y]] = y
         /\ Moved(w, T) = {} <=> T = {}
<1>1. DOMAIN w = D /\ \A x \in D : w[x] \in D /\ w[w[x]] = x
  BY DEF IsSwap
<1>2. \A x \in D : x \in Moved(w, T) <=> w[x] \in T
  BY <1>1 DEF Moved
<1>3. Moved(w, T) \subseteq D
  BY <1>1 DEF Moved
<1>4. \A y \in T : w[y] \in Moved(w, T) /\ w[w[y]] = y
  BY <1>1, <1>2
<1> QED BY <1>2, <1>3, <1>4

LEMMA SwapCounts ==
  ASSUME NEW D, IsFiniteSet(D), NEW w, IsSwap(w, D), NEW T \in SUBSET D
  PROVE  IsFiniteSet(Moved(w, T)) /\ Count(Moved(w, T)) = Count(T)
<1> DEFINE M == Moved(w, T)
           g == [x \in M |-> w[x]]
           h == [y \in T |-> w[y]]
<1>1. M \subseteq D /\ (\A x \in M : w[x] \in T) /\ \A y \in T : w[y] \in M /\ w[w[y]] = y
  BY MovedIs
<1>2. \A x \in M : w[w[x]] = x
  BY <1>1 DEF IsSwap
<1> HIDE DEF M
<1>3. IsFiniteSet(M) /\ IsFiniteSet(T)
  BY <1>1, FS_Subset
<1>4. g \in Surjection(M, T) /\ h \in Surjection(T, M)
  <2>1. \A y \in T : \E x \in M : g[x] = y
    BY <1>1
  <2>2. \A x \in M : \E y \in T : h[y] = x
    BY <1>1, <1>2
  <2>3. g \in [M -> T] /\ h \in [T -> M]
    BY <1>1
  <2> HIDE DEF g, h
  <2> QED BY <2>1, <2>2, <2>3 DEF Surjection
<1> HIDE DEF g, h
<1>5. Cardinality(T) <= Cardinality(M) /\ Cardinality(M) <= Cardinality(T)
  BY <1>3, <1>4, FS_Surjection
<1>6. Cardinality(T) \in Nat /\ Cardinality(M) \in Nat
  BY <1>3, FS_CardinalityType
<1> QED BY <1>3, <1>5, <1>6 DEF Count, M

LEMMA SwapSums ==
  ASSUME NEW D, IsFiniteSet(D), NEW w, IsSwap(w, D), NEW S \in SUBSET D, NEW f, \A x \in S : f[x] \in Nat,
         NEW e, \A x \in Moved(w, S) : e[x] = f[w[x]]
  PROVE  SumFunctionOnSet(e, Moved(w, S)) = SumFunctionOnSet(f, S)
<1> DEFINE M == Moved(w, S)
<1>1. M \subseteq D /\ (\A x \in M : w[x] \in S) /\ \A y \in S : w[y] \in M /\ w[w[y]] = y
  BY MovedIs
<1>2. IsFiniteSet(M) /\ IsFiniteSet(S)
  BY <1>1, FS_Subset
<1>3. \A x \in M : e[x] \in Nat
  BY <1>1
<1>4. PICK g : IsSum(g, f, S) /\ SumFunctionOnSet(f, S) = g[S]
  BY <1>2, SumIs
<1>5. PICK h : IsSum(h, e, M) /\ SumFunctionOnSet(e, M) = h[M]
  <2> HIDE DEF M
  <2> QED BY <1>2, <1>3, SumIs
<1> DEFINE B == {s \in SUBSET S : h[Moved(w, s)] # g[s]}
<1>6. B = {}
  <2> SUFFICES ASSUME B # {} PROVE FALSE
    OBVIOUS
  <2>1. PICK Q \in B : \A x \in Q : Q \ {x} \notin B
    <3>1. B \subseteq SUBSET S
      OBVIOUS
    <3> HIDE DEF B
    <3> QED BY <1>2, <3>1, SmallestSubset
  <2>2. Q \subseteq S /\ h[Moved(w, Q)] # g[Q]
    BY <2>1
  <2>3. CASE Q = {}
    <3>1. Moved(w, Q) = {}
      BY <2>3 DEF Moved
    <3> QED BY <1>4, <1>5, <2>2, <2>3, <3>1 DEF IsSum
  <2>4. CASE Q # {}
    <3>1. PICK y \in Q : TRUE
      BY <2>4
    <3>2. Moved(w, Q) \in SUBSET M /\ w[y] \in Moved(w, Q) /\ w[w[y]] = y
      <4>1. Moved(w, Q) \subseteq M
        BY <2>2 DEF Moved
      <4>2. Q \in SUBSET D
        BY <2>2
      <4> QED BY <3>1, <4>1, <4>2, MovedIs
    <3>3. Moved(w, Q \ {y}) = Moved(w, Q) \ {w[y]}
      <4>1. \A x \in D : w[w[x]] = x
        BY DEF IsSwap
      <4>2. \A x \in DOMAIN w : w[x] \in Q \ {y} <=> w[x] \in Q /\ x # w[y]
        BY <2>2, <3>1, <3>2, <4>1 DEF IsSwap
      <4> QED BY <4>2 DEF Moved
    <3>4. h[Moved(w, Q \ {y})] = g[Q \ {y}]
      <4>1. Q \ {y} \notin B /\ Q \ {y} \in SUBSET S
        BY <2>1, <2>2, <3>1
      <4> QED BY <4>1
    <3>5. g[Q] = f[y] + g[Q \ {y}]
      BY <1>2, <1>4, <2>2, <3>1, SumRemoves
    <3>6. h[Moved(w, Q)] = e[w[y]] + h[Moved(w, Q) \ {w[y]}]
      <4> DEFINE R == Moved(w, Q)
                 v == w[y]
      <4>1. R \in SUBSET M /\ v \in R /\ IsFiniteSet(M) /\ IsSum(h, e, M)
        BY <1>2, <1>5, <3>2
      <4> HIDE DEF M, R, v
      <4>2. h[R] = e[v] + h[R \ {v}]
        BY <1>3, <4>1, SumRemoves
      <4> QED BY <4>2 DEF R, v
    <3>7. e[w[y]] = f[y]
      BY <3>2
    <3> QED BY <2>2, <3>3, <3>4, <3>5, <3>6, <3>7
  <2> QED BY <2>3, <2>4
<1>7. h[M] = g[S]
  BY <1>6
<1> QED BY <1>4, <1>5, <1>7

\* What is known of totals that differ in their order only
SameTotals(w, t, u) ==
    /\ u.pilots = t.pilots /\ u.launched = t.launched /\ u.goal = t.goal /\ u.ess = t.ess /\ u.distance = t.distance
    /\ u.maxdist = t.maxdist /\ u.fastest = t.fastest /\ u.tqtime = t.tqtime /\ u.firstdepart = t.firstdepart
    /\ u.firstarrival = t.firstarrival /\ u.lastarrival = t.lastarrival /\ u.mincoeff = t.mincoeff
    /\ u.lookahead = t.lookahead /\ u.spread = Moved(w, t.spread)

LEMMA SwapGroups ==
  ASSUME NEW f, NEW r, NEW w, IsSwap(w, DOMAIN r), NEW z, z = Swapped(w, r)
  PROVE  /\ Active(z) = Moved(w, Active(r)) /\ Scorable(z) = Moved(w, Scorable(r)) /\ Timed(z) = Moved(w, Timed(r))
         /\ InGoal(z) = Moved(w, InGoal(r)) /\ Launched(z) = Moved(w, Launched(r)) /\ Leaders(z) = Moved(w, Leaders(r))
         /\ Spread(f, z) = Moved(w, Spread(f, r))
<1> DEFINE D == DOMAIN r
<1>1. DOMAIN z = D /\ DOMAIN w = D /\ \A x \in D : z[x] = r[w[x]] /\ w[x] \in D
  BY DEF IsSwap, Swapped
<1>2. Active(z) = Moved(w, Active(r))
  BY <1>1 DEF Active, Moved
<1>3. Active(z) \subseteq D /\ \A x \in D : x \in Active(z) <=> w[x] \in Active(r)
  BY <1>1, <1>2 DEF Active, Moved
<1>4. Timed(z) = Moved(w, Timed(r))
  BY <1>1, <1>3 DEF Timed, Moved
<1>5. Scorable(z) = Moved(w, Scorable(r)) /\ InGoal(z) = Moved(w, InGoal(r))
  BY <1>1, <1>3 DEF Scorable, InGoal, Moved
<1>6. Launched(z) = Moved(w, Launched(r))
  BY <1>1, <1>3 DEF Launched, Flew, Moved
<1>7. Leaders(z) = Moved(w, Leaders(r))
  <2> DEFINE R == IF Timed(r) # {} THEN Timed(r) ELSE Active(r)
             Z == IF Timed(z) # {} THEN Timed(z) ELSE Active(z)
  <2>1. Timed(r) \subseteq D /\ Active(r) \subseteq D
    BY DEF Timed, Active
  <2>2. Timed(z) # {} <=> Timed(r) # {}
    <3>1. Timed(r) \in SUBSET D
      BY <2>1
    <3> QED BY <1>4, <3>1, MovedIs
  <2>3. Z = Moved(w, R)
    BY <1>2, <1>4, <2>2
  <2>4. Leaders(r) = {p \in R : r[p].lead > 0} /\ Leaders(z) = {p \in Z : z[p].lead > 0}
    BY DEF Leaders
  <2> HIDE DEF R, Z
  <2> QED BY <1>1, <2>3, <2>4 DEF Moved
<1>8. Spread(f, z) = Moved(w, Spread(f, r))
  BY <1>5 DEF Spread, Moved
<1> QED BY <1>2, <1>4, <1>5, <1>6, <1>7, <1>8

\* What the pilots of a group flew
TheTimes(r, T) == {r[p].time : p \in T}
TheStarts(r, T) == {r[p].start : p \in T}
TheEnds(r, T) == {r[p].end : p \in T}
TheLeads(r, T) == {r[p].lead : p \in T}
TheDists(r, T) == {r[p].dist : p \in T}

LEMMA SwapImages ==
  ASSUME NEW r, NEW w, IsSwap(w, DOMAIN r), NEW z, z = Swapped(w, r), NEW T \in SUBSET DOMAIN r
  PROVE  /\ TheTimes(z, Moved(w, T)) = TheTimes(r, T)
         /\ TheStarts(z, Moved(w, T)) = TheStarts(r, T)
         /\ TheEnds(z, Moved(w, T)) = TheEnds(r, T)
         /\ TheLeads(z, Moved(w, T)) = TheLeads(r, T)
         /\ TheDists(z, Moved(w, T)) = TheDists(r, T)
<1>1. /\ Moved(w, T) \subseteq DOMAIN r /\ \A x \in Moved(w, T) : w[x] \in T
      /\ \A y \in T : w[y] \in Moved(w, T) /\ w[w[y]] = y
  BY MovedIs
<1>2. (\A x \in Moved(w, T) : w[x] \in T /\ z[x] = r[w[x]]) /\ \A y \in T : w[y] \in Moved(w, T) /\ z[w[y]] = r[y]
  BY <1>1 DEF Swapped
<1> HIDE DEF Moved
<1>3. TheTimes(z, Moved(w, T)) = TheTimes(r, T)
  BY <1>2 DEF TheTimes
<1>4. TheStarts(z, Moved(w, T)) = TheStarts(r, T)
  BY <1>2 DEF TheStarts
<1>5. TheEnds(z, Moved(w, T)) = TheEnds(r, T)
  BY <1>2 DEF TheEnds
<1>6. TheLeads(z, Moved(w, T)) = TheLeads(r, T)
  BY <1>2 DEF TheLeads
<1>7. TheDists(z, Moved(w, T)) = TheDists(r, T)
  BY <1>2 DEF TheDists
<1> QED BY <1>3, <1>4, <1>5, <1>6, <1>7

\* The times of all but the fastest, whoever comes first of equals
\* Those who are not alone the fastest
BehindOne(r) == {x \in Timed(r) : \E q \in Timed(r) : q # x /\ r[q].time <= r[x].time}

LEMMA SecondTimes ==
  ASSUME NEW r, IsField(r)
  PROVE  TheTimes(r, Second(r)) =
           TheTimes(r, BehindOne(r))
<1> DEFINE S == {x \in Timed(r) : \E q \in Timed(r) : q # x /\ r[q].time <= r[x].time}
<1>0. S = BehindOne(r)
  BY DEF BehindOne
<1>1. \A p \in Timed(r) : p \in Nat /\ r[p].time \in Nat
  BY DEF Timed, Active, IsField, IsPilot
<1>2. Second(r) \subseteq S
  BY <1>1 DEF Second
<1>3. ASSUME NEW p \in S PROVE \E x \in Second(r) : r[x].time = r[p].time
  <2>1. PICK q \in Timed(r) : q # p /\ r[q].time <= r[p].time
    OBVIOUS
  <2>2. p \in Timed(r)
    OBVIOUS
  <2>3. CASE r[q].time < r[p].time \/ q < p
    <3>1. p \in Second(r)
      BY <1>1, <2>1, <2>2, <2>3 DEF Second
    <3> QED BY <3>1
  <2>4. CASE ~(r[q].time < r[p].time \/ q < p)
    <3>1. r[q].time = r[p].time /\ p < q
      BY <1>1, <2>1, <2>2, <2>4
    <3>2. q \in Second(r)
      BY <2>1, <2>2, <3>1 DEF Second
    <3> QED BY <3>1, <3>2
  <2> QED BY <2>3, <2>4
<1> HIDE DEF S
<1>4. TheTimes(r, Second(r)) = TheTimes(r, S)
  BY <1>2, <1>3 DEF TheTimes
<1> QED BY <1>0, <1>4

LEMMA SwapSecond ==
  ASSUME NEW r, IsField(r), NEW w, IsSwap(w, DOMAIN r), NEW z, IsField(z), z = Swapped(w, r)
  PROVE  TheTimes(z, Second(z)) = TheTimes(r, Second(r))
<1> DEFINE D == DOMAIN r
           S == {x \in Timed(r) : \E q \in Timed(r) : q # x /\ r[q].time <= r[x].time}
           Z == {x \in Timed(z) : \E q \in Timed(z) : q # x /\ z[q].time <= z[x].time}
<1>0. S = BehindOne(r) /\ Z = BehindOne(z)
  BY Zenon DEF BehindOne
<1>1. Timed(r) \in SUBSET D
  BY DEF Timed, Active
<1>2. Timed(z) = Moved(w, Timed(r))
  <2>1. Scorable(r) = Scorable(r)
    OBVIOUS
  <2> QED BY SwapGroups
<1>3. /\ Timed(z) \subseteq D /\ (\A x \in D : x \in Timed(z) <=> w[x] \in Timed(r))
      /\ \A y \in Timed(r) : w[y] \in Timed(z) /\ w[w[y]] = y
  BY <1>1, <1>2, MovedIs
<1>4. DOMAIN w = D /\ (\A x \in D : w[x] \in D /\ z[x] = r[w[x]]) /\ \A x \in D : w[w[x]] = x
  BY DEF IsSwap, Swapped
<1>5. \A x, y \in D : w[x] = w[y] => x = y
  BY <1>4
<1>6. S \in SUBSET D
  BY <1>1
<1>7. Z = Moved(w, S)
  <2>1. ASSUME NEW x \in Z PROVE x \in Moved(w, S)
    <3>1. PICK q \in Timed(z) : q # x /\ z[q].time <= z[x].time
      OBVIOUS
    <3>2. w[x] \in Timed(r) /\ w[q] \in Timed(r) /\ w[q] # w[x] /\ z[q] = r[w[q]] /\ z[x] = r[w[x]] /\ x \in D
      BY <1>3, <1>4, <1>5, <3>1
    <3>3. w[x] \in S
      BY <3>1, <3>2
    <3> QED BY <1>4, <3>2, <3>3 DEF Moved
  <2>2. ASSUME NEW x \in Moved(w, S) PROVE x \in Z
    <3>1. x \in D /\ w[x] \in S
      BY <1>4 DEF Moved
    <3>2. PICK q \in Timed(r) : q # w[x] /\ r[q].time <= r[w[x]].time
      BY <3>1
    <3>3. w[q] \in Timed(z) /\ w[w[q]] = q /\ z[w[q]] = r[q] /\ z[x] = r[w[x]] /\ x \in Timed(z)
      BY <1>1, <1>3, <1>4, <3>1
    <3>4. w[q] # x
      BY <3>2, <3>3
    <3> QED BY <3>2, <3>3, <3>4
  <2> HIDE DEF S, Z
  <2> QED BY <2>1, <2>2
<1> HIDE DEF S, Z
<1>8. TheTimes(z, Moved(w, S)) = TheTimes(r, S)
  BY <1>6, SwapImages, Zenon
<1>9. TheTimes(z, Second(z)) = TheTimes(z, Z)
  BY <1>0, SecondTimes, Zenon
<1>10. TheTimes(r, Second(r)) = TheTimes(r, S)
  BY <1>0, SecondTimes, Zenon
<1> QED BY <1>7, <1>8, <1>9, <1>10

LEMMA SwapFields ==
  ASSUME NEW r, IsField(r), NEW w, IsSwap(w, DOMAIN r), NEW z, z = Swapped(w, r)
  PROVE  IsField(z)
BY DEF IsField, IsSwap, Swapped

LEMMA SwapTotals ==
  ASSUME NEW f, IsFormula(f), NEW r, IsField(r), NEW w, IsSwap(w, DOMAIN r), NEW z, z = Swapped(w, r)
  PROVE  SameTotals(w, Totals(f, r), Totals(f, z))
<1> DEFINE D == DOMAIN r
           t == Totals(f, r)
           u == Totals(f, z)
           Dep(x) == {q \in InGoal(x) : x[q].start > 0}
           Out(x) == Active(x) \ InGoal(x)
           fast(x) == Least(TheTimes(x, Timed(x)), 0)
<1>1. IsField(z) /\ IsFiniteSet(D) /\ DOMAIN z = D /\ DOMAIN w = D /\ \A x \in D : z[x] = r[w[x]] /\ w[x] \in D
  BY SwapFields DEF IsField, IsSwap, Swapped
<1>2. /\ Active(z) = Moved(w, Active(r)) /\ Timed(z) = Moved(w, Timed(r))
      /\ InGoal(z) = Moved(w, InGoal(r)) /\ Launched(z) = Moved(w, Launched(r)) /\ Leaders(z) = Moved(w, Leaders(r))
      /\ Spread(f, z) = Moved(w, Spread(f, r))
  BY SwapGroups
<1>3. Active(r) \in SUBSET D /\ Timed(r) \in SUBSET D /\ InGoal(r) \in SUBSET D /\ Launched(r) \in SUBSET D /\ Leaders(r) \in SUBSET D
  BY DEF Active, Timed, InGoal, Launched, Leaders
<1>4. /\ Count(Active(z)) = Count(Active(r)) /\ Count(Timed(z)) = Count(Timed(r))
      /\ Count(InGoal(z)) = Count(InGoal(r)) /\ Count(Launched(z)) = Count(Launched(r))
  BY <1>1, <1>2, <1>3, SwapCounts
<1>5. /\ TheTimes(z, Timed(z)) = TheTimes(r, Timed(r)) /\ TheEnds(z, Timed(z)) = TheEnds(r, Timed(r))
      /\ TheLeads(z, Leaders(z)) = TheLeads(r, Leaders(r))
  <2>1. /\ TheTimes(z, Moved(w, Timed(r))) = TheTimes(r, Timed(r)) /\ TheEnds(z, Moved(w, Timed(r))) = TheEnds(r, Timed(r))
        /\ TheLeads(z, Moved(w, Leaders(r))) = TheLeads(r, Leaders(r))
    BY <1>3, SwapImages, Zenon
  <2> QED BY <1>2, <2>1
<1>6. TheStarts(z, Dep(z)) = TheStarts(r, Dep(r))
  <2>1. Dep(z) = Moved(w, Dep(r)) /\ Dep(r) \in SUBSET D
    BY <1>1, <1>2, <1>3 DEF Moved
  <2> HIDE DEF Dep
  <2>2. Dep(r) \in SUBSET DOMAIN r
    BY <2>1
  <2>3. TheStarts(z, Moved(w, Dep(r))) = TheStarts(r, Dep(r))
    BY <2>2, SwapImages, Zenon
  <2> QED BY <2>1, <2>3
<1>7. TheDists(z, Out(z)) = TheDists(r, Out(r))
  <2>1. Out(z) = Moved(w, Out(r)) /\ Out(r) \in SUBSET D
    BY <1>1, <1>2, <1>3 DEF Moved
  <2> HIDE DEF Out
  <2>2. Out(r) \in SUBSET DOMAIN r
    BY <2>1
  <2>3. TheDists(z, Moved(w, Out(r))) = TheDists(r, Out(r))
    BY <2>2, SwapImages, Zenon
  <2> QED BY <2>1, <2>3
<1>8. Lookahead(f, z) = Lookahead(f, r)
  <2> HIDE DEF Out
  <2>1. Count(Launched(z)) - Count(InGoal(z)) = Count(Launched(r)) - Count(InGoal(r))
    BY <1>4
  <2> DEFINE n == Count(Launched(r)) - Count(InGoal(r))
             m == Most(TheDists(r, Out(r)) \cup {f.mindist}, 0)
  <2>2. Lookahead(f, r) = IF n > 0 THEN (3 * m) \div n ELSE 0
    BY Zenon DEF Lookahead, Out, TheDists
  <2> DEFINE i == Count(Launched(z)) - Count(InGoal(z))
             j == Most(TheDists(z, Out(z)) \cup {f.mindist}, 0)
  <2>4. Lookahead(f, z) = IF i > 0 THEN (3 * j) \div i ELSE 0
    BY Zenon DEF Lookahead, Out, TheDists
  <2>3. Lookahead(f, z) = IF n > 0 THEN (3 * m) \div n ELSE 0
    BY <1>7, <2>1, <2>4
  <2> QED BY <2>2, <2>3
<1> DEFINE e == Effective(f, r)
           g == Effective(f, z)
<1>9. \A x \in Active(z) : g[x] = e[w[x]] /\ w[x] \in Active(r)
  <2>1. \A x \in Active(z) : x \in D /\ w[x] \in Active(r)
    BY <1>1, <1>2 DEF Moved
  <2> QED BY <1>1, <2>1 DEF Effective, Flew
<1>10. \A p \in Active(r) : e[p] \in Nat
  BY EffectiveIs
<1> HIDE DEF e, g
<1>11. SumFunctionOnSet(g, Active(z)) = SumFunctionOnSet(e, Active(r))
  <2>1. \A x \in Moved(w, Active(r)) : g[x] = e[w[x]]
    BY <1>2, <1>9
  <2>2. SumFunctionOnSet(g, Moved(w, Active(r))) = SumFunctionOnSet(e, Active(r))
    BY <1>1, <1>3, <1>10, <2>1, SwapSums
  <2> QED BY <1>2, <2>2
<1>12. {g[p] : p \in Active(z)} = {e[p] : p \in Active(r)}
  <2>1. \A y \in Active(r) : w[y] \in Active(z) /\ w[w[y]] = y
    BY <1>2, <1>3, MovedIs
  <2> QED BY <1>9, <2>1
<1>13. TheTimes(z, Second(z)) = TheTimes(r, Second(r))
  BY <1>1, SwapSecond, Zenon
<1>14. fast(z) = fast(r)
  BY <1>5
<1>15. /\ t.pilots = Count(Active(r)) /\ t.launched = Count(Launched(r)) /\ t.goal = Count(InGoal(r))
       /\ t.ess = Count(Timed(r)) /\ t.distance = SumFunctionOnSet(e, Active(r))
       /\ t.maxdist = Most({e[p] : p \in Active(r)} \cup {f.mindist}, 0)
       /\ t.fastest = fast(r) /\ t.tqtime = Least(TheTimes(r, Second(r)), fast(r))
       /\ t.firstdepart = Least(TheStarts(r, Dep(r)), 0)
       /\ t.firstarrival = Least(TheEnds(r, Timed(r)), 0) /\ t.lastarrival = Most(TheEnds(r, Timed(r)), 0)
       /\ t.mincoeff = Least(TheLeads(r, Leaders(r)), 0)
       /\ t.spread = Spread(f, r) /\ t.lookahead = Lookahead(f, r)
  BY DEF Totals, e, TheTimes, TheStarts, TheEnds, TheLeads
<1>16. /\ u.pilots = Count(Active(z)) /\ u.launched = Count(Launched(z)) /\ u.goal = Count(InGoal(z))
       /\ u.ess = Count(Timed(z)) /\ u.distance = SumFunctionOnSet(g, Active(z))
       /\ u.maxdist = Most({g[p] : p \in Active(z)} \cup {f.mindist}, 0)
       /\ u.fastest = fast(z) /\ u.tqtime = Least(TheTimes(z, Second(z)), fast(z))
       /\ u.firstdepart = Least(TheStarts(z, Dep(z)), 0)
       /\ u.firstarrival = Least(TheEnds(z, Timed(z)), 0) /\ u.lastarrival = Most(TheEnds(z, Timed(z)), 0)
       /\ u.mincoeff = Least(TheLeads(z, Leaders(z)), 0)
       /\ u.spread = Spread(f, z) /\ u.lookahead = Lookahead(f, z)
  BY DEF Totals, g, TheTimes, TheStarts, TheEnds, TheLeads
<1> HIDE DEF t, u, fast, Dep, Out
<1>17. u.pilots = t.pilots /\ u.launched = t.launched /\ u.goal = t.goal /\ u.ess = t.ess /\ u.distance = t.distance
  BY <1>4, <1>11, <1>15, <1>16, Zenon
<1>18. u.maxdist = t.maxdist /\ u.fastest = t.fastest /\ u.tqtime = t.tqtime
  BY <1>12, <1>13, <1>14, <1>15, <1>16, Zenon
<1>19. u.firstdepart = t.firstdepart /\ u.firstarrival = t.firstarrival /\ u.lastarrival = t.lastarrival /\ u.mincoeff = t.mincoeff
  BY <1>5, <1>6, <1>15, <1>16, Zenon
<1>20. u.lookahead = t.lookahead /\ u.spread = Moved(w, t.spread)
  BY <1>2, <1>8, <1>15, <1>16, Zenon
<1> QED BY <1>17, <1>18, <1>19, <1>20, Zenon DEF SameTotals, t, u

LEMMA SameWeights ==
  ASSUME NEW f, NEW t, NEW u, NEW w, SameTotals(w, t, u)
  PROVE  Weights(f, u) = Weights(f, t)
<1>1. /\ u.pilots = t.pilots /\ u.launched = t.launched /\ u.goal = t.goal /\ u.ess = t.ess /\ u.distance = t.distance
      /\ u.maxdist = t.maxdist /\ u.fastest = t.fastest /\ u.tqtime = t.tqtime
  BY DEF SameTotals
<1>2. LaunchValidity(u) = LaunchValidity(t)
  BY <1>1 DEF LaunchValidity
<1>3. DistValidity(f, u) = DistValidity(f, t)
  BY <1>1 DEF DistValidity
<1>4. TimeValidity(f, u) = TimeValidity(f, t)
  BY <1>1 DEF TimeValidity
<1>5. Quality(f, u) = Quality(f, t)
  BY <1>1, <1>2, <1>3, <1>4 DEF Quality
<1> QED BY <1>1, <1>5, Zenon DEF Weights

LEMMA SwapLead ==
  ASSUME NEW f, f.open # 0, NEW r, NEW w, IsSwap(w, DOMAIN r), NEW z, z = Swapped(w, r), NEW t, NEW u, SameTotals(w, t, u),
         NEW x \in DOMAIN r
  PROVE  Lead(f, u, z, x) = Lead(f, t, r, w[x])
<1>1. z[x] = r[w[x]]
  BY DEF Swapped
<1>2. u.goal = t.goal /\ u.lastarrival = t.lastarrival
  BY DEF SameTotals
<1>3. Opened(f, z) = f.open /\ Opened(f, r) = f.open
  BY DEF Opened
<1>4. Unfinished(u, z[x]) <=> Unfinished(t, r[w[x]])
  BY <1>1, <1>2 DEF Unfinished
<1> QED BY <1>1, <1>2, <1>3, <1>4 DEF Lead

LEMMA SwapLeast ==
  ASSUME NEW f, f.open # 0, NEW r, NEW w, IsSwap(w, DOMAIN r), NEW z, z = Swapped(w, r), NEW t, NEW u, SameTotals(w, t, u)
  PROVE  LeastLead(f, u, z) = LeastLead(f, t, r)
<1> DEFINE D == DOMAIN r
           E == {p \in D : Unfinished(t, r[p])}
           G == {p \in DOMAIN z : Unfinished(u, z[p])}
           L == {Lead(f, t, r, p) : p \in E}
           M == {Lead(f, u, z, p) : p \in G}
<1>1. DOMAIN z = D /\ \A x \in D : w[x] \in D /\ w[w[x]] = x
  BY DEF IsSwap, Swapped
<1>2. \A x \in D : Lead(f, u, z, x) = Lead(f, t, r, w[x])
  BY SwapLead
<1>7. \A x \in D : x \in G <=> w[x] \in E
  <2>1. u.goal = t.goal /\ u.lastarrival = t.lastarrival
    BY DEF SameTotals
  <2>2. \A x \in D : z[x] = r[w[x]]
    BY DEF Swapped
  <2>3. \A x \in D : Unfinished(u, z[x]) <=> Unfinished(t, r[w[x]])
    BY <2>1, <2>2 DEF Unfinished
  <2> QED BY <1>1, <2>3
<1>8. G \subseteq D /\ E \subseteq D
  BY <1>1
<1> HIDE DEF E, G
<1>3. M = L
  <2>1. ASSUME NEW y \in M PROVE y \in L
    <3>1. PICK p \in G : y = Lead(f, u, z, p)
      OBVIOUS
    <3>2. w[p] \in E /\ y = Lead(f, t, r, w[p])
      BY <1>2, <1>7, <1>8, <3>1
    <3> QED BY <3>2
  <2>2. ASSUME NEW y \in L PROVE y \in M
    <3>1. PICK p \in E : y = Lead(f, t, r, p)
      OBVIOUS
    <3>2. w[p] \in G /\ Lead(f, u, z, w[p]) = Lead(f, t, r, p)
      BY <1>1, <1>2, <1>7, <1>8
    <3> QED BY <3>1, <3>2
  <2> HIDE DEF M, L
  <2> QED BY <2>1, <2>2
<1>4. u.mincoeff = t.mincoeff
  BY DEF SameTotals
<1>5. LeastLead(f, t, r) = IF t.mincoeff = 0 THEN 0 ELSE Min({t.mincoeff} \cup {x \in L : x > 0})
  BY Zenon DEF LeastLead, E
<1>6. LeastLead(f, u, z) = IF u.mincoeff = 0 THEN 0 ELSE Min({u.mincoeff} \cup {x \in M : x > 0})
  BY Zenon DEF LeastLead, G
<1> HIDE DEF L, M
<1> QED BY <1>3, <1>4, <1>5, <1>6

LEMMA SwapDistance ==
  ASSUME NEW f, NEW r, IsField(r), NEW w, IsSwap(w, DOMAIN r), NEW z, z = Swapped(w, r),
         NEW t, IsTotals(f, r, t), NEW u, SameTotals(w, t, u), NEW x \in DOMAIN r, NEW A
  PROVE  DistancePoints(f, u, z, x, A) = DistancePoints(f, t, r, w[x], A)
<1> DEFINE D == DOMAIN r
           d == r[w[x]].dist
           S == {q \in t.spread : Most({0, r[q].dist - t.lookahead}, 0) <= d}
           Z == {q \in u.spread : Most({0, z[q].dist - u.lookahead}, 0) <= d}
<1>1. /\ DOMAIN w = D /\ (\A q \in D : z[q] = r[w[q]]) /\ IsFiniteSet(D)
      /\ t.spread \in SUBSET D
  BY DEF IsSwap, Swapped, IsField, IsTotals
<1>2. u.launched = t.launched /\ u.maxdist = t.maxdist /\ u.lookahead = t.lookahead /\ u.spread = Moved(w, t.spread)
  BY DEF SameTotals
<1>3. Count(u.spread) = Count(t.spread) /\ (u.spread = {} <=> t.spread = {})
  BY <1>1, <1>2, SwapCounts, MovedIs
<1>4. Z = Moved(w, S)
  BY <1>1, <1>2 DEF Moved
<1>5. Count(Z) = Count(S)
  <2>1. S \in SUBSET D
    BY <1>1
  <2> HIDE DEF S, Z
  <2> QED BY <1>1, <1>4, <2>1, SwapCounts
<1>6. Difficulty(f, t, r, d) = IF f.diffcalc = "lo" /\ t.spread # {} THEN (Mille * Count(S)) \div Count(t.spread)
                               ELSE (Mille * Count(S)) \div Most({t.launched, 1}, 1)
  BY DEF Difficulty, Mille
<1>7. Difficulty(f, u, z, d) = IF f.diffcalc = "lo" /\ u.spread # {} THEN (Mille * Count(Z)) \div Count(u.spread)
                               ELSE (Mille * Count(Z)) \div Most({u.launched, 1}, 1)
  BY DEF Difficulty, Mille
<1> HIDE DEF S, Z
<1>8. Difficulty(f, u, z, d) = Difficulty(f, t, r, d)
  BY <1>2, <1>3, <1>5, <1>6, <1>7, Zenon
<1>9. z[x] = r[w[x]]
  BY <1>1
<1> QED BY <1>2, <1>8, <1>9 DEF DistancePoints

TimedPoints(k, x, A) == IF x.time <= 0 THEN 0 ELSE Bound((A * ArrivalCurve(6 - (x.end - k), 6)) \div Mille, 0, A)

LEMMA TimedArrival ==
  ASSUME NEW f, f.arrival = "timed", NEW t, NEW x, x.time \in Int, NEW A, NEW place
  PROVE  ArrivalPoints(f, t, x, place, A) = TimedPoints(t.firstarrival, x, A)
<1>1. CASE x.time <= 0
  BY <1>1 DEF ArrivalPoints, TimedPoints
<1>2. CASE x.time > 0
  BY <1>2 DEF ArrivalPoints, Mille, TimedPoints
<1> QED BY <1>1, <1>2

LEMMA SwapSpeed ==
  ASSUME NEW w, NEW t, NEW u, SameTotals(w, t, u), NEW x, NEW A
  PROVE  SpeedPoints(u, x, A) = SpeedPoints(t, x, A)
<1>1. u.fastest = t.fastest
  BY DEF SameTotals
<1> QED BY <1>1 DEF SpeedPoints

LEMMA SwapArrival ==
  ASSUME NEW f, f.arrival = "timed", NEW w, NEW t, NEW u, SameTotals(w, t, u), NEW x, x.time \in Int, NEW A, NEW m, NEW n
  PROVE  ArrivalPoints(f, u, x, m, A) = ArrivalPoints(f, t, x, n, A)
<1>1. u.firstarrival = t.firstarrival
  BY DEF SameTotals
<1> QED BY <1>1, TimedArrival

DepartureOf(f, k, s, x, lead, c, A, B) ==
    IF f.departure = "off" THEN 0
    ELSE IF f.departure = "leadout" THEN Led(A, c, lead)
    ELSE IF 2 * (x.start - k) >= f.nomtime \/ x.time <= 0 THEN 0
    ELSE Most({0, Early(s, A, B, DepartureFactor(x.start - k, f.nomtime))}, 0)

LEMMA DepartureForm ==
  ASSUME NEW f, NEW t, NEW x, NEW lead, NEW c, NEW A, NEW B
  PROVE  DeparturePoints(f, t, x, lead, c, A, B) = DepartureOf(f, t.firstdepart, SpeedPoints(t, x, B), x, lead, c, A, B)
BY DepartureIs DEF DepartureOf

LEMMA SwapDeparture ==
  ASSUME NEW f, NEW w, NEW t, NEW u, SameTotals(w, t, u), NEW x, NEW A, NEW B, NEW lead, NEW c
  PROVE  DeparturePoints(f, u, x, lead, c, A, B) = DeparturePoints(f, t, x, lead, c, A, B)
<1>1. u.firstdepart = t.firstdepart
  BY DEF SameTotals
<1>2. SpeedPoints(u, x, B) = SpeedPoints(t, x, B)
  BY SwapSpeed
<1>3. DeparturePoints(f, u, x, lead, c, A, B) = DepartureOf(f, u.firstdepart, SpeedPoints(u, x, B), x, lead, c, A, B)
  BY DepartureForm
<1>4. DeparturePoints(f, t, x, lead, c, A, B) = DepartureOf(f, t.firstdepart, SpeedPoints(t, x, B), x, lead, c, A, B)
  BY DepartureForm
<1> QED BY <1>1, <1>2, <1>3, <1>4

\* Who exchanges flights with another exchanges points.
LEMMA SwapRaw ==
  ASSUME NEW f, IsFormula(f), f.open # 0, f.arrival # "position", NEW r, IsField(r), NEW w, IsSwap(w, DOMAIN r),
         NEW z, z = Swapped(w, r), NEW t, t = Totals(f, r), NEW u, u = Totals(f, z), NEW x \in DOMAIN r
  PROVE  TotalPoints(GapPoints(f, z, u, x), z[x]) = TotalPoints(GapPoints(f, r, t, w[x]), r[w[x]])
<1> DEFINE y == w[x]
           a == Weights(f, t)
           b == Weights(f, u)
           i == GapPoints(f, z, u, x)
           j == GapPoints(f, r, t, y)
           c == LeastLead(f, t, r)
           e == LeastLead(f, u, z)
<1>1. z[x] = r[y] /\ y \in DOMAIN r /\ DOMAIN z = DOMAIN r
  BY DEF Swapped, IsSwap
<1>2. SameTotals(w, t, u) /\ IsField(z) /\ IsTotals(f, r, t) /\ IsTotals(f, z, u)
  BY SwapTotals, SwapFields, TotalsAre
<1>3. a = b /\ c = e
  BY <1>2, SameWeights, SwapLeast
<1>4. AreShares(a) /\ (f.arrival = "off" => a.arrival = 0)
  BY <1>2, WeightsAre
<1>5. i.distance = j.distance /\ i.speed = j.speed /\ i.arrival = j.arrival /\ i.departure = j.departure
  <2>1. CASE r[y].result \in {"dnf", "abs"}
    <3>1. i.distance = 0 /\ i.speed = 0 /\ i.arrival = 0 /\ i.departure = 0
      BY <1>1, <2>1, GapPointsAre
    <3>2. j.distance = 0 /\ j.speed = 0 /\ j.arrival = 0 /\ j.departure = 0
      BY <2>1, GapPointsAre
    <3> QED BY <3>1, <3>2
  <2>2. CASE r[y].result \notin {"dnf", "abs"}
    <3>1. /\ i.distance = DistancePoints(f, u, z, x, b.distance)
          /\ i.speed = Kept(f, z[x], SpeedPoints(u, z[x], b.speed))
          /\ i.arrival = Kept(f, z[x], ArrivalPoints(f, u, z[x], Place(z, x), b.arrival))
          /\ i.departure = DeparturePoints(f, u, z[x], Lead(f, u, z, x), e, b.start, b.speed)
      BY <1>1, <2>2, GapPointsAre
    <3>2. /\ j.distance = DistancePoints(f, t, r, y, a.distance)
          /\ j.speed = Kept(f, r[y], SpeedPoints(t, r[y], a.speed))
          /\ j.arrival = Kept(f, r[y], ArrivalPoints(f, t, r[y], Place(r, y), a.arrival))
          /\ j.departure = DeparturePoints(f, t, r[y], Lead(f, t, r, y), c, a.start, a.speed)
      BY <2>2, GapPointsAre
    <3> HIDE DEF i, j, a, b, c, e
    <3>8. SameTotals(w, t, u)
      BY <1>2
    <3>0. r[y].time \in Int
      BY <1>1 DEF IsField, IsPilot
    <3> HIDE DEF y
    <3>3. DistancePoints(f, u, z, x, a.distance) = DistancePoints(f, t, r, y, a.distance)
      BY <1>2, SwapDistance DEF y
    <3>4. SpeedPoints(u, r[y], a.speed) = SpeedPoints(t, r[y], a.speed)
      BY <1>2, SwapSpeed
    <3>5. Lead(f, u, z, x) = Lead(f, t, r, y)
      BY <1>2, SwapLead DEF y
    <3>6. DeparturePoints(f, u, r[y], Lead(f, t, r, y), c, a.start, a.speed)
            = DeparturePoints(f, t, r[y], Lead(f, t, r, y), c, a.start, a.speed)
      BY <3>8, SwapDeparture
    <3>7. ArrivalPoints(f, u, r[y], Place(z, x), a.arrival) = ArrivalPoints(f, t, r[y], Place(r, y), a.arrival)
      <4>1. CASE f.arrival = "timed"
        BY <3>8, <3>0, <4>1, SwapArrival
      <4>2. CASE f.arrival = "off"
        <5>1. a.arrival = 0
          BY <1>4, <4>2
        <5>2. ArrivalPoints(f, u, z[x], Place(z, x), 0) = 0
          <6>1. Place(z, x) \in Nat /\ x \in Active(z) /\ 0 \in Nat
            BY <1>1, <1>2, <2>2, PlacesAre DEF Active
          <6>2. ArrivalPoints(f, u, z[x], Place(z, x), 0) \in 0..0
            BY <1>2, <6>1, ArrivalPointsGrow
          <6> QED BY <6>2
        <5>3. ArrivalPoints(f, t, r[y], Place(r, y), 0) = 0
          <6>1. Place(r, y) \in Nat /\ y \in Active(r) /\ 0 \in Nat
            BY <1>1, <2>2, PlacesAre DEF Active
          <6>2. ArrivalPoints(f, t, r[y], Place(r, y), 0) \in 0..0
            BY <1>2, <6>1, ArrivalPointsGrow
          <6> QED BY <6>2
        <5> QED BY <1>1, <5>1, <5>2, <5>3
      <4> QED BY <4>1, <4>2 DEF IsFormula
    <3> QED BY <1>1, <1>3, <3>1, <3>2, <3>3, <3>4, <3>5, <3>6, <3>7, Zenon
  <2> QED BY <2>1, <2>2
<1> QED BY <1>1, <1>5 DEF TotalPoints

LEMMA SameFormula ==
  ASSUME NEW ev \in EventRecords, NEW m
  PROVE  Formula([ev EXCEPT !.multiplier = m]) = Formula(ev)
<1> DEFINE v == [ev EXCEPT !.multiplier = m]
<1>1. /\ v.mindist = ev.mindist /\ v.nomdist = ev.nomdist /\ v.nomtime = ev.nomtime /\ v.sspenalty = ev.sspenalty
      /\ v.lwf = ev.lwf /\ v.use = ev.use /\ v.diffcalc = ev.diffcalc /\ v.version = ev.version /\ v.hg = ev.hg
      /\ v.normalize = ev.normalize /\ v.open = ev.open
  BY DEF EventRecords
<1> HIDE DEF v
<1>2. Formula(v) = Formula(ev)
  BY <1>1 DEF Formula
<1> QED BY <1>2 DEF v

LEMMA OrderIsFree == GapInv => OrderFree
<1> SUFFICES ASSUME GapInv, Formula(event).open # 0, Formula(event).arrival # "position",
                    NEW p \in DOMAIN sheet, NEW q \in DOMAIN sheet, q = p + 1
             PROVE  LET Other(x) == IF x = p THEN q ELSE IF x = q THEN p ELSE x
                        moved == Scores([event EXCEPT !.multiplier = [x \in Rivals |-> event.multiplier[Other(x)]]],
                                        [x \in Rivals |-> entry[Other(x)]], charged)
                    IN \A x \in DOMAIN sheet : moved[x].raw = sheet[Other(x)].raw
  BY Zenon DEF OrderFree
<1> DEFINE Other(x) == IF x = p THEN q ELSE IF x = q THEN p ELSE x
           m == [x \in Rivals |-> event.multiplier[Other(x)]]
           ev == [event EXCEPT !.multiplier = m]
           e == [x \in Rivals |-> entry[Other(x)]]
           f == Formula(event)
           r == Results
           t == DayTotals
           w == [x \in DOMAIN r |-> Other(x)]
           z == PilotResults(ev, e)
           u == Totals(f, z)
           moved == Scores(ev, e, charged)
<1>1. /\ IsFormula(f) /\ IsField(r) /\ IsTotals(f, r, t) /\ DOMAIN sheet = DOMAIN r /\ DOMAIN sheet = Entered(entry)
      /\ \A x \in DOMAIN sheet :
           /\ x \in Rivals /\ r[x] = PilotResult(f, entry[x])
           /\ sheet[x].raw = TotalPoints(GapPoints(f, r, t, x), r[x])
  BY SheetIs, Zenon
<1>2. t = Totals(f, r)
  BY DEF DayTotals
<1>3. Formula(ev) = f
  <2>1. event \in EventRecords
    BY DEF GapInv
  <2> HIDE DEF m
  <2> QED BY <2>1, SameFormula
<1> HIDE DEF f, r, t, ev, z
<1>4. IsSwap(w, DOMAIN r) /\ \A x \in DOMAIN r : w[x] = Other(x)
  <2>1. p \in DOMAIN r /\ q \in DOMAIN r
    BY <1>1
  <2> QED BY <2>1 DEF IsSwap
<1>5. Entered(e) = DOMAIN r
  <2>1. \A x \in Rivals : e[x] = entry[Other(x)]
    OBVIOUS
  <2>2. \A x : x \in DOMAIN r <=> x \in Rivals /\ entry[x] # None
    BY <1>1 DEF Entered
  <2>3. \A x \in Rivals : entry[Other(x)] # None <=> entry[x] # None
    BY <1>1, <2>2
  <2> HIDE DEF e
  <2> QED BY <2>1, <2>2, <2>3 DEF Entered
<1>6. z = Swapped(w, r)
  <2>1. z = [x \in DOMAIN r |-> PilotResult(f, e[x])]
    <3> HIDE DEF e
    <3> QED BY <1>3, <1>5 DEF z, PilotResults
  <2>2. \A x \in DOMAIN r : e[x] = entry[Other(x)] /\ Other(x) \in DOMAIN r
    BY <1>1
  <2>3. \A x \in DOMAIN r : PilotResult(f, e[x]) = r[w[x]]
    BY <1>1, <1>4, <2>2
  <2> HIDE DEF e, w
  <2> QED BY <2>1, <2>3 DEF Swapped
<1>7. ASSUME NEW x \in DOMAIN sheet PROVE moved[x].raw = sheet[Other(x)].raw
  <2>1. x \in DOMAIN r /\ Other(x) \in DOMAIN sheet /\ w[x] = Other(x) /\ x \in Entered(e)
    BY <1>1, <1>4, <1>5
  <2>2. moved[x].raw = TotalPoints(GapPoints(f, z, u, x), z[x])
    <3> HIDE DEF e
    <3> QED BY <1>3, <2>1, ScoresAre DEF z
  <2> HIDE DEF w, Other, u, moved
  <2>3. TotalPoints(GapPoints(f, z, u, x), z[x]) = TotalPoints(GapPoints(f, r, t, w[x]), r[w[x]])
    <3>1. f.open # 0 /\ f.arrival # "position"
      BY DEF f
    <3>2. u = Totals(f, z)
      BY DEF u
    <3>3. IsFormula(f) /\ IsField(r) /\ IsSwap(w, DOMAIN r) /\ x \in DOMAIN r
      BY <1>1, <1>4, <2>1
    <3> QED BY <1>2, <1>6, <3>1, <3>2, <3>3, SwapRaw
  <2>4. sheet[Other(x)].raw = TotalPoints(GapPoints(f, r, t, Other(x)), r[Other(x)])
    BY <1>1, <2>1
  <2> QED BY <2>1, <2>2, <2>3, <2>4
<1> QED BY <1>7, Zenon DEF ev

-----------------------------------------------------------------------------
(* A day is fair.                                                          *)

\* A day is fair (_score_evaluations, gap.py), for any rules of a meet, any
\* flights and any penalties: no share of the points but that of the departure
\* exceeds what the day makes available, nobody is behind a pilot who was no
\* better in anything that counts, somebody takes the leading points, pilots who
\* exchange their flights exchange their points where the start has a clock, the
\* handicap keeps the order of the multiplied scores, and the lines shown explain
\* what penalties of at most 100 % subtract.
THEOREM DayIsAlwaysFair == GapSpec => []DayIsFair
<1>1. GapInv => DayIsFair
  BY GapTyped, BetterStay, LeadsDo, OrderIsFree, HandicapDoes, LinesDo DEF DayIsFair
<1>2. GapSpec => []GapInv
  BY GapInvHolds
<1> QED BY <1>1, <1>2, PTL
=============================================================================
