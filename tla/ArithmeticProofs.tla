-------------------------- MODULE ArithmeticProofs --------------------------
(***************************************************************************)
(* What the proofs need to know of numbers: MoneyService's rounding and    *)
(* percentages, and sums over finite sets.                                 *)
(*                                                                         *)
(* A sum is a fold, defined by recursion over the parts of a set, and what *)
(* it does is shown by induction over them.  The induction theorems of the *)
(* library take an operator, so the induction here goes by a smallest      *)
(* counterexample (WFMin), which takes a set.                              *)
(***************************************************************************)
EXTENDS Money, Functions, FiniteSetTheorems, WellFoundedInduction, TLAPS

\* The natural numbers are well ordered.
LEMMA Least ==
    ASSUME NEW T \in SUBSET Nat, T # {}
    PROVE  \E m \in T : \A k \in T : m <= k
<1> DEFINE R == OpToRel(<, Nat)
<1>1. PICK m \in T : \A k \in T : ~(<<k, m>> \in R)
  <2>1. IsWellFoundedOn(R, Nat)
    BY NatLessThanWellFounded, Zenon
  <2> HIDE DEF R
  <2> QED BY <2>1, WFMin
<1>2. \A k \in T : ~(k < m)
  BY <1>1, Zenon DEF OpToRel
<1> QED BY <1>2

-----------------------------------------------------------------------------
(* Rounding and percentages. *)

\* Rounding half up keeps an amount a natural number.
LEMMA ToUsdNat ==
    ASSUME NEW a \in Nat, NEW q \in Nat \ {0}
    PROVE  ToUsd(a, q) \in Nat
<1>1. 2 * a + q \in Nat /\ 2 * q \in Nat \ {0}
  OBVIOUS
<1>2. \A m \in Nat, n \in Nat \ {0} : m \div n \in Nat
  OBVIOUS
<1> QED BY <1>1, <1>2 DEF ToUsd

\* toUsd is the stored amount nearest to amount / rate, the upper one of two: what is
\* stored is off by half a unit of the stored scale at most.
THEOREM ToUsdNearest ==
    ASSUME NEW a \in Nat, NEW q \in Nat \ {0}
    PROVE  /\ 2 * (q * ToUsd(a, q)) <= 2 * a + q
           /\ 2 * a + q < 2 * (q * ToUsd(a, q)) + 2 * q
<1> DEFINE n == 2 * a + q
           d == 2 * q
<1>1. n \in Nat /\ d \in Nat \ {0}
  OBVIOUS
<1>2. \A m \in Nat, k \in Nat \ {0} : k * (m \div k) <= m /\ m < k * (m \div k) + k
  OBVIOUS
<1>3. d * (n \div d) <= n /\ n < d * (n \div d) + d
  BY <1>1, <1>2
<1>4. ToUsd(a, q) = n \div d /\ ToUsd(a, q) \in Nat
  BY ToUsdNat DEF ToUsd
<1>5. \A t \in Nat : d * t = 2 * (q * t)
  OBVIOUS
<1> QED BY <1>3, <1>4, <1>5

\* So a part of an amount is never worth more than the whole: what is left of it for
\* VAT is not negative.
THEOREM ToUsdMonotone ==
    ASSUME NEW a \in Nat, NEW b \in Nat, NEW q \in Nat \ {0}, a <= b
    PROVE  ToUsd(a, q) <= ToUsd(b, q)
<1> DEFINE x == ToUsd(a, q)
           y == ToUsd(b, q)
<1>1. x \in Nat /\ y \in Nat
  BY ToUsdNat
<1>2. 2 * (q * x) <= 2 * a + q /\ 2 * b + q < 2 * (q * y) + 2 * q
  BY ToUsdNearest
<1> HIDE DEF x, y
<1> SUFFICES ASSUME x > y PROVE FALSE
  BY <1>1 DEF x, y
<1>3. PICK k \in Nat : x = y + 1 + k
  BY <1>1, x - y - 1 \in Nat
<1>4. q * x = q * y + q + q * k /\ q * y \in Nat /\ q * k \in Nat
  BY <1>1, <1>3
<1> QED BY <1>2, <1>4

\* A more generous percentage admits whatever a smaller one does.
LEMMA WithinPctMonotone ==
    ASSUME NEW value \in Nat, NEW total \in Nat, NEW p \in Nat, NEW q \in Nat,
           p <= q, WithinPct(value, total, p)
    PROVE  WithinPct(value, total, q)
<1>1. PICK d \in Nat : q = p + d
  BY p <= q, q - p \in Nat
<1>2. total * (100 + q) = total * (100 + p) + total * d /\ total * d \in Nat
  BY <1>1
<1>3. total * (100 + p) \in Nat /\ 100 * value \in Nat
  OBVIOUS
<1> QED BY <1>2, <1>3 DEF WithinPct

-----------------------------------------------------------------------------
(* Sums. *)

\* The element a fold picks first.
Chosen(s) == CHOOSE x \in s : TRUE

\* g is the function the fold iterates: the total of each part of S.
Totals(f, S, g) ==
    g = [s \in SUBSET S |-> IF s = {} THEN 0 ELSE f[Chosen(s)] + g[s \ {Chosen(s)}]]

LEMMA ChosenIn == ASSUME NEW s, s # {} PROVE Chosen(s) \in s
BY DEF Chosen

\* Induction on finite sets: among some subsets of a finite set one is smallest.
LEMMA SmallestSubset ==
    ASSUME NEW S, IsFiniteSet(S), NEW B, B \subseteq SUBSET S, B # {}
    PROVE  \E s \in B : \A u \in B : ~(u \subseteq s /\ u # s)
<1>1. IsWellFoundedOn(StrictSubsetOrdering(S), SUBSET S)
  BY FS_StrictSubsetOrderingWellFounded, FS_FiniteSubsetsOfFinite
<1>2. \E s \in B : \A u \in B : ~(<<u, s>> \in StrictSubsetOrdering(S))
  BY <1>1, WFMin
<1> QED BY <1>2 DEF StrictSubsetOrdering

\* The total of a set depends only on the values on it.
LEMMA TotalsAgree ==
    ASSUME NEW f, NEW e, NEW S, NEW T, NEW g, NEW h, IsFiniteSet(S),
           Totals(f, S, g), Totals(e, T, h),
           NEW w, w \subseteq S, w \subseteq T, \A x \in w : f[x] = e[x]
    PROVE  g[w] = h[w]
<1> DEFINE B == {v \in SUBSET w : g[v] # h[v]}
<1>1. ASSUME B # {} PROVE FALSE
  <2>1. B \subseteq SUBSET S
    OBVIOUS
  <2>2. PICK s \in B : \A u \in B : ~(u \subseteq s /\ u # s)
    <3> HIDE DEF B
    <3> QED BY <1>1, <2>1, SmallestSubset
  <2>3. s \in SUBSET S /\ s \in SUBSET T /\ s \subseteq w
    BY <2>2
  <2>4. /\ g[s] = IF s = {} THEN 0 ELSE f[Chosen(s)] + g[s \ {Chosen(s)}]
        /\ h[s] = IF s = {} THEN 0 ELSE e[Chosen(s)] + h[s \ {Chosen(s)}]
    BY <2>3 DEF Totals
  <2>5. CASE s = {}
    BY <2>2, <2>4, <2>5
  <2>6. CASE s # {}
    <3>1. Chosen(s) \in s
      BY <2>6, ChosenIn
    <3>2. g[s \ {Chosen(s)}] = h[s \ {Chosen(s)}]
      BY <2>2, <2>3, <3>1
    <3> QED BY <2>2, <2>3, <2>4, <2>6, <3>1, <3>2
  <2> QED BY <2>5, <2>6
<1> QED BY <1>1

\* The recursion defines a function: a smallest set without one would have one.
LEMMA TotalsExist ==
    ASSUME NEW f, NEW S, IsFiniteSet(S)
    PROVE  \E g : Totals(f, S, g)
<1> DEFINE B == {v \in SUBSET S : ~\E g : Totals(f, v, g)}
<1>1. ASSUME B # {} PROVE FALSE
  <2>1. PICK s \in B : \A u \in B : ~(u \subseteq s /\ u # s)
    <3>1. B \subseteq SUBSET S
      OBVIOUS
    <3> HIDE DEF B
    <3> QED BY <1>1, <3>1, SmallestSubset
  <2> DEFINE G(u) == CHOOSE g : Totals(f, u, g)
             x == Chosen(s)
             k == [u \in SUBSET s |-> IF u = s THEN IF s = {} THEN 0 ELSE f[x] + G(s \ {x})[s \ {x}]
                                      ELSE G(u)[u]]
  <2>2. s \subseteq S /\ ~\E g : Totals(f, s, g)
    BY <2>1
  <2>3. \A u \in SUBSET s : u # s => Totals(f, u, G(u)) /\ IsFiniteSet(u)
    <3>1. \A u \in SUBSET s : u # s => (\E g : Totals(f, u, g)) /\ IsFiniteSet(u)
      BY <2>1, <2>2, FS_Subset
    <3> QED BY <3>1
  <2> HIDE DEF G
  <2>4. ASSUME NEW u \in SUBSET s
        PROVE  k[u] = IF u = {} THEN 0 ELSE f[Chosen(u)] + k[u \ {Chosen(u)}]
    <3>1. CASE u = s
      BY <3>1, ChosenIn
    <3>2. CASE u # s
      <4>1. Totals(f, u, G(u)) /\ IsFiniteSet(u) /\ u \in SUBSET u
        BY <2>3, <3>2
      <4>2. G(u)[u] = IF u = {} THEN 0 ELSE f[Chosen(u)] + G(u)[u \ {Chosen(u)}]
        BY <4>1 DEF Totals
      <4>3. CASE u = {}
        BY <3>2, <4>2, <4>3
      <4>4. CASE u # {}
        <5> DEFINE w == u \ {Chosen(u)}
        <5>1. w \subseteq u /\ w \in SUBSET s /\ w # s
          BY <3>2, <4>4, ChosenIn
        <5>2. Totals(f, w, G(w))
          BY <2>3, <5>1
        <5> HIDE DEF w
        <5>3. G(u)[w] = G(w)[w]
          BY <4>1, <5>1, <5>2, TotalsAgree
        <5>4. k[w] = G(w)[w] /\ k[u] = G(u)[u]
          BY <3>2, <5>1
        <5> QED BY <4>2, <4>4, <5>3, <5>4 DEF w
      <4> QED BY <4>3, <4>4
    <3> QED BY <3>1, <3>2
  <2>5. DOMAIN k = SUBSET s
    OBVIOUS
  <2> DEFINE k2 == [u \in SUBSET s |-> IF u = {} THEN 0 ELSE f[Chosen(u)] + k[u \ {Chosen(u)}]]
  <2>6. k = k2
    BY <2>4
  <2> HIDE DEF k
  <2>7. Totals(f, s, k)
    BY <2>6 DEF Totals
  <2> QED BY <2>2, <2>7
<1> QED BY <1>1

\* The sum of the community modules is that total.
LEMMA SumIsTotal ==
    ASSUME NEW f, NEW S, IsFiniteSet(S), NEW g, Totals(f, S, g)
    PROVE  SumFunctionOnSet(f, S) = g[S]
<1> DEFINE h == CHOOSE h : Totals(f, S, h)
<1>1. Totals(f, S, h)
  OBVIOUS
<1>2. SumFunctionOnSet(f, S) = h[S]
  BY DEF SumFunctionOnSet, FoldFunctionOnSet, MapThenFoldSet, Totals, Chosen
<1> HIDE DEF h
<1> QED BY <1>1, <1>2, TotalsAgree

\* g has the sums of all parts of S at once, and their recursion.
Sums(f, S, g) ==
    /\ \A s \in SUBSET S : g[s] = SumFunctionOnSet(f, s)
    /\ g[{}] = 0
    /\ \A s \in SUBSET S : s # {} => g[s] = f[Chosen(s)] + g[s \ {Chosen(s)}]

LEMMA SumsExist ==
    ASSUME NEW f, NEW S, IsFiniteSet(S)
    PROVE  \E g : Sums(f, S, g)
<1>1. PICK g : Totals(f, S, g)
  BY TotalsExist
<1>2. \A s \in SUBSET S : g[s] = IF s = {} THEN 0 ELSE f[Chosen(s)] + g[s \ {Chosen(s)}]
  BY <1>1 DEF Totals
<1>3. ASSUME NEW s \in SUBSET S PROVE g[s] = SumFunctionOnSet(f, s)
  <2>1. IsFiniteSet(s)
    BY FS_Subset
  <2>2. PICK h : Totals(f, s, h)
    BY <2>1, TotalsExist
  <2>3. h[s] = g[s]
    BY <1>1, <2>1, <2>2, TotalsAgree
  <2> QED BY <2>1, <2>2, <2>3, SumIsTotal
<1>4. {} \in SUBSET S
  OBVIOUS
<1> QED BY <1>2, <1>3, <1>4 DEF Sums

\* Nothing adds up to 0.
LEMMA SumOfNone ==
    ASSUME NEW f PROVE SumFunctionOnSet(f, {}) = 0
<1>1. IsFiniteSet({})
  BY FS_EmptySet
<1> QED BY <1>1, SumsExist DEF Sums

\* Two functions that agree on a finite set have the same sum on it.
LEMMA SameSum ==
    ASSUME NEW f, NEW e, NEW S, IsFiniteSet(S), \A x \in S : f[x] = e[x]
    PROVE  SumFunctionOnSet(f, S) = SumFunctionOnSet(e, S)
<1>1. PICK g, h : Totals(f, S, g) /\ Totals(e, S, h)
  BY TotalsExist
<1>2. g[S] = h[S]
  BY <1>1, TotalsAgree
<1> QED BY <1>1, <1>2, SumIsTotal

\* A finite sum of integers is an integer.
LEMMA SumInt ==
    ASSUME NEW f, NEW S, IsFiniteSet(S), \A x \in S : f[x] \in Int
    PROVE  SumFunctionOnSet(f, S) \in Int
<1>1. PICK g : Sums(f, S, g)
  BY SumsExist
<1> DEFINE B == {s \in SUBSET S : g[s] \notin Int}
<1>2. ASSUME B # {} PROVE FALSE
  <2>1. PICK s \in B : \A u \in B : ~(u \subseteq s /\ u # s)
    <3>1. B \subseteq SUBSET S
      OBVIOUS
    <3> HIDE DEF B
    <3> QED BY <1>2, <3>1, SmallestSubset
  <2>2. s # {} /\ s \in SUBSET S
    <3>1. s \in SUBSET S /\ g[s] \notin Int /\ g[{}] = 0
      BY <1>1, <2>1 DEF Sums
    <3>2. ASSUME s = {} PROVE FALSE
      BY <3>1, <3>2
    <3> QED BY <3>1, <3>2
  <2>3. Chosen(s) \in s
    BY <2>2, ChosenIn
  <2>4. s \ {Chosen(s)} \in SUBSET S /\ s \ {Chosen(s)} \notin B
    BY <2>1, <2>2, <2>3
  <2>5. g[s \ {Chosen(s)}] \in Int /\ f[Chosen(s)] \in Int
    BY <2>2, <2>3, <2>4
  <2>6. g[s] = f[Chosen(s)] + g[s \ {Chosen(s)}]
    BY <1>1, <2>2 DEF Sums
  <2> QED BY <2>1, <2>5, <2>6
<1>3. g[S] \in Int
  BY <1>2
<1> QED BY <1>1, <1>3 DEF Sums

\* One element more adds its value, whichever element the fold picks first.
LEMMA SumAdd ==
    ASSUME NEW f, NEW S, NEW x, IsFiniteSet(S), x \notin S,
           \A y \in S \cup {x} : f[y] \in Int
    PROVE  SumFunctionOnSet(f, S \cup {x}) = SumFunctionOnSet(f, S) + f[x]
<1> DEFINE T == S \cup {x}
<1>1. IsFiniteSet(T)
  BY FS_AddElement
<1>2. \A y \in T : f[y] \in Int
  OBVIOUS
<1>3. x \in T /\ T \ {x} = S
  OBVIOUS
<1> HIDE DEF T
<1>4. PICK g : Sums(f, T, g)
  BY <1>1, SumsExist
<1>5. \A s \in SUBSET T : g[s] \in Int
  BY <1>1, <1>2, <1>4, SumInt, FS_Subset DEF Sums
<1> DEFINE B == {s \in SUBSET T : \E y \in s : g[s] # f[y] + g[s \ {y}]}
<1>6. ASSUME B # {} PROVE FALSE
  <2>1. PICK s \in B : \A u \in B : ~(u \subseteq s /\ u # s)
    <3>1. B \subseteq SUBSET T
      OBVIOUS
    <3> HIDE DEF B
    <3> QED BY <1>1, <1>6, <3>1, SmallestSubset
  <2>2. PICK y \in s : g[s] # f[y] + g[s \ {y}]
    BY <2>1
  <2>3. PICK z \in s : z = Chosen(s)
    BY <2>2, ChosenIn
  <2>4. s \in SUBSET T /\ g[s] = f[z] + g[s \ {z}]
    BY <1>4, <2>1, <2>3 DEF Sums
  <2>5. y # z
    BY <2>2, <2>4
  <2>6. /\ s \ {y} \in SUBSET T /\ s \ {z} \in SUBSET T /\ s \ {y} \notin B /\ s \ {z} \notin B
        /\ z \in s \ {y} /\ y \in s \ {z}
    BY <2>1, <2>2, <2>3, <2>4, <2>5
  <2>7. (s \ {y}) \ {z} = (s \ {z}) \ {y}
    OBVIOUS
  <2>8. PICK w \in SUBSET T : w = (s \ {z}) \ {y}
    BY <2>6
  <2>9. g[s \ {y}] = f[z] + g[w] /\ g[s \ {z}] = f[y] + g[w]
    BY <2>6, <2>7, <2>8
  <2>10. g[w] \in Int /\ f[y] \in Int /\ f[z] \in Int
    BY <1>2, <1>5, <2>4, <2>8
  <2> HIDE DEF B
  <2> QED BY <2>2, <2>4, <2>9, <2>10
<1>7. g[T] = f[x] + g[S]
  BY <1>3, <1>6
<1>8. f[x] \in Int /\ g[S] \in Int /\ S \in SUBSET T
  BY <1>2, <1>3, <1>5
<1> QED BY <1>4, <1>7, <1>8 DEF T, Sums

=============================================================================
