------------------------------ MODULE Induction ------------------------------
(***************************************************************************)
(* Induction over an interval 0..n, without a predicate as parameter: a    *)
(* set that has 0, and with i - 1 also i, has all of 0..n.  Recursive      *)
(* functions on 0..n exist by it.                                          *)
(***************************************************************************)
EXTENDS Naturals, WellFoundedInduction, TLAPS

(* Induction on 0..n: a least counterexample would have a predecessor. *)
LEMMA SetInduction ==
  ASSUME NEW n \in Nat, NEW S, 0 \in S, \A i \in 1..n : i - 1 \in S => i \in S
  PROVE  0..n \subseteq S
<1> DEFINE T == {i \in 0..n : i \notin S}
<1> SUFFICES ASSUME T # {} PROVE FALSE
  OBVIOUS
<1>1. PICK x \in T : \A y \in T : ~ (<<y, x>> \in OpToRel(<, Nat))
  <2>1. IsWellFoundedOn(OpToRel(<, Nat), Nat)
    BY NatLessThanWellFounded
  <2>2. T \subseteq Nat
    OBVIOUS
  <2> HIDE DEF T
  <2> QED
    BY <2>1, <2>2, WFMin
<1>2. \A y \in T : ~ (y < x)
  <2>1. \A y \in T : y \in Nat /\ x \in Nat
    OBVIOUS
  <2> HIDE DEF T
  <2> QED
    BY <1>1, <2>1 DEF OpToRel
<1>3. x \in 1..n /\ x - 1 \in 0..n /\ x \notin S
  OBVIOUS
<1>4. x - 1 \notin T
  BY <1>2, <1>3
<1> QED
  BY <1>3, <1>4

(* A nonempty set of naturals up to n has a greatest element. *)
LEMMA Greatest ==
  ASSUME NEW n \in Nat, NEW S, S \subseteq 0..n, S # {}
  PROVE  \E m \in S : \A k \in S : k <= m
<1> DEFINE T == {i \in 0..n : (\E k \in S : k <= i) => \E m \in S : \A k \in S : k <= i => k <= m}
<1>1. 0 \in T
  OBVIOUS
<1>2. ASSUME NEW i \in 1..n, i - 1 \in T PROVE i \in T
  <2>1. CASE i \in S
    BY <2>1
  <2>2. CASE i \notin S
    <3>1. \A k \in S : k <= i <=> k <= i - 1
      BY <2>2
    <3> QED
      BY <1>2, <3>1
  <2> QED
    BY <2>1, <2>2
<1>3. n \in T
  <2>1. \A i \in 1..n : i - 1 \in T => i \in T
    BY <1>2
  <2> HIDE DEF T
  <2>2. 0..n \subseteq T
    BY <1>1, <2>1, SetInduction
  <2> QED
    BY <2>2
<1>4. \A k \in S : k <= n
  OBVIOUS
<1> QED
  BY <1>3, <1>4

(* A nonempty set of naturals up to n has a least element. *)
LEMMA Least ==
  ASSUME NEW n \in Nat, NEW S, S \subseteq 0..n, S # {}
  PROVE  \E m \in S : \A k \in S : m <= k
<1> DEFINE T == {t \in 0..n : n - t \in S}
<1>1. T \subseteq 0..n /\ T # {}
  <2>1. PICK k \in S : TRUE
    OBVIOUS
  <2>2. n - k \in 0..n /\ n - (n - k) = k
    OBVIOUS
  <2> QED
    BY <2>1, <2>2
<1>2. PICK t \in T : \A k \in T : k <= t
  <2> HIDE DEF T
  <2> QED
    BY <1>1, Greatest
<1>3. ASSUME NEW k \in S PROVE n - t <= k
  <2>1. n - k \in T
    <3>1. n - k \in 0..n /\ n - (n - k) = k
      OBVIOUS
    <3> QED
      BY <3>1
  <2> QED
    BY <1>2, <2>1
<1> QED
  BY <1>2, <1>3

(* Induction on i..n. *)
LEMMA RangeInduction ==
  ASSUME NEW i \in Nat, NEW n \in Nat, NEW S, i \in S,
         \A j \in (i + 1)..n : j - 1 \in S => j \in S
  PROVE  i..n \subseteq S
<1> SUFFICES ASSUME i <= n PROVE i..n \subseteq S
  OBVIOUS
<1> DEFINE T == {t \in 0..(n - i) : i + t \in S}
<1>1. 0 \in T /\ n - i \in Nat
  OBVIOUS
<1>2. ASSUME NEW t \in 1..(n - i), t - 1 \in T PROVE t \in T
  <2>1. i + t \in (i + 1)..n /\ (i + t) - 1 = i + (t - 1)
    OBVIOUS
  <2> QED
    BY <1>2, <2>1
<1>3. 0..(n - i) \subseteq T
  <2>1. \A t \in 1..(n - i) : t - 1 \in T => t \in T
    BY <1>2
  <2> HIDE DEF T
  <2> QED
    BY <1>1, <2>1, SetInduction
<1>4. ASSUME NEW j \in i..n PROVE j \in S
  <2>1. j - i \in T /\ i + (j - i) = j
    BY <1>3
  <2> QED
    BY <2>1
<1> QED
  BY <1>4

\* g runs through the values of the recursion on 0..n, on m..n, that starts with a.
Solves(g, n, a, step) == g[0] = a /\ \A i \in 1..n : g[i] = step[i][g[i - 1]]
SolvesFrom(g, m, n, a, step) == g[m] = a /\ \A i \in (m + 1)..n : g[i] = step[i][g[i - 1]]

(* A recursion on 0..n with values in S has a solution. *)
LEMMA Recursion ==
  ASSUME NEW n \in Nat, NEW S, NEW a \in S, NEW step \in [1..n -> [S -> S]]
  PROVE  \E g \in [0..n -> S] : Solves(g, n, a, step)
<1> DEFINE Upto(m, g) == \A i \in 0..m : g[i] = IF i = 0 THEN a ELSE step[i][g[i - 1]]
           T == {m \in 0..n : \E g \in [0..m -> S] : Upto(m, g)}
<1>1. 0 \in T
  <2>1. [i \in 0..0 |-> a] \in [0..0 -> S] /\ Upto(0, [i \in 0..0 |-> a])
    OBVIOUS
  <2>2. 0 \in 0..n
    OBVIOUS
  <2> HIDE DEF Upto
  <2> QED
    BY <2>1, <2>2
<1>2. ASSUME NEW m \in 1..n, m - 1 \in T PROVE m \in T
  <2>1. PICK g \in [0..(m - 1) -> S] : Upto(m - 1, g)
    <3> HIDE DEF Upto
    <3> QED
      BY <1>2
  <2> DEFINE h == [i \in 0..m |-> IF i = m THEN step[m][g[m - 1]] ELSE g[i]]
  <2>2. step[m] \in [S -> S] /\ g[m - 1] \in S /\ step[m][g[m - 1]] \in S
    OBVIOUS
  <2>3. h \in [0..m -> S]
    BY <2>2
  <2>4. Upto(m, h)
    <3> SUFFICES ASSUME NEW i \in 0..m PROVE h[i] = IF i = 0 THEN a ELSE step[i][h[i - 1]]
      OBVIOUS
    <3>1. CASE i = m
      <4>1. h[i] = step[m][g[m - 1]] /\ h[i - 1] = g[m - 1] /\ i # 0
        BY <3>1
      <4> QED
        BY <3>1, <4>1
    <3>2. CASE i # m
      <4>1. i \in 0..(m - 1) /\ h[i] = g[i] /\ (i # 0 => h[i - 1] = g[i - 1])
        BY <3>2
      <4>2. g[i] = IF i = 0 THEN a ELSE step[i][g[i - 1]]
        BY <2>1, <4>1
      <4> HIDE DEF h
      <4> QED
        BY <4>1, <4>2
    <3> QED
      BY <3>1, <3>2
  <2>5. m \in 0..n
    OBVIOUS
  <2> HIDE DEF Upto, h
  <2> QED
    BY <2>3, <2>4, <2>5
<1>3. n \in T
  <2>1. \A i \in 1..n : i - 1 \in T => i \in T
    BY <1>2
  <2> HIDE DEF T
  <2>2. 0..n \subseteq T
    BY <1>1, <2>1, SetInduction
  <2> QED
    BY <2>2
<1>4. PICK g \in [0..n -> S] : Upto(n, g)
  <2> HIDE DEF Upto
  <2> QED
    BY <1>3
<1>5. Solves(g, n, a, step)
  BY <1>4 DEF Solves
<1> QED
  BY <1>5

(* The same on i..n. *)
LEMMA RangeRecursion ==
  ASSUME NEW i \in Nat, NEW n \in Nat, i <= n, NEW S, NEW a \in S,
         NEW step \in [(i + 1)..n -> [S -> S]]
  PROVE  \E g \in [i..n -> S] : SolvesFrom(g, i, n, a, step)
<1> DEFINE m == n - i
           shifted == [t \in 1..m |-> step[i + t]]
<1>1. m \in Nat /\ \A t \in 1..m : i + t \in (i + 1)..n
  OBVIOUS
<1>2. shifted \in [1..m -> [S -> S]]
  BY <1>1
<1>3. PICK f \in [0..m -> S] : f[0] = a /\ \A t \in 1..m : f[t] = shifted[t][f[t - 1]]
  <2> HIDE DEF m, shifted
  <2>1. \E f \in [0..m -> S] : Solves(f, m, a, shifted)
    BY <1>1, <1>2, Recursion
  <2> QED
    BY <2>1 DEF Solves
<1> DEFINE g == [j \in i..n |-> f[j - i]]
<1>4. g \in [i..n -> S] /\ g[i] = a
  <2>1. \A j \in i..n : j - i \in 0..m
    OBVIOUS
  <2>2. i \in i..n /\ i - i = 0
    OBVIOUS
  <2> HIDE DEF m
  <2> QED
    BY <1>3, <2>1, <2>2
<1>5. ASSUME NEW j \in (i + 1)..n PROVE g[j] = step[j][g[j - 1]]
  <2>1. j - i \in 1..m /\ j \in i..n /\ j - 1 \in i..n /\ (j - 1) - i = (j - i) - 1 /\ i + (j - i) = j
    OBVIOUS
  <2>2. g[j] = f[j - i] /\ g[j - 1] = f[(j - i) - 1] /\ shifted[j - i] = step[j]
    BY <2>1
  <2> HIDE DEF g, shifted, m
  <2> QED
    BY <1>3, <2>1, <2>2
<1>6. SolvesFrom(g, i, n, a, step)
  BY <1>4, <1>5 DEF SolvesFrom
<1> HIDE DEF g
<1> QED
  BY <1>4, <1>6
=============================================================================
