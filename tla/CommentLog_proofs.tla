------------------------- MODULE CommentLog_proofs -------------------------
(***************************************************************************)
(* Theorems about CommentLog.  Deduplicating a log is storing its events   *)
(* one by one, replaying it is going version by version, and every         *)
(* operation appends; from these follow the invariant, that compaction     *)
(* loses nothing, and what a later event can change of an earlier version. *)
(***************************************************************************)
EXTENDS CommentLog, Induction, FiniteSetTheorems, TLAPS

LEMMA EIDSymmetric == \A d, e : SameEID(d, e) => SameEID(e, d)
  BY DEF SameEID

LEMMA EIDTransitive == \A d, e, g : SameEID(d, e) /\ SameEID(e, g) => SameEID(d, g)
  BY DEF SameEID

LEMMA EIDKind == \A d, e : SameEID(d, e) => d.kind = e.kind /\ d.kind # "created"
  BY DEF SameEID

(* lastByEID is well defined. *)
LEMMA LastExists ==
  ASSUME NEW S, NEW l \in Seq(S), NEW i \in 1..Len(l)
  PROVE  /\ lastByEID(l, i) \in i..Len(l)
         /\ lastByEID(l, i) = i \/ SameEID(l[i], l[lastByEID(l, i)])
         /\ \A k \in (lastByEID(l, i) + 1)..Len(l) : ~SameEID(l[i], l[k])
<1> DEFINE T == {j \in i..Len(l) : j = i \/ SameEID(l[i], l[j])}
<1>1. T \subseteq 0..Len(l) /\ i \in T /\ Len(l) \in Nat
  OBVIOUS
<1>2. PICK m \in T : \A k \in T : k <= m
  <2> HIDE DEF T
  <2> QED
    BY <1>1, Greatest
<1>3. /\ m \in i..Len(l) /\ (m = i \/ SameEID(l[i], l[m]))
      /\ \A k \in (m + 1)..Len(l) : ~SameEID(l[i], l[k])
  BY <1>2
<1>4. \E j \in i..Len(l) : /\ j = i \/ SameEID(l[i], l[j])
                           /\ \A k \in (j + 1)..Len(l) : ~SameEID(l[i], l[k])
  BY <1>2, <1>3
<1> QED
  BY <1>4 DEF lastByEID

(* The loop of DedupEvents. *)
LEMMA DedupLoop ==
  ASSUME NEW S, NEW l \in Seq(S)
  PROVE  \E out \in [0..Len(l) -> Seq(S)] :
           /\ DedupEvents(l) = out[Len(l)]
           /\ out[0] = <<>>
           /\ \A i \in 1..Len(l) :
                out[i] = IF emitted(l, i) THEN out[i - 1]
                         ELSE Append(out[i - 1], l[lastByEID(l, i)])
<1> DEFINE n == Len(l)
           Q == Seq(S)
           Step(i, s) == IF emitted(l, i) THEN s ELSE Append(s, l[lastByEID(l, i)])
           out[i \in 0..n] == IF i = 0 THEN <<>> ELSE Step(i, out[i - 1])
           step == [i \in 1..n |-> [s \in Q |-> Step(i, s)]]
<1>1. DedupEvents(l) = out[n]
  BY DEF DedupEvents
<1>2. n \in Nat /\ <<>> \in Q /\ \A i \in 1..n, s \in Q : Step(i, s) \in Q
  BY LastExists
<1> HIDE DEF n, Q, Step
<1>3. /\ step \in [1..n -> [Q -> Q]]
      /\ \A i \in 1..n, s \in Q : step[i][s] = Step(i, s)
  BY <1>2
<1> HIDE DEF step
<1>4. PICK g \in [0..n -> Q] :
        g[0] = <<>> /\ \A i \in 1..n : g[i] = step[i][g[i - 1]]
  <2>1. n \in Nat /\ <<>> \in Q /\ step \in [1..n -> [Q -> Q]]
    BY <1>2, <1>3
  <2>2. \E g \in [0..n -> Q] : Solves(g, n, <<>>, step)
    BY <2>1, Recursion
  <2> QED
    BY <2>2 DEF Solves
<1>5. \A i \in 1..n : g[i - 1] \in Q /\ g[i] = Step(i, g[i - 1])
  <2>1. \A i \in 1..n : i - 1 \in 0..n
    BY <1>2
  <2> QED
    BY <2>1, <1>3, <1>4
<1>6. g = [i \in 0..n |-> IF i = 0 THEN <<>> ELSE Step(i, g[i - 1])]
  BY <1>2, <1>4, <1>5
<1>7. out = [i \in 0..n |-> IF i = 0 THEN <<>> ELSE Step(i, out[i - 1])]
  BY <1>6
<1> HIDE DEF out
<1>8. DOMAIN out = 0..n /\ out[0] = <<>> /\ \A i \in 1..n : out[i] = Step(i, out[i - 1])
  BY <1>2, <1>7
<1>9. out = g
  <2> DEFINE T == {i \in 0..n : out[i] = g[i]}
  <2>1. 0 \in T /\ \A i \in 1..n : i - 1 \in T => i \in T
    BY <1>2, <1>4, <1>5, <1>8
  <2>2. 0..n \subseteq T
    <3> HIDE DEF T
    <3> QED
      BY <1>2, <2>1, SetInduction
  <2>3. out = [i \in 0..n |-> g[i]]
    BY <1>7, <2>2
  <2> QED
    BY <2>3
<1> QED
  BY <1>1, <1>2, <1>8, <1>9 DEF n, Q, Step
-----------------------------------------------------------------------------
\* Storing e among the deduplicated events d: in the place of the event with its id.
Replace(d, e) == [k \in 1..Len(d) |-> IF SameEID(d[k], e) THEN e ELSE d[k]]
Put(d, e) == IF \E k \in 1..Len(d) : SameEID(d[k], e) THEN Replace(d, e) ELSE Append(d, e)

LEMMA ReplaceType ==
  ASSUME NEW S, NEW d \in Seq(S), NEW e \in S
  PROVE  Replace(d, e) \in Seq(S) /\ Len(Replace(d, e)) = Len(d)
<1>1. Len(d) \in Nat
  OBVIOUS
<1>2. Replace(d, e) \in [1..Len(d) -> S]
  BY DEF Replace
<1> QED
  BY <1>1, <1>2

LEMMA PutType ==
  ASSUME NEW S, NEW d \in Seq(S), NEW e \in S
  PROVE  Put(d, e) \in Seq(S) /\ Put(d, e) # <<>>
<1>1. CASE \E k \in 1..Len(d) : SameEID(d[k], e)
  BY <1>1, ReplaceType DEF Put
<1>2. CASE ~ \E k \in 1..Len(d) : SameEID(d[k], e)
  BY <1>2 DEF Put
<1> QED
  BY <1>1, <1>2

(* Replacing in a sequence and then appending is appending and then replacing. *)
LEMMA ReplaceAppend ==
  ASSUME NEW S, NEW d \in Seq(S), NEW x \in S, NEW e \in S
  PROVE  Append(Replace(d, e), IF SameEID(x, e) THEN e ELSE x) = Replace(Append(d, x), e)
<1> DEFINE y == IF SameEID(x, e) THEN e ELSE x
           a == Append(Replace(d, e), y)
           b == Replace(Append(d, x), e)
           n == Len(d)
<1>1. /\ n \in Nat /\ y \in S /\ a \in Seq(S) /\ b \in Seq(S)
      /\ Len(a) = n + 1 /\ Len(b) = n + 1
  <2>1. n \in Nat /\ y \in S /\ Append(d, x) \in Seq(S) /\ Len(Append(d, x)) = n + 1
    OBVIOUS
  <2>2. Replace(d, e) \in Seq(S) /\ Len(Replace(d, e)) = n
    BY ReplaceType
  <2>3. b \in Seq(S) /\ Len(b) = n + 1
    BY <2>1, ReplaceType
  <2>4. a \in Seq(S) /\ Len(a) = n + 1
    <3> HIDE DEF n, y
    <3> QED
      BY <2>1, <2>2
  <2> QED
    BY <2>1, <2>3, <2>4
<1>2. ASSUME NEW k \in 1..(n + 1) PROVE a[k] = b[k]
  <2>1. b[k] = IF SameEID(Append(d, x)[k], e) THEN e ELSE Append(d, x)[k]
    BY DEF Replace
  <2>2. CASE k = n + 1
    BY <2>1, <2>2, ReplaceType
  <2>3. CASE k # n + 1
    <3>1. k \in 1..n /\ Append(d, x)[k] = d[k]
      BY <2>3
    <3>2. a[k] = Replace(d, e)[k]
      <4>1. Replace(d, e) \in Seq(S) /\ Len(Replace(d, e)) = n
        BY ReplaceType
      <4> HIDE DEF y
      <4> QED
        BY <1>1, <3>1, <4>1
    <3> QED
      BY <2>1, <3>1, <3>2 DEF Replace
  <2> QED
    BY <2>2, <2>3
<1> HIDE DEF a, b, n, y
<1> QED
  <2>1. a = b
    BY <1>1, <1>2
  <2> QED
    BY <2>1 DEF a, b, y

(* What the loop of DedupEvents has put out after i events: events of the log only, and
   one with the id of each event so far. *)
LEMMA DedupOut ==
  ASSUME NEW S, NEW l \in Seq(S), NEW out \in [0..Len(l) -> Seq(S)],
         out[0] = <<>>,
         \A i \in 1..Len(l) : out[i] = IF emitted(l, i) THEN out[i - 1]
                                       ELSE Append(out[i - 1], l[lastByEID(l, i)])
  PROVE  \A i \in 0..Len(l) :
           /\ \A k \in 1..Len(out[i]) : \E j \in 1..Len(l) : out[i][k] = l[j]
           /\ \A j \in 1..i : \E k \in 1..Len(out[i]) :
                out[i][k] = l[j] \/ SameEID(l[j], out[i][k])
<1> DEFINE n == Len(l)
           From(s) == \A k \in 1..Len(s) : \E j \in 1..n : s[k] = l[j]
           Covers(s, j) == \E k \in 1..Len(s) : s[k] = l[j] \/ SameEID(l[j], s[k])
           T == {i \in 0..n : From(out[i]) /\ \A j \in 1..i : Covers(out[i], j)}
<1>0. n \in Nat
  OBVIOUS
<1>1. 0 \in T
  OBVIOUS
<1>2. ASSUME NEW i \in 1..n, i - 1 \in T PROVE i \in T
  <2>1. i - 1 \in 0..n /\ out[i - 1] \in Seq(S) /\ From(out[i - 1])
        /\ (\A j \in 1..(i - 1) : Covers(out[i - 1], j)) /\ i \in 0..n
    <3>1. i \in 0..n /\ i - 1 \in 0..n
      BY <1>0
    <3> HIDE DEF From, Covers
    <3> QED
      BY <1>2, <3>1
  <2>2. CASE emitted(l, i)
    <3>1. out[i] = out[i - 1]
      BY <2>2
    <3>2. PICK j \in 1..(i - 1) : SameEID(l[j], l[i])
      BY <2>2 DEF emitted
    <3>3. Covers(out[i], i)
      <4>1. PICK k \in 1..Len(out[i]) : out[i][k] = l[j] \/ SameEID(l[j], out[i][k])
        BY <2>1, <3>1
      <4>2. SameEID(l[i], out[i][k])
        BY <3>2, <4>1, EIDSymmetric, EIDTransitive
      <4> QED
        BY <4>2
    <3>4. \A j2 \in 1..i : j2 = i \/ j2 \in 1..(i - 1)
      OBVIOUS
    <3> HIDE DEF From, Covers
    <3> QED
      BY <2>1, <3>1, <3>3, <3>4
  <2>3. CASE ~ emitted(l, i)
    <3> DEFINE m == lastByEID(l, i)
    <3>1. m \in i..n /\ (m = i \/ SameEID(l[i], l[m])) /\ l[m] \in S
      BY LastExists
    <3>2. out[i] = Append(out[i - 1], l[m])
      BY <2>3
    <3> HIDE DEF m
    <3>3. /\ Len(out[i]) = Len(out[i - 1]) + 1 /\ Len(out[i - 1]) \in Nat
          /\ out[i][Len(out[i])] = l[m]
          /\ \A k \in 1..Len(out[i - 1]) : out[i][k] = out[i - 1][k]
      BY <2>1, <3>1, <3>2
    <3>4. From(out[i])
      <4> SUFFICES ASSUME NEW k \in 1..Len(out[i]) PROVE \E j \in 1..n : out[i][k] = l[j]
        OBVIOUS
      <4>1. CASE k = Len(out[i])
        BY <3>1, <3>3, <4>1
      <4>2. CASE k # Len(out[i])
        <5>1. k \in 1..Len(out[i - 1])
          BY <3>3, <4>2
        <5> QED
          BY <2>1, <3>3, <5>1
      <4> QED
        BY <4>1, <4>2
    <3>5. Covers(out[i], i)
      <4>1. Len(out[i]) \in 1..Len(out[i])
        BY <3>3
      <4> QED
        BY <3>1, <3>3, <4>1
    <3>6. ASSUME NEW j \in 1..(i - 1) PROVE Covers(out[i], j)
      <4>1. PICK k \in 1..Len(out[i - 1]) :
              out[i - 1][k] = l[j] \/ SameEID(l[j], out[i - 1][k])
        BY <2>1
      <4>2. k \in 1..Len(out[i]) /\ out[i][k] = out[i - 1][k]
        BY <3>3
      <4> QED
        BY <4>1, <4>2
    <3>7. \A j2 \in 1..i : j2 = i \/ j2 \in 1..(i - 1)
      OBVIOUS
    <3> HIDE DEF From, Covers
    <3> QED
      BY <2>1, <3>4, <3>5, <3>6, <3>7
  <2> QED
    BY <2>2, <2>3
<1>3. 0..n \subseteq T
  <2>1. \A i \in 1..n : i - 1 \in T => i \in T
    BY <1>2
  <2> HIDE DEF T, n
  <2> QED
    BY <1>0, <1>1, <2>1, SetInduction
<1> QED
  BY <1>3

(* DedupEvents returns events of the log only, and one with the id of each of them. *)
LEMMA DedupElements ==
  ASSUME NEW S, NEW l \in Seq(S)
  PROVE  /\ DedupEvents(l) \in Seq(S)
         /\ \A k \in 1..Len(DedupEvents(l)) : \E j \in 1..Len(l) : DedupEvents(l)[k] = l[j]
         /\ \A j \in 1..Len(l) : \E k \in 1..Len(DedupEvents(l)) :
              DedupEvents(l)[k] = l[j] \/ SameEID(l[j], DedupEvents(l)[k])
<1>1. PICK out \in [0..Len(l) -> Seq(S)] :
        /\ DedupEvents(l) = out[Len(l)]
        /\ out[0] = <<>>
        /\ \A i \in 1..Len(l) :
             out[i] = IF emitted(l, i) THEN out[i - 1]
                      ELSE Append(out[i - 1], l[lastByEID(l, i)])
  BY DedupLoop
<1>2. \A i \in 0..Len(l) :
        /\ \A k \in 1..Len(out[i]) : \E j \in 1..Len(l) : out[i][k] = l[j]
        /\ \A j \in 1..i : \E k \in 1..Len(out[i]) :
             out[i][k] = l[j] \/ SameEID(l[j], out[i][k])
  BY <1>1, DedupOut
<1> DEFINE n == Len(l)
           d == out[n]
<1>3. n \in 0..n /\ DedupEvents(l) = d
  BY <1>1
<1>4. /\ d \in Seq(S)
      /\ \A k \in 1..Len(d) : \E j \in 1..n : d[k] = l[j]
      /\ \A j \in 1..n : \E k \in 1..Len(d) : d[k] = l[j] \/ SameEID(l[j], d[k])
  <2> HIDE DEF n
  <2> QED
    BY <1>2, <1>3 DEF n
<1> HIDE DEF d
<1> QED
  BY <1>3, <1>4

(* The last event with an id, after one more event. *)
LEMMA LastAppend ==
  ASSUME NEW S, NEW l \in Seq(S), NEW e \in S, NEW i \in 1..Len(l)
  PROVE  Append(l, e)[lastByEID(Append(l, e), i)]
           = IF SameEID(l[lastByEID(l, i)], e) THEN e ELSE l[lastByEID(l, i)]
<1> DEFINE n == Len(l)
           m == Append(l, e)
           j == lastByEID(m, i)
           p == lastByEID(l, i)
<1>1. /\ n \in Nat /\ m \in Seq(S) /\ Len(m) = n + 1 /\ m[n + 1] = e
      /\ \A k \in 1..n : m[k] = l[k]
  OBVIOUS
<1>2. /\ p \in i..n /\ (p = i \/ SameEID(l[i], l[p]))
      /\ \A k \in (p + 1)..n : ~SameEID(l[i], l[k])
  BY LastExists
<1>3. /\ j \in i..(n + 1) /\ (j = i \/ SameEID(m[i], m[j]))
      /\ \A k \in (j + 1)..(n + 1) : ~SameEID(m[i], m[k])
  <2>1. i \in 1..Len(m)
    BY <1>1
  <2> HIDE DEF m
  <2> QED
    BY <1>1, <2>1, LastExists
<1> HIDE DEF m, n, j, p
<1>4. i \in 1..n /\ m[i] = l[i]
  BY <1>1 DEF n
<1>5. CASE SameEID(l[i], e)
  <2>1. j = n + 1
    BY <1>1, <1>3, <1>4, <1>5
  <2>2. SameEID(l[p], e)
    BY <1>2, <1>5, EIDSymmetric, EIDTransitive
  <2>3. m[j] = IF SameEID(l[p], e) THEN e ELSE l[p]
    BY <1>1, <2>1, <2>2
  <2> QED
    BY <2>3 DEF m, j, p
<1>6. CASE ~ SameEID(l[i], e)
  <2>1. j # n + 1
    BY <1>1, <1>3, <1>4, <1>6
  <2>2. ~ (j < p)
    BY <1>1, <1>2, <1>3, <1>4, <2>1
  <2>3. ~ (p < j)
    BY <1>1, <1>2, <1>3, <1>4, <2>1
  <2>4. j = p
    BY <1>1, <1>2, <1>3, <1>4, <2>2, <2>3
  <2>5. ~ SameEID(l[p], e)
    BY <1>2, <1>6, EIDTransitive
  <2>6. m[j] = IF SameEID(l[p], e) THEN e ELSE l[p]
    BY <1>1, <1>2, <1>4, <2>4, <2>5
  <2> QED
    BY <2>6 DEF m, j, p
<1> QED
  BY <1>5, <1>6

(* Deduplicating a log with one more event stores that event in the deduplicated log. *)
LEMMA DedupAppend ==
  ASSUME NEW S, NEW l \in Seq(S), NEW e \in S
  PROVE  DedupEvents(Append(l, e)) = Put(DedupEvents(l), e)
<1> DEFINE n == Len(l)
           m == Append(l, e)
           D(i) == l[lastByEID(l, i)]
           E(i) == m[lastByEID(m, i)]
<1>1. /\ n \in Nat /\ m \in Seq(S) /\ Len(m) = n + 1 /\ m[n + 1] = e
      /\ \A k \in 1..n : m[k] = l[k]
  OBVIOUS
<1>2. PICK out \in [0..n -> Seq(S)] :
        /\ DedupEvents(l) = out[n]
        /\ out[0] = <<>>
        /\ \A i \in 1..n : out[i] = IF emitted(l, i) THEN out[i - 1] ELSE Append(out[i - 1], D(i))
  BY DedupLoop
<1>3. PICK out2 \in [0..(n + 1) -> Seq(S)] :
        /\ DedupEvents(m) = out2[n + 1]
        /\ out2[0] = <<>>
        /\ \A i \in 1..(n + 1) :
             out2[i] = IF emitted(m, i) THEN out2[i - 1] ELSE Append(out2[i - 1], E(i))
  <2>1. \E f \in [0..Len(m) -> Seq(S)] :
          /\ DedupEvents(m) = f[Len(m)]
          /\ f[0] = <<>>
          /\ \A i \in 1..Len(m) :
               f[i] = IF emitted(m, i) THEN f[i - 1] ELSE Append(f[i - 1], E(i))
    <3> HIDE DEF m
    <3> QED
      BY <1>1, DedupLoop
  <2> HIDE DEF m, E
  <2> QED
    BY <1>1, <2>1
<1>4. \A i \in 1..n : /\ emitted(m, i) <=> emitted(l, i)
                      /\ D(i) \in S
                      /\ E(i) = IF SameEID(D(i), e) THEN e ELSE D(i)
  <2> SUFFICES ASSUME NEW i \in 1..n
               PROVE  /\ emitted(m, i) <=> emitted(l, i)
                      /\ D(i) \in S
                      /\ E(i) = IF SameEID(D(i), e) THEN e ELSE D(i)
    OBVIOUS
  <2>1. emitted(m, i) <=> emitted(l, i)
    BY <1>1 DEF emitted
  <2>2. D(i) \in S
    BY LastExists
  <2>3. E(i) = IF SameEID(D(i), e) THEN e ELSE D(i)
    BY LastAppend
  <2> QED
    BY <2>1, <2>2, <2>3
<1>5. E(n + 1) = e
  <2>1. lastByEID(m, n + 1) \in (n + 1)..(n + 1)
    <3>1. n + 1 \in 1..Len(m)
      BY <1>1
    <3> HIDE DEF m
    <3> QED
      BY <1>1, <3>1, LastExists
  <2> QED
    BY <1>1, <2>1
<1> HIDE DEF n, m, D, E
<1> DEFINE T == {i \in 0..n : out2[i] = Replace(out[i], e)}
<1>6. 0 \in T
  <2>1. Replace(<<>>, e) = <<>>
    BY DEF Replace
  <2> QED
    BY <1>1, <1>2, <1>3, <2>1
<1>7. ASSUME NEW i \in 1..n, i - 1 \in T PROVE i \in T
  <2>1. i \in 0..n /\ i \in 1..(n + 1) /\ i - 1 \in 0..n /\ out[i - 1] \in Seq(S)
        /\ out2[i - 1] = Replace(out[i - 1], e)
    BY <1>1, <1>2, <1>7
  <2>2. CASE emitted(l, i)
    <3>1. out2[i] = out2[i - 1] /\ out[i] = out[i - 1]
      BY <1>2, <1>3, <1>4, <2>1, <2>2
    <3> QED
      BY <2>1, <3>1
  <2>3. CASE ~ emitted(l, i)
    <3>1. out2[i] = Append(out2[i - 1], E(i)) /\ out[i] = Append(out[i - 1], D(i))
      BY <1>2, <1>3, <1>4, <2>1, <2>3
    <3>2. Append(Replace(out[i - 1], e), IF SameEID(D(i), e) THEN e ELSE D(i))
            = Replace(Append(out[i - 1], D(i)), e)
      BY <1>4, <2>1, ReplaceAppend
    <3>3. out2[i] = Replace(out[i], e)
      BY <1>4, <2>1, <3>1, <3>2
    <3> QED
      BY <2>1, <3>3
  <2> QED
    BY <2>2, <2>3
<1>8. 0..n \subseteq T
  <2>1. \A i \in 1..n : i - 1 \in T => i \in T
    BY <1>7
  <2> HIDE DEF T
  <2> QED
    BY <1>1, <1>6, <2>1, SetInduction
<1> DEFINE d == DedupEvents(l)
<1>9. d \in Seq(S) /\ out2[n] = Replace(d, e)
  BY <1>1, <1>2, <1>8
<1>10. out2[n + 1] = IF emitted(m, n + 1) THEN Replace(d, e) ELSE Append(Replace(d, e), e)
  <2>1. n + 1 \in 1..(n + 1) /\ (n + 1) - 1 = n
    BY <1>1
  <2> QED
    BY <1>3, <1>5, <1>9, <2>1
<1>11. emitted(m, n + 1) <=> \E k \in 1..Len(d) : SameEID(d[k], e)
  <2>1. emitted(m, n + 1) <=> \E j \in 1..n : SameEID(l[j], e)
    <3>1. (n + 1) - 1 = n
      BY <1>1
    <3> QED
      BY <1>1, <3>1 DEF emitted
  <2>2. /\ \A k \in 1..Len(d) : \E j \in 1..n : d[k] = l[j]
        /\ \A j \in 1..n : \E k \in 1..Len(d) : d[k] = l[j] \/ SameEID(l[j], d[k])
    BY DedupElements DEF n
  <2>3. ASSUME NEW j \in 1..n, SameEID(l[j], e) PROVE \E k \in 1..Len(d) : SameEID(d[k], e)
    <3>1. PICK k \in 1..Len(d) : d[k] = l[j] \/ SameEID(l[j], d[k])
      BY <2>2
    <3>2. SameEID(d[k], e)
      BY <2>3, <3>1, EIDSymmetric, EIDTransitive
    <3> QED
      BY <3>2
  <2> HIDE DEF d
  <2> QED
    BY <2>1, <2>2, <2>3
<1>12. (~ \E k \in 1..Len(d) : SameEID(d[k], e)) => Replace(d, e) = d
  <2> HIDE DEF d
  <2> QED
    BY <1>9 DEF Replace
<1>13. out2[n + 1] = Put(d, e)
  BY <1>10, <1>11, <1>12 DEF Put
<1> QED
  BY <1>3, <1>13 DEF m

(* The two cases of Put. *)
LEMMA PutCases ==
  ASSUME NEW S, NEW d \in Seq(S), NEW e \in S
  PROVE  /\ Len(d) \in Nat /\ Put(d, e) \in Seq(S)
         /\ \/ /\ Len(Put(d, e)) = Len(d)
               /\ \A k \in 1..Len(d) : Put(d, e)[k] = IF SameEID(d[k], e) THEN e ELSE d[k]
            \/ /\ \A k \in 1..Len(d) : ~SameEID(d[k], e)
               /\ Put(d, e) = Append(d, e)
               /\ Len(Put(d, e)) = Len(d) + 1
               /\ Put(d, e)[Len(d) + 1] = e
               /\ \A k \in 1..Len(d) : Put(d, e)[k] = d[k]
<1>1. Put(d, e) \in Seq(S) /\ Len(d) \in Nat
  BY PutType
<1>2. CASE \E k \in 1..Len(d) : SameEID(d[k], e)
  <2>1. Put(d, e) = Replace(d, e) /\ Len(Replace(d, e)) = Len(d)
    BY <1>2, ReplaceType DEF Put
  <2>2. \A k \in 1..Len(d) : Replace(d, e)[k] = IF SameEID(d[k], e) THEN e ELSE d[k]
    BY DEF Replace
  <2> QED
    BY <1>1, <2>1, <2>2
<1>3. CASE ~ \E k \in 1..Len(d) : SameEID(d[k], e)
  <2>1. Put(d, e) = Append(d, e)
    BY <1>3 DEF Put
  <2>2. /\ Len(Append(d, e)) = Len(d) + 1
        /\ Append(d, e)[Len(d) + 1] = e
        /\ \A k \in 1..Len(d) : Append(d, e)[k] = d[k]
    OBVIOUS
  <2> QED
    BY <1>1, <1>3, <2>1, <2>2
<1> QED
  BY <1>2, <1>3

LEMMA DedupEmpty == DedupEvents(<<>>) = <<>>
<1>1. <<>> \in Seq({}) /\ Len(<<>>) = 0
  OBVIOUS
<1>2. \E out \in [0..Len(<<>>) -> Seq({})] : DedupEvents(<<>>) = out[Len(<<>>)] /\ out[0] = <<>>
  BY <1>1, DedupLoop
<1> QED
  BY <1>1, <1>2

(* DedupEvents stores one event after the other; facts about it are proved along the
   prefixes of a log. *)
LEMMA DedupPrefix ==
  ASSUME NEW S, NEW l \in Seq(S)
  PROVE  /\ Len(l) \in Nat
         /\ DedupEvents(SubSeq(l, 1, 0)) = <<>>
         /\ SubSeq(l, 1, Len(l)) = l
         /\ \A i \in 1..Len(l) :
              /\ SubSeq(l, 1, i - 1) \in Seq(S) /\ l[i] \in S
              /\ SubSeq(l, 1, i) = Append(SubSeq(l, 1, i - 1), l[i])
              /\ DedupEvents(SubSeq(l, 1, i - 1)) \in Seq(S)
              /\ DedupEvents(SubSeq(l, 1, i)) = Put(DedupEvents(SubSeq(l, 1, i - 1)), l[i])
<1>1. SubSeq(l, 1, 0) = <<>> /\ SubSeq(l, 1, Len(l)) = l /\ Len(l) \in Nat
  OBVIOUS
<1>2. ASSUME NEW i \in 1..Len(l)
      PROVE  /\ SubSeq(l, 1, i - 1) \in Seq(S) /\ l[i] \in S
             /\ SubSeq(l, 1, i) = Append(SubSeq(l, 1, i - 1), l[i])
  OBVIOUS
<1>3. ASSUME NEW i \in 1..Len(l)
      PROVE  /\ DedupEvents(SubSeq(l, 1, i - 1)) \in Seq(S)
             /\ DedupEvents(SubSeq(l, 1, i)) = Put(DedupEvents(SubSeq(l, 1, i - 1)), l[i])
  <2> DEFINE p == SubSeq(l, 1, i - 1)
  <2>1. p \in Seq(S) /\ l[i] \in S /\ SubSeq(l, 1, i) = Append(p, l[i])
    BY <1>2
  <2> HIDE DEF p
  <2>2. DedupEvents(p) \in Seq(S) /\ DedupEvents(SubSeq(l, 1, i)) = Put(DedupEvents(p), l[i])
    BY <2>1, DedupElements, DedupAppend
  <2> QED
    BY <2>2 DEF p
<1> QED
  BY <1>1, <1>2, <1>3, DedupEmpty

(* No two events of d share an id. *)
Distinct(d) == \A a, b \in 1..Len(d) : SameEID(d[a], d[b]) => a = b

LEMMA PutDistinct ==
  ASSUME NEW S, NEW d \in Seq(S), NEW e \in S, Distinct(d)
  PROVE  Distinct(Put(d, e))
<1> DEFINE p == Put(d, e)
           n == Len(d)
<1>1. n \in Nat
  OBVIOUS
<1>2. \A a, b \in 1..n : SameEID(d[a], d[b]) => a = b
  BY DEF Distinct
<1>3. CASE /\ Len(p) = n
           /\ \A k \in 1..n : p[k] = IF SameEID(d[k], e) THEN e ELSE d[k]
  <2> SUFFICES ASSUME NEW a \in 1..n, NEW b \in 1..n, SameEID(p[a], p[b]) PROVE a = b
    BY <1>3 DEF Distinct
  <2>1. /\ p[a] = IF SameEID(d[a], e) THEN e ELSE d[a]
        /\ p[b] = IF SameEID(d[b], e) THEN e ELSE d[b]
    BY <1>3
  <2> HIDE DEF p
  <2>2. SameEID(d[a], d[b])
    BY <2>1, EIDSymmetric, EIDTransitive
  <2> QED
    BY <1>2, <2>2
<1>4. CASE /\ \A k \in 1..n : ~SameEID(d[k], e)
           /\ Len(p) = n + 1
           /\ p[n + 1] = e
           /\ \A k \in 1..n : p[k] = d[k]
  <2> SUFFICES ASSUME NEW a \in 1..(n + 1), NEW b \in 1..(n + 1), SameEID(p[a], p[b])
               PROVE  a = b
    BY <1>4 DEF Distinct
  <2>1. /\ a \in 1..n \/ a = n + 1
        /\ b \in 1..n \/ b = n + 1
    BY <1>1
  <2>2. CASE a \in 1..n /\ b \in 1..n
    BY <1>2, <1>4, <2>2
  <2>3. CASE a \in 1..n /\ b = n + 1
    BY <1>4, <2>3
  <2>4. CASE a = n + 1 /\ b \in 1..n
    BY <1>4, <2>4, EIDSymmetric
  <2> HIDE DEF n, p
  <2> QED
    BY <2>1, <2>2, <2>3, <2>4
<1>5. \/ /\ Len(p) = n
         /\ \A k \in 1..n : p[k] = IF SameEID(d[k], e) THEN e ELSE d[k]
      \/ /\ \A k \in 1..n : ~SameEID(d[k], e)
         /\ Len(p) = n + 1
         /\ p[n + 1] = e
         /\ \A k \in 1..n : p[k] = d[k]
  BY PutCases
<1> HIDE DEF p, n
<1> QED
  BY <1>3, <1>4, <1>5 DEF p, n

LEMMA DedupDistinct ==
  ASSUME NEW S, NEW l \in Seq(S)
  PROVE  Distinct(DedupEvents(l))
<1> DEFINE n == Len(l)
           D(i) == DedupEvents(SubSeq(l, 1, i))
           T == {i \in 0..n : Distinct(D(i))}
<1>1. /\ n \in Nat /\ D(0) = <<>> /\ D(n) = DedupEvents(l)
      /\ \A i \in 1..n : D(i - 1) \in Seq(S) /\ l[i] \in S /\ D(i) = Put(D(i - 1), l[i])
  BY DedupPrefix
<1> HIDE DEF n, D
<1>2. 0 \in T
  BY <1>1 DEF Distinct
<1>3. \A i \in 1..n : i - 1 \in T => i \in T
  BY <1>1, PutDistinct
<1>4. n \in T
  <2>1. 0..n \subseteq T
    <3> HIDE DEF T
    <3> QED
      BY <1>1, <1>2, <1>3, SetInduction
  <2> QED
    BY <1>1, <2>1
<1> QED
  BY <1>1, <1>4

(* A deduplicated log is left as it is. *)
LEMMA DedupFixed ==
  ASSUME NEW S, NEW l \in Seq(S), Distinct(l)
  PROVE  DedupEvents(l) = l
<1> DEFINE n == Len(l)
           P(i) == SubSeq(l, 1, i)
           D(i) == DedupEvents(P(i))
           T == {i \in 0..n : D(i) = P(i)}
<1>1. /\ n \in Nat /\ D(0) = <<>> /\ P(n) = l
      /\ \A i \in 1..n : /\ P(i - 1) \in Seq(S) /\ l[i] \in S /\ P(i) = Append(P(i - 1), l[i])
                         /\ D(i) = Put(D(i - 1), l[i])
  BY DedupPrefix
<1>2. P(0) = <<>>
  OBVIOUS
<1>3. ASSUME NEW i \in 1..n PROVE \A k \in 1..Len(P(i - 1)) : ~SameEID(P(i - 1)[k], l[i])
  <2>1. \A k \in 1..Len(P(i - 1)) : k \in 1..n /\ k # i /\ P(i - 1)[k] = l[k]
    OBVIOUS
  <2> HIDE DEF P
  <2> QED
    BY <2>1 DEF Distinct
<1>4. ASSUME NEW i \in 1..n, i - 1 \in T PROVE i \in T
  <2>1. i \in 0..n /\ D(i - 1) = P(i - 1)
    BY <1>1, <1>4
  <2>2. Put(P(i - 1), l[i]) = Append(P(i - 1), l[i])
    BY <1>3 DEF Put
  <2> HIDE DEF P, D, n
  <2> QED
    BY <1>1, <2>1, <2>2
<1> HIDE DEF n, P
<1>5. 0 \in T
  BY <1>1, <1>2
<1>6. n \in T
  <2>1. \A i \in 1..n : i - 1 \in T => i \in T
    BY <1>4
  <2>2. 0..n \subseteq T
    <3> HIDE DEF T
    <3> QED
      BY <1>1, <1>5, <2>1, SetInduction
  <2> QED
    BY <1>1, <2>2
<1> QED
  BY <1>1, <1>6

LEMMA DedupTwice ==
  ASSUME NEW S, NEW l \in Seq(S)
  PROVE  DedupEvents(DedupEvents(l)) = DedupEvents(l)
BY DedupElements, DedupDistinct, DedupFixed

(* The first event of a log keeps its place. *)
LEMMA DedupFirst ==
  ASSUME NEW S, NEW l \in Seq(S), l # <<>>
  PROVE  /\ DedupEvents(l) # <<>>
         /\ DedupEvents(l)[1] = l[1] \/ SameEID(l[1], DedupEvents(l)[1])
<1> DEFINE n == Len(l)
           D(i) == DedupEvents(SubSeq(l, 1, i))
           T == {0} \cup {i \in 1..n : D(i) # <<>> /\ (D(i)[1] = l[1] \/ SameEID(l[1], D(i)[1]))}
<1>0. n \in Nat /\ n # 0
  OBVIOUS
<1>1. /\ n \in Nat /\ n # 0 /\ D(0) = <<>> /\ D(n) = DedupEvents(l)
      /\ \A i \in 1..n : D(i - 1) \in Seq(S) /\ l[i] \in S /\ D(i) = Put(D(i - 1), l[i])
  BY <1>0, DedupPrefix
<1> HIDE DEF n, D
<1>2. ASSUME NEW i \in 1..n, i - 1 \in T PROVE i \in T
  <2> DEFINE d == D(i - 1)
             p == Put(d, l[i])
  <2>1. d \in Seq(S) /\ l[i] \in S /\ D(i) = p
    BY <1>1
  <2>2. CASE i = 1
    <3>1. i - 1 = 0
      BY <2>2
    <3>2. d = <<>> /\ Len(<<>>) = 0
      BY <1>1, <3>1
    <3>3. Put(<<>>, l[1]) = Append(<<>>, l[1])
      BY <3>2 DEF Put
    <3>4. p = <<l[1]>>
      BY <2>2, <3>2, <3>3
    <3>5. p # <<>> /\ p[1] = l[1]
      BY <3>4
    <3> HIDE DEF p
    <3> QED
      BY <2>1, <3>5
  <2>3. CASE i # 1
    <3>1. d # <<>> /\ (d[1] = l[1] \/ SameEID(l[1], d[1]))
      BY <1>1, <1>2, <2>3
    <3> HIDE DEF d
    <3>2. 1 \in 1..Len(d)
      BY <2>1, <3>1
    <3>3. p # <<>>
      BY <2>1, PutType
    <3>4. p[1] = d[1] \/ (SameEID(d[1], l[i]) /\ p[1] = l[i])
      <4>1. \/ \A k \in 1..Len(d) : p[k] = IF SameEID(d[k], l[i]) THEN l[i] ELSE d[k]
            \/ \A k \in 1..Len(d) : p[k] = d[k]
        BY <2>1, PutCases
      <4> HIDE DEF p
      <4>2. (p[1] = IF SameEID(d[1], l[i]) THEN l[i] ELSE d[1]) \/ p[1] = d[1]
        BY <3>2, <4>1
      <4> QED
        BY <4>2 DEF SameEID
    <3>5. p[1] = l[1] \/ SameEID(l[1], p[1])
      BY <3>1, <3>4, EIDTransitive
    <3> HIDE DEF p
    <3> QED
      BY <2>1, <3>3, <3>5
  <2> QED
    BY <2>2, <2>3
<1>3. n \in T
  <2>1. 0 \in T /\ \A i \in 1..n : i - 1 \in T => i \in T
    BY <1>2
  <2>2. 0..n \subseteq T
    <3> HIDE DEF T
    <3> QED
      BY <1>1, <2>1, SetInduction
  <2> HIDE DEF T
  <2> QED
    BY <1>1, <2>2
<1> QED
  BY <1>1, <1>3
-----------------------------------------------------------------------------
\* What a reader can see of a comment.
Snapshot ==
  [anchor : Anchor \cup {None}, applied : Nat, verdict : Verdict \cup {None},
   users : SUBSET User, replies : SUBSET Reply, likes : SUBSET (Reply \X User),
   deleted : BOOLEAN]

LEMMA EventShape ==
  ASSUME NEW e \in Event
  PROVE  /\ e.v \in 1..Latest
         /\ e.kind \in {"created", "anchor_changed", "marked_applied", "marked_open", "deleted",
                        "reaction_added", "reaction_removed", "reply_added", "reply_deleted",
                        "reply_reaction_added", "reply_reaction_removed"}
         /\ e.kind \in {"created", "anchor_changed"} => e.anchor \in Anchor
         /\ e.kind \in {"marked_applied", "marked_open"} => e.verdict \in Verdict
         /\ e.kind \in {"reaction_added", "reaction_removed", "reply_reaction_added",
                        "reply_reaction_removed"} => e.by \in User
         /\ e.kind \in {"reply_added", "reply_deleted", "reply_reaction_added",
                        "reply_reaction_removed"} => e.reply \in Reply
<1>1. Version \subseteq 1..Latest /\ Latest \in 1..Latest
  BY Bounds DEF Version, Latest
<1> QED
  BY <1>1 DEF Event

LEMMA EmptyType == emptySnapshot \in Snapshot
  BY DEF emptySnapshot, Snapshot

LEMMA ApplyType ==
  ASSUME NEW s \in Snapshot, NEW e \in Event
  PROVE  applyCommentEvent(s, e) \in Snapshot
<1>0. Latest \in Nat /\ e.v \in Nat
  <2>1. Latest \in Nat
    BY Bounds DEF Latest
  <2> QED
    BY <2>1, EventShape
<1> USE DEF applyCommentEvent, Snapshot
<1>1. CASE e.kind = "created"
  BY <1>1, EventShape
<1>2. CASE e.kind = "anchor_changed"
  BY <1>2, EventShape
<1>3. CASE e.kind = "marked_applied"
  BY <1>0, <1>3, EventShape
<1>4. CASE e.kind = "marked_open"
  BY <1>4, EventShape
<1>5. CASE e.kind = "deleted"
  BY <1>5
<1>6. CASE e.kind = "reaction_added"
  BY <1>6, EventShape
<1>7. CASE e.kind = "reaction_removed"
  BY <1>7, EventShape
<1>8. CASE e.kind = "reply_added"
  BY <1>8, EventShape
<1>9. CASE e.kind = "reply_deleted"
  BY <1>9, EventShape
<1>10. CASE e.kind = "reply_reaction_added"
  BY <1>10, EventShape
<1>11. CASE e.kind = "reply_reaction_removed"
  BY <1>11, EventShape
<1> HIDE DEF applyCommentEvent, Snapshot
<1> QED
  BY <1>1, <1>2, <1>3, <1>4, <1>5, <1>6, <1>7, <1>8, <1>9, <1>10, <1>11, EventShape

\* g runs through the states of replayVersion.
Applies(g, s, d, v) ==
  /\ g[0] = s
  /\ \A i \in 1..Len(d) :
       g[i] = IF d[i].v = v THEN applyCommentEvent(g[i - 1], d[i]) ELSE g[i - 1]

(* The loop of replayVersion. *)
LEMMA VersionLoop ==
  ASSUME NEW s \in Snapshot, NEW d \in Seq(Event), NEW v
  PROVE  \E g \in [0..Len(d) -> Snapshot] :
           replayVersion(s, d, v) = g[Len(d)] /\ Applies(g, s, d, v)
<1> DEFINE n == Len(d)
           Step(i, t) == IF d[i].v = v THEN applyCommentEvent(t, d[i]) ELSE t
           state[i \in 0..n] == IF i = 0 THEN s ELSE Step(i, state[i - 1])
           step == [i \in 1..n |-> [t \in Snapshot |-> Step(i, t)]]
<1>1. replayVersion(s, d, v) = state[n]
  BY DEF replayVersion
<1>2. n \in Nat /\ \A i \in 1..n, t \in Snapshot : Step(i, t) \in Snapshot
  BY ApplyType
<1> HIDE DEF n, Step
<1>3. /\ step \in [1..n -> [Snapshot -> Snapshot]]
      /\ \A i \in 1..n, t \in Snapshot : step[i][t] = Step(i, t)
  BY <1>2
<1> HIDE DEF step
<1>4. PICK g \in [0..n -> Snapshot] : g[0] = s /\ \A i \in 1..n : g[i] = step[i][g[i - 1]]
  <2>1. \E g \in [0..n -> Snapshot] : Solves(g, n, s, step)
    BY <1>2, <1>3, Recursion
  <2> QED
    BY <2>1 DEF Solves
<1>5. \A i \in 1..n : g[i - 1] \in Snapshot /\ g[i] = Step(i, g[i - 1])
  <2>1. \A i \in 1..n : i - 1 \in 0..n
    BY <1>2
  <2> QED
    BY <2>1, <1>3, <1>4
<1>6. g = [i \in 0..n |-> IF i = 0 THEN s ELSE Step(i, g[i - 1])]
  BY <1>2, <1>4, <1>5
<1>7. state = [i \in 0..n |-> IF i = 0 THEN s ELSE Step(i, state[i - 1])]
  BY <1>6
<1> HIDE DEF state
<1>8. state[0] = s /\ \A i \in 1..n : state[i] = Step(i, state[i - 1])
  BY <1>2, <1>7
<1>9. state = g
  <2> DEFINE T == {i \in 0..n : state[i] = g[i]}
  <2>1. 0 \in T /\ \A i \in 1..n : i - 1 \in T => i \in T
    BY <1>2, <1>4, <1>5, <1>8
  <2>2. 0..n \subseteq T
    <3> HIDE DEF T
    <3> QED
      BY <1>2, <2>1, SetInduction
  <2>3. state = [i \in 0..n |-> g[i]]
    BY <1>7, <2>2
  <2> QED
    BY <2>3
<1> QED
  BY <1>1, <1>8, <1>9 DEF n, Step, Applies

LEMMA VersionType ==
  ASSUME NEW s \in Snapshot, NEW d \in Seq(Event), NEW v
  PROVE  replayVersion(s, d, v) \in Snapshot
<1>1. PICK g \in [0..Len(d) -> Snapshot] :
        replayVersion(s, d, v) = g[Len(d)] /\ Applies(g, s, d, v)
  BY VersionLoop
<1> QED
  BY <1>1

(* The loop of replay. *)
LEMMA ReplayLoop ==
  ASSUME NEW d \in Seq(Event), NEW at \in Nat
  PROVE  \E g \in [0..at -> Snapshot] :
           /\ replay(d, at) = g[at]
           /\ g[0] = emptySnapshot
           /\ \A v \in 1..at : g[v] = replayVersion(g[v - 1], d, v)
<1> DEFINE Step(v, t) == replayVersion(t, d, v)
           state[v \in 0..at] == IF v = 0 THEN emptySnapshot ELSE Step(v, state[v - 1])
           step == [v \in 1..at |-> [t \in Snapshot |-> Step(v, t)]]
<1>1. replay(d, at) = state[at]
  BY DEF replay
<1>2. \A v \in 1..at, t \in Snapshot : Step(v, t) \in Snapshot
  BY VersionType
<1> HIDE DEF Step
<1>3. /\ step \in [1..at -> [Snapshot -> Snapshot]]
      /\ \A v \in 1..at, t \in Snapshot : step[v][t] = Step(v, t)
  BY <1>2
<1> HIDE DEF step
<1>4. PICK g \in [0..at -> Snapshot] :
        g[0] = emptySnapshot /\ \A v \in 1..at : g[v] = step[v][g[v - 1]]
  <2>1. \E g \in [0..at -> Snapshot] : Solves(g, at, emptySnapshot, step)
    BY <1>3, EmptyType, Recursion
  <2> QED
    BY <2>1 DEF Solves
<1>5. \A v \in 1..at : g[v - 1] \in Snapshot /\ g[v] = Step(v, g[v - 1])
  <2>1. \A v \in 1..at : v - 1 \in 0..at
    OBVIOUS
  <2> QED
    BY <2>1, <1>3, <1>4
<1>6. g = [v \in 0..at |-> IF v = 0 THEN emptySnapshot ELSE Step(v, g[v - 1])]
  BY <1>4, <1>5
<1>7. state = [v \in 0..at |-> IF v = 0 THEN emptySnapshot ELSE Step(v, state[v - 1])]
  BY <1>6
<1> HIDE DEF state
<1>8. state[0] = emptySnapshot /\ \A v \in 1..at : state[v] = Step(v, state[v - 1])
  BY <1>7
<1>9. state = g
  <2> DEFINE T == {v \in 0..at : state[v] = g[v]}
  <2>1. 0 \in T /\ \A v \in 1..at : v - 1 \in T => v \in T
    BY <1>4, <1>5, <1>8
  <2>2. 0..at \subseteq T
    <3> HIDE DEF T
    <3> QED
      BY <2>1, SetInduction
  <2>3. state = [v \in 0..at |-> g[v]]
    BY <1>7, <2>2
  <2> QED
    BY <2>3
<1> QED
  BY <1>1, <1>8, <1>9 DEF Step

LEMMA ReplayType ==
  ASSUME NEW d \in Seq(Event), NEW at \in Nat
  PROVE  replay(d, at) \in Snapshot
<1>1. PICK g \in [0..at -> Snapshot] : replay(d, at) = g[at]
  BY ReplayLoop
<1> QED
  BY <1>1

(* replay goes version by version. *)
LEMMA ReplayStep ==
  ASSUME NEW d \in Seq(Event)
  PROVE  /\ replay(d, 0) = emptySnapshot
         /\ \A v \in Nat \ {0} : replay(d, v) = replayVersion(replay(d, v - 1), d, v)
<1>1. replay(d, 0) = emptySnapshot
  <2>1. \E g \in [0..0 -> Snapshot] : replay(d, 0) = g[0] /\ g[0] = emptySnapshot
    BY ReplayLoop
  <2> QED
    BY <2>1
<1>2. ASSUME NEW at \in Nat \ {0}
      PROVE  replay(d, at) = replayVersion(replay(d, at - 1), d, at)
  <2> DEFINE b == at - 1
  <2>1. b \in Nat /\ at = b + 1
    OBVIOUS
  <2>2. PICK f \in [0..b -> Snapshot] :
          /\ replay(d, b) = f[b]
          /\ f[0] = emptySnapshot
          /\ \A v \in 1..b : f[v] = replayVersion(f[v - 1], d, v)
    <3> HIDE DEF b
    <3> QED
      BY <2>1, ReplayLoop
  <2>3. PICK g \in [0..at -> Snapshot] :
          /\ replay(d, at) = g[at]
          /\ g[0] = emptySnapshot
          /\ \A v \in 1..at : g[v] = replayVersion(g[v - 1], d, v)
    BY ReplayLoop
  <2> DEFINE T == {v \in 0..b : f[v] = g[v]}
  <2> HIDE DEF b
  <2>4. 0 \in T /\ \A v \in 1..b : v - 1 \in T => v \in T
    BY <2>1, <2>2, <2>3
  <2>5. 0..b \subseteq T
    <3> HIDE DEF T
    <3> QED
      BY <2>1, <2>4, SetInduction
  <2>6. f[b] = g[b] /\ at \in 1..at /\ at - 1 = b
    BY <2>1, <2>5
  <2>7. replay(d, at) = replayVersion(replay(d, b), d, at)
    BY <2>2, <2>3, <2>6
  <2> QED
    BY <2>6, <2>7
<1> QED
  BY <1>1, <1>2

(* Events of other versions do not matter. *)
LEMMA VersionAgree ==
  ASSUME NEW s \in Snapshot, NEW d \in Seq(Event), NEW e \in Seq(Event), NEW v,
         Len(d) = Len(e),
         \A i \in 1..Len(d) : d[i] = e[i] \/ (d[i].v # v /\ e[i].v # v)
  PROVE  replayVersion(s, d, v) = replayVersion(s, e, v)
<1> DEFINE n == Len(d)
<1>1. n \in Nat
  OBVIOUS
<1>2. PICK f \in [0..Len(d) -> Snapshot] :
        replayVersion(s, d, v) = f[Len(d)] /\ Applies(f, s, d, v)
  BY VersionLoop
<1>3. PICK g \in [0..Len(e) -> Snapshot] :
        replayVersion(s, e, v) = g[Len(e)] /\ Applies(g, s, e, v)
  BY VersionLoop
<1>4. /\ f[0] = s /\ g[0] = s
      /\ \A i \in 1..n :
           /\ f[i] = IF d[i].v = v THEN applyCommentEvent(f[i - 1], d[i]) ELSE f[i - 1]
           /\ g[i] = IF e[i].v = v THEN applyCommentEvent(g[i - 1], e[i]) ELSE g[i - 1]
           /\ d[i] = e[i] \/ (d[i].v # v /\ e[i].v # v)
  BY <1>2, <1>3 DEF Applies
<1>5. replayVersion(s, d, v) = f[n] /\ replayVersion(s, e, v) = g[n]
  BY <1>2, <1>3
<1> DEFINE T == {i \in 0..n : f[i] = g[i]}
<1> HIDE DEF n
<1>6. 0 \in T
  BY <1>1, <1>4
<1>7. ASSUME NEW i \in 1..n, i - 1 \in T PROVE i \in T
  <2>1. i \in 0..n /\ f[i - 1] = g[i - 1]
    BY <1>1, <1>7
  <2>2. CASE d[i] = e[i]
    BY <1>4, <2>1, <2>2
  <2>3. CASE d[i].v # v /\ e[i].v # v
    BY <1>4, <2>1, <2>3
  <2> QED
    BY <1>4, <2>2, <2>3
<1>8. n \in T
  <2>1. \A i \in 1..n : i - 1 \in T => i \in T
    BY <1>7
  <2> HIDE DEF T
  <2>2. 0..n \subseteq T
    BY <1>1, <1>6, <2>1, SetInduction
  <2> QED
    BY <1>1, <2>2
<1> QED
  BY <1>5, <1>8

(* An event at the end of the log is applied last in its version. *)
LEMMA VersionAppend ==
  ASSUME NEW s \in Snapshot, NEW d \in Seq(Event), NEW e \in Event, NEW v
  PROVE  replayVersion(s, Append(d, e), v)
           = IF e.v = v THEN applyCommentEvent(replayVersion(s, d, v), e)
             ELSE replayVersion(s, d, v)
<1> DEFINE n == Len(d)
           m == Append(d, e)
<1>1. /\ n \in Nat /\ m \in Seq(Event) /\ Len(m) = n + 1 /\ m[n + 1] = e
      /\ \A i \in 1..n : m[i] = d[i]
  OBVIOUS
<1>2. PICK f \in [0..Len(d) -> Snapshot] :
        replayVersion(s, d, v) = f[Len(d)] /\ Applies(f, s, d, v)
  BY VersionLoop
<1> HIDE DEF m
<1>3. PICK g \in [0..Len(m) -> Snapshot] :
        replayVersion(s, m, v) = g[Len(m)] /\ Applies(g, s, m, v)
  BY <1>1, VersionLoop
<1>4. /\ f[0] = s /\ f[n] = replayVersion(s, d, v)
      /\ \A i \in 1..n :
           f[i] = IF d[i].v = v THEN applyCommentEvent(f[i - 1], d[i]) ELSE f[i - 1]
  BY <1>2 DEF Applies
<1> HIDE DEF n
<1>5. /\ g[0] = s /\ g[n + 1] = replayVersion(s, m, v)
      /\ \A i \in 1..(n + 1) :
           g[i] = IF m[i].v = v THEN applyCommentEvent(g[i - 1], m[i]) ELSE g[i - 1]
  BY <1>1, <1>3 DEF Applies
<1> DEFINE T == {i \in 0..n : f[i] = g[i]}
<1>6. 0 \in T /\ \A i \in 1..n : i - 1 \in T => i \in T
  BY <1>1, <1>4, <1>5
<1>7. n \in T
  <2> HIDE DEF T
  <2>1. 0..n \subseteq T
    BY <1>1, <1>6, SetInduction
  <2> QED
    BY <1>1, <2>1
<1>8. f[n] = g[n] /\ n + 1 \in 1..(n + 1) /\ (n + 1) - 1 = n
  BY <1>1, <1>7
<1>9. g[n + 1] = IF e.v = v THEN applyCommentEvent(f[n], e) ELSE f[n]
  BY <1>1, <1>5, <1>8
<1> QED
  BY <1>4, <1>5, <1>9 DEF m

LEMMA ApplyDeleted ==
  ASSUME NEW s \in Snapshot, NEW e \in Event
  PROVE  applyCommentEvent(s, e).deleted <=> s.deleted \/ e.kind = "deleted"
<1>1. e.kind # "deleted" => applyCommentEvent(s, e).deleted = s.deleted
  BY EventShape DEF applyCommentEvent, Snapshot
<1>2. CASE e.kind = "deleted"
  BY <1>2 DEF applyCommentEvent, Snapshot
<1> QED
  BY <1>1, <1>2

LEMMA ApplyAnchor ==
  ASSUME NEW s \in Snapshot, NEW e \in Event
  PROVE  /\ s.anchor \in Anchor \/ e.kind = "created" => applyCommentEvent(s, e).anchor \in Anchor
         /\ e.kind = "anchor_changed" => /\ applyCommentEvent(s, e).anchor = e.anchor
                                         /\ e.anchor \in Anchor
<1>1. e.kind \notin {"created", "anchor_changed"} => applyCommentEvent(s, e).anchor = s.anchor
  BY EventShape DEF applyCommentEvent, Snapshot
<1>2. CASE e.kind = "created"
  <2>1. applyCommentEvent(s, e).anchor = e.anchor
    BY <1>2 DEF applyCommentEvent, Snapshot
  <2> QED
    BY <1>2, <2>1, EventShape
<1>3. CASE e.kind = "anchor_changed"
  <2>1. applyCommentEvent(s, e).anchor = e.anchor
    BY <1>3 DEF applyCommentEvent, Snapshot
  <2> QED
    BY <1>3, <2>1, EventShape
<1> QED
  BY <1>1, <1>2, <1>3

LEMMA VersionDeleted ==
  ASSUME NEW s \in Snapshot, NEW d \in Seq(Event), NEW v
  PROVE  replayVersion(s, d, v).deleted <=>
           s.deleted \/ \E i \in 1..Len(d) : d[i].kind = "deleted" /\ d[i].v = v
<1> DEFINE n == Len(d)
<1>1. PICK g \in [0..Len(d) -> Snapshot] :
        replayVersion(s, d, v) = g[Len(d)] /\ Applies(g, s, d, v)
  BY VersionLoop
<1>2. /\ g[0] = s /\ g[n] = replayVersion(s, d, v)
      /\ \A i \in 1..n :
           g[i] = IF d[i].v = v THEN applyCommentEvent(g[i - 1], d[i]) ELSE g[i - 1]
  BY <1>1 DEF Applies
<1>3. n \in Nat /\ g \in [0..n -> Snapshot] /\ \A i \in 1..n : d[i] \in Event
  OBVIOUS
<1> DEFINE Gone(i) == \E j \in 1..i : d[j].kind = "deleted" /\ d[j].v = v
           T == {i \in 0..n : g[i].deleted <=> s.deleted \/ Gone(i)}
<1> HIDE DEF n
<1>4. 0 \in T
  BY <1>2, <1>3
<1>5. ASSUME NEW i \in 1..n, i - 1 \in T PROVE i \in T
  <2>1. i \in 0..n /\ i - 1 \in 0..n /\ g[i - 1] \in Snapshot /\ d[i] \in Event
    BY <1>3
  <2>2. Gone(i) <=> Gone(i - 1) \/ (d[i].kind = "deleted" /\ d[i].v = v)
    <3>1. \A j \in 1..i : j = i \/ j \in 1..(i - 1)
      BY <2>1
    <3>2. i \in 1..i /\ \A j \in 1..(i - 1) : j \in 1..i
      BY <2>1
    <3> QED
      BY <3>1, <3>2
  <2> HIDE DEF Gone
  <2>3. g[i - 1].deleted <=> s.deleted \/ Gone(i - 1)
    BY <1>5
  <2>4. g[i].deleted <=> g[i - 1].deleted \/ (d[i].kind = "deleted" /\ d[i].v = v)
    BY <1>2, <2>1, ApplyDeleted
  <2> QED
    BY <2>1, <2>2, <2>3, <2>4
<1>6. n \in T
  <2>1. \A i \in 1..n : i - 1 \in T => i \in T
    BY <1>5
  <2> HIDE DEF T
  <2>2. 0..n \subseteq T
    BY <1>3, <1>4, <2>1, SetInduction
  <2> QED
    BY <1>3, <2>2
<1> QED
  BY <1>2, <1>6 DEF n

LEMMA VersionAnchor ==
  ASSUME NEW s \in Snapshot, NEW d \in Seq(Event), NEW v,
         s.anchor \in Anchor \/ (d # <<>> /\ d[1].kind = "created" /\ d[1].v = v)
  PROVE  replayVersion(s, d, v).anchor \in Anchor
<1> DEFINE n == Len(d)
<1>1. PICK g \in [0..Len(d) -> Snapshot] :
        replayVersion(s, d, v) = g[Len(d)] /\ Applies(g, s, d, v)
  BY VersionLoop
<1>2. /\ g[0] = s /\ g[n] = replayVersion(s, d, v)
      /\ \A i \in 1..n :
           g[i] = IF d[i].v = v THEN applyCommentEvent(g[i - 1], d[i]) ELSE g[i - 1]
  BY <1>1 DEF Applies
<1>3. /\ n \in Nat /\ g \in [0..n -> Snapshot] /\ \A i \in 1..n : d[i] \in Event
      /\ d # <<>> => n # 0
  OBVIOUS
<1> DEFINE T == {i \in 0..n : g[i].anchor \in Anchor \/ (i = 0 /\ s.anchor \notin Anchor)}
<1> HIDE DEF n
<1>4. 0 \in T
  BY <1>2, <1>3
<1>5. ASSUME NEW i \in 1..n, i - 1 \in T PROVE i \in T
  <2>1. i \in 0..n /\ i - 1 \in 0..n /\ g[i - 1] \in Snapshot /\ d[i] \in Event
        /\ g[i] = IF d[i].v = v THEN applyCommentEvent(g[i - 1], d[i]) ELSE g[i - 1]
    BY <1>2, <1>3
  <2>2. g[i - 1].anchor \in Anchor \/ (i = 1 /\ d[i].kind = "created" /\ d[i].v = v)
    BY <1>5, <2>1
  <2>3. g[i].anchor \in Anchor
    BY <2>1, <2>2, ApplyAnchor
  <2> QED
    BY <2>1, <2>3
<1>6. n \in T
  <2>1. \A i \in 1..n : i - 1 \in T => i \in T
    BY <1>5
  <2> HIDE DEF T
  <2>2. 0..n \subseteq T
    BY <1>3, <1>4, <2>1, SetInduction
  <2> QED
    BY <1>3, <2>2
<1> QED
  BY <1>2, <1>3, <1>6

(* Events of versions after at do not matter at version at. *)
LEMMA ReplayAgree ==
  ASSUME NEW d \in Seq(Event), NEW e \in Seq(Event), NEW at \in Nat,
         Len(d) = Len(e),
         \A i \in 1..Len(d) : d[i] = e[i] \/ (d[i].v > at /\ e[i].v > at)
  PROVE  replay(d, at) = replay(e, at)
<1> DEFINE T == {v \in 0..at : replay(d, v) = replay(e, v)}
<1>1. 0 \in T
  BY ReplayStep
<1>2. ASSUME NEW v \in 1..at, v - 1 \in T PROVE v \in T
  <2>1. v \in Nat \ {0} /\ v - 1 \in Nat /\ v \in 0..at /\ replay(d, v - 1) = replay(e, v - 1)
    BY <1>2
  <2>2. replay(d, v - 1) \in Snapshot
    BY <2>1, ReplayType
  <2>3. \A i \in 1..Len(d) : d[i] = e[i] \/ (d[i].v # v /\ e[i].v # v)
    <3>1. \A i \in 1..Len(d) : d[i] \in Event /\ e[i] \in Event
      OBVIOUS
    <3>2. \A i \in 1..Len(d) : d[i].v \in 1..Latest /\ e[i].v \in 1..Latest
      BY <3>1, EventShape
    <3>3. Latest \in Nat
      BY Bounds DEF Latest
    <3> QED
      BY <3>2, <3>3
  <2>4. replayVersion(replay(d, v - 1), d, v) = replayVersion(replay(d, v - 1), e, v)
    BY <2>2, <2>3, VersionAgree
  <2>5. replay(d, v) = replay(e, v)
    BY <2>1, <2>4, ReplayStep
  <2> QED
    BY <2>1, <2>5
<1>3. at \in T
  <2>1. \A v \in 1..at : v - 1 \in T => v \in T
    BY <1>2
  <2> HIDE DEF T
  <2>2. 0..at \subseteq T
    BY <1>1, <2>1, SetInduction
  <2> QED
    BY <2>2
<1> QED
  BY <1>3

LEMMA ReplayLater ==
  ASSUME NEW d \in Seq(Event), NEW e \in Event, NEW at \in Nat, e.v > at
  PROVE  replay(Append(d, e), at) = replay(d, at)
<1> DEFINE m == Append(d, e)
           T == {v \in 0..at : replay(m, v) = replay(d, v)}
<1>0. m \in Seq(Event)
  OBVIOUS
<1>1. 0 \in T
  <2> HIDE DEF m
  <2>1. replay(m, 0) = replay(d, 0)
    BY <1>0, ReplayStep
  <2> QED
    BY <2>1
<1>2. ASSUME NEW v \in 1..at, v - 1 \in T PROVE v \in T
  <2>1. v \in Nat \ {0} /\ v - 1 \in Nat /\ v \in 0..at /\ replay(m, v - 1) = replay(d, v - 1)
    BY <1>2
  <2>2. replay(d, v - 1) \in Snapshot
    BY <2>1, ReplayType
  <2>3. replayVersion(replay(d, v - 1), m, v) = replayVersion(replay(d, v - 1), d, v)
    <3>1. e.v # v
      OBVIOUS
    <3> QED
      BY <2>2, <3>1, VersionAppend
  <2>4. replay(m, v) = replay(d, v)
    <3> HIDE DEF m
    <3> QED
      BY <1>0, <2>1, <2>3, ReplayStep
  <2> QED
    BY <2>1, <2>4
<1>3. at \in T
  <2>1. \A v \in 1..at : v - 1 \in T => v \in T
    BY <1>2
  <2> HIDE DEF T
  <2>2. 0..at \subseteq T
    BY <1>1, <2>1, SetInduction
  <2> QED
    BY <2>2
<1> QED
  BY <1>3

(* At the version of the event at the end of the log, that event is applied last. *)
LEMMA ReplayAppend ==
  ASSUME NEW d \in Seq(Event), NEW e \in Event
  PROVE  replay(Append(d, e), e.v) = applyCommentEvent(replay(d, e.v), e)
<1> DEFINE m == Append(d, e)
           v == e.v
<1>1. v \in Nat \ {0} /\ v - 1 \in Nat /\ v > v - 1
  <2>1. Latest \in Nat /\ e.v \in 1..Latest
    BY Bounds, EventShape DEF Latest
  <2> QED
    BY <2>1
<1>2. m \in Seq(Event)
  OBVIOUS
<1>3. replay(m, v - 1) = replay(d, v - 1)
  <2> DEFINE at == v - 1
  <2>1. at \in Nat /\ e.v > at
    BY <1>1
  <2> HIDE DEF at
  <2>2. replay(m, at) = replay(d, at)
    BY <2>1, ReplayLater
  <2> QED
    BY <2>2 DEF at
<1>4. replay(d, v - 1) \in Snapshot
  BY <1>1, ReplayType
<1>5. replayVersion(replay(d, v - 1), m, v)
        = applyCommentEvent(replayVersion(replay(d, v - 1), d, v), e)
  BY <1>4, VersionAppend
<1> HIDE DEF m, v
<1>6. replay(m, v) = applyCommentEvent(replay(d, v), e)
  BY <1>1, <1>2, <1>3, <1>5, ReplayStep
<1> QED
  BY <1>6 DEF m, v

LEMMA ReplayDeleted ==
  ASSUME NEW d \in Seq(Event), NEW at \in Nat
  PROVE  replay(d, at).deleted <=> \E i \in 1..Len(d) : d[i].kind = "deleted" /\ d[i].v <= at
<1> DEFINE Gone(v) == \E i \in 1..Len(d) : d[i].kind = "deleted" /\ d[i].v <= v
           T == {v \in 0..at : replay(d, v).deleted <=> Gone(v)}
<1>0. \A i \in 1..Len(d) : d[i].v \in Nat \ {0}
  <2>1. Latest \in Nat /\ \A i \in 1..Len(d) : d[i] \in Event
    BY Bounds DEF Latest
  <2> QED
    BY <2>1, EventShape
<1>1. 0 \in T
  <2>1. ~ Gone(0)
    BY <1>0
  <2>2. ~ replay(d, 0).deleted
    BY ReplayStep DEF emptySnapshot
  <2> QED
    BY <2>1, <2>2
<1>2. ASSUME NEW v \in 1..at, v - 1 \in T PROVE v \in T
  <2>1. v \in Nat \ {0} /\ v - 1 \in Nat /\ v \in 0..at /\ (replay(d, v - 1).deleted <=> Gone(v - 1))
    BY <1>2
  <2>2. replay(d, v - 1) \in Snapshot
    BY <2>1, ReplayType
  <2>3. Gone(v) <=> Gone(v - 1) \/ \E i \in 1..Len(d) : d[i].kind = "deleted" /\ d[i].v = v
    BY <1>0, <2>1
  <2> HIDE DEF Gone
  <2>4. replay(d, v) = replayVersion(replay(d, v - 1), d, v)
    BY <2>1, ReplayStep
  <2>5. replay(d, v).deleted <=>
          replay(d, v - 1).deleted \/ \E i \in 1..Len(d) : d[i].kind = "deleted" /\ d[i].v = v
    BY <2>2, <2>4, VersionDeleted
  <2> QED
    BY <2>1, <2>3, <2>5
<1>3. at \in T
  <2>1. \A v \in 1..at : v - 1 \in T => v \in T
    BY <1>2
  <2> HIDE DEF T
  <2>2. 0..at \subseteq T
    BY <1>1, <2>1, SetInduction
  <2> QED
    BY <2>2
<1> QED
  BY <1>3

(* From the version of its creation on, a comment has an anchor. *)
LEMMA ReplayAnchor ==
  ASSUME NEW d \in Seq(Event), NEW at \in Nat,
         d # <<>>, d[1].kind = "created", d[1].v <= at
  PROVE  replay(d, at).anchor \in Anchor
<1> DEFINE T == {v \in 0..at : d[1].v <= v => replay(d, v).anchor \in Anchor}
<1>0. d[1].v \in Nat \ {0}
  <2>1. Latest \in Nat /\ d[1] \in Event
    BY Bounds DEF Latest
  <2> QED
    BY <2>1, EventShape
<1>1. 0 \in T
  BY <1>0
<1>2. ASSUME NEW v \in 1..at, v - 1 \in T PROVE v \in T
  <2>1. v \in Nat \ {0} /\ v - 1 \in Nat /\ v \in 0..at
        /\ (d[1].v <= v - 1 => replay(d, v - 1).anchor \in Anchor)
    BY <1>2
  <2>2. replay(d, v - 1) \in Snapshot /\ replay(d, v) = replayVersion(replay(d, v - 1), d, v)
    BY <2>1, ReplayType, ReplayStep
  <2>3. d[1].v <= v => d[1].v <= v - 1 \/ d[1].v = v
    BY <1>0, <2>1
  <2>4. d[1].v <= v => replay(d, v).anchor \in Anchor
    BY <2>1, <2>2, <2>3, VersionAnchor
  <2> QED
    BY <2>1, <2>4
<1>3. at \in T
  <2>1. \A v \in 1..at : v - 1 \in T => v \in T
    BY <1>2
  <2> HIDE DEF T
  <2>2. 0..at \subseteq T
    BY <1>1, <2>1, SetInduction
  <2> QED
    BY <2>2
<1> QED
  BY <1>3
-----------------------------------------------------------------------------
(* Appending to a well-formed log. *)
LEMMA WellformedAppend ==
  ASSUME NEW S, NEW l \in Seq(S), NEW e \in S, Wellformed(l),
         e.kind = "created" <=> l = <<>>,
         e.kind = "reply_added" => ~HasReply(l, e.reply)
  PROVE  Append(l, e) \in Seq(S) /\ Append(l, e) # <<>> /\ Wellformed(Append(l, e))
<1> DEFINE n == Len(l)
           m == Append(l, e)
<1>1. /\ n \in Nat /\ DOMAIN l = 1..n /\ DOMAIN m = 1..(n + 1) /\ m[n + 1] = e
      /\ \A i \in 1..n : m[i] = l[i]
      /\ n = 0 <=> l = <<>>
      /\ \A i \in 1..(n + 1) : i \in 1..n \/ i = n + 1
  OBVIOUS
<1>2. m \in Seq(S) /\ m # <<>>
  OBVIOUS
<1> HIDE DEF n, m
<1>3. \A i \in 1..(n + 1) : m[i].kind = "created" <=> i = 1
  BY <1>1 DEF Wellformed
<1>4. ASSUME NEW i \in 1..(n + 1), NEW j \in 1..(n + 1),
             m[i].kind = "reply_added", m[j].kind = "reply_added", m[i].reply = m[j].reply
      PROVE  i = j
  <2>1. CASE i \in 1..n /\ j \in 1..n
    BY <1>1, <1>4, <2>1 DEF Wellformed
  <2>2. CASE i \in 1..n /\ j = n + 1
    BY <1>1, <1>4, <2>2 DEF HasReply
  <2>3. CASE i = n + 1 /\ j \in 1..n
    BY <1>1, <1>4, <2>3 DEF HasReply
  <2> QED
    BY <1>1, <2>1, <2>2, <2>3
<1>5. Wellformed(m)
  BY <1>1, <1>3, <1>4 DEF Wellformed
<1> QED
  BY <1>2, <1>5 DEF m

LEMMA WellformedEmpty == Wellformed(<<>>)
  BY DEF Wellformed

(* No reply is lost or made up by deduplicating. *)
LEMMA DedupReplies ==
  ASSUME NEW S, NEW l \in Seq(S), NEW r
  PROVE  HasReply(DedupEvents(l), r) <=> HasReply(l, r)
<1> DEFINE d == DedupEvents(l)
<1>1. /\ d \in Seq(S)
      /\ \A k \in 1..Len(d) : \E j \in 1..Len(l) : d[k] = l[j]
      /\ \A j \in 1..Len(l) : \E k \in 1..Len(d) : d[k] = l[j] \/ SameEID(l[j], d[k])
  BY DedupElements
<1>2. DOMAIN d = 1..Len(d) /\ DOMAIN l = 1..Len(l)
  BY <1>1
<1> HIDE DEF d
<1>3. ASSUME HasReply(l, r) PROVE HasReply(d, r)
  <2>1. PICK j \in 1..Len(l) : l[j].kind = "reply_added" /\ l[j].reply = r
    BY <1>2, <1>3 DEF HasReply
  <2>2. PICK k \in 1..Len(d) : d[k] = l[j] \/ SameEID(l[j], d[k])
    BY <1>1
  <2>3. d[k] = l[j]
    BY <2>1, <2>2 DEF SameEID
  <2> QED
    BY <1>2, <2>1, <2>3 DEF HasReply
<1>4. ASSUME HasReply(d, r) PROVE HasReply(l, r)
  BY <1>1, <1>2, <1>4 DEF HasReply
<1> QED
  BY <1>3, <1>4 DEF d

(* Storing an event whose id is already there. *)
LEMMA WellformedReplace ==
  ASSUME NEW S, NEW d \in Seq(S), NEW e \in S, Wellformed(d),
         \E k \in 1..Len(d) : SameEID(d[k], e)
  PROVE  Wellformed(Put(d, e))
<1> DEFINE p == Put(d, e)
<1>1. PICK k0 \in 1..Len(d) : SameEID(d[k0], e)
  OBVIOUS
<1>2. /\ Len(p) = Len(d) /\ p \in Seq(S)
      /\ \A k \in 1..Len(d) : p[k] = IF SameEID(d[k], e) THEN e ELSE d[k]
  <2>1. p = Replace(d, e) /\ p \in Seq(S) /\ Len(p) = Len(d)
    BY ReplaceType DEF Put
  <2> QED
    BY <2>1 DEF Replace
<1>3. DOMAIN p = 1..Len(d) /\ DOMAIN d = 1..Len(d)
  BY <1>2
<1> HIDE DEF p
<1>4. \A k \in 1..Len(d) : p[k] = d[k] \/ /\ p[k].kind = d[k].kind
                                          /\ p[k].kind \notin {"created", "reply_added"}
  BY <1>2 DEF SameEID
<1>5. \A k \in 1..Len(d) : p[k].kind = "created" <=> k = 1
  BY <1>3, <1>4 DEF Wellformed
<1>6. \A i, j \in 1..Len(d) : /\ p[i].kind = "reply_added" /\ p[j].kind = "reply_added"
                              /\ p[i].reply = p[j].reply
                              => i = j
  BY <1>3, <1>4 DEF Wellformed
<1>7. Wellformed(p)
  BY <1>3, <1>5, <1>6 DEF Wellformed
<1> QED
  BY <1>7 DEF p

LEMMA DedupWellformed ==
  ASSUME NEW S, NEW l \in Seq(S), Wellformed(l)
  PROVE  Wellformed(DedupEvents(l))
<1> DEFINE n == Len(l)
           P(i) == SubSeq(l, 1, i)
           D(i) == DedupEvents(P(i))
           T == {i \in 0..n : Wellformed(D(i)) /\ (D(i) = <<>> <=> i = 0)}
<1>1. /\ n \in Nat /\ D(0) = <<>> /\ D(n) = DedupEvents(l)
      /\ \A i \in 1..n : /\ P(i - 1) \in Seq(S) /\ l[i] \in S
                         /\ D(i - 1) \in Seq(S) /\ D(i) = Put(D(i - 1), l[i])
  BY DedupPrefix
<1>2. \A i \in 1..n : l[i].kind = "created" <=> i = 1
  BY DEF Wellformed
<1>3. ASSUME NEW i \in 1..n, l[i].kind = "reply_added" PROVE ~HasReply(P(i - 1), l[i].reply)
  <2>1. DOMAIN P(i - 1) = 1..(i - 1) /\ \A k \in 1..(i - 1) : P(i - 1)[k] = l[k] /\ k \in 1..n /\ k # i
    OBVIOUS
  <2> HIDE DEF P
  <2>2. ASSUME NEW k \in 1..(i - 1), l[k].kind = "reply_added", l[k].reply = l[i].reply PROVE FALSE
    BY <1>3, <2>1, <2>2 DEF Wellformed
  <2> QED
    BY <2>1, <2>2 DEF HasReply
<1> HIDE DEF n, P
<1>4. ASSUME NEW i \in 1..n, i - 1 \in T PROVE i \in T
  <2> DEFINE d == D(i - 1)
             e == l[i]
  <2>1. d \in Seq(S) /\ e \in S /\ D(i) = Put(d, e)
    BY <1>1
  <2>2. Wellformed(d) /\ (d = <<>> <=> i = 1) /\ i \in 0..n /\ i # 0
    BY <1>1, <1>4
  <2>3. D(i) # <<>>
    BY <2>1, PutType
  <2>4. e.kind = "reply_added" => ~HasReply(d, e.reply)
    BY <1>1, <1>3, DedupReplies
  <2>5. e.kind = "created" <=> d = <<>>
    BY <1>2, <2>2
  <2> HIDE DEF d, e, D
  <2>6. CASE \E k \in 1..Len(d) : SameEID(d[k], e)
    BY <2>1, <2>2, <2>3, <2>6, WellformedReplace
  <2>7. CASE ~ \E k \in 1..Len(d) : SameEID(d[k], e)
    <3>1. Put(d, e) = Append(d, e)
      BY <2>7 DEF Put
    <3>2. Wellformed(Append(d, e))
      BY <2>1, <2>2, <2>4, <2>5, WellformedAppend
    <3> QED
      BY <2>1, <2>2, <2>3, <3>1, <3>2
  <2> QED
    BY <2>6, <2>7
<1>5. n \in T
  <2>1. 0 \in T /\ \A i \in 1..n : i - 1 \in T => i \in T
    BY <1>1, <1>4, WellformedEmpty
  <2> HIDE DEF T
  <2>2. 0..n \subseteq T
    BY <1>1, <2>1, SetInduction
  <2> QED
    BY <1>1, <2>2
<1> QED
  BY <1>1, <1>5

(* Logs with the same deduplicated form keep it when the same events are appended. *)
LEMMA DedupConcat ==
  ASSUME NEW S, NEW a \in Seq(S), NEW b \in Seq(S), NEW es \in Seq(S),
         DedupEvents(a) = DedupEvents(b)
  PROVE  DedupEvents(a \o es) = DedupEvents(b \o es)
<1> DEFINE n == Len(es)
           A(i) == a \o SubSeq(es, 1, i)
           B(i) == b \o SubSeq(es, 1, i)
           T == {i \in 0..n : DedupEvents(A(i)) = DedupEvents(B(i))}
<1>1. n \in Nat /\ A(0) = a /\ B(0) = b /\ A(n) = a \o es /\ B(n) = b \o es
  OBVIOUS
<1>2. ASSUME NEW i \in 1..n
      PROVE  /\ A(i - 1) \in Seq(S) /\ B(i - 1) \in Seq(S) /\ es[i] \in S
             /\ A(i) = Append(A(i - 1), es[i]) /\ B(i) = Append(B(i - 1), es[i])
  <2> DEFINE p == SubSeq(es, 1, i - 1)
  <2>1. p \in Seq(S) /\ es[i] \in S /\ SubSeq(es, 1, i) = Append(p, es[i])
    OBVIOUS
  <2> HIDE DEF p
  <2>2. /\ a \o p \in Seq(S) /\ b \o p \in Seq(S)
        /\ a \o Append(p, es[i]) = Append(a \o p, es[i])
        /\ b \o Append(p, es[i]) = Append(b \o p, es[i])
    BY <2>1
  <2> QED
    BY <2>1, <2>2 DEF p
<1> HIDE DEF n, A, B
<1>3. ASSUME NEW i \in 1..n, i - 1 \in T PROVE i \in T
  <2>1. i \in 0..n /\ DedupEvents(A(i - 1)) = DedupEvents(B(i - 1))
    BY <1>1, <1>3
  <2>2. /\ DedupEvents(Append(A(i - 1), es[i])) = Put(DedupEvents(A(i - 1)), es[i])
        /\ DedupEvents(Append(B(i - 1), es[i])) = Put(DedupEvents(B(i - 1)), es[i])
    BY <1>2, DedupAppend
  <2> QED
    BY <1>2, <2>1, <2>2
<1>4. n \in T
  <2>1. 0 \in T /\ \A i \in 1..n : i - 1 \in T => i \in T
    BY <1>1, <1>3
  <2> HIDE DEF T
  <2>2. 0..n \subseteq T
    BY <1>1, <2>1, SetInduction
  <2> QED
    BY <1>1, <2>2
<1> QED
  BY <1>1, <1>4
-----------------------------------------------------------------------------
(* The creation of a comment is its first event, before and after compaction. *)
LEMMA FirstCreated ==
  ASSUME NEW l \in Seq(Event), Wellformed(l), l # <<>>
  PROVE  /\ DedupEvents(l) \in Seq(Event) /\ DedupEvents(l) # <<>> /\ DedupEvents(l)[1] = l[1]
         /\ l[1] \in Event /\ l[1].kind = "created" /\ l[1].v \in 1..Latest
<1>1. l[1] \in Event /\ 1 \in DOMAIN l
  OBVIOUS
<1>2. l[1].kind = "created" /\ l[1].v \in 1..Latest
  BY <1>1, EventShape DEF Wellformed
<1>3. DedupEvents(l) # <<>> /\ (DedupEvents(l)[1] = l[1] \/ SameEID(l[1], DedupEvents(l)[1]))
  BY DedupFirst
<1>4. ~SameEID(l[1], DedupEvents(l)[1])
  BY <1>2, EIDKind
<1> QED
  BY <1>1, <1>2, <1>3, <1>4, DedupElements

(* What is shown of a comment that exists. *)
LEMMA SnapshotShown ==
  ASSUME NEW l \in Seq(Event), Wellformed(l), l # <<>>, NEW at \in Nat
  PROVE  /\ l[1].v > at => SnapshotAt(l, at) = None
         /\ l[1].v <= at => /\ SnapshotAt(l, at) = replay(DedupEvents(l), at)
                            /\ SnapshotAt(l, at) \in Snapshot
                            /\ SnapshotAt(l, at).anchor \in Anchor
<1>1. /\ DedupEvents(l) \in Seq(Event) /\ DedupEvents(l) # <<>>
      /\ DedupEvents(l)[1].kind = "created" /\ DedupEvents(l)[1].v = l[1].v
      /\ l[1].v \in 1..Latest
  BY FirstCreated
<1>2. CASE l[1].v > at
  BY <1>2, <1>1 DEF SnapshotAt, Latest
<1>3. CASE ~ (l[1].v > at)
  <2>1. SnapshotAt(l, at) = replay(DedupEvents(l), at)
    BY <1>3 DEF SnapshotAt
  <2>2. l[1].v <= at
    BY <1>1, <1>3, Bounds DEF Latest
  <2>3. replay(DedupEvents(l), at) \in Snapshot /\ replay(DedupEvents(l), at).anchor \in Anchor
    BY <1>1, <2>2, ReplayType, ReplayAnchor
  <2> QED
    BY <1>3, <2>1, <2>3
<1>4. l[1].v <= at => ~ (l[1].v > at)
  BY <1>1, Bounds DEF Latest
<1> QED
  BY <1>2, <1>3, <1>4

(* One candidate decides where an anchor goes. *)
LEMMA CandidatesShape ==
  ASSUME NEW h, NEW aids \in Page
  PROVE  /\ Candidates(h, aids) \subseteq aids
         /\ Cardinality(Candidates(h, aids)) = 1 =>
              (CHOOSE x \in Candidates(h, aids) : TRUE) \in Candidates(h, aids)
<1> DEFINE C == Candidates(h, aids)
<1>1. C \subseteq aids
  BY DEF Candidates
<1>2. IsFiniteSet(aids)
  BY Pages
<1> HIDE DEF C
<1>3. IsFiniteSet(C)
  BY <1>1, <1>2, FS_Subset
<1>4. Cardinality(C) = 1 => C # {}
  BY <1>3, FS_EmptySet
<1>5. Cardinality(C) = 1 => (CHOOSE x \in C : TRUE) \in C
  BY <1>4
<1> QED
  BY <1>1, <1>5 DEF C

LEMMA nextAnchorType ==
  ASSUME NEW a \in Anchor, NEW aids \in Page
  PROVE  /\ nextAnchor(a, aids) \in Anchor
         /\ nextAnchor(a, aids).hint = a.hint
         /\ nextAnchor(a, aids).kind # "element" \/ nextAnchor(a, aids).aid \in aids
<1> DEFINE C == Candidates(a.hint, aids)
           x == CHOOSE y \in C : TRUE
<1>1. C \subseteq aids /\ (Cardinality(C) = 1 => x \in C)
  BY CandidatesShape
<1>2. aids \subseteq Artifact /\ a.hint \in Artifact \cup {None}
  BY Pages DEF Anchor
<1>3. nextAnchor(a, aids) = IF Cardinality(C) = 1 THEN Element(x, a.hint) ELSE Lost(a.hint)
  BY DEF nextAnchor
<1> HIDE DEF C, x
<1>4. CASE Cardinality(C) = 1
  BY <1>1, <1>2, <1>3, <1>4 DEF Element, Anchor
<1>5. CASE Cardinality(C) # 1
  BY <1>2, <1>3, <1>5 DEF Lost, Anchor
<1> QED
  BY <1>4, <1>5

LEMMA HintDecides ==
  ASSUME NEW a, NEW b, NEW aids, a.hint = b.hint
  PROVE  nextAnchor(a, aids) = nextAnchor(b, aids)
BY DEF nextAnchor

AnchorChange(a, v) == [kind |-> "anchor_changed", v |-> v, anchor |-> a, reset |-> FALSE]

(* Reconciling appends a change of anchor, or nothing. *)
LEMMA ReconcileShape ==
  ASSUME NEW l \in Seq(Event), Wellformed(l), NEW v \in Version, NEW aids \in Page
  PROVE  \/ reconcileComment(l, aids, v) = <<>>
         \/ /\ l # <<>> /\ l[1].v <= v /\ SnapshotAt(l, v).anchor \in Anchor
            /\ nextAnchor(SnapshotAt(l, v).anchor, aids) \in Anchor
            /\ reconcileComment(l, aids, v)
                 = <<AnchorChange(nextAnchor(SnapshotAt(l, v).anchor, aids), v)>>
<1> DEFINE s == SnapshotAt(l, v)
<1>1. v \in Nat
  BY DEF Version
<1>2. CASE s = None
  BY <1>2 DEF reconcileComment
<1>3. CASE s # None
  <2>1. l # <<>>
    BY <1>3 DEF SnapshotAt
  <2>2. ~ (l[1].v > v)
    BY <1>3 DEF SnapshotAt
  <2>3. l[1].v <= v
    <3>1. l[1].v \in 1..Latest /\ Latest \in Nat
      BY <2>1, FirstCreated, Bounds DEF Latest
    <3> QED
      BY <1>1, <2>2, <3>1
  <2>4. s.anchor \in Anchor
    BY <1>1, <2>1, <2>3, SnapshotShown
  <2>5. nextAnchor(s.anchor, aids) \in Anchor
    BY <2>4, nextAnchorType
  <2>6. \/ reconcileComment(l, aids, v) = <<>>
        \/ reconcileComment(l, aids, v) = <<AnchorChange(nextAnchor(s.anchor, aids), v)>>
    BY DEF reconcileComment, AnchorChange
  <2> HIDE DEF s
  <2> QED
    BY <2>1, <2>3, <2>4, <2>5, <2>6 DEF s
<1> QED
  BY <1>2, <1>3

LEMMA ReconcileGrows ==
  ASSUME NEW l \in Seq(Event), Wellformed(l), NEW v \in Version, NEW aids \in Page
  PROVE  /\ reconcileComment(l, aids, v) \in Seq(Event)
         /\ \A i \in 1..Len(reconcileComment(l, aids, v)) :
              reconcileComment(l, aids, v)[i].kind = "anchor_changed"
         /\ Wellformed(l \o reconcileComment(l, aids, v))
<1> DEFINE k == reconcileComment(l, aids, v)
<1>1. CASE k = <<>>
  <2>1. l \o <<>> = l
    OBVIOUS
  <2> HIDE DEF k
  <2>2. k \in Seq(Event) /\ Len(k) = 0
    BY <1>1
  <2> QED
    BY <1>1, <2>1, <2>2 DEF k
<1>2. ASSUME l # <<>>, NEW a \in Anchor, k = <<AnchorChange(a, v)>>
      PROVE  /\ k \in Seq(Event) /\ Wellformed(l \o k)
             /\ \A i \in 1..Len(k) : k[i].kind = "anchor_changed"
  <2> DEFINE e == AnchorChange(a, v)
  <2>1. e \in Event /\ e.kind = "anchor_changed"
    BY DEF AnchorChange, Event
  <2> HIDE DEF e, k
  <2>2. k = <<e>> /\ l \o k = Append(l, e)
    BY <1>2, <2>1 DEF e
  <2>3. Wellformed(Append(l, e))
    BY <1>2, <2>1, WellformedAppend
  <2>4. <<e>> \in Seq(Event) /\ \A i \in 1..Len(<<e>>) : <<e>>[i].kind = "anchor_changed"
    BY <2>1
  <2>5. Wellformed(l \o k)
    BY <2>2, <2>3
  <2>6. k \in Seq(Event) /\ \A i \in 1..Len(k) : k[i].kind = "anchor_changed"
    BY <2>2, <2>4
  <2> QED
    BY <2>5, <2>6
<1> QED
  BY <1>1, <1>2, ReconcileShape
-----------------------------------------------------------------------------
\* The reactions to replies among the events es undo what log l shows at their version.
Undoes(l, es) == \A i \in 1..Len(es) :
  es[i].kind \in {"reply_reaction_added", "reply_reaction_removed"} =>
    /\ SnapshotAt(l, es[i].v) # None
    /\ es[i].kind = IF <<es[i].reply, es[i].by>> \in SnapshotAt(l, es[i].v).likes
                    THEN "reply_reaction_removed" ELSE "reply_reaction_added"

\* The log of c grows by some events, and may be compacted.
Grows(c) == \E es \in Seq(Event) :
  /\ full'[c] = full[c] \o es
  /\ log'[c] = log[c] \o es \/ log'[c] = DedupEvents(log[c] \o es)
  /\ Wellformed(log[c] \o es)
  /\ Undoes(log[c], es)

Typed == log \in [Comment -> Seq(Event)] /\ full \in [Comment -> Seq(Event)]

LEMMA AppendGrows ==
  ASSUME IInv, NEW c \in Comment, NEW es \in Seq(Event), AppendEvents(c, es),
         Wellformed(log[c] \o es), Undoes(log[c], es)
  PROVE  Typed' /\ \A d \in Comment : Grows(d)
<1>1. /\ log \in [Comment -> Seq(Event)] /\ full \in [Comment -> Seq(Event)]
      /\ log' = [log EXCEPT ![c] = @ \o es] /\ full' = [full EXCEPT ![c] = @ \o es]
      /\ \A d \in Comment : Wellformed(log[d])
  BY DEF IInv, AppendEvents
<1>2. Typed'
  BY <1>1 DEF Typed
<1>3. Grows(c)
  BY <1>1 DEF Grows
<1>4. ASSUME NEW d \in Comment, d # c PROVE Grows(d)
  <2>1. /\ <<>> \in Seq(Event) /\ Len(<<>>) = 0
        /\ log[d] \in Seq(Event) /\ full[d] \in Seq(Event)
        /\ log'[d] = log[d] /\ full'[d] = full[d]
    BY <1>1, <1>4
  <2>2. log[d] \o <<>> = log[d] /\ full[d] \o <<>> = full[d]
    BY <2>1
  <2>3. Undoes(log[d], <<>>)
    BY <2>1 DEF Undoes
  <2>4. /\ full'[d] = full[d] \o <<>> /\ log'[d] = log[d] \o <<>>
        /\ Wellformed(log[d] \o <<>>)
    BY <1>1, <2>1, <2>2
  <2> QED
    BY <2>1, <2>3, <2>4 DEF Grows
<1> QED
  BY <1>2, <1>3, <1>4

(* Appending one event. *)
LEMMA OneGrows ==
  ASSUME IInv, NEW c \in Comment, NEW e \in Event, AppendEvents(c, <<e>>),
         e.kind = "created" <=> log[c] = <<>>,
         e.kind = "reply_added" => ~HasReply(log[c], e.reply),
         Undoes(log[c], <<e>>)
  PROVE  Typed' /\ \A d \in Comment : Grows(d)
<1>1. log[c] \in Seq(Event) /\ Wellformed(log[c])
  BY DEF IInv
<1>2. log[c] \o <<e>> = Append(log[c], e) /\ <<e>> \in Seq(Event)
  BY <1>1
<1>3. Wellformed(log[c] \o <<e>>)
  BY <1>1, <1>2, WellformedAppend
<1> QED
  BY <1>2, <1>3, AppendGrows

(* A reply that is new to the whole history is new to the stored log. *)
LEMMA FreshInLog ==
  ASSUME IInv, NEW c \in Comment, NEW r, FreshReply(r)
  PROVE  ~HasReply(log[c], r)
<1>1. /\ log[c] \in Seq(Event) /\ full[c] \in Seq(Event)
      /\ DedupEvents(log[c]) = DedupEvents(full[c])
  BY DEF IInv
<1>2. ~HasReply(full[c], r)
  BY DEF FreshReply
<1> QED
  BY <1>1, <1>2, DedupReplies

LEMMA SentAnchor == Sent \subseteq Anchor
<1>1. TextAnchor \in Anchor /\ \A x \in Artifact : Element(x, x) \in Anchor
  BY DEF TextAnchor, Element, Anchor
<1> QED
  BY <1>1, AnchorsSent

LEMMA OtherKind ==
  ASSUME NEW l, NEW e,
         e.kind \notin {"reply_reaction_added", "reply_reaction_removed"}
  PROVE  Undoes(l, <<e>>)
<1>1. Len(<<e>>) = 1 /\ <<e>>[1] = e
  OBVIOUS
<1> QED
  BY <1>1 DEF Undoes

LEMMA CreateGrows ==
  ASSUME IInv, NEW c \in Comment, NEW v \in Version, NEW a \in Sent, Create(c, v, a)
  PROVE  Typed' /\ \A d \in Comment : Grows(d)
<1> DEFINE e == [kind |-> "created", v |-> v, anchor |-> a]
<1>1. e \in Event /\ e.kind = "created"
  BY SentAnchor DEF Event
<1>2. log[c] = <<>> /\ AppendEvents(c, <<e>>)
  BY DEF Create
<1> HIDE DEF e
<1> QED
  BY <1>1, <1>2, OtherKind, OneGrows

LEMMA PatchAnchorGrows ==
  ASSUME IInv, NEW c \in Comment, NEW v \in Version, NEW a \in Sent, PatchAnchor(c, a, v)
  PROVE  Typed' /\ \A d \in Comment : Grows(d)
<1> DEFINE e == [kind |-> "anchor_changed", v |-> v, anchor |-> a, reset |-> TRUE]
<1>1. e \in Event /\ e.kind = "anchor_changed"
  BY SentAnchor DEF Event
<1>2. log[c] # <<>> /\ AppendEvents(c, <<e>>)
  BY DEF PatchAnchor
<1> HIDE DEF e
<1> QED
  BY <1>1, <1>2, OtherKind, OneGrows

LEMMA AddReplyGrows ==
  ASSUME IInv, NEW c \in Comment, NEW v \in Version, NEW r \in Reply, AddReply(c, r, v)
  PROVE  Typed' /\ \A d \in Comment : Grows(d)
<1> DEFINE e == [kind |-> "reply_added", v |-> v, reply |-> r]
<1>1. e \in Event /\ e.kind = "reply_added" /\ e.reply = r
  BY DEF Event
<1>2. log[c] # <<>> /\ FreshReply(r) /\ AppendEvents(c, <<e>>)
  BY DEF AddReply
<1>3. ~HasReply(log[c], r)
  BY <1>2, FreshInLog
<1> HIDE DEF e
<1> QED
  BY <1>1, <1>2, <1>3, OtherKind, OneGrows

LEMMA AgentReplyGrows ==
  ASSUME IInv, NEW c \in Comment, NEW v \in Version, NEW r \in Reply, NEW verdict \in Verdict,
         AgentReply(c, r, verdict, v)
  PROVE  Typed' /\ \A d \in Comment : Grows(d)
<1> DEFINE e == [kind |-> "reply_added", v |-> v, reply |-> r]
           m == [kind |-> Mark(verdict), v |-> v, verdict |-> verdict]
<1>1. e \in Event /\ e.kind = "reply_added" /\ e.reply = r
  BY DEF Event
<1>2. m \in Event /\ m.kind \in {"marked_applied", "marked_open"}
  <2>1. Mark(verdict) \in {"marked_applied", "marked_open"}
    BY DEF Mark
  <2> QED
    BY <2>1 DEF Event
<1>3. log[c] # <<>> /\ FreshReply(r) /\ AppendEvents(c, <<e, m>>)
  BY DEF AgentReply
<1>4. ~HasReply(log[c], r) /\ log[c] \in Seq(Event) /\ Wellformed(log[c])
  BY <1>3, FreshInLog DEF IInv
<1> HIDE DEF e, m
<1>5. Append(log[c], e) \in Seq(Event) /\ Append(log[c], e) # <<>> /\ Wellformed(Append(log[c], e))
  BY <1>1, <1>3, <1>4, WellformedAppend
<1>6. Wellformed(Append(Append(log[c], e), m))
  BY <1>2, <1>5, WellformedAppend
<1>7. /\ <<e, m>> \in Seq(Event) /\ Len(<<e, m>>) = 2 /\ <<e, m>>[1] = e /\ <<e, m>>[2] = m
      /\ log[c] \o <<e, m>> = Append(Append(log[c], e), m)
  BY <1>1, <1>2, <1>4
<1>8. Undoes(log[c], <<e, m>>)
  <2>1. \A i \in 1..2 : i = 1 \/ i = 2
    OBVIOUS
  <2> QED
    BY <1>1, <1>2, <1>7, <2>1 DEF Undoes
<1>9. Wellformed(log[c] \o <<e, m>>)
  BY <1>6, <1>7
<1> QED
  BY <1>3, <1>7, <1>8, <1>9, AppendGrows

LEMMA ReactToReplyGrows ==
  ASSUME IInv, NEW c \in Comment, NEW v \in Version, NEW r \in Reply, NEW u \in User,
         ReactToReply(c, r, u, v)
  PROVE  Typed' /\ \A d \in Comment : Grows(d)
<1> DEFINE k == IF <<r, u>> \in SnapshotAt(log[c], v).likes
                THEN "reply_reaction_removed" ELSE "reply_reaction_added"
           e == [kind |-> k, v |-> v, reply |-> r, by |-> u]
<1>1. k \in {"reply_reaction_added", "reply_reaction_removed"}
  OBVIOUS
<1>2. e.kind = k /\ e.v = v /\ e.reply = r /\ e.by = u
  OBVIOUS
<1>3. AppendEvents(c, <<e>>) /\ HasReply(log[c], r)
  BY DEF ReactToReply
<1>4. log[c] # <<>>
  BY <1>3 DEF HasReply
<1>5. Undoes(log[c], <<e>>)
  <2>1. /\ SnapshotAt(log[c], e.v) # None
        /\ e.kind = IF <<e.reply, e.by>> \in SnapshotAt(log[c], e.v).likes
                    THEN "reply_reaction_removed" ELSE "reply_reaction_added"
    BY <1>2 DEF ReactToReply
  <2> HIDE DEF e
  <2>2. Len(<<e>>) = 1 /\ <<e>>[1] = e
    OBVIOUS
  <2> QED
    BY <2>1, <2>2 DEF Undoes
<1> HIDE DEF k
<1>6. e \in Event
  BY <1>1 DEF Event
<1> HIDE DEF e
<1> QED
  BY <1>1, <1>2, <1>3, <1>4, <1>5, <1>6, OneGrows

LEMMA ReactGrows ==
  ASSUME IInv, NEW c \in Comment, NEW v \in Version, NEW u \in User, React(c, u, v)
  PROVE  Typed' /\ \A d \in Comment : Grows(d)
<1> DEFINE k == IF u \in SnapshotAt(log[c], v).users THEN "reaction_removed" ELSE "reaction_added"
           e == [kind |-> k, v |-> v, by |-> u]
<1>1. k \in {"reaction_added", "reaction_removed"} /\ e.kind = k
  OBVIOUS
<1>2. AppendEvents(c, <<e>>) /\ SnapshotAt(log[c], v) # None
  BY DEF React
<1>3. log[c] # <<>>
  BY <1>2 DEF SnapshotAt
<1> HIDE DEF k
<1>4. e \in Event
  BY <1>1 DEF Event
<1> HIDE DEF e
<1> QED
  BY <1>1, <1>2, <1>3, <1>4, OtherKind, OneGrows

LEMMA DeleteGrows ==
  ASSUME IInv, NEW c \in Comment, NEW v \in Version \cup {Latest}, Delete(c, v)
  PROVE  Typed' /\ \A d \in Comment : Grows(d)
<1> DEFINE e == [kind |-> "deleted", v |-> v]
<1>1. e \in Event /\ e.kind = "deleted"
  BY DEF Event
<1>2. log[c] # <<>> /\ AppendEvents(c, <<e>>)
  BY DEF Delete
<1> HIDE DEF e
<1> QED
  BY <1>1, <1>2, OtherKind, OneGrows

LEMMA DeleteReplyGrows ==
  ASSUME IInv, NEW c \in Comment, NEW v \in Version \cup {Latest}, NEW r \in Reply,
         DeleteReply(c, r, v)
  PROVE  Typed' /\ \A d \in Comment : Grows(d)
<1> DEFINE e == [kind |-> "reply_deleted", v |-> v, reply |-> r]
<1>1. e \in Event /\ e.kind = "reply_deleted"
  BY DEF Event
<1>2. log[c] # <<>> /\ AppendEvents(c, <<e>>)
  BY DEF DeleteReply, HasReply
<1> HIDE DEF e
<1> QED
  BY <1>1, <1>2, OtherKind, OneGrows

(* The log a publish brings along begins with the creation of its comment. *)
LEMMA LocalLogShape ==
  ASSUME NEW m \in Local
  PROVE  /\ LocalLog(m) \in Seq(Event) /\ LocalLog(m) # <<>> /\ Wellformed(LocalLog(m))
         /\ \A i \in 1..Len(LocalLog(m)) :
              LocalLog(m)[i].kind \notin {"reply_reaction_added", "reply_reaction_removed"}
<1> DEFINE e1 == [kind |-> "created", v |-> m.v, anchor |-> m.anchor]
           e2 == [kind |-> "marked_applied", v |-> m.applied, verdict |-> "applied"]
           e3 == [kind |-> "reaction_added", v |-> m.v, by |-> m.by]
           l2 == IF m.applied = 0 THEN <<e1>> ELSE Append(<<e1>>, e2)
           l3 == IF m.by = None THEN l2 ELSE Append(l2, e3)
           K == Event \cap {e \in Event : e.kind \in {"created", "marked_applied", "reaction_added"}}
<1>1. /\ m.v \in Version /\ m.anchor \in Anchor /\ m.applied \in 0..MaxVersion
      /\ m.by \in User \cup {None}
  BY LocalFlat
<1>2. /\ e1 \in K /\ e1.kind = "created"
      /\ m.applied # 0 => e2 \in K
      /\ m.by # None => e3 \in K
      /\ e2.kind = "marked_applied" /\ e3.kind = "reaction_added"
  <2>1. m.applied # 0 => m.applied \in Version
    BY <1>1, Bounds DEF Version
  <2> QED
    BY <1>1, <2>1 DEF Event, Verdict
<1> HIDE DEF e1, e2, e3
<1>3. LocalLog(m) = l3
  <2>1. /\ LocalLog(m) = <<e1>> \o (IF m.applied = 0 THEN <<>> ELSE <<e2>>)
                                \o (IF m.by = None THEN <<>> ELSE <<e3>>)
    BY DEF LocalLog, e1, e2, e3
  <2>2. m.applied # 0 => <<e1>> \o <<e2>> = Append(<<e1>>, e2)
    BY <1>2
  <2>3. <<e1>> \o (IF m.applied = 0 THEN <<>> ELSE <<e2>>) = l2 /\ l2 \in Seq({e1, e2})
    <3>1. CASE m.applied = 0
      <4>1. <<e1>> \o <<>> = <<e1>> /\ <<e1>> \in Seq({e1, e2})
        OBVIOUS
      <4> QED
        BY <3>1, <4>1
    <3>2. CASE m.applied # 0
      <4>1. Append(<<e1>>, e2) \in Seq({e1, e2})
        OBVIOUS
      <4> QED
        BY <2>2, <3>2, <4>1
    <3> QED
      BY <3>1, <3>2
  <2> HIDE DEF l2
  <2>4. l2 \o <<e3>> = Append(l2, e3) /\ l2 \o <<>> = l2
    BY <2>3
  <2> QED
    BY <2>1, <2>3, <2>4
<1> HIDE DEF K
<1>4. <<e1>> \in Seq(K) /\ <<e1>> # <<>> /\ Wellformed(<<e1>>)
  <2>1. <<>> \in Seq(K) /\ <<e1>> = Append(<<>>, e1)
    OBVIOUS
  <2>2. Append(<<>>, e1) \in Seq(K) /\ Append(<<>>, e1) # <<>> /\ Wellformed(Append(<<>>, e1))
    BY <1>2, <2>1, WellformedEmpty, WellformedAppend
  <2> QED
    BY <2>1, <2>2
<1>5. l2 \in Seq(K) /\ l2 # <<>> /\ Wellformed(l2)
  BY <1>2, <1>4, WellformedAppend
<1> HIDE DEF l2
<1>6. l3 \in Seq(K) /\ l3 # <<>> /\ Wellformed(l3)
  BY <1>2, <1>5, WellformedAppend
<1> HIDE DEF l3
<1>7. K \subseteq Event /\ \A e \in K : e.kind \in {"created", "marked_applied", "reaction_added"}
  BY DEF K
<1>8. l3 \in Seq(Event) /\ \A i \in 1..Len(l3) : l3[i] \in K
  BY <1>6, <1>7
<1> QED
  BY <1>3, <1>6, <1>7, <1>8

LEMMA ConcatAssociative ==
  \A S : \A x, y, z \in Seq(S) : (x \o y) \o z = x \o (y \o z)
OBVIOUS

LEMMA MergeGrows ==
  ASSUME IInv, NEW c \in Comment, NEW v \in Version, NEW aids \in Page, NEW l \in Seq(Event),
         Wellformed(l),
         \A i \in 1..Len(l) : l[i].kind \notin {"reply_reaction_added", "reply_reaction_removed"},
         PublishMerge(v, aids, c, l)
  PROVE  Typed' /\ \A d \in Comment : Grows(d)
<1> DEFINE merged == [log EXCEPT ![c] = Merge(c, l)]
           ever == [full EXCEPT ![c] = IF @ = <<>> THEN l ELSE @]
           change == [d \in Comment |-> reconcileComment(merged[d], aids, v)]
<1>1. /\ log \in [Comment -> Seq(Event)] /\ full \in [Comment -> Seq(Event)]
      /\ \A d \in Comment : Wellformed(log[d]) /\ (log[d] = <<>> <=> full[d] = <<>>)
  BY DEF IInv
<1>2. ASSUME NEW d \in Comment
      PROVE  \E es \in Seq(Event) :
               /\ merged[d] \in Seq(Event) /\ Wellformed(merged[d])
               /\ merged[d] = log[d] \o es /\ ever[d] = full[d] \o es
               /\ \A i \in 1..Len(es) :
                    es[i].kind \notin {"reply_reaction_added", "reply_reaction_removed"}
  <2>1. CASE d = c /\ log[d] = <<>>
    <3>1. merged[d] = l /\ ever[d] = l
      BY <1>1, <2>1 DEF Merge
    <3>2. l = <<>> \o l
      OBVIOUS
    <3>3. full[d] = <<>>
      BY <1>1, <2>1
    <3> QED
      BY <2>1, <3>1, <3>2, <3>3
  <2>2. CASE ~ (d = c /\ log[d] = <<>>)
    <3>1. merged[d] = log[d] /\ ever[d] = full[d]
      BY <1>1, <2>2 DEF Merge
    <3>2. log[d] = log[d] \o <<>> /\ full[d] = full[d] \o <<>>
      BY <1>1
    <3>3. <<>> \in Seq(Event) /\ \A i \in 1..Len(<<>>) : FALSE
      OBVIOUS
    <3> HIDE DEF merged, ever
    <3> WITNESS <<>> \in Seq(Event)
    <3> QED
      BY <1>1, <3>1, <3>2, <3>3
  <2> QED
    BY <2>1, <2>2
<1>3. /\ log' = [d \in Comment |-> DedupEvents(merged[d] \o change[d])]
      /\ full' = [d \in Comment |-> ever[d] \o change[d]]
  BY DEF PublishMerge
<1>4. \A d \in Comment : change[d] = reconcileComment(merged[d], aids, v)
  OBVIOUS
<1> HIDE DEF merged, ever, change
<1>5. ASSUME NEW d \in Comment
      PROVE  Grows(d) /\ log'[d] \in Seq(Event) /\ full'[d] \in Seq(Event)
  <2> DEFINE k == change[d]
             a == log[d]
             b == full[d]
  <2>1. PICK es \in Seq(Event) :
          /\ merged[d] \in Seq(Event) /\ Wellformed(merged[d])
          /\ merged[d] = a \o es /\ ever[d] = b \o es
          /\ \A i \in 1..Len(es) :
               es[i].kind \notin {"reply_reaction_added", "reply_reaction_removed"}
    BY <1>2
  <2>2. /\ k \in Seq(Event) /\ Wellformed(merged[d] \o k)
        /\ \A i \in 1..Len(k) : k[i].kind = "anchor_changed"
    <3> DEFINE p == merged[d]
    <3>1. p \in Seq(Event) /\ Wellformed(p) /\ k = reconcileComment(p, aids, v)
      BY <1>4, <2>1
    <3> HIDE DEF p
    <3>2. /\ reconcileComment(p, aids, v) \in Seq(Event)
          /\ \A i \in 1..Len(reconcileComment(p, aids, v)) :
               reconcileComment(p, aids, v)[i].kind = "anchor_changed"
          /\ Wellformed(p \o reconcileComment(p, aids, v))
      BY <3>1, ReconcileGrows
    <3> HIDE DEF k
    <3>3. k \in Seq(Event) /\ Wellformed(p \o k) /\ \A i \in 1..Len(k) : k[i].kind = "anchor_changed"
      BY <3>1, <3>2
    <3> QED
      BY <3>3 DEF p
  <2>3. a \in Seq(Event) /\ b \in Seq(Event)
    BY <1>1
  <2>4. log'[d] = DedupEvents(merged[d] \o k) /\ full'[d] = ever[d] \o k
    BY <1>3
  <2> HIDE DEF k, a, b
  <2>5. /\ es \o k \in Seq(Event)
        /\ (a \o es) \o k = a \o (es \o k)
        /\ (b \o es) \o k = b \o (es \o k)
    <3>1. \A x, y, z \in Seq(Event) : (x \o y) \o z = x \o (y \o z)
      BY ConcatAssociative
    <3>2. /\ a \in Seq(Event) /\ b \in Seq(Event)
          /\ es \in Seq(Event) /\ k \in Seq(Event)
      BY <2>1, <2>2, <2>3
    <3>3. es \o k \in Seq(Event)
      BY <3>2
    <3>4. (a \o es) \o k = a \o (es \o k)
      BY <3>1, <3>2
    <3>5. (b \o es) \o k = b \o (es \o k)
      BY <3>1, <3>2
    <3> QED
      BY <3>3, <3>4, <3>5, Zenon
  <2>6. Undoes(a, es \o k)
    <3>1. \A i \in 1..Len(es \o k) :
            \/ i \in 1..Len(es) /\ (es \o k)[i] = es[i]
            \/ i - Len(es) \in 1..Len(k) /\ (es \o k)[i] = k[i - Len(es)]
      BY <2>1, <2>2
    <3>2. \A i \in 1..Len(es \o k) :
            (es \o k)[i].kind \notin {"reply_reaction_added", "reply_reaction_removed"}
      BY <2>1, <2>2, <3>1
    <3> QED
      BY <3>2 DEF Undoes
  <2>7. /\ full'[d] = b \o (es \o k)
        /\ log'[d] = DedupEvents(a \o (es \o k))
        /\ Wellformed(a \o (es \o k))
    BY <2>1, <2>2, <2>4, <2>5
  <2>8. a \o (es \o k) \in Seq(Event) /\ b \o (es \o k) \in Seq(Event)
    BY <2>3, <2>5
  <2>9. log'[d] \in Seq(Event) /\ full'[d] \in Seq(Event)
    BY <2>7, <2>8, DedupElements
  <2>10. Grows(d)
    BY <2>5, <2>6, <2>7 DEF Grows, a, b
  <2> QED
    BY <2>9, <2>10
<1>6. Typed'
  BY <1>3, <1>5 DEF Typed
<1> QED
  BY <1>5, <1>6

LEMMA PublishGrows ==
  ASSUME IInv, NEW v \in Version, NEW aids \in Page, Publish(v, aids)
  PROVE  Typed' /\ \A d \in Comment : Grows(d)
<1>1. ASSUME NEW c \in Comment, PublishMerge(v, aids, c, <<>>)
      PROVE  Typed' /\ \A d \in Comment : Grows(d)
  <2>1. <<>> \in Seq(Event) /\ \A i \in 1..Len(<<>>) : FALSE
    OBVIOUS
  <2>2. \A i \in 1..Len(<<>>) :
          <<>>[i].kind \notin {"reply_reaction_added", "reply_reaction_removed"}
    BY <2>1
  <2> QED
    BY <1>1, <2>1, <2>2, WellformedEmpty, MergeGrows
<1>2. ASSUME NEW c \in Comment, NEW m \in Local, PublishMerge(v, aids, c, LocalLog(m))
      PROVE  Typed' /\ \A d \in Comment : Grows(d)
  BY <1>2, LocalLogShape, MergeGrows
<1> QED
  BY <1>1, <1>2 DEF Publish

(* Every operation but a wipe only appends to logs. *)
LEMMA StepGrows ==
  ASSUME IInv, Next
  PROVE  Wipe \/ (Typed' /\ \A d \in Comment : Grows(d))
<1> DEFINE Done == Typed' /\ \A d \in Comment : Grows(d)
<1>1. ASSUME NEW c \in Comment, NEW v \in Version, Mutate(c, v) PROVE Done
  BY <1>1, CreateGrows, PatchAnchorGrows, AddReplyGrows, AgentReplyGrows, ReactToReplyGrows,
     ReactGrows DEF Mutate
<1>2. ASSUME NEW c \in Comment, NEW v \in Version \cup {Latest},
             Delete(c, v) \/ \E r \in Reply : DeleteReply(c, r, v)
      PROVE  Done
  BY <1>2, DeleteGrows, DeleteReplyGrows
<1>3. ASSUME NEW v \in Version, NEW aids \in Page, Publish(v, aids) PROVE Done
  BY <1>3, PublishGrows
<1> QED
  BY <1>1, <1>2, <1>3 DEF Next
-----------------------------------------------------------------------------
(* What holds of the logs of a comment holds after they have grown. *)
LEMMA GrowsKeeps ==
  ASSUME IInv, NEW c \in Comment, Grows(c)
  PROVE  /\ log'[c] = <<>> <=> full'[c] = <<>>
         /\ DedupEvents(log'[c]) = DedupEvents(full'[c])
         /\ Wellformed(log'[c])
<1> DEFINE a == log[c]
           b == full[c]
<1>1. /\ a \in Seq(Event) /\ b \in Seq(Event) /\ (a = <<>> <=> b = <<>>)
      /\ DedupEvents(a) = DedupEvents(b) /\ Wellformed(a)
  BY DEF IInv
<1>2. PICK es \in Seq(Event) :
        /\ full'[c] = b \o es
        /\ log'[c] = a \o es \/ log'[c] = DedupEvents(a \o es)
        /\ Wellformed(a \o es)
  BY DEF Grows
<1> HIDE DEF a, b
<1>3. a \o es \in Seq(Event) /\ b \o es \in Seq(Event) /\ (a \o es = <<>> <=> b \o es = <<>>)
  BY <1>1
<1>4. DedupEvents(a \o es) = DedupEvents(b \o es)
  BY <1>1, DedupConcat
<1>5. DedupEvents(DedupEvents(a \o es)) = DedupEvents(a \o es) /\ Wellformed(DedupEvents(a \o es))
  BY <1>2, <1>3, DedupTwice, DedupWellformed
<1>6. DedupEvents(a \o es) = <<>> <=> a \o es = <<>>
  BY <1>3, DedupEmpty, DedupFirst
<1> QED
  BY <1>2, <1>3, <1>4, <1>5, <1>6

(* The logs stay well-formed sequences of events, and those that were compacted keep the
   deduplicated form of those that never were. *)
THEOREM Inductive == Spec => []IInv
<1>1. Init => IInv
  <2>1. <<>> \in Seq(Event)
    OBVIOUS
  <2> QED
    BY <2>1, WellformedEmpty DEF Init, IInv
<1>2. IInv /\ [Next]_vars => IInv'
  <2> SUFFICES ASSUME IInv, [Next]_vars PROVE IInv'
    OBVIOUS
  <2>1. CASE UNCHANGED vars
    BY <2>1 DEF IInv, vars
  <2>2. CASE Wipe
    <3>1. <<>> \in Seq(Event)
      OBVIOUS
    <3> QED
      BY <2>2, <3>1, WellformedEmpty DEF IInv, Wipe
  <2>3. CASE Typed' /\ \A d \in Comment : Grows(d)
    BY <2>3, GrowsKeeps DEF IInv, Typed
  <2> QED
    BY <2>1, <2>2, <2>3, StepGrows
<1> QED
  BY <1>1, <1>2, PTL DEF Spec
-----------------------------------------------------------------------------
(* Compacting a log does not change what is shown of it. *)
LEMMA CompactShown ==
  ASSUME NEW l \in Seq(Event), Wellformed(l), NEW at
  PROVE  SnapshotAt(DedupEvents(l), at) = SnapshotAt(l, at)
<1>1. CASE l = <<>>
  BY <1>1, DedupEmpty
<1>2. CASE l # <<>>
  <2>1. DedupEvents(l) # <<>> /\ DedupEvents(l)[1] = l[1]
    BY <1>2, FirstCreated
  <2>2. DedupEvents(DedupEvents(l)) = DedupEvents(l)
    BY DedupTwice
  <2> QED
    BY <1>2, <2>1, <2>2 DEF SnapshotAt
<1> QED
  BY <1>1, <1>2

(* An event whose id is its own goes to the end of the deduplicated log. *)
LEMMA DedupFresh ==
  ASSUME NEW l \in Seq(Event), NEW e \in Event,
         e.kind \notin {"reaction_added", "reaction_removed", "marked_applied", "marked_open",
                        "deleted"}
  PROVE  DedupEvents(Append(l, e)) = Append(DedupEvents(l), e)
<1>1. DedupEvents(Append(l, e)) = Put(DedupEvents(l), e)
  BY DedupAppend
<1>2. \A d : ~SameEID(d, e)
  BY DEF SameEID
<1> QED
  BY <1>1, <1>2 DEF Put

(* What is shown after such an event, at its version: the event is applied last. *)
LEMMA ShownFresh ==
  ASSUME NEW l \in Seq(Event), Wellformed(l), l # <<>>, NEW e \in Event,
         e.kind \notin {"created", "reaction_added", "reaction_removed", "marked_applied",
                        "marked_open", "deleted", "reply_added"},
         l[1].v <= e.v
  PROVE  SnapshotAt(Append(l, e), e.v) = applyCommentEvent(SnapshotAt(l, e.v), e)
<1> DEFINE m == Append(l, e)
           d == DedupEvents(l)
<1>1. m \in Seq(Event) /\ m # <<>> /\ m[1] = l[1] /\ e.v \in Nat
  <2>1. Latest \in Nat /\ e.v \in 1..Latest
    BY EventShape, Bounds DEF Latest
  <2> QED
    BY <2>1
<1>2. SnapshotAt(l, e.v) = replay(d, e.v) /\ d \in Seq(Event)
  BY <1>1, SnapshotShown, FirstCreated
<1>3. DedupEvents(m) = Append(d, e)
  BY DedupFresh
<1>4. replay(Append(d, e), e.v) = applyCommentEvent(replay(d, e.v), e)
  BY <1>2, ReplayAppend
<1>5. Wellformed(m)
  BY WellformedAppend
<1> HIDE DEF m, d
<1>6. SnapshotAt(m, e.v) = replay(DedupEvents(m), e.v)
  BY <1>1, <1>5, SnapshotShown
<1> QED
  BY <1>2, <1>3, <1>4, <1>6 DEF m

(* Readers see the same of a compacted log as of one that was never compacted. *)
LEMMA CompactionStep == IInv => CompactionInvisible
<1> SUFFICES ASSUME IInv, NEW c \in Comment, NEW at \in 1..Latest
             PROVE  SnapshotAt(log[c], at) = SnapshotAt(full[c], at)
  BY DEF CompactionInvisible
<1> DEFINE a == log[c]
           b == full[c]
<1>1. /\ a \in Seq(Event) /\ b \in Seq(Event) /\ (a = <<>> <=> b = <<>>)
      /\ DedupEvents(a) = DedupEvents(b) /\ Wellformed(a)
  BY DEF IInv
<1> HIDE DEF a, b
<1>2. CASE a = <<>>
  BY <1>1, <1>2 DEF a, b
<1>3. CASE a # <<>>
  <2>1. DedupEvents(b)[1] = a[1] /\ a[1].kind = "created"
    BY <1>1, <1>3, FirstCreated
  <2>2. DedupEvents(b)[1] = b[1] \/ SameEID(b[1], DedupEvents(b)[1])
    BY <1>1, <1>3, DedupFirst
  <2>3. ~SameEID(b[1], a[1])
    BY <2>1, EIDKind
  <2>4. b[1] = a[1]
    BY <2>1, <2>2, <2>3
  <2> QED
    BY <1>1, <1>3, <2>4 DEF SnapshotAt, a, b
<1> QED
  BY <1>2, <1>3

(* No version of any comment shows that its log was compacted (handlePublish compacts
   logs, and every reader folds what is stored). *)
THEOREM CompactionHolds == Spec => []CompactionInvisible
  BY Inductive, CompactionStep, PTL

(* reconcileComment sees only what is shown. *)
LEMMA ReconcileSame ==
  ASSUME NEW l, NEW m, NEW aids, NEW v, SnapshotAt(l, v) = SnapshotAt(m, v)
  PROVE  reconcileComment(l, aids, v) = reconcileComment(m, aids, v)
BY DEF reconcileComment

LEMMA SettleStep == IInv => AnchorsSettle
<1> SUFFICES ASSUME IInv, NEW c \in Comment, NEW v \in Version, NEW aids \in Page
             PROVE  LET l == DedupEvents(log[c] \o reconcileComment(log[c], aids, v))
                        s == SnapshotAt(l, v)
                    IN  /\ s # None /\ ~s.deleted => s.anchor.kind # "element" \/ s.anchor.aid \in aids
                        /\ reconcileComment(l, aids, v) = <<>>
  BY DEF AnchorsSettle
<1> DEFINE a == log[c]
           k == reconcileComment(a, aids, v)
           l == DedupEvents(a \o k)
           s == SnapshotAt(l, v)
<1>1. a \in Seq(Event) /\ Wellformed(a) /\ v \in Nat
  BY DEF IInv, Version
<1>2. CASE k = <<>>
  <2>1. a \o <<>> = a
    BY <1>1
  <2>2. SnapshotAt(l, v) = SnapshotAt(a, v)
    BY <1>1, <1>2, <2>1, CompactShown
  <2>3. reconcileComment(l, aids, v) = <<>>
    BY <1>2, <2>2, ReconcileSame
  <2>4. ASSUME s # None, ~s.deleted PROVE s.anchor.kind # "element" \/ s.anchor.aid \in aids
    <3> DEFINE t == SnapshotAt(a, v)
    <3>1. t # None /\ ~t.deleted /\ s = t
      BY <2>2, <2>4
    <3>2. t.anchor.kind = "text" \/ t.anchor.aid \in aids \/ nextAnchor(t.anchor, aids) = t.anchor
      BY <1>2, <3>1 DEF reconcileComment
    <3>3. a # <<>> /\ ~(a[1].v > v)
      BY <3>1 DEF SnapshotAt
    <3>4. a[1].v <= v
      <4>1. a[1].v \in 1..Latest /\ Latest \in Nat
        BY <1>1, <3>3, FirstCreated, Bounds DEF Latest
      <4> QED
        BY <1>1, <3>3, <4>1
    <3>5. t.anchor \in Anchor
      BY <1>1, <3>3, <3>4, SnapshotShown
    <3> HIDE DEF t, s, a
    <3> QED
      BY <3>1, <3>2, <3>5, nextAnchorType
  <2> QED
    BY <2>3, <2>4
<1>3. CASE k # <<>>
  <2> DEFINE n == nextAnchor(SnapshotAt(a, v).anchor, aids)
             e == AnchorChange(n, v)
  <2>1. /\ a # <<>> /\ a[1].v <= v /\ SnapshotAt(a, v).anchor \in Anchor /\ n \in Anchor
        /\ k = <<e>>
    BY <1>1, <1>3, ReconcileShape
  <2>2. n.hint = SnapshotAt(a, v).anchor.hint /\ (n.kind # "element" \/ n.aid \in aids)
    BY <2>1, nextAnchorType
  <2>3. nextAnchor(n, aids) = n
    BY <2>2, HintDecides
  <2> HIDE DEF a, k, n
  <2>4. e \in Event /\ e.kind = "anchor_changed" /\ e.v = v /\ e.anchor = n
    BY <2>1 DEF Event, AnchorChange
  <2> HIDE DEF e
  <2>5. a \o k = Append(a, e) /\ Append(a, e) \in Seq(Event)
    BY <1>1, <2>1, <2>4
  <2>6. SnapshotAt(Append(a, e), v) = applyCommentEvent(SnapshotAt(a, v), e)
    BY <1>1, <2>1, <2>4, ShownFresh
  <2>7. SnapshotAt(a, v) \in Snapshot
    BY <1>1, <2>1, SnapshotShown
  <2>8. SnapshotAt(Append(a, e), v).anchor = n
    BY <2>4, <2>6, <2>7, ApplyAnchor
  <2>9. Wellformed(Append(a, e))
    BY <1>1, <2>1, <2>4, WellformedAppend
  <2>10. s.anchor = n
    BY <2>5, <2>8, <2>9, CompactShown
  <2>11. reconcileComment(l, aids, v) = <<>>
    BY <2>3, <2>10 DEF reconcileComment
  <2> QED
    BY <2>2, <2>10, <2>11 DEF a, k
<1> QED
  BY <1>2, <1>3

(* After a publish every shown anchor is one the published HTML resolves, text, or marked
   lost, and publishing the same again changes none (reconcileComment). *)
THEOREM AnchorsSettled == Spec => []AnchorsSettle
  BY Inductive, SettleStep, PTL
-----------------------------------------------------------------------------
LEMMA NewEvents ==
  ASSUME IInv, NEW c \in Comment, NEW es \in Seq(Event), full'[c] = full[c] \o es
  PROVE  New(c) = es
<1> DEFINE b == full[c]
<1>1. b \in Seq(Event)
  BY DEF IInv
<1> HIDE DEF b
<1>2. SubSeq(b \o es, Len(b) + 1, Len(b \o es)) = es
  BY <1>1
<1> QED
  BY <1>2 DEF New, b

(* Storing an event of a later version does not change what is replayed up to at. *)
LEMMA PutLater ==
  ASSUME NEW d \in Seq(Event), NEW e \in Event, NEW at \in Nat, e.v > at,
         e.kind \notin {"reaction_added", "reaction_removed"}
  PROVE  replay(Put(d, e), at) = replay(d, at)
<1>1. CASE \E k \in 1..Len(d) : SameEID(d[k], e)
  <2> DEFINE p == Replace(d, e)
  <2>1. p \in Seq(Event) /\ Len(p) = Len(d)
    BY ReplaceType
  <2>2. \A k \in 1..Len(d) : p[k] = IF SameEID(d[k], e) THEN e ELSE d[k]
    BY DEF Replace
  <2>3. \A k \in 1..Len(d) : d[k] = p[k] \/ (d[k].v > at /\ p[k].v > at)
    BY <2>2 DEF SameEID
  <2> HIDE DEF p
  <2>4. replay(d, at) = replay(p, at)
    BY <2>1, <2>3, ReplayAgree
  <2> QED
    BY <1>1, <2>4 DEF Put, p
<1>2. CASE ~ \E k \in 1..Len(d) : SameEID(d[k], e)
  BY <1>2, ReplayLater DEF Put
<1> QED
  BY <1>1, <1>2

LEMMA ConcatLater ==
  ASSUME NEW a \in Seq(Event), NEW es \in Seq(Event), NEW at \in Nat,
         \A i \in 1..Len(es) : es[i].v > at /\ es[i].kind \notin {"reaction_added", "reaction_removed"}
  PROVE  replay(DedupEvents(a \o es), at) = replay(DedupEvents(a), at)
<1> DEFINE n == Len(es)
           A(i) == a \o SubSeq(es, 1, i)
           T == {i \in 0..n : replay(DedupEvents(A(i)), at) = replay(DedupEvents(a), at)}
<1>1. n \in Nat /\ A(0) = a /\ A(n) = a \o es
  OBVIOUS
<1>2. ASSUME NEW i \in 1..n
      PROVE  A(i - 1) \in Seq(Event) /\ es[i] \in Event /\ A(i) = Append(A(i - 1), es[i])
  <2> DEFINE p == SubSeq(es, 1, i - 1)
  <2>1. p \in Seq(Event) /\ es[i] \in Event /\ SubSeq(es, 1, i) = Append(p, es[i])
    OBVIOUS
  <2> HIDE DEF p
  <2>2. a \o p \in Seq(Event) /\ a \o Append(p, es[i]) = Append(a \o p, es[i])
    BY <2>1
  <2> QED
    BY <2>1, <2>2 DEF p
<1>3. \A i \in 1..n : es[i].v > at /\ es[i].kind \notin {"reaction_added", "reaction_removed"}
  OBVIOUS
<1> HIDE DEF n, A
<1>4. ASSUME NEW i \in 1..n, i - 1 \in T PROVE i \in T
  <2> DEFINE d == DedupEvents(A(i - 1))
  <2>1. i \in 0..n /\ replay(d, at) = replay(DedupEvents(a), at)
    BY <1>1, <1>4
  <2>2. d \in Seq(Event) /\ DedupEvents(A(i)) = Put(d, es[i])
    BY <1>2, DedupElements, DedupAppend
  <2> HIDE DEF d
  <2>3. replay(Put(d, es[i]), at) = replay(d, at)
    BY <1>2, <1>3, <2>2, PutLater
  <2> QED
    BY <2>1, <2>2, <2>3
<1>5. n \in T
  <2>1. 0 \in T /\ \A i \in 1..n : i - 1 \in T => i \in T
    BY <1>1, <1>4
  <2> HIDE DEF T
  <2>2. 0..n \subseteq T
    BY <1>1, <2>1, SetInduction
  <2> QED
    BY <1>1, <2>2
<1> QED
  BY <1>1, <1>5

(* The shown log of a comment that has grown. *)
LEMMA GrownShown ==
  ASSUME IInv, NEW c \in Comment, Grows(c), NEW at
  PROVE  \E es \in Seq(Event) :
           /\ New(c) = es /\ log[c] \o es \in Seq(Event) /\ Wellformed(log[c] \o es)
           /\ Undoes(log[c], es)
           /\ SnapshotAt(log'[c], at) = SnapshotAt(log[c] \o es, at)
<1>1. log[c] \in Seq(Event)
  BY DEF IInv
<1>2. PICK es \in Seq(Event) :
        /\ full'[c] = full[c] \o es
        /\ log'[c] = log[c] \o es \/ log'[c] = DedupEvents(log[c] \o es)
        /\ Wellformed(log[c] \o es)
        /\ Undoes(log[c], es)
  BY DEF Grows
<1>3. log[c] \o es \in Seq(Event)
  BY <1>1
<1>4. New(c) = es
  BY <1>2, NewEvents
<1>5. SnapshotAt(log'[c], at) = SnapshotAt(log[c] \o es, at)
  BY <1>2, <1>3, CompactShown
<1> QED
  BY <1>2, <1>3, <1>4, <1>5

LEMMA PastStep ==
  ASSUME IInv, NEW c \in Comment, Grows(c), NEW at \in Version, Later(c, at), ~Reacted(c)
  PROVE  SnapshotAt(log'[c], at) = SnapshotAt(log[c], at)
<1> DEFINE a == log[c]
<1>1. PICK es \in Seq(Event) :
        /\ New(c) = es /\ a \o es \in Seq(Event) /\ Wellformed(a \o es)
        /\ SnapshotAt(log'[c], at) = SnapshotAt(a \o es, at)
  BY GrownShown
<1>2. at \in Nat /\ a \in Seq(Event) /\ Wellformed(a) /\ a # <<>>
  BY DEF IInv, Later, Version
<1>3. \A i \in 1..Len(es) : es[i].v > at /\ es[i].kind \notin {"reaction_added", "reaction_removed"}
  <2>1. DOMAIN es = 1..Len(es)
    OBVIOUS
  <2> QED
    BY <1>1, <2>1 DEF Later, Reacted
<1> HIDE DEF a
<1>4. replay(DedupEvents(a \o es), at) = replay(DedupEvents(a), at)
  BY <1>2, <1>3, ConcatLater
<1>5. a \o es # <<>> /\ (a \o es)[1] = a[1]
  BY <1>2
<1>6. SnapshotAt(a \o es, at) = SnapshotAt(a, at)
  BY <1>2, <1>4, <1>5 DEF SnapshotAt
<1> QED
  BY <1>1, <1>6 DEF a

(* Appending to later versions changes nothing an earlier version shows, except by
   reactions (orderedEvents, DedupEvents). *)
THEOREM PastHolds == Spec => PastStands
<1>1. IInv /\ [Next]_vars =>
        [\A c \in Comment, at \in Version :
           Later(c, at) /\ ~Reacted(c) => SnapshotAt(log'[c], at) = SnapshotAt(log[c], at)]_vars
  <2> SUFFICES ASSUME IInv, Next, NEW c \in Comment, NEW at \in Version, Later(c, at), ~Reacted(c)
               PROVE  SnapshotAt(log'[c], at) = SnapshotAt(log[c], at)
    OBVIOUS
  <2>1. ~Wipe
    BY DEF Wipe, Later
  <2>2. Grows(c)
    BY <2>1, StepGrows
  <2> QED
    BY <2>2, PastStep
<1> QED
  BY <1>1, Inductive, PTL DEF Spec, PastStands

(* A shown comment is deleted when its log holds a deletion, of whatever version. *)
LEMMA DeletedInLog ==
  ASSUME NEW l \in Seq(Event), Wellformed(l), l # <<>>
  PROVE  SnapshotAt(l, Latest).deleted <=> \E i \in 1..Len(l) : l[i].kind = "deleted"
<1> DEFINE d == DedupEvents(l)
<1>1. Latest \in Nat
  BY Bounds DEF Latest
<1>2. l[1].v <= Latest
  <2>1. l[1].v \in 1..Latest
    BY FirstCreated
  <2> QED
    BY <1>1, <2>1
<1>3. SnapshotAt(l, Latest) = replay(d, Latest) /\ d \in Seq(Event)
  BY <1>1, <1>2, SnapshotShown, FirstCreated
<1>4. replay(d, Latest).deleted <=> \E i \in 1..Len(d) : d[i].kind = "deleted" /\ d[i].v <= Latest
  BY <1>1, <1>3, ReplayDeleted
<1>5. /\ \A k \in 1..Len(d) : \E j \in 1..Len(l) : d[k] = l[j]
      /\ \A j \in 1..Len(l) : \E k \in 1..Len(d) : d[k] = l[j] \/ SameEID(l[j], d[k])
  BY DedupElements
<1> HIDE DEF d
<1>6. \A i \in 1..Len(d) : d[i].v <= Latest
  <2>1. \A i \in 1..Len(d) : d[i] \in Event
    BY <1>3
  <2> QED
    BY <1>1, <2>1, EventShape
<1>7. (\E i \in 1..Len(d) : d[i].kind = "deleted") <=> \E i \in 1..Len(l) : l[i].kind = "deleted"
  BY <1>5, EIDKind
<1> QED
  BY <1>3, <1>4, <1>6, <1>7

(* No operation, and no local copy a publish brings along, revives a deleted comment. *)
THEOREM DeletedHolds == Spec => DeletedStays
<1>1. IInv /\ [Next]_vars =>
        [\A c \in Comment :
           LET s == SnapshotAt(log[c], Latest) IN
           s # None /\ s.deleted /\ log'[c] # <<>> => SnapshotAt(log'[c], Latest).deleted]_vars
  <2> SUFFICES ASSUME IInv, Next, NEW c \in Comment,
                      SnapshotAt(log[c], Latest) # None, SnapshotAt(log[c], Latest).deleted,
                      log'[c] # <<>>
               PROVE  SnapshotAt(log'[c], Latest).deleted
    OBVIOUS
  <2> DEFINE a == log[c]
  <2>1. ~Wipe
    BY DEF Wipe
  <2>2. PICK es \in Seq(Event) :
          /\ a \o es \in Seq(Event) /\ Wellformed(a \o es)
          /\ SnapshotAt(log'[c], Latest) = SnapshotAt(a \o es, Latest)
    BY <2>1, StepGrows, GrownShown
  <2>3. a # <<>> /\ a \in Seq(Event) /\ Wellformed(a)
    BY DEF IInv, SnapshotAt
  <2>4. PICK i \in 1..Len(a) : a[i].kind = "deleted"
    BY <2>3, DeletedInLog
  <2> HIDE DEF a
  <2>5. i \in 1..Len(a \o es) /\ (a \o es)[i] = a[i] /\ a \o es # <<>>
    BY <2>3
  <2> QED
    BY <2>2, <2>4, <2>5, DeletedInLog
<1> QED
  BY <1>1, Inductive, PTL DEF Spec, DeletedStays

LEMMA TurnStep ==
  ASSUME IInv, NEW c \in Comment, Grows(c),
         Appended(c, {"reply_reaction_added", "reply_reaction_removed"}),
         New(c)[1].reply \in SnapshotAt(log[c], New(c)[1].v).replies
  PROVE  <<New(c)[1].reply, New(c)[1].by>> \in SnapshotAt(log'[c], New(c)[1].v).likes
           <=> <<New(c)[1].reply, New(c)[1].by>> \notin SnapshotAt(log[c], New(c)[1].v).likes
<1> DEFINE a == log[c]
           e == New(c)[1]
           s == SnapshotAt(a, e.v)
<1>1. PICK es \in Seq(Event) :
        /\ New(c) = es /\ a \o es \in Seq(Event) /\ Wellformed(a \o es)
        /\ Undoes(a, es)
        /\ SnapshotAt(log'[c], e.v) = SnapshotAt(a \o es, e.v)
  BY GrownShown
<1>2. /\ a # <<>> /\ Len(es) = 1 /\ e = es[1]
      /\ e.kind \in {"reply_reaction_added", "reply_reaction_removed"}
  BY <1>1 DEF Appended
<1>3. a \in Seq(Event) /\ Wellformed(a)
  BY DEF IInv
<1>4. /\ s # None
      /\ e.kind = IF <<e.reply, e.by>> \in s.likes
                  THEN "reply_reaction_removed" ELSE "reply_reaction_added"
  BY <1>1, <1>2 DEF Undoes
<1>5. a \o es = Append(a, e) /\ e \in Event
  <2>1. Len(es) = 1 /\ e = es[1]
    BY <1>2
  <2> HIDE DEF a, e
  <2>2. es[1] \in Event /\ es = <<es[1]>>
    BY <2>1
  <2>3. a \o <<es[1]>> = Append(a, es[1])
    BY <1>3, <2>2
  <2> QED
    BY <2>1, <2>2, <2>3
<1>6. a[1].v <= e.v /\ e.v \in Nat
  <2>1. ~(a[1].v > e.v)
    BY <1>2, <1>4 DEF SnapshotAt
  <2>2. a[1].v \in 1..Latest /\ e.v \in 1..Latest /\ Latest \in Nat
    BY <1>2, <1>3, <1>5, FirstCreated, EventShape, Bounds DEF Latest
  <2> QED
    BY <2>1, <2>2
<1> DEFINE t == SnapshotAt(log'[c], e.v)
<1>7. e.reply \in s.replies
  OBVIOUS
<1> HIDE DEF a, e
<1>8. t = applyCommentEvent(s, e)
  BY <1>1, <1>2, <1>3, <1>5, <1>6, ShownFresh
<1>9. s \in Snapshot
  BY <1>2, <1>3, <1>6, SnapshotShown
<1> HIDE DEF s, t
<1>10. CASE <<e.reply, e.by>> \in s.likes
  <2>1. t.likes = s.likes \ {<<e.reply, e.by>>}
    BY <1>4, <1>7, <1>8, <1>9, <1>10 DEF applyCommentEvent, Snapshot
  <2> QED
    BY <1>10, <2>1 DEF s, t, e, a
<1>11. CASE <<e.reply, e.by>> \notin s.likes
  <2>1. t.likes = s.likes \cup {<<e.reply, e.by>>}
    BY <1>4, <1>7, <1>8, <1>9, <1>11 DEF applyCommentEvent, Snapshot
  <2> QED
    BY <1>11, <2>1 DEF s, t, e, a
<1> QED
  BY <1>10, <1>11

(* A reaction to a reply that is shown turns the user's reaction on or off in the version
   it is made in (opReact). *)
THEOREM ReactionTurnsHolds == Spec => ReplyReactionTurns
<1>1. IInv /\ [Next]_vars =>
        [\A c \in Comment :
           Appended(c, {"reply_reaction_added", "reply_reaction_removed"}) =>
             LET e == New(c)[1]
                 s == SnapshotAt(log[c], e.v)
                 t == SnapshotAt(log'[c], e.v)
             IN  e.reply \in s.replies =>
                   (<<e.reply, e.by>> \in t.likes <=> <<e.reply, e.by>> \notin s.likes)]_vars
  <2> SUFFICES ASSUME IInv, Next, NEW c \in Comment,
                      Appended(c, {"reply_reaction_added", "reply_reaction_removed"}),
                      New(c)[1].reply \in SnapshotAt(log[c], New(c)[1].v).replies
               PROVE  <<New(c)[1].reply, New(c)[1].by>> \in SnapshotAt(log'[c], New(c)[1].v).likes
                        <=> <<New(c)[1].reply, New(c)[1].by>>
                              \notin SnapshotAt(log[c], New(c)[1].v).likes
    OBVIOUS
  <2>1. CASE Wipe
    <3>1. full'[c] = <<>> /\ full[c] \in Seq(Event)
      BY <2>1 DEF Wipe, IInv
    <3>2. Len(New(c)) # 1
      BY <3>1 DEF New
    <3> QED
      BY <3>2 DEF Appended
  <2>2. CASE Grows(c)
    BY <2>2, TurnStep
  <2> QED
    BY <2>1, <2>2, StepGrows
<1> QED
  BY <1>1, Inductive, PTL DEF Spec, ReplyReactionTurns
=============================================================================
