--------------------------- MODULE Stamping_proofs ---------------------------
(***************************************************************************)
(* Proofs about Stamping.  As long as no HTML that authors write holds a   *)
(* self-closed tag or a tag in capitals, everything stored is a fixed      *)
(* point of stamping, whatever edits its copies go through, and a promote  *)
(* stores the draft as it stands.  Both conditions are needed: stamping a  *)
(* self-closed image in a figure changes the figure's aid.  That anchors   *)
(* resolve needs neither.                                                  *)
(*                                                                         *)
(* That aids name content, and that anchors follow it, holds of HTML that  *)
(* is also well nested (WellNested, further down): of an element without a *)
(* closing tag the aid covers nothing, and a tag in the body of a script   *)
(* ends where the script says.  The argument: findCloseEnd's depth is the  *)
(* number of elements of the name that have yet to end, so it finds the    *)
(* end a reader sees; the aid then stands for what is shown; and every     *)
(* edit of well-nested HTML leaves it well nested.                         *)
(***************************************************************************)
EXTENDS Stamping, Induction, SequenceTheorems, FiniteSetTheorems, TLAPS

Fields(kind, name, caps, src, class, marked, slashes, aid) ==
  [kind |-> kind, name |-> name, caps |-> caps, src |-> src, class |-> class,
   marked |-> marked, slashes |-> slashes, aid |-> aid]

\* A token without a slash and without capitals.
Plain(e) ==
  /\ e = Fields(e.kind, e.name, e.caps, e.src, e.class, e.marked, e.slashes, e.aid)
  /\ e.caps = FALSE /\ e.slashes = 0

\* The token e with the stamp a.
With(e, a) == [e EXCEPT !.aid = a]

Tokens(h) == {h[i] : i \in DOMAIN h}
PlainHtml(h) == h \in Seq(Tokens(h)) /\ \A e \in Tokens(h) : Plain(e)

\* A token with the fields of Token, and HTML made of such tokens.
Formed(e) == e = Fields(e.kind, e.name, e.caps, e.src, e.class, e.marked, e.slashes, e.aid)
TokenHtml(h) == h \in Seq(Tokens(h)) /\ \A e \in Tokens(h) : Formed(e)

\* The inductive invariant of plain HTML.
IInv == \A h \in Stored : PlainHtml(h) /\ StampAids(h) = h
-----------------------------------------------------------------------------
LEMMA FieldsOf ==
  ASSUME NEW k, NEW n, NEW p, NEW s, NEW c, NEW m, NEW z, NEW x
  PROVE  LET e == Fields(k, n, p, s, c, m, z, x)
         IN  /\ e.kind = k /\ e.name = n /\ e.caps = p /\ e.src = s /\ e.class = c
             /\ e.marked = m /\ e.slashes = z /\ e.aid = x
  BY DEF Fields

LEMMA ExceptAid ==
  ASSUME NEW k, NEW n, NEW p, NEW s, NEW c, NEW m, NEW z, NEW x, NEW a
  PROVE  [Fields(k, n, p, s, c, m, z, x) EXCEPT !.aid = a] = Fields(k, n, p, s, c, m, z, a)
  BY DEF Fields

LEMMA ExceptName ==
  ASSUME NEW k, NEW n, NEW p, NEW s, NEW c, NEW m, NEW z, NEW x, NEW a
  PROVE  [Fields(k, n, p, s, c, m, z, x) EXCEPT !.name = a] = Fields(k, a, p, s, c, m, z, x)
  BY DEF Fields

LEMMA ExceptCaps ==
  ASSUME NEW k, NEW n, NEW p, NEW s, NEW c, NEW m, NEW z, NEW x, NEW a
  PROVE  [Fields(k, n, p, s, c, m, z, x) EXCEPT !.caps = a] = Fields(k, n, a, s, c, m, z, x)
  BY DEF Fields

LEMMA ExceptSlashes ==
  ASSUME NEW k, NEW n, NEW p, NEW s, NEW c, NEW m, NEW z, NEW x, NEW a
  PROVE  [Fields(k, n, p, s, c, m, z, x) EXCEPT !.slashes = a] = Fields(k, n, p, s, c, m, a, x)
  BY DEF Fields

LEMMA FieldsPlain ==
  ASSUME NEW k, NEW n, NEW p, NEW s, NEW c, NEW m, NEW z, NEW x, p = FALSE, z = 0
  PROVE  Plain(Fields(k, n, p, s, c, m, z, x))
<1> DEFINE e == Fields(k, n, p, s, c, m, z, x)
<1>1. /\ e.kind = k /\ e.name = n /\ e.caps = p /\ e.src = s /\ e.class = c
      /\ e.marked = m /\ e.slashes = z /\ e.aid = x
  BY FieldsOf
<1>2. e = Fields(e.kind, e.name, e.caps, e.src, e.class, e.marked, e.slashes, e.aid)
  BY <1>1
<1> HIDE DEF e
<1>3. Plain(e)
  BY <1>1, <1>2 DEF Plain
<1> QED
  BY <1>3 DEF e

(* Replacing fields of a token gives a token. *)
LEMMA FieldsFormed ==
  ASSUME NEW k, NEW n, NEW p, NEW s, NEW c, NEW m, NEW z, NEW x
  PROVE  Formed(Fields(k, n, p, s, c, m, z, x))
<1> DEFINE e == Fields(k, n, p, s, c, m, z, x)
<1>1. /\ e.kind = k /\ e.name = n /\ e.caps = p /\ e.src = s /\ e.class = c
      /\ e.marked = m /\ e.slashes = z /\ e.aid = x
  BY FieldsOf
<1>2. e = Fields(e.kind, e.name, e.caps, e.src, e.class, e.marked, e.slashes, e.aid)
  BY <1>1
<1> HIDE DEF e
<1>3. Formed(e)
  BY <1>2 DEF Formed
<1> QED
  BY <1>3 DEF e

LEMMA NewNameFormed ==
  ASSUME NEW e, Formed(e), NEW a
  PROVE  Formed([e EXCEPT !.name = a])
<1>1. e = Fields(e.kind, e.name, e.caps, e.src, e.class, e.marked, e.slashes, e.aid)
  BY DEF Formed
<1>2. [e EXCEPT !.name = a]
        = Fields(e.kind, a, e.caps, e.src, e.class, e.marked, e.slashes, e.aid)
  BY <1>1, ExceptName
<1> QED
  BY <1>2, FieldsFormed

\* The tag e with the stamp a, its capitals now p, ended by z slashes.
Stamped(e, a, p, z) == [e EXCEPT !.aid = a, !.caps = p, !.slashes = z]

(* A stamped tag is a token that carries its stamp. *)
LEMMA StampFormed ==
  ASSUME NEW e, Formed(e), NEW a, NEW p, NEW z
  PROVE  Formed(Stamped(e, a, p, z)) /\ Stamped(e, a, p, z).aid = a
<1>1. e = Fields(e.kind, e.name, e.caps, e.src, e.class, e.marked, e.slashes, e.aid)
  BY DEF Formed
<1>2. Stamped(e, a, p, z) = [[[e EXCEPT !.aid = a] EXCEPT !.caps = p] EXCEPT !.slashes = z]
  BY DEF Stamped
<1>3. [Fields(e.kind, e.name, e.caps, e.src, e.class, e.marked, e.slashes, e.aid) EXCEPT !.aid = a]
        = Fields(e.kind, e.name, e.caps, e.src, e.class, e.marked, e.slashes, a)
  BY ExceptAid
<1>4. [Fields(e.kind, e.name, e.caps, e.src, e.class, e.marked, e.slashes, a) EXCEPT !.caps = p]
        = Fields(e.kind, e.name, p, e.src, e.class, e.marked, e.slashes, a)
  BY ExceptCaps
<1>5. [Fields(e.kind, e.name, p, e.src, e.class, e.marked, e.slashes, a) EXCEPT !.slashes = z]
        = Fields(e.kind, e.name, p, e.src, e.class, e.marked, z, a)
  BY ExceptSlashes
<1>6. [e EXCEPT !.aid = a]
        = Fields(e.kind, e.name, e.caps, e.src, e.class, e.marked, e.slashes, a)
  BY <1>1, <1>3
<1>7. Stamped(e, a, p, z)
        = Fields(e.kind, e.name, p, e.src, e.class, e.marked, z, a)
  BY <1>2, <1>3, <1>4, <1>5, <1>6
<1> QED
  BY <1>7, FieldsFormed, FieldsOf

(* What remains of a token when its stamp is replaced. *)
LEMMA NewAid ==
  ASSUME NEW e, Plain(e), NEW a
  PROVE  /\ [e EXCEPT !.aid = a]
               = Fields(e.kind, e.name, e.caps, e.src, e.class, e.marked, e.slashes, a)
         /\ Plain([e EXCEPT !.aid = a])
<1>1. /\ e = Fields(e.kind, e.name, e.caps, e.src, e.class, e.marked, e.slashes, e.aid)
      /\ e.caps = FALSE /\ e.slashes = 0
  BY DEF Plain
<1>2. [e EXCEPT !.aid = a]
        = Fields(e.kind, e.name, e.caps, e.src, e.class, e.marked, e.slashes, a)
  BY <1>1, ExceptAid
<1>3. Plain(Fields(e.kind, e.name, e.caps, e.src, e.class, e.marked, e.slashes, a))
  BY <1>1, FieldsPlain
<1> QED
  BY <1>2, <1>3

LEMMA NewName ==
  ASSUME NEW e, Plain(e), NEW a
  PROVE  Plain([e EXCEPT !.name = a])
<1>1. /\ e = Fields(e.kind, e.name, e.caps, e.src, e.class, e.marked, e.slashes, e.aid)
      /\ e.caps = FALSE /\ e.slashes = 0
  BY DEF Plain
<1>2. [e EXCEPT !.name = a]
        = Fields(e.kind, a, e.caps, e.src, e.class, e.marked, e.slashes, e.aid)
  BY <1>1, ExceptName
<1>3. Plain(Fields(e.kind, a, e.caps, e.src, e.class, e.marked, e.slashes, e.aid))
  BY <1>1, FieldsPlain
<1> QED
  BY <1>2, <1>3

(* A token whose capitals and slashes are replaced by what it has anyway. *)
LEMMA Unslashed ==
  ASSUME NEW e, Plain(e), NEW a
  PROVE  [e EXCEPT !.aid = a, !.caps = FALSE, !.slashes = IF @ > 0 THEN @ + 1 ELSE 0]
           = [e EXCEPT !.aid = a]
<1>1. ASSUME NEW p, NEW q, NEW w
      PROVE  [p EXCEPT !.aid = a, !.caps = q, !.slashes = w]
               = [[[p EXCEPT !.aid = a] EXCEPT !.caps = q] EXCEPT !.slashes = w]
  OBVIOUS
<1>2. ASSUME NEW p, Plain(p) PROVE [p EXCEPT !.caps = FALSE] = p
  <2>1. p = Fields(p.kind, p.name, p.caps, p.src, p.class, p.marked, p.slashes, p.aid) /\ p.caps = FALSE
    BY <1>2 DEF Plain
  <2>2. [p EXCEPT !.caps = p.caps] = p
    BY <2>1, ExceptCaps
  <2> QED
    BY <2>1, <2>2
<1>3. ASSUME NEW p, Plain(p) PROVE [p EXCEPT !.slashes = 0] = p
  <2>1. p = Fields(p.kind, p.name, p.caps, p.src, p.class, p.marked, p.slashes, p.aid) /\ p.slashes = 0
    BY <1>3 DEF Plain
  <2>2. [p EXCEPT !.slashes = p.slashes] = p
    BY <2>1, ExceptSlashes
  <2> QED
    BY <2>1, <2>2
<1>4. (IF e.slashes > 0 THEN e.slashes + 1 ELSE 0) = 0
  BY DEF Plain
<1>5. [e EXCEPT !.aid = a, !.caps = FALSE, !.slashes = IF @ > 0 THEN @ + 1 ELSE 0]
        = [e EXCEPT !.aid = a, !.caps = FALSE, !.slashes = 0]
  BY <1>4
<1>6. Plain([e EXCEPT !.aid = a])
  BY NewAid
<1>7. [[[e EXCEPT !.aid = a] EXCEPT !.caps = FALSE] EXCEPT !.slashes = 0] = [e EXCEPT !.aid = a]
  BY <1>2, <1>3, <1>6
<1> QED
  BY <1>1, <1>5, <1>7

(* A sequence over some set of plain tokens is plain HTML. *)
LEMMA PlainSeq ==
  ASSUME NEW S, NEW h \in Seq(S), \A i \in 1..Len(h) : Plain(h[i])
  PROVE  PlainHtml(h)
<1>1. Len(h) \in Nat /\ h \in [1..Len(h) -> S] /\ DOMAIN h = 1..Len(h)
  BY LenProperties
<1>2. h \in [1..Len(h) -> Tokens(h)]
  BY <1>1 DEF Tokens
<1>3. h \in Seq(Tokens(h))
  BY <1>1, <1>2, SeqDef
<1> QED
  BY <1>1, <1>3 DEF PlainHtml, Tokens

LEMMA FormedSeq ==
  ASSUME NEW S, NEW h \in Seq(S), \A i \in 1..Len(h) : Formed(h[i])
  PROVE  TokenHtml(h)
<1>1. Len(h) \in Nat /\ h \in [1..Len(h) -> S] /\ DOMAIN h = 1..Len(h)
  BY LenProperties
<1>2. h \in [1..Len(h) -> Tokens(h)]
  BY <1>1 DEF Tokens
<1>3. h \in Seq(Tokens(h))
  BY <1>1, <1>2, SeqDef
<1> QED
  BY <1>1, <1>3 DEF TokenHtml, Tokens

LEMMA PlainParts ==
  ASSUME NEW h, PlainHtml(h)
  PROVE  /\ h \in Seq(Tokens(h)) /\ Len(h) \in Nat /\ DOMAIN h = 1..Len(h)
         /\ h = [i \in 1..Len(h) |-> h[i]]
         /\ \A i \in 1..Len(h) : Plain(h[i])
<1>1. h \in Seq(Tokens(h)) /\ \A e \in Tokens(h) : Plain(e)
  BY DEF PlainHtml
<1>2. Len(h) \in Nat /\ h \in [1..Len(h) -> Tokens(h)] /\ DOMAIN h = 1..Len(h)
  BY <1>1, LenProperties
<1> QED
  BY <1>1, <1>2 DEF Tokens

(* Stamping a plain HTML changes nothing of a token but its stamp. *)
LEMMA StampToken ==
  ASSUME NEW h, PlainHtml(h), NEW i \in DOMAIN h
  PROVE  /\ i \in Artifacts(h) =>
              StampAids(h)[i] = With(h[i], aidFor(h, i))
         /\ i \notin Artifacts(h) => StampAids(h)[i] = h[i]
         /\ Plain(StampAids(h)[i])
         /\ StampAids(h)[i].kind = h[i].kind /\ StampAids(h)[i].name = h[i].name
         /\ StampAids(h)[i].src = h[i].src /\ StampAids(h)[i].marked = h[i].marked
         /\ With(StampAids(h)[i], None) = With(h[i], None)
<1> DEFINE e == h[i]
           a == aidFor(h, i)
<1>1. Plain(e)
  BY PlainParts
<1>2. StampAids(h)[i] =
        IF i \in Artifacts(h)
        THEN [e EXCEPT !.aid = a, !.caps = FALSE, !.slashes = IF @ > 0 THEN @ + 1 ELSE 0]
        ELSE e
  BY DEF StampAids
<1>3. [e EXCEPT !.aid = a, !.caps = FALSE, !.slashes = IF @ > 0 THEN @ + 1 ELSE 0]
        = [e EXCEPT !.aid = a]
  BY <1>1, Unslashed
<1> HIDE DEF e, a
<1> DEFINE t == [e EXCEPT !.aid = a]
<1>4. /\ Plain(t)
      /\ t = Fields(e.kind, e.name, e.caps, e.src, e.class, e.marked, e.slashes, a)
  BY <1>1, NewAid
<1>5. t.kind = e.kind /\ t.name = e.name /\ t.src = e.src /\ t.marked = e.marked
  BY <1>4 DEF Fields
<1>6. [t EXCEPT !.aid = None] = [e EXCEPT !.aid = None]
  <2> HIDE DEF t
  <2>1. [t EXCEPT !.aid = None]
          = Fields(t.kind, t.name, t.caps, t.src, t.class, t.marked, t.slashes, None)
    BY <1>4, NewAid
  <2>2. t.class = e.class /\ t.caps = e.caps /\ t.slashes = e.slashes
    BY <1>4 DEF Fields
  <2> QED
    BY <1>1, <1>5, <2>1, <2>2, NewAid
<1> HIDE DEF t
<1>7. CASE i \in Artifacts(h)
  BY <1>2, <1>3, <1>4, <1>5, <1>6, <1>7 DEF e, a, t, With
<1>8. CASE i \notin Artifacts(h)
  BY <1>1, <1>2, <1>8 DEF e
<1> QED
  BY <1>7, <1>8

(* Stamping keeps the places of the artifacts and the HTML between the stamps. *)
LEMMA StampShape ==
  ASSUME NEW h, PlainHtml(h)
  PROVE  /\ DOMAIN StampAids(h) = DOMAIN h
         /\ PlainHtml(StampAids(h))
         /\ Artifacts(StampAids(h)) = Artifacts(h)
         /\ Bare(StampAids(h)) = Bare(h)
<1> DEFINE g == StampAids(h)
           S == {g[i] : i \in DOMAIN h}
<1>1. DOMAIN g = DOMAIN h
  BY DEF StampAids
<1>2. DOMAIN h = 1..Len(h) /\ Len(h) \in Nat
  BY PlainParts
<1>3. ASSUME NEW i \in DOMAIN h
      PROVE  /\ Plain(g[i]) /\ g[i].kind = h[i].kind /\ g[i].name = h[i].name
             /\ g[i].marked = h[i].marked
             /\ With(g[i], None) = With(h[i], None)
  BY StampToken
<1>4. g = [i \in 1..Len(h) |-> g[i]]
  BY <1>2 DEF StampAids
<1> HIDE DEF g
<1>5. g \in [1..Len(h) -> S]
  BY <1>2, <1>4
<1>6. g \in Seq(S) /\ Len(g) = Len(h)
  BY <1>1, <1>2, <1>5, SeqDef
<1>7. PlainHtml(g)
  BY <1>2, <1>3, <1>6, PlainSeq
<1>8. Artifacts(g) = Artifacts(h)
  BY <1>1, <1>3 DEF Artifacts
<1>9. Bare(g) = Bare(h)
  <2>1. Bare(g) = [i \in DOMAIN g |-> With(g[i], None)] /\ Bare(h) = [i \in DOMAIN h |-> With(h[i], None)]
    BY DEF Bare, With
  <2> QED
    BY <1>1, <1>3, <2>1
<1> QED
  BY <1>1, <1>7, <1>8, <1>9 DEF g

(* The aid of an element depends on nothing that stamping changes. *)
LEMMA AidStays ==
  ASSUME NEW h, PlainHtml(h), NEW i \in DOMAIN h
  PROVE  aidFor(StampAids(h), i) = aidFor(h, i)
<1>1. Bare(StampAids(h)) = Bare(h)
  BY StampShape
<1>2. StampAids(h)[i].name = h[i].name /\ StampAids(h)[i].src = h[i].src
  BY StampToken
<1> QED
  BY <1>1, <1>2 DEF aidFor

(* Stamping twice is stamping once. *)
LEMMA StampTwice ==
  ASSUME NEW h, PlainHtml(h)
  PROVE  StampAids(StampAids(h)) = StampAids(h)
<1> DEFINE g == StampAids(h)
           k == StampAids(g)
<1>1. DOMAIN g = DOMAIN h /\ PlainHtml(g) /\ Artifacts(g) = Artifacts(h)
  BY StampShape
<1>2. DOMAIN k = DOMAIN g
  BY <1>1, StampShape
<1>3. g = [i \in DOMAIN h |-> g[i]] /\ k = [i \in DOMAIN g |-> k[i]]
  BY DEF StampAids
<1>4. ASSUME NEW i \in DOMAIN h PROVE k[i] = g[i]
  <2>1. i \in Artifacts(g) => k[i] = With(g[i], aidFor(g, i))
    BY <1>1, StampToken
  <2>2. i \notin Artifacts(g) => k[i] = g[i]
    BY <1>1, StampToken
  <2>3. i \in Artifacts(h) => g[i] = With(h[i], aidFor(h, i))
    BY StampToken
  <2>4. aidFor(g, i) = aidFor(h, i)
    BY AidStays
  <2>5. Plain(h[i])
    BY PlainParts
  <2> HIDE DEF g, k
  <2>6. ASSUME NEW e, Plain(e), NEW a PROVE With(With(e, a), a) = With(e, a)
    BY DEF With
  <2> QED
    BY <1>1, <2>1, <2>2, <2>3, <2>4, <2>5, <2>6
<1> QED
  BY <1>1, <1>2, <1>3, <1>4
-----------------------------------------------------------------------------
(* The closing tag of an element is in the HTML, not before it opens. *)
LEMMA CloseInside ==
  ASSUME NEW h, NEW n \in Nat, Len(h) = n, NEW i \in 1..n
  PROVE  findCloseEnd(h, i) \in i..n
<1> DEFINE scan[j \in i..Len(h)] ==
             IF j = i THEN [depth |-> 1, raw |-> None] ELSE scanned(scan[j - 1], h[j], h[i].name)
           inside == {j \in i..Len(h) : scan[j].depth > 0}
           end == i + Cardinality(inside)
<1>1. findCloseEnd(h, i) = IF end <= Len(h) THEN end ELSE i
  BY DEF findCloseEnd
<1> HIDE DEF scan
<1>2. IsFiniteSet(i..n) /\ inside \subseteq i..n
  BY FS_Interval
<1>3. Cardinality(inside) \in Nat
  BY <1>2, FS_Subset, FS_CardinalityType
<1> HIDE DEF inside
<1> QED
  BY <1>1, <1>3

(* An edit is made of tokens that were there, with some texts replaced. *)
LEMMA EditTokens ==
  ASSUME NEW S, NEW s \in Seq(S), NEW h \in Edits(s)
  PROVE  h \in Seq(S \cup {[e EXCEPT !.name = w] : e \in S, w \in Word})
<1> DEFINE T == {[e EXCEPT !.name = w] : e \in S, w \in Word}
<1>1. Len(s) \in Nat /\ DOMAIN s = 1..Len(s) /\ \A i \in DOMAIN s : s[i] \in S
  BY LenProperties, ElementOfSeq
<1>2. ASSUME NEW i \in DOMAIN s, NEW w \in Word, h = Reworded(s, i, w) PROVE h \in Seq(S \cup T)
  <2> DEFINE e == [s[i] EXCEPT !.name = w]
  <2>1. h = [s EXCEPT ![i] = e] /\ e \in S \cup T
    BY <1>1, <1>2 DEF Reworded
  <2> HIDE DEF e, T
  <2>2. s \in Seq(S \cup T)
    BY SeqMonotonic
  <2> QED
    BY <1>1, <2>1, <2>2, ExceptSeq
<1> HIDE DEF T
<1>3. ASSUME NEW i \in DOMAIN s
      PROVE  Whole(s, i) \in Seq(S) /\ i + Len(Whole(s, i)) \in 1..(Len(s) + 1)
  <2> DEFINE end == IF IsVoid(s[i]) THEN i ELSE findCloseEnd(s, i)
  <2>1. end \in i..Len(s) /\ i \in 1..Len(s)
    BY <1>1, CloseInside
  <2>2. Whole(s, i) = SubSeq(s, i, end)
    BY DEF Whole
  <2> HIDE DEF end
  <2>3. SubSeq(s, i, end) \in Seq(S) /\ Len(SubSeq(s, i, end)) = end - i + 1
    BY <1>1, <2>1, SubSeqProperties
  <2> QED
    BY <1>1, <2>1, <2>2, <2>3
<1>4. ASSUME NEW m \in 1..(Len(s) + 1), NEW n \in 0..Len(s) PROVE SubSeq(s, m, n) \in Seq(S)
  BY <1>1, SubSeqProperties
<1>5. ASSUME NEW i \in DOMAIN s, h = Without(s, i) PROVE h \in Seq(S)
  <2> DEFINE k == i + Len(Whole(s, i))
  <2>1. k \in 1..(Len(s) + 1) /\ i - 1 \in 0..Len(s) /\ 1 \in 1..(Len(s) + 1) /\ Len(s) \in 0..Len(s)
    BY <1>1, <1>3
  <2>2. h = SubSeq(s, 1, i - 1) \o SubSeq(s, k, Len(s))
    BY <1>5 DEF Without
  <2> HIDE DEF k
  <2> QED
    BY <1>4, <2>1, <2>2, ConcatProperties
<1>6. ASSUME NEW i \in DOMAIN s, h = Copied(s, i, Len(s)) PROVE h \in Seq(S)
  <2>1. SubSeq(s, 1, Len(s)) \in Seq(S) /\ SubSeq(s, Len(s) + 1, Len(s)) \in Seq(S)
    BY <1>1, <1>4
  <2>2. h = (SubSeq(s, 1, Len(s)) \o Whole(s, i)) \o SubSeq(s, Len(s) + 1, Len(s))
    BY <1>6 DEF Copied
  <2> QED
    BY <1>3, <2>1, <2>2, ConcatProperties
<1>7. Seq(S) \subseteq Seq(S \cup T)
  BY SeqMonotonic
<1>8. \/ \E i \in DOMAIN s, w \in Word : h = Reworded(s, i, w)
      \/ \E i \in DOMAIN s : h = Without(s, i) \/ h = Copied(s, i, Len(s))
  BY DEF Edits, Artifacts
<1>9. h \in Seq(S \cup T)
  BY <1>2, <1>5, <1>6, <1>7, <1>8
<1> QED
  BY <1>9 DEF T

(* An edit of HTML made of tokens is made of tokens. *)
LEMMA EditsFormed ==
  ASSUME NEW s, TokenHtml(s), NEW h \in Edits(s)
  PROVE  TokenHtml(h)
<1> DEFINE T == Tokens(s) \cup {[e EXCEPT !.name = w] : e \in Tokens(s), w \in Word}
<1>1. h \in Seq(T)
  BY EditTokens DEF TokenHtml
<1>2. ASSUME NEW e \in Tokens(s) PROVE Formed(e) /\ \A w : Formed([e EXCEPT !.name = w])
  BY NewNameFormed DEF TokenHtml
<1>3. ASSUME NEW e \in T PROVE Formed(e)
  BY <1>2
<1> HIDE DEF T
<1> QED
  BY <1>1, <1>3, FormedSeq, ElementOfSeq

(* An edit of plain HTML is plain. *)
LEMMA EditsPlain ==
  ASSUME NEW s, PlainHtml(s), NEW h \in Edits(s)
  PROVE  PlainHtml(h)
<1> DEFINE T == Tokens(s) \cup {[e EXCEPT !.name = w] : e \in Tokens(s), w \in Word}
<1>1. h \in Seq(T)
  BY EditTokens DEF PlainHtml
<1>2. ASSUME NEW e \in Tokens(s) PROVE Plain(e) /\ \A w : Plain([e EXCEPT !.name = w])
  BY NewName DEF PlainHtml
<1>3. ASSUME NEW e \in T PROVE Plain(e)
  BY <1>2
<1> HIDE DEF T
<1> QED
  BY <1>1, <1>3, PlainSeq, ElementOfSeq
-----------------------------------------------------------------------------
(* Everything stored is plain and settled if what authors write is plain. *)
THEOREM Inductive ==
  ASSUME \A h \in Html : PlainHtml(h)
  PROVE  Spec => []IInv
<1>1. Init => IInv
  BY DEF Init, IInv, Stored
<1>2. ASSUME IInv, [Next]_vars PROVE IInv'
  <2>1. ASSUME NEW h, PlainHtml(h)
        PROVE  PlainHtml(StampAids(h)) /\ StampAids(StampAids(h)) = StampAids(h)
    BY <2>1, StampShape, StampTwice
  <2>2. ASSUME NEW h, PlainHtml(h), Publish(h) \/ SaveDraft(h) PROVE IInv'
    BY <1>2, <2>1, <2>2 DEF IInv, Stored, Publish, SaveDraft, Commit
  <2>3. CASE \E h \in Html : (Publish(h) \/ SaveDraft(h)) /\ UNCHANGED edits
    BY <2>2, <2>3
  <2>4. CASE \E s \in Stored : \E h \in Edits(s) :
               edits < MaxEdits /\ (Publish(h) \/ SaveDraft(h)) /\ edits' = edits + 1
    <3>1. PICK s \in Stored : \E h \in Edits(s) : Publish(h) \/ SaveDraft(h)
      BY <2>4
    <3>2. PICK h \in Edits(s) : Publish(h) \/ SaveDraft(h)
      BY <3>1
    <3>3. PlainHtml(h)
      BY <1>2, EditsPlain DEF IInv
    <3> QED
      BY <2>2, <3>2, <3>3
  <2>5. CASE Promote
    <3>1. PlainHtml(draft)
      BY <1>2, <2>5 DEF Promote, IInv, Stored
    <3> QED
      BY <1>2, <2>1, <2>5, <3>1 DEF Promote, Commit, IInv, Stored
  <2>6. CASE \E i \in (IF doc = None THEN {} ELSE Artifacts(doc)) : Comment(i)
    BY <1>2, <2>6 DEF Comment, IInv, Stored
  <2>7. CASE UNCHANGED vars
    BY <1>2, <2>7 DEF vars, IInv, Stored
  <2> QED
    BY <1>2, <2>3, <2>4, <2>5, <2>6, <2>7 DEF Next
<1> QED
  BY <1>1, <1>2, PTL DEF Spec

(* Stamping any stored HTML again changes nothing (the fixed point of StampAids that
   saved drafts, publishes and promotes all produce), if authors write plain HTML. *)
THEOREM StampsSettled ==
  ASSUME \A h \in Html : PlainHtml(h)
  PROVE  Spec => []StampsSettle
<1>1. IInv => StampsSettle
  BY DEF IInv, StampsSettle
<1> QED
  BY <1>1, Inductive, PTL

(* A promote stores the draft as it was stamped, aids included, under the same condition. *)
THEOREM PromoteStamps ==
  ASSUME \A h \in Html : PlainHtml(h)
  PROVE  Spec => PromoteKeepsStamps
<1>1. IInv /\ Promote => doc' = draft
  BY DEF Promote, Commit, IInv, Stored
<1> QED
  BY <1>1, Inductive, PTL DEF PromoteKeepsStamps
-----------------------------------------------------------------------------
(* Stamping HTML made of tokens, plain or not, writes each artifact's aid into it. *)
LEMMA StampWrites ==
  ASSUME NEW h, TokenHtml(h)
  PROVE  /\ TokenHtml(StampAids(h)) /\ DOMAIN StampAids(h) = DOMAIN h
         /\ \A i \in Artifacts(h) : StampAids(h)[i].aid = aidFor(h, i)
<1> DEFINE g == StampAids(h)
           S == {g[i] : i \in DOMAIN h}
<1>1. DOMAIN h = 1..Len(h) /\ Len(h) \in Nat /\ \A i \in DOMAIN h : Formed(h[i])
  BY LenProperties DEF TokenHtml, Tokens
<1>2. ASSUME NEW i \in DOMAIN h
      PROVE  Formed(g[i]) /\ (i \in Artifacts(h) => g[i].aid = aidFor(h, i))
  <2> DEFINE e == h[i]
             a == aidFor(h, i)
             q == FALSE
             z == IF e.slashes > 0 THEN e.slashes + 1 ELSE 0
  <2>1. g[i] = IF i \in Artifacts(h) THEN Stamped(e, a, q, z) ELSE e
    BY DEF StampAids, Stamped
  <2>2. Formed(e)
    BY <1>1
  <2> HIDE DEF e, a, z, q, g
  <2>3. Formed(Stamped(e, a, q, z)) /\ Stamped(e, a, q, z).aid = a
    BY <2>2, StampFormed
  <2>4. CASE i \in Artifacts(h)
    BY <2>1, <2>3, <2>4 DEF a
  <2>5. CASE i \notin Artifacts(h)
    BY <2>1, <2>2, <2>5
  <2> QED
    BY <2>4, <2>5
<1>3. DOMAIN g = DOMAIN h /\ g = [i \in 1..Len(h) |-> g[i]]
  BY <1>1 DEF StampAids
<1>4. Artifacts(h) \subseteq DOMAIN h
  BY DEF Artifacts
<1> HIDE DEF g
<1>5. g \in [1..Len(h) -> S]
  BY <1>1, <1>3
<1>6. g \in Seq(S) /\ Len(g) = Len(h)
  BY <1>1, <1>3, <1>5, SeqDef
<1>7. TokenHtml(g)
  BY <1>1, <1>2, <1>6, FormedSeq
<1> QED
  BY <1>2, <1>3, <1>4, <1>7 DEF g

\* Anchors are records, and those on elements name an aid that doc carries.
AnchorInv ==
  /\ \A h \in Stored : TokenHtml(h)
  /\ anchor # None =>
       anchor = [kind |-> anchor.kind, aid |-> anchor.aid, tag |-> anchor.tag,
                 heading |-> anchor.heading]
  /\ AnchorResolves

\* The anchor a turned to kind k and aid x.
Turned(a, k, x) == [a EXCEPT !.kind = k, !.aid = x]

LEMMA TurnedFields ==
  ASSUME NEW c, NEW d, NEW t, NEW g, NEW k, NEW x
  PROVE  Turned([kind |-> c, aid |-> d, tag |-> t, heading |-> g], k, x)
           = [kind |-> k, aid |-> x, tag |-> t, heading |-> g]
<1>1. Turned([kind |-> c, aid |-> d, tag |-> t, heading |-> g], k, x)
        = [[[kind |-> c, aid |-> d, tag |-> t, heading |-> g] EXCEPT !.kind = k] EXCEPT !.aid = x]
  BY DEF Turned
<1>2. [[kind |-> c, aid |-> d, tag |-> t, heading |-> g] EXCEPT !.kind = k]
        = [kind |-> k, aid |-> d, tag |-> t, heading |-> g]
  OBVIOUS
<1>3. [[kind |-> k, aid |-> d, tag |-> t, heading |-> g] EXCEPT !.aid = x]
        = [kind |-> k, aid |-> x, tag |-> t, heading |-> g]
  OBVIOUS
<1> QED
  BY <1>1, <1>2, <1>3

LEMMA TurnedAnchor ==
  ASSUME NEW a, NEW k, NEW x,
         a = [kind |-> a.kind, aid |-> a.aid, tag |-> a.tag, heading |-> a.heading]
  PROVE  Turned(a, k, x) = [kind |-> k, aid |-> x, tag |-> a.tag, heading |-> a.heading]
<1> DEFINE r == [kind |-> a.kind, aid |-> a.aid, tag |-> a.tag, heading |-> a.heading]
<1>1. Turned(r, k, x) = [kind |-> k, aid |-> x, tag |-> a.tag, heading |-> a.heading]
  BY TurnedFields
<1>2. a = r
  OBVIOUS
<1> HIDE DEF r
<1> QED
  BY <1>1, <1>2

(* Reconciling with the artifacts of h leaves an anchor that is lost, or whose aid one of
   them has. *)
LEMMA ReconciledAnchor ==
  ASSUME NEW a, NEW h,
         a = [kind |-> a.kind, aid |-> a.aid, tag |-> a.tag, heading |-> a.heading]
  PROVE  LET b == Reconciled(a, AIDs(h))
         IN  /\ b = [kind |-> b.kind, aid |-> b.aid, tag |-> b.tag, heading |-> b.heading]
             /\ \/ b.kind = "lost"
                \/ \E x \in AIDs(h) : x.aid = b.aid
                \/ b = None
<1> DEFINE arts == AIDs(h)
           x == CHOOSE y \in Candidates(a, arts) : TRUE
<1>1. CASE a = None \/ \E y \in arts : y.aid = a.aid
  BY <1>1 DEF Reconciled
<1>2. CASE ~(a = None \/ \E y \in arts : y.aid = a.aid) /\ Cardinality(Candidates(a, arts)) = 1
  <2>1. Candidates(a, arts) # {}
    BY <1>2, FS_EmptySet
  <2>2. x \in Candidates(a, arts)
    BY <2>1
  <2>3. Candidates(a, arts) \subseteq arts
    BY DEF Candidates
  <2>4. Reconciled(a, arts) = Turned(a, "element", x.aid)
    BY <1>2 DEF Reconciled, nextAnchor, Turned
  <2> HIDE DEF x, arts
  <2>5. Reconciled(a, arts) = [kind |-> "element", aid |-> x.aid, tag |-> a.tag, heading |-> a.heading]
    BY <2>4, TurnedAnchor
  <2> QED
    BY <2>2, <2>3, <2>5 DEF arts
<1>3. CASE ~(a = None \/ \E y \in arts : y.aid = a.aid) /\ Cardinality(Candidates(a, arts)) # 1
  <2>1. Reconciled(a, arts) = Turned(a, "lost", None)
    BY <1>3 DEF Reconciled, nextAnchor, Lost, Turned
  <2>2. Reconciled(a, arts) = [kind |-> "lost", aid |-> None, tag |-> a.tag, heading |-> a.heading]
    BY <2>1, TurnedAnchor
  <2> QED
    BY <2>2
<1> QED
  BY <1>1, <1>2, <1>3

(* An element anchor always finds its element in the newest version, whatever authors
   write, self-closed tags and capitals included (AnchorResolves): Reconciled relies on
   the index StampAids returns, and these are the aids StampAids wrote. *)
THEOREM AnchorsResolve ==
  ASSUME \A h \in Html : TokenHtml(h)
  PROVE  Spec => []AnchorResolves
<1>1. Init => AnchorInv
  BY DEF Init, AnchorInv, Stored, AnchorResolves
<1>2. ASSUME AnchorInv, [Next]_vars PROVE AnchorInv'
  <2>1. ASSUME NEW h, TokenHtml(h), Commit(h), draft' = draft \/ draft' = None PROVE AnchorInv'
    <3>1. /\ TokenHtml(doc') /\ DOMAIN doc' = DOMAIN h
          /\ \A i \in Artifacts(h) : doc'[i].aid = aidFor(h, i)
      BY <2>1, StampWrites DEF Commit
    <3>2. CASE anchor = None
      <4>1. anchor' = None
        BY <2>1, <3>2 DEF Commit, Reconciled
      <4> QED
        BY <1>2, <2>1, <3>1, <4>1 DEF AnchorInv, AnchorResolves, Stored
    <3>3. CASE anchor # None
      <4>1. /\ anchor' = [kind |-> anchor'.kind, aid |-> anchor'.aid, tag |-> anchor'.tag,
                          heading |-> anchor'.heading]
            /\ \/ anchor'.kind = "lost"
               \/ \E x \in AIDs(h) : x.aid = anchor'.aid
               \/ anchor' = None
        BY <1>2, <2>1, <3>3, ReconciledAnchor DEF AnchorInv, Commit
      <4>2. ASSUME NEW x \in AIDs(h) PROVE \E i \in DOMAIN doc' : doc'[i].aid = x.aid
        <5>1. PICK i \in Artifacts(h) : x.aid = aidFor(h, i)
          BY DEF AIDs
        <5>2. i \in DOMAIN h
          BY DEF Artifacts
        <5> QED
          BY <3>1, <5>1, <5>2
      <4> QED
        BY <1>2, <2>1, <3>1, <4>1, <4>2 DEF AnchorInv, AnchorResolves, Stored
    <3> QED
      BY <3>2, <3>3
  <2>2. ASSUME NEW h, TokenHtml(h), Publish(h) \/ SaveDraft(h) PROVE AnchorInv'
    <3>1. CASE Publish(h)
      BY <2>1, <2>2, <3>1 DEF Publish
    <3>2. CASE SaveDraft(h)
      <4>1. TokenHtml(draft')
        BY <2>2, <3>2, StampWrites DEF SaveDraft
      <4> QED
        BY <1>2, <3>2, <4>1 DEF SaveDraft, AnchorInv, AnchorResolves, Stored
    <3> QED
      BY <2>2, <3>1, <3>2
  <2>3. CASE \E h \in Html : (Publish(h) \/ SaveDraft(h)) /\ UNCHANGED edits
    BY <2>2, <2>3
  <2>4. CASE \E s \in Stored : \E h \in Edits(s) :
               edits < MaxEdits /\ (Publish(h) \/ SaveDraft(h)) /\ edits' = edits + 1
    <3>1. PICK s \in Stored : \E h \in Edits(s) : Publish(h) \/ SaveDraft(h)
      BY <2>4
    <3>2. PICK h \in Edits(s) : Publish(h) \/ SaveDraft(h)
      BY <3>1
    <3>3. TokenHtml(h)
      BY <1>2, EditsFormed DEF AnchorInv
    <3> QED
      BY <2>2, <3>2, <3>3
  <2>5. CASE Promote
    <3>1. TokenHtml(draft)
      BY <1>2, <2>5 DEF Promote, AnchorInv, Stored
    <3> QED
      BY <2>1, <2>5, <3>1 DEF Promote
  <2>6. CASE \E i \in (IF doc = None THEN {} ELSE Artifacts(doc)) : Comment(i)
    <3>1. PICK i \in Artifacts(doc) : Comment(i)
      BY <2>6
    <3>2. i \in DOMAIN doc
      BY DEF Artifacts
    <3> QED
      BY <1>2, <3>1, <3>2 DEF Comment, AnchorInv, AnchorResolves, Stored
  <2>7. CASE UNCHANGED vars
    BY <1>2, <2>7 DEF vars, AnchorInv, AnchorResolves, Stored
  <2> QED
    BY <1>2, <2>3, <2>4, <2>5, <2>6, <2>7 DEF Next
<1>3. AnchorInv => AnchorResolves
  BY DEF AnchorInv
<1> QED
  BY <1>1, <1>2, <1>3, PTL DEF Spec
-----------------------------------------------------------------------------
\* How well-nested HTML is made: the number of elements open after each token.

\* Tags outside raw text that begin, and that end, an element with content.
Opening(h, k) == h[k].kind = "open" /\ ~IsVoid(h[k]) /\ ~InRaw(h, k)
Closing(h, k) == h[k].kind = "close" /\ ~InRaw(h, k)

\* d[k] is the number of elements that are open after the token k; none is in the end.
Levels(h, d) ==
  /\ d \in [0..Len(h) -> Nat] /\ d[0] = 0 /\ d[Len(h)] = 0
  /\ \A k \in 1..Len(h) :
       /\ Opening(h, k) => d[k] = d[k - 1] + 1
       /\ Closing(h, k) => d[k - 1] = d[k] + 1
       /\ ~Opening(h, k) /\ ~Closing(h, k) => d[k] = d[k - 1]

\* The token m is the first after which no more elements are open than before i.
Ends(d, i, m) == i < m /\ d[m] = d[i - 1] /\ \A k \in i..(m - 1) : d[k] > d[i - 1]

\* Every element ends with its closing tag.
Matched(h, d) ==
  \A i, m \in 1..Len(h) : Opening(h, i) /\ Ends(d, i, m) => Closes(h[m], h[i].name)

\* The element at k has content, and is an artifact or raw text.
Matters(h, k) == ~IsVoid(h[k]) /\ (k \in Artifacts(h) \/ h[k].name \in rawTextTags)

(* Elements nest and are all closed, closing tags are bare, and no artifact or raw text
   with content begins in raw text. *)
WellNested(h) ==
  /\ \E d : Levels(h, d) /\ Matched(h, d)
  /\ \A k \in 1..Len(h) :
       /\ h[k].kind = "open" /\ InRaw(h, k) => ~Matters(h, k)
       /\ h[k].kind = "close" => h[k] = Close(h[k].name)

\* A tag that turns what follows into raw text, or would if it were not in some itself.
RawOpen(e) == e.kind = "open" /\ e.name \in rawTextTags

(* InRaw by RawOpen. *)
LEMMA RawDef ==
  ASSUME NEW h, NEW k
  PROVE  InRaw(h, k) <=> \E a \in 1..(k - 1) :
                           RawOpen(h[a]) /\ \A b \in (a + 1)..k : ~Closes(h[b], h[a].name)
  BY DEF InRaw, RawOpen

(* Raw text does not begin in raw text. *)
LEMMA RawOpens ==
  ASSUME NEW h, PlainHtml(h), WellNested(h), NEW a \in 1..Len(h), RawOpen(h[a])
  PROVE  ~InRaw(h, a) /\ Opening(h, a)
<1>1. Plain(h[a])
  BY PlainParts
<1>2. h[a].slashes = 0 /\ h[a].name \notin voidTags
  BY <1>1, RawTags DEF Plain, RawOpen
<1>3. ~InRaw(h, a)
  BY <1>2 DEF WellNested, RawOpen, Matters, IsVoid
<1> QED
  BY <1>2, <1>3 DEF Opening, IsVoid, RawOpen

(* An open tag outside raw text is after the end of all raw text before it. *)
LEMMA RawAfter ==
  ASSUME NEW h, NEW n \in Nat, NEW i \in 1..n, NEW j \in i..n, h[i].kind = "open", ~InRaw(h, i),
         NEW a \in 1..(j - 1), RawOpen(h[a]), \A b \in (a + 1)..j : ~Closes(h[b], h[a].name)
  PROVE  a >= i
<1> SUFFICES ASSUME a < i PROVE FALSE
  OBVIOUS
<1>1. a \in 1..(i - 1) /\ \A b \in (a + 1)..i : b \in (a + 1)..j
  OBVIOUS
<1> QED
  BY <1>1, RawDef

(* As long as raw text goes on the level stays. *)
LEMMA RawLevel ==
  ASSUME NEW h, NEW d, NEW n \in Nat, Len(h) = n, Levels(h, d), NEW a \in 1..n, NEW m \in a..n,
         RawOpen(h[a]), \A b \in (a + 1)..m : ~Closes(h[b], h[a].name)
  PROVE  \A k \in a..m : d[k] = d[a] /\ (k # a => InRaw(h, k))
<1> DEFINE T == {k \in a..m : d[k] = d[a]}
<1>1. ASSUME NEW k \in (a + 1)..m PROVE InRaw(h, k)
  <2>1. a \in 1..(k - 1) /\ \A b \in (a + 1)..k : b \in (a + 1)..m
    OBVIOUS
  <2> QED
    BY <2>1, RawDef
<1>2. a \in T
  OBVIOUS
<1>3. ASSUME NEW k \in (a + 1)..m, k - 1 \in T PROVE k \in T
  <2>1. ~Opening(h, k) /\ ~Closing(h, k)
    BY <1>1 DEF Opening, Closing
  <2>2. d[k] = d[k - 1]
    BY <2>1 DEF Levels
  <2> QED
    BY <1>3, <2>2
<1>4. a..m \subseteq T
  <2>1. \A k \in (a + 1)..m : k - 1 \in T => k \in T
    BY <1>3
  <2>2. a \in Nat /\ m \in Nat
    OBVIOUS
  <2> HIDE DEF T
  <2> QED
    BY <1>2, <2>1, <2>2, RangeInduction
<1> QED
  BY <1>1, <1>4

(* Every element that begins ends. *)
LEMMA EndExists ==
  ASSUME NEW h, NEW d, NEW n \in Nat, Len(h) = n, Levels(h, d), NEW i \in 1..n, Opening(h, i)
  PROVE  \E m \in (i + 1)..n : Ends(d, i, m) /\ Closing(h, m)
<1>1. /\ d \in [0..n -> Nat] /\ d[0] = 0 /\ d[n] = 0
      /\ \A k \in 1..n : /\ d[k] = d[k - 1] + 1 \/ d[k - 1] = d[k] + 1 \/ d[k] = d[k - 1]
                         /\ d[k - 1] = d[k] + 1 => Closing(h, k)
      /\ d[i] = d[i - 1] + 1
  <2>1. ASSUME NEW k \in 1..n PROVE d[k] \in Nat /\ d[k - 1] \in Nat
    BY DEF Levels
  <2> QED
    BY <2>1 DEF Levels
<1> DEFINE S == {k \in i..n : d[k] <= d[i - 1]}
<1>2. PICK m \in S : \A k \in S : m <= k
  <2>1. S \subseteq 0..n /\ n \in S
    BY <1>1
  <2> HIDE DEF S
  <2> QED
    BY <2>1, Least
<1>3. m > i /\ m \in (i + 1)..n
  BY <1>1, <1>2
<1>4. \A k \in i..(m - 1) : d[k] > d[i - 1]
  <2> SUFFICES ASSUME NEW k \in i..(m - 1) PROVE d[k] > d[i - 1]
    OBVIOUS
  <2>1. k \in i..n /\ ~(m <= k) /\ k \in 0..n /\ i - 1 \in 0..n
    BY <1>3
  <2>2. d[k] \in Nat /\ d[i - 1] \in Nat
    BY <1>1, <2>1
  <2> QED
    BY <1>2, <2>1, <2>2
<1>5. d[m] = d[i - 1] /\ d[m - 1] = d[m] + 1
  <2>1. d[m - 1] > d[i - 1] /\ d[m] <= d[i - 1]
    BY <1>2, <1>3, <1>4
  <2>2. d[m - 1] \in Nat /\ d[m] \in Nat /\ d[i - 1] \in Nat
    BY <1>1, <1>3
  <2> QED
    BY <1>1, <1>3, <2>1, <2>2
<1>6. Ends(d, i, m)
  BY <1>3, <1>4, <1>5 DEF Ends
<1>7. Closing(h, m)
  <2>1. m \in 1..n
    BY <1>3
  <2> QED
    BY <1>1, <1>5, <2>1
<1> QED
  BY <1>3, <1>6, <1>7

\* What is opened and closed from i to j.
OpenedIn(h, i, j) == {k \in i..j : Opening(h, k)}
ClosedIn(h, i, j) == {k \in i..j : Closing(h, k)}

\* Of p opened and q closed elements, with the levels a before and b now, a token makes u
\* and v, with the level c.
Moved(p, q, a, b, u, v, c) ==
  /\ p \in Nat /\ q \in Nat /\ a \in Nat /\ b \in Nat /\ c \in Nat /\ p + a = q + b
  /\ \/ u = p + 1 /\ v = q /\ c = b + 1
     \/ u = p /\ v = q + 1 /\ b = c + 1
     \/ u = p /\ v = q /\ c = b

(* What was opened and what was closed still differ by the level. *)
LEMMA Balance ==
  ASSUME NEW p, NEW q, NEW a, NEW b, NEW u, NEW v, NEW c, Moved(p, q, a, b, u, v, c)
  PROVE  u + a = v + c
  BY DEF Moved

(* The level is what was opened without what was closed. *)
LEMMA LevelCounts ==
  ASSUME NEW h, NEW d, NEW n \in Nat, Len(h) = n, Levels(h, d), NEW i \in 1..n
  PROVE  \A j \in i..n :
           /\ Cardinality(OpenedIn(h, i, j)) \in Nat /\ Cardinality(ClosedIn(h, i, j)) \in Nat
           /\ Cardinality(OpenedIn(h, i, j)) + d[i - 1] = Cardinality(ClosedIn(h, i, j)) + d[j]
<1> DEFINE O(j) == OpenedIn(h, i, j)
           C(j) == ClosedIn(h, i, j)
           Fine(j) == /\ IsFiniteSet(O(j)) /\ IsFiniteSet(C(j))
                      /\ Cardinality(O(j)) + d[i - 1] = Cardinality(C(j)) + d[j]
           T == {j \in (i - 1)..n : Fine(j)}
<1>1. /\ i - 1 \in Nat /\ n \in Nat /\ i - 1 <= n
      /\ \A k \in 0..n : d[k] \in Nat
  BY DEF Levels
<1>2. i - 1 \in T
  <2>1. O(i - 1) = {} /\ C(i - 1) = {}
    <3>1. i..(i - 1) = {}
      OBVIOUS
    <3> QED
      BY <3>1 DEF OpenedIn, ClosedIn
  <2>2. d[i - 1] \in Nat
    BY <1>1
  <2>3. IsFiniteSet({}) /\ Cardinality({}) = 0 /\ i - 1 \in (i - 1)..n
    BY <1>1, FS_EmptySet
  <2> HIDE DEF O, C
  <2>4. Fine(i - 1)
    BY <2>1, <2>3
  <2> HIDE DEF Fine
  <2> QED
    BY <2>3, <2>4
<1>3. ASSUME NEW j \in ((i - 1) + 1)..n, j - 1 \in T PROVE j \in T
  <2>1. /\ j \in i..n /\ j \in 1..n /\ j - 1 \in 0..n /\ j \in 0..n
        /\ j \notin O(j - 1) /\ j \notin C(j - 1)
    BY DEF OpenedIn, ClosedIn
  <2>2. /\ O(j) = IF Opening(h, j) THEN O(j - 1) \cup {j} ELSE O(j - 1)
        /\ C(j) = IF Closing(h, j) THEN C(j - 1) \cup {j} ELSE C(j - 1)
    BY <2>1 DEF OpenedIn, ClosedIn
  <2>3. ~(Opening(h, j) /\ Closing(h, j))
    BY DEF Opening, Closing
  <2>4. Fine(j - 1)
    BY <1>3
  <2>5. /\ Opening(h, j) => d[j] = d[j - 1] + 1
        /\ Closing(h, j) => d[j - 1] = d[j] + 1
        /\ ~Opening(h, j) /\ ~Closing(h, j) => d[j] = d[j - 1]
        /\ d[j] \in Nat /\ d[j - 1] \in Nat /\ d[i - 1] \in Nat
    BY <1>1, <2>1 DEF Levels
  <2> HIDE DEF O, C
  <2>6. ASSUME NEW S, IsFiniteSet(S), j \notin S
        PROVE  /\ Cardinality(S) \in Nat /\ IsFiniteSet(S \cup {j})
               /\ Cardinality(S \cup {j}) = Cardinality(S) + 1
    BY <2>6, FS_AddElement, FS_CardinalityType
  <2>8. /\ Cardinality(O(j - 1)) \in Nat /\ Cardinality(C(j - 1)) \in Nat
        /\ IsFiniteSet(O(j - 1) \cup {j}) /\ IsFiniteSet(C(j - 1) \cup {j})
        /\ Cardinality(O(j - 1) \cup {j}) = Cardinality(O(j - 1)) + 1
        /\ Cardinality(C(j - 1) \cup {j}) = Cardinality(C(j - 1)) + 1
    BY <2>1, <2>4, <2>6
  <2> DEFINE p == Cardinality(O(j - 1))
             q == Cardinality(C(j - 1))
  <2>9. /\ IsFiniteSet(O(j - 1)) /\ IsFiniteSet(C(j - 1)) /\ p \in Nat /\ q \in Nat
        /\ p + d[i - 1] = q + d[j - 1]
    BY <2>4, <2>8
  <2>10. /\ Cardinality(O(j)) = IF Opening(h, j) THEN p + 1 ELSE p
         /\ Cardinality(C(j)) = IF Closing(h, j) THEN q + 1 ELSE q
         /\ IsFiniteSet(O(j)) /\ IsFiniteSet(C(j))
    <3>1. CASE Opening(h, j)
      BY <2>2, <2>3, <2>8, <2>9, <3>1
    <3>2. CASE Closing(h, j)
      BY <2>2, <2>3, <2>8, <2>9, <3>2
    <3>3. CASE ~Opening(h, j) /\ ~Closing(h, j)
      BY <2>2, <2>9, <3>3
    <3> QED
      BY <3>1, <3>2, <3>3
  <2> HIDE DEF p, q
  <2>11. \/ Cardinality(O(j)) = p + 1 /\ Cardinality(C(j)) = q /\ d[j] = d[j - 1] + 1
         \/ Cardinality(O(j)) = p /\ Cardinality(C(j)) = q + 1 /\ d[j - 1] = d[j] + 1
         \/ Cardinality(O(j)) = p /\ Cardinality(C(j)) = q /\ d[j] = d[j - 1]
    BY <2>3, <2>5, <2>10, Zenon
  <2>12. p \in Nat /\ q \in Nat /\ p + d[i - 1] = q + d[j - 1]
    BY <2>9
  <2>13. d[j] \in Nat /\ d[j - 1] \in Nat /\ d[i - 1] \in Nat
    BY <2>5
  <2>14. Cardinality(O(j)) + d[i - 1] = Cardinality(C(j)) + d[j]
    <3> HIDE DEF O, C
    <3> DEFINE u == Cardinality(O(j))
               v == Cardinality(C(j))
               a == d[i - 1]
               b == d[j - 1]
               c == d[j]
    <3>1. \/ u = p + 1 /\ v = q /\ c = b + 1
          \/ u = p /\ v = q + 1 /\ b = c + 1
          \/ u = p /\ v = q /\ c = b
      BY <2>11
    <3>2. p + a = q + b /\ p \in Nat /\ q \in Nat
      BY <2>12
    <3>3. a \in Nat /\ b \in Nat /\ c \in Nat
      BY <2>13
    <3> HIDE DEF a, b, c, u, v
    <3>4. Moved(p, q, a, b, u, v, c)
      BY <3>1, <3>2, <3>3 DEF Moved
    <3>5. u + a = v + c
      BY <3>4, Balance
    <3> QED
      BY <3>5 DEF u, v, a, c
  <2>7. Fine(j)
    BY <2>10, <2>14
  <2> HIDE DEF Fine
  <2> QED
    BY <2>1, <2>7
<1>4. (i - 1)..n \subseteq T
  <2>1. \A j \in ((i - 1) + 1)..n : j - 1 \in T => j \in T
    BY <1>3
  <2> HIDE DEF T
  <2> QED
    BY <1>1, <1>2, <2>1, RangeInduction
<1>5. ASSUME NEW j \in i..n PROVE Fine(j)
  <2>1. j \in (i - 1)..n
    OBVIOUS
  <2> HIDE DEF Fine
  <2> QED
    BY <1>4, <2>1
<1> HIDE DEF O, C
<1>6. ASSUME NEW j \in i..n
      PROVE  /\ Cardinality(O(j)) \in Nat /\ Cardinality(C(j)) \in Nat
             /\ Cardinality(O(j)) + d[i - 1] = Cardinality(C(j)) + d[j]
  BY <1>5, FS_CardinalityType
<1> QED
  BY <1>6 DEF O, C

(* What a reader sees of an element ends where the level falls back. *)
LEMMA EndOfIs ==
  ASSUME NEW h, NEW d, NEW n \in Nat, Len(h) = n, Levels(h, d), NEW i \in 1..n,
         NEW m \in (i + 1)..n, Ends(d, i, m)
  PROVE  EndOf(h, i) = m
<1> DEFINE P(j) == Cardinality(OpenedIn(h, i, j)) = Cardinality(ClosedIn(h, i, j))
<1>1. EndOf(h, i) = CHOOSE j \in i..n : P(j) /\ \A k \in i..(j - 1) : ~P(k)
  BY DEF EndOf, OpenedIn, ClosedIn, Opening, Closing
<1>2. \A j \in i..n : P(j) <=> d[j] = d[i - 1]
  <2>1. \A j \in 0..n : d[j] \in Nat
    BY DEF Levels
  <2> SUFFICES ASSUME NEW j \in i..n PROVE P(j) <=> d[j] = d[i - 1]
    OBVIOUS
  <2>2. d[j] \in Nat /\ d[i - 1] \in Nat
    BY <2>1
  <2>3. /\ Cardinality(OpenedIn(h, i, j)) \in Nat /\ Cardinality(ClosedIn(h, i, j)) \in Nat
        /\ Cardinality(OpenedIn(h, i, j)) + d[i - 1] = Cardinality(ClosedIn(h, i, j)) + d[j]
    BY LevelCounts
  <2> QED
    BY <2>2, <2>3
<1> HIDE DEF P
<1>3. \A k \in i..(m - 1) : ~P(k)
  <2> SUFFICES ASSUME NEW k \in i..(m - 1) PROVE ~P(k)
    OBVIOUS
  <2>1. k \in i..n /\ k \in 0..n /\ i - 1 \in 0..n
    OBVIOUS
  <2>2. d[k] > d[i - 1] /\ d[k] \in Nat /\ d[i - 1] \in Nat
    BY <2>1 DEF Ends, Levels
  <2> QED
    BY <1>2, <2>1, <2>2
<1>4. P(m) /\ m \in i..n
  BY <1>2 DEF Ends
<1>5. ASSUME NEW j \in i..n, P(j), \A k \in i..(j - 1) : ~P(k) PROVE j = m
  <2>1. j < m => j \in i..(m - 1)
    OBVIOUS
  <2>2. m < j => m \in i..(j - 1)
    OBVIOUS
  <2> QED
    BY <1>3, <1>4, <1>5, <2>1, <2>2
<1> QED
  BY <1>1, <1>3, <1>4, <1>5
-----------------------------------------------------------------------------
\* findCloseEnd as a loop over the tokens.

\* States of findCloseEnd's scan.
At(p, r) == [depth |-> p, raw |-> r]
States == {At(p, r) : p \in Nat, r \in rawTextTags \cup {None}}

(* The fields of a scan state. *)
LEMMA AtFields ==
  ASSUME NEW p, NEW r
  PROVE  At(p, r).depth = p /\ At(p, r).raw = r
  BY DEF At

(* Replacing its depth. *)
LEMMA AtDepth ==
  ASSUME NEW p, NEW r, NEW q
  PROVE  [At(p, r) EXCEPT !.depth = q] = At(q, r)
  BY DEF At

(* Replacing its raw-text element. *)
LEMMA AtRaw ==
  ASSUME NEW p, NEW r, NEW q
  PROVE  [At(p, r) EXCEPT !.raw = q] = At(p, q)
  BY DEF At

(* One step of the scan. *)
LEMMA ScannedAt ==
  ASSUME NEW p, NEW r, NEW e, NEW tag
  PROVE  scanned(At(p, r), e, tag) =
           IF p = 0 THEN At(p, r)
           ELSE IF r # None THEN IF Closes(e, r) THEN At(p, None) ELSE At(p, r)
           ELSE IF Closes(e, tag) THEN At(p - 1, r)
           ELSE IF Opens(e, tag) THEN At(p + 1, r)
           ELSE IF RawOpen(e) /\ e.name # tag /\ e.slashes = 0 THEN At(p, e.name)
           ELSE At(p, r)
<1> DEFINE s == At(p, r)
           A == [s EXCEPT !.raw = None]
           B == [s EXCEPT !.depth = @ - 1]
           C == [s EXCEPT !.depth = @ + 1]
           D == [s EXCEPT !.raw = e.name]
<1>1. s.depth = p /\ s.raw = r
  BY AtFields
<1>2. A = At(p, None) /\ D = At(p, e.name)
  BY AtRaw
<1>3. B = [s EXCEPT !.depth = p - 1] /\ C = [s EXCEPT !.depth = p + 1]
  BY <1>1
<1>4. B = At(p - 1, r) /\ C = At(p + 1, r)
  BY <1>3, AtDepth
<1>5. scanned(s, e, tag) =
        IF s.depth = 0 THEN s
        ELSE IF s.raw # None THEN IF Closes(e, s.raw) THEN A ELSE s
        ELSE CASE Closes(e, tag) -> B
               [] Opens(e, tag) -> C
               [] e.kind = "open" /\ e.name \in rawTextTags \ {tag} /\ e.slashes = 0 -> D
               [] OTHER -> s
  BY DEF scanned
<1>6. /\ e.kind = "open" /\ e.name \in rawTextTags \ {tag} /\ e.slashes = 0
           <=> RawOpen(e) /\ e.name # tag /\ e.slashes = 0
      /\ ~(Closes(e, tag) /\ Opens(e, tag))
      /\ ~(Closes(e, tag) /\ RawOpen(e))
      /\ ~(Opens(e, tag) /\ RawOpen(e) /\ e.name # tag)
  BY DEF RawOpen, Closes, Opens
<1> HIDE DEF s, A, B, C, D
<1> QED
  BY <1>1, <1>2, <1>4, <1>5, <1>6 DEF s

(* The scan goes from state to state. *)
LEMMA ScannedType ==
  ASSUME NEW s \in States, NEW e, NEW tag
  PROVE  scanned(s, e, tag) \in States
<1>1. PICK p \in Nat, r \in rawTextTags \cup {None} : s = At(p, r)
  BY DEF States
<1>2. \A q \in Nat, t \in rawTextTags \cup {None} : At(q, t) \in States
  BY DEF States
<1>3. p # 0 => p - 1 \in Nat
  OBVIOUS
<1>4. p + 1 \in Nat /\ None \in rawTextTags \cup {None} /\ (RawOpen(e) => e.name \in rawTextTags \cup {None})
  BY DEF RawOpen
<1> HIDE DEF States
<1>5. CASE p = 0
  BY <1>1, <1>2, <1>5, ScannedAt
<1>6. CASE p # 0
  <2>1. scanned(At(p, r), e, tag) =
           IF r # None THEN IF Closes(e, r) THEN At(p, None) ELSE At(p, r)
           ELSE IF Closes(e, tag) THEN At(p - 1, r)
           ELSE IF Opens(e, tag) THEN At(p + 1, r)
           ELSE IF RawOpen(e) /\ e.name # tag /\ e.slashes = 0 THEN At(p, e.name)
           ELSE At(p, r)
    BY <1>6, ScannedAt
  <2>2. At(p, r) \in States /\ At(p, None) \in States /\ At(p - 1, r) \in States /\ At(p + 1, r) \in States
    BY <1>2, <1>3, <1>4, <1>6
  <2>3. RawOpen(e) => At(p, e.name) \in States
    BY <1>2, <1>4
  <2> QED
    BY <1>1, <2>1, <2>2, <2>3
<1> QED
  BY <1>5, <1>6

(* The scan as a loop. *)
LEMMA ScanLoop ==
  ASSUME NEW h, NEW n \in Nat, Len(h) = n, NEW i \in 1..n
  PROVE  \E f \in [i..n -> States] :
           /\ f[i] = At(1, None)
           /\ \A j \in (i + 1)..n : f[j] = scanned(f[j - 1], h[j], h[i].name)
           /\ findCloseEnd(h, i) =
                LET end == i + Cardinality({j \in i..n : f[j].depth > 0})
                IN  IF end <= n THEN end ELSE i
<1> DEFINE tag == h[i].name
           Step(j, s) == scanned(s, h[j], tag)
           scan[j \in i..n] == IF j = i THEN At(1, None) ELSE Step(j, scan[j - 1])
           step == [j \in (i + 1)..n |-> [s \in States |-> Step(j, s)]]
           Result(f) == LET end == i + Cardinality({j \in i..n : f[j].depth > 0})
                        IN  IF end <= n THEN end ELSE i
<1>1. findCloseEnd(h, i) = Result(scan)
  BY DEF findCloseEnd, At
<1>2. /\ i \in Nat /\ i <= n /\ At(1, None) \in States
      /\ \A j \in (i + 1)..n, s \in States : Step(j, s) \in States
  <2>1. At(1, None) \in States
    <3>1. \A p \in Nat, r \in rawTextTags \cup {None} : At(p, r) \in States
      BY DEF States
    <3> QED
      BY <3>1
  <2>2. \A j \in (i + 1)..n, s \in States : Step(j, s) \in States
    BY ScannedType
  <2> QED
    BY <2>1, <2>2
<1> HIDE DEF tag, Step, Result
<1>3. /\ step \in [(i + 1)..n -> [States -> States]]
      /\ \A j \in (i + 1)..n, s \in States : step[j][s] = Step(j, s)
  BY <1>2
<1> HIDE DEF step
<1>4. PICK g \in [i..n -> States] : g[i] = At(1, None) /\ \A j \in (i + 1)..n : g[j] = step[j][g[j - 1]]
  <2> DEFINE a == At(1, None)
             S == States
  <2>1. i \in Nat /\ i <= n /\ a \in S /\ step \in [(i + 1)..n -> [S -> S]]
    BY <1>2, <1>3
  <2> HIDE DEF a, S
  <2>2. \E g \in [i..n -> S] : SolvesFrom(g, i, n, a, step)
    BY <2>1, RangeRecursion
  <2> QED
    BY <2>2 DEF a, S, SolvesFrom
<1>5. \A j \in (i + 1)..n : g[j - 1] \in States /\ g[j] = Step(j, g[j - 1])
  <2>1. \A j \in (i + 1)..n : j - 1 \in i..n
    BY <1>2
  <2> QED
    BY <2>1, <1>3, <1>4
<1>6. g = [j \in i..n |-> IF j = i THEN At(1, None) ELSE Step(j, g[j - 1])]
  <2>1. \A j \in i..n : j # i => j \in (i + 1)..n
    BY <1>2
  <2> QED
    BY <1>2, <1>4, <1>5, <2>1
<1>7. scan = [j \in i..n |-> IF j = i THEN At(1, None) ELSE Step(j, scan[j - 1])]
  BY <1>6
<1> HIDE DEF scan
<1>8. scan[i] = At(1, None) /\ \A j \in (i + 1)..n : scan[j] = Step(j, scan[j - 1])
  <2>1. i \in i..n /\ \A j \in (i + 1)..n : j \in i..n /\ j # i
    BY <1>2
  <2> QED
    BY <1>7, <2>1
<1>9. scan = g
  <2> DEFINE T == {j \in i..n : scan[j] = g[j]}
  <2>1. i \in T /\ \A j \in (i + 1)..n : j - 1 \in T => j \in T
    BY <1>2, <1>4, <1>5, <1>8
  <2>2. i..n \subseteq T
    <3> HIDE DEF T
    <3> QED
      BY <1>2, <2>1, RangeInduction
  <2>3. scan = [j \in i..n |-> g[j]]
    BY <1>7, <2>2
  <2> QED
    BY <2>3
<1> QED
  BY <1>1, <1>4, <1>8, <1>9 DEF Result, Step, tag

(* The element ends where the depth is 0 for the first time. *)
LEMMA ScanEnds ==
  ASSUME NEW h, NEW n \in Nat, Len(h) = n, NEW i \in 1..n, NEW m \in (i + 1)..n,
         NEW f \in [i..n -> States],
         \A j \in (i + 1)..n : f[j] = scanned(f[j - 1], h[j], h[i].name),
         \A j \in i..(m - 1) : f[j].depth > 0, f[m].depth = 0
  PROVE  i + Cardinality({j \in i..n : f[j].depth > 0}) = m
<1> DEFINE T == {j \in m..n : f[j] = f[m]}
<1>1. m \in T /\ m \in Nat
  OBVIOUS
<1>2. ASSUME NEW j \in (m + 1)..n, j - 1 \in T PROVE j \in T
  <2>1. j \in (i + 1)..n /\ f[j - 1] = f[m]
    BY <1>2
  <2>2. f[j] = scanned(f[m], h[j], h[i].name)
    BY <2>1
  <2>3. f[j] = f[m]
    BY <2>2 DEF scanned
  <2> QED
    BY <2>3
<1>3. m..n \subseteq T
  <2>1. \A j \in (m + 1)..n : j - 1 \in T => j \in T
    BY <1>2
  <2> HIDE DEF T
  <2> QED
    BY <1>1, <2>1, RangeInduction
<1>4. {j \in i..n : f[j].depth > 0} = i..(m - 1)
  <2>1. \A j \in m..n : f[j].depth = 0
    BY <1>3
  <2> QED
    BY <2>1
<1>5. Cardinality(i..(m - 1)) = m - i
  <2>1. i \in Int /\ m - 1 \in Int /\ Cardinality(i..(m - 1)) = IF i > m - 1 THEN 0 ELSE (m - 1) - i + 1
    BY FS_Interval
  <2> QED
    BY <2>1
<1>6. i + (m - i) = m
  OBVIOUS
<1> QED
  BY <1>4, <1>5, <1>6
-----------------------------------------------------------------------------
\* The elements whose end the scan has yet to pass.

(* The parts of Levels. *)
LEMMA LevelFacts ==
  ASSUME NEW h, NEW d, NEW n \in Nat, Len(h) = n, Levels(h, d)
  PROVE  /\ \A k \in 0..n : d[k] \in Nat
         /\ \A k \in 1..n : /\ Opening(h, k) => d[k] = d[k - 1] + 1
                            /\ Closing(h, k) => d[k - 1] = d[k] + 1
                            /\ ~Opening(h, k) /\ ~Closing(h, k) => d[k] = d[k - 1]
         /\ d[0] = 0 /\ d[n] = 0
  BY DEF Levels

(* Every closing tag ends an element, and only one. *)
LEMMA OpenerExists ==
  ASSUME NEW h, NEW d, NEW n \in Nat, Len(h) = n, Levels(h, d),
         NEW i \in 1..n, NEW j \in (i + 1)..n, Closing(h, j), d[i - 1] <= d[j]
  PROVE  \E k \in i..(j - 1) : Opening(h, k) /\ Ends(d, k, j)
<1>1. /\ \A k \in 0..n : d[k] \in Nat
      /\ \A k \in 1..n : d[k] > d[k - 1] => Opening(h, k) /\ d[k] = d[k - 1] + 1
      /\ d[j - 1] = d[j] + 1
  <2>1. \A k \in 0..n : d[k] \in Nat
    BY LevelFacts
  <2>2. ASSUME NEW k \in 1..n, d[k] > d[k - 1] PROVE Opening(h, k) /\ d[k] = d[k - 1] + 1
    <3>1. k - 1 \in 0..n /\ k \in 0..n
      OBVIOUS
    <3>2. d[k - 1] \in Nat /\ d[k] \in Nat
      BY <2>1, <3>1
    <3>3. /\ Opening(h, k) => d[k] = d[k - 1] + 1
          /\ Closing(h, k) => d[k - 1] = d[k] + 1
          /\ ~Opening(h, k) /\ ~Closing(h, k) => d[k] = d[k - 1]
      BY LevelFacts
    <3> QED
      BY <2>2, <3>2, <3>3
  <2>3. d[j - 1] = d[j] + 1
    <3>1. j \in 1..n
      OBVIOUS
    <3> QED
      BY <3>1, LevelFacts
  <2> QED
    BY <2>1, <2>2, <2>3
<1> DEFINE S == {x \in (i - 1)..(j - 1) : d[x] <= d[j]}
<1>2. PICK x \in S : \A y \in S : y <= x
  <2>1. S \subseteq 0..n /\ i - 1 \in S
    OBVIOUS
  <2> HIDE DEF S
  <2> QED
    BY <2>1, Greatest
<1>3. x # j - 1
  BY <1>1, <1>2
<1>4. x \in Nat /\ x + 1 \in i..(j - 1) /\ d[x] <= d[j] /\ (x + 1) - 1 = x
  BY <1>2, <1>3
<1>5. \A q \in (x + 1)..(j - 1) : d[q] > d[j]
  <2> SUFFICES ASSUME NEW q \in (x + 1)..(j - 1) PROVE d[q] > d[j]
    OBVIOUS
  <2>1. q \in (i - 1)..(j - 1) /\ ~(q <= x) /\ q \in 0..n /\ j \in 0..n
    BY <1>4
  <2>2. d[q] \in Nat /\ d[j] \in Nat
    BY <1>1, <2>1
  <2> QED
    BY <1>2, <2>1, <2>2
<1>6. Opening(h, x + 1) /\ d[x] = d[j]
  <2>1. x + 1 \in 1..n /\ x \in 0..n /\ x + 1 \in 0..n /\ j \in 0..n /\ x + 1 \in (x + 1)..(j - 1)
    BY <1>4
  <2>2. d[x + 1] > d[j] /\ d[x] <= d[j] /\ d[x] \in Nat /\ d[x + 1] \in Nat /\ d[j] \in Nat
    BY <1>1, <1>4, <1>5, <2>1
  <2>3. d[x + 1] > d[x]
    BY <2>2
  <2>4. Opening(h, x + 1) /\ d[x + 1] = d[x] + 1
    BY <1>1, <1>4, <2>1, <2>3
  <2> QED
    BY <2>2, <2>4
<1>7. Ends(d, x + 1, j)
  <2>1. x + 1 < j
    BY <1>4
  <2> QED
    BY <1>4, <1>5, <1>6, <2>1 DEF Ends
<1> QED
  BY <1>4, <1>6, <1>7

(* A token ends one element only. *)
LEMMA OneOpener ==
  ASSUME NEW d, NEW j \in Nat, NEW k \in 1..j, NEW q \in 1..j, Ends(d, k, j), Ends(d, q, j),
         \A x \in 0..j : d[x] \in Nat
  PROVE  k = q
<1>1. ASSUME NEW x \in 1..j, NEW y \in 1..j, Ends(d, x, j), Ends(d, y, j), x < y PROVE FALSE
  <2>1. y < j /\ d[j] = d[y - 1] /\ d[j] = d[x - 1] /\ y - 1 \in x..(j - 1)
    BY <1>1 DEF Ends
  <2>2. d[y - 1] > d[x - 1] /\ d[y - 1] \in Nat /\ d[x - 1] \in Nat
    <3>1. \A z \in x..(j - 1) : d[z] > d[x - 1]
      BY <1>1 DEF Ends
    <3>2. y - 1 \in 0..j /\ x - 1 \in 0..j
      OBVIOUS
    <3> QED
      BY <2>1, <3>1, <3>2
  <2> QED
    BY <2>1, <2>2
<1>2. ~(k < q) /\ ~(q < k)
  BY <1>1
<1> QED
  BY <1>2

(* An element ends at one token only. *)
LEMMA OneEnd ==
  ASSUME NEW d, NEW n \in Nat, NEW i \in 1..n, NEW m \in 1..n, NEW q \in 1..n,
         Ends(d, i, m), Ends(d, i, q), \A x \in 0..n : d[x] \in Nat
  PROVE  m = q
<1>1. ASSUME NEW x \in 1..n, NEW y \in 1..n, Ends(d, i, x), Ends(d, i, y), x < y PROVE FALSE
  <2>1. x \in i..(y - 1) /\ d[x] = d[i - 1] /\ i - 1 \in 0..n
    BY <1>1 DEF Ends
  <2>2. d[x] > d[i - 1] /\ d[x] \in Nat /\ d[i - 1] \in Nat
    BY <1>1, <2>1 DEF Ends
  <2> QED
    BY <2>1, <2>2
<1>2. ~(m < q) /\ ~(q < m)
  BY <1>1
<1> QED
  BY <1>2

\* The elements named like the one at i that are open after j, those before i aside.
Pend(h, d, i, j) ==
  {k \in i..j : Opening(h, k) /\ h[k].name = h[i].name /\ \A q \in k..j : d[q] > d[k - 1]}

\* Where Pend is of use: between the tags at i and m of one element.
Inside(h, d, n, i, m) ==
  /\ Len(h) = n /\ Levels(h, d) /\ Matched(h, d) /\ i \in 1..n /\ m \in (i + 1)..n
  /\ Opening(h, i) /\ Ends(d, i, m)

(* The parts of Inside. *)
LEMMA InsideFacts ==
  ASSUME NEW h, NEW d, NEW n \in Nat, NEW i, NEW m, Inside(h, d, n, i, m)
  PROVE  /\ i \in 1..n /\ m \in (i + 1)..n /\ Len(h) = n /\ Levels(h, d)
         /\ \A k \in 0..n : d[k] \in Nat
         /\ \A k \in i..(m - 1) : d[k] > d[i - 1]
         /\ d[m] = d[i - 1] /\ Opening(h, i) /\ Closes(h[m], h[i].name)
         /\ \A k, j \in 1..n : Opening(h, k) /\ Ends(d, k, j) => Closes(h[j], h[k].name)
<1>1. /\ i \in 1..n /\ m \in (i + 1)..n /\ Len(h) = n /\ Levels(h, d) /\ Matched(h, d)
      /\ Opening(h, i) /\ Ends(d, i, m)
  BY DEF Inside
<1>2. m \in 1..n
  BY <1>1
<1>3. \A k \in 0..n : d[k] \in Nat
  BY <1>1, LevelFacts
<1> QED
  BY <1>1, <1>2, <1>3 DEF Ends, Matched

(* At first the element alone is pending; it is until it ends, and then none is. *)
LEMMA PendBegins ==
  ASSUME NEW h, NEW d, NEW n \in Nat, NEW i, NEW m, Inside(h, d, n, i, m)
  PROVE  /\ Pend(h, d, i, i) = {i} /\ Pend(h, d, i, m) = {}
         /\ \A j \in i..(m - 1) : i \in Pend(h, d, i, j)
<1>1. /\ i \in 1..n /\ m \in (i + 1)..n /\ Opening(h, i) /\ d[m] = d[i - 1]
      /\ \A k \in 0..n : d[k] \in Nat
      /\ \A k \in i..(m - 1) : d[k] > d[i - 1]
  <2>1. i \in 1..n /\ m \in (i + 1)..n
    BY InsideFacts, Zenon
  <2>2. Opening(h, i) /\ \A k \in 0..n : d[k] \in Nat
    BY InsideFacts, Zenon
  <2>3. \A k \in i..(m - 1) : d[k] > d[i - 1]
    BY InsideFacts, Zenon
  <2>4. d[m] = d[i - 1]
    BY DEF Inside, Ends
  <2> QED
    BY <2>1, <2>2, <2>3, <2>4
<1>2. \A j \in i..(m - 1) : i \in Pend(h, d, i, j)
  BY <1>1 DEF Pend
<1>3. Pend(h, d, i, i) = {i}
  <2>1. i..i = {i} /\ i \in i..(m - 1)
    BY <1>1
  <2> QED
    BY <1>2, <2>1 DEF Pend
<1>4. ASSUME NEW k \in Pend(h, d, i, m) PROVE FALSE
  <2>1. k \in i..m /\ d[m] > d[k - 1]
    BY <1>1 DEF Pend
  <2>2. k = i \/ k - 1 \in i..(m - 1)
    BY <1>1, <2>1
  <2>3. k - 1 \in 0..n /\ i - 1 \in 0..n
    BY <1>1, <2>1
  <2>4. d[k - 1] \in Nat /\ d[i - 1] \in Nat /\ (k = i \/ d[k - 1] > d[i - 1])
    BY <1>1, <2>2, <2>3
  <2> QED
    BY <1>1, <2>1, <2>4
<1> QED
  BY <1>2, <1>3, <1>4

(* What a token does to the elements that are open. *)
LEMMA PendOpens ==
  ASSUME NEW h, NEW d, NEW n \in Nat, NEW i, NEW m, Inside(h, d, n, i, m),
         NEW j \in (i + 1)..m, Opening(h, j), h[j].name = h[i].name
  PROVE  Pend(h, d, i, j) = Pend(h, d, i, j - 1) \cup {j} /\ j \notin Pend(h, d, i, j - 1)
<1>1. /\ i \in 1..n /\ m \in (i + 1)..n /\ j \in 1..n
      /\ \A k \in 0..n : d[k] \in Nat
      /\ d[j] = d[j - 1] + 1
  <2>1. /\ i \in 1..n /\ m \in (i + 1)..n /\ Levels(h, d) /\ Len(h) = n
        /\ \A k \in 0..n : d[k] \in Nat
    BY InsideFacts, Zenon
  <2>2. j \in 1..n
    BY <2>1
  <2> QED
    BY <2>1, <2>2, LevelFacts
<1>2. j \notin Pend(h, d, i, j - 1)
  BY <1>1 DEF Pend
<1>3. j \in Pend(h, d, i, j)
  <2>1. \A q \in j..j : q = j
    OBVIOUS
  <2>2. d[j] > d[j - 1]
    BY <1>1
  <2> QED
    BY <1>1, <2>1, <2>2 DEF Pend
<1>4. ASSUME NEW k \in i..(j - 1)
      PROVE  k \in Pend(h, d, i, j) <=> k \in Pend(h, d, i, j - 1)
  <2>1. k..j = (k..(j - 1)) \cup {j} /\ k \in i..j
    OBVIOUS
  <2>2. d[j - 1] > d[k - 1] => d[j] > d[k - 1]
    <3>1. k - 1 \in 0..n /\ j - 1 \in 0..n
      BY <1>1
    <3>2. d[k - 1] \in Nat /\ d[j - 1] \in Nat
      BY <1>1, <3>1
    <3> QED
      BY <1>1, <3>2
  <2>3. j - 1 \in k..(j - 1)
    BY <1>1
  <2> QED
    BY <2>1, <2>2, <2>3 DEF Pend
<1>5. \A k \in i..j : k = j \/ k \in i..(j - 1)
  BY <1>1
<1>6. Pend(h, d, i, j) \subseteq i..j /\ Pend(h, d, i, j - 1) \subseteq i..(j - 1)
  BY DEF Pend
<1> QED
  BY <1>2, <1>3, <1>4, <1>5, <1>6

(* Any other token leaves the pending elements as they are. *)
LEMMA PendStays ==
  ASSUME NEW h, NEW d, NEW n \in Nat, NEW i, NEW m, Inside(h, d, n, i, m),
         NEW j \in (i + 1)..m,
         h[j].name = h[i].name => ~Opening(h, j) /\ ~Closing(h, j)
  PROVE  Pend(h, d, i, j) = Pend(h, d, i, j - 1)
<1>a. /\ i \in 1..n /\ m \in (i + 1)..n /\ Levels(h, d) /\ Len(h) = n
      /\ \A k \in 0..n : d[k] \in Nat
      /\ \A k, q \in 1..n : Opening(h, k) /\ Ends(d, k, q) => Closes(h[q], h[k].name)
  BY InsideFacts, Zenon
<1>1. /\ i \in 1..n /\ m \in (i + 1)..n /\ j \in 1..n /\ Levels(h, d) /\ Len(h) = n
      /\ \A k \in 0..n : d[k] \in Nat
      /\ \A k, q \in 1..n : Opening(h, k) /\ Ends(d, k, q) => Closes(h[q], h[k].name)
  BY <1>a
<1>2. ASSUME NEW k \in i..(j - 1)
      PROVE  k \in Pend(h, d, i, j) <=> k \in Pend(h, d, i, j - 1)
  <2>1. k..j = (k..(j - 1)) \cup {j} /\ k \in i..j /\ j - 1 \in k..(j - 1)
    BY <1>1
  <2>2. k \in Pend(h, d, i, j - 1) => d[j] > d[k - 1]
    <3> SUFFICES ASSUME k \in Pend(h, d, i, j - 1), ~(d[j] > d[k - 1]) PROVE FALSE
      OBVIOUS
    <3>1. k \in 1..n /\ k - 1 \in 0..n /\ j - 1 \in 0..n /\ j \in 0..n
      BY <1>1
    <3>2. d[k - 1] \in Nat /\ d[j - 1] \in Nat /\ d[j] \in Nat
      BY <1>1, <3>1
    <3>3. /\ Opening(h, k) /\ h[k].name = h[i].name /\ \A q \in k..(j - 1) : d[q] > d[k - 1]
          /\ d[j - 1] > d[k - 1]
      BY <2>1 DEF Pend
    <3>4. /\ Opening(h, j) => d[j] = d[j - 1] + 1
          /\ Closing(h, j) => d[j - 1] = d[j] + 1
          /\ ~Opening(h, j) /\ ~Closing(h, j) => d[j] = d[j - 1]
      BY <1>1, LevelFacts
    <3>5. Closing(h, j) /\ d[j] = d[k - 1]
      BY <3>2, <3>3, <3>4
    <3>6. Ends(d, k, j)
      <4>1. k < j
        OBVIOUS
      <4> QED
        BY <3>3, <3>5, <4>1 DEF Ends
    <3>7. Closes(h[j], h[k].name)
      BY <1>1, <3>1, <3>3, <3>6
    <3> QED
      BY <3>3, <3>5, <3>7 DEF Closes
  <2> QED
    BY <2>1, <2>2 DEF Pend
<1>3. j \notin Pend(h, d, i, j)
  <2> SUFFICES ASSUME j \in Pend(h, d, i, j) PROVE FALSE
    OBVIOUS
  <2> QED
    BY DEF Pend
<1>4. \A k \in i..j : k = j \/ k \in i..(j - 1)
  BY <1>1
<1>5. Pend(h, d, i, j) \subseteq i..j /\ Pend(h, d, i, j - 1) \subseteq i..(j - 1)
  BY DEF Pend
<1> QED
  BY <1>2, <1>3, <1>4, <1>5

(* A closing tag of the name ends one pending element. *)
LEMMA PendCloses ==
  ASSUME NEW h, NEW d, NEW n \in Nat, NEW i, NEW m, Inside(h, d, n, i, m),
         NEW j \in (i + 1)..m, Closing(h, j), h[j].name = h[i].name
  PROVE  \E k \in Pend(h, d, i, j - 1) : Pend(h, d, i, j) = Pend(h, d, i, j - 1) \ {k}
<1>a. /\ i \in 1..n /\ m \in (i + 1)..n /\ Levels(h, d) /\ Len(h) = n
      /\ \A k \in 0..n : d[k] \in Nat
      /\ \A k \in i..(m - 1) : d[k] > d[i - 1]
      /\ \A k, q \in 1..n : Opening(h, k) /\ Ends(d, k, q) => Closes(h[q], h[k].name)
  BY InsideFacts, Zenon
<1>1. /\ i \in 1..n /\ m \in (i + 1)..n /\ j \in 1..n /\ Levels(h, d) /\ Len(h) = n
      /\ \A k \in 0..n : d[k] \in Nat
      /\ \A k \in i..(m - 1) : d[k] > d[i - 1]
      /\ d[m] = d[i - 1]
      /\ \A k, q \in 1..n : Opening(h, k) /\ Ends(d, k, q) => Closes(h[q], h[k].name)
  <2>1. i \in 1..n /\ m \in (i + 1)..n
    BY <1>a
  <2>2. j \in 1..n
    BY <2>1
  <2>3. d[m] = d[i - 1]
    BY DEF Inside, Ends
  <2> QED
    BY <1>a, <2>2, <2>3
<1>2. d[i - 1] <= d[j] /\ j \in (i + 1)..n
  <2>1. j = m \/ j \in i..(m - 1)
    BY <1>1
  <2>2. i - 1 \in 0..n /\ j \in 0..n
    BY <1>1
  <2>3. d[i - 1] \in Nat /\ d[j] \in Nat
    BY <1>1, <2>2
  <2>4. d[i - 1] <= d[j]
    BY <1>1, <2>1, <2>3
  <2> QED
    BY <1>1, <2>4
<1>3. PICK k \in i..(j - 1) : Opening(h, k) /\ Ends(d, k, j)
  BY <1>1, <1>2, OpenerExists
<1>4. k \in 1..n /\ h[k].name = h[i].name /\ d[j] = d[k - 1] /\ \A q \in k..(j - 1) : d[q] > d[k - 1]
  <2>1. k \in 1..n
    BY <1>1
  <2>2. Closes(h[j], h[k].name)
    BY <1>1, <1>3, <2>1
  <2> QED
    BY <1>3, <2>1, <2>2 DEF Closes, Ends
<1>5. k \in Pend(h, d, i, j - 1)
  BY <1>3, <1>4 DEF Pend
<1>6. k \notin Pend(h, d, i, j)
  <2> SUFFICES ASSUME k \in Pend(h, d, i, j) PROVE FALSE
    OBVIOUS
  <2>1. j \in k..j
    BY <1>1
  <2>2. d[j] > d[k - 1] /\ d[j] \in Nat
    BY <1>1, <2>1 DEF Pend
  <2> QED
    BY <1>4, <2>2
<1>7. ASSUME NEW x \in i..(j - 1), x # k
      PROVE  x \in Pend(h, d, i, j) <=> x \in Pend(h, d, i, j - 1)
  <2>1. x..j = (x..(j - 1)) \cup {j} /\ x \in i..j /\ j - 1 \in x..(j - 1)
    BY <1>1
  <2>2. x \in Pend(h, d, i, j - 1) => d[j] > d[x - 1]
    <3> SUFFICES ASSUME x \in Pend(h, d, i, j - 1), ~(d[j] > d[x - 1]) PROVE FALSE
      OBVIOUS
    <3>1. x \in 1..j /\ k \in 1..j /\ j \in Nat /\ x - 1 \in 0..n /\ j - 1 \in 0..n /\ j \in 0..n
      BY <1>1
    <3>2. d[x - 1] \in Nat /\ d[j - 1] \in Nat /\ d[j] \in Nat
      BY <1>1, <3>1
    <3>3. (\A q \in x..(j - 1) : d[q] > d[x - 1]) /\ d[j - 1] > d[x - 1]
      BY <2>1 DEF Pend
    <3>4. d[j - 1] = d[j] + 1
      BY <1>1, LevelFacts
    <3>5. d[j] = d[x - 1]
      BY <3>2, <3>3, <3>4
    <3>6. Ends(d, x, j)
      <4>1. x < j
        OBVIOUS
      <4> QED
        BY <3>3, <3>5, <4>1 DEF Ends
    <3>7. \A y \in 0..j : d[y] \in Nat
      BY <1>1
    <3> QED
      BY <1>3, <1>7, <3>1, <3>6, <3>7, OneOpener
  <2> QED
    BY <2>1, <2>2 DEF Pend
<1>8. j \notin Pend(h, d, i, j)
  BY DEF Pend, Opening, Closing
<1>9. \A x \in i..j : x = j \/ x \in i..(j - 1)
  BY <1>1
<1>10. Pend(h, d, i, j) \subseteq i..j /\ Pend(h, d, i, j - 1) \subseteq i..(j - 1)
  BY DEF Pend
<1>11. Pend(h, d, i, j) = Pend(h, d, i, j - 1) \ {k}
  BY <1>6, <1>7, <1>8, <1>9, <1>10
<1> QED
  BY <1>5, <1>11
-----------------------------------------------------------------------------
\* The scan keeps their number, and knows what raw text it is in.

\* The raw state of a scan that began at i, after the token j.
Idle(h, i, j) == \A a \in i..j : RawOpen(h[a]) => \E b \in (a + 1)..j : Closes(h[b], h[a].name)
Skips(h, a, j) == RawOpen(h[a]) /\ \A b \in (a + 1)..j : ~Closes(h[b], h[a].name)
RawState(h, i, j, r) ==
  (r = None /\ Idle(h, i, j)) \/ \E a \in i..j : Skips(h, a, j) /\ r = h[a].name

(* A scan that begins outside raw text and skips none is outside it. *)
LEMMA IdleOutside ==
  ASSUME NEW h, NEW n \in Nat, NEW i \in 1..n, NEW j \in (i + 1)..n, h[i].kind = "open",
         ~InRaw(h, i), Idle(h, i, j - 1)
  PROVE  ~InRaw(h, j)
<1> SUFFICES ASSUME NEW a \in 1..(j - 1), RawOpen(h[a]), \A b \in (a + 1)..j : ~Closes(h[b], h[a].name)
             PROVE  FALSE
  BY RawDef
<1>1. a >= i
  <2>1. j \in i..n
    OBVIOUS
  <2> QED
    BY <2>1, RawAfter
<1>2. a \in i..(j - 1)
  BY <1>1
<1>3. PICK b \in (a + 1)..(j - 1) : Closes(h[b], h[a].name)
  BY <1>2 DEF Idle
<1>4. b \in (a + 1)..j
  OBVIOUS
<1> QED
  BY <1>3, <1>4

(* The end of the raw text a is the end of all raw text. *)
LEMMA SkipsEnd ==
  ASSUME NEW h, PlainHtml(h), WellNested(h), NEW n \in Nat, Len(h) = n, NEW i \in 1..n,
         NEW j \in (i + 1)..n, NEW a \in i..(j - 1), Skips(h, a, j - 1), Closes(h[j], h[a].name)
  PROVE  Idle(h, i, j)
<1> SUFFICES ASSUME NEW c \in i..j, RawOpen(h[c]) PROVE \E b \in (c + 1)..j : Closes(h[b], h[c].name)
  BY DEF Idle
<1>1. c # j
  BY DEF RawOpen, Closes
<1>2. CASE c = a
  <2>1. j \in (c + 1)..j
    BY <1>2
  <2> QED
    BY <1>2, <2>1
<1>3. c \in 1..Len(h) /\ a \in 1..Len(h) /\ RawOpen(h[a])
  BY DEF Skips
<1>4. CASE c < a
  <2>1. ~InRaw(h, a)
    BY <1>3, RawOpens
  <2>2. c \in 1..(a - 1)
    BY <1>4
  <2>3. PICK b \in (c + 1)..a : Closes(h[b], h[c].name)
    BY <2>1, <2>2, RawDef
  <2>4. b \in (c + 1)..j
    OBVIOUS
  <2> QED
    BY <2>3, <2>4
<1>5. CASE a < c
  <2>1. ~InRaw(h, c)
    BY <1>3, RawOpens
  <2>2. a \in 1..(c - 1) /\ \A b \in (a + 1)..c : b \in (a + 1)..(j - 1)
    BY <1>1, <1>5
  <2>3. \A b \in (a + 1)..c : ~Closes(h[b], h[a].name)
    BY <2>2 DEF Skips
  <2> QED
    BY <1>3, <2>1, <2>2, <2>3, RawDef
<1> QED
  BY <1>2, <1>4, <1>5

(* Raw text goes on until its closing tag. *)
LEMMA SkipsOn ==
  ASSUME NEW h, NEW n \in Nat, NEW i \in 1..n, NEW j \in (i + 1)..n, NEW a \in i..(j - 1),
         Skips(h, a, j - 1), ~Closes(h[j], h[a].name)
  PROVE  a \in i..j /\ Skips(h, a, j) /\ InRaw(h, j)
<1>1. \A b \in (a + 1)..j : ~Closes(h[b], h[a].name)
  <2>1. \A b \in (a + 1)..j : b = j \/ b \in (a + 1)..(j - 1)
    OBVIOUS
  <2> QED
    BY <2>1 DEF Skips
<1>2. a \in 1..(j - 1) /\ RawOpen(h[a])
  BY DEF Skips
<1> QED
  BY <1>1, <1>2, RawDef DEF Skips

(* A scan that skips nothing goes on so unless raw text begins. *)
LEMMA IdleOn ==
  ASSUME NEW h, NEW i \in Nat, NEW j \in Nat, j > i, Idle(h, i, j - 1), ~RawOpen(h[j])
  PROVE  Idle(h, i, j)
<1> SUFFICES ASSUME NEW a \in i..j, RawOpen(h[a]) PROVE \E b \in (a + 1)..j : Closes(h[b], h[a].name)
  BY DEF Idle
<1>1. a \in i..(j - 1)
  OBVIOUS
<1>2. PICK b \in (a + 1)..(j - 1) : Closes(h[b], h[a].name)
  BY <1>1 DEF Idle
<1>3. b \in (a + 1)..j
  OBVIOUS
<1> QED
  BY <1>2, <1>3

(* The pending elements can be counted. *)
LEMMA PendFinite ==
  ASSUME NEW h, NEW d, NEW i \in Nat, NEW j \in Nat
  PROVE  IsFiniteSet(Pend(h, d, i, j)) /\ Cardinality(Pend(h, d, i, j)) \in Nat
<1>1. Pend(h, d, i, j) \subseteq i..j
  BY DEF Pend
<1>2. IsFiniteSet(i..j)
  BY FS_Interval
<1> QED
  BY <1>1, <1>2, FS_Subset, FS_CardinalityType

(* While an element outside raw text is open the scan's depth is the number of those of its
   name that are. *)
LEMMA ScanStep ==
  ASSUME NEW h, PlainHtml(h), WellNested(h), NEW d, NEW n \in Nat, NEW i, NEW m,
         Inside(h, d, n, i, m), h[i].name \notin rawTextTags, NEW j \in (i + 1)..m,
         NEW r, RawState(h, i, j - 1, r)
  PROVE  \E t : /\ RawState(h, i, j, t)
                /\ scanned(At(Cardinality(Pend(h, d, i, j - 1)), r), h[j], h[i].name)
                     = At(Cardinality(Pend(h, d, i, j)), t)
<1> DEFINE tag == h[i].name
           e == h[j]
           P == Pend(h, d, i, j - 1)
           Q == Pend(h, d, i, j)
           p == Cardinality(P)
           q == Cardinality(Q)
<1>1. i \in 1..n /\ m \in (i + 1)..n /\ Opening(h, i) /\ Len(h) = n
  BY InsideFacts, Zenon
<1>2. j \in (i + 1)..n /\ j \in 1..n /\ j - 1 \in Nat /\ j \in Nat /\ i \in Nat /\ j - 1 \in i..(m - 1)
  BY <1>1
<1>3. h[i].kind = "open" /\ ~InRaw(h, i) /\ tag \notin voidTags
  BY <1>1 DEF Opening, IsVoid
<1>4. Plain(e)
  BY <1>1, <1>2, PlainParts
<1>5. e.slashes = 0
  BY <1>4 DEF Plain
<1>6. IsFiniteSet(P) /\ p \in Nat /\ IsFiniteSet(Q) /\ q \in Nat
  BY <1>2, PendFinite
<1>7. p # 0
  <2>1. i \in P
    BY <1>2, PendBegins
  <2> HIDE DEF P
  <2> QED
    BY <1>6, <2>1, FS_EmptySet
<1>8. e.name = tag /\ Opening(h, j) => q = p + 1
  <2> SUFFICES ASSUME e.name = tag, Opening(h, j) PROVE q = p + 1
    OBVIOUS
  <2>1. Q = P \cup {j} /\ j \notin P
    BY PendOpens
  <2> HIDE DEF P, Q
  <2> QED
    BY <1>6, <2>1, FS_AddElement
<1>9. e.name = tag /\ Closing(h, j) => q = p - 1
  <2> SUFFICES ASSUME e.name = tag, Closing(h, j) PROVE q = p - 1
    OBVIOUS
  <2>1. \E k \in P : Q = P \ {k}
    BY PendCloses
  <2> HIDE DEF P, Q
  <2>2. PICK k \in P : Q = P \ {k}
    BY <2>1
  <2> QED
    BY <1>6, <2>2, FS_RemoveElement
<1>10. (e.name = tag => ~Opening(h, j) /\ ~Closing(h, j)) => q = p
  BY PendStays
<1>11. scanned(At(p, r), e, tag) =
           IF r # None THEN IF Closes(e, r) THEN At(p, None) ELSE At(p, r)
           ELSE IF Closes(e, tag) THEN At(p - 1, r)
           ELSE IF Opens(e, tag) THEN At(p + 1, r)
           ELSE IF RawOpen(e) /\ e.name # tag /\ e.slashes = 0 THEN At(p, e.name)
           ELSE At(p, r)
  BY <1>7, ScannedAt
<1> HIDE DEF p, q, P, Q, e, tag
<1> SUFFICES \E t : RawState(h, i, j, t) /\ scanned(At(p, r), e, tag) = At(q, t)
  BY DEF p, q, P, Q, e, tag
<1>12. CASE r = None /\ Idle(h, i, j - 1)
  <2>1. ~InRaw(h, j)
    BY <1>1, <1>2, <1>3, <1>12, IdleOutside
  <2>2. Closes(e, tag) => Closing(h, j) /\ e.name = tag
    BY <2>1 DEF Closes, Closing, e
  <2>3. Opens(e, tag) => Opening(h, j) /\ e.name = tag
    BY <1>3, <1>5, <2>1 DEF Opens, Opening, IsVoid, e
  <2>4. ~Closes(e, tag) /\ ~Opens(e, tag) => (e.name = tag => ~Opening(h, j) /\ ~Closing(h, j))
    BY DEF Closes, Opens, Opening, Closing, e
  <2>5. CASE RawOpen(e)
    <3>1. e.name # tag
      BY <2>5 DEF RawOpen, tag
    <3>2. ~Closes(e, tag) /\ ~Opens(e, tag)
      BY <3>1 DEF Closes, Opens
    <3>3. scanned(At(p, r), e, tag) = At(p, e.name) /\ q = p
      BY <1>5, <1>10, <1>11, <1>12, <2>4, <2>5, <3>1, <3>2
    <3>4. Skips(h, j, j) /\ j \in i..j
      BY <1>1, <1>2, <2>5 DEF Skips, e
    <3>5. RawState(h, i, j, e.name)
      BY <3>4 DEF RawState, e
    <3> QED
      BY <3>3, <3>5
  <2>6. CASE ~RawOpen(e)
    <3>1. Idle(h, i, j)
      BY <1>2, <1>12, <2>6, IdleOn DEF e
    <3>2. RawState(h, i, j, None)
      BY <3>1 DEF RawState
    <3>3. scanned(At(p, r), e, tag) = At(q, None)
      BY <1>8, <1>9, <1>10, <1>11, <1>12, <2>2, <2>3, <2>4, <2>6
    <3> QED
      BY <3>2, <3>3
  <2> QED
    BY <2>5, <2>6
<1>13. CASE \E a \in i..(j - 1) : Skips(h, a, j - 1) /\ r = h[a].name
  <2>1. PICK a \in i..(j - 1) : Skips(h, a, j - 1) /\ r = h[a].name
    BY <1>13
  <2>2. r \in rawTextTags /\ r # tag /\ r # None
    BY <2>1, RawTags DEF Skips, RawOpen, tag
  <2>3. CASE Closes(e, r)
    <3>1. Idle(h, i, j)
      BY <1>1, <1>2, <2>1, <2>3, SkipsEnd DEF e
    <3>2. RawState(h, i, j, None)
      BY <3>1 DEF RawState
    <3>3. e.name # tag
      BY <2>2, <2>3 DEF Closes
    <3>4. scanned(At(p, r), e, tag) = At(q, None)
      BY <1>10, <1>11, <2>2, <2>3, <3>3
    <3> QED
      BY <3>2, <3>4
  <2>4. CASE ~Closes(e, r)
    <3>1. a \in i..j /\ Skips(h, a, j) /\ InRaw(h, j)
      BY <1>1, <1>2, <2>1, <2>4, SkipsOn DEF e
    <3>2. RawState(h, i, j, r)
      BY <2>1, <3>1 DEF RawState
    <3>3. ~Opening(h, j) /\ ~Closing(h, j)
      BY <3>1 DEF Opening, Closing
    <3>4. scanned(At(p, r), e, tag) = At(q, r)
      BY <1>10, <1>11, <2>2, <2>4, <3>3
    <3> QED
      BY <3>2, <3>4
  <2> QED
    BY <2>3, <2>4
<1> QED
  BY <1>12, <1>13 DEF RawState
-----------------------------------------------------------------------------
\* findCloseEnd finds the tag that ends the element.

\* HTML with the same tags, stamps and other attributes aside.
SameTag(e, f) ==
  /\ e.kind = f.kind /\ (f.kind = "open" => e.slashes = f.slashes)
  /\ f.kind \in {"open", "close"} => e.name = f.name
SameTags(g, h) == Len(g) = Len(h) /\ \A k \in 1..Len(h) : SameTag(g[k], h[k])

(* The scan sees no more of a token than its tag. *)
LEMMA ScannedSame ==
  ASSUME NEW e, NEW f, SameTag(e, f), NEW s, NEW tag
  PROVE  scanned(s, e, tag) = scanned(s, f, tag)
<1>1. /\ \A x : Closes(e, x) <=> Closes(f, x)
      /\ Opens(e, tag) <=> Opens(f, tag)
      /\ e.kind = "open" /\ e.name \in rawTextTags \ {tag} /\ e.slashes = 0
           <=> f.kind = "open" /\ f.name \in rawTextTags \ {tag} /\ f.slashes = 0
      /\ f.kind = "open" => e.name = f.name
  BY DEF SameTag, Closes, Opens
<1> DEFINE B == [s EXCEPT !.depth = @ - 1]
           C == [s EXCEPT !.depth = @ + 1]
           R(x) == [s EXCEPT !.raw = x]
           Arm(x) == x.kind = "open" /\ x.name \in rawTextTags \ {tag} /\ x.slashes = 0
           Is(x) == IF s.depth = 0 THEN s
                    ELSE IF s.raw # None THEN IF Closes(x, s.raw) THEN R(None) ELSE s
                    ELSE CASE Closes(x, tag) -> B
                           [] Opens(x, tag) -> C
                           [] Arm(x) -> R(x.name)
                           [] OTHER -> s
<1>2. \A x : scanned(s, x, tag) = Is(x)
  BY DEF scanned
<1>3. (Arm(e) <=> Arm(f)) /\ (Arm(e) => e.name = f.name)
  BY <1>1
<1>4. ~(Arm(f) /\ Closes(f, tag)) /\ ~(Arm(f) /\ Opens(f, tag)) /\ ~(Opens(f, tag) /\ Closes(f, tag))
  BY DEF Closes, Opens
<1> HIDE DEF B, C, R, Arm
<1>5. Is(e) = Is(f)
  BY <1>1, <1>3, <1>4
<1> QED
  BY <1>2, <1>5

(* findCloseEnd finds the end of an element that is not raw text. *)
LEMMA FindNested ==
  ASSUME NEW h, PlainHtml(h), WellNested(h), NEW d, NEW n \in Nat, NEW i, NEW m,
         Inside(h, d, n, i, m), h[i].name \notin rawTextTags, NEW g, SameTags(g, h)
  PROVE  findCloseEnd(g, i) = m
<1> DEFINE P(j) == Cardinality(Pend(h, d, i, j))
           Good(j, s) == \E r : RawState(h, i, j, r) /\ s = At(P(j), r)
<1>1. i \in 1..n /\ m \in (i + 1)..n /\ Opening(h, i) /\ Len(h) = n
  BY InsideFacts, Zenon
<1>2. Len(g) = n /\ g[i].name = h[i].name /\ \A j \in 1..n : SameTag(g[j], h[j])
  BY <1>1 DEF SameTags, SameTag, Opening
<1>3. PICK f \in [i..n -> States] :
        /\ f[i] = At(1, None)
        /\ \A j \in (i + 1)..n : f[j] = scanned(f[j - 1], g[j], g[i].name)
        /\ findCloseEnd(g, i) =
             LET end == i + Cardinality({j \in i..n : f[j].depth > 0})
             IN  IF end <= n THEN end ELSE i
  BY <1>1, <1>2, ScanLoop
<1>4. Good(i, f[i])
  <2>1. P(i) = 1
    <3>1. Pend(h, d, i, i) = {i}
      BY PendBegins
    <3> QED
      BY <3>1, FS_Singleton
  <2>2. RawState(h, i, i, None)
    BY <1>1 DEF RawState, Idle, RawOpen
  <2> HIDE DEF P
  <2> QED
    BY <1>3, <2>1, <2>2
<1> DEFINE T == {j \in i..m : Good(j, f[j])}
<1>5. ASSUME NEW j \in (i + 1)..m, j - 1 \in T PROVE j \in T
  <2>1. PICK r : RawState(h, i, j - 1, r) /\ f[j - 1] = At(P(j - 1), r)
    BY <1>5
  <2>2. PICK t : RawState(h, i, j, t) /\ scanned(At(P(j - 1), r), h[j], h[i].name) = At(P(j), t)
    BY <2>1, ScanStep
  <2>3. j \in (i + 1)..n /\ j \in 1..n
    BY <1>1
  <2>4. f[j] = scanned(f[j - 1], h[j], h[i].name)
    BY <1>2, <1>3, <2>3, ScannedSame
  <2> HIDE DEF P
  <2>5. Good(j, f[j])
    BY <2>1, <2>2, <2>4
  <2> QED
    BY <1>1, <2>5
<1>6. i..m \subseteq T
  <2>1. i \in T
    BY <1>1, <1>4
  <2>2. \A j \in (i + 1)..m : j - 1 \in T => j \in T
    BY <1>5
  <2>3. i \in Nat /\ m \in Nat
    BY <1>1
  <2> HIDE DEF T
  <2> QED
    BY <2>1, <2>2, <2>3, RangeInduction
<1>7. ASSUME NEW j \in i..m PROVE f[j].depth = P(j)
  <2>1. Good(j, f[j])
    BY <1>6
  <2> QED
    BY <2>1, AtFields
<1>8. ASSUME NEW j \in i..(m - 1) PROVE f[j].depth > 0
  <2>1. j \in i..m /\ j \in Nat /\ i \in Nat
    BY <1>1
  <2>2. i \in Pend(h, d, i, j)
    BY PendBegins
  <2>3. IsFiniteSet(Pend(h, d, i, j)) /\ P(j) \in Nat
    BY <2>1, PendFinite
  <2>4. P(j) # 0
    BY <2>2, <2>3, FS_EmptySet
  <2> QED
    BY <1>7, <2>1, <2>3, <2>4
<1>9. f[m].depth = 0
  <2>1. Pend(h, d, i, m) = {}
    BY PendBegins
  <2>2. P(m) = 0 /\ m \in i..m
    BY <1>1, <2>1, FS_EmptySet
  <2> QED
    BY <1>7, <2>2
<1>10. i + Cardinality({j \in i..n : f[j].depth > 0}) = m
  BY <1>1, <1>2, <1>3, <1>8, <1>9, ScanEnds
<1> QED
  BY <1>1, <1>3, <1>10

(* A script ends at the first closing tag of its name. *)
LEMMA RawBody ==
  ASSUME NEW h, PlainHtml(h), WellNested(h), NEW d, NEW n \in Nat, NEW i, NEW m,
         Inside(h, d, n, i, m), h[i].name \in rawTextTags, NEW j \in (i + 1)..(m - 1)
  PROVE  ~Closes(h[j], h[i].name) /\ ~RawOpen(h[j])
<1>1. i \in 1..n /\ m \in (i + 1)..n /\ Opening(h, i) /\ Len(h) = n /\ Levels(h, d)
  BY InsideFacts, Zenon
<1>2. \A k \in i..(m - 1) : d[k] > d[i - 1]
  BY InsideFacts, Zenon
<1>3. \A k \in 0..n : d[k] \in Nat
  BY InsideFacts, Zenon
<1>4. RawOpen(h[i]) /\ h[i].kind = "open" /\ ~InRaw(h, i)
  BY <1>1 DEF RawOpen, Opening
<1> DEFINE T == {k \in i..(m - 1) : Skips(h, i, k)}
<1>5. ASSUME NEW k \in (i + 1)..(m - 1), k - 1 \in T PROVE k \in T
  <2>1. k \in (i + 1)..n /\ k \in 1..n /\ i \in i..(k - 1) /\ Skips(h, i, k - 1) /\ k \in i..(m - 1)
    BY <1>1, <1>5
  <2>2. ~Closes(h[k], h[i].name)
    <3> SUFFICES ASSUME Closes(h[k], h[i].name) PROVE FALSE
      OBVIOUS
    <3>1. Idle(h, i, k)
      BY <1>1, <2>1, SkipsEnd
    <3>2. ASSUME NEW c \in 1..(k - 1), RawOpen(h[c]), \A b \in (c + 1)..k : ~Closes(h[b], h[c].name)
          PROVE  FALSE
      <4>1. k \in i..n
        BY <2>1
      <4>2. c >= i
        BY <1>1, <1>4, <3>2, <4>1, RawAfter
      <4>3. c \in i..k
        BY <4>2
      <4>4. \E b \in (c + 1)..k : Closes(h[b], h[c].name)
        BY <3>1, <3>2, <4>3 DEF Idle
      <4> QED
        BY <3>2, <4>4
    <3>3. ~InRaw(h, k)
      BY <3>2, RawDef
    <3>4. Closing(h, k)
      BY <3>3 DEF Closing, Closes
    <3>5. d[k - 1] = d[k] + 1
      BY <1>1, <2>1, <3>4, LevelFacts
    <3>6. d[k - 1] = d[i]
      <4>1. k - 1 \in i..n /\ k - 1 \in i..(k - 1)
        BY <1>1, <2>1
      <4>2. \A b \in (i + 1)..(k - 1) : ~Closes(h[b], h[i].name)
        BY <2>1 DEF Skips
      <4> DEFINE x == k - 1
      <4>3. x \in i..n /\ x \in i..x /\ \A b \in (i + 1)..x : ~Closes(h[b], h[i].name)
        BY <4>1, <4>2
      <4> HIDE DEF x
      <4>4. \A y \in i..x : d[y] = d[i] /\ (y # i => InRaw(h, y))
        BY <1>1, <1>4, <4>3, RawLevel
      <4>5. d[x] = d[i]
        BY <4>3, <4>4
      <4> QED
        BY <4>5 DEF x
    <3>7. d[i] = d[i - 1] + 1
      BY <1>1, LevelFacts
    <3>8. i - 1 \in 0..n /\ k \in 0..n /\ k \in i..(m - 1)
      BY <1>1, <2>1
    <3>9. d[i - 1] \in Nat /\ d[k] \in Nat /\ d[k] > d[i - 1]
      BY <1>2, <1>3, <3>8
    <3> QED
      BY <3>5, <3>6, <3>7, <3>9
  <2>3. Skips(h, i, k)
    BY <1>1, <2>1, <2>2, SkipsOn
  <2> QED
    BY <2>1, <2>3
<1>6. i..(m - 1) \subseteq T
  <2>1. i \in T
    BY <1>1, <1>4 DEF Skips
  <2>2. \A k \in (i + 1)..(m - 1) : k - 1 \in T => k \in T
    BY <1>5
  <2>3. i \in Nat /\ m - 1 \in Nat
    BY <1>1
  <2> HIDE DEF T
  <2> QED
    BY <2>1, <2>2, <2>3, RangeInduction
<1>7. Skips(h, i, j) /\ j \in 1..n /\ i \in 1..(j - 1) /\ j \in (i + 1)..j
  <2>1. j \in i..(m - 1) /\ j \in 1..n /\ i \in 1..(j - 1) /\ j \in (i + 1)..j
    BY <1>1
  <2> QED
    BY <1>6, <2>1
<1>8. ~Closes(h[j], h[i].name) /\ InRaw(h, j)
  BY <1>7, RawDef DEF Skips
<1>9. ~RawOpen(h[j])
  BY <1>1, <1>7, <1>8, RawOpens
<1> QED
  BY <1>8, <1>9

(* findCloseEnd finds the end of a raw-text element. *)
LEMMA FindRaw ==
  ASSUME NEW h, PlainHtml(h), WellNested(h), NEW d, NEW n \in Nat, NEW i, NEW m,
         Inside(h, d, n, i, m), h[i].name \in rawTextTags, NEW g, SameTags(g, h)
  PROVE  findCloseEnd(g, i) = m
<1> DEFINE tag == h[i].name
<1>1. i \in 1..n /\ m \in (i + 1)..n /\ Opening(h, i) /\ Len(h) = n /\ Closes(h[m], h[i].name)
  BY InsideFacts, Zenon
<1>2. Len(g) = n /\ g[i].name = h[i].name /\ \A j \in 1..n : SameTag(g[j], h[j])
  BY <1>1 DEF SameTags, SameTag, Opening
<1>3. PICK f \in [i..n -> States] :
        /\ f[i] = At(1, None)
        /\ \A j \in (i + 1)..n : f[j] = scanned(f[j - 1], g[j], g[i].name)
        /\ findCloseEnd(g, i) =
             LET end == i + Cardinality({j \in i..n : f[j].depth > 0})
             IN  IF end <= n THEN end ELSE i
  BY <1>1, <1>2, ScanLoop
<1>4. ASSUME NEW j \in (i + 1)..n PROVE f[j] = scanned(f[j - 1], h[j], tag)
  <2>1. j \in 1..n
    BY <1>1
  <2> QED
    BY <1>2, <1>3, <2>1, ScannedSame
<1> DEFINE T == {j \in i..(m - 1) : f[j] = At(1, None)}
<1>5. ASSUME NEW j \in (i + 1)..(m - 1), j - 1 \in T PROVE j \in T
  <2>1. f[j] = scanned(At(1, None), h[j], tag)
    <3>1. j \in (i + 1)..n
      BY <1>1
    <3> QED
      BY <1>4, <1>5, <3>1
  <2>2. ~Closes(h[j], tag) /\ ~RawOpen(h[j])
    BY RawBody
  <2>3. ~Opens(h[j], tag)
    BY <2>2 DEF Opens, RawOpen
  <2>4. f[j] = At(1, None)
    BY <2>1, <2>2, <2>3, ScannedAt
  <2> QED
    BY <1>1, <2>4
<1>6. i..(m - 1) \subseteq T
  <2>1. i \in T
    BY <1>1, <1>3
  <2>2. \A k \in (i + 1)..(m - 1) : k - 1 \in T => k \in T
    BY <1>5
  <2>3. i \in Nat /\ m - 1 \in Nat
    BY <1>1
  <2> HIDE DEF T
  <2> QED
    BY <2>1, <2>2, <2>3, RangeInduction
<1>7. ASSUME NEW j \in i..(m - 1) PROVE f[j].depth > 0
  <2>1. f[j] = At(1, None)
    BY <1>6
  <2>2. f[j].depth = 1
    BY <2>1, AtFields
  <2> QED
    BY <2>2
<1>8. f[m].depth = 0
  <2>1. m - 1 \in i..(m - 1) /\ m \in (i + 1)..n
    BY <1>1
  <2>2. f[m] = scanned(At(1, None), h[m], tag)
    BY <1>4, <1>6, <2>1
  <2>3. f[m] = At(1 - 1, None)
    BY <1>1, <2>2, ScannedAt
  <2>4. f[m].depth = 1 - 1
    BY <2>3, AtFields
  <2> QED
    BY <2>4
<1>9. i + Cardinality({j \in i..n : f[j].depth > 0}) = m
  BY <1>1, <1>2, <1>3, <1>7, <1>8, ScanEnds
<1> QED
  BY <1>1, <1>3, <1>9

(* findCloseEnd finds the closing tag, in the HTML and without its stamps. *)
LEMMA FindIs ==
  ASSUME NEW h, PlainHtml(h), WellNested(h), NEW d, NEW n \in Nat, NEW i, NEW m,
         Inside(h, d, n, i, m), NEW g, SameTags(g, h)
  PROVE  findCloseEnd(g, i) = m
  BY FindNested, FindRaw
-----------------------------------------------------------------------------
\* What lies between the tags, without HTML comments.

(* An artifact with content is not in raw text. *)
LEMMA ArtifactOpening ==
  ASSUME NEW h, PlainHtml(h), WellNested(h), NEW i \in Artifacts(h), ~IsVoid(h[i])
  PROVE  i \in 1..Len(h) /\ Opening(h, i)
<1>1. i \in 1..Len(h) /\ h[i].kind = "open"
  BY PlainParts DEF Artifacts
<1>2. ~InRaw(h, i)
  BY <1>1 DEF WellNested, Matters
<1> QED
  BY <1>1, <1>2 DEF Opening

(* An artifact with content has its closing tag. *)
LEMMA ArtifactInside ==
  ASSUME NEW h, PlainHtml(h), WellNested(h), NEW d, Levels(h, d), Matched(h, d),
         NEW n \in Nat, Len(h) = n, NEW i \in Artifacts(h), ~IsVoid(h[i])
  PROVE  \E m \in (i + 1)..n : Inside(h, d, n, i, m)
<1>1. i \in 1..n /\ Opening(h, i)
  BY ArtifactOpening
<1>2. PICK m \in (i + 1)..n : Ends(d, i, m) /\ Closing(h, m)
  BY <1>1, EndExists
<1> QED
  BY <1>1, <1>2 DEF Inside

\* f[k] is what withoutComments has of the first k tokens of s.
Keeps(f, s, n) ==
  /\ withoutComments(s) = f[n] /\ f[0] = <<>>
  /\ \A k \in 1..n : f[k] = IF s[k].kind = "comment" THEN f[k - 1] ELSE Append(f[k - 1], s[k])

(* withoutComments as a loop. *)
LEMMA CommentLoop ==
  ASSUME NEW S, NEW s \in Seq(S), NEW n, Len(s) = n
  PROVE  \E f \in [0..n -> Seq(S)] : Keeps(f, s, n)
<1> DEFINE Q == Seq(S)
           Step(k, t) == IF s[k].kind = "comment" THEN t ELSE Append(t, s[k])
           kept[k \in 0..n] == IF k = 0 THEN <<>> ELSE Step(k, kept[k - 1])
           step == [k \in 1..n |-> [t \in Q |-> Step(k, t)]]
<1>1. withoutComments(s) = kept[n]
  BY DEF withoutComments
<1>2. n \in Nat /\ <<>> \in Q /\ \A k \in 1..n, t \in Q : Step(k, t) \in Q
  <2>1. n \in Nat /\ <<>> \in Q /\ \A k \in 1..n : s[k] \in S
    BY LenProperties, EmptySeq, ElementOfSeq
  <2>2. \A t \in Q, x \in S : Append(t, x) \in Q
    BY AppendProperties
  <2> QED
    BY <2>1, <2>2
<1> HIDE DEF Q, Step
<1>3. /\ step \in [1..n -> [Q -> Q]]
      /\ \A k \in 1..n, t \in Q : step[k][t] = Step(k, t)
  BY <1>2
<1> HIDE DEF step
<1>4. PICK g \in [0..n -> Q] :
        g[0] = <<>> /\ \A k \in 1..n : g[k] = step[k][g[k - 1]]
  <2>1. n \in Nat /\ <<>> \in Q /\ step \in [1..n -> [Q -> Q]]
    BY <1>2, <1>3
  <2>2. \E g \in [0..n -> Q] : Solves(g, n, <<>>, step)
    BY <2>1, Recursion
  <2> QED
    BY <2>2 DEF Solves
<1>5. \A k \in 1..n : g[k - 1] \in Q /\ g[k] = Step(k, g[k - 1])
  <2>1. \A k \in 1..n : k - 1 \in 0..n
    BY <1>2
  <2> QED
    BY <2>1, <1>3, <1>4
<1>6. g = [k \in 0..n |-> IF k = 0 THEN <<>> ELSE Step(k, g[k - 1])]
  BY <1>2, <1>4, <1>5
<1>7. kept = [k \in 0..n |-> IF k = 0 THEN <<>> ELSE Step(k, kept[k - 1])]
  BY <1>6
<1> HIDE DEF kept
<1>8. kept[0] = <<>> /\ \A k \in 1..n : kept[k] = Step(k, kept[k - 1])
  BY <1>2, <1>7
<1>9. kept = g
  <2> DEFINE T == {k \in 0..n : kept[k] = g[k]}
  <2>1. 0 \in T /\ \A k \in 1..n : k - 1 \in T => k \in T
    BY <1>2, <1>4, <1>5, <1>8
  <2>2. 0..n \subseteq T
    <3> HIDE DEF T
    <3> QED
      BY <1>2, <2>1, SetInduction
  <2>3. kept = [k \in 0..n |-> g[k]]
    BY <1>7, <2>2
  <2> QED
    BY <2>3
<1> QED
  BY <1>1, <1>4, <1>5, <1>9 DEF Q, Step, Keeps

\* The sequence t is s between o and c.
Wraps(t, o, s, c) ==
  /\ Len(t) = Len(s) + 2 /\ t[1] = o /\ t[Len(s) + 2] = c
  /\ \A k \in 1..Len(s) : t[k + 1] = s[k]

\* The sequence t is s behind o.
Heads(t, o, s) == Len(t) = Len(s) + 1 /\ t[1] = o /\ \A k \in 1..Len(s) : t[k + 1] = s[k]

(* What is appended to both stands in both. *)
LEMMA HeadsAppend ==
  ASSUME NEW S, NEW t \in Seq(S), NEW s \in Seq(S), NEW o, NEW x \in S, Heads(t, o, s)
  PROVE  Heads(Append(t, x), o, Append(s, x))
<1>1. /\ Len(t) \in Nat /\ Len(s) \in Nat /\ Len(t) = Len(s) + 1 /\ t[1] = o
      /\ \A k \in 1..Len(s) : t[k + 1] = s[k]
  BY LenProperties DEF Heads
<1>2. /\ Len(Append(t, x)) = Len(t) + 1 /\ Len(Append(s, x)) = Len(s) + 1
      /\ \A k \in 1..Len(t) : Append(t, x)[k] = t[k]
      /\ Append(t, x)[Len(t) + 1] = x
      /\ \A k \in 1..Len(s) : Append(s, x)[k] = s[k]
      /\ Append(s, x)[Len(s) + 1] = x
  BY AppendProperties
<1>3. Append(t, x)[1] = o
  BY <1>1, <1>2
<1>4. ASSUME NEW k \in 1..(Len(s) + 1) PROVE Append(t, x)[k + 1] = Append(s, x)[k]
  <2>1. CASE k \in 1..Len(s)
    <3>1. k + 1 \in 1..Len(t)
      BY <1>1, <2>1
    <3> QED
      BY <1>1, <1>2, <2>1, <3>1
  <2>2. CASE k = Len(s) + 1
    BY <1>1, <1>2, <2>2
  <2> QED
    BY <1>1, <2>1, <2>2
<1> QED
  BY <1>1, <1>2, <1>3, <1>4 DEF Heads

(* What is appended to t closes it. *)
LEMMA HeadsWraps ==
  ASSUME NEW S, NEW t \in Seq(S), NEW s \in Seq(S), NEW o, NEW c \in S, Heads(t, o, s)
  PROVE  Wraps(Append(t, c), o, s, c)
<1>1. /\ Len(t) \in Nat /\ Len(s) \in Nat /\ Len(t) = Len(s) + 1 /\ t[1] = o
      /\ \A k \in 1..Len(s) : t[k + 1] = s[k]
  BY LenProperties DEF Heads
<1>2. /\ Len(Append(t, c)) = Len(t) + 1 /\ Append(t, c)[Len(t) + 1] = c
      /\ \A k \in 1..Len(t) : Append(t, c)[k] = t[k]
  BY AppendProperties
<1>3. ASSUME NEW k \in 1..Len(s) PROVE Append(t, c)[k + 1] = s[k]
  <2>1. k + 1 \in 1..Len(t)
    BY <1>1
  <2> QED
    BY <1>1, <1>2, <2>1
<1>4. Len(Append(t, c)) = Len(s) + 2 /\ Append(t, c)[Len(s) + 2] = c /\ Append(t, c)[1] = o
  BY <1>1, <1>2
<1> QED
  BY <1>3, <1>4 DEF Wraps

(* Comments are left out between two tags as they are between nothing. *)
LEMMA CommentsWrapped ==
  ASSUME NEW S, NEW t \in Seq(S), NEW s \in Seq(S), NEW o, NEW c, Wraps(t, o, s, c),
         o.kind # "comment", c.kind # "comment"
  PROVE  /\ Wraps(withoutComments(t), o, withoutComments(s), c)
         /\ withoutComments(t) \in Seq(S) /\ withoutComments(s) \in Seq(S)
<1> DEFINE n == Len(s)
<1>1. n \in Nat /\ Len(t) = n + 2 /\ t[1] = o /\ t[n + 2] = c /\ \A k \in 1..n : t[k + 1] = s[k]
  BY LenProperties DEF Wraps
<1>2. o \in S /\ c \in S /\ \A k \in 1..n : s[k] \in S
  BY <1>1, ElementOfSeq
<1>3. PICK f \in [0..n -> Seq(S)] :
        /\ withoutComments(s) = f[n] /\ f[0] = <<>>
        /\ \A k \in 1..n : f[k] = IF s[k].kind = "comment" THEN f[k - 1] ELSE Append(f[k - 1], s[k])
  BY CommentLoop DEF Keeps
<1> HIDE DEF n
<1>4. PICK g \in [0..(n + 2) -> Seq(S)] :
        /\ withoutComments(t) = g[n + 2] /\ g[0] = <<>>
        /\ \A k \in 1..(n + 2) : g[k] = IF t[k].kind = "comment" THEN g[k - 1] ELSE Append(g[k - 1], t[k])
  <2> DEFINE m == n + 2
  <2>1. Len(t) = m
    BY <1>1
  <2> HIDE DEF m
  <2>2. \E g \in [0..m -> Seq(S)] : Keeps(g, t, m)
    BY <2>1, CommentLoop
  <2> QED
    BY <2>2 DEF Keeps, m
<1> DEFINE Ahead(k) == Heads(g[k + 1], o, f[k])
           T == {k \in 0..n : Ahead(k)}
<1>5. Ahead(0)
  <2>1. 1 \in 1..(n + 2) /\ 0 + 1 = 1 /\ 1 - 1 = 0
    BY <1>1
  <2>2. g[1] = Append(<<>>, o)
    BY <1>1, <1>4, <2>1
  <2>3. Len(g[1]) = 1 /\ g[1][1] = o /\ f[0] = <<>> /\ Len(<<>>) = 0
    <3>1. <<>> \in Seq(S) /\ Len(<<>>) = 0
      BY EmptySeq
    <3> QED
      BY <1>2, <1>3, <2>2, <3>1, AppendProperties
  <2> QED
    BY <2>1, <2>3 DEF Heads
<1>6. ASSUME NEW k \in 1..n, k - 1 \in T PROVE k \in T
  <2>1. /\ k \in 0..n /\ k - 1 \in 0..n /\ k + 1 \in 1..(n + 2) /\ k \in 0..(n + 2)
        /\ (k - 1) + 1 = k /\ (k + 1) - 1 = k
    BY <1>1
  <2>2. /\ g[k + 1] = IF s[k].kind = "comment" THEN g[k] ELSE Append(g[k], s[k])
        /\ f[k] = IF s[k].kind = "comment" THEN f[k - 1] ELSE Append(f[k - 1], s[k])
    BY <1>1, <1>3, <1>4, <2>1
  <2>3. g[k] \in Seq(S) /\ f[k - 1] \in Seq(S) /\ s[k] \in S
    BY <1>2, <1>3, <1>4, <2>1
  <2>4. Heads(g[k], o, f[k - 1])
    BY <1>6, <2>1
  <2>5. Ahead(k)
    <3>1. CASE s[k].kind = "comment"
      BY <2>2, <2>4, <3>1
    <3>2. CASE s[k].kind # "comment"
      <4>1. g[k + 1] = Append(g[k], s[k]) /\ f[k] = Append(f[k - 1], s[k])
        BY <2>2, <3>2
      <4>2. Heads(Append(g[k], s[k]), o, Append(f[k - 1], s[k]))
        BY <2>3, <2>4, HeadsAppend
      <4> QED
        BY <4>1, <4>2
    <3> QED
      BY <3>1, <3>2
  <2> HIDE DEF Ahead
  <2> QED
    BY <2>1, <2>5
<1>7. Ahead(n)
  <2> HIDE DEF Ahead
  <2>1. 0 \in T /\ n \in 0..n
    BY <1>1, <1>5
  <2>2. \A k \in 1..n : k - 1 \in T => k \in T
    BY <1>6
  <2>3. 0..n \subseteq T
    <3> HIDE DEF T
    <3> QED
      BY <1>1, <2>1, <2>2, SetInduction
  <2> QED
    BY <2>1, <2>3
<1>8. g[n + 2] = Append(g[n + 1], c)
  <2>1. n + 2 \in 1..(n + 2) /\ (n + 2) - 1 = n + 1
    BY <1>1
  <2> QED
    BY <1>1, <1>4, <2>1
<1>9. g[n + 1] \in Seq(S) /\ f[n] \in Seq(S) /\ g[n + 2] \in Seq(S)
  BY <1>1, <1>3, <1>4
<1>10. Wraps(Append(g[n + 1], c), o, f[n], c)
  BY <1>2, <1>7, <1>9, HeadsWraps
<1> QED
  BY <1>3, <1>4, <1>8, <1>9, <1>10

(* What is wrapped is determined, and determines the whole. *)
LEMMA WrapsSame ==
  ASSUME NEW S, NEW t \in Seq(S), NEW u \in Seq(S), NEW s \in Seq(S), NEW v \in Seq(S),
         NEW o, NEW p, NEW c, NEW q, Wraps(t, o, s, c), Wraps(u, p, v, q)
  PROVE  t = u <=> o = p /\ s = v /\ c = q
<1>1. /\ Len(s) \in Nat /\ Len(v) \in Nat /\ Len(t) = Len(s) + 2 /\ Len(u) = Len(v) + 2
      /\ t[1] = o /\ t[Len(s) + 2] = c /\ \A k \in 1..Len(s) : t[k + 1] = s[k]
      /\ u[1] = p /\ u[Len(v) + 2] = q /\ \A k \in 1..Len(v) : u[k + 1] = v[k]
  BY LenProperties DEF Wraps
<1>2. ASSUME t = u PROVE o = p /\ s = v /\ c = q
  <2>1. Len(s) = Len(v)
    BY <1>1, <1>2
  <2>2. \A k \in 1..Len(s) : s[k] = v[k]
    BY <1>1, <1>2, <2>1
  <2>3. s = v
    BY <2>1, <2>2, SeqEqual
  <2> QED
    BY <1>1, <1>2, <2>1, <2>3
<1>3. ASSUME o = p, s = v, c = q PROVE t = u
  <2>1. Len(t) = Len(u)
    BY <1>1, <1>3
  <2>2. ASSUME NEW k \in 1..Len(t) PROVE t[k] = u[k]
    <3>1. CASE k = 1
      BY <1>1, <1>3, <3>1
    <3>2. CASE k = Len(s) + 2
      BY <1>1, <1>3, <3>2
    <3>3. CASE k # 1 /\ k # Len(s) + 2
      <4>1. k - 1 \in 1..Len(s) /\ (k - 1) + 1 = k
        BY <1>1, <3>3
      <4> QED
        BY <1>1, <1>3, <4>1
    <3> QED
      BY <3>1, <3>2, <3>3
  <2> QED
    BY <2>1, <2>2, SeqEqual
<1> QED
  BY <1>2, <1>3
-----------------------------------------------------------------------------
\* The aid stands for what is shown.

\* What Shown has for the tag of an element.
Face(name, src) == [Open(name) EXCEPT !.src = src]

(* The fields of the tag that Shown has. *)
LEMMA FaceFields ==
  ASSUME NEW name, NEW src
  PROVE  Face(name, src).kind = "open" /\ Face(name, src).name = name /\ Face(name, src).src = src
<1> DEFINE f == FALSE
           z == 0
           k == "open"
           e == Fields(k, name, f, None, None, f, z, None)
           w == Fields(k, name, f, src, None, f, z, None)
<1>1. Face(name, src) = [e EXCEPT !.src = src]
  BY DEF Face, Open, Token, Fields
<1>2. \A p, q, r, s, c, m, u, x, a :
        [Fields(p, q, r, s, c, m, u, x) EXCEPT !.src = a] = Fields(p, q, r, a, c, m, u, x)
  BY DEF Fields
<1>3. w.kind = k /\ w.name = name /\ w.src = src
  <2> HIDE DEF k, f, z
  <2> QED
    BY FieldsOf
<1>4. Face(name, src) = w
  <2> HIDE DEF k, f, z
  <2> QED
    BY <1>1, <1>2
<1> HIDE DEF w
<1> QED
  BY <1>3, <1>4

(* Without its stamp a token has its other fields, and a closing tag has none to lose. *)
LEMMA BareToken ==
  ASSUME NEW h, PlainHtml(h), WellNested(h), NEW k \in 1..Len(h)
  PROVE  /\ Bare(h)[k].kind = h[k].kind /\ Bare(h)[k].name = h[k].name
         /\ Bare(h)[k].src = h[k].src /\ Bare(h)[k].slashes = h[k].slashes
         /\ h[k].kind = "close" => Bare(h)[k] = Close(h[k].name)
<1> DEFINE e == h[k]
           b == [e EXCEPT !.aid = None]
<1>1. k \in DOMAIN h /\ Plain(e)
  BY PlainParts
<1>2. Bare(h)[k] = b
  BY <1>1 DEF Bare
<1> HIDE DEF e
<1>3. b = Fields(e.kind, e.name, e.caps, e.src, e.class, e.marked, e.slashes, None)
  BY <1>1, NewAid
<1> HIDE DEF b
<1>4. b.kind = e.kind /\ b.name = e.name /\ b.src = e.src /\ b.slashes = e.slashes
  BY <1>3, FieldsOf
<1>5. ASSUME h[k].kind = "close" PROVE b = Close(h[k].name)
  <2>1. e = Close(e.name)
    BY <1>5 DEF WellNested, e
  <2>2. ASSUME NEW x PROVE [Close(x) EXCEPT !.aid = None] = Close(x)
    <3> DEFINE f == FALSE
               z == 0
               kind == "close"
    <3>1. Close(x) = Fields(kind, x, f, None, None, f, z, None)
      BY DEF Close, Token, Fields
    <3> HIDE DEF f, z, kind
    <3> QED
      BY <3>1, ExceptAid
  <2>3. [Close(e.name) EXCEPT !.aid = None] = Close(e.name)
    BY <2>2
  <2>4. b = Close(e.name)
    BY <2>1, <2>3 DEF b
  <2> QED
    BY <2>4 DEF e
<1> QED
  BY <1>2, <1>4, <1>5 DEF e

(* HTML without its stamps has the same tags. *)
LEMMA BareSame ==
  ASSUME NEW h, PlainHtml(h), WellNested(h)
  PROVE  /\ SameTags(Bare(h), h) /\ Len(Bare(h)) = Len(h)
         /\ Bare(h) \in Seq(Tokens(Bare(h)))
<1>1. DOMAIN h = 1..Len(h) /\ Len(h) \in Nat
  BY PlainParts
<1>2. DOMAIN Bare(h) = 1..Len(h) /\ Bare(h) = [k \in 1..Len(h) |-> Bare(h)[k]]
  BY <1>1 DEF Bare
<1> DEFINE b == Bare(h)
<1> HIDE DEF b
<1>3. b \in [1..Len(h) -> Tokens(b)] /\ Len(b) = Len(h)
  <2>1. b = [k \in 1..Len(h) |-> b[k]] /\ DOMAIN b = 1..Len(h)
    BY <1>2 DEF b
  <2>2. \A k \in 1..Len(h) : b[k] \in Tokens(b)
    BY <2>1 DEF Tokens
  <2>3. b \in [1..Len(h) -> Tokens(b)]
    BY <2>1, <2>2
  <2> QED
    BY <1>1, <2>3, SeqDef, LenProperties
<1>4. b \in Seq(Tokens(b))
  BY <1>1, <1>3, SeqDef
<1>5. \A k \in 1..Len(h) : SameTag(b[k], h[k])
  BY BareToken DEF SameTag, b
<1>6. Len(b) = Len(h)
  BY <1>3
<1> QED
  BY <1>4, <1>5, <1>6 DEF SameTags, b

\* The tokens Shown is made of.
Palette(h, i) == Tokens(Bare(h)) \cup {Face(h[i].name, h[i].src)}

(* What is shown of an element without content is its tag. *)
LEMMA ShownVoid ==
  ASSUME NEW h, PlainHtml(h), WellNested(h), NEW i \in Artifacts(h), IsVoid(h[i])
  PROVE  /\ Shown(h, i) = <<Face(h[i].name, h[i].src)>>
         /\ aidFor(h, i) = <<h[i].name, h[i].src, <<>> >>
<1> DEFINE o == Face(h[i].name, h[i].src)
           S == Palette(h, i)
           b == Bare(h)
           u == SubSeq(b, i, i)
           t == [u EXCEPT ![1] = o]
<1>1. i \in 1..Len(h) /\ Len(h) \in Nat
  BY PlainParts DEF Artifacts
<1>2. b \in Seq(S) /\ Len(b) = Len(h) /\ o \in S
  <2>1. b \in Seq(Tokens(b)) /\ Len(b) = Len(h) /\ Tokens(b) \subseteq S
    BY BareSame DEF Palette
  <2>2. o \in S
    BY DEF Palette
  <2> HIDE DEF S, b, o
  <2> QED
    BY <2>1, <2>2, SeqMonotonic
<1>3. Shown(h, i) = withoutComments(t)
  BY DEF Shown, Face
<1>4. b[i].name = h[i].name /\ b[i].slashes = h[i].slashes
  BY <1>1, BareToken
<1>5. innerHTML(b, i) = <<>>
  BY <1>4 DEF innerHTML, IsVoid
<1>6. aidFor(h, i) = <<h[i].name, h[i].src, withoutComments(<<>>)>>
  BY <1>5 DEF aidFor
<1>7. o.kind # "comment"
  BY FaceFields
<1> HIDE DEF S, b, o
<1>8. u \in Seq(S) /\ Len(u) = 1
  <2>1. i \in Int /\ \A k \in i..i : b[k] \in S
    BY <1>1, <1>2, ElementOfSeq
  <2> QED
    BY <2>1, SubSeqProperties
<1> HIDE DEF u
<1>9. t \in Seq(S) /\ Len(t) = 1 /\ t[1] = o
  <2>1. 1 \in 1..Len(u)
    BY <1>8
  <2>2. /\ t \in Seq(S) /\ Len(t) = Len(u)
        /\ \A k \in 1..Len(u) : t[k] = IF k = 1 THEN o ELSE u[k]
    <3>1. u \in Seq(S) /\ o \in S
      BY <1>2, <1>8
    <3> QED
      BY <2>1, <3>1, ExceptSeq
  <2> HIDE DEF t
  <2> QED
    BY <1>8, <2>1, <2>2
<1> HIDE DEF t
<1>10. withoutComments(t) = <<o>>
  <2>1. PICK f \in [0..1 -> Seq(S)] : Keeps(f, t, 1)
    BY <1>9, CommentLoop
  <2>2. 1 \in 1..1 /\ 1 - 1 = 0
    OBVIOUS
  <2>3. withoutComments(t) = Append(<<>>, o)
    BY <1>7, <1>9, <2>1, <2>2 DEF Keeps
  <2>4. Append(<<>>, o) = <<o>>
    OBVIOUS
  <2> QED
    BY <2>3, <2>4
<1>11. withoutComments(<<>>) = <<>>
  <2>1. <<>> \in Seq(S) /\ Len(<<>>) = 0
    BY EmptySeq
  <2>2. PICK f \in [0..0 -> Seq(S)] : Keeps(f, <<>>, 0)
    BY <2>1, CommentLoop
  <2> QED
    BY <2>2 DEF Keeps
<1> QED
  BY <1>3, <1>6, <1>10, <1>11 DEF o

(* What is shown of an element with content is what its aid is computed of, between its
   tags. *)
LEMMA ShownNested ==
  ASSUME NEW h, PlainHtml(h), WellNested(h), NEW i \in Artifacts(h), ~IsVoid(h[i])
  PROVE  \E w \in Seq(Palette(h, i)) :
           /\ Shown(h, i) \in Seq(Palette(h, i))
           /\ Wraps(Shown(h, i), Face(h[i].name, h[i].src), w, Close(h[i].name))
           /\ aidFor(h, i) = <<h[i].name, h[i].src, w>>
<1> DEFINE n == Len(h)
           o == Face(h[i].name, h[i].src)
           c == Close(h[i].name)
           S == Palette(h, i)
           b == Bare(h)
<1>1. n \in Nat
  BY PlainParts
<1>2. PICK d : Levels(h, d) /\ Matched(h, d)
  BY DEF WellNested
<1>3. PICK m \in (i + 1)..n : Inside(h, d, n, i, m)
  BY <1>1, <1>2, ArtifactInside
<1>4. i \in 1..n /\ m \in (i + 1)..n /\ Closes(h[m], h[i].name)
  BY InsideFacts, <1>1, <1>3, Zenon
<1>5. EndOf(h, i) = m
  <2>1. Ends(d, i, m)
    BY <1>3 DEF Inside
  <2> QED
    BY <1>1, <1>2, <1>4, <2>1, EndOfIs
<1>6. SameTags(b, h) /\ Len(b) = n /\ b \in Seq(Tokens(b))
  BY BareSame
<1>7. findCloseEnd(b, i) = m
  BY <1>1, <1>3, <1>6, FindIs
<1>8. b \in Seq(S) /\ o \in S /\ o.kind # "comment"
  <2>1. Tokens(b) \subseteq S /\ o \in S
    BY DEF Palette
  <2>2. o.kind # "comment"
    BY FaceFields
  <2> HIDE DEF S, b, o
  <2> QED
    BY <1>6, <2>1, <2>2, SeqMonotonic
<1>9. b[m] = c /\ c.kind # "comment"
  <2>1. m \in 1..n
    BY <1>1, <1>4
  <2>2. h[m].kind = "close" /\ h[m].name = h[i].name
    BY <1>4 DEF Closes
  <2>3. b[m] = c
    BY <2>1, <2>2, BareToken
  <2> QED
    BY <2>3 DEF Close, Token
<1>10. ~IsVoid(b[i])
  BY <1>4, BareToken DEF IsVoid
<1> DEFINE u == SubSeq(b, i, m)
           t == [u EXCEPT ![1] = o]
           s == SubSeq(b, i + 1, m - 1)
<1>11. Shown(h, i) = withoutComments(t)
  BY <1>5 DEF Shown, Face
<1>12. aidFor(h, i) = <<h[i].name, h[i].src, withoutComments(s)>>
  <2>1. findCloseEnd(b, i) # i
    BY <1>4, <1>7
  <2>2. innerHTML(b, i) = s
    BY <1>7, <1>10, <2>1 DEF innerHTML
  <2> QED
    BY <2>2 DEF aidFor
<1> HIDE DEF S, b, o, c, n
<1>13. \A k \in 1..n : b[k] \in S
  BY <1>6, <1>8, ElementOfSeq
<1>14. u \in Seq(S) /\ Len(u) = m - i + 1 /\ \A k \in 1..(m - i + 1) : u[k] = b[i + k - 1]
  <2>1. i \in Int /\ m \in Int /\ i <= m /\ \A k \in i..m : b[k] \in S
    BY <1>1, <1>4, <1>13
  <2> QED
    BY <2>1, SubSeqProperties
<1>15. s \in Seq(S) /\ Len(s) = m - i - 1 /\ \A k \in 1..(m - i - 1) : s[k] = b[i + k]
  <2>1. i + 1 \in Int /\ m - 1 \in Int /\ \A k \in (i + 1)..(m - 1) : b[k] \in S
    BY <1>1, <1>4, <1>13
  <2>2. /\ s \in Seq(S) /\ Len(s) = IF i + 1 <= m - 1 THEN (m - 1) - (i + 1) + 1 ELSE 0
        /\ \A k \in 1..((m - 1) - (i + 1) + 1) : s[k] = b[(i + 1) + k - 1]
    BY <2>1, SubSeqProperties
  <2>3. /\ (m - 1) - (i + 1) + 1 = m - i - 1
        /\ (i + 1 <= m - 1) \/ m - i - 1 = 0
        /\ \A k \in Int : (i + 1) + k - 1 = i + k
    BY <1>1, <1>4
  <2>4. \A k \in 1..(m - i - 1) : s[k] = b[i + k]
    <3> HIDE DEF s
    <3> SUFFICES ASSUME NEW k \in 1..(m - i - 1) PROVE s[k] = b[i + k]
      OBVIOUS
    <3>1. s[k] = b[(i + 1) + k - 1]
      BY <2>2, <2>3
    <3>2. (i + 1) + k - 1 = i + k
      BY <1>1, <1>4
    <3> QED
      BY <3>1, <3>2
  <2> HIDE DEF s
  <2> QED
    BY <2>2, <2>3, <2>4
<1> HIDE DEF u, s
<1>16. t \in Seq(S) /\ Len(t) = m - i + 1 /\ \A k \in 1..(m - i + 1) : t[k] = IF k = 1 THEN o ELSE u[k]
  <2>1. 1 \in 1..Len(u)
    BY <1>1, <1>4, <1>14
  <2>2. /\ t \in Seq(S) /\ Len(t) = Len(u)
        /\ \A k \in 1..Len(u) : t[k] = IF k = 1 THEN o ELSE u[k]
    BY <1>8, <1>14, <2>1, ExceptSeq
  <2> HIDE DEF t
  <2> QED
    BY <1>14, <2>2
<1> HIDE DEF t
<1>17. Wraps(t, o, s, c)
  <2>1. /\ Len(t) = Len(s) + 2 /\ 1 \in 1..(m - i + 1) /\ Len(s) + 2 \in 1..(m - i + 1)
        /\ Len(s) + 2 # 1 /\ i + (Len(s) + 2) - 1 = m
    BY <1>1, <1>4, <1>15, <1>16
  <2>2. t[1] = o
    BY <1>16, <2>1
  <2>3. t[Len(s) + 2] = c
    <3>1. t[Len(s) + 2] = u[Len(s) + 2]
      BY <1>16, <2>1
    <3>2. u[Len(s) + 2] = b[i + (Len(s) + 2) - 1]
      BY <1>14, <2>1
    <3> QED
      BY <1>9, <2>1, <3>1, <3>2
  <2>4. ASSUME NEW k \in 1..Len(s) PROVE t[k + 1] = s[k]
    <3>1. k \in 1..(m - i - 1) /\ k + 1 \in 1..(m - i + 1) /\ k + 1 # 1 /\ i + (k + 1) - 1 = i + k
      BY <1>1, <1>4, <1>15
    <3>2. t[k + 1] = u[k + 1] /\ u[k + 1] = b[i + (k + 1) - 1] /\ s[k] = b[i + k]
      BY <1>14, <1>15, <1>16, <3>1
    <3> QED
      BY <3>1, <3>2
  <2> QED
    BY <2>1, <2>2, <2>3, <2>4 DEF Wraps
<1>18. /\ Wraps(withoutComments(t), o, withoutComments(s), c)
       /\ withoutComments(t) \in Seq(S) /\ withoutComments(s) \in Seq(S)
  BY <1>8, <1>9, <1>15, <1>16, <1>17, CommentsWrapped
<1> QED
  BY <1>11, <1>12, <1>18 DEF S, o, c

(* Two artifacts have one aid exactly if they show the same. *)
LEMMA AidsMatch ==
  ASSUME NEW g, PlainHtml(g), WellNested(g), NEW i \in Artifacts(g),
         NEW h, PlainHtml(h), WellNested(h), NEW j \in Artifacts(h)
  PROVE  aidFor(g, i) = aidFor(h, j) <=> Shown(g, i) = Shown(h, j)
<1> DEFINE o == Face(g[i].name, g[i].src)
           p == Face(h[j].name, h[j].src)
<1>1. o = p <=> g[i].name = h[j].name /\ g[i].src = h[j].src
  BY FaceFields
<1>2. g[i].slashes = 0 /\ h[j].slashes = 0
  <2>1. i \in 1..Len(g) /\ j \in 1..Len(h)
    BY PlainParts DEF Artifacts
  <2>2. Plain(g[i]) /\ Plain(h[j])
    BY <2>1, PlainParts
  <2> QED
    BY <2>2 DEF Plain
<1>3. g[i].name = h[j].name => (IsVoid(g[i]) <=> IsVoid(h[j]))
  BY <1>2 DEF IsVoid
<1>4. CASE IsVoid(g[i]) /\ IsVoid(h[j])
  <2>1. Shown(g, i) = <<o>> /\ aidFor(g, i) = <<g[i].name, g[i].src, <<>> >>
    BY <1>4, ShownVoid
  <2>2. Shown(h, j) = <<p>> /\ aidFor(h, j) = <<h[j].name, h[j].src, <<>> >>
    BY <1>4, ShownVoid
  <2> HIDE DEF o, p
  <2> QED
    BY <1>1, <2>1, <2>2
<1>5. ASSUME IsVoid(g[i]), ~IsVoid(h[j])
      PROVE  aidFor(g, i) # aidFor(h, j) /\ Shown(g, i) # Shown(h, j)
  <2>1. Shown(g, i) = <<o>> /\ aidFor(g, i) = <<g[i].name, g[i].src, <<>> >>
    BY <1>5, ShownVoid
  <2>2. PICK w : Wraps(Shown(h, j), p, w, Close(h[j].name)) /\ aidFor(h, j) = <<h[j].name, h[j].src, w>>
    BY <1>5, ShownNested
  <2>3. Shown(h, j)[1] = p /\ <<o>>[1] = o
    BY <2>2 DEF Wraps
  <2>4. g[i].name # h[j].name /\ o # p
    BY <1>1, <1>3, <1>5
  <2> HIDE DEF o, p
  <2> QED
    BY <2>1, <2>2, <2>3, <2>4
<1>6. ASSUME ~IsVoid(g[i]), IsVoid(h[j])
      PROVE  aidFor(g, i) # aidFor(h, j) /\ Shown(g, i) # Shown(h, j)
  <2>1. Shown(h, j) = <<p>> /\ aidFor(h, j) = <<h[j].name, h[j].src, <<>> >>
    BY <1>6, ShownVoid
  <2>2. PICK w : Wraps(Shown(g, i), o, w, Close(g[i].name)) /\ aidFor(g, i) = <<g[i].name, g[i].src, w>>
    BY <1>6, ShownNested
  <2>3. Shown(g, i)[1] = o /\ <<p>>[1] = p
    BY <2>2 DEF Wraps
  <2>4. g[i].name # h[j].name /\ o # p
    BY <1>1, <1>3, <1>6
  <2> HIDE DEF o, p
  <2> QED
    BY <2>1, <2>2, <2>3, <2>4
<1>7. CASE ~IsVoid(g[i]) /\ ~IsVoid(h[j])
  <2> DEFINE S == Palette(g, i) \cup Palette(h, j)
             c == Close(g[i].name)
             q == Close(h[j].name)
  <2>1. PICK v \in Seq(Palette(g, i)) :
          /\ Shown(g, i) \in Seq(Palette(g, i)) /\ Wraps(Shown(g, i), o, v, c)
          /\ aidFor(g, i) = <<g[i].name, g[i].src, v>>
    BY <1>7, ShownNested
  <2>2. PICK w \in Seq(Palette(h, j)) :
          /\ Shown(h, j) \in Seq(Palette(h, j)) /\ Wraps(Shown(h, j), p, w, q)
          /\ aidFor(h, j) = <<h[j].name, h[j].src, w>>
    BY <1>7, ShownNested
  <2>3. Seq(Palette(g, i)) \subseteq Seq(S) /\ Seq(Palette(h, j)) \subseteq Seq(S)
    BY SeqMonotonic
  <2>4. g[i].name = h[j].name => c = q
    OBVIOUS
  <2> HIDE DEF S, o, p, c, q
  <2>5. v \in Seq(S) /\ w \in Seq(S) /\ Shown(g, i) \in Seq(S) /\ Shown(h, j) \in Seq(S)
    BY <2>1, <2>2, <2>3
  <2>6. Shown(g, i) = Shown(h, j) <=> o = p /\ v = w /\ c = q
    BY <2>1, <2>2, <2>5, WrapsSame
  <2> QED
    BY <1>1, <2>1, <2>2, <2>4, <2>6
<1> QED
  BY <1>4, <1>5, <1>6, <1>7
-----------------------------------------------------------------------------
\* Edits keep the nesting: tokens stamped or reworded, and pieces put together.

(* InRaw by Skips. *)
LEMMA InRawSkips ==
  ASSUME NEW h, NEW k
  PROVE  InRaw(h, k) <=> \E a \in 1..(k - 1) : Skips(h, a, k)
  BY RawDef DEF Skips

(* HTML with the same tags nests the same. *)
LEMMA NestSame ==
  ASSUME NEW h, WellNested(h), NEW n \in Nat, Len(h) = n, NEW g, SameTags(g, h),
         \A k \in 1..n : k \in Artifacts(g) => k \in Artifacts(h),
         \A k \in 1..n : g[k].kind = "close" => g[k] = Close(g[k].name)
  PROVE  WellNested(g)
<1>1. Len(g) = n /\ \A k \in 1..n : SameTag(g[k], h[k])
  BY DEF SameTags
<1>2. ASSUME NEW k \in 1..n, NEW a \in 1..k
      PROVE  Skips(g, a, k) <=> Skips(h, a, k)
  <2>1. a \in 1..n /\ \A b \in (a + 1)..k : b \in 1..n
    OBVIOUS
  <2>2. RawOpen(g[a]) <=> RawOpen(h[a])
    BY <1>1, <2>1 DEF RawOpen, SameTag
  <2>3. RawOpen(h[a]) => g[a].name = h[a].name
    BY <1>1, <2>1 DEF RawOpen, SameTag
  <2>4. \A b \in (a + 1)..k : \A x : Closes(g[b], x) <=> Closes(h[b], x)
    BY <1>1, <2>1 DEF Closes, SameTag
  <2> QED
    BY <2>2, <2>3, <2>4 DEF Skips
<1>3. ASSUME NEW k \in 1..n
      PROVE  /\ InRaw(g, k) <=> InRaw(h, k)
             /\ Opening(g, k) <=> Opening(h, k)
             /\ Closing(g, k) <=> Closing(h, k)
  <2>1. \A a \in 1..(k - 1) : a \in 1..k
    OBVIOUS
  <2>2. InRaw(g, k) <=> InRaw(h, k)
    BY <1>2, <2>1, InRawSkips
  <2>3. SameTag(g[k], h[k])
    BY <1>1
  <2> QED
    BY <2>2, <2>3 DEF Opening, Closing, IsVoid, SameTag
<1>4. PICK d : Levels(h, d) /\ Matched(h, d)
  BY DEF WellNested
<1>5. Levels(g, d)
  BY <1>1, <1>3, <1>4 DEF Levels
<1>6. Matched(g, d)
  <2> SUFFICES ASSUME NEW i \in 1..n, NEW m \in 1..n, Opening(g, i), Ends(d, i, m)
               PROVE  Closes(g[m], g[i].name)
    BY <1>1 DEF Matched
  <2>1. Opening(h, i)
    BY <1>3
  <2>2. Closes(h[m], h[i].name)
    BY <1>4, <2>1 DEF Matched
  <2>3. SameTag(g[m], h[m]) /\ SameTag(g[i], h[i])
    BY <1>1
  <2> QED
    BY <2>1, <2>2, <2>3 DEF Closes, SameTag, Opening
<1>7. ASSUME NEW k \in 1..n, g[k].kind = "open", InRaw(g, k) PROVE ~Matters(g, k)
  <2>1. SameTag(g[k], h[k]) /\ InRaw(h, k)
    BY <1>1, <1>3, <1>7
  <2>2. h[k].kind = "open" /\ g[k].name = h[k].name /\ g[k].slashes = h[k].slashes
    BY <1>7, <2>1 DEF SameTag
  <2>3. ~Matters(h, k)
    BY <2>1, <2>2 DEF WellNested
  <2> QED
    BY <2>2, <2>3 DEF Matters, IsVoid
<1> QED
  BY <1>1, <1>5, <1>6, <1>7 DEF WellNested

(* Stamping keeps the nesting. *)
LEMMA StampNests ==
  ASSUME NEW h, PlainHtml(h), WellNested(h)
  PROVE  WellNested(StampAids(h))
<1> DEFINE g == StampAids(h)
<1>1. /\ DOMAIN h = 1..Len(h) /\ Len(h) \in Nat /\ \A k \in 1..Len(h) : Plain(h[k])
  BY PlainParts
<1>2. DOMAIN g = DOMAIN h /\ PlainHtml(g) /\ Artifacts(g) = Artifacts(h)
  BY StampShape
<1>3. DOMAIN g = 1..Len(g) /\ Len(g) \in Nat /\ \A k \in 1..Len(g) : Plain(g[k])
  BY <1>2, PlainParts
<1>4. Len(g) = Len(h)
  <2>1. 1..Len(g) = 1..Len(h)
    BY <1>1, <1>2, <1>3
  <2> DEFINE x == Len(g)
             y == Len(h)
  <2>2. x \in Nat /\ y \in Nat /\ 1..x = 1..y
    BY <1>1, <1>3, <2>1
  <2> HIDE DEF g, x, y
  <2>3. (x > 0 => x \in 1..x) /\ (y > 0 => y \in 1..y)
    BY <2>2
  <2>4. (x > 0 => x \in 1..y) /\ (y > 0 => y \in 1..x)
    BY <2>2, <2>3
  <2>5. x = y
    BY <2>2, <2>4
  <2> QED
    BY <2>5 DEF x, y
<1>5. ASSUME NEW k \in 1..Len(h)
      PROVE  /\ g[k].kind = h[k].kind /\ g[k].name = h[k].name
             /\ k \notin Artifacts(h) => g[k] = h[k]
  BY <1>1, StampToken
<1>6. SameTags(g, h)
  <2>1. \A k \in 1..Len(h) : g[k].slashes = 0 /\ h[k].slashes = 0
    BY <1>1, <1>3, <1>4 DEF Plain
  <2> QED
    BY <1>4, <1>5, <2>1 DEF SameTags, SameTag
<1>7. ASSUME NEW k \in 1..Len(h), g[k].kind = "close" PROVE g[k] = Close(g[k].name)
  <2>1. h[k].kind = "close" /\ g[k].name = h[k].name
    BY <1>5, <1>7
  <2>2. h[k] = Close(h[k].name)
    BY <2>1 DEF WellNested
  <2>3. k \notin Artifacts(h)
    BY <2>1 DEF Artifacts
  <2> QED
    BY <1>5, <2>2, <2>3
<1> HIDE DEF g
<1>8. WellNested(g)
  BY <1>1, <1>2, <1>6, <1>7, NestSame
<1> QED
  BY <1>8 DEF g

(* So does changing a text. *)
LEMMA RewordedNests ==
  ASSUME NEW h, PlainHtml(h), WellNested(h), NEW i \in 1..Len(h), h[i].kind = "text", NEW w
  PROVE  WellNested(Reworded(h, i, w))
<1> DEFINE g == Reworded(h, i, w)
           e == [h[i] EXCEPT !.name = w]
<1>1. /\ DOMAIN h = 1..Len(h) /\ Len(h) \in Nat /\ \A k \in 1..Len(h) : Plain(h[k])
      /\ h \in Seq(Tokens(h))
  BY PlainParts
<1>2. g = [h EXCEPT ![i] = e]
  BY DEF Reworded
<1>3. e.kind = "text"
  <2>1. h[i] = Fields(h[i].kind, h[i].name, h[i].caps, h[i].src, h[i].class, h[i].marked,
                      h[i].slashes, h[i].aid)
    BY <1>1 DEF Plain
  <2>2. e = Fields(h[i].kind, w, h[i].caps, h[i].src, h[i].class, h[i].marked,
                   h[i].slashes, h[i].aid)
    BY <2>1, ExceptName
  <2> HIDE DEF e
  <2>3. e.kind = h[i].kind
    BY <2>2, FieldsOf
  <2> QED
    BY <2>3
<1> HIDE DEF e, g
<1>4. DOMAIN g = 1..Len(h) /\ \A k \in 1..Len(h) : g[k] = IF k = i THEN e ELSE h[k]
  BY <1>1, <1>2
<1>5. Len(g) = Len(h)
  <2>1. h \in Seq(Tokens(h) \cup {e}) /\ e \in Tokens(h) \cup {e}
    BY <1>1, SeqMonotonic
  <2> QED
    BY <1>2, <2>1, ExceptSeq
<1>6. SameTags(g, h)
  BY <1>3, <1>4, <1>5 DEF SameTags, SameTag
<1>7. \A k \in 1..Len(h) : k \in Artifacts(g) => k \in Artifacts(h)
  BY <1>1, <1>3, <1>4 DEF Artifacts
<1>8. \A k \in 1..Len(h) : g[k].kind = "close" => g[k] = Close(g[k].name)
  <2>1. \A k \in 1..Len(h) : h[k].kind = "close" => h[k] = Close(h[k].name)
    BY DEF WellNested
  <2> QED
    BY <1>3, <1>4, <2>1
<1>9. WellNested(g)
  BY <1>1, <1>6, <1>7, <1>8, NestSame
<1> QED
  BY <1>9 DEF g

(* Two levels move alike if their difference stays. *)
LEMMA Across ==
  ASSUME NEW a \in Nat, NEW b \in Nat, NEW u \in Nat, NEW v \in Nat, a + v = b + u
  PROVE  /\ u = v + 1 => a = b + 1
         /\ v = u + 1 => b = a + 1
         /\ u = v => a = b
  OBVIOUS

(* The HTML g is put together of pieces of h, its token k being phi[k] there, and has the
   levels e: a token raises the level as in h and stands in raw text if it does in h, void
   tags aside, and what begins and ends an element does so in h. *)
Pieces(g, p, e, phi, h, n, d) ==
  /\ Len(h) = n /\ DOMAIN h = 1..n /\ Levels(h, d) /\ Matched(h, d)
  /\ Len(g) = p /\ e \in [0..p -> Nat] /\ phi \in [1..p -> 1..n]
  /\ \A k \in 1..p : g[k] = h[phi[k]]
  /\ \A k \in 1..p : \/ InRaw(g, k) <=> InRaw(h, phi[k])
                     \/ h[phi[k]].kind = "open" /\ IsVoid(h[phi[k]])
  /\ e[0] = 0 /\ e[p] = 0
  /\ \A k \in 1..p : e[k] + d[phi[k] - 1] = e[k - 1] + d[phi[k]]
  /\ \A x, y \in 1..p : Opening(g, x) /\ Ends(e, x, y) => Ends(d, phi[x], phi[y])

(* What is put together of pieces of well-nested HTML is well nested. *)
LEMMA NestPieces ==
  ASSUME NEW h, WellNested(h), NEW d, NEW n \in Nat, NEW g, NEW p \in Nat, NEW e, NEW phi,
         Pieces(g, p, e, phi, h, n, d)
  PROVE  WellNested(g)
<1> USE DEF Pieces
<1>1. ASSUME NEW k \in 1..p
      PROVE  /\ Opening(g, k) <=> Opening(h, phi[k])
             /\ Closing(g, k) <=> Closing(h, phi[k])
  BY DEF Opening, Closing
<1>2. Levels(g, e)
  <2> SUFFICES ASSUME NEW k \in 1..p
               PROVE  /\ Opening(g, k) => e[k] = e[k - 1] + 1
                      /\ Closing(g, k) => e[k - 1] = e[k] + 1
                      /\ ~Opening(g, k) /\ ~Closing(g, k) => e[k] = e[k - 1]
    BY DEF Levels
  <2> DEFINE q == phi[k]
             a == e[k]
             b == e[k - 1]
             u == d[q]
             v == d[q - 1]
  <2>1. q \in 1..n /\ q \in 0..n /\ q - 1 \in 0..n /\ k \in 0..p /\ k - 1 \in 0..p
    OBVIOUS
  <2>2. a \in Nat /\ b \in Nat /\ u \in Nat /\ v \in Nat
    BY <2>1, LevelFacts
  <2>3. a + v = b + u
    OBVIOUS
  <2>4. /\ Opening(h, q) => u = v + 1
        /\ Closing(h, q) => v = u + 1
        /\ ~Opening(h, q) /\ ~Closing(h, q) => u = v
    <3>1. q \in 1..n
      BY <2>1
    <3>2. \A x \in 1..n : /\ Opening(h, x) => d[x] = d[x - 1] + 1
                          /\ Closing(h, x) => d[x - 1] = d[x] + 1
                          /\ ~Opening(h, x) /\ ~Closing(h, x) => d[x] = d[x - 1]
      <4> HIDE DEF q, a, b, u, v
      <4> QED
        BY DEF Levels
    <3> HIDE DEF q
    <3> QED
      BY <3>1, <3>2
  <2> HIDE DEF q, a, b, u, v
  <2>5. /\ Opening(h, q) => a = b + 1
        /\ Closing(h, q) => b = a + 1
        /\ ~Opening(h, q) /\ ~Closing(h, q) => a = b
    <3>1. /\ u = v + 1 => a = b + 1
          /\ v = u + 1 => b = a + 1
          /\ u = v => a = b
      BY <2>2, <2>3, Across
    <3> QED
      BY <2>4, <3>1
  <2> QED
    BY <1>1, <2>5 DEF q, a, b
<1>3. Matched(g, e)
  <2> SUFFICES ASSUME NEW i \in 1..p, NEW m \in 1..p, Opening(g, i), Ends(e, i, m)
               PROVE  Closes(g[m], g[i].name)
    BY DEF Matched
  <2>1. phi[i] \in 1..n /\ phi[m] \in 1..n
    OBVIOUS
  <2>2. Opening(h, phi[i]) /\ Ends(d, phi[i], phi[m])
    BY <1>1
  <2>3. Closes(h[phi[m]], h[phi[i]].name)
    BY <2>1, <2>2 DEF Matched
  <2> QED
    BY <2>3
<1>4. ASSUME NEW k \in 1..p, g[k].kind = "open", InRaw(g, k) PROVE ~Matters(g, k)
  <2>1. phi[k] \in 1..n /\ g[k] = h[phi[k]]
    OBVIOUS
  <2>2. CASE IsVoid(h[phi[k]])
    BY <2>1, <2>2 DEF Matters
  <2>3. CASE InRaw(h, phi[k])
    <3>1. ~Matters(h, phi[k])
      BY <1>4, <2>1, <2>3 DEF WellNested
    <3>2. k \in Artifacts(g) => phi[k] \in Artifacts(h)
      BY <2>1 DEF Artifacts
    <3> QED
      BY <2>1, <3>1, <3>2 DEF Matters
  <2> QED
    BY <1>4, <2>2, <2>3
<1>5. ASSUME NEW k \in 1..p, g[k].kind = "close" PROVE g[k] = Close(g[k].name)
  <2>1. phi[k] \in 1..n /\ g[k] = h[phi[k]]
    OBVIOUS
  <2> QED
    BY <1>5, <2>1 DEF WellNested
<1> QED
  BY <1>2, <1>3, <1>4, <1>5 DEF WellNested
-----------------------------------------------------------------------------
\* An element and the tokens that are left without it.

\* The element at i ends at m.
Span(h, d, n, i, m) ==
  \/ i \in 1..n /\ m = i /\ h[i].kind = "open" /\ IsVoid(h[i])
  \/ ~IsVoid(h[i]) /\ Inside(h, d, n, i, m)

(* Every artifact of well-nested HTML has an end, and Whole goes up to it. *)
LEMMA SpanExists ==
  ASSUME NEW h, PlainHtml(h), WellNested(h), NEW d, NEW n \in Nat, Len(h) = n,
         Levels(h, d), Matched(h, d), NEW i \in Artifacts(h)
  PROVE  \E m \in i..n : Span(h, d, n, i, m) /\ Whole(h, i) = SubSeq(h, i, m)
<1>1. i \in 1..n /\ h[i].kind = "open"
  BY PlainParts DEF Artifacts
<1>2. CASE IsVoid(h[i])
  <2>1. Span(h, d, n, i, i) /\ Whole(h, i) = SubSeq(h, i, i) /\ i \in i..n
    BY <1>1, <1>2 DEF Span, Whole
  <2> QED
    BY <2>1
<1>3. CASE ~IsVoid(h[i])
  <2>1. PICK m \in (i + 1)..n : Inside(h, d, n, i, m)
    BY <1>3, ArtifactInside
  <2>2. SameTags(h, h)
    BY DEF SameTags, SameTag
  <2>3. findCloseEnd(h, i) = m
    BY <2>1, <2>2, FindIs
  <2>4. m \in i..n
    BY <1>1
  <2> QED
    BY <1>3, <2>1, <2>3, <2>4 DEF Span, Whole
<1> QED
  BY <1>2, <1>3

(* The level falls back at the end of an element, and not before. *)
LEMMA SpanFacts ==
  ASSUME NEW h, NEW d, NEW n \in Nat, Len(h) = n, Levels(h, d), NEW i, NEW m,
         Span(h, d, n, i, m)
  PROVE  /\ i \in 1..n /\ m \in i..n /\ h[i].kind = "open"
         /\ d[m] = d[i - 1]
         /\ \A k \in i..(m - 1) : d[k] > d[i - 1]
<1>1. CASE i \in 1..n /\ m = i /\ h[i].kind = "open" /\ IsVoid(h[i])
  <2>1. ~Opening(h, i) /\ ~Closing(h, i)
    BY <1>1 DEF Opening, Closing
  <2>2. d[i] = d[i - 1]
    BY <1>1, <2>1 DEF Levels
  <2> QED
    BY <1>1, <2>2
<1>2. CASE Inside(h, d, n, i, m)
  <2>1. i \in 1..n /\ m \in (i + 1)..n /\ Opening(h, i) /\ Ends(d, i, m)
    BY <1>2 DEF Inside
  <2>2. m \in i..n
    BY <2>1
  <2> QED
    BY <2>1, <2>2 DEF Ends, Opening
<1> QED
  BY <1>1, <1>2 DEF Span

(* All raw text ends. *)
LEMMA RawCloses ==
  ASSUME NEW h, PlainHtml(h), WellNested(h), NEW d, NEW n \in Nat, Len(h) = n, Levels(h, d),
         NEW a \in 1..n
  PROVE  ~Skips(h, a, n)
<1> SUFFICES ASSUME Skips(h, a, n) PROVE FALSE
  OBVIOUS
<1>1. RawOpen(h[a]) /\ \A b \in (a + 1)..n : ~Closes(h[b], h[a].name)
  BY DEF Skips
<1>2. n \in a..n /\ a \in 1..Len(h)
  OBVIOUS
<1>3. \A k \in a..n : d[k] = d[a] /\ (k # a => InRaw(h, k))
  BY <1>1, <1>2, RawLevel
<1>4. d[n] = d[a]
  BY <1>2, <1>3
<1>5. Opening(h, a)
  BY <1>1, <1>2, RawOpens
<1>6. d[a] = d[a - 1] + 1 /\ d[n] = 0 /\ d[a - 1] \in Nat
  BY <1>5 DEF Levels
<1> QED
  BY <1>4, <1>6

(* Raw text does not begin inside an element and outlast it. *)
LEMMA RawStaysInside ==
  ASSUME NEW h, PlainHtml(h), WellNested(h), NEW d, NEW n \in Nat, Len(h) = n, Levels(h, d),
         NEW i, NEW m, Span(h, d, n, i, m), NEW a \in i..m
  PROVE  ~Skips(h, a, m)
<1> SUFFICES ASSUME Skips(h, a, m) PROVE FALSE
  OBVIOUS
<1>1. RawOpen(h[a]) /\ \A b \in (a + 1)..m : ~Closes(h[b], h[a].name)
  BY DEF Skips
<1>2. /\ i \in 1..n /\ m \in i..n /\ d[m] = d[i - 1]
      /\ \A k \in i..(m - 1) : d[k] > d[i - 1]
  BY SpanFacts
<1>3. a \in 1..Len(h) /\ a \in 1..n /\ m \in a..n
  BY <1>2
<1>4. Opening(h, a)
  BY <1>1, <1>3, RawOpens
<1>5. \A k \in a..m : d[k] = d[a] /\ (k # a => InRaw(h, k))
  BY <1>1, <1>3, RawLevel
<1>6. CASE a = m
  <2>1. CASE m = i /\ IsVoid(h[i])
    BY <1>4, <1>6, <2>1 DEF Opening
  <2>2. CASE Inside(h, d, n, i, m)
    <3>1. Closes(h[m], h[i].name)
      BY <2>2, InsideFacts, Zenon
    <3> QED
      BY <1>1, <1>6, <3>1 DEF Closes, RawOpen
  <2> QED
    BY <2>1, <2>2 DEF Span
<1>7. CASE a # m
  <2>1. a \in i..(m - 1) /\ m \in a..m /\ m \in 0..n /\ a \in 0..n /\ i - 1 \in 0..n
    BY <1>2, <1>7
  <2>2. d[m] = d[a] /\ d[a] > d[i - 1]
    BY <1>2, <1>5, <2>1
  <2>3. d[m] \in Nat /\ d[a] \in Nat /\ d[i - 1] \in Nat
    BY <2>1, LevelFacts
  <2> QED
    BY <1>2, <2>2, <2>3
<1> QED
  BY <1>6, <1>7

(* Raw text before an element with content ends before it. *)
LEMMA RawStaysBefore ==
  ASSUME NEW h, NEW d, NEW n \in Nat, NEW i, NEW m, Inside(h, d, n, i, m),
         NEW a \in 1..(i - 1), NEW k \in i..n
  PROVE  ~Skips(h, a, k)
<1>1. i \in 1..n /\ Opening(h, i)
  BY DEF Inside
<1>2. ~Skips(h, a, i)
  BY <1>1, InRawSkips DEF Opening
<1>3. \A b \in (a + 1)..i : b \in (a + 1)..k
  BY <1>1
<1> QED
  BY <1>2, <1>3 DEF Skips

\* The place in h of the token k once the tokens from i to m are taken out, and the levels.
Kept(i, m, k) == IF k < i THEN k ELSE k + (m - i + 1)
KeptLevels(d, p, i, m) == [k \in 0..p |-> IF k < i THEN d[k] ELSE d[k + (m - i + 1)]]

(* The tokens that are left. *)
LEMMA WithoutTokens ==
  ASSUME NEW h, PlainHtml(h), NEW n \in Nat, Len(h) = n, NEW i \in 1..n, NEW m \in i..n,
         Whole(h, i) = SubSeq(h, i, m)
  PROVE  /\ Len(Without(h, i)) = n - (m - i + 1)
         /\ \A k \in 1..(n - (m - i + 1)) : /\ Kept(i, m, k) \in 1..n
                                            /\ Without(h, i)[k] = h[Kept(i, m, k)]
<1> DEFINE S == Tokens(h)
           u == SubSeq(h, 1, i - 1)
           v == SubSeq(h, m + 1, n)
           p == n - (m - i + 1)
<1>1. h \in Seq(S) /\ \A k \in 1..n : h[k] \in S
  BY PlainParts, ElementOfSeq
<1> HIDE DEF S
<1>2. Len(Whole(h, i)) = m - i + 1
  <2>1. i \in Int /\ m \in Int /\ i <= m /\ \A k \in i..m : h[k] \in S
    BY <1>1
  <2> QED
    BY <2>1, SubSeqProperties
<1>3. Without(h, i) = u \o v
  <2>1. i + (m - i + 1) = m + 1
    OBVIOUS
  <2> QED
    BY <1>2, <2>1 DEF Without
<1>4. u \in Seq(S) /\ Len(u) = i - 1 /\ \A k \in 1..(i - 1) : u[k] = h[k]
  <2>1. 1 \in Int /\ i - 1 \in Int /\ \A k \in 1..(i - 1) : h[k] \in S
    BY <1>1
  <2>2. /\ u \in Seq(S) /\ Len(u) = IF 1 <= i - 1 THEN (i - 1) - 1 + 1 ELSE 0
        /\ \A k \in 1..((i - 1) - 1 + 1) : u[k] = h[1 + k - 1]
    BY <2>1, SubSeqProperties
  <2> HIDE DEF u
  <2>3. Len(u) = i - 1
    BY <2>2
  <2>4. ASSUME NEW k \in 1..(i - 1) PROVE u[k] = h[k]
    <3>1. k \in 1..((i - 1) - 1 + 1) /\ 1 + k - 1 = k
      OBVIOUS
    <3> QED
      BY <2>2, <3>1
  <2> QED
    BY <2>2, <2>3, <2>4
<1>5. v \in Seq(S) /\ Len(v) = n - m /\ \A k \in 1..(n - m) : v[k] = h[m + k]
  <2>1. m + 1 \in Int /\ n \in Int /\ \A k \in (m + 1)..n : h[k] \in S
    BY <1>1
  <2>2. /\ v \in Seq(S) /\ Len(v) = IF m + 1 <= n THEN n - (m + 1) + 1 ELSE 0
        /\ \A k \in 1..(n - (m + 1) + 1) : v[k] = h[(m + 1) + k - 1]
    BY <2>1, SubSeqProperties
  <2> HIDE DEF v
  <2>3. Len(v) = n - m
    BY <2>2
  <2>4. ASSUME NEW k \in 1..(n - m) PROVE v[k] = h[m + k]
    <3>1. k \in 1..(n - (m + 1) + 1) /\ (m + 1) + k - 1 = m + k
      OBVIOUS
    <3> QED
      BY <2>2, <3>1
  <2> QED
    BY <2>2, <2>3, <2>4
<1> HIDE DEF u, v
<1> DEFINE x == Len(u)
           y == Len(v)
<1>6. /\ Len(u \o v) = x + y
      /\ \A k \in 1..(x + y) : (u \o v)[k] = IF k <= x THEN u[k] ELSE v[k - x]
  BY <1>4, <1>5, ConcatProperties
<1>7. x = i - 1 /\ y = n - m /\ x + y = p
  BY <1>4, <1>5
<1> HIDE DEF x, y
<1>8. ASSUME NEW k \in 1..p
      PROVE  Kept(i, m, k) \in 1..n /\ (u \o v)[k] = h[Kept(i, m, k)]
  <2>1. CASE k < i
    <3>1. k <= x /\ k \in 1..(i - 1) /\ k \in 1..(x + y) /\ Kept(i, m, k) = k /\ k \in 1..n
      BY <1>7, <2>1 DEF Kept
    <3> QED
      BY <1>4, <1>6, <3>1
  <2>2. CASE ~(k < i)
    <3>1. /\ ~(k <= x) /\ k - x \in 1..(n - m) /\ k \in 1..(x + y)
          /\ Kept(i, m, k) = m + (k - x) /\ m + (k - x) \in 1..n
      BY <1>7, <2>2 DEF Kept
    <3> QED
      BY <1>5, <1>6, <3>1
  <2> QED
    BY <2>1, <2>2
<1> QED
  BY <1>3, <1>6, <1>7, <1>8
-----------------------------------------------------------------------------
\* Raw text without the element.

\* g shows from a to k what h shows c tokens later.
Shifted(g, h, a, k, c) == \A b \in a..k : g[b] = h[b + c]

(* Whether raw text goes on depends on the tokens from where it begins. *)
LEMMA SkipsShift ==
  ASSUME NEW g, NEW h, NEW a \in Int, NEW k \in Int, a <= k, NEW c \in Int,
         Shifted(g, h, a, k, c), NEW u, u = a + c, NEW v, v = k + c
  PROVE  Skips(g, a, k) <=> Skips(h, u, v)
<1> USE DEF Shifted
<1>1. a \in a..k /\ g[a] = h[a + c]
  OBVIOUS
<1> SUFFICES Skips(g, a, k) <=> Skips(h, a + c, k + c)
  OBVIOUS
<1>2. ASSUME Skips(g, a, k), NEW b \in (a + c + 1)..(k + c) PROVE ~Closes(h[b], h[a + c].name)
  <2>1. b - c \in a..k /\ b - c \in (a + 1)..k /\ (b - c) + c = b
    OBVIOUS
  <2> QED
    BY <1>1, <1>2, <2>1 DEF Skips
<1>3. ASSUME Skips(h, a + c, k + c), NEW b \in (a + 1)..k PROVE ~Closes(g[b], g[a].name)
  <2>1. b \in a..k /\ b + c \in (a + c + 1)..(k + c)
    OBVIOUS
  <2> QED
    BY <1>1, <1>3, <2>1 DEF Skips
<1> QED
  BY <1>1, <1>2, <1>3 DEF Skips

(* The same without a shift. *)
LEMMA SkipsSame ==
  ASSUME NEW g, NEW h, NEW a \in Int, NEW k \in Int, a <= k, \A b \in a..k : g[b] = h[b]
  PROVE  Skips(g, a, k) <=> Skips(h, a, k)
<1>1. a \in a..k /\ \A b \in (a + 1)..k : b \in a..k
  OBVIOUS
<1>2. g[a] = h[a] /\ \A b \in (a + 1)..k : g[b] = h[b]
  BY <1>1
<1> QED
  BY <1>2 DEF Skips

(* Raw text that goes on to k has gone on to every token before. *)
LEMMA SkipsUpTo ==
  ASSUME NEW h, NEW a \in Int, NEW k \in Int, NEW j \in a..k, Skips(h, a, k)
  PROVE  Skips(h, a, j)
<1>1. \A b \in (a + 1)..j : b \in (a + 1)..k
  OBVIOUS
<1> QED
  BY <1>1 DEF Skips

(* Taking an element out leaves the rest in raw text or outside it. *)
LEMMA WithoutRaw ==
  ASSUME NEW h, PlainHtml(h), WellNested(h), NEW d, NEW n \in Nat, Len(h) = n, Levels(h, d),
         NEW i, NEW m, Span(h, d, n, i, m), NEW g, NEW p, p = n - (m - i + 1),
         \A k \in 1..p : Kept(i, m, k) \in 1..n /\ g[k] = h[Kept(i, m, k)],
         NEW k \in 1..p
  PROVE  InRaw(g, k) <=> InRaw(h, Kept(i, m, k))
<1> DEFINE L == m - i + 1
           q == Kept(i, m, k)
<1>1. /\ i \in 1..n /\ m \in i..n /\ h[i].kind = "open" /\ L \in Int /\ p \in Int
      /\ L = m - i + 1 /\ q = IF k < i THEN k ELSE k + L
  BY SpanFacts DEF Kept
<1>2. /\ \A b \in 1..p : b < i => g[b] = h[b]
      /\ \A b \in 1..p : ~(b < i) => g[b] = h[b + L]
  BY DEF Kept
<1> HIDE DEF L, q
<1>3. ASSUME NEW a \in 1..(k - 1), a < i
      PROVE  Skips(g, a, k) <=> Skips(h, a, q)
  <2>1. CASE k < i
    <3>1. \A b \in a..k : g[b] = h[b]
      <4> SUFFICES ASSUME NEW b \in a..k PROVE g[b] = h[b]
        OBVIOUS
      <4>1. b \in 1..p /\ b < i
        BY <1>1, <2>1
      <4> QED
        BY <1>2, <4>1
    <3>2. Skips(g, a, k) <=> Skips(h, a, k)
      <4>1. a \in Int /\ k \in Int /\ a <= k
        OBVIOUS
      <4> QED
        BY <3>1, <4>1, SkipsSame
    <3>3. q = k
      BY <1>1, <2>1
    <3> QED
      BY <3>2, <3>3
  <2>2. CASE ~(k < i)
    <3>1. q = k + L /\ a \in 1..p /\ g[a] = h[a] /\ a \in 1..(i - 1)
      BY <1>1, <1>2, <1>3, <2>2
    <3>2. ASSUME Skips(h, a, q), NEW b \in (a + 1)..k PROVE ~Closes(g[b], g[a].name)
      <4>1. CASE b < i
        <5>1. b \in (a + 1)..q /\ g[b] = h[b]
          BY <1>1, <1>2, <3>1, <4>1
        <5> QED
          BY <3>1, <3>2, <5>1 DEF Skips
      <4>2. CASE ~(b < i)
        <5>1. b + L \in (a + 1)..q /\ g[b] = h[b + L]
          BY <1>1, <1>2, <3>1, <4>2
        <5> QED
          BY <3>1, <3>2, <5>1 DEF Skips
      <4> QED
        BY <4>1, <4>2
    <3>3. ASSUME Skips(g, a, k) PROVE Skips(h, a, q)
      <4>1. ASSUME NEW b \in (a + 1)..i PROVE ~Closes(h[b], h[a].name)
        <5>1. CASE b = i
          BY <1>1, <5>1 DEF Closes
        <5>2. CASE b # i
          <6>1. b \in (a + 1)..k /\ b < i /\ b \in 1..p
            BY <1>1, <2>2, <5>2
          <6> QED
            BY <1>2, <3>1, <3>3, <6>1 DEF Skips
        <5> QED
          BY <5>1, <5>2
      <4>2. Skips(h, a, i)
        BY <3>1, <3>3, <4>1 DEF Skips
      <4>3. m = i
        <5>1. ~Inside(h, d, n, i, m)
          <6>1. i \in i..n
            BY <1>1
          <6> QED
            BY <3>1, <4>2, <6>1, RawStaysBefore
        <5> QED
          BY <5>1 DEF Span
      <4>4. ASSUME NEW b \in (a + 1)..q, ~(b \in (a + 1)..i) PROVE ~Closes(h[b], h[a].name)
        <5>1. L = 1 /\ q = k + 1 /\ b > i /\ b \in Int
          <6>1. L = 1 /\ q = k + 1
            BY <1>1, <3>1, <4>3
          <6>2. b \in Int /\ b >= a + 1 /\ i \in Int /\ a \in Int
            BY <1>1
          <6> QED
            BY <4>4, <6>1, <6>2
        <5>2. b - 1 \in (a + 1)..k /\ ~(b - 1 < i) /\ b - 1 \in 1..p /\ (b - 1) + 1 = b
          BY <1>1, <1>3, <4>4, <5>1
        <5> QED
          BY <1>2, <3>1, <3>3, <5>1, <5>2 DEF Skips
      <4> QED
        BY <3>1, <3>3, <4>1, <4>4 DEF Skips
    <3> QED
      BY <3>1, <3>2, <3>3 DEF Skips
  <2> QED
    BY <2>1, <2>2
<1>4. ASSUME NEW a \in 1..(k - 1), ~(a < i)
      PROVE  Skips(g, a, k) <=> Skips(h, a + L, q)
  <2>1. Shifted(g, h, a, k, L)
    <3> SUFFICES ASSUME NEW b \in a..k PROVE g[b] = h[b + L]
      BY DEF Shifted
    <3>1. b \in 1..p /\ ~(b < i)
      BY <1>1, <1>4
    <3> QED
      BY <1>2, <3>1
  <2>2. q = k + L /\ a \in Int /\ k \in Int /\ a <= k /\ L \in Int
    BY <1>1, <1>4
  <2>3. a + L = a + L
    OBVIOUS
  <2> QED
    BY <2>1, <2>2, <2>3, SkipsShift
<1>5. ASSUME InRaw(g, k) PROVE InRaw(h, q)
  <2>1. PICK a \in 1..(k - 1) : Skips(g, a, k)
    BY <1>5, InRawSkips
  <2>2. CASE a < i
    <3>1. a \in 1..(q - 1)
      BY <1>1, <2>2
    <3> QED
      BY <1>3, <2>1, <2>2, <3>1, InRawSkips
  <2>3. CASE ~(a < i)
    <3>1. a + L \in 1..(q - 1)
      BY <1>1, <2>3
    <3> QED
      BY <1>4, <2>1, <2>3, <3>1, InRawSkips
  <2> QED
    BY <2>2, <2>3
<1>6. ASSUME InRaw(h, q) PROVE InRaw(g, k)
  <2>1. PICK a \in 1..(q - 1) : Skips(h, a, q)
    BY <1>6, InRawSkips
  <2>2. CASE a < i /\ a < k
    <3>1. a \in 1..(k - 1)
      BY <2>2
    <3> QED
      BY <1>3, <2>1, <2>2, <3>1, InRawSkips
  <2>3. CASE ~(k < i) /\ a \in i..m
    <3>1. m \in a..q /\ a \in Int /\ q \in Int
      BY <1>1, <2>3
    <3>2. Skips(h, a, m)
      BY <2>1, <3>1, SkipsUpTo
    <3> QED
      BY <2>3, <3>2, RawStaysInside
  <2>4. CASE ~(k < i) /\ a > m
    <3>1. q = k + L /\ L = m - i + 1 /\ m \in Int /\ i \in Nat /\ i >= 1 /\ a <= q - 1
      BY <1>1, <2>4
    <3>3. a \in Int /\ k \in Int /\ L \in Int
      BY <1>1
    <3>4. a - L > i - 1 /\ a - L <= k - 1 /\ (a - L) + L = a
      BY <2>4, <3>1, <3>3
    <3>2. a - L \in 1..(k - 1) /\ ~(a - L < i)
      BY <3>1, <3>3, <3>4
    <3> QED
      BY <1>4, <2>1, <3>2, <3>4, InRawSkips
  <2> QED
    BY <1>1, <2>2, <2>3, <2>4
<1> QED
  BY <1>5, <1>6 DEF q
-----------------------------------------------------------------------------
\* Levels without the element.

\* The levels that are left when the element from i to m is taken out of n tokens.
Cutout(d, n, i, m, p) ==
  /\ d \in [0..n -> Nat] /\ i \in 1..n /\ m \in i..n /\ d[m] = d[i - 1]
  /\ \A k \in i..(m - 1) : d[k] > d[i - 1]
  /\ p = n - (m - i + 1)

(* The levels that are left are those around the tokens that are left. *)
LEMMA KeptStep ==
  ASSUME NEW d, NEW n \in Nat, NEW i, NEW m, NEW p, Cutout(d, n, i, m, p), NEW k \in 1..p
  PROVE  /\ Kept(i, m, k) \in 1..n
         /\ KeptLevels(d, p, i, m)[k] = d[Kept(i, m, k)]
         /\ KeptLevels(d, p, i, m)[k - 1] = d[Kept(i, m, k) - 1]
<1> DEFINE L == m - i + 1
           e == KeptLevels(d, p, i, m)
<1>1. /\ i \in 1..n /\ m \in i..n /\ d[m] = d[i - 1] /\ p = n - L /\ L \in Int /\ L = m - i + 1
      /\ p \in Int
  BY DEF Cutout
<1>2. \A x \in 0..p : e[x] = IF x < i THEN d[x] ELSE d[x + L]
  BY DEF KeptLevels
<1>3. Kept(i, m, k) = IF k < i THEN k ELSE k + L
  BY DEF Kept
<1> HIDE DEF L, e
<1>4. k \in 0..p /\ k - 1 \in 0..p /\ Kept(i, m, k) \in 1..n
  BY <1>1, <1>3
<1>5. CASE k < i
  <2>1. k - 1 < i
    BY <1>1, <1>5
  <2> QED
    BY <1>2, <1>3, <1>4, <1>5, <2>1 DEF e
<1>6. CASE k = i
  <2>1. ~(k < i) /\ k - 1 < i /\ (k + L) - 1 = m
    BY <1>1, <1>6
  <2>2. e[k] = d[k + L] /\ e[k - 1] = d[i - 1] /\ Kept(i, m, k) = k + L
    BY <1>2, <1>3, <1>4, <1>6, <2>1
  <2> QED
    BY <1>1, <1>4, <2>1, <2>2 DEF e
<1>7. CASE k > i
  <2>1. ~(k < i) /\ ~(k - 1 < i) /\ (k + L) - 1 = (k - 1) + L
    BY <1>1, <1>7
  <2>2. e[k] = d[k + L] /\ e[k - 1] = d[(k - 1) + L] /\ Kept(i, m, k) = k + L
    BY <1>2, <1>3, <1>4, <2>1
  <2> QED
    BY <1>4, <2>1, <2>2 DEF e
<1> QED
  BY <1>1, <1>5, <1>6, <1>7

(* They begin and end with no open element. *)
LEMMA KeptType ==
  ASSUME NEW d, NEW n \in Nat, NEW i, NEW m, NEW p, Cutout(d, n, i, m, p),
         d[0] = 0, d[n] = 0
  PROVE  /\ p \in Nat /\ KeptLevels(d, p, i, m) \in [0..p -> Nat]
         /\ KeptLevels(d, p, i, m)[0] = 0 /\ KeptLevels(d, p, i, m)[p] = 0
<1> DEFINE L == m - i + 1
           e == KeptLevels(d, p, i, m)
<1>1. /\ i \in 1..n /\ m \in i..n /\ d[m] = d[i - 1] /\ p = n - L /\ L \in Int /\ L = m - i + 1
      /\ p \in Nat /\ \A k \in 0..n : d[k] \in Nat
  BY DEF Cutout
<1>2. /\ \A x \in 0..p : e[x] = IF x < i THEN d[x] ELSE d[x + L]
      /\ e = [k \in 0..p |-> IF k < i THEN d[k] ELSE d[k + L]]
  BY DEF KeptLevels
<1> HIDE DEF L, e
<1>3. \A k \in 0..p : (IF k < i THEN d[k] ELSE d[k + L]) \in Nat
  <2> SUFFICES ASSUME NEW k \in 0..p PROVE (IF k < i THEN d[k] ELSE d[k + L]) \in Nat
    OBVIOUS
  <2>1. k \in 0..n /\ k + L \in 0..n
    BY <1>1
  <2> QED
    BY <1>1, <2>1
<1>4. e \in [0..p -> Nat]
  BY <1>2, <1>3
<1>5. e[0] = 0
  BY <1>1, <1>2
<1>6. e[p] = 0
  <2>1. p \in 0..p
    BY <1>1
  <2>2. CASE p < i
    <3>1. m = n /\ p = i - 1
      BY <1>1, <2>2
    <3> QED
      BY <1>1, <1>2, <2>1, <2>2, <3>1
  <2>3. CASE ~(p < i)
    <3>1. p + L = n
      BY <1>1
    <3> QED
      BY <1>2, <2>1, <2>3, <3>1
  <2> QED
    BY <2>2, <2>3
<1> QED
  BY <1>1, <1>4, <1>5, <1>6 DEF e

(* What ends without the element ends with it. *)
LEMMA KeptEnds ==
  ASSUME NEW d, NEW n \in Nat, NEW i, NEW m, NEW p \in Nat, Cutout(d, n, i, m, p),
         NEW x \in 1..p, NEW y \in 1..p, Ends(KeptLevels(d, p, i, m), x, y)
  PROVE  Ends(d, Kept(i, m, x), Kept(i, m, y))
<1> DEFINE L == m - i + 1
           e == KeptLevels(d, p, i, m)
           u == Kept(i, m, x)
           v == Kept(i, m, y)
<1>1. /\ i \in 1..n /\ m \in i..n /\ p = n - L /\ L \in Int /\ L = m - i + 1
      /\ \A k \in 0..n : d[k] \in Nat
      /\ d[m] = d[i - 1] /\ \A k \in i..(m - 1) : d[k] > d[i - 1]
  BY DEF Cutout
<1>2. \A k \in 0..p : e[k] = IF k < i THEN d[k] ELSE d[k + L]
  BY DEF KeptLevels
<1>3. /\ u = IF x < i THEN x ELSE x + L
      /\ v = IF y < i THEN y ELSE y + L
  BY DEF Kept
<1>4. u \in 1..n /\ v \in 1..n /\ d[v] = e[y] /\ d[u - 1] = e[x - 1]
  BY KeptStep
<1>5. x < y /\ e[y] = e[x - 1] /\ \A k \in x..(y - 1) : e[k] > e[x - 1]
  BY DEF Ends
<1> HIDE DEF L, e, u, v
<1>6. u < v
  BY <1>1, <1>3, <1>5
<1>7. ASSUME NEW q \in u..(v - 1) PROVE d[q] > d[u - 1]
  <2>1. q \in 0..n /\ q \in Int /\ u \in Int /\ v \in Int /\ u <= q /\ q <= v - 1
    BY <1>4
  <2>2. CASE q < i
    <3>1. q \in x..(y - 1) /\ q \in 0..p
      BY <1>1, <1>3, <2>1, <2>2
    <3> QED
      BY <1>2, <1>4, <1>5, <2>2, <3>1
  <2>3. CASE q > m
    <3>1. q - L \in x..(y - 1) /\ q - L \in 0..p /\ ~(q - L < i) /\ (q - L) + L = q
      BY <1>1, <1>3, <2>1, <2>3
    <3> QED
      BY <1>2, <1>4, <1>5, <3>1
  <2>4. CASE q \in i..m
    <3>1. x < i /\ ~(y < i)
      BY <1>1, <1>3, <2>1, <2>4
    <3>2. i - 1 \in x..(y - 1) /\ i - 1 \in 0..p /\ i - 1 < i
      BY <1>1, <3>1
    <3>3. e[i - 1] > e[x - 1] /\ e[i - 1] = d[i - 1]
      BY <1>2, <1>5, <3>2
    <3>4. d[q] = d[i - 1] \/ d[q] > d[i - 1]
      BY <1>1, <2>4
    <3>5. i - 1 \in 0..n /\ u - 1 \in 0..n
      BY <1>1, <1>4
    <3>6. d[q] \in Nat /\ d[i - 1] \in Nat /\ d[u - 1] \in Nat
      BY <1>1, <2>1, <3>5
    <3> QED
      BY <1>4, <3>3, <3>4, <3>6
  <2> QED
    BY <1>1, <2>1, <2>2, <2>3, <2>4
<1>8. d[v] = d[u - 1]
  BY <1>4, <1>5
<1> QED
  BY <1>6, <1>7, <1>8 DEF Ends, u, v

(* Taking an element out keeps the nesting. *)
LEMMA WithoutNests ==
  ASSUME NEW h, PlainHtml(h), WellNested(h), NEW i \in Artifacts(h)
  PROVE  WellNested(Without(h, i))
<1>1. PICK d : Levels(h, d) /\ Matched(h, d)
  BY DEF WellNested
<1>2. PICK n \in Nat : DOMAIN h = 1..n /\ Len(h) = n
  BY PlainParts
<1>3. PICK m \in i..n : Span(h, d, n, i, m) /\ Whole(h, i) = SubSeq(h, i, m)
  BY <1>1, <1>2, SpanExists
<1> DEFINE p == n - (m - i + 1)
           g == Without(h, i)
           e == KeptLevels(d, p, i, m)
           phi == [k \in 1..p |-> Kept(i, m, k)]
<1>4. /\ i \in 1..n /\ m \in i..n /\ h[i].kind = "open"
      /\ d[m] = d[i - 1]
      /\ \A k \in i..(m - 1) : d[k] > d[i - 1]
  <2>1. n \in Nat /\ Len(h) = n /\ Levels(h, d) /\ Span(h, d, n, i, m)
    BY <1>1, <1>2, <1>3
  <2> QED
    BY <2>1, SpanFacts
<1>5. Len(g) = p /\ \A k \in 1..p : Kept(i, m, k) \in 1..n /\ g[k] = h[Kept(i, m, k)]
  BY <1>2, <1>3, <1>4, WithoutTokens
<1>6. d \in [0..n -> Nat] /\ d[0] = 0 /\ d[n] = 0
  BY <1>1, <1>2 DEF Levels
<1>7. Cutout(d, n, i, m, p)
  BY <1>4, <1>6 DEF Cutout
<1> HIDE DEF p
<1>8. p \in Nat /\ e \in [0..p -> Nat] /\ e[0] = 0 /\ e[p] = 0
  BY <1>2, <1>6, <1>7, KeptType
<1>9. phi \in [1..p -> 1..n] /\ \A k \in 1..p : phi[k] = Kept(i, m, k)
  BY <1>5
<1> HIDE DEF g, phi
<1>10. \A k \in 1..p : g[k] = h[phi[k]]
  BY <1>5, <1>9
<1>11. \A k \in 1..p : \/ InRaw(g, k) <=> InRaw(h, phi[k])
                       \/ h[phi[k]].kind = "open" /\ IsVoid(h[phi[k]])
  <2>1. p = n - (m - i + 1)
    BY DEF p
  <2> SUFFICES ASSUME NEW k \in 1..p PROVE InRaw(g, k) <=> InRaw(h, phi[k])
    OBVIOUS
  <2>2. InRaw(g, k) <=> InRaw(h, Kept(i, m, k))
    BY <1>1, <1>2, <1>3, <1>5, <2>1, WithoutRaw
  <2> QED
    BY <1>9, <2>2
<1>12. \A k \in 1..p : e[k] + d[phi[k] - 1] = e[k - 1] + d[phi[k]]
  <2> SUFFICES ASSUME NEW k \in 1..p PROVE e[k] + d[phi[k] - 1] = e[k - 1] + d[phi[k]]
    OBVIOUS
  <2>1. e[k] = d[Kept(i, m, k)] /\ e[k - 1] = d[Kept(i, m, k) - 1]
    BY <1>2, <1>7, KeptStep
  <2>2. e[k] = d[phi[k]] /\ e[k - 1] = d[phi[k] - 1]
    BY <1>9, <2>1
  <2>3. k \in 0..p /\ k - 1 \in 0..p
    BY <1>8
  <2> HIDE DEF e
  <2>4. e[k] \in Nat /\ e[k - 1] \in Nat
    BY <1>8, <2>3
  <2> QED
    BY <2>2, <2>4
<1>13. \A x, y \in 1..p : Opening(g, x) /\ Ends(e, x, y) => Ends(d, phi[x], phi[y])
  <2> SUFFICES ASSUME NEW x \in 1..p, NEW y \in 1..p, Ends(e, x, y)
               PROVE  Ends(d, phi[x], phi[y])
    OBVIOUS
  <2>1. Ends(d, Kept(i, m, x), Kept(i, m, y))
    BY <1>2, <1>7, <1>8, KeptEnds
  <2> QED
    BY <1>9, <2>1
<1> HIDE DEF e
<1>14. Pieces(g, p, e, phi, h, n, d)
  BY <1>1, <1>2, <1>5, <1>8, <1>9, <1>10, <1>11, <1>12, <1>13, Zenon DEF Pieces
<1>15. WellNested(g)
  BY <1>2, <1>8, <1>14, NestPieces
<1> QED
  BY <1>15 DEF g
-----------------------------------------------------------------------------
\* An element copied to the end.

\* The place in h of the token k once the tokens from i on are copied to the end of the n
\* tokens of h, and the levels.
Twin(n, i, k) == IF k <= n THEN k ELSE k + (i - 1 - n)
TwinLevels(d, n, i, p) ==
  [k \in 0..p |-> IF k <= n THEN d[k] ELSE d[k + (i - 1 - n)] - d[i - 1]]

\* The p tokens of g are those of h and again those from i on.
IsCopy(g, p, h, n, i) ==
  Len(g) = p /\ \A k \in 1..p : Twin(n, i, k) \in 1..n /\ g[k] = h[Twin(n, i, k)]

(* The tokens of HTML with a copy. *)
LEMMA CopiedTokens ==
  ASSUME NEW h, PlainHtml(h), NEW n \in Nat, Len(h) = n, NEW i \in 1..n, NEW m \in i..n,
         Whole(h, i) = SubSeq(h, i, m), NEW p, p = n + (m - i + 1)
  PROVE  IsCopy(Copied(h, i, n), p, h, n, i)
<1> DEFINE S == Tokens(h)
           u == SubSeq(h, 1, n)
           v == SubSeq(h, i, m)
           z == SubSeq(h, n + 1, n)
<1>1. h \in Seq(S) /\ \A k \in 1..n : h[k] \in S
  BY PlainParts, ElementOfSeq
<1> HIDE DEF S
<1>3. Copied(h, i, n) = u \o v \o z
  BY DEF Copied
<1>4. u \in Seq(S) /\ Len(u) = n /\ \A k \in 1..n : u[k] = h[k]
  <2>1. 1 \in Int /\ n \in Int /\ \A k \in 1..n : h[k] \in S
    BY <1>1
  <2>2. /\ u \in Seq(S) /\ Len(u) = IF 1 <= n THEN n - 1 + 1 ELSE 0
        /\ \A k \in 1..(n - 1 + 1) : u[k] = h[1 + k - 1]
    BY <2>1, SubSeqProperties
  <2> HIDE DEF u
  <2>3. Len(u) = n
    BY <2>2
  <2>4. ASSUME NEW k \in 1..n PROVE u[k] = h[k]
    <3>1. k \in 1..(n - 1 + 1) /\ 1 + k - 1 = k
      OBVIOUS
    <3> QED
      BY <2>2, <3>1
  <2> QED
    BY <2>2, <2>3, <2>4
<1>5. v \in Seq(S) /\ Len(v) = m - i + 1 /\ \A k \in 1..(m - i + 1) : v[k] = h[i + k - 1]
  <2>1. i \in Int /\ m \in Int /\ i <= m /\ \A k \in i..m : h[k] \in S
    BY <1>1
  <2>2. /\ v \in Seq(S) /\ Len(v) = IF i <= m THEN m - i + 1 ELSE 0
        /\ \A k \in 1..(m - i + 1) : v[k] = h[i + k - 1]
    BY <2>1, SubSeqProperties
  <2> HIDE DEF v
  <2> QED
    BY <2>1, <2>2
<1>6. z = <<>>
  <2>1. n + 1 \in Int /\ n \in Int /\ n + 1 > n /\ \A k \in (n + 1)..n : h[k] \in S
    OBVIOUS
  <2>2. z \in Seq(S) /\ Len(z) = IF n + 1 <= n THEN n - (n + 1) + 1 ELSE 0
    BY <2>1, SubSeqProperties
  <2> HIDE DEF z
  <2>3. Len(z) = 0
    BY <2>1, <2>2
  <2> QED
    BY <2>2, <2>3, EmptySeq
<1> HIDE DEF u, v, z
<1> DEFINE x == Len(u)
           y == Len(v)
<1>7. /\ u \o v \in Seq(S) /\ Len(u \o v) = x + y
      /\ \A k \in 1..(x + y) : (u \o v)[k] = IF k <= x THEN u[k] ELSE v[k - x]
  BY <1>4, <1>5, ConcatProperties
<1>8. Copied(h, i, n) = u \o v
  BY <1>3, <1>6, <1>7, ConcatEmptySeq
<1>9. x = n /\ y = m - i + 1 /\ x + y = p
  BY <1>4, <1>5
<1> HIDE DEF x, y
<1>10. ASSUME NEW k \in 1..p
       PROVE  Twin(n, i, k) \in 1..n /\ (u \o v)[k] = h[Twin(n, i, k)]
  <2>1. CASE k <= n
    <3>1. k <= x /\ k \in 1..n /\ k \in 1..(x + y) /\ Twin(n, i, k) = k
      BY <1>9, <2>1 DEF Twin
    <3> QED
      BY <1>4, <1>7, <3>1
  <2>2. CASE ~(k <= n)
    <3>1. /\ ~(k <= x) /\ k - x \in 1..(m - i + 1) /\ k \in 1..(x + y)
          /\ Twin(n, i, k) = i + (k - x) - 1 /\ i + (k - x) - 1 \in 1..n
      BY <1>9, <2>2 DEF Twin
    <3> QED
      BY <1>5, <1>7, <3>1
  <2> QED
    BY <2>1, <2>2
<1> QED
  BY <1>7, <1>8, <1>9, <1>10 DEF IsCopy

(* An element that is copied to the end has the same raw text, and none before it goes on
   into the copy. *)
LEMMA CopiedRaw ==
  ASSUME NEW h, PlainHtml(h), WellNested(h), NEW d, NEW n \in Nat, Len(h) = n, Levels(h, d),
         NEW i, NEW m, Span(h, d, n, i, m), NEW g, NEW p, p = n + (m - i + 1),
         IsCopy(g, p, h, n, i), NEW k \in 1..p
  PROVE  \/ InRaw(g, k) <=> InRaw(h, Twin(n, i, k))
         \/ h[Twin(n, i, k)].kind = "open" /\ IsVoid(h[Twin(n, i, k)])
<1> DEFINE L == i - 1 - n
           q == Twin(n, i, k)
<1>1. /\ i \in 1..n /\ m \in i..n /\ h[i].kind = "open" /\ L \in Int /\ p \in Int
      /\ L = i - 1 - n /\ q = IF k <= n THEN k ELSE k + L
  <2>1. \A b \in 1..p : Twin(n, i, b) \in 1..n
    BY DEF IsCopy
  <2>2. i \in 1..n /\ m \in i..n /\ h[i].kind = "open"
    BY SpanFacts
  <2>3. q = IF k <= n THEN k ELSE k + L
    BY DEF Twin
  <2> QED
    BY <2>2, <2>3
<1>2. /\ \A b \in 1..p : b <= n => g[b] = h[b]
      /\ \A b \in 1..p : ~(b <= n) => g[b] = h[b + L]
  BY DEF Twin, IsCopy
<1> HIDE DEF L, q
<1>3. ASSUME NEW a \in 1..n, NEW j \in a..n, j \in 1..p
      PROVE  Skips(g, a, j) <=> Skips(h, a, j)
  <2>1. a \in Int /\ j \in Int /\ a <= j
    OBVIOUS
  <2>2. \A b \in a..j : g[b] = h[b]
    <3> SUFFICES ASSUME NEW b \in a..j PROVE g[b] = h[b]
      OBVIOUS
    <3>1. b \in 1..p /\ b <= n
      BY <1>1
    <3> QED
      BY <1>2, <3>1
  <2> QED
    BY <2>1, <2>2, SkipsSame
<1>4. CASE k <= n
  <2>1. q = k /\ \A a \in 1..(k - 1) : a \in 1..n /\ k \in a..n
    BY <1>1, <1>4
  <2>2. \A a \in 1..(k - 1) : Skips(g, a, k) <=> Skips(h, a, k)
    BY <1>3, <2>1
  <2> QED
    BY <2>1, <2>2, InRawSkips DEF q
<1>5. CASE ~(k <= n) /\ m = i /\ IsVoid(h[i])
  <2>1. q = i
    <3>1. i \in Nat /\ p = n + 1 /\ q = k + L
      BY <1>1, <1>5
    <3>2. k = n + 1
      BY <1>5, <3>1
    <3> QED
      BY <1>1, <3>1, <3>2
  <2> QED
    BY <1>1, <1>5, <2>1 DEF q
<1>6. CASE ~(k <= n) /\ Inside(h, d, n, i, m)
  <2>1. q = k + L /\ q \in i..m /\ k \in Int /\ k > n
    BY <1>1, <1>6
  <2>2. ASSUME NEW a \in (n + 1)..(k - 1)
        PROVE  Skips(g, a, k) <=> Skips(h, a + L, q)
    <3>1. Shifted(g, h, a, k, L)
      <4> SUFFICES ASSUME NEW b \in a..k PROVE g[b] = h[b + L]
        BY DEF Shifted
      <4>1. b \in 1..p /\ ~(b <= n)
        BY <1>1
      <4> QED
        BY <1>2, <4>1
    <3>2. a \in Int /\ k \in Int /\ a <= k /\ L \in Int /\ a + L = a + L /\ q = k + L
      BY <1>1, <2>1
    <3> QED
      BY <3>1, <3>2, SkipsShift
  <2>3. ASSUME InRaw(g, k) PROVE InRaw(h, q)
    <3>1. PICK a \in 1..(k - 1) : Skips(g, a, k)
      BY <2>3, InRawSkips
    <3>2. CASE a <= n
      <4>1. a \in 1..n /\ n \in a..n /\ n \in 1..p /\ a \in Int /\ k \in Int /\ n \in a..k
        BY <1>1, <2>1, <3>2
      <4>2. Skips(g, a, n)
        BY <3>1, <4>1, SkipsUpTo
      <4>3. Skips(h, a, n)
        BY <1>3, <4>1, <4>2
      <4> QED
        BY <4>1, <4>3, RawCloses
    <3>3. CASE ~(a <= n)
      <4>1. a \in (n + 1)..(k - 1) /\ a + L \in 1..(q - 1)
        BY <1>1, <2>1, <3>3
      <4> QED
        BY <2>2, <3>1, <4>1, InRawSkips
    <3> QED
      BY <3>2, <3>3
  <2>4. ASSUME InRaw(h, q) PROVE InRaw(g, k)
    <3>1. PICK a \in 1..(q - 1) : Skips(h, a, q)
      BY <2>4, InRawSkips
    <3>2. a \notin 1..(i - 1)
      <4>1. q \in i..n
        BY <1>1, <2>1
      <4> QED
        BY <1>6, <3>1, <4>1, RawStaysBefore
    <3>3. a - L \in (n + 1)..(k - 1) /\ a - L \in 1..(k - 1) /\ (a - L) + L = a
      BY <1>1, <2>1, <3>2
    <3> QED
      BY <2>2, <3>1, <3>3, InRawSkips
  <2> QED
    BY <2>3, <2>4 DEF q
<1> QED
  BY <1>4, <1>5, <1>6 DEF Span
-----------------------------------------------------------------------------
\* Levels of the copy.

\* An element of n tokens, from i to m, that is copied to their end.
Repeated(d, n, i, m, p) ==
  /\ d \in [0..n -> Nat] /\ i \in 1..n /\ m \in i..n /\ d[m] = d[i - 1] /\ d[0] = 0 /\ d[n] = 0
  /\ \A k \in i..(m - 1) : d[k] > d[i - 1]
  /\ p = n + (m - i + 1)

\* e repeats the levels d, and then those of the element from its own level on.
Levelled(d, n, i, m, p, e) ==
  /\ i \in 1..n /\ m \in i..n /\ p \in Nat /\ p = m - (i - 1 - n) /\ i - 1 - n \in Int
  /\ \A k \in 0..n : d[k] \in Nat
  /\ \A k \in 0..p : k <= n => e[k] = d[k]
  /\ \A k \in n..p : e[k] = d[k + (i - 1 - n)] - d[i - 1]

(* The levels of a copy are those of the element, less those before it. *)
LEMMA TwinFacts ==
  ASSUME NEW d, NEW n \in Nat, NEW i, NEW m, NEW p, Repeated(d, n, i, m, p)
  PROVE  Levelled(d, n, i, m, p, TwinLevels(d, n, i, p))
<1> DEFINE L == i - 1 - n
<1>1. /\ i \in 1..n /\ m \in i..n /\ p \in Nat /\ p = m - L /\ L \in Int
      /\ \A k \in 0..n : d[k] \in Nat
  BY DEF Repeated
<1>2. \A k \in 0..p : k <= n => TwinLevels(d, n, i, p)[k] = d[k]
  BY DEF TwinLevels
<1>3. ASSUME NEW k \in n..p PROVE TwinLevels(d, n, i, p)[k] = d[k + L] - d[i - 1]
  <2>1. k \in 0..p
    BY <1>1
  <2>2. CASE k = n
    <3>1. n + L = i - 1 /\ i - 1 \in 0..n
      BY <1>1
    <3>2. d[n] = 0 /\ d[i - 1] \in Nat
      BY <1>1, <3>1 DEF Repeated
    <3>3. TwinLevels(d, n, i, p)[k] = 0
      BY <1>2, <2>1, <2>2, <3>2
    <3>4. d[k + L] - d[i - 1] = 0
      BY <2>2, <3>1, <3>2
    <3> QED
      BY <3>3, <3>4
  <2>3. CASE k # n
    <3>1. ~(k <= n)
      BY <2>3
    <3> QED
      BY <2>1, <3>1 DEF TwinLevels
  <2> QED
    BY <2>2, <2>3
<1> QED
  BY <1>1, <1>2, <1>3 DEF Levelled

\* Levels that begin and end with no open element.
Grounded(e, p) == e \in [0..p -> Nat] /\ e[0] = 0 /\ e[p] = 0

(* The copy begins and ends with no open element. *)
LEMMA TwinType ==
  ASSUME NEW d, NEW n \in Nat, NEW i, NEW m, NEW p, Repeated(d, n, i, m, p)
  PROVE  Grounded(TwinLevels(d, n, i, p), p)
<1> DEFINE L == i - 1 - n
           e == TwinLevels(d, n, i, p)
<1>1. /\ i \in 1..n /\ m \in i..n /\ p \in Nat /\ p = m - L /\ L \in Int /\ L = i - 1 - n
      /\ \A k \in 0..n : d[k] \in Nat
      /\ \A k \in 0..p : k <= n => e[k] = d[k]
      /\ \A k \in n..p : e[k] = d[k + L] - d[i - 1]
  <2>1. Levelled(d, n, i, m, p, e)
    BY TwinFacts
  <2> QED
    BY <2>1 DEF Levelled
<1>2. e = [k \in 0..p |-> e[k]]
  BY DEF TwinLevels
<1>3. /\ d[m] = d[i - 1] /\ d[0] = 0 /\ \A k \in i..(m - 1) : d[k] > d[i - 1]
  BY DEF Repeated
<1> HIDE DEF L, e
<1>4. ASSUME NEW k \in 0..p PROVE e[k] \in Nat
  <2>1. CASE k <= n
    <3>1. k \in 0..n
      BY <2>1
    <3> QED
      BY <1>1, <2>1, <3>1
  <2>2. CASE ~(k <= n)
    <3>1. k \in n..p /\ k + L \in i..m /\ k + L \in 0..n /\ i - 1 \in 0..n
      BY <1>1, <2>2
    <3>2. d[k + L] \in Nat /\ d[i - 1] \in Nat
      BY <1>1, <3>1
    <3>3. d[k + L] = d[i - 1] \/ d[k + L] > d[i - 1]
      <4>1. k + L = m \/ k + L \in i..(m - 1)
        <5>1. k + L \in Int /\ i \in Int /\ m \in Int
          BY <1>1
        <5> QED
          BY <3>1, <5>1
      <4> QED
        BY <1>3, <4>1
    <3> DEFINE x == d[k + L]
               y == d[i - 1]
    <3>4. e[k] = x - y
      BY <1>1, <3>1
    <3>5. x \in Nat /\ y \in Nat /\ (x = y \/ x > y)
      BY <3>2, <3>3
    <3> HIDE DEF x, y
    <3> QED
      BY <3>4, <3>5
  <2> QED
    BY <2>1, <2>2
<1>5. e \in [0..p -> Nat]
  BY <1>2, <1>4
<1>6. e[0] = 0
  BY <1>1, <1>3
<1>7. e[p] = 0
  <2>1. p \in n..p /\ p + L = m /\ i - 1 \in 0..n
    BY <1>1
  <2>2. e[p] = d[m] - d[i - 1] /\ d[i - 1] \in Nat
    BY <1>1, <2>1
  <2> QED
    BY <1>3, <2>2
<1> QED
  BY <1>5, <1>6, <1>7 DEF e, Grounded

(* Levels that both dropped by w move alike. *)
LEMMA Difference ==
  ASSUME NEW a, NEW b, NEW u \in Nat, NEW v \in Nat, NEW w \in Nat, a = u - w, b = v - w
  PROVE  a + v = b + u
  OBVIOUS

(* Every token changes the level as in h. *)
LEMMA TwinStep ==
  ASSUME NEW d, NEW n \in Nat, NEW i, NEW m, NEW p, Repeated(d, n, i, m, p), NEW k \in 1..p
  PROVE  TwinLevels(d, n, i, p)[k] + d[Twin(n, i, k) - 1]
           = TwinLevels(d, n, i, p)[k - 1] + d[Twin(n, i, k)]
<1> DEFINE L == i - 1 - n
           e == TwinLevels(d, n, i, p)
           q == Twin(n, i, k)
<1>1. /\ i \in 1..n /\ m \in i..n /\ p \in Nat /\ p = m - L /\ L \in Int /\ L = i - 1 - n
      /\ \A x \in 0..n : d[x] \in Nat
      /\ \A x \in 0..p : x <= n => e[x] = d[x]
      /\ \A x \in n..p : e[x] = d[x + L] - d[i - 1]
  <2>1. Levelled(d, n, i, m, p, e)
    BY TwinFacts
  <2> QED
    BY <2>1 DEF Levelled
<1>2. q = IF k <= n THEN k ELSE k + L
  BY DEF Twin
<1> HIDE DEF L, e, q
<1>3. CASE k <= n
  <2>1. k \in 0..p /\ k - 1 \in 0..p /\ k - 1 <= n /\ k \in 0..n /\ k - 1 \in 0..n
    BY <1>1, <1>3
  <2>2. e[k] = d[q] /\ e[k - 1] = d[q - 1] /\ d[q] \in Nat /\ d[q - 1] \in Nat
    BY <1>1, <1>2, <1>3, <2>1
  <2> QED
    BY <2>2 DEF e, q
<1>4. CASE ~(k <= n)
  <2>1. /\ k \in n..p /\ k - 1 \in n..p /\ q = k + L /\ q - 1 = (k - 1) + L
        /\ q \in 0..n /\ q - 1 \in 0..n /\ i - 1 \in 0..n
    BY <1>1, <1>2, <1>4
  <2>2. /\ e[k] = d[q] - d[i - 1] /\ e[k - 1] = d[q - 1] - d[i - 1]
        /\ d[q] \in Nat /\ d[q - 1] \in Nat /\ d[i - 1] \in Nat
    BY <1>1, <2>1
  <2>3. e[k] + d[q - 1] = e[k - 1] + d[q]
    BY <2>2, Difference
  <2> QED
    BY <2>3 DEF e, q
<1> QED
  BY <1>3, <1>4

(* What ends in the copy or before it ends so in h. *)
LEMMA TwinEnds ==
  ASSUME NEW d, NEW n \in Nat, NEW i, NEW m, NEW p, Repeated(d, n, i, m, p),
         NEW x \in 1..p, NEW y \in 1..p, Ends(TwinLevels(d, n, i, p), x, y)
  PROVE  Ends(d, Twin(n, i, x), Twin(n, i, y))
<1> DEFINE L == i - 1 - n
           e == TwinLevels(d, n, i, p)
           D == d[i - 1]
<1>1. /\ i \in 1..n /\ m \in i..n /\ p \in Nat /\ p = m - L /\ L \in Int /\ L = i - 1 - n
      /\ \A k \in 0..n : d[k] \in Nat
      /\ \A k \in 0..p : k <= n => e[k] = d[k]
      /\ \A k \in n..p : e[k] = d[k + L] - D
  <2>1. Levelled(d, n, i, m, p, e)
    BY TwinFacts
  <2> QED
    BY <2>1 DEF Levelled
<1>2. /\ Twin(n, i, x) = IF x <= n THEN x ELSE x + L
      /\ Twin(n, i, y) = IF y <= n THEN y ELSE y + L
  BY DEF Twin
<1>3. x < y /\ e[y] = e[x - 1] /\ \A k \in x..(y - 1) : e[k] > e[x - 1]
  BY DEF Ends
<1>4. e[n] = 0 /\ D \in Nat
  <2>1. n \in 0..p /\ i - 1 \in 0..n /\ d[n] = 0
    BY <1>1 DEF Repeated
  <2> QED
    BY <1>1, <2>1
<1> HIDE DEF L, e, D
<1>5. CASE x <= n
  <2>1. x - 1 \in 0..n /\ x - 1 \in 0..p /\ x - 1 <= n
    BY <1>1, <1>5
  <2>2. e[x - 1] = d[x - 1] /\ d[x - 1] \in Nat
    BY <1>1, <2>1
  <2>3. y <= n
    <3> SUFFICES ASSUME ~(y <= n) PROVE FALSE
      OBVIOUS
    <3>1. n \in x..(y - 1)
      BY <1>5
    <3>2. e[n] > e[x - 1]
      BY <1>3, <3>1
    <3> QED
      BY <1>4, <2>2, <3>2
  <2>4. ASSUME NEW k \in x..y PROVE e[k] = d[k]
    <3>1. k \in 0..p /\ k <= n
      BY <1>1, <2>3
    <3> QED
      BY <1>1, <3>1
  <2>5. d[y] = d[x - 1]
    BY <1>3, <2>2, <2>4
  <2>6. ASSUME NEW k \in x..(y - 1) PROVE d[k] > d[x - 1]
    <3>1. k \in x..y
      OBVIOUS
    <3> QED
      BY <1>3, <2>2, <2>4, <3>1
  <2>7. Ends(d, x, y)
    BY <1>3, <2>5, <2>6 DEF Ends
  <2> QED
    BY <1>2, <1>5, <2>3, <2>7
<1>6. CASE ~(x <= n)
  <2>1. ASSUME NEW k \in (x - 1)..y
        PROVE  e[k] = d[k + L] - D /\ d[k + L] \in Nat
    <3>1. k \in n..p /\ k + L \in 0..n
      BY <1>1, <1>6
    <3> QED
      BY <1>1, <3>1
  <2>2. x - 1 \in (x - 1)..y /\ y \in (x - 1)..y /\ (x - 1) + L = (x + L) - 1 /\ x + L < y + L
    BY <1>1, <1>3
  <2>3. e[x - 1] = d[(x + L) - 1] - D /\ d[(x + L) - 1] \in Nat
    BY <2>1, <2>2
  <2>4. d[y + L] = d[(x + L) - 1]
    <3>1. e[y] = d[y + L] - D /\ d[y + L] \in Nat
      BY <2>1, <2>2
    <3> DEFINE a == d[y + L]
               b == d[(x + L) - 1]
    <3>2. a - D = b - D /\ a \in Nat /\ b \in Nat
      BY <1>3, <2>3, <3>1
    <3> HIDE DEF a, b
    <3>3. a = b
      BY <1>4, <3>2
    <3> QED
      BY <3>3 DEF a, b
  <2>5. ASSUME NEW q \in (x + L)..((y + L) - 1) PROVE d[q] > d[(x + L) - 1]
    <3>1. q - L \in x..(y - 1) /\ q - L \in (x - 1)..y /\ (q - L) + L = q
      BY <1>1
    <3>2. e[q - L] > e[x - 1] /\ e[q - L] = d[q] - D /\ d[q] \in Nat
      BY <1>3, <2>1, <3>1
    <3> DEFINE a == d[q]
               b == d[(x + L) - 1]
    <3>3. a - D > b - D /\ a \in Nat /\ b \in Nat
      BY <2>3, <3>2
    <3> HIDE DEF a, b
    <3>4. a > b
      BY <1>4, <3>3
    <3> QED
      BY <3>4 DEF a, b
  <2>6. Ends(d, x + L, y + L)
    BY <2>2, <2>4, <2>5 DEF Ends
  <2>7. ~(y <= n)
    BY <1>3, <1>6
  <2> QED
    BY <1>2, <1>6, <2>6, <2>7
<1> QED
  BY <1>5, <1>6

(* Copying an element to the end keeps the nesting. *)
LEMMA CopiedNests ==
  ASSUME NEW h, PlainHtml(h), WellNested(h), NEW i \in Artifacts(h)
  PROVE  WellNested(Copied(h, i, Len(h)))
<1>1. PICK d : Levels(h, d) /\ Matched(h, d)
  BY DEF WellNested
<1>2. PICK n \in Nat : DOMAIN h = 1..n /\ Len(h) = n
  BY PlainParts
<1>3. PICK m \in i..n : Span(h, d, n, i, m) /\ Whole(h, i) = SubSeq(h, i, m)
  BY <1>1, <1>2, SpanExists
<1> DEFINE p == n + (m - i + 1)
           g == Copied(h, i, n)
           e == TwinLevels(d, n, i, p)
           phi == [k \in 1..p |-> Twin(n, i, k)]
<1>4. /\ i \in 1..n /\ m \in i..n /\ h[i].kind = "open"
      /\ d[m] = d[i - 1]
      /\ \A k \in i..(m - 1) : d[k] > d[i - 1]
  <2>1. n \in Nat /\ Len(h) = n /\ Levels(h, d) /\ Span(h, d, n, i, m)
    BY <1>1, <1>2, <1>3
  <2> QED
    BY <2>1, SpanFacts
<1>16. p = n + (m - i + 1)
  OBVIOUS
<1> HIDE DEF p
<1>5. Len(g) = p /\ \A k \in 1..p : Twin(n, i, k) \in 1..n /\ g[k] = h[Twin(n, i, k)]
  <2>1. IsCopy(g, p, h, n, i)
    BY <1>2, <1>3, <1>4, <1>16, CopiedTokens
  <2> QED
    BY <2>1 DEF IsCopy
<1>6. d \in [0..n -> Nat] /\ d[0] = 0 /\ d[n] = 0
  BY <1>1, <1>2 DEF Levels
<1>7. Repeated(d, n, i, m, p) /\ p \in Nat
  BY <1>4, <1>6, <1>16 DEF Repeated
<1>8. e \in [0..p -> Nat] /\ e[0] = 0 /\ e[p] = 0
  <2>1. Grounded(e, p)
    BY <1>7, TwinType
  <2> QED
    BY <2>1 DEF Grounded
<1>9. phi \in [1..p -> 1..n] /\ \A k \in 1..p : phi[k] = Twin(n, i, k)
  BY <1>5
<1> HIDE DEF g, phi
<1>10. \A k \in 1..p : g[k] = h[phi[k]]
  BY <1>5, <1>9
<1>11. \A k \in 1..p : \/ InRaw(g, k) <=> InRaw(h, phi[k])
                       \/ h[phi[k]].kind = "open" /\ IsVoid(h[phi[k]])
  <2> SUFFICES ASSUME NEW k \in 1..p
               PROVE  \/ InRaw(g, k) <=> InRaw(h, phi[k])
                      \/ h[phi[k]].kind = "open" /\ IsVoid(h[phi[k]])
    OBVIOUS
  <2>2. \/ InRaw(g, k) <=> InRaw(h, Twin(n, i, k))
        \/ h[Twin(n, i, k)].kind = "open" /\ IsVoid(h[Twin(n, i, k)])
    <3>1. IsCopy(g, p, h, n, i)
      BY <1>5 DEF IsCopy
    <3> QED
      BY <1>1, <1>2, <1>3, <1>16, <3>1, CopiedRaw
  <2> QED
    BY <1>9, <2>2
<1>12. \A k \in 1..p : e[k] + d[phi[k] - 1] = e[k - 1] + d[phi[k]]
  BY <1>7, <1>9, TwinStep
<1>13. \A x, y \in 1..p : Opening(g, x) /\ Ends(e, x, y) => Ends(d, phi[x], phi[y])
  <2> SUFFICES ASSUME NEW x \in 1..p, NEW y \in 1..p, Ends(e, x, y)
               PROVE  Ends(d, phi[x], phi[y])
    OBVIOUS
  <2>1. Ends(d, Twin(n, i, x), Twin(n, i, y))
    BY <1>7, TwinEnds
  <2> QED
    BY <1>9, <2>1
<1> HIDE DEF e
<1>14. Pieces(g, p, e, phi, h, n, d)
  BY <1>1, <1>2, <1>5, <1>8, <1>9, <1>10, <1>11, <1>12, <1>13, Zenon DEF Pieces
<1>15. WellNested(g)
  BY <1>7, <1>14, NestPieces
<1> QED
  BY <1>2, <1>15 DEF g
-----------------------------------------------------------------------------
\* Aids and anchors of well-nested HTML.

(* What edits make of plain, well-nested HTML is well nested. *)
LEMMA EditsNest ==
  ASSUME NEW s, PlainHtml(s), WellNested(s), NEW h \in Edits(s)
  PROVE  WellNested(h)
<1>1. CASE \E i \in {j \in DOMAIN s : s[j].kind = "text"} : \E w \in Word : h = Reworded(s, i, w)
  <2>1. PICK i \in DOMAIN s, w \in Word : s[i].kind = "text" /\ h = Reworded(s, i, w)
    BY <1>1
  <2>2. i \in 1..Len(s)
    BY PlainParts
  <2> QED
    BY <2>1, <2>2, RewordedNests
<1>2. CASE \E i \in Artifacts(s) : h = Without(s, i)
  BY <1>2, WithoutNests
<1>3. CASE \E i \in Artifacts(s) : h = Copied(s, i, Len(s))
  BY <1>3, CopiedNests
<1> QED
  BY <1>1, <1>2, <1>3 DEF Edits

\* HTML that is plain and well nested, and carries the stamps stamping gives it.
Settled(h) == PlainHtml(h) /\ WellNested(h) /\ StampAids(h) = h

\* The inductive invariant of plain, well-nested HTML: an anchor is made on such a version.
NestInv == (\A h \in Stored : Settled(h)) /\ (anchor # None => Settled(doc))

(* Stamping plain, well-nested HTML settles it. *)
LEMMA StampSettles ==
  ASSUME NEW h, PlainHtml(h), WellNested(h)
  PROVE  Settled(StampAids(h))
  BY StampShape, StampNests, StampTwice DEF Settled

(* An artifact of settled HTML carries the hash of its content. *)
LEMMA SettledAid ==
  ASSUME NEW h, Settled(h), NEW i \in Artifacts(h)
  PROVE  h[i].aid = aidFor(h, i)
<1>1. PlainHtml(h) /\ StampAids(h) = h /\ i \in DOMAIN h
  BY DEF Settled, Artifacts
<1>2. h[i] = With(h[i], aidFor(h, i))
  BY <1>1, StampToken
<1>3. Plain(h[i])
  BY <1>1, PlainParts
<1> DEFINE e == h[i]
           a == aidFor(h, i)
<1>4. Plain(e) /\ e = With(e, a)
  BY <1>2, <1>3
<1> HIDE DEF e, a
<1>5. With(e, a) = Fields(e.kind, e.name, e.caps, e.src, e.class, e.marked, e.slashes, a)
  BY <1>4, NewAid DEF With
<1>6. With(e, a).aid = a
  BY <1>5, FieldsOf
<1> QED
  BY <1>4, <1>6 DEF e, a

(* Every step publishes plain, well-nested HTML, or leaves the version as it is. *)
LEMMA NestStep ==
  ASSUME \A h \in Html : PlainHtml(h) /\ WellNested(h), NestInv, [Next]_vars
  PROVE  /\ NestInv'
         /\ doc' = doc \/ \E h : PlainHtml(h) /\ WellNested(h) /\ Commit(h)
<1>1. ASSUME NEW h, PlainHtml(h), WellNested(h), Publish(h) \/ SaveDraft(h)
      PROVE  NestInv' /\ (doc' = doc \/ Commit(h))
  <2>1. Settled(StampAids(h))
    BY <1>1, StampSettles
  <2>2. CASE Publish(h)
    BY <2>1, <2>2 DEF Publish, Commit, NestInv, Stored
  <2>3. CASE SaveDraft(h)
    BY <2>1, <2>3 DEF SaveDraft, NestInv, Stored
  <2> QED
    BY <1>1, <2>2, <2>3
<1>2. CASE \E h \in Html : (Publish(h) \/ SaveDraft(h)) /\ UNCHANGED edits
  BY <1>1, <1>2
<1>3. CASE \E s \in Stored : \E h \in Edits(s) :
             edits < MaxEdits /\ (Publish(h) \/ SaveDraft(h)) /\ edits' = edits + 1
  <2>1. PICK s \in Stored : \E h \in Edits(s) : Publish(h) \/ SaveDraft(h)
    BY <1>3
  <2>2. PICK h \in Edits(s) : Publish(h) \/ SaveDraft(h)
    BY <2>1
  <2>3. PlainHtml(s) /\ WellNested(s)
    BY DEF NestInv, Settled
  <2>4. PlainHtml(h) /\ WellNested(h)
    BY <2>3, EditsPlain, EditsNest
  <2> QED
    BY <1>1, <2>2, <2>4
<1>4. CASE Promote
  <2>1. PlainHtml(draft) /\ WellNested(draft) /\ Commit(draft)
    BY <1>4 DEF Promote, NestInv, Stored, Settled
  <2>2. Settled(StampAids(draft))
    BY <2>1, StampSettles
  <2> QED
    BY <1>4, <2>1, <2>2 DEF Promote, Commit, NestInv, Stored
<1>5. CASE \E i \in (IF doc = None THEN {} ELSE Artifacts(doc)) : Comment(i)
  BY <1>5 DEF Comment, NestInv, Stored
<1>6. CASE UNCHANGED vars
  BY <1>6 DEF vars, NestInv, Stored
<1> QED
  BY <1>2, <1>3, <1>4, <1>5, <1>6 DEF Next

(* Two elements, of the version or of the draft, carry one aid exactly if a reader is
   shown the same of them (AidsNameContent), if authors write plain, well-nested HTML:
   StampAids stamps a hash of what lies between an element's tags, and findCloseEnd finds
   the tag that ends it. *)
THEOREM AidsName ==
  ASSUME \A h \in Html : PlainHtml(h) /\ WellNested(h)
  PROVE  Spec => []AidsNameContent
<1>1. Init => NestInv
  BY DEF Init, NestInv, Stored
<1>2. NestInv /\ [Next]_vars => NestInv'
  BY NestStep
<1>3. NestInv => AidsNameContent
  <2> SUFFICES ASSUME NestInv, NEW g \in Stored, NEW h \in Stored,
                      NEW i \in Artifacts(g), NEW j \in Artifacts(h)
               PROVE  g[i].aid = h[j].aid <=> Shown(g, i) = Shown(h, j)
    BY DEF AidsNameContent
  <2>1. Settled(g) /\ Settled(h)
    BY DEF NestInv
  <2>2. g[i].aid = aidFor(g, i) /\ h[j].aid = aidFor(h, j)
    BY <2>1, SettledAid
  <2>3. aidFor(g, i) = aidFor(h, j) <=> Shown(g, i) = Shown(h, j)
    BY <2>1, AidsMatch DEF Settled
  <2> QED
    BY <2>2, <2>3
<1> QED
  BY <1>1, <1>2, <1>3, PTL DEF Spec

(* A publish leaves a comment on its element as long as the new version shows that element
   somewhere (AnchorFollowsContent), under the same condition: the element has the aid the
   anchor names, so Reconciled keeps the anchor. *)
THEOREM AnchorsFollow ==
  ASSUME \A h \in Html : PlainHtml(h) /\ WellNested(h)
  PROVE  Spec => AnchorFollowsContent
<1>1. Init => NestInv
  BY DEF Init, NestInv, Stored
<1>2. NestInv /\ [Next]_vars => NestInv'
  BY NestStep
<1>3. ASSUME NestInv, [Next]_vars, anchor # None, doc' # doc,
             NEW i \in Artifacts(doc), NEW j \in Artifacts(doc'),
             doc[i].aid = anchor.aid, Shown(doc, i) = Shown(doc', j)
      PROVE  anchor' = anchor
  <2>1. PICK h : PlainHtml(h) /\ WellNested(h) /\ Commit(h)
    BY <1>3, NestStep
  <2>2. doc' = StampAids(h) /\ Settled(doc') /\ Artifacts(doc') = Artifacts(h) /\ j \in DOMAIN h
    BY <2>1, StampSettles, StampShape DEF Commit, Artifacts
  <2>3. Settled(doc)
    BY <1>3 DEF NestInv
  <2>4. aidFor(doc, i) = aidFor(doc', j)
    BY <1>3, <2>2, <2>3, AidsMatch DEF Settled
  <2>5. aidFor(doc', j) = aidFor(h, j)
    BY <2>1, <2>2, AidStays
  <2>6. doc[i].aid = aidFor(doc, i)
    BY <2>3, SettledAid
  <2>7. \E x \in AIDs(h) : x.aid = anchor.aid
    <3> DEFINE x == [at |-> j, aid |-> aidFor(h, j), tag |-> h[j].name,
                     heading |-> nearestHeading(h, j)]
    <3>1. x \in AIDs(h)
      BY <2>2 DEF AIDs
    <3>2. x.aid = aidFor(h, j)
      OBVIOUS
    <3> QED
      BY <1>3, <2>4, <2>5, <2>6, <3>1, <3>2
  <2> QED
    BY <2>1, <2>7 DEF Commit, Reconciled
<1>4. NestInv /\ [Next]_vars
        => [anchor # None /\ doc' # doc =>
              \A i \in Artifacts(doc), j \in Artifacts(doc') :
                doc[i].aid = anchor.aid /\ Shown(doc, i) = Shown(doc', j) => anchor' = anchor]_vars
  BY <1>3
<1> QED
  BY <1>1, <1>2, <1>4, PTL DEF Spec, AnchorFollowsContent
=============================================================================
