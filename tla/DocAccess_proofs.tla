-------------------------- MODULE DocAccess_proofs --------------------------
(***************************************************************************)
(* Proofs about DocAccess.  The gate needs nothing of the handlers: what   *)
(* their steps mean to a viewer is what Watch says.  The link needs the    *)
(* invariant of DocStore, under which only a removal takes a version out   *)
(* of the row or its HTML out of the store (Grows).                        *)
(***************************************************************************)
EXTENDS DocAccess, DocStore_proofs

-----------------------------------------------------------------------------
LEMMA NoRequestTyped == NoRequest \in Requests
BY DEF NoRequest, Requests, Carrier

LEMMA MinTyped ==
  ASSUME NEW r \in Requests
  PROVE  Min(r) \in {1, 2}
BY DEF Min, Requests

LEMMA Ranks ==
  ASSUME NEW c \in Cred \cup {None}, NEW m
  PROVE  /\ CapabilityFor(c, m) \in 0..2 /\ Rank(c) \in 0..2
         /\ CapabilityFor(c, m) <= Rank(c)
         /\ CapabilityFor(c, m) > 0 => CapabilityFor(c, m) = Rank(c)
BY TokenFresh DEF CapabilityFor, Rank, Cred

LEMMA AtTyped ==
  ASSUME NEW r \in Requests, NEW cookie \in Cred \cup {None}, NEW k \in Carrier
  PROVE  At(k, r, cookie) \in Cred \cup {None}
BY DEF At, Requests, Carrier, Cred

LEMMA ArriveTyped ==
  ASSUME NEW r \in Requests, NEW cookie
  PROVE  /\ Arrive(r, cookie) \in Requests
         /\ Arrive(r, cookie).author = r.author /\ Arrive(r, cookie).bearer = r.bearer
         /\ Arrive(r, cookie).code = r.code /\ Arrive(r, cookie).given = r.given
         /\ Arrive(r, cookie).todo = credCandidates(r, cookie)
         /\ Arrive(r, cookie).cred = None /\ Arrive(r, cookie).fresh = r.fresh
         /\ Arrive(r, cookie).ever = Opens(r, cookie, meta)
<1>1. credCandidates(r, cookie) \subseteq Carrier /\ Opens(r, cookie, meta) \in BOOLEAN
  BY DEF credCandidates, Opens
<1> QED
  BY <1>1 DEF Arrive, Requests

LEMMA SameCarriers ==
  ASSUME NEW r \in Requests, NEW q \in Requests, NEW cookie, NEW m,
         r.author = q.author, r.bearer = q.bearer, r.code = q.code
  PROVE  /\ Opens(r, cookie, m) = Opens(q, cookie, m)
         /\ credCandidates(r, cookie) = credCandidates(q, cookie)
         /\ \A k \in Carrier : At(k, r, cookie) = At(k, q, cookie)
         /\ Min(r) = Min(q)
<1>1. Min(r) = Min(q) /\ \A k : At(k, r, cookie) = At(k, q, cookie)
  BY DEF Min, At
<1> QED
  BY <1>1 DEF Opens, credCandidates

-----------------------------------------------------------------------------
\* Viewer w is where it was, with the same request, cookie and row.
LEMMA Undisturbed ==
  ASSUME NEW w \in Viewer, GateInv(w), at'[w] = at[w], req'[w] = req[w], jar'[w] = jar[w],
         meta' = meta
  PROVE  GateInv(w)'
<1>1. Suffices(w)' = Suffices(w)
  BY DEF Suffices, Rank, Min
<1>2. \A r, cookie : /\ Opens(r, cookie, meta)' = Opens(r, cookie, meta)
  BY DEF Opens, CapabilityFor
<1> QED
  BY <1>1 DEF GateInv, Opens, CapabilityFor, Min, credCandidates, At

LEMMA OpenGate ==
  ASSUME ViewTypeOK, NEW w \in Viewer, Open(w)
  PROVE  /\ req'[w] \in Requests /\ GateInv(w)' /\ meta' = meta /\ jar' = jar
         /\ at' = [at EXCEPT ![w] = "gate"] /\ req' = [req EXCEPT ![w] = req'[w]]
<1>1. PICK a \in BOOLEAN, b \in Cred \cup {None}, c \in Cred \cup {None} :
        req' = [req EXCEPT ![w] =
          [Arrive([NoRequest EXCEPT !.author = a, !.bearer = b, !.code = c, !.given = c], jar[w])
             EXCEPT !.fresh = CapabilityFor(c, meta) >=
               Min([NoRequest EXCEPT !.author = a, !.bearer = b, !.code = c, !.given = c])]]
  BY DEF Open
<1> DEFINE r0 == [NoRequest EXCEPT !.author = a, !.bearer = b, !.code = c, !.given = c]
           r == req'[w]
<1>2. r0 \in Requests /\ r0.author = a /\ r0.bearer = b /\ r0.code = c /\ r0.given = c
  BY NoRequestTyped DEF Requests
<1> HIDE DEF r0
<1>3. r = [Arrive(r0, jar[w]) EXCEPT !.fresh = CapabilityFor(c, meta) >= Min(r0)]
  BY <1>1, <1>2 DEF ViewTypeOK, r0
<1>4. (CapabilityFor(c, meta) >= Min(r0)) \in BOOLEAN
  BY <1>2, MinTyped, Ranks
<1>5. /\ r \in Requests /\ r.author = a /\ r.bearer = b /\ r.code = c /\ r.given = c
      /\ r.todo = credCandidates(r0, jar[w]) /\ r.cred = None
      /\ r.fresh = (CapabilityFor(c, meta) >= Min(r0)) /\ r.ever = Opens(r0, jar[w], meta)
  <2> DEFINE q == Arrive(r0, jar[w])
  <2>1. /\ q \in Requests /\ q.author = a /\ q.bearer = b /\ q.code = c /\ q.given = c
        /\ q.todo = credCandidates(r0, jar[w]) /\ q.cred = None
        /\ q.ever = Opens(r0, jar[w], meta)
    BY <1>2, ArriveTyped
  <2>2. r = [q EXCEPT !.fresh = CapabilityFor(c, meta) >= Min(r0)]
    BY <1>3
  <2> HIDE DEF q, r
  <2> QED
    BY <2>1, <2>2, <1>4 DEF Requests
<1>6. /\ Opens(r, jar[w], meta) = Opens(r0, jar[w], meta) /\ Min(r) = Min(r0)
      /\ credCandidates(r, jar[w]) = credCandidates(r0, jar[w])
  BY <1>2, <1>5, SameCarriers
<1>7. meta' = meta /\ jar' = jar /\ at' = [at EXCEPT ![w] = "gate"]
  BY DEF Open, vars, metaVars
<1>8. r.fresh => "code" \in r.todo /\ At("code", r, jar[w]) = r.given
  <2>1. r.fresh => c # None
    <3>1. CapabilityFor(None, meta) = 0 /\ Min(r0) \in {1, 2}
      BY <1>2, MinTyped, TokenFresh DEF CapabilityFor
    <3>2. ~(CapabilityFor(None, meta) >= Min(r0))
      BY <3>1
    <3>3. r.fresh = (CapabilityFor(c, meta) >= Min(r0))
      BY <1>5
    <3> HIDE DEF r
    <3> QED
      BY <3>2, <3>3, Zenon
  <2> QED
    BY <2>1, <1>2, <1>5 DEF credCandidates, At, Carrier
<1>9. ~(Rank(r.cred) >= Min(r))
  BY <1>5, MinTyped, TokenFresh DEF Rank
<1>10. GateInv(w)'
  <2> HIDE DEF r
  <2>1. at'[w] = "gate" /\ jar'[w] = jar[w]
    BY <1>7 DEF ViewTypeOK
  <2>2. r.todo \subseteq credCandidates(r, jar[w]) /\ r.code \in {r.given, None}
    BY <1>5, <1>6
  <2> QED
    BY <1>5, <1>6, <1>7, <1>8, <1>9, <2>1, <2>2
    DEF GateInv, Suffices, Opens, CapabilityFor, credCandidates, Min, At, r
<1>11. req' = [req EXCEPT ![w] = req'[w]]
  BY <1>1 DEF ViewTypeOK
<1> QED
  BY <1>5, <1>7, <1>10, <1>11

LEMMA ResolveGate ==
  ASSUME ViewTypeOK, NEW w \in Viewer, GateInv(w), Resolve(w)
  PROVE  /\ req'[w] \in Requests /\ GateInv(w)' /\ meta' = meta /\ jar' = jar /\ at' = at
         /\ req' = [req EXCEPT ![w] = req'[w]]
<1> DEFINE r == req[w]
           q == req'[w]
<1>1. PICK k \in r.todo :
        req' = [req EXCEPT ![w].todo = @ \ {k},
                           ![w].cred = IF CapabilityFor(At(k, r, jar[w]), meta) > Rank(@)
                                       THEN At(k, r, jar[w]) ELSE @]
  BY DEF Resolve
<1> DEFINE c == At(k, r, jar[w])
<1>2. /\ r \in Requests /\ jar[w] \in Cred \cup {None} /\ at[w] = "gate"
      /\ meta' = meta /\ jar' = jar /\ at' = at
  BY DEF ViewTypeOK, Resolve, vars, metaVars
<1>3. k \in Carrier /\ c \in Cred \cup {None}
  BY <1>2, AtTyped DEF Requests
<1>4. q = [r EXCEPT !.todo = @ \ {k},
                    !.cred = IF CapabilityFor(c, meta) > Rank(@) THEN c ELSE @]
  BY <1>1 DEF ViewTypeOK
<1> HIDE DEF c, q
<1>5. /\ q \in Requests /\ q.author = r.author /\ q.bearer = r.bearer /\ q.code = r.code
      /\ q.given = r.given /\ q.fresh = r.fresh /\ q.ever = r.ever /\ q.todo = r.todo \ {k}
      /\ q.cred = IF CapabilityFor(c, meta) > Rank(r.cred) THEN c ELSE r.cred
  BY <1>2, <1>3, <1>4 DEF Requests
<1>6. /\ Opens(q, jar[w], meta) = Opens(r, jar[w], meta) /\ Min(q) = Min(r)
      /\ credCandidates(q, jar[w]) = credCandidates(r, jar[w])
      /\ \A j \in Carrier : At(j, q, jar[w]) = At(j, r, jar[w])
  BY <1>2, <1>5, SameCarriers
<1>7. /\ Opens(r, jar[w], meta) => r.ever
      /\ Rank(r.cred) >= Min(r) => r.ever
      /\ r.todo \subseteq credCandidates(r, jar[w])
      /\ r.code \in {r.given, None}
      /\ r.fresh => /\ CapabilityFor(r.given, meta) >= Min(r)
                    /\ Rank(r.cred) >= Min(r) \/ \E j \in r.todo : At(j, r, jar[w]) = r.given
  BY <1>2 DEF GateInv, Suffices
<1>8. /\ CapabilityFor(c, meta) \in 0..2 /\ Rank(c) \in 0..2 /\ Rank(r.cred) \in 0..2
      /\ CapabilityFor(c, meta) > 0 => CapabilityFor(c, meta) = Rank(c)
  BY <1>2, <1>3, Ranks DEF Requests
<1>9. /\ Rank(q.cred) >= Rank(r.cred) /\ Rank(q.cred) \in 0..2
      /\ Rank(q.cred) >= CapabilityFor(c, meta)
  BY <1>5, <1>8
<1>10. Rank(q.cred) >= Min(q) => q.ever
  <2>1. CapabilityFor(c, meta) >= Min(r) => Opens(r, jar[w], meta)
    BY <1>3 DEF Opens, c
  <2>2. CASE CapabilityFor(c, meta) > Rank(r.cred)
    BY <2>1, <2>2, <1>5, <1>6, <1>7, <1>8
  <2>3. CASE ~(CapabilityFor(c, meta) > Rank(r.cred))
    BY <2>3, <1>5, <1>6, <1>7
  <2> QED
    BY <2>2, <2>3
<1>11. q.fresh => /\ CapabilityFor(q.given, meta) >= Min(q)
                  /\ Rank(q.cred) >= Min(q) \/ \E j \in q.todo : At(j, q, jar[w]) = q.given
  <2> SUFFICES ASSUME r.fresh, ~(Rank(q.cred) >= Min(r))
               PROVE  \E j \in q.todo : At(j, q, jar[w]) = q.given
    BY <1>5, <1>6, <1>7
  <2>1. ~(Rank(r.cred) >= Min(r)) /\ ~(CapabilityFor(c, meta) >= Min(r))
    BY <1>2, <1>8, <1>9, MinTyped
  <2>2. PICK j \in r.todo : At(j, r, jar[w]) = r.given
    BY <2>1, <1>7
  <2>3. j # k
    BY <2>1, <2>2, <1>7 DEF c
  <2> QED
    BY <2>2, <2>3, <1>2, <1>5, <1>6 DEF Requests
<1>12. GateInv(w)'
  <2>1. /\ Opens(q, jar[w], meta) => q.ever
        /\ q.todo \subseteq credCandidates(q, jar[w]) /\ q.code \in {q.given, None}
    BY <1>5, <1>6, <1>7
  <2> QED
    BY <2>1, <1>2, <1>10, <1>11
    DEF GateInv, Suffices, Opens, CapabilityFor, credCandidates, Min, At, q
<1>13. req' = [req EXCEPT ![w] = req'[w]]
  BY <1>1 DEF ViewTypeOK
<1> QED
  BY <1>2, <1>5, <1>12, <1>13 DEF q

LEMMA ExchangeGate ==
  ASSUME ViewTypeOK, NEW w \in Viewer, GateInv(w), Exchange(w)
  PROVE  /\ req'[w] \in Requests /\ GateInv(w)' /\ meta' = meta /\ at' = at
         /\ jar' = [jar EXCEPT ![w] = req[w].cred] /\ req[w].cred \in Cred \cup {None}
         /\ req' = [req EXCEPT ![w] = req'[w]]
<1> DEFINE r == req[w]
           r0 == [r EXCEPT !.code = None]
           q == req'[w]
<1>1. /\ r \in Requests /\ at[w] = "gate" /\ at' = at /\ meta' = meta
      /\ jar' = [jar EXCEPT ![w] = r.cred] /\ jar'[w] = r.cred /\ q = Arrive(r0, r.cred)
      /\ req' = [req EXCEPT ![w] = q]
  BY DEF ViewTypeOK, Exchange, Resolved, vars, metaVars
<1>2. r.code # None /\ r.code = r.cred /\ r.code \in {r.given, None}
  BY <1>1 DEF Exchange, Exchanges, GateInv
<1>3. /\ r0 \in Requests /\ r0.author = r.author /\ r0.bearer = r.bearer /\ r0.code = None
      /\ r0.given = r.given /\ r0.fresh = r.fresh
  BY <1>1 DEF Requests
<1> HIDE DEF r0, q
<1>4. /\ q \in Requests /\ q.author = r.author /\ q.bearer = r.bearer /\ q.code = None
      /\ q.given = r.given /\ q.todo = credCandidates(r0, r.cred) /\ q.cred = None
      /\ q.fresh = r.fresh /\ q.ever = Opens(r0, r.cred, meta)
  BY <1>1, <1>3, ArriveTyped
<1>5. /\ Opens(q, r.cred, meta) = Opens(r0, r.cred, meta) /\ Min(q) = Min(r)
      /\ credCandidates(q, r.cred) = credCandidates(r0, r.cred)
  BY <1>3, <1>4, SameCarriers DEF Min
<1>6. "cookie" \in q.todo /\ At("cookie", q, r.cred) = q.given
  BY <1>2, <1>4, <1>5 DEF credCandidates, At, Carrier
<1>7. r.fresh => CapabilityFor(r.given, meta) >= Min(r)
  BY <1>1 DEF GateInv
<1>8. ~(Rank(q.cred) >= Min(q))
  BY <1>4, MinTyped, TokenFresh DEF Rank
<1>9. GateInv(w)'
  <2>1. /\ Opens(q, r.cred, meta) => q.ever
        /\ q.todo \subseteq credCandidates(q, r.cred) /\ q.code \in {q.given, None}
        /\ q.fresh => CapabilityFor(q.given, meta) >= Min(q)
    BY <1>4, <1>5, <1>7
  <2> QED
    BY <2>1, <1>1, <1>6, <1>8
    DEF GateInv, Suffices, Opens, CapabilityFor, credCandidates, Min, At, q
<1> QED
  BY <1>1, <1>4, <1>9 DEF q, Requests

\* A request that leaves the gate, for its handler or for good.
LEMMA LeaveGate ==
  ASSUME ViewTypeOK, NEW w \in Viewer, GateInv(w),
         Deny(w) \/ Pass(w) \/ Serve(w) \/ Break(w)
  PROVE  /\ req'[w] \in Requests /\ GateInv(w)' /\ meta' = meta /\ jar' = jar
         /\ at' = [at EXCEPT ![w] = at'[w]] /\ at'[w] \in {"idle", "gate", "page"}
         /\ req' = [req EXCEPT ![w] = req'[w]]
<1>1. CASE Answer(w)
  <2>1. at'[w] = "idle" /\ req'[w] = NoRequest
    BY <1>1 DEF Answer, ViewTypeOK
  <2> QED
    BY <1>1, <2>1, NoRequestTyped DEF Answer, GateInv, ViewTypeOK, vars, metaVars
<1>2. CASE Pass(w)
  <2> DEFINE q == [NoRequest EXCEPT !.author = req[w].author, !.ever = req[w].ever]
  <2>1. req[w] \in Requests
    BY DEF ViewTypeOK
  <2>2. q \in Requests /\ q.ever = req[w].ever
    BY <2>1, NoRequestTyped DEF Requests
  <2>3. req[w].ever
    BY <1>2 DEF Pass, Resolved, Suffices, GateInv
  <2>4. at' = [at EXCEPT ![w] = "page"] /\ req' = [req EXCEPT ![w] = q] /\ jar' = jar
        /\ meta' = meta
    BY <1>2 DEF Pass, Inside, vars, metaVars
  <2> HIDE DEF q
  <2>5. at'[w] = "page" /\ req'[w] = q
    BY <2>4 DEF ViewTypeOK
  <2> QED
    BY <2>2, <2>3, <2>4, <2>5 DEF GateInv
<1> QED
  BY <1>1, <1>2 DEF Deny, Serve, Break

\* A handler's step, as the viewers see it.
LEMMA WatchGate ==
  ASSUME ViewTypeOK, NEW w \in Viewer, GateInv(w), Watch
  PROVE  /\ req'[w] \in Requests /\ GateInv(w)' /\ jar' = jar /\ at' = at
         /\ DOMAIN req' = Viewer
<1> DEFINE r == req[w]
           q == req'[w]
           fr == r.fresh /\ CapabilityFor(r.given, meta') >= Min(r)
           ev == r.ever \/ (at[w] = "gate" /\ Opens(r, jar[w], meta'))
<1>1. r \in Requests /\ jar' = jar /\ at' = at /\ q = [r EXCEPT !.fresh = fr, !.ever = ev]
      /\ DOMAIN req' = Viewer
  BY DEF ViewTypeOK, Watch
<1>2. fr \in BOOLEAN /\ ev \in BOOLEAN
  <2>1. r.fresh \in BOOLEAN /\ r.ever \in BOOLEAN
    BY <1>1 DEF Requests
  <2>2. Opens(r, jar[w], meta') \in BOOLEAN
    BY DEF Opens
  <2>3. (CapabilityFor(r.given, meta') >= Min(r)) \in BOOLEAN
    BY <1>1, MinTyped, Ranks DEF Requests
  <2> QED
    BY <2>1, <2>2, <2>3
<1> HIDE DEF q, fr, ev
<1>3. /\ q \in Requests /\ q.author = r.author /\ q.bearer = r.bearer /\ q.code = r.code
      /\ q.given = r.given /\ q.todo = r.todo /\ q.cred = r.cred
      /\ q.fresh = fr /\ q.ever = ev
  BY <1>1, <1>2 DEF Requests
<1>4. /\ Opens(q, jar[w], meta') = Opens(r, jar[w], meta') /\ Min(q) = Min(r)
      /\ credCandidates(q, jar[w]) = credCandidates(r, jar[w])
      /\ \A k \in Carrier : At(k, q, jar[w]) = At(k, r, jar[w])
  <2>1. Min(q) = Min(r) /\ \A k : At(k, q, jar[w]) = At(k, r, jar[w])
    BY <1>3 DEF Min, At
  <2>2. credCandidates(q, jar[w]) = credCandidates(r, jar[w])
    BY <2>1 DEF credCandidates
  <2> QED
    BY <2>1, <2>2 DEF Opens
<1>5. CASE at[w] = "gate"
  <2>1. /\ Rank(r.cred) >= Min(r) => r.ever
        /\ r.todo \subseteq credCandidates(r, jar[w])
        /\ r.code \in {r.given, None}
        /\ r.fresh => \/ Rank(r.cred) >= Min(r)
                      \/ \E k \in r.todo : At(k, r, jar[w]) = r.given
    BY <1>5 DEF GateInv, Suffices
  <2>2. r.todo \subseteq Carrier
    BY <1>1 DEF Requests
  <2>3. /\ Opens(q, jar[w], meta') => q.ever
        /\ Rank(q.cred) >= Min(q) => q.ever
    BY <1>3, <1>4, <1>5, <2>1 DEF ev
  <2>4. q.fresh => /\ CapabilityFor(q.given, meta') >= Min(q)
                   /\ \/ Rank(q.cred) >= Min(q)
                      \/ \E k \in q.todo : At(k, q, jar[w]) = q.given
    BY <1>3, <1>4, <2>1, <2>2 DEF fr
  <2>5. q.todo \subseteq credCandidates(q, jar[w]) /\ q.code \in {q.given, None}
    BY <1>3, <1>4, <2>1
  <2>6. at'[w] = "gate" /\ jar'[w] = jar[w]
    BY <1>1, <1>5
  <2> QED
    BY <1>1, <1>3, <2>3, <2>4, <2>5, <2>6
    DEF GateInv, Suffices, Opens, CapabilityFor, credCandidates, Min, At, q
<1>6. CASE at[w] # "gate"
  <2>1. at[w] = "page" => q.ever
    BY <1>3 DEF GateInv, ev
  <2> QED
    BY <1>1, <1>3, <1>6, <2>1 DEF GateInv, q
<1> QED
  BY <1>1, <1>3, <1>5, <1>6 DEF q

-----------------------------------------------------------------------------
Gates == ViewTypeOK /\ \A w \in Viewer : GateInv(w)

LEMMA GatesInit == AccessInit => Gates
<1> SUFFICES ASSUME AccessInit PROVE Gates
  OBVIOUS
<1>1. ViewTypeOK
  BY NoRequestTyped DEF AccessInit, ViewTypeOK
<1>2. \A w \in Viewer : GateInv(w)
  BY DEF AccessInit, GateInv
<1> QED
  BY <1>1, <1>2 DEF Gates

LEMMA GatesNext == Gates /\ [AccessNext]_allVars => Gates'
<1> SUFFICES ASSUME Gates, [AccessNext]_allVars PROVE Gates'
  OBVIOUS
<1>1. ViewTypeOK /\ \A w \in Viewer : GateInv(w)
  BY DEF Gates
<1>2. CASE Linking \/ UNCHANGED allVars
  <2>1. UNCHANGED <<jar, at, req, meta>>
    BY <1>2 DEF Linking, ListRow, ListBlobs, LinkFails, LinkDies, allVars, viewVars, vars, metaVars
  <2>2. \A w \in Viewer : GateInv(w)'
    BY <2>1, <1>1, Undisturbed
  <2> QED
    BY <2>1, <2>2, <1>1 DEF Gates, ViewTypeOK
<1>3. CASE Handlers
  <2>1. Watch /\ jar' = jar /\ at' = at
    BY <1>3 DEF Handlers, Watch
  <2>2. \A w \in Viewer : GateInv(w)' /\ req'[w] \in Requests /\ DOMAIN req' = Viewer
    BY <2>1, <1>1, WatchGate
  <2>3. req' = [w \in Viewer |-> req'[w]]
    BY <2>1 DEF Watch
  <2> QED
    BY <2>1, <2>2, <2>3, <1>1 DEF Gates, ViewTypeOK
<1>4. ASSUME NEW w \in Viewer, Browsing(w)
      PROVE  Gates'
  <2>1. /\ req'[w] \in Requests /\ GateInv(w)' /\ meta' = meta
        /\ req' = [req EXCEPT ![w] = req'[w]]
        /\ \E a \in {"idle", "gate", "page"} : at' = [at EXCEPT ![w] = a]
        /\ \E c \in Cred \cup {None} : jar' = [jar EXCEPT ![w] = c]
    <3>1. jar = [jar EXCEPT ![w] = jar[w]] /\ jar[w] \in Cred \cup {None}
          /\ at = [at EXCEPT ![w] = at[w]] /\ at[w] \in {"idle", "gate", "page"}
      BY <1>1 DEF ViewTypeOK
    <3>2. CASE Open(w)
      BY <3>1, <3>2, <1>1, OpenGate
    <3>3. CASE Resolve(w)
      BY <3>1, <3>3, <1>1, ResolveGate
    <3>4. CASE Exchange(w)
      BY <3>1, <3>4, <1>1, ExchangeGate
    <3>5. CASE Deny(w) \/ Pass(w) \/ Serve(w) \/ Break(w)
      BY <3>1, <3>5, <1>1, LeaveGate
    <3> QED
      BY <1>4, <3>2, <3>3, <3>4, <3>5 DEF Browsing
  <2>2. ViewTypeOK'
    BY <2>1, <1>1 DEF ViewTypeOK
  <2>3. ASSUME NEW u \in Viewer, u # w
        PROVE  GateInv(u)'
    <3>1. at'[u] = at[u] /\ req'[u] = req[u] /\ jar'[u] = jar[u]
      BY <2>1, <2>3, <1>1 DEF ViewTypeOK
    <3> QED
      BY <3>1, <2>1, <1>1, Undisturbed
  <2> QED
    BY <2>1, <2>2, <2>3 DEF Gates
<1> QED
  BY <1>2, <1>3, <1>4 DEF AccessNext

(* Nothing behind the gate is served to a request none of whose credentials opened the
   page while it ran, whatever the handlers do to the share code meanwhile. *)
THEOREM Served == AccessSpec => []ServedToCapable
<1>1. Gates => ServedToCapable
  BY DEF Gates, GateInv, ServedToCapable
<1> QED
  BY <1>1, GatesInit, GatesNext, PTL DEF AccessSpec

(* A link whose code stays good is never answered with a 404, through the redirect and
   whatever cookies come with it. *)
THEOREM SteadyOpens == AccessSpec => SteadyCodeOpens
<1> DEFINE Good == \A w \in Viewer : Resolved(w) /\ at'[w] = "idle" => ~req[w].fresh
<1>1. Gates /\ [AccessNext]_allVars => [Good]_allVars
  <2> SUFFICES ASSUME Gates, AccessNext, NEW w \in Viewer, Resolved(w), at'[w] = "idle"
               PROVE  ~req[w].fresh
    OBVIOUS
  <2>1. ViewTypeOK /\ at[w] = "gate" /\ req[w].todo = {} /\ GateInv(w)
    BY DEF Gates, Resolved
  <2>2. ~Suffices(w)
    <3>1. ~Handlers /\ ~Linking
      BY <2>1 DEF Handlers, Watch, Linking, ListRow, ListBlobs, LinkFails, LinkDies, viewVars
    <3>2. PICK u \in Viewer : Browsing(u)
      BY <3>1 DEF AccessNext
    <3>3. u = w
      BY <2>1, <3>2 DEF Browsing, Open, Resolve, Deny, Exchange, Pass, Inside, Serve, Break,
         Answer, ViewTypeOK
    <3> QED
      BY <2>1, <3>2, <3>3 DEF Browsing, Open, Resolve, Deny, Exchange, Pass, Inside, Serve,
         Break, Resolved, ViewTypeOK
  <2> QED
    BY <2>1, <2>2 DEF GateInv
<1> QED
  BY <1>1, GatesInit, GatesNext, PTL DEF AccessSpec, SteadyCodeOpens

-----------------------------------------------------------------------------
\* Without a removal at work no version leaves the row, and none loses its HTML.
NoRemoval == \A p \in Proc : /\ pc[p] \notin {"listRows", "deleteRows"}
                             /\ pc[p] = "deleteDoc" => pc'[p] = pc[p]

LEMMA Grows ==
  ASSUME IInv, Next, NoRemoval
  PROVE  /\ Listed \subseteq Listed'
         /\ \A v \in Version : Kept(v) => Kept(v)'
         /\ \A p \in Proc : pc'[p] \notin {"listRows", "deleteRows"}
<1>1. PICK p \in Proc : Arrivals(p) \/ Enter(p) \/ Work(p) \/ Fail(p) \/ LoseSession(p)
  BY DEF Next
<1>2. pc \in [Proc -> Label] /\ f \in [Proc -> Frame] /\ Local(p)
  BY DEF IInv, TypeOK
<1>3. ASSUME UNCHANGED <<blob, meta, lost>>,
             \E m \in Label \ {"listRows", "deleteRows"} : pc' = [pc EXCEPT ![p] = m]
      PROVE  /\ Listed \subseteq Listed'
             /\ \A v \in Version : Kept(v) => Kept(v)'
             /\ \A q \in Proc : pc'[q] \notin {"listRows", "deleteRows"}
  BY <1>2, <1>3 DEF Listed, Kept, NoRemoval
<1>4. pc = [pc EXCEPT ![p] = pc[p]] /\ pc[p] \in Label \ {"listRows", "deleteRows"}
  BY <1>2 DEF NoRemoval
<1>5. CASE Arrivals(p) \/ Enter(p) \/ LoseSession(p) \/ Reply(p) \/ Fail(p)
  <2>1. Arrivals(p) => UNCHANGED <<blob, meta, lost>> /\ pc' = [pc EXCEPT ![p] = "lock"]
    BY RequestWellFormed DEF Request, Step, blobVars, metaVars
  <2>2. \A op \in AllOps : FirstStep(op) \in Label \ {"listRows", "deleteRows"}
    BY DEF FirstStep, AllOps, Label
  <2>3. Enter(p) => f[p].op \in AllOps
    BY <1>2 DEF Enter, Step, Local, OpAt, Frame
  <2>4. Enter(p) => /\ UNCHANGED <<blob, meta, lost>>
                    /\ \E m \in Label \ {"listRows", "deleteRows"} : pc' = [pc EXCEPT ![p] = m]
    BY <2>2, <2>3 DEF Enter, Step, blobVars, metaVars
  <2>5. LoseSession(p) => UNCHANGED <<blob, meta, lost, pc>>
    BY DEF LoseSession, blobVars, metaVars
  <2>6. Reply(p) \/ Fail(p) => UNCHANGED <<blob, meta, lost>> /\ pc' = [pc EXCEPT ![p] = "idle"]
    BY DEF Reply, Fail, Leave, blobVars, metaVars
  <2>7. {"lock", "idle"} \subseteq Label \ {"listRows", "deleteRows"}
    BY DEF Label
  <2> QED
    BY <1>3, <1>4, <1>5, <2>1, <2>4, <2>5, <2>6, <2>7
<1>6. CASE Publishing(p) \/ Drafting(p) \/ Assets(p)
  <2>1. CASE PutDoc(p)
    <3>1. f[p].html \in Html /\ f[p].version \in Version
      BY <2>1, <1>2 DEF PutDoc, Step, Local, OpAt, Committing
    <3>2. blob \in [Version -> Html \cup {None}] /\ None \notin Html
      BY NoneFresh DEF IInv, TypeOK
    <3>3. \A v \in Version : Kept(v) => Kept(v)'
      BY <2>1, <3>1, <3>2 DEF PutDoc, Kept
    <3>4. meta' = meta /\ pc' = [pc EXCEPT ![p] = "headDoc"]
      BY <2>1 DEF PutDoc, Step, metaVars
    <3> QED
      BY <3>3, <3>4, <1>2 DEF Listed, NoRemoval
  <2>2. CASE ClearMarker(p)
    <3>1. f[p].meta = meta /\ meta # None /\ Copy(p) = meta /\ meta \in Meta
      BY <2>2, <1>2, CopyTyped DEF ClearMarker, Step, Local, CopyCurrent, IInv
    <3>2. meta' = [meta EXCEPT !.draft = FALSE] \/ meta' = meta
      BY <2>2, <3>1 DEF ClearMarker
    <3>3. Listed \subseteq Listed'
      BY <3>1, <3>2, NoneNotMeta DEF Listed, Meta
    <3>4. UNCHANGED <<blob, lost>> /\ pc' = [pc EXCEPT ![p] = "reply"]
      BY <2>2 DEF ClearMarker, Step, blobVars
    <3> QED
      BY <3>3, <3>4, <1>2 DEF Kept, NoRemoval
  <2> QED
    BY <1>6, <1>3, <2>1, <2>2
    DEF Publishing, Drafting, Assets, ResolveVersion, VersionsExhausted, HeadDoc,
        ReadComments, WriteComments, PutDraft, GetDraft, ClearDraft, ReadMarker,
        PutAssetBytes, PutAssetRow, DropAssetBytes, DropAssetRow, Step, blobVars, metaVars, Label
<1>7. CASE Metadata(p)
  <2>1. CASE ReadMeta(p)
    <3>1. AfterReadMeta(p) \in Label \ {"listRows", "deleteRows"}
      BY DEF AfterReadMeta, Label
    <3> QED
      BY <2>1, <3>1, <1>3 DEF ReadMeta, Step, blobVars, metaVars
  <2>2. CASE UpsertMeta(p) \/ SetDraftMeta(p) \/ StoreCode(p) \/ DropCode(p)
    <3>1. f[p].meta = meta
      BY <2>2, <1>2 DEF UpsertMeta, SetDraftMeta, StoreCode, DropCode, Step, Local, CopyCurrent
    <3>2. Copy(p) \in Meta /\ Listed = Copy(p).versions
      BY <3>1, CopyTyped
    <3>3. UpsertMeta(p) => f[p].version \in Version
      BY <1>2 DEF UpsertMeta, Step, Local, Committing, Commits, AfterPut
    <3>4. Listed \subseteq Listed'
      <4>1. StoreCode(p) => f[p].code \in Code \cup {None}
        BY <1>2 DEF Frame
      <4> DEFINE c == Copy(p)
      <4>2. c \in Meta /\ Listed = c.versions
        BY <3>2
      <4>3. \/ meta' = [c EXCEPT !.versions = @ \cup {f[p].version}] /\ f[p].version \in Version
            \/ meta' = [c EXCEPT !.draft = TRUE]
            \/ meta' = [c EXCEPT !.share = f[p].code] /\ f[p].code \in Code \cup {None}
            \/ meta' = [c EXCEPT !.share = None]
        BY <2>2, <3>3, <4>1 DEF UpsertMeta, SetDraftMeta, StoreCode, DropCode
      <4> HIDE DEF c
      <4>4. meta' \in Meta /\ c.versions \subseteq meta'.versions
        BY <4>2, <4>3 DEF Meta
      <4> QED
        BY <4>2, <4>4, NoneNotMeta DEF Listed
    <3>5. /\ UNCHANGED <<blob, lost>>
          /\ \E m \in {"readComments", "reply"} : pc' = [pc EXCEPT ![p] = m]
      BY <2>2 DEF UpsertMeta, SetDraftMeta, StoreCode, DropCode, Step, blobVars
    <3> QED
      BY <3>4, <3>5, <1>2 DEF Kept, NoRemoval
  <2> QED
    BY <1>7, <2>1, <2>2 DEF Metadata
<1>8. CASE Removing(p)
  <2>1. Wipe(p)
    BY <1>8, <1>2 DEF Removing, DeleteDoc, DeleteDocFails, Leave, ListAssetRows,
       DeleteAssetRow, DeleteMeta, Step, NoRemoval
  <2> QED
    BY <2>1, <1>3 DEF Wipe, Step, blobVars, Label
<1> QED
  BY <1>1, <1>5, <1>6, <1>7, <1>8 DEF Work

LEMMA LinkInit == AccessInit => LinkTypeOK /\ LinkInv
<1>1. ASSUME AccessInit PROVE NoLink \in Links
  BY VersionBound DEF NoLink, Links, Version
<1>2. ASSUME AccessInit PROVE link.stage = "none" /\ intact = TRUE /\ \A p \in Proc : pc[p] = "idle"
  BY <1>2 DEF AccessInit, Init, NoLink
<1>3. ASSUME AccessInit PROVE LinkTypeOK
  BY <1>1, <1>3 DEF AccessInit, LinkTypeOK
<1>4. ASSUME AccessInit PROVE LinkInv
  BY <1>2, <1>4 DEF LinkInv, LinkOpens
<1> QED
  BY <1>3, <1>4

\* The reads of handleShare.
LEMMA LinkingInv ==
  ASSUME IInv, LinkTypeOK, LinkInv, Linking
  PROVE  LinkTypeOK' /\ LinkInv'
<1>1. UNCHANGED <<pc, blob, meta, lost, intact>>
  BY DEF Linking, ListRow, ListBlobs, LinkFails, LinkDies, vars, blobVars, metaVars
<1>2. link \in Links /\ intact \in BOOLEAN /\ Listed \subseteq Version /\ Stored \subseteq Version
  BY DEF LinkTypeOK, IInv, TypeOK, Listed, Meta, Stored
<1>3. Listed' = Listed /\ \A v : Kept(v)' = Kept(v)
  BY <1>1 DEF Listed, Kept
<1>4. CASE ListRow
  <2>1. link'.stage = "blobs" /\ link'.had = link.had /\ link'.listed = Listed /\ link' \in Links
    BY <1>2, <1>4 DEF ListRow, Links
  <2>2. \A v \in Listed : Kept(v)
    BY DEF IInv, ListedHaveBlobs, Kept
  <2> QED
    BY <1>1, <1>2, <1>3, <1>4, <2>1, <2>2 DEF ListRow, LinkInv, LinkOpens, LinkTypeOK
<1>5. CASE ListBlobs
  <2>1. PICK v \in Version :
          /\ IF Versions = {} THEN v = 1 ELSE Newest(v, Versions)
          /\ link' = [link EXCEPT !.stage = "sent", !.listed = {}, !.found = Versions # {},
                                  !.version = v]
    BY <1>5 DEF ListBlobs
  <2>2. /\ link' \in Links /\ link'.stage = "sent" /\ link'.had = link.had
        /\ link'.found = (Versions # {}) /\ link'.version = v
    BY <1>2, <2>1 DEF Links
  <2>3. intact => /\ link.had \subseteq link.listed
                  /\ \A u \in link.listed : Kept(u)
    BY <1>5 DEF ListBlobs, LinkInv
  <2>4. intact /\ Versions # {} => Kept(v)
    BY <2>1, <2>3 DEF Newest, Versions, Stored, Kept
  <2>5. intact => \A u \in link.had : u <= v
    BY <2>1, <2>3 DEF Newest, Versions
  <2> QED
    BY <1>1, <1>2, <1>3, <2>2, <2>4, <2>5 DEF LinkInv, LinkOpens, LinkTypeOK
<1>6. CASE LinkFails \/ LinkDies
  <2>1. NoLink \in Links
    BY VersionBound DEF NoLink, Links, Version
  <2>2. link' \in Links /\ link'.stage \in {"none", "guessed"}
    BY <1>2, <1>6, <2>1 DEF LinkFails, LinkDies, NoLink, Links
  <2> QED
    BY <1>1, <1>2, <2>2 DEF LinkInv, LinkOpens, LinkTypeOK
<1> QED
  BY <1>4, <1>5, <1>6 DEF Linking

LEMMA HandlersLink ==
  ASSUME IInv, LinkTypeOK, LinkInv, Handlers
  PROVE  LinkTypeOK' /\ LinkInv'
<1>1. Next /\ Watch /\ link \in Links /\ intact \in BOOLEAN
  BY DEF Handlers, LinkTypeOK
<1>2. CASE \E p \in Proc : Shares(p)
  <2>1. PICK p \in Proc : Shares(p)
    BY <1>2
  <2>2. link' = [NoLink EXCEPT !.stage = "row", !.had = Listed] /\ intact' = TRUE
    BY <1>1, <1>2 DEF Watch
  <2>3. Listed \subseteq Version
    BY DEF IInv, TypeOK, Listed, Meta
  <2>4. link'.stage = "row" /\ link'.had = Listed /\ link' \in Links
    <3>1. NoLink \in Links
      BY VersionBound DEF NoLink, Links, Version
    <3>2. \A l \in Links : [l EXCEPT !.stage = "row", !.had = Listed] \in Links
      BY <2>3 DEF Links
    <3>3. \A l \in Links : /\ [l EXCEPT !.stage = "row", !.had = Listed].stage = "row"
                           /\ [l EXCEPT !.stage = "row", !.had = Listed].had = Listed
      BY DEF Links
    <3> QED
      BY <2>2, <3>1, <3>2, <3>3
  <2>5. \A q \in Proc : q # p => pc[q] \in {"idle", "lock"}
    BY <2>1 DEF IInv, LockHeld, Shares, PastLock, Label, TypeOK
  <2>6. pc[p] = "reply"
    BY <2>1 DEF Shares
  <2>7. NoRemoval
    BY <2>5, <2>6 DEF NoRemoval
  <2>8. Listed \subseteq Listed' /\ \A q \in Proc : pc'[q] \notin {"listRows", "deleteRows"}
    BY <1>1, <2>7, Grows
  <2> QED
    BY <2>2, <2>4, <2>8 DEF LinkTypeOK, LinkInv, LinkOpens
<1>3. CASE ~\E p \in Proc : Shares(p)
  <2>1. /\ link' = IF intact' THEN link
                    ELSE IF Making THEN [link EXCEPT !.had = {}] ELSE NoLink
        /\ intact' = (intact /\ ~\E p \in Proc : pc[p] = "deleteDoc" /\ pc'[p] # pc[p])
    BY <1>1, <1>3 DEF Watch
  <2>2. CASE ~intact'
    <3>1. NoLink \in Links
      BY VersionBound DEF NoLink, Links, Version
    <3>2. [link EXCEPT !.had = {}] \in Links
      BY <1>1 DEF Links
    <3>3. link' \in Links /\ intact' = FALSE
      BY <2>1, <2>2, <3>1, <3>2
    <3> QED
      BY <3>3 DEF LinkTypeOK, LinkInv, LinkOpens
  <2>3. CASE intact'
    <3>1. intact /\ NoRemoval
      BY <2>1, <2>3 DEF NoRemoval, LinkInv
    <3>2. /\ Listed \subseteq Listed'
          /\ \A v \in Version : Kept(v) => Kept(v)'
          /\ \A p \in Proc : pc'[p] \notin {"listRows", "deleteRows"}
      BY <1>1, <3>1, Grows
    <3>3. link.listed \subseteq Version /\ link.version \in Version
      BY <1>1 DEF Links
    <3> QED
      BY <1>1, <2>1, <2>3, <3>1, <3>2, <3>3 DEF LinkTypeOK, LinkInv, LinkOpens
  <2> QED
    BY <2>2, <2>3
<1> QED
  BY <1>2, <1>3

LEMMA LinkNext == IInv /\ LinkTypeOK /\ LinkInv /\ [AccessNext]_allVars => LinkTypeOK' /\ LinkInv'
<1> SUFFICES ASSUME IInv, LinkTypeOK, LinkInv, [AccessNext]_allVars
             PROVE  LinkTypeOK' /\ LinkInv'
  OBVIOUS
<1>1. CASE UNCHANGED allVars \/ \E w \in Viewer : Browsing(w)
  <2>1. UNCHANGED <<pc, blob, meta, lost, link, intact>>
    BY <1>1 DEF Browsing, Open, Resolve, Deny, Exchange, Pass, Inside, Serve, Break, Answer,
       allVars, vars, blobVars, metaVars
  <2> QED
    BY <2>1 DEF LinkTypeOK, LinkInv, LinkOpens, Listed, Kept
<1> QED
  BY <1>1, LinkingInv, HandlersLink DEF AccessNext

\* The handlers run as DocStore has them.
LEMMA Embeds == AccessSpec => Spec
<1>1. AccessInit => Init
  BY DEF AccessInit
<1>2. [AccessNext]_allVars => [Next]_vars
  BY DEF AccessNext, Handlers, Linking, ListRow, ListBlobs, LinkFails, LinkDies, Browsing, Open,
     Resolve, Deny, Exchange, Pass, Inside, Serve, Break, Answer, allVars
<1> QED
  BY <1>1, <1>2, PTL DEF AccessSpec, Spec

(* The link of a share call that could read the versions is at least as new as what was
   listed when its code was stored, and opens, for as long as nobody removes the
   document. *)
THEOREM LinkHolds ==
  ASSUME Reliable
  PROVE  AccessSpec => []LinkOpens
<1>1. LinkInv => LinkOpens
  BY DEF LinkInv
<1> QED
  BY <1>1, LinkInit, LinkNext, Embeds, Inductive, PTL DEF AccessSpec
=============================================================================
