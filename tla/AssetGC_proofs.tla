--------------------------- MODULE AssetGC_proofs ---------------------------
(***************************************************************************)
(* Proofs about AssetGC.  A step of an author leaves the pass, and the slug *)
(* whose lock the pass holds, alone (Aside); a step of the pass leaves all *)
(* HTML alone.  What the pass doomed therefore stays unreferenced by its   *)
(* own slug, and a place that kept still is in the snapshot.               *)
(***************************************************************************)
EXTENDS AssetGC, TLAPS

-----------------------------------------------------------------------------
(* The scan is complete: it finds whatever the text refers to. *)
LEMMA ScanComplete ==
  ASSUME NEW h PROVE References(h) \subseteq Scanned(h)
<1> SUFFICES ASSUME NEW x \in References(h) PROVE x \in Scanned(h)
  OBVIOUS
<1>1. h # None
  BY DEF References
<1>2. PICK r \in hexRuns[h] : /\ Len(r) <= maxSlideRun
                                /\ \E i \in 0..(Len(r) - Width) : x = Window(r, i)
  BY <1>1 DEF References
<1>3. x \in windowsOf(r)
  BY <1>2 DEF windowsOf
<1>4. Len(r) >= Width
  BY <1>2, Addresses DEF References
<1> QED
  BY <1>1, <1>2, <1>3, <1>4 DEF Scanned, scanInto

LEMMA ReferencesAreAddresses ==
  ASSUME NEW h PROVE References(h) \subseteq Sha
BY DEF References

LEMMA InitIInv == Init => IInv
<1> SUFFICES ASSUME Init PROVE IInv
  OBVIOUS
<1>1. TypeOK
  BY Bounds DEF Init, TypeOK, Time, Clock, JobAt, Free, PassAt
<1>2. LockHeld /\ Reading /\ DoomedUnreferenced /\ SteadySeen
  BY DEF Init, LockHeld, Reading, DoomedUnreferenced, SteadySeen, Collecting, Free
<1>3. \A s \in Slug : JobDone(s)
  BY DEF Init, JobDone, Free
<1> QED
  BY <1>1, <1>2, <1>3 DEF IInv

(* The histories keep their type. *)
LEMMA HistoryTyped ==
  ASSUME TypeOK, History
  PROVE  steady' \in SUBSET Place /\ always' \in SUBSET Sha
<1>1. steady' \in SUBSET Place
  BY DEF History, TypeOK, Live
<1>2. Referenced \in SUBSET Sha
  BY ReferencesAreAddresses DEF Referenced
<1>3. always' \in SUBSET Sha
  BY <1>2 DEF History, TypeOK
<1> QED
  BY <1>1, <1>3
-----------------------------------------------------------------------------
\* Only slug s moves, and it is not in the hands of the pass.
Aside(s) ==
  /\ UNCHANGED <<clock, passVars>> /\ History
  /\ job[s].at # "gc" /\ job'[s].at # "gc"
  /\ \A t \in Slug \ {s} :
       /\ blob'[t] = blob[t] /\ draft'[t] = draft[t] /\ doc'[t] = doc[t]
       /\ bytes'[t] = bytes[t] /\ created'[t] = created[t] /\ job'[t] = job[t]

LEMMA AuthorAside ==
  ASSUME IInv, NEW s \in Slug, Author(s) \/ Continue(s) \/ Fail(s)
  PROVE  Aside(s)
<1> USE DEF Aside, AuthorKeeps, htmlVars, assetVars, Begins, Goes, Free, TypeOK, IInv
<1>1. CASE Publish(s)
  BY <1>1 DEF Publish, Store
<1>2. CASE SaveDraft(s)
  BY <1>2 DEF SaveDraft
<1>3. CASE Promote(s)
  BY <1>3 DEF Promote, Store
<1>4. CASE Remove(s)
  <2>1. PICK vs \in SUBSET Version, d \in {draft[s], None}, as \in SUBSET bytes[s] :
          /\ blob' = [blob EXCEPT ![s] = [v \in Version |-> IF v \in vs THEN @[v] ELSE None]]
          /\ draft' = [draft EXCEPT ![s] = d]
          /\ bytes' = [bytes EXCEPT ![s] = as]
          /\ \/ /\ Begins(s, "dropRows", None)
                /\ Reliable => vs = {} /\ d = None /\ as = {}
             \/ Begins(s, "free", None)
    BY <1>4 DEF Remove
  <2>2. AuthorKeeps(<<doc, created>>)
    BY <1>4 DEF Remove
  <2>3. CASE Begins(s, "dropRows", None)
    BY <2>1, <2>2, <2>3
  <2>4. CASE Begins(s, "free", None)
    BY <2>1, <2>2, <2>4
  <2> QED
    BY <2>1, <2>3, <2>4
<1>5. CASE Upload(s)
  BY <1>5 DEF Upload
<1>6. CASE Drop(s)
  BY <1>6 DEF Drop
<1>7. CASE List(s)
  BY <1>7 DEF List
<1>8. CASE ClearDraft(s)
  BY <1>8 DEF ClearDraft
<1>9. CASE DropRows(s)
  BY <1>9 DEF DropRows
<1>10. CASE DropMeta(s)
  BY <1>10 DEF DropMeta
<1>11. CASE PutRow(s)
  BY <1>11 DEF PutRow
<1>12. CASE DropRow(s)
  BY <1>12 DEF DropRow
<1>13. CASE Fail(s)
  BY <1>13 DEF Fail
<1> QED
  BY <1>1, <1>2, <1>3, <1>4, <1>5, <1>6, <1>7, <1>8, <1>9, <1>10, <1>11, <1>12, <1>13
  DEF Author, Continue

(* Types, and what the handler of s knows of its slug, after a step on s. *)
LEMMA AuthorTyped ==
  ASSUME IInv, NEW s \in Slug, Author(s) \/ Continue(s) \/ Fail(s)
  PROVE  /\ blob' \in [Slug -> [Version -> Html \cup {None}]]
         /\ draft' \in [Slug -> Html \cup {None}]
         /\ doc' \in [Slug -> BOOLEAN]
         /\ bytes' \in [Slug -> SUBSET Sha] /\ created' \in [Slug -> [Sha -> Time]]
         /\ calls' \in 0..MaxCalls
         /\ job' \in [Slug -> [at : JobAt, sha : Sha \cup {None}]]
         /\ JobDone(s)'
<1> USE Bounds DEF AuthorKeeps, htmlVars, assetVars, Begins, Goes, Free, TypeOK, IInv, JobAt,
      JobDone, HtmlAt
<1>1. CASE Publish(s)
  BY <1>1 DEF Publish, Store
<1>2. CASE SaveDraft(s)
  BY <1>2 DEF SaveDraft
<1>3. CASE Promote(s)
  BY <1>3 DEF Promote, Store
<1>4. CASE Remove(s)
  <2>1. PICK vs \in SUBSET Version, d \in {draft[s], None}, as \in SUBSET bytes[s] :
          /\ blob' = [blob EXCEPT ![s] = [v \in Version |-> IF v \in vs THEN @[v] ELSE None]]
          /\ draft' = [draft EXCEPT ![s] = d]
          /\ bytes' = [bytes EXCEPT ![s] = as]
          /\ \/ /\ Begins(s, "dropRows", None)
                /\ Reliable => vs = {} /\ d = None /\ as = {}
             \/ Begins(s, "free", None)
    BY <1>4 DEF Remove
  <2>2. AuthorKeeps(<<doc, created>>)
    BY <1>4 DEF Remove
  <2>3. blob'[s] = [v \in Version |-> IF v \in vs THEN blob[s][v] ELSE None]
    BY <2>1
  <2>4. blob'[s] \in [Version -> Html \cup {None}]
    BY <2>3
  <2>5. blob' \in [Slug -> [Version -> Html \cup {None}]]
    BY <2>1, <2>4
  <2>6. draft' \in [Slug -> Html \cup {None}] /\ bytes' \in [Slug -> SUBSET Sha]
    BY <2>1
  <2>7. doc' = doc /\ created' = created
    BY <2>2
  <2>8. CASE Begins(s, "dropRows", None) /\ (Reliable => as = {})
    <3>1. JobDone(s)'
      BY <2>1, <2>8
    <3> QED
      BY <2>5, <2>6, <2>7, <2>8, <3>1
  <2>9. CASE Begins(s, "free", None)
    BY <2>5, <2>6, <2>7, <2>9
  <2> QED
    BY <2>1, <2>8, <2>9
<1>5. CASE Upload(s)
  BY <1>5 DEF Upload
<1>6. CASE Drop(s)
  <2>1. PICK x \in Sha : /\ Begins(s, "dropRow", x)
                         /\ bytes' = [bytes EXCEPT ![s] = @ \ {x}]
    BY <1>6 DEF Drop
  <2>2. x \notin bytes'[s] /\ job'[s].at = "dropRow" /\ job'[s].sha = x
    BY <2>1
  <2>3. bytes' \in [Slug -> SUBSET Sha]
    BY <2>1
  <2>4. job' \in [Slug -> [at : JobAt, sha : Sha \cup {None}]]
    BY <2>1
  <2>5. blob' = blob /\ draft' = draft /\ doc' = doc /\ created' = created
    BY <1>6 DEF Drop
  <2>6. calls' \in 0..MaxCalls
    BY <2>1
  <2>7. x \notin bytes'[s] => JobDone(s)'
    BY <2>2, <2>5
  <2> QED
    BY <2>2, <2>3, <2>4, <2>5, <2>6, <2>7
<1>7. CASE List(s)
  <2>1. CASE Goes(s, "list", "free")
    BY <1>7, <2>1 DEF List
  <2>2. CASE Goes(s, "promote", "clear")
    <3> DEFINE r == [job[s] EXCEPT !.at = "clear"]
    <3>1. r \in [at : JobAt, sha : Sha \cup {None}] /\ r.at = "clear"
      <4>1. job[s] \in [at : JobAt, sha : Sha \cup {None}] /\ "clear" \in JobAt
        OBVIOUS
      <4> QED
        BY ONLY <4>1
    <3>2. job' = [job EXCEPT ![s] = r]
      BY <2>2
    <3> HIDE DEF r
    <3>3. job' \in [Slug -> [at : JobAt, sha : Sha \cup {None}]] /\ job'[s].at = "clear"
      BY <3>1, <3>2
    <3> QED
      BY <1>7, <2>2, <3>3 DEF List
  <2> QED
    BY <1>7, <2>1, <2>2 DEF List
<1>8. CASE ClearDraft(s)
  BY <1>8 DEF ClearDraft
<1>9. CASE DropRows(s)
  BY <1>9 DEF DropRows, Time
<1>10. CASE DropMeta(s)
  BY <1>10 DEF DropMeta
<1>11. CASE PutRow(s)
  BY <1>11 DEF PutRow, Time
<1>12. CASE DropRow(s)
  BY <1>12 DEF DropRow, Time
<1>13. CASE Fail(s)
  BY <1>13 DEF Fail
<1> QED
  BY <1>1, <1>2, <1>3, <1>4, <1>5, <1>6, <1>7, <1>8, <1>9, <1>10, <1>11, <1>12, <1>13
  DEF Author, Continue

LEMMA AuthorKeepsIInv ==
  ASSUME IInv, NEW s \in Slug, Author(s) \/ Continue(s) \/ Fail(s)
  PROVE  IInv'
<1>1. Aside(s) /\ TypeOK
  BY AuthorAside DEF IInv
<1>2. TypeOK'
  BY <1>1, AuthorTyped, HistoryTyped, Zenon DEF TypeOK, Aside, passVars
<1>3. LockHeld'
  BY <1>1 DEF IInv, LockHeld, Aside, passVars, Collecting
<1>4. Reading'
  BY <1>1 DEF IInv, Reading, Aside, passVars, Collecting
<1>5. ASSUME at \in {"delete", "deleteRow"}
      PROVE  cur # s /\ cur \in Slug /\ OwnRefs(cur)' = OwnRefs(cur)
  <2>1. cur # s /\ cur \in Slug /\ cur' = cur
    BY <1>1, <1>5 DEF IInv, LockHeld, Aside, Collecting, passVars
  <2>2. \A v \in 0..MaxVersion : HtmlAt(cur, v)' = HtmlAt(cur, v)
    BY <1>1, <2>1 DEF Aside, HtmlAt
  <2> QED
    BY <2>1, <2>2 DEF OwnRefs
<1>6. DoomedUnreferenced'
  BY <1>1, <1>5 DEF IInv, DoomedUnreferenced, Aside, passVars
<1>7. SteadySeen'
  <2> SUFFICES ASSUME NEW q \in steady'
               PROVE  /\ (HtmlAt(q[1], q[2]) # None)'
                      /\ doc'[q[1]]
                      /\ at' # "idle"
                      /\ at' # "docs" =>
                           \/ at' \in {"scan", "read"} /\ q[1] \in todo'
                           \/ at' = "read" /\ q[1] = cur' /\ q[2] \in left' \cup {0}
                           \/ (Scanned(HtmlAt(q[1], q[2])) \subseteq refs)'
    BY DEF SteadySeen
  <2>1. at' # "idle" /\ at' = at
    BY <1>1 DEF Aside, History, passVars
  <2>2. q \in steady /\ HtmlAt(q[1], q[2])' = HtmlAt(q[1], q[2]) /\ doc'[q[1]]
    BY <1>1, <2>1 DEF Aside, History
  <2>3. HtmlAt(q[1], q[2]) # None
    BY <2>2 DEF IInv, SteadySeen
  <2> QED
    BY <1>1, <2>1, <2>2, <2>3 DEF IInv, SteadySeen, Aside, passVars
<1>8. ASSUME NEW t \in Slug PROVE JobDone(t)'
  <2>1. CASE t = s
    BY <2>1, AuthorTyped, Zenon
  <2>2. CASE t # s
    BY <1>1, <2>2 DEF IInv, JobDone, Aside, HtmlAt
  <2> QED
    BY <2>1, <2>2
<1> QED
  BY <1>2, <1>3, <1>4, <1>6, <1>7, <1>8 DEF IInv

(* No step of the pass touches HTML or the rows of slugs. *)
LEMMA PassStill ==
  ASSUME TypeOK, UNCHANGED htmlVars, History
  PROVE  /\ \A t, v : HtmlAt(t, v)' = HtmlAt(t, v)
         /\ \A t : OwnRefs(t)' = OwnRefs(t)
         /\ doc' = doc
         /\ at' = "idle" => steady' = {}
         /\ at # "idle" /\ at' # "idle" => steady' \subseteq steady
         /\ at = "idle" /\ at' # "idle" => steady' = Live
<1>1. \A t, v : HtmlAt(t, v)' = HtmlAt(t, v)
  BY DEF HtmlAt, htmlVars
<1>2. \A t : OwnRefs(t)' = OwnRefs(t)
  BY <1>1 DEF OwnRefs
<1> QED
  BY <1>1, <1>2 DEF History, htmlVars

(* What a step that only reads leaves to show. *)
LEMMA ReadStep ==
  ASSUME IInv, UNCHANGED <<htmlVars, assetVars, job, clock, calls>>, History,
         at' \in PassAt, now' \in Clock, slugs' \in SUBSET Slug, todo' \in SUBSET Slug,
         cur' \in Slug \cup {None}, left' \in SUBSET Version, doomed' \in SUBSET Sha,
         victim' \in Sha \cup {None}
  PROVE  TypeOK' /\ \A t \in Slug : JobDone(t)'
<1>1. TypeOK'
  BY HistoryTyped DEF TypeOK, IInv, htmlVars, assetVars
<1>2. \A t \in Slug : JobDone(t)'
  BY DEF IInv, JobDone, HtmlAt, htmlVars, assetVars
<1> QED
  BY <1>1, <1>2

LEMMA StartKeepsIInv ==
  ASSUME IInv, Start PROVE IInv'
<1> USE DEF Start, Reads, PassKeeps
<1>1. TypeOK' /\ \A t \in Slug : JobDone(t)'
  BY ReadStep DEF IInv, TypeOK, PassAt
<1>2. LockHeld' /\ Reading' /\ DoomedUnreferenced'
  BY DEF IInv, LockHeld, Collecting, Reading, DoomedUnreferenced
<1>3. SteadySeen'
  BY PassStill DEF IInv, SteadySeen, Live, htmlVars
<1> QED
  BY <1>1, <1>2, <1>3 DEF IInv

LEMMA ListDocsKeepsIInv ==
  ASSUME IInv, ListDocs PROVE IInv'
<1> USE DEF ListDocs, Reads, PassKeeps
<1>1. TypeOK' /\ \A t \in Slug : JobDone(t)'
  BY ReadStep DEF IInv, TypeOK, PassAt
<1>2. LockHeld' /\ Reading' /\ DoomedUnreferenced'
  BY DEF IInv, LockHeld, Collecting, Reading, DoomedUnreferenced
<1>3. SteadySeen'
  BY PassStill DEF IInv, TypeOK, SteadySeen, Place
<1> QED
  BY <1>1, <1>2, <1>3 DEF IInv

LEMMA ListVersionsKeepsIInv ==
  ASSUME IInv, ListVersions PROVE IInv'
<1> USE DEF ListVersions, Reads, PassKeeps
<1>1. TypeOK' /\ \A t \in Slug : JobDone(t)'
  BY ReadStep DEF IInv, TypeOK, PassAt
<1>2. LockHeld' /\ Reading' /\ DoomedUnreferenced'
  BY DEF IInv, TypeOK, LockHeld, Collecting, Reading, DoomedUnreferenced
<1>3. SteadySeen'
  <2>1. PICK s \in todo : /\ todo' = todo \ {s} /\ cur' = s
                          /\ left' = {v \in Version : blob[s][v] # None}
    BY DEF ListVersions
  <2>2. steady' \subseteq steady /\ doc' = doc /\ \A t, v : HtmlAt(t, v)' = HtmlAt(t, v)
    BY PassStill DEF IInv
  <2>3. \A q \in steady : q[2] \in 0..MaxVersion /\ HtmlAt(q[1], q[2]) # None
    BY DEF IInv, TypeOK, SteadySeen, Place
  <2>4. \A q \in steady : q[1] = s => q[2] \in left' \cup {0}
    BY <2>1, <2>3, Bounds DEF HtmlAt, Version
  <2> QED
    BY <2>1, <2>2, <2>3, <2>4 DEF IInv, SteadySeen, ListVersions
<1> QED
  BY <1>1, <1>2, <1>3 DEF IInv

LEMMA ReadVersionKeepsIInv ==
  ASSUME IInv, ReadVersion PROVE IInv'
<1> USE DEF ReadVersion, Reads, PassKeeps
<1>1. TypeOK' /\ \A t \in Slug : JobDone(t)'
  BY ReadStep DEF IInv, TypeOK, PassAt
<1>2. LockHeld' /\ Reading' /\ DoomedUnreferenced'
  BY DEF IInv, LockHeld, Collecting, Reading, DoomedUnreferenced
<1>3. SteadySeen'
  <2>1. PICK v \in left : left' = left \ {v} /\ refs' = refs \cup Scanned(blob[cur][v])
    BY DEF ReadVersion
  <2>2. steady' \subseteq steady /\ doc' = doc /\ \A t, w : HtmlAt(t, w)' = HtmlAt(t, w)
    BY PassStill DEF IInv
  <2>3. v # 0 /\ HtmlAt(cur, v) = blob[cur][v]
    BY <2>1, Bounds DEF IInv, TypeOK, Version, HtmlAt
  <2> HIDE DEF ReadVersion
  <2>4. at = "read" /\ at' = "read" /\ todo' = todo /\ cur' = cur
    BY DEF ReadVersion
  <2> QED
    BY <2>1, <2>2, <2>3, <2>4 DEF IInv, SteadySeen
<1> QED
  BY <1>1, <1>2, <1>3 DEF IInv

LEMMA ReadDraftKeepsIInv ==
  ASSUME IInv, ReadDraft PROVE IInv'
<1> USE DEF ReadDraft, Reads, PassKeeps
<1>1. TypeOK' /\ \A t \in Slug : JobDone(t)'
  BY ReadStep DEF IInv, TypeOK, PassAt
<1>2. LockHeld' /\ Reading' /\ DoomedUnreferenced'
  BY DEF IInv, LockHeld, Collecting, Reading, DoomedUnreferenced
<1>3. SteadySeen'
  <2>1. steady' \subseteq steady /\ doc' = doc /\ \A t, w : HtmlAt(t, w)' = HtmlAt(t, w)
    BY PassStill DEF IInv
  <2>2. HtmlAt(cur, 0) = draft[cur]
    BY DEF HtmlAt
  <2> QED
    BY <2>1, <2>2 DEF IInv, SteadySeen
<1> QED
  BY <1>1, <1>2, <1>3 DEF IInv

LEMMA LockSlugKeepsIInv ==
  ASSUME IInv, LockSlug PROVE IInv'
<1>1. PICK s \in slugs : /\ job[s] = Free
                         /\ job' = [job EXCEPT ![s].at = "gc"]
                         /\ slugs' = slugs \ {s} /\ cur' = s
  BY DEF LockSlug
<1>2. s \in Slug /\ at = "scan" /\ at' = "decide" /\ todo = {} /\ todo' = {}
  BY DEF LockSlug, PassKeeps, IInv, TypeOK
<1>3. UNCHANGED <<htmlVars, assetVars, clock, calls, now, left, refs, doomed, victim>> /\ History
  BY DEF LockSlug, PassKeeps
<1>4. job' \in [Slug -> [at : JobAt, sha : Sha \cup {None}]]
  BY <1>1, <1>2 DEF IInv, TypeOK, Free, JobAt
<1>5. TypeOK'
  BY <1>1, <1>2, <1>3, <1>4, HistoryTyped DEF IInv, TypeOK, PassAt, htmlVars, assetVars
<1>6. \A t \in Slug : job'[t].at = IF t = s THEN "gc" ELSE job[t].at
  BY <1>1, <1>2 DEF IInv, TypeOK
<1>7. LockHeld' /\ Reading' /\ DoomedUnreferenced'
  BY <1>1, <1>2, <1>6 DEF IInv, LockHeld, Collecting, Reading, DoomedUnreferenced
<1>8. SteadySeen'
  BY <1>2, <1>3, PassStill DEF IInv, SteadySeen
<1>9. \A t \in Slug : JobDone(t)'
  BY <1>1, <1>2, <1>3, <1>6 DEF IInv, JobDone, HtmlAt, htmlVars, assetVars, TypeOK
<1> QED
  BY <1>5, <1>7, <1>8, <1>9 DEF IInv

LEMMA DecideKeepsIInv ==
  ASSUME IInv, Decide PROVE IInv'
<1> USE DEF Decide, Reads, PassKeeps
<1>1. TypeOK' /\ \A t \in Slug : JobDone(t)'
  BY ReadStep DEF IInv, TypeOK, PassAt, Rows
<1>2. LockHeld' /\ Reading'
  BY DEF IInv, LockHeld, Collecting, Reading
<1>3. DoomedUnreferenced'
  BY PassStill DEF IInv, DoomedUnreferenced
<1>4. SteadySeen'
  BY PassStill DEF IInv, SteadySeen
<1> QED
  BY <1>1, <1>2, <1>3, <1>4 DEF IInv

LEMMA DeleteBytesKeepsIInv ==
  ASSUME IInv, DeleteBytes PROVE IInv'
<1> USE DEF DeleteBytes, PassKeeps
<1>1. PICK x \in doomed : victim' = x /\ bytes' = [bytes EXCEPT ![cur] = @ \ {x}]
  OBVIOUS
<1>2. cur \in Slug /\ x \in Sha
  BY DEF IInv, TypeOK, LockHeld, Collecting
<1>3. bytes' \in [Slug -> SUBSET Sha] /\ x \notin bytes'[cur]
      /\ \A t \in Slug : bytes'[t] \subseteq bytes[t]
  BY <1>1, <1>2 DEF IInv, TypeOK
<1>4. TypeOK'
  BY <1>1, <1>2, <1>3, HistoryTyped DEF IInv, TypeOK, PassAt, htmlVars, assetVars
<1>5. LockHeld' /\ Reading'
  BY DEF IInv, LockHeld, Collecting, Reading
<1>6. DoomedUnreferenced'
  BY <1>1, <1>3, PassStill DEF IInv, DoomedUnreferenced
<1>7. SteadySeen'
  BY PassStill DEF IInv, SteadySeen
<1>8. \A t \in Slug : JobDone(t)'
  BY <1>3 DEF IInv, JobDone, HtmlAt, htmlVars
<1> QED
  BY <1>4, <1>5, <1>6, <1>7, <1>8 DEF IInv

LEMMA DeleteRowKeepsIInv ==
  ASSUME IInv, DeleteRow PROVE IInv'
<1> USE DEF DeleteRow, PassKeeps
<1>1. created' \in [Slug -> [Sha -> Time]]
  BY DEF IInv, TypeOK, Time
<1>2. TypeOK'
  BY <1>1, HistoryTyped DEF IInv, TypeOK, PassAt, htmlVars
<1>3. LockHeld' /\ Reading'
  BY DEF IInv, LockHeld, Collecting, Reading
<1>4. DoomedUnreferenced'
  BY PassStill DEF IInv, DoomedUnreferenced
<1>5. SteadySeen'
  BY PassStill DEF IInv, SteadySeen
<1>6. \A t \in Slug : JobDone(t)'
  BY DEF IInv, JobDone, HtmlAt, htmlVars
<1> QED
  BY <1>2, <1>3, <1>4, <1>5, <1>6 DEF IInv

(* The end of a slug's collection and of the pass. *)
LEMMA LeaveKeepsIInv ==
  ASSUME IInv, UnlockSlug \/ Finish \/ Abort PROVE IInv'
<1>1. UNCHANGED <<htmlVars, assetVars, clock, calls>> /\ History
  BY DEF UnlockSlug, Finish, Abort, Reads, PassKeeps, Ends
<1>2. at' \in {"idle", "scan"} /\ (at' = "scan" => todo' = todo /\ UnlockSlug)
  BY DEF UnlockSlug, Finish, Abort, Ends, PassKeeps
<1>3. \A t \in Slug : /\ job'[t] \in [at : JobAt, sha : Sha \cup {None}]
                      /\ job'[t] = job[t] \/ job'[t] = Free
                      /\ job'[t].at # "gc"
  BY DEF UnlockSlug, Finish, Abort, Reads, PassKeeps, Free, JobAt, IInv, TypeOK, LockHeld,
     Collecting
<1>4. job' \in [Slug -> [at : JobAt, sha : Sha \cup {None}]]
  BY <1>3 DEF UnlockSlug, Finish, Abort, Reads, PassKeeps, Free, JobAt, IInv, TypeOK
<1>5. TypeOK'
  BY <1>1, <1>4, Bounds, HistoryTyped
  DEF UnlockSlug, Finish, Abort, Ends, PassKeeps, IInv, TypeOK, PassAt, Clock, htmlVars,
      assetVars
<1>6. LockHeld' /\ Reading' /\ DoomedUnreferenced'
  BY <1>2, <1>3 DEF LockHeld, Collecting, Reading, DoomedUnreferenced
<1>7. SteadySeen'
  BY <1>1, <1>2, PassStill DEF IInv, SteadySeen, UnlockSlug, PassKeeps
<1>8. \A t \in Slug : JobDone(t)'
  BY <1>1, <1>3 DEF IInv, JobDone, HtmlAt, htmlVars, assetVars, Free
<1> QED
  BY <1>5, <1>6, <1>7, <1>8 DEF IInv

LEMMA TickKeepsIInv ==
  ASSUME IInv, Tick PROVE IInv'
<1>1. UNCHANGED <<htmlVars, assetVars, calls, job, passVars>> /\ History
  BY DEF Tick
<1>2. clock' \in Clock
  BY Bounds DEF Tick, IInv, TypeOK, Clock
<1>3. TypeOK'
  BY <1>1, <1>2, HistoryTyped DEF IInv, TypeOK, htmlVars, assetVars, passVars
<1>4. SteadySeen' /\ DoomedUnreferenced'
  BY <1>1, PassStill DEF IInv, SteadySeen, DoomedUnreferenced, passVars, htmlVars, assetVars
<1>5. LockHeld' /\ Reading' /\ \A t \in Slug : JobDone(t)'
  BY <1>1 DEF IInv, LockHeld, Collecting, Reading, JobDone, HtmlAt, passVars, htmlVars, assetVars
<1> QED
  BY <1>3, <1>4, <1>5 DEF IInv

LEMMA StutterKeepsIInv ==
  ASSUME IInv, UNCHANGED vars PROVE IInv'
BY DEF vars, htmlVars, assetVars, passVars, IInv, TypeOK, LockHeld, Collecting, Reading,
   DoomedUnreferenced, SteadySeen, JobDone, HtmlAt, OwnRefs, Scanned

(* IInv is an invariant, for any slugs, texts, addresses, grace and bounds. *)
THEOREM Inductive == Spec => []IInv
<1>1. ASSUME IInv, [Next]_vars PROVE IInv'
  <2>1. CASE \E s \in Slug : Author(s) \/ Continue(s) \/ Fail(s)
    BY <1>1, <2>1, AuthorKeepsIInv
  <2>2. CASE Start \/ Pass \/ Abort
    BY <1>1, <2>2, StartKeepsIInv, ListDocsKeepsIInv, ListVersionsKeepsIInv,
       ReadVersionKeepsIInv, ReadDraftKeepsIInv, LockSlugKeepsIInv, DecideKeepsIInv,
       DeleteBytesKeepsIInv, DeleteRowKeepsIInv, LeaveKeepsIInv, Zenon DEF Pass
  <2>3. CASE Tick
    BY <1>1, <2>3, TickKeepsIInv
  <2>4. CASE UNCHANGED vars
    BY <1>1, <2>4, StutterKeepsIInv
  <2> QED
    BY <1>1, <2>1, <2>2, <2>3, <2>4, Zenon DEF Next
<1> QED
  BY InitIInv, <1>1, PTL DEF Spec
-----------------------------------------------------------------------------
(* What the pass deletes is doomed, on the slug it holds. *)
LEMMA DeletesDoomed ==
  ASSUME IInv, [Next]_vars, NEW s \in Slug, NEW x \in Sha, Deletes(s, x)
  PROVE  s = cur /\ at = "delete" /\ x \in doomed
<1>1. Collecting /\ s = cur
  BY DEF IInv, LockHeld, Deletes
<1>2. ASSUME NEW t \in Slug, Author(t) \/ Continue(t) \/ Fail(t) PROVE FALSE
  BY <1>2, AuthorAside DEF Aside, Deletes
<1>3. CASE DeleteBytes
  BY <1>1, <1>3 DEF DeleteBytes, Deletes, IInv, TypeOK
<1>4. ASSUME ~DeleteBytes, Start \/ Pass \/ Abort \/ Tick \/ UNCHANGED vars PROVE FALSE
  <2>1. bytes' = bytes
    BY <1>4 DEF Start, Pass, Abort, Tick, ListDocs, ListVersions, ReadVersion, ReadDraft,
       LockSlug, Decide, DeleteRow, UnlockSlug, Finish, Reads, PassKeeps, assetVars, vars
  <2> QED
    BY <2>1 DEF Deletes
<1> QED
  BY <1>1, <1>2, <1>3, <1>4 DEF Next

(* The slug's own HTML keeps its assets. *)
THEOREM OwnReferencesHold == Spec => OwnReferencedKept
<1>1. ASSUME IInv, [Next]_vars
      PROVE  \A s \in Slug, x \in Sha, v \in 0..MaxVersion :
               Deletes(s, x) => x \notin References(HtmlAt(s, v))
  <2> SUFFICES ASSUME NEW s \in Slug, NEW x \in Sha, NEW v \in 0..MaxVersion, Deletes(s, x)
               PROVE  x \notin References(HtmlAt(s, v))
    OBVIOUS
  <2>1. x \notin OwnRefs(s)
    BY <1>1, DeletesDoomed DEF IInv, DoomedUnreferenced
  <2>2. Scanned(HtmlAt(s, v)) \subseteq OwnRefs(s)
    BY DEF OwnRefs
  <2> QED
    BY <2>1, <2>2, ScanComplete
<1> QED
  BY Inductive, <1>1, PTL DEF Spec, OwnReferencedKept

(* A version or draft that keeps still keeps every asset it refers to, on any slug. *)
THEOREM SteadyReferencesHold == Spec => SteadyReferencesKept
<1>1. ASSUME IInv, [Next]_vars
      PROVE  \A s \in Slug, x \in Sha : Deletes(s, x) =>
               \A q \in steady : x \notin References(HtmlAt(q[1], q[2]))
  <2> SUFFICES ASSUME NEW s \in Slug, NEW x \in Sha, Deletes(s, x), NEW q \in steady
               PROVE  x \notin References(HtmlAt(q[1], q[2]))
    OBVIOUS
  <2>1. at = "delete" /\ x \notin refs
    BY <1>1, DeletesDoomed DEF IInv, DoomedUnreferenced
  <2>2. Scanned(HtmlAt(q[1], q[2])) \subseteq refs
    BY <1>1, <2>1 DEF IInv, SteadySeen
  <2> QED
    BY <2>1, <2>2, ScanComplete
<1> QED
  BY Inductive, <1>1, PTL DEF Spec, SteadyReferencesKept

(* Rows are given up after the bytes, by authors and the pass alike, if every deletion
   that fails is reported. *)
THEOREM RowsOutlive ==
  ASSUME Reliable
  PROVE  Spec => RowOutlivesBytes
<1>1. ASSUME IInv, [Next]_vars, NEW s \in Slug, NEW x \in Sha,
             created[s][x] # None, created'[s][x] = None
      PROVE  x \notin bytes[s]
  <2>1. CASE \E t \in Slug : DropRows(t) \/ DropRow(t)
    <3>1. PICK t \in Slug : DropRows(t) \/ DropRow(t)
      BY <2>1
    <3>2. t = s /\ (DropRow(t) => x = job[t].sha)
      BY <1>1, <3>1 DEF DropRows, DropRow, IInv, TypeOK
    <3> QED
      BY <1>1, <3>1, <3>2 DEF DropRows, DropRow, Goes, IInv, JobDone
  <2>2. CASE DeleteRow
    <3>1. cur = s /\ victim = x
      BY <1>1, <2>2 DEF DeleteRow, IInv, TypeOK
    <3> QED
      BY <1>1, <2>2, <3>1 DEF DeleteRow, IInv, DoomedUnreferenced
  <2>3. CASE \E t \in Slug : PutRow(t)
    <3>1. PICK t \in Slug : PutRow(t)
      BY <2>3
    <3>2. job[t].sha \in Sha /\ clock # None
      BY <1>1, <3>1, NoneFresh DEF PutRow, Goes, IInv, JobDone, TypeOK, Clock
    <3>3. created' = [created EXCEPT ![t][job[t].sha] = IF @ = None THEN clock ELSE @]
      BY <3>1 DEF PutRow
    <3> QED
      BY <1>1, <3>2, <3>3 DEF IInv, TypeOK
  <2>4. ASSUME created' = created PROVE FALSE
    BY <1>1, <2>4
  <2>5. ASSUME NEW t \in Slug, Author(t) \/ Continue(t) \/ Fail(t)
        PROVE  DropRows(t) \/ DropRow(t) \/ PutRow(t) \/ created' = created
    BY <2>5 DEF Author, Continue, Publish, SaveDraft, Promote, Remove, Upload, Drop, List,
       ClearDraft, DropMeta, Fail, AuthorKeeps, assetVars
  <2>6. ASSUME Start \/ Pass \/ Abort \/ Tick \/ UNCHANGED vars
        PROVE  DeleteRow \/ created' = created
    BY <2>6 DEF Start, Pass, Abort, Tick, ListDocs, ListVersions, ReadVersion, ReadDraft,
       LockSlug, Decide, DeleteBytes, UnlockSlug, Finish, Reads, PassKeeps, assetVars, vars
  <2> QED
    BY <1>1, <2>1, <2>2, <2>3, <2>4, <2>5, <2>6 DEF Next
<1>2. ASSUME IInv, [Next]_vars
      PROVE  \A s \in Slug, x \in Sha :
               created[s][x] # None /\ created'[s][x] = None => x \notin bytes[s]
  BY <1>1, <1>2
<1> QED
  BY Inductive, <1>2, PTL DEF Spec, RowOutlivesBytes
=============================================================================
