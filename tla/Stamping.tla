------------------------------ MODULE Stamping ------------------------------
(***************************************************************************)
(* One document and one comment on it, as its HTML is stamped, edited by   *)
(* people and agents who start from the stamped text, drafted, promoted    *)
(* and published (service/doc.go), while each publish re-binds the         *)
(* comment's anchor by the stamps (core/reconcile.go).                     *)
(***************************************************************************)
EXTENDS Stamp

CONSTANTS Html,    \* HTML that authors write themselves
          Word,    \* texts an edit may put in
          MaxEdits \* bound: edits of stamped HTML

VARIABLES draft,   \* the stored draft, None if there is none
          doc,     \* the newest version, None before the first
          anchor,  \* the comment's anchor as of that version, None before it is made
          edits    \* number of edits, only to bound them

vars == <<draft, doc, anchor, edits>>

Init == draft = None /\ doc = None /\ anchor = None /\ edits = 0
-----------------------------------------------------------------------------
\* The tokens of the element opened at i.
Whole(h, i) == SubSeq(h, i, IF IsVoid(h[i]) THEN i ELSE findCloseEnd(h, i))

Reworded(h, i, w) == [h EXCEPT ![i].name = w]
Without(h, i) == SubSeq(h, 1, i - 1) \o SubSeq(h, i + Len(Whole(h, i)), Len(h))
Copied(h, i, at) == SubSeq(h, 1, at) \o Whole(h, i) \o SubSeq(h, at + 1, Len(h))

(* What an author sends who starts from the stored HTML h: a text changed, an element
   removed, or an element copied with its stamps to the end. *)
Edits(h) ==
  {Reworded(h, i, w) : i \in {j \in DOMAIN h : h[j].kind = "text"}, w \in Word}
  \cup {Without(h, i) : i \in Artifacts(h)}
  \cup {Copied(h, i, Len(h)) : i \in Artifacts(h)}

Stored == {doc, draft} \ {None}
-----------------------------------------------------------------------------
(* findRebindAid: the artifacts that look like the one the anchor was made on, by tag and
   nearest heading, or by tag alone if none has both. *)
Candidates(a, arts) ==
  LET tagged == {x \in arts : x.tag = a.tag}
      alike == {x \in tagged : a.heading = None \/ x.heading = a.heading}
  IN  IF alike = {} THEN tagged ELSE alike

Lost(a) == [a EXCEPT !.kind = "lost", !.aid = None]

(* nextAnchor: exactly one candidate, counted by element, re-binds the anchor. *)
nextAnchor(a, arts) ==
  IF Cardinality(Candidates(a, arts)) = 1
  THEN [a EXCEPT !.kind = "element", !.aid = (CHOOSE x \in Candidates(a, arts) : TRUE).aid]
  ELSE Lost(a)

\* Every publish looks for the best candidate anew.
AlwaysRebind(a, arts) == IF a = None THEN a ELSE nextAnchor(a, arts)

(* reconcileComment: an anchor whose aid the new version has stays. *)
Reconciled(a, arts) ==
  IF a = None \/ \E x \in arts : x.aid = a.aid THEN a ELSE nextAnchor(a, arts)

\* publishLocked stores and reconciles the HTML h.
Commit(h) == doc' = StampAids(h) /\ anchor' = Reconciled(anchor, AIDs(h))

Publish(h) == h # <<>> /\ Commit(h) /\ UNCHANGED draft

SaveDraft(h) == h # <<>> /\ draft' = StampAids(h) /\ UNCHANGED <<doc, anchor>>

(* Promote publishes the stored draft, which SaveDraft stamped, and clears it. *)
Promote == draft # None /\ Commit(draft) /\ draft' = None /\ UNCHANGED edits

(* A reader comments on a stamped element of the version: its aid, tag and nearest
   heading are what the overlay sends. *)
Comment(i) ==
  /\ doc # None /\ doc[i].aid # None
  /\ anchor' = [kind |-> "element", aid |-> doc[i].aid, tag |-> doc[i].name,
                heading |-> nearestHeading(doc, i)]
  /\ UNCHANGED <<draft, doc, edits>>

Next ==
  \/ \E h \in Html : (Publish(h) \/ SaveDraft(h)) /\ UNCHANGED edits
  \/ \E s \in Stored : \E h \in Edits(s) :
       edits < MaxEdits /\ (Publish(h) \/ SaveDraft(h)) /\ edits' = edits + 1
  \/ Promote
  \/ \E i \in (IF doc = None THEN {} ELSE Artifacts(doc)) : Comment(i)

Spec == Init /\ [][Next]_vars
-----------------------------------------------------------------------------
(* What a reader is shown of the element opened at i, defined from the nesting of the HTML
   and not by scanning it: InRaw marks the text of scripts and styles, EndOf is where as
   many elements are closed as were opened. *)
InRaw(h, k) == \E a \in 1..(k - 1) :
  /\ h[a].kind = "open" /\ h[a].name \in rawTextTags
  /\ \A b \in (a + 1)..k : ~Closes(h[b], h[a].name)
EndOf(h, i) ==
  LET opened(j) == {k \in i..j : h[k].kind = "open" /\ ~IsVoid(h[k]) /\ ~InRaw(h, k)}
      closed(j) == {k \in i..j : h[k].kind = "close" /\ ~InRaw(h, k)}
  IN  CHOOSE j \in i..Len(h) :
        /\ Cardinality(opened(j)) = Cardinality(closed(j))
        /\ \A k \in i..(j - 1) : Cardinality(opened(k)) # Cardinality(closed(k))
Shown(h, i) ==
  LET element == SubSeq(Bare(h), i, IF IsVoid(h[i]) THEN i ELSE EndOf(h, i))
  IN  withoutComments([element EXCEPT ![1] = [Open(h[i].name) EXCEPT !.src = h[i].src]])

(* Every stored HTML is stamped as stamping it again would: no stale stamp that an author
   brought along survives, and an element stamped before keeps its aid. *)
StampsSettle == \A h \in Stored : StampAids(h) = h

(* Two elements, of the version or of the draft, carry one aid exactly if they show the
   same: a comment is never displayed on content other than it was anchored to. *)
AidsNameContent == \A g, h \in Stored : \A i \in Artifacts(g), j \in Artifacts(h) :
  g[i].aid = h[j].aid <=> Shown(g, i) = Shown(h, j)

(* An element anchor always finds its element in the newest version: what reconciliation
   believed the HTML contains is what was written into it. *)
AnchorResolves ==
  anchor # None /\ anchor.kind = "element" => \E i \in DOMAIN doc : doc[i].aid = anchor.aid

(* A publish leaves a comment on its element for as long as the new version shows that
   element anywhere, whatever else changed around it. *)
AnchorFollowsContent == [][
  anchor # None /\ doc' # doc =>
    \A i \in Artifacts(doc), j \in Artifacts(doc') :
      doc[i].aid = anchor.aid /\ Shown(doc, i) = Shown(doc', j) => anchor' = anchor]_vars

(* "A pre-stamped element keeps its existing aid": the version a promote makes is the
   draft as it was stamped. *)
PromoteKeepsStamps == [][Promote => doc' = draft]_vars
=============================================================================
