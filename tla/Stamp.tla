-------------------------------- MODULE Stamp --------------------------------
(***************************************************************************)
(* Artifact identity (core/stamp.go).  Every commentable element of a      *)
(* document carries a hash of its own content, data-odoc-aid, which        *)
(* comments are anchored to.  StampAids computes the aids of an HTML text  *)
(* and writes them into it; each publish, saved draft and promote stamps   *)
(* whatever HTML it is given, stamped before or not.                       *)
(*                                                                         *)
(* HTML is a sequence of tokens: tags, headings, HTML comments and text.   *)
(* The hash Cyrb53 is taken to be free of collisions, and texts stand for  *)
(* their whitespace-normalised form; offsets, quoting and letters outside  *)
(* ASCII are left out.                                                     *)
(***************************************************************************)
EXTENDS Naturals, Sequences, FiniteSets

CONSTANTS None,
          stampableTags, rawTextTags, voidTags  \* voidTags: img and iframe

ASSUME RawTags == None \notin rawTextTags /\ rawTextTags \cap voidTags = {}

(* A token: the tag name, text or heading it shows, whether the name is written in
   capitals, its intrinsic attributes (src, alt, ...), its other attributes, whether these
   hold an opt-in marker, how many slashes end it, and its stamp. *)
Token(kind, name) == [kind |-> kind, name |-> name, caps |-> FALSE, src |-> None,
                      class |-> None, marked |-> FALSE, slashes |-> 0, aid |-> None]
Open(tag) == Token("open", tag)
Close(tag) == Token("close", tag)

\* A self-closed element, "<tag src=.../>".
SelfClosed(tag, src) == [Open(tag) EXCEPT !.src = src, !.slashes = 1]

(* dataOdocAttrRe: HTML without its stamps. *)
Bare(h) == [i \in DOMAIN h |-> [h[i] EXCEPT !.aid = None]]

Opens(e, tag) == e.kind = "open" /\ e.name = tag
Closes(e, tag) == e.kind = "close" /\ e.name = tag
IsVoid(e) == e.name \in voidTags \/ e.slashes > 0
-----------------------------------------------------------------------------
\* Script and style bodies are searched for tags like the rest.
CloseInRawText(h, i) ==
  LET tag == h[i].name
      depth[j \in i..Len(h)] ==
        IF j = i THEN 1
        ELSE IF depth[j - 1] = 0 THEN 0
        ELSE CASE Closes(h[j], tag) -> depth[j - 1] - 1
               [] Opens(h[j], tag) -> depth[j - 1] + 1
               [] OTHER -> depth[j - 1]
      end == i + Cardinality({j \in i..Len(h) : depth[j] > 0})
  IN  IF end <= Len(h) THEN end ELSE i

(* The scan for the closing tag of an element named tag, past the token e: s is the nesting
   depth and the raw-text element being skipped (skipRawTextBodyAt), if any. *)
scanned(s, e, tag) ==
  IF s.depth = 0 THEN s
  ELSE IF s.raw # None THEN IF Closes(e, s.raw) THEN [s EXCEPT !.raw = None] ELSE s
  ELSE CASE Closes(e, tag) -> [s EXCEPT !.depth = @ - 1]
         [] Opens(e, tag) -> [s EXCEPT !.depth = @ + 1]
         [] e.kind = "open" /\ e.name \in rawTextTags \ {tag} /\ e.slashes = 0 ->
              [s EXCEPT !.raw = e.name]
         [] OTHER -> s

(* findCloseEnd: the closing tag of the element opened at i, i itself if it has none.
   Elements of its own name nest; what stands in raw text is skipped. *)
findCloseEnd(h, i) ==
  LET scan[j \in i..Len(h)] ==
        IF j = i THEN [depth |-> 1, raw |-> None] ELSE scanned(scan[j - 1], h[j], h[i].name)
      \* once closed the scan stays so: the tokens before the closing tag are counted
      end == i + Cardinality({j \in i..Len(h) : scan[j].depth > 0})
  IN  IF end <= Len(h) THEN end ELSE i

(* harvest: the tokens inside the element at i. *)
innerHTML(h, i) ==
  IF IsVoid(h[i]) \/ findCloseEnd(h, i) = i THEN <<>>
  ELSE SubSeq(h, i + 1, findCloseEnd(h, i) - 1)

(* harvestStampableTags and harvestOptInMarkers: the places of the artifacts, those in
   raw text included. *)
Artifacts(h) ==
  {i \in DOMAIN h : h[i].kind = "open" /\ (h[i].name \in stampableTags \/ h[i].marked)}

\* htmlCommentRe: the tokens s without HTML comments.
withoutComments(s) ==
  LET kept[n \in 0..Len(s)] ==
        IF n = 0 THEN <<>>
        ELSE IF s[n].kind = "comment" THEN kept[n - 1] ELSE Append(kept[n - 1], s[n])
  IN  kept[Len(s)]

\* Nested stamps and HTML comments are hashed with the rest.
HashInnerAsIs(h, i) ==
  <<h[i].name, h[i].src,
    SubSeq(h, i + 1, IF IsVoid(h[i]) THEN i ELSE findCloseEnd(Bare(h), i) - 1)>>

(* aidFor: the hash of the element's name, intrinsic attributes and normalised inside. *)
aidFor(h, i) ==
  <<h[i].name, h[i].src, withoutComments(innerHTML(Bare(h), i))>>

(* collectHeadings, nearestHeadingAt: the last heading that ends before i. *)
nearestHeading(h, i) ==
  LET before == {j \in 1..(i - 1) : h[j].kind = "heading"}
  IN  IF before = {} THEN None ELSE h[CHOOSE j \in before : \A k \in before : k <= j].name

\* An element that carries an aid is listed with it.
AIDsFromHtml(h) == {[at |-> i, aid |-> IF h[i].aid = None THEN aidFor(h, i) ELSE h[i].aid,
                     tag |-> h[i].name, heading |-> nearestHeading(h, i)] : i \in Artifacts(h)}

(* StampAids' index of the artifacts. *)
AIDs(h) == {[at |-> i, aid |-> aidFor(h, i), tag |-> h[i].name,
             heading |-> nearestHeading(h, i)] : i \in Artifacts(h)}

(* StampAids' HTML: each artifact's tag is written anew in lower case, the old stamp gone
   and the new one at its end; the slash of a self-closed tag is among the attributes
   that stay, and is written again behind the stamp. *)
StampAids(h) == [i \in DOMAIN h |->
  IF i \in Artifacts(h)
  THEN [h[i] EXCEPT !.aid = aidFor(h, i), !.caps = FALSE,
                    !.slashes = IF @ > 0 THEN @ + 1 ELSE 0]
  ELSE h[i]]
=============================================================================
