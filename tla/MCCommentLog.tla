---------------------------- MODULE MCCommentLog ----------------------------
(* Instances of CommentLog for TLC.  Comments do not read each other's logs, so one is
   enough.  Three artifacts of one tag, under three headings: an anchor made on x1 finds
   x1, has x2 as its only candidate, or has two and cannot choose. *)
EXTENDS CommentLog, TLC

CONSTANTS c1, r1, u1, x1, x2, x3

OneComment == {c1}
OneReply == {r1}
OneUser == {u1}
Figures == {x1, x2, x3}
SameTag == [x \in Figures |-> "figure"]
Headings == [x \in Figures |-> CASE x = x1 -> "one" [] x = x2 -> "two" [] x = x3 -> "three"]
Pages3 == {{x1}, {x2}, {x2, x3}}
OnFigure == {Element(x1, x1)}
AppliedText == {[v |-> 1, anchor |-> TextAnchor, applied |-> 2, by |-> u1]}
=============================================================================
