----------------------------- MODULE MCStamping -----------------------------
(* Instances of Stamping for TLC. *)
EXTENDS Stamping, TLC

CONSTANTS s1, s2

Texts == {"w"}
Text(w) == Token("text", w)
Img(s) == [Open("img") EXCEPT !.src = s]
Element(tag, inside) == <<Open(tag)>> \o inside \o <<Close(tag)>>
OptedIn(inside) == <<[Open("div") EXCEPT !.marked = TRUE]>> \o inside \o <<Close("div")>>

\* A section in a section; two figures, one under a heading; an opted-in element with a
\* script that holds tags.
Nested == Element("figure", <<Token("comment", "w")>> \o Element("figure", <<Text("v"), Img(s1)>>) \o <<Text("v")>>)
Headed == Element("figure", <<Img(s2)>>) \o <<Token("heading", "one")>>
          \o Element("figure", <<Img(s1)>>)
Scripted == OptedIn(Element("script", <<Close("div"), Img(s1)>>) \o <<Text("v")>>)
Pages == {Nested, Headed, Scripted}

\* An image written as XHTML, in a figure.
Slashed == {Element("figure", <<SelfClosed("img", s1)>>)}
=============================================================================
