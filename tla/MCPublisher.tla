---------------------------- MODULE MCPublisher ----------------------------
(* Instances of Publisher for TLC.  Rows, posts and engines are model       *)
(* values; the definitions below give the constants that a .cfg cannot.     *)
EXTENDS Publisher

CONSTANTS p1, p2, a, b

\* Two rows of one post.
OnePost == [p \in {p1, p2} |-> a]

\* Two rows, each of a post of its own.
TwoPosts == [p \in {p1, p2} |-> IF p = p1 THEN a ELSE b]

\* A single row.
SingleRow == [p \in {p1} |-> a]

OneTickBackoff == <<1>>
GrowingBackoff == <<1, 2>>
=============================================================================
