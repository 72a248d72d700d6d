------------------------- MODULE MCPublisherEditors -------------------------
(* Instances of PublisherEditors for TLC.                                   *)
EXTENDS PublisherEditors

CONSTANTS p1, p2, a

OnePost == [p \in {p1, p2} |-> a]
SingleRow == [p \in {p1} |-> a]
OneTickBackoff == <<1>>
=============================================================================
