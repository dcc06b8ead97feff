----------------------------- MODULE MCGestures -----------------------------
(* Two controls and four configurations of them, for TLC. *)
EXTENDS Gestures

CONSTANTS c1, c2

TwoControls == {c1, c2}

\* c1 is bound to a hold, to a double tap, to both or to neither; c2 to
\* nothing that waits, except in the first.
SomeInterests ==
    {[hold |-> {c1}, double |-> {c1, c2}], [hold |-> {c1}, double |-> {}],
     [hold |-> {}, double |-> {c1}], [hold |-> {}, double |-> {}]}
=============================================================================
