-------------------------- MODULE MCConfiguration --------------------------
(* Two files, a client or two, and edits of a pad and a knob, for TLC. *)
EXTENDS Configuration

CONSTANTS k1, k2, pad, knob, home, dev

B(id, control, gesture, force, page, priority, halts) ==
    [id |-> id, control |-> control, gesture |-> gesture, force |-> force, page |-> page,
     workspace |-> None, priority |-> priority, halts |-> halts]

Stop     == B("stop", pad, "tap", None, None, 1, TRUE)
Open     == B("open", pad, "tap", None, None, 0, FALSE)
OpenToo  == B("open too", pad, "tap", None, None, 0, FALSE)
OnDev    == B("on dev", pad, "tap", None, dev, 0, FALSE)
OnDevToo == B("on dev too", pad, "tap", None, dev, 0, FALSE)
HardStop == B("hard stop", pad, "tap", "hard", None, 0, TRUE)
Louder   == B("louder", knob, "turn", None, None, 0, FALSE)
Next1    == B("next", knob, "turn_right", None, None, 0, FALSE)

File(pages, bindings) == [pages |-> pages, bindings |-> bindings, whole |-> TRUE]

\* The page dev is in the main file, and what is bound on it in another.
TwoFiles == <<File({home, dev}, {Stop, Open, Louder}), File({}, {OnDev})>>

OneClient == {k1}
TwoClients == {k1, k2}

SomeEdits ==
    {[kind |-> "bind", of |-> OpenToo], [kind |-> "bind", of |-> OnDevToo],
     [kind |-> "unbind", of |-> OnDev], [kind |-> "addpage", of |-> dev],
     [kind |-> "removepage", of |-> dev]}

\* What the operator writes: something of use, and something that is refused.
SomeDrafts == {<<2, File({}, {Next1})>>, <<2, File({}, {HardStop})>>}
=============================================================================
