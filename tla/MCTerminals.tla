---------------------------- MODULE MCTerminals -----------------------------
(***************************************************************************)
(* Instances of Terminals for TLC.                                         *)
(***************************************************************************)
EXTENDS Terminals

CONSTANTS t1, t2, shell, c1, c2

TwoIds   == {t1, t2}
OneName  == {shell}
TwoCalls == {c1, c2}
=============================================================================
