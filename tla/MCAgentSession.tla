--------------------------- MODULE MCAgentSession ---------------------------
(***************************************************************************)
(* Instances of AgentSession for TLC.                                      *)
(***************************************************************************)
EXTENDS AgentSession

CONSTANTS c1, c2, q1, q2

TwoCalls     == {c1, c2}
OneQuestion  == {q1}
TwoQuestions == {q1, q2}
=============================================================================
