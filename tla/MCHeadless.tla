----------------------------- MODULE MCHeadless -----------------------------
(* Headless with one source and a roll-over: two runs in one start, or one *)
(* in each of two.                                                         *)
EXTENDS Headless, TLC

CONSTANTS s1

OneSource == {s1}
=============================================================================
