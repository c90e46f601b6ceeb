------------------------------ MODULE MCSpeed ------------------------------
(* The clock, the keyboard and a line that has no handler of its own; maps *)
(* of two chars of two ports.                                              *)
EXTENDS Speed

MCVectors == {16, 17, 20}
=============================================================================
