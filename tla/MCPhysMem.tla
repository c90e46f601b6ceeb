----------------------------- MODULE MCPhysMem -----------------------------
(* A small machine for PhysMem: frames of 4 bytes, 4 bits in a char of the *)
(* bitmap, tables of 12 entries.  As in the real one the first megabyte    *)
(* ends where the kernel begins, the video window straddles that border,   *)
(* and the window V_USER .. V_STACK lies in table 0 above the kernel.      *)
EXTENDS PhysMem

MCVideo     == {3, 4}
MCVideoText == {2}
\* Any frame; the text screen; one hidden behind V_USER; a frame buffer in
\* table 3, beyond the memory.
MCRequests  == {0, 2, 9, 40}
=============================================================================
