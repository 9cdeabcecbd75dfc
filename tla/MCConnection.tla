---------------------------- MODULE MCConnection ----------------------------
(* Connection for TLC: the source's own constants, in ticks of half a second. *)
EXTENDS Connection
=============================================================================
