---------------------------- MODULE MCSenderPool ----------------------------
(* SenderPool for TLC: model values for its threads are given in the cfg. *)
EXTENDS SenderPool
=============================================================================
