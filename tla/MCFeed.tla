------------------------------- MODULE MCFeed -------------------------------
(* Feed for TLC: a few blocks, one or two sources, a channel for one message. *)
EXTENDS Feed

CONSTANTS s1, s2

MCSource == {s1, s2}
MCHash == 1 .. MaxBlocks
MCSeqNum == 0 .. MaxBlocks - 1
Symmetry == Permutations(Source)
=============================================================================
