------------------------------ MODULE MCDedup ------------------------------
(* Dedup for TLC: small windows, so that forgetting happens early. *)
EXTENDS Dedup

CONSTANTS s1, s2, a, b

MCSource == {s1, s2}
MCHash == {a, b}
Symmetry == Permutations(Source) \cup Permutations(Hash)
=============================================================================
