----------------------------- MODULE MCVerifier -----------------------------
(* Verifier for TLC, on the curve y^2 = x^3 + 3 over the field of 19 elements, *)
(* whose group has 13: digits of 2 bits, so that 12 needs the extra row.       *)
EXTENDS Verifier

CONSTANTS t1, t2, c1, c2

MCGenerator == <<1, 2>>
a == Multiple[1]
b == Multiple[5]

MCUsing == t1 :> c1 @@ t2 :> c2
MCOptions == c1 :> {{a}, {b}} @@ c2 :> {{a, b}}
MCPreloaded == <<>>

\* Signatures made by a or b, by whatever recovery id, and some made by neither.
Entries(digests, rs, ss, vs) ==
  {[digest |-> d, r |-> r, s |-> s, v |-> v] : d \in digests, r \in rs, s \in ss, v \in vs}
Signatures == Entries({<<0>>, <<7>>}, Word, {1, 4, 12}, {0, 1, 2})
              \cup Entries({<<7>>}, Word, {12}, {28})
Foreign == {e \in Signatures : e.v = 0 /\ e.s = 4 /\ e.digest = <<7>>}
Unusable == Entries({None, <<7>>}, {3}, {0, 1}, {0, 4, 31})
Ours == {e \in Signatures : Makers(e) \cap {a, b} # {}}
Plain == {e \in Ours : e.digest = <<7>> /\ e.r = 1 /\ e.s = 1 /\ e.v \in {0, 1}}
Mixed == Ours \cup Foreign \cup Unusable
MCInputs == t1 :> Mixed @@ t2 :> Plain
=============================================================================
