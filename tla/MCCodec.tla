------------------------------ MODULE MCCodec ------------------------------
(***************************************************************************)
(* Codec for TLC: bytes of 13 values, 3 of them for themselves, lengths    *)
(* below 3 in the first byte, longer ones in 1 or 2.                       *)
(***************************************************************************)
EXTENDS Codec, FiniteSets

Short(alphabet, n) == UNION {[1 .. k -> alphabet] : k \in 0 .. n}

-----------------------------------------------------------------------------
(* A wallet and a sequencer, with an encoder of their own *)

First(n, offset) ==
  IF n < 3 THEN <<offset + n>>
  ELSE IF n < 13 THEN <<offset + 3, n>>
  ELSE <<offset + 4, n \div 13, n % 13>>
String(b) == IF Len(b) = 1 /\ b[1] < 3 THEN b ELSE First(Len(b), 3) \o b
List(items) == LET content == FlattenSeq(items) IN First(Len(content), 8) \o content
Uint(n) == String(IF n = 0 THEN <<>> ELSE IF n < 13 THEN <<n>> ELSE <<n \div 13, n % 13>>)

\* Where each item of a list starts in it, and where the last one ends.
Cuts(items) ==
  LET upTo(k) == Len(FlattenSeq(SubSeq(items, 1, k)))
      header == Len(List(items)) - upTo(Len(items))
  IN  [k \in 1 .. Len(items) + 1 |-> header + upTo(k - 1)]

\* The items with v, r and s.
Signature(v) == <<Uint(v), Uint(12), Uint(14)>>
Sealed(type, items, chain, signed, parity) ==
  [type |-> type, raw |-> (IF type = 0 THEN <<>> ELSE <<type>>) \o List(items), cuts |-> Cuts(items),
   chain |-> chain, recovery |-> <<[signed |-> signed, r |-> 12, s |-> 14, parity |-> parity]>>]

Legacy(items, parity) == Sealed(0, items \o Signature(27 + parity), <<>>, List(items), parity)
Chained(items, chain, parity) ==
  Sealed(0, items \o Signature(35 + 2 * chain + parity), <<[id |-> chain, item |-> Uint(chain)]>>,
         List(items \o <<Uint(chain), Uint(0), Uint(0)>>), parity)
Typed(type, items, parity) ==
  Sealed(type, items \o Signature(parity), <<>>, <<type>> \o List(items), parity)

\* nonce, price, gas / to, value, data: the usual, and one of them odd.
Tails == {<<String(to), Uint(value), String(data)>> :
            to \in {<<>>, <<9>>}, value \in {0, 30}, data \in {<<>>, <<1, 2>>, <<7, 7, 7, 7>>}}
Heads == {<<Uint(n), Uint(1), Uint(12)>> : n \in {0, 2, 11}}
Access == {List(<<>>), List(<<String(<<5, 5>>), List(<<>>)>>)}

Wallet ==
  {Legacy(h \o t, p) : h \in Heads, t \in Tails, p \in {0, 1}}
    \cup {Chained(h \o t, c, p) : h \in Heads, t \in Tails, c \in {0, 1, 8}, p \in {0, 1}}
    \cup {Typed(1, <<Uint(8)>> \o h \o t \o <<a>>, p) : h \in Heads, t \in Tails, a \in Access, p \in {0, 1}}
    \cup {Typed(2, <<Uint(8), Uint(1)>> \o h \o t \o <<a>>, p) : h \in Heads, t \in Tails, a \in Access, p \in {0, 1}}

\* A part of a batch: its bytes, where it and the parts in it are, and the transactions.
Whole(b, spans) == [from |-> 0, to |-> Len(b), depth |-> 0, parts |-> spans]
Part(tx) ==
  LET b == <<4>> \o tx.raw
  IN  [bytes |-> b, parts |-> {Whole(b, <<>>)}, leaves |-> <<[depth |-> 0, at |-> <<1, Len(b)>>, tx |-> tx]>>]
Noise(b) == [bytes |-> b, parts |-> {Whole(b, <<>>)}, leaves |-> <<>>]
Packed(part) == LET n == Len(part.bytes) IN <<n \div 13, n % 13>> \o part.bytes

MovedSpan(span, by) == [span EXCEPT !.from = @ + by, !.to = @ + by]
Deeper(part, by) ==
  [parts |-> {[from |-> p.from + by, to |-> p.to + by, depth |-> p.depth + 1,
               parts |-> [n \in DOMAIN p.parts |-> MovedSpan(p.parts[n], by)]] : p \in part.parts},
   leaves |-> [k \in DOMAIN part.leaves |->
                 [part.leaves[k] EXCEPT !.depth = @ + 1, !.at = <<@[1] + by, @[2] + by>>]]]
Batch(parts, rest) ==
  LET all(n) == FlattenSeq([k \in 1 .. n |-> Packed(parts[k])])
      b == <<3>> \o all(Len(parts)) \o rest
      from == [k \in DOMAIN parts |-> Len(all(k - 1)) + 3]
      inner == [k \in DOMAIN parts |-> Deeper(parts[k], from[k])]
  IN  [bytes |-> b,
       parts |-> {Whole(b, [k \in DOMAIN parts |->
                              [from |-> from[k], to |-> from[k] + Len(parts[k].bytes)]])}
                   \cup UNION {inner[k].parts : k \in DOMAIN parts},
       leaves |-> FlattenSeq([k \in DOMAIN parts |-> inner[k].leaves])]

\* Too long a nonce or value: known by its bytes only.
Oversized ==
  {List(<<Uint(n), Uint(1), Uint(1), String(<<9>>), String(b), String(<<>>)>> \o Signature(27)) :
     n \in {1, 30}, b \in {<<1, 1, 1>>, <<1>>}}

Entry(part) ==
  LET found == SelectSeq(part.leaves, LAMBDA leaf : leaf.depth <= MAX_BATCH_DEPTH)
      tx(leaf) == [f \in {"at"} \cup DOMAIN leaf.tx |-> IF f = "at" THEN leaf.at ELSE leaf.tx[f]]
  IN  [l2Msg |-> part.bytes, isL2Message |-> TRUE, parts |-> part.parts,
       packed |-> <<[k \in DOMAIN found |-> tx(found[k])]>>]

One == Part(Legacy(<<Uint(1), Uint(1), Uint(1), String(<<9>>), Uint(1), String(<<>>)>>, 0))
Two == Part(Typed(1, <<Uint(1), Uint(1), Uint(1), Uint(1), String(<<9>>), Uint(1), String(<<>>), List(<<>>)>>, 1))
Rest == {<<>>, <<0>>, <<0, 0, 4>>, <<0, 9, 4>>}
Inner == {Batch(<<One>>, r) : r \in Rest} \cup {Batch(<<Noise(<<4>>), Two, One>>, <<>>), Noise(<<0, 7>>), Two}
Middle == Inner \cup {Batch(<<p, q>>, <<>>) : p \in Inner, q \in Inner}
Outer == {Batch(<<p, One>>, r) : p \in Middle, r \in Rest} \cup {Batch(<<One, p>>, <<>>) : p \in Middle}

-----------------------------------------------------------------------------
(* Bytes nobody packed: a list whose header may be off by one, any short raw *)
(* bytes, and any short batch.                                               *)

Lists == {<<4>> \o t \o First(n, 8) \o content :
            t \in {<<>>, <<1>>}, n \in 1 .. 4, content \in Short(Byte, 3)}
Junk(b) == [l2Msg |-> b, isL2Message |-> TRUE, parts |-> {}, packed |-> <<>>]

MCInputs ==
  {Entry(p) : p \in Outer} \cup {Entry(Part(tx)) : tx \in Wallet}
    \cup {Junk(b) : b \in Lists} \cup {Junk(<<4>> \o b) : b \in Oversized}
    \cup {Junk(<<4>> \o b) : b \in Short(Byte, 3)}
    \cup {Junk(<<3>> \o b) : b \in Short({0, 1, 3, 4}, 6)}
    \cup {[l2Msg |-> One.bytes, isL2Message |-> FALSE, parts |-> {}, packed |-> <<<<>>>>]}
=============================================================================
