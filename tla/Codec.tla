-------------------------------- MODULE Codec --------------------------------
(***************************************************************************)
(* From an entry's l2Msg to the transactions in it (src/src/codec.rs): the *)
(* walk through nested batches, the scan of a transaction's RLP list, the  *)
(* fields taken from it, and the bytes its sender signed.                  *)
(*                                                                         *)
(* The widths of the format are parameters, so that TLC can go through all *)
(* short inputs: a byte has BASE values, a usize LONG bytes.  Offsets      *)
(* start at 0 and a slice is <<from, to>>, as in the code.                 *)
(***************************************************************************)
EXTENDS Integers, SequencesExt

CONSTANTS
  SINGLE,           \* bytes below it stand for themselves (0x80)
  SHORT,            \* lengths below it are in the first byte (56)
  LONG,             \* most bytes a longer length has (8, a usize)
  LENGTH,           \* bytes of a length in a batch (8)
  L2_SIGNED_TX, L2_BATCH, MAX_BATCH_DEPTH,
  ADDRESS,          \* bytes of an address (20)
  INTEGER,          \* most bytes of a nonce or gas limit (8)
  SCALAR,           \* most bytes of a value, r or s (32)
  VWIDTH,           \* most bytes of v (16)
  SELECTOR,         \* bytes of a selector (4)
  TYPES,            \* transaction types 2 .. TYPES share a layout (4)
  Inputs            \* entries: [l2Msg, whether its kind is L2Message, what was packed, and where]

ASSUME FormatAssumption ==
  /\ {SINGLE, SHORT, LONG, LENGTH} \subseteq Nat \ {0}
  /\ {ADDRESS, INTEGER, SCALAR, VWIDTH, SELECTOR, MAX_BATCH_DEPTH} \subseteq Nat
  /\ TYPES \in Nat \ {0}
  /\ L2_SIGNED_TX # L2_BATCH

STR == SINGLE                       \* 0x80
LIST == STR + SHORT + LONG       \* 0xC0
BASE == LIST + SHORT + LONG         \* 256
USIZE == BASE ^ LONG
Byte == 0 .. BASE - 1

\* A buffer is far shorter than a usize can say: a Vec has at most isize::MAX bytes.
ASSUME InputsAssumption ==
  /\ USIZE \in Nat
  /\ \A input \in Inputs : /\ input.l2Msg \in Seq(Byte)
                           /\ Len(input.l2Msg) + SHORT < USIZE

VARIABLES
  payload,          \* the l2Msg
  packed,           \* what the sequencer packed in it (history), or none
  pc,
  stack,            \* the slices being walked: <<from, to, offset>>, innermost last
  raw,              \* the slice of the transaction being decoded
  i, end, fields,   \* scan_list's
  txs               \* the transactions found

codecVars == <<payload, packed, pc, stack, raw, i, end, fields, txs>>

-----------------------------------------------------------------------------
(* Bytes *)

Slice(bytes, from, to) == SubSeq(bytes, from + 1, to)
Number(bytes) == FoldLeft(LAMBDA acc, byte : acc * BASE + byte, 0, bytes)

\* A number's bytes, big-endian, without leading zeros.
Minimal[n \in Nat] == IF n = 0 THEN <<>> ELSE Append(Minimal[n \div BASE], n % BASE)

-----------------------------------------------------------------------------
(* Reading RLP *)

\* Where the payload of the item at offset `at` starts and ends, by its first
\* bytes.  The bytes of a long length must be there, and the sum fit a usize.
Header(buf, at) ==
  LET c == buf[at + 1]
      short == IF c < LIST THEN c - STR ELSE c - LIST
      s == at + 2 + short - SHORT
      to == s + Number(Slice(buf, at + 1, s))
  IN  IF c < SINGLE THEN [ok |-> TRUE, from |-> at, to |-> at + 1]
      ELSE IF short < SHORT THEN [ok |-> TRUE, from |-> at + 1, to |-> at + 1 + short]
      ELSE IF s <= Len(buf) /\ to < USIZE THEN [ok |-> TRUE, from |-> s, to |-> to]
      ELSE [ok |-> FALSE]

\* Wrong: a list may end after the buffer.
WrongIsListTruncated(buf) == buf # <<>> /\ buf[1] >= LIST /\ Header(buf, 0).ok

\* The buffer starts with a list, all of it there.
IsList(buf) ==
  buf # <<>> /\ buf[1] >= LIST /\ Header(buf, 0).ok /\ Header(buf, 0).to <= Len(buf)

(* Writing RLP *)

RlpHeader(len, offset) ==
  IF len < SHORT THEN <<offset + len>>
  ELSE <<offset + SHORT - 1 + Len(Minimal[len])>> \o Minimal[len]

RlpUint(n) ==
  LET body == Minimal[n]
  IN  IF body = <<>> THEN <<STR>>
      ELSE IF Len(body) = 1 /\ body[1] < SINGLE THEN body
      ELSE RlpHeader(Len(body), STR) \o body

RlpList(prefix, content) == prefix \o RlpHeader(Len(content), LIST) \o content

-----------------------------------------------------------------------------
(* Transactions.  A field is <<item start, payload start, payload end>>. *)

TxType(bytes) == IF bytes[1] < SINGLE THEN bytes[1] ELSE 0
Body(bytes) == IF bytes[1] < SINGLE THEN Tail(bytes) ELSE bytes

\* Positions of nonce, gas, to, value and data (counting from 1), by type.
Layout(type) ==
  CASE type = 0 -> <<1, 3, 4, 5, 6>>
    [] type = 1 -> <<2, 4, 5, 6, 7>>
    [] type \in 2 .. TYPES -> <<2, 5, 6, 7, 8>>
    [] OTHER -> <<>>

\* An envelope that is not modelled: only its bytes are known.
Opaque(slice, type) ==
  [raw |-> slice, type |-> type, fields |-> <<>>, to |-> <<>>, selector |-> <<>>]

Size(field) == field[3] - field[2]

\* The fields have the sizes of a transaction of this type, and v, r and s follow.
Fits(type, fs) ==
  LET l == Layout(type)
  IN  /\ Len(fs) >= l[5] + 3
      /\ Size(fs[l[1]]) <= INTEGER /\ Size(fs[l[2]]) <= INTEGER
      /\ Size(fs[l[3]]) \in {0, ADDRESS}
      /\ Size(fs[l[4]]) <= SCALAR

\* model(): a transaction with these fields, or an opaque one.
Modeled(slice, buf, type, fs) ==
  LET item(k) == Slice(buf, fs[k][2], fs[k][3])
      to == item(Layout(type)[3])
      data == item(Layout(type)[5])
  IN  IF Fits(type, fs)
      THEN [raw |-> slice, type |-> type, fields |-> fs, to |-> to,
            selector |-> IF Len(data) < SELECTOR THEN <<>> ELSE <<SubSeq(data, 1, SELECTOR)>>]
      ELSE Opaque(slice, type)

Raw(tx) == Slice(payload, tx.raw[1], tx.raw[2])

\* Wrong: the fields of a typed transaction are signed without the last one.
WrongLastSigned(tx) == IF tx.type = 0 THEN 6 ELSE Len(tx.fields) - 4

\* The last field that is signed.
LastSigned(tx) == IF tx.type = 0 THEN 6 ELSE Len(tx.fields) - 3

(***************************************************************************)
(* What Tx::recover hands to secp::recover: the bytes that were signed, r, *)
(* s and the parity of the nonce point; or nothing.  A legacy v may hold   *)
(* the chain id, which is then signed too.                                 *)
(***************************************************************************)
Recovery(tx) ==
  LET buf == Body(Raw(tx))
      f == tx.fields
      n == Len(f)
      item(k) == Slice(buf, f[k][2], f[k][3])
      v == Number(item(n - 2))
      unsigned == Slice(buf, f[1][1], f[LastSigned(tx)][3])
      with(bytes, parity) ==
        <<[signed |-> bytes, r |-> Number(item(n - 1)), s |-> Number(item(n)), parity |-> parity]>>
  IN  IF \/ n < 4
         \/ Size(f[n - 2]) > VWIDTH
         \/ Size(f[n - 1]) \notin 1 .. SCALAR \/ Size(f[n]) \notin 1 .. SCALAR
      THEN <<>>
      ELSE IF tx.type # 0
           THEN IF v > 1 THEN <<>> ELSE with(RlpList(<<tx.type>>, unsigned), v)
           ELSE IF v >= 35
                THEN with(RlpList(<<>>, unsigned \o RlpUint((v - 35) \div 2)
                                          \o <<STR, STR>>), (v - 35) % 2)
           ELSE IF v \in {27, 28} THEN with(RlpList(<<>>, unsigned), v - 27)
           ELSE <<>>

-----------------------------------------------------------------------------
(* decode_l2_message: walk *)

Top == Last(stack)
Fresh == Top[3] = Top[1]             \* the slice has not been looked at
Starts(byte) == Top[1] < Top[2] /\ payload[Top[1] + 1] = byte

\* Wrong: one level too many is read.
WrongMayEnterDeeper == Len(stack) - 1 <= MAX_BATCH_DEPTH

\* The batch on top is not nested too deep to be read.
MayEnter == Len(stack) - 1 < MAX_BATCH_DEPTH

\* A signed transaction: decode what follows the first byte.
WalkSigned ==
  /\ pc = "walk" /\ stack # <<>> /\ Fresh /\ Starts(L2_SIGNED_TX)
  /\ raw' = <<Top[1] + 1, Top[2]>>
  /\ stack' = Front(stack)
  /\ pc' = "decode"
  /\ UNCHANGED <<payload, packed, i, end, fields, txs>>

WalkBatch ==
  /\ pc = "walk" /\ stack # <<>> /\ Fresh /\ Starts(L2_BATCH) /\ MayEnter
  /\ stack' = Append(Front(stack), <<Top[1], Top[2], Top[1] + 1>>)
  /\ UNCHANGED <<payload, packed, pc, raw, i, end, fields, txs>>

\* Neither, or too deep: nothing in it.
WalkOther ==
  /\ pc = "walk" /\ stack # <<>> /\ Fresh
  /\ ~Starts(L2_SIGNED_TX) /\ ~(Starts(L2_BATCH) /\ MayEnter)
  /\ stack' = Front(stack)
  /\ UNCHANGED <<payload, packed, pc, raw, i, end, fields, txs>>

\* The next part of a batch, if its length is there and fits.
BatchPart ==
  /\ pc = "walk" /\ stack # <<>> /\ ~Fresh
  /\ LET start == Top[3] + LENGTH
         len == Number(Slice(payload, Top[3], start))
     IN  stack' = IF start <= Top[2] /\ len \in 1 .. Top[2] - start
                  THEN Front(stack) \o <<<<Top[1], Top[2], start + len>>, <<start, start + len, start>>>>
                  ELSE Front(stack)
  /\ UNCHANGED <<payload, packed, pc, raw, i, end, fields, txs>>

WalkDone ==
  /\ pc = "walk" /\ stack = <<>>
  /\ pc' = "done"
  /\ UNCHANGED <<payload, packed, stack, raw, i, end, fields, txs>>

-----------------------------------------------------------------------------
(* decode_transaction, scan_list and model *)

RawBytes == Slice(payload, raw[1], raw[2])
Buf == Body(RawBytes)

\* The transaction is decoded: walk on.
Push(tx) ==
  /\ txs' = Append(txs, tx)
  /\ pc' = "walk"
  /\ UNCHANGED <<payload, packed, stack, raw>>

DecodeEmpty ==
  /\ pc = "decode" /\ RawBytes = <<>>
  /\ pc' = "walk"
  /\ UNCHANGED <<payload, packed, stack, raw, i, end, fields, txs>>

Scannable == Layout(TxType(RawBytes)) # <<>> /\ IsList(Buf)

DecodeOpaque ==
  /\ pc = "decode" /\ RawBytes # <<>> /\ ~Scannable
  /\ Push(Opaque(raw, TxType(RawBytes)))
  /\ UNCHANGED <<i, end, fields>>

DecodeList ==
  /\ pc = "decode" /\ RawBytes # <<>> /\ Scannable
  /\ i' = Header(Buf, 0).from
  /\ end' = Header(Buf, 0).to
  /\ fields' = <<>>
  /\ pc' = "scan"
  /\ UNCHANGED <<payload, packed, stack, raw, txs>>

ScanItem ==
  /\ pc = "scan" /\ i < end /\ Header(Buf, i).ok
  /\ fields' = Append(fields, <<i, Header(Buf, i).from, Header(Buf, i).to>>)
  /\ i' = Header(Buf, i).to
  /\ UNCHANGED <<payload, packed, pc, stack, raw, end, txs>>

\* Wrong: the last item may end after the list.
WrongOvershot == FALSE

\* The last item ends after the list.
Overshot == i > end

\* Wrong: an item without its length is not expected.
WrongScanMalformedLength ==
  /\ pc = "scan" /\ Overshot
  /\ Push(Opaque(raw, TxType(RawBytes)))
  /\ UNCHANGED <<i, end, fields>>

\* An item without its length, or past the end of the list.
ScanMalformed ==
  /\ pc = "scan" /\ ((i < end /\ ~Header(Buf, i).ok) \/ Overshot)
  /\ Push(Opaque(raw, TxType(RawBytes)))
  /\ UNCHANGED <<i, end, fields>>

ScanDone ==
  /\ pc = "scan" /\ i >= end /\ ~Overshot
  /\ pc' = "model"
  /\ UNCHANGED <<payload, packed, stack, raw, i, end, fields, txs>>

Model ==
  /\ pc = "model"
  /\ Push(Modeled(raw, Buf, TxType(RawBytes), fields))
  /\ UNCHANGED <<i, end, fields>>

-----------------------------------------------------------------------------
\* parse_entry_with: only an L2Message carries transactions.
CodecInit ==
  /\ \E input \in Inputs :
       /\ payload = input.l2Msg
       /\ packed = input.packed
       /\ stack = IF input.isL2Message THEN <<<<0, Len(input.l2Msg), 0>>>> ELSE <<>>
  /\ pc = "walk"
  /\ raw = <<0, 0>>
  /\ i = 0 /\ end = 0 /\ fields = <<>> /\ txs = <<>>

CodecNext ==
  \/ WalkSigned \/ WalkBatch \/ WalkOther \/ BatchPart \/ WalkDone
  \/ DecodeEmpty \/ DecodeOpaque \/ DecodeList
  \/ ScanItem \/ ScanMalformed \/ ScanDone \/ Model

CodecSpec == CodecInit /\ [][CodecNext]_codecVars

\* The decoder runs to its end.
FairCodecSpec == CodecSpec /\ WF_codecVars(CodecNext)

-----------------------------------------------------------------------------
(* Properties *)

\* Each starts where the one before ends, and ends no sooner than it starts.
Contiguous(fs, from, to) ==
  /\ \A k \in DOMAIN fs : /\ fs[k][1] <= fs[k][2] /\ fs[k][2] <= fs[k][3]
                          /\ fs[k][1] = IF k = 1 THEN from ELSE fs[k - 1][3]
  /\ to = IF fs = <<>> THEN from ELSE fs[Len(fs)][3]

\* The fields taken from a transaction hold what its type says, and fit the
\* integers and arrays they are copied to.
FieldsFit(tx) ==
  tx.fields # <<>>
    => /\ tx.type \in 0 .. TYPES /\ Len(tx.fields) > Layout(tx.type)[5] + 2
       /\ \A k \in {1, 2} : Size(tx.fields[Layout(tx.type)[k]]) <= INTEGER
       /\ Size(tx.fields[Layout(tx.type)[4]]) <= SCALAR
       /\ Len(tx.to) \in {0, ADDRESS}
       /\ tx.selector # <<>> => Len(tx.selector[1]) = SELECTOR

(***************************************************************************)
(* No slice leaves its buffer and no length wraps, whatever the bytes say: *)
(* nested slices lie within the rest of the batch around them, and the     *)
(* items of a list one after the other from its header on.  What is taken  *)
(* from a transaction fits where it goes.                                  *)
(***************************************************************************)
SlicesInBounds ==
  /\ \A k \in DOMAIN stack :
       /\ stack[k][1] <= stack[k][3] /\ stack[k][3] <= stack[k][2] /\ stack[k][2] <= Len(payload)
       /\ k > 1 => stack[k - 1][1] < stack[k][1] /\ stack[k][2] <= stack[k - 1][3]
  /\ raw[1] <= raw[2] /\ raw[2] <= Len(payload)
  /\ pc = "scan" => /\ end <= Len(Buf) /\ i < USIZE
                    /\ Contiguous(fields, Header(Buf, 0).from, i)
  /\ \A k \in DOMAIN txs :
       /\ txs[k].raw[1] < txs[k].raw[2] /\ txs[k].raw[2] <= Len(payload)
       /\ k > 1 => txs[k - 1].raw[2] < txs[k].raw[1]
       /\ \A j \in DOMAIN txs[k].fields : txs[k].fields[j][3] <= Len(Body(Raw(txs[k])))
       /\ FieldsFit(txs[k])

\* A whole item: a byte, or a first byte and as many bytes as it says, or a
\* first byte, a length, and as many bytes as that says.
IsItem(bytes) ==
  \/ Len(bytes) = 1 /\ bytes[1] < SINGLE
  \/ \E offset \in {STR, LIST} :
       \/ \E n \in 0 .. SHORT - 1 : bytes[1] = offset + n /\ Len(bytes) = 1 + n
       \/ \E k \in 1 .. LONG :
            /\ bytes[1] = offset + SHORT - 1 + k
            /\ Len(bytes) > k
            /\ Len(bytes) = 1 + k + Number(SubSeq(bytes, 2, 1 + k))

\* Whether these bytes can be cut into whole items at all.
IsItems(bytes) ==
  LET from[k \in 0 .. Len(bytes)] ==
        k = Len(bytes) \/ \E j \in k + 1 .. Len(bytes) : IsItem(Slice(bytes, k, j)) /\ from[j]
  IN  from[0]

(***************************************************************************)
(* scan_list takes exactly the lists whose content is a row of whole items *)
(* and cuts them there: it gives up on no other.                           *)
(***************************************************************************)
ScanDecides ==
  [][pc = "scan" /\ pc' # "scan"
       => /\ IsItems(Slice(Buf, Header(Buf, 0).from, end)) <=> pc' = "model"
          /\ pc' = "model" => \A k \in DOMAIN fields : IsItem(Slice(Buf, fields[k][1], fields[k][3]))]_pc

-----------------------------------------------------------------------------
(* What a sequencer packs and a wallet signs, by the format and not by the *)
(* decoder.  A part of an entry is where it is, how deep, and what is in it. *)

StartsWith(bytes, part, byte) == part.from < part.to /\ bytes[part.from + 1] = byte
Within(inner, outer) == outer.from <= inner.from /\ inner.to <= outer.to

\* Where the n-th part of a batch ends and the length of the next one starts.
After(batch, n) == IF n = 0 THEN batch.from + 1 ELSE batch.parts[n].to

\* Each part follows its length; after the last there is no part to be read.
IsBatch(bytes, batch) ==
  LET says(at) == Number(Slice(bytes, at, at + LENGTH))
      rest == After(batch, Len(batch.parts))
  IN  /\ \A n \in DOMAIN batch.parts :
           LET part == batch.parts[n]
           IN  /\ part.from = After(batch, n - 1) + LENGTH
               /\ part.from < part.to /\ part.to <= batch.to
               /\ says(After(batch, n - 1)) = part.to - part.from
      /\ rest + LENGTH <= batch.to => says(rest) \notin 1 .. batch.to - rest - LENGTH

\* The parts of an entry: the entry itself, and those in each batch.
IsNesting(bytes, parts) ==
  /\ \E whole \in parts : whole.from = 0 /\ whole.to = Len(bytes) /\ whole.depth = 0
  /\ \A part \in parts :
       /\ IF StartsWith(bytes, part, L2_BATCH) THEN IsBatch(bytes, part) ELSE part.parts = <<>>
       /\ \A n \in DOMAIN part.parts : \E inner \in parts :
            /\ inner.from = part.parts[n].from /\ inner.to = part.parts[n].to
            /\ inner.depth = part.depth + 1
       /\ \A inner \in parts \ {part} :
            Within(inner, part) => /\ inner.depth > part.depth
                                   /\ \E n \in DOMAIN part.parts : Within(inner, part.parts[n])

\* The transactions among the parts, in order, but for those too deep.
AreTxsOf(bytes, parts, list) ==
  /\ {list[k].at : k \in DOMAIN list} =
       {<<part.from + 1, part.to>> :
          part \in {p \in parts : /\ StartsWith(bytes, p, L2_SIGNED_TX) /\ p.from + 1 < p.to
                                   /\ p.depth <= MAX_BATCH_DEPTH}}
  /\ \A j, k \in DOMAIN list : j < k => list[j].at[2] <= list[k].at[1]
  /\ \A k \in DOMAIN list : list[k].raw = Slice(bytes, list[k].at[1], list[k].at[2])

\* The one way to write a number, the header of a payload, a number as an item, and a list.
IsMinimal(bytes, n) == Number(bytes) = n /\ (bytes # <<>> => bytes[1] # 0)
IsHeader(bytes, len, offset) ==
  IF len < SHORT THEN bytes = <<offset + len>>
  ELSE bytes # <<>> /\ bytes[1] = offset + SHORT - 2 + Len(bytes) /\ IsMinimal(Tail(bytes), len)
IsUint(item, n) ==
  \E k \in 0 .. Len(item) :
    LET body == Slice(item, k, Len(item))
    IN  /\ IsMinimal(body, n)
        /\ IF Len(body) = 1 /\ body[1] < SINGLE THEN k = 0
           ELSE IsHeader(Slice(item, 0, k), Len(body), STR)
IsListOf(bytes, prefix, content) ==
  LET header == Slice(bytes, Len(prefix), Len(bytes) - Len(content))
  IN  bytes = prefix \o header \o content /\ IsHeader(header, Len(content), LIST)

\* The payload of a whole item.
PayloadOf(item) ==
  LET n == item[1] - (IF item[1] < LIST THEN STR ELSE LIST)
  IN  IF item[1] < SINGLE THEN item
      ELSE IF n < SHORT THEN Tail(item) ELSE Slice(item, n - SHORT + 2, Len(item))

(***************************************************************************)
(* A transaction as a wallet sends it, cut into its items: the fields of   *)
(* its type, then v, r and s; and what the wallet signed: the same without *)
(* those three, but, for a legacy one, with the id of its chain if v holds *)
(* that.                                                                   *)
(***************************************************************************)
IsSealed(tx) ==
  LET body == IF tx.type = 0 THEN tx.raw ELSE Tail(tx.raw)
      n == Len(tx.cuts) - 1
      item(k) == PayloadOf(Slice(body, tx.cuts[k], tx.cuts[k + 1]))
      nonce == IF tx.type = 0 THEN 1 ELSE 2
      gas == CASE tx.type = 0 -> 3 [] tx.type = 1 -> 4 [] OTHER -> 5
      unsigned == Slice(body, tx.cuts[1], tx.cuts[n - 2])
      signature == tx.recovery[1]
      v == Number(item(n - 2))
      chain == tx.chain[1]
  IN  /\ tx.type \in 0 .. TYPES /\ IF tx.type = 0 THEN tx.raw[1] >= SINGLE
                                   ELSE tx.raw[1] = tx.type /\ tx.type < SINGLE
      /\ IsItem(body) /\ body[1] >= LIST
      /\ tx.cuts[1] = Len(body) - Len(PayloadOf(body)) /\ tx.cuts[n + 1] = Len(body)
      /\ \A k \in 1 .. n : tx.cuts[k] < tx.cuts[k + 1] /\ IsItem(Slice(body, tx.cuts[k], tx.cuts[k + 1]))
      /\ CASE tx.type = 0 -> n = 9 [] tx.type = 1 -> n = 11 [] OTHER -> n >= 12
      /\ Len(item(nonce)) <= INTEGER /\ Len(item(gas)) <= INTEGER
      /\ Len(item(gas + 1)) \in {0, ADDRESS} /\ Len(item(gas + 2)) <= SCALAR
      /\ Len(item(n - 2)) <= VWIDTH
      /\ Len(item(n - 1)) \in 1 .. SCALAR /\ Len(item(n)) \in 1 .. SCALAR
      /\ signature.r = Number(item(n - 1)) /\ signature.s = Number(item(n))
      /\ signature.parity \in {0, 1}
      /\ IF tx.type = 0 /\ tx.chain # <<>>
         THEN /\ v = 35 + 2 * chain.id + signature.parity
              /\ IsUint(chain.item, chain.id)
              /\ IsListOf(signature.signed, <<>>, unsigned \o chain.item \o <<STR, STR>>)
         ELSE /\ v = signature.parity + (IF tx.type = 0 THEN 27 ELSE 0)
              /\ IsListOf(signature.signed, IF tx.type = 0 THEN <<>> ELSE <<tx.type>>, unsigned)

PackedPart == [from : Nat, to : Nat, depth : Nat, parts : Seq([from : Nat, to : Nat])]
PackedTx == [at : Nat \X Nat, raw : Seq(Byte), type : Nat, cuts : Seq(Nat),
             chain : Seq([id : Nat, item : Seq(Byte)]),
             recovery : Seq([signed : Seq(Byte), r : Nat, s : Nat, parity : Nat])]

\* Where it is known what was packed in an input, it was packed and signed so.
ASSUME PackedAssumption ==
  \A input \in Inputs : input.packed # <<>> =>
    /\ input.parts \subseteq PackedPart /\ input.packed[1] \in Seq(PackedTx)
    /\ \A part \in input.parts : part.from <= part.to /\ part.to <= Len(input.l2Msg)
    /\ IF input.isL2Message
       THEN IsNesting(input.l2Msg, input.parts) /\ AreTxsOf(input.l2Msg, input.parts, input.packed[1])
       ELSE input.packed[1] = <<>>
    /\ \A k \in DOMAIN input.packed[1] :
         Len(input.packed[1][k].recovery) = 1 /\ IsSealed(input.packed[1][k])

(***************************************************************************)
(* Of what a sequencer packs, every transaction in batches nested no       *)
(* deeper than MAX_BATCH_DEPTH is found, once and in order, and nothing    *)
(* else; what follows a part that cannot be read is lost, and no more.     *)
(***************************************************************************)
PackedIsFound ==
  pc = "done" /\ packed # <<>>
    => [k \in DOMAIN txs |-> Raw(txs[k])] = [k \in DOMAIN packed[1] |-> packed[1][k].raw]

(***************************************************************************)
(* The sender of a transaction is recovered from the very bytes its wallet *)
(* signed, although it is the signed envelope that is at hand.             *)
(***************************************************************************)
SignedIsRecovered ==
  pc = "done" /\ packed # <<>>
    => \A k \in DOMAIN txs \cap DOMAIN packed[1] : Recovery(txs[k]) = packed[1][k].recovery

\* Every input is decoded to its end: no offset stands still.
DecodeEnds == <>(pc = "done")
=============================================================================
