---------------------------- MODULE CodecProofs ----------------------------
(***************************************************************************)
(* What the decoder promises for every l2Msg, whatever its bytes, and for  *)
(* all widths of the format: no slice leaves its buffer, no length wraps,  *)
(* and what is taken from a transaction fits where it goes; a list is      *)
(* scanned exactly if it can be cut into items; every step leaves less to  *)
(* do; what a sequencer packed is found, however it is nested; and what a  *)
(* wallet signed is put together again.                                    *)
(***************************************************************************)
EXTENDS Codec, SequenceTheorems, WellFoundedInduction, TLAPS

Span == Nat \X Nat \X Nat
Tx == [raw : Nat \X Nat, type : Nat, fields : Seq(Span), to : Seq(Byte), selector : Seq(Seq(Byte))]

\* Every variable holds a value of its type.
Typed ==
  /\ payload \in Seq(Byte) /\ Len(payload) + SHORT < USIZE
  /\ pc \in {"walk", "decode", "scan", "model", "done"}
  /\ stack \in Seq(Span)
  /\ raw \in Nat \X Nat
  /\ i \in Nat /\ end \in Nat
  /\ fields \in Seq(Span)
  /\ txs \in Seq(Tx)

\* A slice being walked lies in the part of each slice around it that was
\* walked before; and all of it lies behind the transactions found.
StackInv ==
  /\ \A k \in DOMAIN stack :
       stack[k][1] <= stack[k][3] /\ stack[k][3] <= stack[k][2] /\ stack[k][2] <= Len(payload)
  /\ \A j, k \in DOMAIN stack : j < k => stack[j][1] < stack[k][1] /\ stack[k][2] <= stack[j][3]

\* The transaction being decoded lies there too.
RawInv ==
  /\ raw[1] <= raw[2] /\ raw[2] <= Len(payload)
  /\ pc \in {"decode", "scan", "model"} => \A k \in DOMAIN stack : raw[2] <= stack[k][3]
  /\ pc \in {"scan", "model"} => raw[1] < raw[2] /\ Layout(TxType(RawBytes)) # <<>>

\* The items scanned follow one another up to i.
ScanInv ==
  /\ pc \in {"scan", "model"} =>
       /\ \A k \in DOMAIN fields : fields[k][2] <= fields[k][3] /\ fields[k][3] <= i
       /\ end <= Len(Buf)
  /\ pc = "scan" => i < USIZE /\ Contiguous(fields, Header(Buf, 0).from, i)
  /\ pc = "model" => i <= end

\* A transaction found lies in the payload, and its fields in it.
TxFits(tx) ==
  /\ tx.raw[1] < tx.raw[2] /\ tx.raw[2] <= Len(payload)
  /\ \A j \in DOMAIN tx.fields : tx.fields[j][3] <= Len(Body(Raw(tx)))
  /\ FieldsFit(tx)

\* Transactions are found one after the other, ahead of what is still to be read.
TxsFit == \A k \in DOMAIN txs : TxFits(txs[k])
TxsAscend == \A k \in DOMAIN txs : k > 1 => txs[k - 1].raw[2] < txs[k].raw[1]
TxsInv ==
  /\ TxsFit /\ TxsAscend
  /\ txs # <<>> => /\ \A k \in DOMAIN stack : txs[Len(txs)].raw[2] <= stack[k][3]
                   /\ pc \in {"decode", "scan", "model"} => txs[Len(txs)].raw[2] < raw[1]

Inv == StackInv /\ RawInv /\ ScanInv /\ TxsInv

-----------------------------------------------------------------------------
(* Bytes and numbers *)

LEMMA Widths ==
  /\ SINGLE \in Nat \ {0} /\ SHORT \in Nat \ {0} /\ LONG \in Nat \ {0} /\ LENGTH \in Nat \ {0}
  /\ STR \in Nat /\ LIST \in Nat /\ BASE \in Nat /\ SINGLE < LIST
  /\ USIZE \in Nat
<1>1. SINGLE \in Nat \ {0} /\ SHORT \in Nat \ {0} /\ LONG \in Nat \ {0} /\ LENGTH \in Nat \ {0}
  BY FormatAssumption
<1>2. STR \in Nat /\ LIST \in Nat /\ BASE \in Nat /\ SINGLE < LIST
  BY ONLY <1>1 DEF STR, LIST, BASE
<1>. QED
  BY <1>1, <1>2, InputsAssumption

\* A non-empty set of naturals has a least one: what induction is made of.
LEMMA Least ==
  ASSUME NEW T, T \subseteq Nat, T # {}
  PROVE  \E n \in T : \A m \in T : n <= m
<1>. DEFINE R == OpToRel(<, Nat)
<1>1. IsWellFoundedOn(R, Nat)
  BY NatLessThanWellFounded
<1>2. \A m, n \in Nat : <<m, n>> \in R <=> m < n
  BY DEF OpToRel
<1>. HIDE DEF R
<1>3. PICK n \in T : \A m \in T : ~(<<m, n>> \in R)
  BY <1>1, WFMin
<1>4. \A m \in T : ~(m < n)
  BY <1>2, <1>3
<1>5. \A m \in T : n <= m
  BY <1>4
<1>. QED
  BY <1>5

\* iter folds the bytes at the positions of any subset of D.
Folds(iter, bytes, D) ==
  iter = [s \in SUBSET D |-> IF s = {} THEN 0 ELSE iter[s \ {Max(s)}] * BASE + bytes[Max(s)]]

LEMMA NumberFolds ==
  ASSUME NEW bytes
  PROVE  Number(bytes) = (CHOOSE iter : Folds(iter, bytes, DOMAIN bytes))[DOMAIN bytes]
BY DEF Number, FoldLeft, MapThenFoldSet, Folds

LEMMA MaxUpTo ==
  ASSUME NEW n \in Nat, NEW s \in SUBSET (1 .. n), s # {}
  PROVE  /\ Max(s) \in s /\ \A y \in s : y <= Max(s)
         /\ n \in s => Max(s) = n
<1>. DEFINE T == {m \in Nat : \A y \in s : y <= m}
<1>1. n \in T /\ T \subseteq Nat
  OBVIOUS
<1>2. PICK m \in T : \A k \in T : m <= k
  BY <1>1, Least
<1>. HIDE DEF T
<1>3. m \in Nat /\ \A y \in s : y <= m
  BY <1>2 DEF T
<1>4. m \in s
  <2>1. SUFFICES ASSUME m \notin s PROVE FALSE
    OBVIOUS
  <2>2. \A y \in s : y \in Nat /\ y # m /\ y <= m
    BY <1>3, <2>1
  <2>3. \A y \in s : 0 <= m - 1 /\ y <= m - 1
    <3>. SUFFICES ASSUME NEW y \in s PROVE 0 <= m - 1 /\ y <= m - 1
      OBVIOUS
    <3>1. y \in Nat /\ y > 0 /\ y # m /\ y <= m
      BY <2>2
    <3>. QED
      BY <1>3, <3>1
  <2>4. m - 1 \in T
    <3>1. PICK y \in s : TRUE
      OBVIOUS
    <3>2. 0 <= m - 1
      BY <2>3, <3>1
    <3>3. m - 1 \in Nat
      BY <1>3, <3>2
    <3>. QED
      BY <2>3, <3>3 DEF T
  <2>5. m <= m - 1
    BY <1>2, <2>4
  <2>. QED
    BY <1>3, <2>5
<1>5. \A x \in s : (\A y \in s : x >= y) => x = m
  BY <1>3, <1>4
<1>6. Max(s) = m
  BY <1>3, <1>4, <1>5 DEF Max
<1>. QED
  BY <1>3, <1>4, <1>6

\* There is such a function: one for the positions up to n gives one up to n + 1.
LEMMA FoldExists ==
  ASSUME NEW bytes, NEW len \in Nat
  PROVE  \E iter : Folds(iter, bytes, 1 .. len)
<1>. DEFINE Bad == {n \in Nat : ~\E iter : Folds(iter, bytes, 1 .. n)}
<1>1. SUFFICES ASSUME Bad # {} PROVE FALSE
  OBVIOUS
<1>2. PICK n \in Bad : \A m \in Bad : n <= m
  BY <1>1, Least
<1>3. n \in Nat /\ ~\E iter : Folds(iter, bytes, 1 .. n)
  BY <1>2
<1>4. n # 0
  <2>. DEFINE g == [s \in SUBSET (1 .. 0) |-> 0]
  <2>1. \A s \in SUBSET (1 .. 0) : s = {}
    OBVIOUS
  <2>2. Folds(g, bytes, 1 .. 0)
    BY <2>1 DEF Folds
  <2>. QED
    BY <1>3, <2>2
<1>5. n - 1 \in Nat /\ n - 1 \notin Bad
  BY <1>2, <1>3, <1>4
<1>6. PICK g : Folds(g, bytes, 1 .. n - 1)
  BY <1>5
<1>. DEFINE h == [s \in SUBSET (1 .. n) |-> IF s = {} THEN 0 ELSE g[s \ {Max(s)}] * BASE + bytes[Max(s)]]
<1>7. \A s \in SUBSET (1 .. n) : s # {} => s \ {Max(s)} \in SUBSET (1 .. n - 1)
  <2>. SUFFICES ASSUME NEW s \in SUBSET (1 .. n), s # {} PROVE s \ {Max(s)} \in SUBSET (1 .. n - 1)
    OBVIOUS
  <2>1. n \in s => Max(s) = n
    BY <1>3, MaxUpTo
  <2>2. s \ {Max(s)} \subseteq (1 .. n) /\ n \notin s \ {Max(s)}
    BY <2>1
  <2>3. \A y \in 1 .. n : y # n => y \in 1 .. n - 1
    BY <1>3
  <2>. QED
    BY <2>2, <2>3
<1>8. \A s \in SUBSET (1 .. n - 1) : h[s] = g[s] /\ s \in SUBSET (1 .. n)
  <2>. SUFFICES ASSUME NEW s \in SUBSET (1 .. n - 1) PROVE h[s] = g[s] /\ s \in SUBSET (1 .. n)
    OBVIOUS
  <2>1. g[s] = IF s = {} THEN 0 ELSE g[s \ {Max(s)}] * BASE + bytes[Max(s)]
    BY <1>6 DEF Folds
  <2>2. 1 .. n - 1 \subseteq 1 .. n
    BY <1>3
  <2>. QED
    BY <2>1, <2>2
<1>9. Folds(h, bytes, 1 .. n)
  BY <1>7, <1>8 DEF Folds
<1>. QED
  BY <1>3, <1>9

\* Its values are natural numbers.
LEMMA FoldIsNat ==
  ASSUME NEW bytes, NEW len \in Nat, \A k \in 1 .. len : bytes[k] \in Nat,
         NEW iter, Folds(iter, bytes, 1 .. len)
  PROVE  iter[1 .. len] \in Nat
<1>. DEFINE Bad == {n \in Nat : n <= len /\ \E s \in SUBSET (1 .. n) : iter[s] \notin Nat}
<1>1. SUFFICES ASSUME Bad # {} PROVE FALSE
  OBVIOUS
<1>2. PICK n \in Bad : \A m \in Bad : n <= m
  BY <1>1, Least
<1>3. PICK s \in SUBSET (1 .. n) : iter[s] \notin Nat
  BY <1>2
<1>4. n \in Nat /\ n <= len /\ s \in SUBSET (1 .. len)
  BY <1>2, <1>3
<1>5. iter[s] = IF s = {} THEN 0 ELSE iter[s \ {Max(s)}] * BASE + bytes[Max(s)]
  BY <1>4 DEF Folds
<1>6. s # {}
  BY <1>3, <1>5
<1>7. Max(s) \in s /\ (n \in s => Max(s) = n)
  BY <1>3, <1>4, <1>6, MaxUpTo
<1>8. bytes[Max(s)] \in Nat
  BY <1>4, <1>7
<1>9. n - 1 \in Nat /\ s \ {Max(s)} \in SUBSET (1 .. n - 1) /\ iter[s \ {Max(s)}] \notin Nat
  <2>1. Max(s) \in 1 .. n
    BY <1>3, <1>7
  <2>2. n - 1 \in Nat
    BY <1>4, <2>1
  <2>3. \A a, b \in Nat : a * BASE + b \in Nat
    BY Widths
  <2>4. iter[s \ {Max(s)}] \notin Nat
    BY <1>3, <1>5, <1>6, <1>8, <2>3
  <2>5. s \ {Max(s)} \subseteq (1 .. n) /\ n \notin s \ {Max(s)}
    BY <1>3, <1>7
  <2>6. \A y \in 1 .. n : y # n => y \in 1 .. n - 1
    BY <1>4
  <2>. QED
    BY <2>2, <2>4, <2>5, <2>6
<1>10. n - 1 \in Bad
  BY <1>4, <1>9
<1>11. n <= n - 1
  BY <1>2, <1>10
<1>. QED
  BY <1>4, <1>11

LEMMA NumberIsNat ==
  ASSUME NEW bytes \in Seq(Byte)
  PROVE  Number(bytes) \in Nat
<1>1. DOMAIN bytes = 1 .. Len(bytes) /\ Len(bytes) \in Nat /\ \A k \in 1 .. Len(bytes) : bytes[k] \in Nat
  <2>1. Byte \subseteq Nat
    BY Widths DEF Byte
  <2>2. DOMAIN bytes = 1 .. Len(bytes) /\ Len(bytes) \in Nat /\ \A k \in 1 .. Len(bytes) : bytes[k] \in Byte
    OBVIOUS
  <2>. QED
    BY <2>1, <2>2
<1>. DEFINE len == Len(bytes)
           iter == CHOOSE g : Folds(g, bytes, 1 .. len)
<1>2. Folds(iter, bytes, 1 .. len)
  BY <1>1, FoldExists
<1>. HIDE DEF iter
<1>3. iter[1 .. len] \in Nat
  BY <1>1, <1>2, FoldIsNat
<1>. QED
  BY <1>1, <1>3, NumberFolds DEF iter

-----------------------------------------------------------------------------
(* Slices and RLP headers *)

LEMMA SliceOf ==
  ASSUME NEW buf \in Seq(Byte), NEW from \in Nat, NEW to \in Nat, from <= to, to <= Len(buf)
  PROVE  Slice(buf, from, to) \in Seq(Byte) /\ Len(Slice(buf, from, to)) = to - from
<1>1. from + 1 \in Int /\ to \in Int
  OBVIOUS
<1>2. \A k \in from + 1 .. to : buf[k] \in Byte
  <2>1. \A k \in 1 .. Len(buf) : buf[k] \in Byte
    OBVIOUS
  <2>2. Len(buf) \in Nat
    OBVIOUS
  <2>3. \A k \in from + 1 .. to : k \in 1 .. Len(buf)
    BY <2>2
  <2>. QED
    BY <2>1, <2>3
<1>3. /\ SubSeq(buf, from + 1, to) \in Seq(Byte)
      /\ Len(SubSeq(buf, from + 1, to)) = IF from + 1 <= to THEN to - (from + 1) + 1 ELSE 0
  BY ONLY <1>1, <1>2, SubSeqProperties
<1>. QED
  BY <1>3 DEF Slice

LEMMA BodyOf ==
  ASSUME NEW bytes \in Seq(Byte), bytes # <<>>
  PROVE  Body(bytes) \in Seq(Byte) /\ Len(Body(bytes)) <= Len(bytes)
<1>1. Tail(bytes) \in Seq(Byte) /\ Len(Tail(bytes)) = Len(bytes) - 1 /\ Len(bytes) \in Nat
  OBVIOUS
<1>. QED
  BY <1>1 DEF Body

\* A header says where an item starts and ends: not before itself, and not
\* past what a usize can say.
LEMMA HeaderOf ==
  ASSUME NEW buf \in Seq(Byte), Len(buf) + SHORT < USIZE,
         NEW at \in Nat, at < Len(buf), Header(buf, at).ok
  PROVE  /\ Header(buf, at).from \in Nat /\ Header(buf, at).to \in Nat
         /\ at <= Header(buf, at).from /\ Header(buf, at).from <= Header(buf, at).to
         /\ at < Header(buf, at).to /\ Header(buf, at).to < USIZE
<1>. DEFINE c == buf[at + 1]
           short == IF c < LIST THEN c - STR ELSE c - LIST
           s == at + 2 + short - SHORT
           to == s + Number(Slice(buf, at + 1, s))
<1>1. c \in Nat /\ Len(buf) \in Nat
  <2>1. Len(buf) \in Nat /\ Byte \subseteq Nat /\ \A k \in 1 .. Len(buf) : buf[k] \in Byte
    BY Widths DEF Byte
  <2>2. at + 1 \in 1 .. Len(buf)
    BY <2>1
  <2>. QED
    BY <2>1, <2>2
<1>2. Header(buf, at) = IF c < SINGLE THEN [ok |-> TRUE, from |-> at, to |-> at + 1]
      ELSE IF short < SHORT THEN [ok |-> TRUE, from |-> at + 1, to |-> at + 1 + short]
      ELSE IF s <= Len(buf) /\ to < USIZE THEN [ok |-> TRUE, from |-> s, to |-> to]
      ELSE [ok |-> FALSE]
  BY DEF Header
<1>3. short \in Int /\ (~(c < SINGLE) => short \in Nat)
  BY <1>1, Widths DEF STR
<1>4. CASE c < SINGLE
  BY <1>1, <1>2, <1>4, Widths
<1>5. CASE ~(c < SINGLE) /\ short < SHORT
  <2>1. Header(buf, at) = [ok |-> TRUE, from |-> at + 1, to |-> at + 1 + short]
    BY <1>2, <1>5
  <2>. HIDE DEF short
  <2>. QED
    BY <1>1, <1>3, <1>5, <2>1, Widths
<1>6. CASE ~(c < SINGLE) /\ ~(short < SHORT)
  <2>. HIDE DEF c, short, to
  <2>1. s \in Nat /\ at + 1 < s
    BY <1>3, <1>6, Widths
  <2>2. s <= Len(buf) /\ to < USIZE /\ Header(buf, at) = [ok |-> TRUE, from |-> s, to |-> to]
    BY <1>2, <1>6
  <2>3. Slice(buf, at + 1, s) \in Seq(Byte)
    BY <2>1, <2>2, SliceOf
  <2>4. Number(Slice(buf, at + 1, s)) \in Nat
    BY <2>3, NumberIsNat
  <2>5. to \in Nat /\ s <= to
    BY <2>1, <2>4 DEF to
  <2>. QED
    BY <2>1, <2>2, <2>5
<1>. QED
  BY <1>4, <1>5, <1>6

-----------------------------------------------------------------------------
(* The stack of slices *)

LEMMA TopOf ==
  ASSUME Typed, stack # <<>>
  PROVE  /\ Len(stack) \in DOMAIN stack /\ Top = stack[Len(stack)]
         /\ Top[1] \in Nat /\ Top[2] \in Nat /\ Top[3] \in Nat
<1>1. stack \in Seq(Span) /\ Len(stack) \in Nat /\ DOMAIN stack = 1 .. Len(stack)
  BY DEF Typed
<1>2. Len(stack) # 0
  BY <1>1
<1>3. stack[Len(stack)] \in Span
  BY <1>1, <1>2
<1>. QED
  BY <1>1, <1>2, <1>3 DEF Top, Last, Span

LEMMA PrefixOf ==
  ASSUME NEW S, NEW q \in Seq(S), NEW n \in Nat, n <= Len(q)
  PROVE  /\ SubSeq(q, 1, n) \in Seq(S) /\ Len(SubSeq(q, 1, n)) = n
         /\ \A k \in 1 .. n : SubSeq(q, 1, n)[k] = q[k]
<1>1. 1 \in Int /\ n \in Int /\ \A k \in 1 .. n : q[k] \in S
  OBVIOUS
<1>. DEFINE p == SubSeq(q, 1, n)
<1>2. p \in Seq(S) /\ Len(p) = (IF 1 <= n THEN n - 1 + 1 ELSE 0) /\ \A k \in 1 .. n - 1 + 1 : p[k] = q[1 + k - 1]
  BY ONLY <1>1, SubSeqProperties
<1>. HIDE DEF p
<1>3. p \in Seq(S) /\ Len(p) = n /\ \A k \in 1 .. n : p[k] = q[k]
  BY <1>2
<1>. QED
  BY <1>3 DEF p

\* The slices around the one on top.
LEMMA FrontOf ==
  ASSUME Typed, stack # <<>>
  PROVE  /\ Front(stack) \in Seq(Span)
         /\ Len(Front(stack)) = Len(stack) - 1 /\ Len(stack) - 1 \in Nat
         /\ \A k \in 1 .. Len(stack) - 1 : Front(stack)[k] = stack[k]
<1>1. stack \in Seq(Span) /\ Len(stack) - 1 \in Nat /\ Len(stack) - 1 <= Len(stack)
  BY DEF Typed
<1>. QED
  BY <1>1, PrefixOf DEF Front

\* What lies behind every slice.
Behind(x) == \A k \in DOMAIN stack : x <= stack[k][3]

LEMMA StackOf ==
  ASSUME Typed, StackInv, NEW k \in DOMAIN stack
  PROVE  /\ DOMAIN stack = 1 .. Len(stack) /\ Len(stack) \in Nat
         /\ stack[k] \in Span /\ stack[k] = <<stack[k][1], stack[k][2], stack[k][3]>>
         /\ stack[k][1] \in Nat /\ stack[k][2] \in Nat /\ stack[k][3] \in Nat
         /\ stack[k][1] <= stack[k][3] /\ stack[k][3] <= stack[k][2] /\ stack[k][2] <= Len(payload)
<1>1. DOMAIN stack = 1 .. Len(stack) /\ Len(stack) \in Nat /\ stack[k] \in Span
  BY DEF Typed
<1>. QED
  BY <1>1 DEF StackInv, Span

LEMMA Popped ==
  ASSUME Typed, StackInv, stack # <<>>, stack' = Front(stack), payload' = payload
  PROVE  /\ stack' \in Seq(Span) /\ StackInv'
         /\ \A k \in DOMAIN stack' : k \in DOMAIN stack /\ stack'[k] = stack[k] /\ Top[2] <= stack[k][3]
<1>1. /\ stack' \in Seq(Span) /\ DOMAIN stack' = 1 .. Len(stack) - 1
      /\ DOMAIN stack = 1 .. Len(stack) /\ Len(stack) \in Nat /\ Len(stack) \in DOMAIN stack
      /\ \A k \in DOMAIN stack' : stack'[k] = stack[k]
  <2>1. stack' \in Seq(Span) /\ Len(stack') = Len(stack) - 1 /\ \A k \in 1 .. Len(stack) - 1 : stack'[k] = stack[k]
    BY FrontOf
  <2>2. DOMAIN stack' = 1 .. Len(stack')
    BY <2>1
  <2>. QED
    BY <2>1, <2>2, TopOf, StackOf
<1>2. \A k \in DOMAIN stack' : k \in DOMAIN stack /\ k < Len(stack)
  BY <1>1
<1>3. \A k \in DOMAIN stack' : Top[2] <= stack[k][3]
  BY <1>1, <1>2, TopOf DEF StackInv
<1>4. StackInv'
  BY <1>1, <1>2 DEF StackInv
<1>. QED
  BY <1>1, <1>2, <1>3, <1>4

LEMMA Entered ==
  ASSUME Typed, StackInv, stack # <<>>, Top[1] < Top[2], Top[3] = Top[1],
         stack' = Append(Front(stack), <<Top[1], Top[2], Top[1] + 1>>), payload' = payload
  PROVE  /\ stack' \in Seq(Span) /\ StackInv'
         /\ \A x \in Nat : Behind(x) => Behind(x)'
<1>. DEFINE new == <<Top[1], Top[2], Top[1] + 1>>
            n == Len(stack)
<1>1. /\ DOMAIN stack = 1 .. n /\ n - 1 \in Nat /\ n \in Nat /\ n \in DOMAIN stack
      /\ Front(stack) \in Seq(Span) /\ Len(Front(stack)) = n - 1
      /\ \A k \in 1 .. n - 1 : Front(stack)[k] = stack[k]
  BY FrontOf, TopOf, StackOf
<1>2. new \in Span /\ new[1] = Top[1] /\ new[2] = Top[2] /\ new[3] = Top[1] + 1
  BY TopOf DEF Span
<1>t. /\ Top = stack[n] /\ Top[1] \in Nat /\ Top[2] \in Nat /\ Top[2] <= Len(payload)
  BY <1>1, TopOf, StackOf
<1>. HIDE DEF new, n
<1>3. /\ stack' \in Seq(Span) /\ Len(stack') = n /\ stack'[n] = new
      /\ \A k \in 1 .. n - 1 : stack'[k] = stack[k]
  <2>1. stack' = Append(Front(stack), new)
    BY DEF new
  <2>2. n - 1 + 1 = n /\ \A k \in 1 .. n - 1 : k # n
    BY <1>1
  <2>. QED
    BY <1>1, <1>2, <2>1, <2>2, AppendProperties
<1>4. DOMAIN stack' = 1 .. n
  BY <1>3
<1>5. \A k \in 1 .. n : /\ stack'[k][1] = stack[k][1] /\ stack'[k][2] = stack[k][2]
                        /\ k < n => stack'[k][3] = stack[k][3]
                        /\ k = n => stack'[k][3] = Top[1] + 1
  <2>1. \A k \in 1 .. n : k < n => k \in 1 .. n - 1
    BY <1>1
  <2>2. \A k \in 1 .. n : k < n \/ k = n
    BY <1>1
  <2>. QED
    BY <1>2, <1>3, <1>t, <2>1, <2>2
<1>6. \A k \in 1 .. n : /\ stack[k][1] <= stack[k][3] /\ stack[k][3] <= stack[k][2] /\ stack[k][2] <= Len(payload)
                        /\ k < n \/ k = n
  <2>1. \A k \in 1 .. n : k < n \/ k = n
    BY <1>1
  <2>. QED
    BY <1>1, <2>1 DEF StackInv
<1>7. \A k \in 1 .. n : stack'[k][1] <= stack'[k][3] /\ stack'[k][3] <= stack'[k][2] /\ stack'[k][2] <= Len(payload)
  <2>. SUFFICES ASSUME NEW k \in 1 .. n
                PROVE  stack'[k][1] <= stack'[k][3] /\ stack'[k][3] <= stack'[k][2] /\ stack'[k][2] <= Len(payload)
    OBVIOUS
  <2>1. CASE k < n
    BY ONLY <1>5, <1>6, <2>1, k \in 1 .. n
  <2>2. CASE k = n
    <3>1. stack'[k][1] = Top[1] /\ stack'[k][2] = Top[2] /\ stack'[k][3] = Top[1] + 1
      BY <1>5, <1>t, <2>2
    <3>2. Top[1] <= Top[1] + 1 /\ Top[1] + 1 <= Top[2]
      BY <1>t
    <3>. QED
      BY <1>t, <3>1, <3>2
  <2>. QED
    BY <1>6, <2>1, <2>2
<1>8. \A j, k \in 1 .. n : j < k => stack'[j][1] < stack'[k][1] /\ stack'[k][2] <= stack'[j][3]
  <2>1. \A j, k \in 1 .. n : j < k => j < n
    BY <1>1
  <2>. QED
    BY <1>1, <1>5, <2>1 DEF StackInv
<1>9. StackInv'
  BY <1>4, <1>7, <1>8 DEF StackInv
<1>10. ASSUME NEW x \in Nat, Behind(x) PROVE Behind(x)'
  <2>1. x <= Top[1]
    BY <1>1, <1>10, <1>t DEF Behind
  <2>2. x <= Top[1] + 1
    BY <1>t, <2>1
  <2>3. \A k \in 1 .. n : x <= stack'[k][3]
    BY <1>1, <1>5, <1>6, <1>10, <2>2 DEF Behind
  <2>. QED
    BY <1>4, <2>3 DEF Behind
<1>. QED
  BY <1>3, <1>9, <1>10

LEMMA Parted ==
  ASSUME Typed, StackInv, stack # <<>>, Top[3] # Top[1],
         NEW start \in Nat, start = Top[3] + LENGTH,
         NEW len \in Nat, len > 0, start + len <= Top[2],
         stack' = Front(stack) \o <<<<Top[1], Top[2], start + len>>, <<start, start + len, start>>>>,
         payload' = payload
  PROVE  /\ stack' \in Seq(Span) /\ StackInv'
         /\ \A x \in Nat : Behind(x) => Behind(x)'
<1>. DEFINE outer == <<Top[1], Top[2], start + len>>
            inner == <<start, start + len, start>>
            n == Len(stack)
<1>1. /\ DOMAIN stack = 1 .. n /\ n - 1 \in Nat /\ n \in Nat /\ n \in DOMAIN stack
      /\ Front(stack) \in Seq(Span) /\ Len(Front(stack)) = n - 1
      /\ \A k \in 1 .. n - 1 : Front(stack)[k] = stack[k]
  BY FrontOf, TopOf, StackOf
<1>2. /\ outer \in Span /\ outer[1] = Top[1] /\ outer[2] = Top[2] /\ outer[3] = start + len
      /\ inner \in Span /\ inner[1] = start /\ inner[2] = start + len /\ inner[3] = start
  BY TopOf DEF Span
<1>t. /\ Top = stack[n] /\ Top[1] \in Nat /\ Top[2] \in Nat /\ Top[3] \in Nat /\ Top[2] <= Len(payload)
      /\ Top[1] < Top[3] /\ Top[3] < start /\ Len(payload) \in Nat
  <2>1. Len(payload) \in Nat
    BY DEF Typed
  <2>. QED
    <3>1. /\ Top = stack[n] /\ Top[1] \in Nat /\ Top[2] \in Nat /\ Top[3] \in Nat
          /\ Top[2] <= Len(payload) /\ Top[1] <= Top[3]
      BY <1>1, TopOf, StackOf
    <3>2. Top[1] < Top[3]
      BY ONLY <3>1, Top[3] # Top[1]
    <3>3. LENGTH \in Nat \ {0} /\ start = Top[3] + LENGTH
      BY Widths
    <3>4. Top[3] < start
      BY ONLY <3>1, <3>3
    <3>. QED
      BY <2>1, <3>1, <3>2, <3>4
<1>. HIDE DEF outer, inner, n
<1>u. /\ Top[1] < start /\ Top[1] <= start + len /\ start <= start + len
      /\ start + len <= Top[2] /\ Top[2] <= Len(payload) /\ start + len <= Len(payload)
  <2>1. Top[1] < start /\ Top[1] <= start + len /\ start <= start + len
    BY ONLY <1>t, start \in Nat, len \in Nat
  <2>2. start + len <= Top[2] /\ Top[2] <= Len(payload)
    BY <1>t
  <2>3. start + len <= Len(payload)
    BY ONLY <1>t, <2>2, start \in Nat, len \in Nat
  <2>. QED
    BY <2>1, <2>2, <2>3
<1>3. /\ stack' \in Seq(Span) /\ Len(stack') = n + 1 /\ stack'[n] = outer /\ stack'[n + 1] = inner
      /\ \A k \in 1 .. n - 1 : stack'[k] = stack[k]
  <2>1. /\ stack' = Front(stack) \o <<outer, inner>> /\ <<outer, inner>> \in Seq(Span)
        /\ Len(<<outer, inner>>) = 2 /\ <<outer, inner>>[1] = outer /\ <<outer, inner>>[2] = inner
    BY <1>2 DEF outer, inner
  <2>2. /\ stack' \in Seq(Span) /\ Len(stack') = n - 1 + 2
        /\ \A k \in 1 .. n - 1 + 2 :
             stack'[k] = IF k <= n - 1 THEN Front(stack)[k] ELSE <<outer, inner>>[k - (n - 1)]
    <3>. DEFINE f == Front(stack)
                p == <<outer, inner>>
    <3>1. f \in Seq(Span) /\ p \in Seq(Span) /\ Len(f) = n - 1 /\ Len(p) = 2 /\ stack' = f \o p
      BY <1>1, <2>1
    <3>. HIDE DEF f, p
    <3>2. /\ f \o p \in Seq(Span) /\ Len(f \o p) = Len(f) + Len(p)
          /\ \A k \in 1 .. Len(f) + Len(p) : (f \o p)[k] = IF k <= Len(f) THEN f[k] ELSE p[k - Len(f)]
      BY ONLY <3>1, ConcatProperties
    <3>3. /\ stack' \in Seq(Span) /\ Len(stack') = n - 1 + 2
          /\ \A k \in 1 .. n - 1 + 2 : stack'[k] = IF k <= n - 1 THEN f[k] ELSE p[k - (n - 1)]
      BY <3>1, <3>2
    <3>. QED
      BY <3>3 DEF f, p
  <2>3. n - 1 + 2 = n + 1 /\ n \in 1 .. n - 1 + 2 /\ n + 1 \in 1 .. n - 1 + 2 /\ ~(n <= n - 1) /\ ~(n + 1 <= n - 1)
        /\ n - (n - 1) = 1 /\ n + 1 - (n - 1) = 2 /\ \A k \in 1 .. n - 1 : k \in 1 .. n - 1 + 2 /\ k <= n - 1
    BY <1>1
  <2>4. stack'[n] = <<outer, inner>>[n - (n - 1)] /\ stack'[n + 1] = <<outer, inner>>[n + 1 - (n - 1)]
    BY ONLY <2>2, <2>3
  <2>5. \A k \in 1 .. n - 1 : stack'[k] = stack[k]
    BY ONLY <1>1, <2>2, <2>3
  <2>6. stack'[n] = outer /\ stack'[n + 1] = inner
    BY ONLY <2>1, <2>3, <2>4
  <2>. QED
    BY ONLY <2>2, <2>3, <2>5, <2>6
<1>4. DOMAIN stack' = 1 .. n + 1
  BY <1>3
<1>5. \A k \in 1 .. n + 1 : /\ k < n => k \in 1 .. n - 1 /\ k \in DOMAIN stack /\ stack'[k] = stack[k]
                            /\ k < n \/ k = n \/ k = n + 1
  BY <1>1, <1>3
<1>6. /\ stack'[n][1] = Top[1] /\ stack'[n][2] = Top[2] /\ stack'[n][3] = start + len
      /\ stack'[n + 1][1] = start /\ stack'[n + 1][2] = start + len /\ stack'[n + 1][3] = start
  BY <1>2, <1>3
<1>7. \A k \in 1 .. n + 1 : stack'[k][1] <= stack'[k][3] /\ stack'[k][3] <= stack'[k][2] /\ stack'[k][2] <= Len(payload)
  <2>. SUFFICES ASSUME NEW k \in 1 .. n + 1
                PROVE  stack'[k][1] <= stack'[k][3] /\ stack'[k][3] <= stack'[k][2] /\ stack'[k][2] <= Len(payload)
    OBVIOUS
  <2>1. CASE k < n
    BY <1>5, <2>1 DEF StackInv
  <2>2. CASE k = n
    BY ONLY <1>6, <1>u, <2>2
  <2>3. CASE k = n + 1
    <3>1. start <= start
      OBVIOUS
    <3>. QED
      BY ONLY <1>6, <1>u, <2>3, <3>1
  <2>. QED
    BY <1>5, <2>1, <2>2, <2>3
<1>8. \A j, k \in 1 .. n + 1 : j < k => stack'[j][1] < stack'[k][1] /\ stack'[k][2] <= stack'[j][3]
  <2>. SUFFICES ASSUME NEW j \in 1 .. n + 1, NEW k \in 1 .. n + 1, j < k
                PROVE  stack'[j][1] < stack'[k][1] /\ stack'[k][2] <= stack'[j][3]
    OBVIOUS
  <2>1. CASE k < n
    <3>1. j < n
      BY <1>1, <2>1
    <3>. QED
      BY <1>5, <2>1, <3>1 DEF StackInv
  <2>2. CASE k = n
    <3>1. j \in DOMAIN stack /\ j < n /\ stack'[j] = stack[j]
      BY <1>5, <2>2
    <3>2. stack[j][1] < Top[1] /\ Top[2] <= stack[j][3]
      BY <1>1, <1>t, <3>1 DEF StackInv
    <3>. QED
      BY <1>6, <2>2, <3>1, <3>2
  <2>3. CASE k = n + 1 /\ j = n
    <3>1. start + len <= start + len
      OBVIOUS
    <3>. QED
      BY ONLY <1>6, <1>u, <2>3, <3>1
  <2>4. CASE k = n + 1 /\ j < n
    <3>1. j \in DOMAIN stack /\ stack'[j] = stack[j]
      BY <1>5, <2>4
    <3>2. stack[j][1] < Top[1] /\ Top[2] <= stack[j][3] /\ stack[j][1] \in Nat /\ stack[j][3] \in Nat
      BY <1>1, <1>t, <2>4, <3>1, StackOf DEF StackInv
    <3>3. stack[j][1] < start
      <4>1. Top[1] \in Nat /\ Top[1] < start
        BY ONLY <1>t, <1>u
      <4>. QED
        BY ONLY <3>2, <4>1, start \in Nat
    <3>4. start + len <= stack[j][3]
      <4>1. Top[2] \in Nat /\ start + len <= Top[2]
        BY ONLY <1>t, <1>u
      <4>. QED
        BY ONLY <3>2, <4>1, start \in Nat, len \in Nat
    <3>. QED
      BY ONLY <1>6, <2>4, <3>1, <3>3, <3>4
  <2>5. k < n \/ k = n \/ (k = n + 1 /\ j = n) \/ (k = n + 1 /\ j < n)
    <3>1. n \in Nat
      BY <1>1
    <3>. QED
      BY ONLY <3>1, j \in 1 .. n + 1, k \in 1 .. n + 1, j < k
  <2>. QED
    BY <2>1, <2>2, <2>3, <2>4, <2>5
<1>9. StackInv'
  <2>1. Len(payload') = Len(payload)
    OBVIOUS
  <2>. QED
    BY ONLY <1>4, <1>7, <1>8, <2>1 DEF StackInv
<1>10. ASSUME NEW x \in Nat, Behind(x) PROVE Behind(x)'
  <2>1. x <= Top[3]
    BY <1>1, <1>10, <1>t DEF Behind
  <2>2. x <= start + len /\ x <= start
    BY ONLY <1>t, <2>1, x \in Nat, start \in Nat, len \in Nat
  <2>3. \A k \in 1 .. n + 1 : x <= stack'[k][3]
    BY <1>5, <1>6, <1>10, <2>2 DEF Behind
  <2>. QED
    BY <1>4, <2>3 DEF Behind
<1>. QED
  BY <1>3, <1>9, <1>10

-----------------------------------------------------------------------------
(* The transaction being decoded *)

LEMMA RawOf ==
  ASSUME Typed, RawInv
  PROVE  /\ raw[1] \in Nat /\ raw[2] \in Nat
         /\ RawBytes \in Seq(Byte) /\ Len(RawBytes) = raw[2] - raw[1]
         /\ RawBytes # <<>> <=> raw[1] < raw[2]
         /\ RawBytes # <<>> => /\ Buf \in Seq(Byte) /\ Len(Buf) + SHORT < USIZE
                               /\ TxType(RawBytes) \in Nat
<1>1. /\ raw[1] \in Nat /\ raw[2] \in Nat /\ raw[1] <= raw[2] /\ raw[2] <= Len(payload)
      /\ payload \in Seq(Byte) /\ Len(payload) \in Nat /\ Len(payload) + SHORT < USIZE
  BY DEF Typed, RawInv
<1>2. RawBytes \in Seq(Byte) /\ Len(RawBytes) = raw[2] - raw[1]
  BY <1>1, SliceOf DEF RawBytes
<1>. DEFINE bytes == RawBytes
<1>. HIDE DEF bytes
<1>3. bytes \in Seq(Byte) /\ Len(bytes) = raw[2] - raw[1]
  BY <1>2 DEF bytes
<1>4. bytes # <<>> <=> Len(bytes) > 0
  BY <1>3
<1>5. bytes # <<>> <=> raw[1] < raw[2]
  BY <1>1, <1>3, <1>4
<1>6. ASSUME bytes # <<>>
      PROVE  Body(bytes) \in Seq(Byte) /\ Len(Body(bytes)) + SHORT < USIZE /\ TxType(bytes) \in Nat
  <2>1. Body(bytes) \in Seq(Byte) /\ Len(Body(bytes)) <= Len(bytes) /\ Len(Body(bytes)) \in Nat
    BY <1>3, <1>6, BodyOf
  <2>2. bytes[1] \in Nat
    <3>1. Byte \subseteq Nat /\ bytes[1] \in Byte
      BY <1>3, <1>4, <1>6, Widths DEF Byte
    <3>. QED
      BY <3>1
  <2>3. Len(Body(bytes)) + SHORT < USIZE
    BY <1>1, <1>3, <2>1, Widths
  <2>. QED
    BY <2>1, <2>2, <2>3 DEF TxType
<1>. QED
  BY <1>1, <1>3, <1>5, <1>6 DEF bytes, Buf

\* The list a transaction starts with lies in its bytes.
LEMMA ListOf ==
  ASSUME Typed, RawInv, RawBytes # <<>>, IsList(Buf)
  PROVE  /\ Header(Buf, 0).from \in Nat /\ Header(Buf, 0).to \in Nat
         /\ Header(Buf, 0).from <= Header(Buf, 0).to /\ Header(Buf, 0).to <= Len(Buf)
         /\ Header(Buf, 0).from < USIZE
<1>1. Buf \in Seq(Byte) /\ Len(Buf) + SHORT < USIZE
  BY RawOf
<1>2. Buf # <<>> /\ Header(Buf, 0).ok /\ Header(Buf, 0).to <= Len(Buf)
  BY DEF IsList
<1>3. Len(Buf) \in Nat /\ 0 < Len(Buf)
  BY <1>1, <1>2
<1>4. /\ Header(Buf, 0).from \in Nat /\ Header(Buf, 0).to \in Nat
      /\ Header(Buf, 0).from <= Header(Buf, 0).to /\ Header(Buf, 0).to < USIZE
  BY <1>1, <1>2, <1>3, HeaderOf
<1>5. Header(Buf, 0).from < USIZE
  BY <1>4, Widths
<1>. QED
  BY <1>2, <1>4, <1>5

\* The next item of the list starts in it.
LEMMA ItemOf ==
  ASSUME Typed, RawInv, ScanInv, pc = "scan", i < end, Header(Buf, i).ok
  PROVE  /\ Header(Buf, i).from \in Nat /\ Header(Buf, i).to \in Nat
         /\ i <= Header(Buf, i).from /\ Header(Buf, i).from <= Header(Buf, i).to
         /\ i < Header(Buf, i).to /\ Header(Buf, i).to < USIZE
<1>1. Buf \in Seq(Byte) /\ Len(Buf) + SHORT < USIZE
  BY RawOf DEF RawInv
<1>2. Len(Buf) \in Nat /\ i \in Nat /\ end \in Nat /\ end <= Len(Buf)
  BY <1>1 DEF Typed, ScanInv
<1>3. i < Len(Buf)
  BY <1>2
<1>4. /\ Header(Buf, i).from \in Nat /\ Header(Buf, i).to \in Nat
      /\ i <= Header(Buf, i).from /\ Header(Buf, i).from <= Header(Buf, i).to
      /\ i < Header(Buf, i).to /\ Header(Buf, i).to < USIZE
  BY <1>1, <1>2, <1>3, HeaderOf
<1>. QED
  BY <1>2, <1>4

LEMMA LayoutOf ==
  ASSUME NEW type \in Nat, Layout(type) # <<>>
  PROVE  /\ type \in 0 .. TYPES
         /\ \A k \in 1 .. 5 : Layout(type)[k] \in Nat \ {0} /\ Layout(type)[k] <= Layout(type)[5]
<1>1. TYPES \in Nat \ {0}
  BY FormatAssumption
<1>2. \/ type = 0 /\ Layout(type) = <<1, 3, 4, 5, 6>>
      \/ type = 1 /\ Layout(type) = <<2, 4, 5, 6, 7>>
      \/ type \in 2 .. TYPES /\ Layout(type) = <<2, 5, 6, 7, 8>>
  BY DEF Layout
<1>3. type \in 0 .. TYPES
  BY <1>1, <1>2
<1>4. 1 .. 5 = {1, 2, 3, 4, 5}
  OBVIOUS
<1>5. ASSUME NEW k \in {1, 2, 3, 4, 5}
      PROVE  Layout(type)[k] \in Nat \ {0} /\ Layout(type)[k] <= Layout(type)[5]
  BY <1>2
<1>. QED
  BY <1>3, <1>4, <1>5

\* A transaction of which only the bytes are known.
LEMMA OpaqueFits ==
  ASSUME Typed, RawInv, RawBytes # <<>>
  PROVE  LET tx == Opaque(raw, TxType(RawBytes)) IN tx \in Tx /\ tx.raw = raw /\ TxFits(tx)
<1>. DEFINE tx == Opaque(raw, TxType(RawBytes))
<1>1. raw \in Nat \X Nat /\ raw[1] < raw[2] /\ raw[2] <= Len(payload) /\ TxType(RawBytes) \in Nat
  BY RawOf DEF Typed, RawInv
<1>2. tx \in Tx /\ tx.raw = raw /\ tx.fields = <<>>
  <2>1. <<>> \in Seq(Span) /\ <<>> \in Seq(Byte) /\ <<>> \in Seq(Seq(Byte))
    OBVIOUS
  <2>. QED
    BY <1>1, <2>1 DEF Opaque, Tx
<1>. HIDE DEF tx
<1>3. DOMAIN tx.fields = {}
  BY <1>2
<1>4. TxFits(tx)
  BY <1>1, <1>2, <1>3 DEF TxFits, FieldsFit
<1>. QED
  BY <1>2, <1>4 DEF tx

LEMMA ModeledFits ==
  ASSUME Typed, RawInv, ScanInv, pc = "model"
  PROVE  LET tx == Modeled(raw, Buf, TxType(RawBytes), fields)
         IN  tx \in Tx /\ tx.raw = raw /\ TxFits(tx)
<1>. DEFINE type == TxType(RawBytes)
            l == Layout(type)
            item(k) == Slice(Buf, fields[k][2], fields[k][3])
            to == item(l[3])
            data == item(l[5])
            tx == Modeled(raw, Buf, type, fields)
<1>1. RawBytes # <<>> /\ l # <<>> /\ type \in Nat /\ Buf \in Seq(Byte) /\ Len(Buf) \in Nat
  BY RawOf DEF RawInv
<1>2. CASE ~Fits(type, fields)
  <2>1. tx = Opaque(raw, type)
    BY <1>2 DEF Modeled
  <2>. QED
    BY <1>1, <2>1, OpaqueFits
<1>3. CASE Fits(type, fields)
  <2>1. tx = [raw |-> raw, type |-> type, fields |-> fields, to |-> to,
              selector |-> IF Len(data) < SELECTOR THEN <<>> ELSE <<SubSeq(data, 1, SELECTOR)>>]
    BY <1>3 DEF Modeled
  <2>2. /\ type \in 0 .. TYPES /\ fields \in Seq(Span) /\ DOMAIN fields = 1 .. Len(fields) /\ Len(fields) \in Nat
        /\ \A k \in 1 .. 5 : l[k] \in Nat \ {0} /\ l[k] <= l[5]
        /\ Len(fields) >= l[5] + 3
    <3>1. type \in 0 .. TYPES /\ \A k \in 1 .. 5 : l[k] \in Nat \ {0} /\ l[k] <= l[5]
      BY <1>1, LayoutOf
    <3>2. fields \in Seq(Span) /\ DOMAIN fields = 1 .. Len(fields) /\ Len(fields) \in Nat
      BY DEF Typed
    <3>3. Len(fields) >= l[5] + 3
      BY <1>3 DEF Fits
    <3>. QED
      BY <3>1, <3>2, <3>3
  <2>3. \A k \in 1 .. 5 : l[k] \in DOMAIN fields
    <3>. SUFFICES ASSUME NEW k \in 1 .. 5 PROVE l[k] \in DOMAIN fields
      OBVIOUS
    <3>1. l[k] \in Nat \ {0} /\ l[k] <= l[5] /\ l[5] \in Nat /\ Len(fields) >= l[5] + 3 /\ Len(fields) \in Nat
      BY <2>2
    <3>2. l[k] \in 1 .. Len(fields)
      BY ONLY <3>1
    <3>. QED
      BY <2>2, <3>2
  <2>4. \A k \in DOMAIN fields : /\ fields[k][2] \in Nat /\ fields[k][3] \in Nat
                                 /\ fields[k][2] <= fields[k][3] /\ fields[k][3] <= Len(Buf)
    <3>. SUFFICES ASSUME NEW k \in DOMAIN fields
                  PROVE  /\ fields[k][2] \in Nat /\ fields[k][3] \in Nat
                         /\ fields[k][2] <= fields[k][3] /\ fields[k][3] <= Len(Buf)
      OBVIOUS
    <3>1. fields[k] \in Span
      BY <2>2
    <3>2. fields[k][2] \in Nat /\ fields[k][3] \in Nat
      BY <3>1 DEF Span
    <3>3. fields[k][2] <= fields[k][3] /\ fields[k][3] <= i /\ i <= end /\ end <= Len(Buf) /\ i \in Nat /\ end \in Nat
      BY DEF ScanInv, Typed
    <3>4. fields[k][3] <= Len(Buf)
      BY <1>1, <3>2, <3>3
    <3>. QED
      BY <3>2, <3>3, <3>4
  <2>5. \A k \in DOMAIN fields : item(k) \in Seq(Byte) /\ Len(item(k)) = Size(fields[k])
    BY <1>1, <2>4, SliceOf DEF Size
  <2>6. to \in Seq(Byte) /\ Len(to) = Size(fields[l[3]]) /\ data \in Seq(Byte)
    BY <2>3, <2>5
  <2>. DEFINE selector == IF Len(data) < SELECTOR THEN <<>> ELSE <<SubSeq(data, 1, SELECTOR)>>
  <2>7. selector \in Seq(Seq(Byte)) /\ (selector # <<>> => Len(selector[1]) = SELECTOR)
    <3>1. SELECTOR \in Nat /\ Len(data) \in Nat
      BY <2>6, FormatAssumption
    <3>. HIDE DEF data
    <3>2. CASE Len(data) < SELECTOR
      BY <3>2
    <3>3. CASE ~(Len(data) < SELECTOR)
      <4>1. SubSeq(data, 1, SELECTOR) \in Seq(Byte) /\ Len(SubSeq(data, 1, SELECTOR)) = SELECTOR
        BY <2>6, <3>1, <3>3, PrefixOf
      <4>2. selector = <<SubSeq(data, 1, SELECTOR)>>
        BY <3>3
      <4>. QED
        BY <4>1, <4>2
    <3>. QED
      BY <3>2, <3>3
  <2>. HIDE DEF type, l, item, to, data, tx, selector
  <2>8. tx = [raw |-> raw, type |-> type, fields |-> fields, to |-> to, selector |-> selector]
    BY <2>1 DEF selector
  <2>9. tx \in Tx /\ tx.raw = raw /\ tx.type = type /\ tx.fields = fields /\ tx.to = to /\ tx.selector = selector
    BY <1>1, <2>2, <2>6, <2>7, <2>8 DEF Tx, Typed
  <2>10. /\ Size(fields[l[1]]) <= INTEGER /\ Size(fields[l[2]]) <= INTEGER
         /\ Size(fields[l[3]]) \in {0, ADDRESS} /\ Size(fields[l[4]]) <= SCALAR
    BY <1>3 DEF Fits, l
  <2>11. FieldsFit(tx)
    <3>1. Len(fields) > l[5] + 2
      BY <2>2
    <3>2. Len(to) \in {0, ADDRESS}
      BY <2>6, <2>10
    <3>. QED
      BY <2>2, <2>7, <2>9, <2>10, <3>1, <3>2 DEF FieldsFit, l
  <2>12. Body(Raw(tx)) = Buf
    BY <2>9 DEF Raw, Buf, RawBytes
  <2>13. TxFits(tx)
    BY <1>1, <2>4, <2>9, <2>11, <2>12, RawOf DEF TxFits, RawInv
  <2>. QED
    BY <2>9, <2>13 DEF tx, type
<1>. QED
  BY <1>2, <1>3

-----------------------------------------------------------------------------
(* Every step *)

LEMMA InvInit == CodecInit => Typed /\ Inv
<1>. SUFFICES ASSUME CodecInit PROVE Typed /\ Inv
  OBVIOUS
<1>1. PICK input \in Inputs :
        /\ payload = input.l2Msg
        /\ stack = IF input.isL2Message THEN <<<<0, Len(input.l2Msg), 0>>>> ELSE <<>>
  BY DEF CodecInit
<1>2. payload \in Seq(Byte) /\ Len(payload) + SHORT < USIZE /\ Len(payload) \in Nat
  BY <1>1, InputsAssumption DEF Byte
<1>3. \/ stack = <<>>
      \/ stack = <<<<0, Len(payload), 0>>>>
  BY <1>1
<1>4. stack \in Seq(Span) /\ StackInv
  <2>1. CASE stack = <<>>
    BY <2>1 DEF StackInv
  <2>2. CASE stack = <<<<0, Len(payload), 0>>>>
    <3>1. <<0, Len(payload), 0>> \in Span
      BY <1>2 DEF Span
    <3>2. stack \in Seq(Span) /\ DOMAIN stack = {1} /\ stack[1] = <<0, Len(payload), 0>>
      BY <2>2, <3>1
    <3>. QED
      BY <1>2, <3>2 DEF StackInv
  <2>. QED
    BY <1>3, <2>1, <2>2
<1>5. pc = "walk" /\ raw = <<0, 0>> /\ i = 0 /\ end = 0 /\ fields = <<>> /\ txs = <<>>
  BY DEF CodecInit
<1>6. Typed
  BY <1>2, <1>4, <1>5 DEF Typed
<1>7. RawInv /\ ScanInv
  BY <1>2, <1>5 DEF RawInv, ScanInv
<1>8. TxsInv
  BY <1>5 DEF TxsInv, TxsFit, TxsAscend
<1>. QED
  BY <1>4, <1>6, <1>7, <1>8 DEF Inv

\* The last transaction found.
LEMMA LastOf ==
  ASSUME Typed, txs # <<>>
  PROVE  /\ Len(txs) \in DOMAIN txs /\ Len(txs) \in Nat /\ DOMAIN txs = 1 .. Len(txs)
         /\ \A k \in DOMAIN txs : txs[k] \in Tx /\ txs[k].raw[1] \in Nat /\ txs[k].raw[2] \in Nat
<1>1. txs \in Seq(Tx) /\ Len(txs) \in Nat /\ DOMAIN txs = 1 .. Len(txs) /\ Len(txs) # 0
  BY DEF Typed
<1>2. \A k \in DOMAIN txs : txs[k] \in Tx
  BY <1>1
<1>3. \A tx \in Tx : tx.raw[1] \in Nat /\ tx.raw[2] \in Nat
  BY DEF Tx
<1>. QED
  BY <1>1, <1>2, <1>3

LEMMA SameTxs ==
  ASSUME UNCHANGED <<payload, txs>>
  PROVE  (TxsFit <=> TxsFit') /\ (TxsAscend <=> TxsAscend')
BY DEF TxsFit, TxsAscend, TxFits, FieldsFit, Raw

\* The walk goes on with other slices.
LEMMA WalkStays ==
  ASSUME Typed, Inv, pc = "walk", UNCHANGED <<payload, pc, raw, i, end, fields, txs>>,
         stack' \in Seq(Span), StackInv', \A x \in Nat : Behind(x) => Behind(x)'
  PROVE  Typed' /\ Inv'
<1>1. Typed'
  BY DEF Typed
<1>2. RawInv' /\ ScanInv'
  BY DEF Inv, RawInv, ScanInv
<1>3. TxsInv'
  <2>1. txs # <<>> => Behind(txs[Len(txs)].raw[2])
    BY DEF Inv, TxsInv, Behind
  <2>2. txs # <<>> => Behind(txs[Len(txs)].raw[2])'
    <3>. SUFFICES ASSUME txs # <<>> PROVE Behind(txs[Len(txs)].raw[2])'
      OBVIOUS
    <3>. DEFINE x == txs[Len(txs)].raw[2]
    <3>1. x \in Nat /\ Behind(x)
      BY <2>1, LastOf
    <3>2. x' = x
      OBVIOUS
    <3>3. \A k \in DOMAIN stack' : x <= stack'[k][3]
      <4>. HIDE DEF x
      <4>. QED
        BY <3>1 DEF Behind
    <3>. QED
      BY <3>2, <3>3 DEF Behind
  <2>. QED
    BY <2>2, SameTxs DEF Inv, TxsInv, Behind
<1>. QED
  BY <1>1, <1>2, <1>3 DEF Inv

LEMMA WalkBatchStep == ASSUME Typed, Inv, WalkBatch PROVE Typed' /\ Inv'
<1>1. /\ pc = "walk" /\ stack # <<>> /\ Top[3] = Top[1] /\ Top[1] < Top[2]
      /\ stack' = Append(Front(stack), <<Top[1], Top[2], Top[1] + 1>>)
      /\ UNCHANGED <<payload, pc, raw, i, end, fields, txs>>
  BY DEF WalkBatch, Fresh, Starts
<1>2. stack' \in Seq(Span) /\ StackInv' /\ \A x \in Nat : Behind(x) => Behind(x)'
  BY <1>1, Entered DEF Inv
<1>. QED
  BY <1>1, <1>2, WalkStays

LEMMA PopStep ==
  ASSUME Typed, Inv, pc = "walk", stack # <<>>, stack' = Front(stack),
         UNCHANGED <<payload, pc, raw, i, end, fields, txs>>
  PROVE  Typed' /\ Inv'
<1>1. /\ stack' \in Seq(Span) /\ StackInv'
      /\ \A k \in DOMAIN stack' : k \in DOMAIN stack /\ stack'[k] = stack[k]
  BY Popped DEF Inv
<1>2. \A x \in Nat : Behind(x) => Behind(x)'
  BY <1>1 DEF Behind
<1>. QED
  BY <1>1, <1>2, WalkStays

LEMMA BatchPartStep == ASSUME Typed, Inv, BatchPart PROVE Typed' /\ Inv'
<1>. DEFINE start == Top[3] + LENGTH
            len == Number(Slice(payload, Top[3], start))
            fits == start <= Top[2] /\ len \in 1 .. Top[2] - start
<1>1. /\ pc = "walk" /\ stack # <<>> /\ Top[3] # Top[1]
      /\ stack' = IF fits
                  THEN Front(stack) \o <<<<Top[1], Top[2], start + len>>, <<start, start + len, start>>>>
                  ELSE Front(stack)
      /\ UNCHANGED <<payload, pc, raw, i, end, fields, txs>>
  BY DEF BatchPart, Fresh
<1>2. CASE ~fits
  BY <1>1, <1>2, PopStep
<1>3. CASE fits
  <2>1. start \in Nat /\ Top[2] \in Nat /\ start <= Top[2]
    BY <1>1, <1>3, TopOf, Widths
  <2>. HIDE DEF len, start
  <2>2. len \in Nat /\ len > 0 /\ start + len <= Top[2]
    BY <1>3, <2>1
  <2>3. stack' = Front(stack) \o <<<<Top[1], Top[2], start + len>>, <<start, start + len, start>>>>
    BY <1>1, <1>3
  <2>4. stack' \in Seq(Span) /\ StackInv' /\ \A x \in Nat : Behind(x) => Behind(x)'
    BY <1>1, <2>1, <2>2, <2>3, Parted DEF Inv, start
  <2>. QED
    BY <1>1, <2>4, WalkStays
<1>. QED
  BY <1>2, <1>3

LEMMA WalkSignedStep == ASSUME Typed, Inv, WalkSigned PROVE Typed' /\ Inv'
<1>1. /\ pc = "walk" /\ pc' = "decode" /\ stack # <<>> /\ Top[3] = Top[1] /\ Top[1] < Top[2]
      /\ raw' = <<Top[1] + 1, Top[2]>> /\ stack' = Front(stack)
      /\ UNCHANGED <<payload, i, end, fields, txs>>
  BY DEF WalkSigned, Fresh, Starts
<1>2. /\ stack' \in Seq(Span) /\ StackInv'
      /\ \A k \in DOMAIN stack' : k \in DOMAIN stack /\ stack'[k] = stack[k] /\ Top[2] <= stack[k][3]
  BY <1>1, Popped DEF Inv
<1>3. /\ Top = stack[Len(stack)] /\ Len(stack) \in DOMAIN stack
      /\ Top[1] \in Nat /\ Top[2] \in Nat /\ Top[2] <= Len(payload)
  BY <1>1, TopOf, StackOf DEF Inv
<1>4. raw'[1] = Top[1] + 1 /\ raw'[2] = Top[2] /\ raw' \in Nat \X Nat /\ raw'[1] <= raw'[2]
  BY <1>1, <1>3
<1>5. Typed'
  BY <1>1, <1>2, <1>4 DEF Typed
<1>6. RawInv'
  BY <1>1, <1>2, <1>3, <1>4 DEF RawInv
<1>7. ScanInv'
  BY <1>1 DEF ScanInv
<1>8. txs # <<>> => /\ \A k \in DOMAIN stack' : txs[Len(txs)].raw[2] <= stack'[k][3]
                    /\ txs[Len(txs)].raw[2] < raw'[1]
  <2>. SUFFICES ASSUME txs # <<>>
                PROVE  /\ \A k \in DOMAIN stack' : txs[Len(txs)].raw[2] <= stack'[k][3]
                       /\ txs[Len(txs)].raw[2] < raw'[1]
    OBVIOUS
  <2>1. \A k \in DOMAIN stack : txs[Len(txs)].raw[2] <= stack[k][3]
    BY DEF Inv, TxsInv
  <2>2. txs[Len(txs)].raw[2] \in Nat /\ txs[Len(txs)].raw[2] <= Top[1]
    BY <1>1, <1>3, <2>1, LastOf
  <2>3. txs[Len(txs)].raw[2] < raw'[1]
    BY <1>3, <1>4, <2>2
  <2>. QED
    BY <1>2, <2>1, <2>3
<1>9. TxsInv'
  BY <1>1, <1>8, SameTxs DEF Inv, TxsInv
<1>. QED
  BY <1>2, <1>5, <1>6, <1>7, <1>9 DEF Inv

\* A transaction is decoded.
LEMMA PushStep ==
  ASSUME Typed, Inv, pc \in {"decode", "scan", "model"},
         NEW tx \in Tx, tx.raw = raw, TxFits(tx), Push(tx), UNCHANGED <<i, end, fields>>
  PROVE  Typed' /\ Inv'
<1>1. pc' = "walk" /\ txs' = Append(txs, tx) /\ UNCHANGED <<payload, packed, stack, raw>>
  BY DEF Push
<1>. DEFINE n == Len(txs)
<1>2. txs \in Seq(Tx) /\ n \in Nat /\ DOMAIN txs = 1 .. n
  BY DEF Typed
<1>3. /\ txs' \in Seq(Tx) /\ Len(txs') = n + 1 /\ DOMAIN txs' = 1 .. n + 1 /\ txs'[n + 1] = tx
      /\ \A k \in 1 .. n : txs'[k] = txs[k]
  BY <1>1, <1>2, AppendProperties
<1>4. Typed'
  BY <1>1, <1>3 DEF Typed
<1>5. StackInv' /\ RawInv' /\ ScanInv'
  BY <1>1 DEF Inv, StackInv, RawInv, ScanInv
<1>. HIDE DEF n
<1>6. \A k \in 1 .. n + 1 : k \in 1 .. n \/ k = n + 1
  BY <1>2
<1>7. TxsFit'
  <2>1. \A k \in 1 .. n + 1 : TxFits(txs'[k])
    BY <1>2, <1>3, <1>6 DEF Inv, TxsInv, TxsFit, TxsAscend
  <2>2. \A k \in 1 .. n + 1 : TxFits(txs[k])'
    <3>. SUFFICES ASSUME NEW k \in 1 .. n + 1 PROVE TxFits(txs[k])'
      OBVIOUS
    <3>1. TxFits(txs'[k])
      BY <2>1
    <3>. QED
      BY <1>1, <3>1 DEF TxFits, FieldsFit, Raw
  <2>. QED
    BY <1>3, <2>2 DEF TxsFit
<1>8. \A k \in DOMAIN txs' : k > 1 => txs'[k - 1].raw[2] < txs'[k].raw[1]
  <2>. SUFFICES ASSUME NEW k \in 1 .. n + 1, k > 1 PROVE txs'[k - 1].raw[2] < txs'[k].raw[1]
    BY <1>3
  <2>1. k - 1 \in 1 .. n
    BY <1>2
  <2>2. CASE k \in 1 .. n
    BY <1>2, <1>3, <2>1, <2>2 DEF Inv, TxsInv, TxsFit, TxsAscend
  <2>3. CASE k = n + 1
    <3>1. k - 1 = n /\ txs'[k - 1] = txs[n] /\ txs'[k] = tx /\ txs # <<>>
      BY <1>2, <1>3, <2>1, <2>3 DEF n
    <3>2. txs[n].raw[2] < raw[1]
      BY <3>1 DEF Inv, TxsInv, n
    <3>. QED
      BY <3>1, <3>2
  <2>. QED
    BY <1>6, <2>2, <2>3
<1>9. \A k \in DOMAIN stack' : txs'[Len(txs')].raw[2] <= stack'[k][3]
  BY <1>1, <1>3 DEF Inv, RawInv
<1>10. TxsInv'
  <2>1. TxsAscend'
    BY <1>8 DEF TxsAscend
  <2>2. pc' \notin {"decode", "scan", "model"}
    BY <1>1
  <2>. QED
    BY <1>7, <1>9, <2>1, <2>2 DEF TxsInv
<1>. QED
  BY <1>4, <1>5, <1>10 DEF Inv

LEMMA OpaqueStep ==
  ASSUME Typed, Inv, DecodeOpaque \/ ScanMalformed
  PROVE  Typed' /\ Inv'
<1>. DEFINE tx == Opaque(raw, TxType(RawBytes))
<1>1. /\ pc \in {"decode", "scan", "model"} /\ Push(tx) /\ UNCHANGED <<i, end, fields>>
      /\ pc = "scan" \/ RawBytes # <<>>
  BY DEF DecodeOpaque, ScanMalformed
<1>2. RawBytes # <<>>
  BY <1>1, RawOf DEF Inv, RawInv
<1>3. tx \in Tx /\ tx.raw = raw /\ TxFits(tx)
  BY <1>2, OpaqueFits DEF Inv
<1>. HIDE DEF tx
<1>. QED
  BY <1>1, <1>3, PushStep

LEMMA ModelStep == ASSUME Typed, Inv, Model PROVE Typed' /\ Inv'
<1>. DEFINE tx == Modeled(raw, Buf, TxType(RawBytes), fields)
<1>1. pc = "model" /\ Push(tx) /\ UNCHANGED <<i, end, fields>>
  BY DEF Model
<1>2. tx \in Tx /\ tx.raw = raw /\ TxFits(tx)
  BY <1>1, ModeledFits DEF Inv
<1>. HIDE DEF tx
<1>. QED
  BY <1>1, <1>2, PushStep

LEMMA DecodeListStep == ASSUME Typed, Inv, DecodeList PROVE Typed' /\ Inv'
<1>1. /\ pc = "decode" /\ pc' = "scan" /\ RawBytes # <<>> /\ Layout(TxType(RawBytes)) # <<>> /\ IsList(Buf)
      /\ i' = Header(Buf, 0).from /\ end' = Header(Buf, 0).to /\ fields' = <<>>
      /\ UNCHANGED <<payload, packed, stack, raw, txs>>
  BY DEF DecodeList, Scannable
<1>2. RawBytes' = RawBytes /\ Buf' = Buf
  BY <1>1 DEF RawBytes, Buf
<1>3. i' \in Nat /\ end' \in Nat /\ i' < USIZE /\ end' <= Len(Buf)
  BY <1>1, ListOf DEF Inv
<1>4. Typed'
  BY <1>1, <1>3 DEF Typed
<1>5. StackInv'
  BY <1>1 DEF Inv, StackInv
<1>6. RawInv'
  BY <1>1, <1>2, RawOf DEF Inv, RawInv
<1>7. Contiguous(fields, Header(Buf, 0).from, i)'
  BY <1>1, <1>2 DEF Contiguous
<1>8. DOMAIN fields' = {}
  BY <1>1
<1>9. ScanInv'
  BY <1>1, <1>2, <1>3, <1>7, <1>8 DEF ScanInv
<1>10. TxsInv'
  BY <1>1, SameTxs DEF Inv, TxsInv
<1>. QED
  BY <1>4, <1>5, <1>6, <1>9, <1>10 DEF Inv

LEMMA ScanItemStep == ASSUME Typed, Inv, ScanItem PROVE Typed' /\ Inv'
<1>. DEFINE new == <<i, Header(Buf, i).from, Header(Buf, i).to>>
            n == Len(fields)
<1>1. /\ pc = "scan" /\ i < end /\ Header(Buf, i).ok
      /\ fields' = Append(fields, new) /\ i' = Header(Buf, i).to
      /\ UNCHANGED <<payload, packed, pc, stack, raw, end, txs>>
  BY DEF ScanItem
<1>2. RawBytes' = RawBytes /\ Buf' = Buf
  BY <1>1 DEF RawBytes, Buf
<1>3. /\ i \in Nat /\ new \in Span /\ i' \in Nat /\ new[1] = i /\ i <= new[2] /\ new[2] <= new[3] /\ new[3] = i'
      /\ i <= i' /\ i' < USIZE
  <2>1. /\ Header(Buf, i).from \in Nat /\ Header(Buf, i).to \in Nat
        /\ i <= Header(Buf, i).from /\ Header(Buf, i).from <= Header(Buf, i).to
        /\ i < Header(Buf, i).to /\ Header(Buf, i).to < USIZE
    BY <1>1, ItemOf DEF Inv
  <2>2. i \in Nat
    BY DEF Typed
  <2>. QED
    BY <1>1, <2>1, <2>2 DEF Span
<1>. HIDE DEF new
<1>4. /\ fields' \in Seq(Span) /\ n \in Nat /\ DOMAIN fields = 1 .. n
      /\ DOMAIN fields' = 1 .. n + 1 /\ Len(fields') = n + 1 /\ fields'[n + 1] = new
      /\ \A k \in 1 .. n : fields'[k] = fields[k] /\ fields[k] \in Span
  BY <1>1, <1>3, AppendProperties DEF Typed
<1>5. Typed'
  BY <1>1, <1>3, <1>4 DEF Typed
<1>6. StackInv' /\ RawInv'
  BY <1>1, <1>2 DEF Inv, StackInv, RawInv
<1>7. TxsInv'
  BY <1>1, SameTxs DEF Inv, TxsInv
<1>8. /\ \A k \in 1 .. n : fields[k][2] <= fields[k][3] /\ fields[k][3] <= i
      /\ Contiguous(fields, Header(Buf, 0).from, i) /\ end <= Len(Buf)
  BY <1>1, <1>4 DEF Inv, ScanInv
<1>n. (fields = <<>> <=> n = 0) /\ fields' # <<>>
  <2>1. fields = <<>> <=> n = 0
    BY DEF Typed
  <2>2. n + 1 # 0
    BY <1>4
  <2>3. Len(<<>>) = 0
    OBVIOUS
  <2>. HIDE DEF n
  <2>. QED
    BY <1>4, <2>1, <2>2, <2>3
<1>. HIDE DEF n
<1>9. \A k \in 1 .. n + 1 : k \in 1 .. n \/ k = n + 1
  BY <1>4
<1>10. \A k \in 1 .. n + 1 : fields'[k][2] <= fields'[k][3] /\ fields'[k][3] <= i'
  <2>1. \A k \in 1 .. n : fields'[k][2] <= fields'[k][3] /\ fields'[k][3] <= i'
    <3>. SUFFICES ASSUME NEW k \in 1 .. n PROVE fields'[k][2] <= fields'[k][3] /\ fields'[k][3] <= i'
      OBVIOUS
    <3>1. fields[k][3] \in Nat /\ fields[k][3] <= i /\ fields[k][2] <= fields[k][3] /\ fields'[k] = fields[k]
      BY <1>4, <1>8 DEF Span
    <3>. QED
      BY <1>3, <3>1
  <2>2. fields'[n + 1][2] <= fields'[n + 1][3] /\ fields'[n + 1][3] <= i'
    BY <1>3, <1>4
  <2>. QED
    BY <1>9, <2>1, <2>2
<1>11. Contiguous(fields, Header(Buf, 0).from, i)'
  <2>. DEFINE from == Header(Buf, 0).from
  <2>. HIDE DEF from
  <2>1. /\ \A k \in 1 .. n : /\ fields[k][1] <= fields[k][2] /\ fields[k][2] <= fields[k][3]
                             /\ fields[k][1] = IF k = 1 THEN from ELSE fields[k - 1][3]
        /\ i = IF n = 0 THEN from ELSE fields[n][3]
    BY <1>4, <1>8, <1>n DEF Contiguous, from, n
  <2>2. ASSUME NEW k \in 1 .. n + 1
        PROVE  /\ fields'[k][1] <= fields'[k][2] /\ fields'[k][2] <= fields'[k][3]
               /\ fields'[k][1] = IF k = 1 THEN from ELSE fields'[k - 1][3]
    <3>1. CASE k \in 1 .. n
      <4>1. k # 1 => k - 1 \in 1 .. n
        BY <1>4, <3>1
      <4>. QED
        BY <1>4, <2>1, <3>1, <4>1
    <3>2. CASE k = n + 1
      <4>1. fields'[k] = new /\ (k = 1 <=> n = 0) /\ k - 1 = n
        BY <1>4, <3>2
      <4>2. n # 0 => fields'[n] = fields[n]
        BY <1>4
      <4>. QED
        BY <1>3, <2>1, <4>1, <4>2
    <3>. QED
      BY <1>9, <3>1, <3>2
  <2>3. Contiguous(fields', from, i')
    BY <1>3, <1>4, <1>n, <2>2 DEF Contiguous
  <2>. QED
    BY <1>2, <2>3 DEF from, Contiguous
<1>12. ScanInv'
  BY <1>1, <1>2, <1>3, <1>4, <1>8, <1>10, <1>11 DEF ScanInv
<1>. QED
  BY <1>5, <1>6, <1>7, <1>12 DEF Inv

LEMMA MoveStep ==
  ASSUME Typed, Inv, WalkDone \/ DecodeEmpty \/ ScanDone \/ UNCHANGED codecVars
  PROVE  Typed' /\ Inv'
<1>1. /\ UNCHANGED <<payload, packed, stack, raw, i, end, fields, txs>>
      /\ \/ pc' = "done" \/ pc' = "walk" \/ pc' = pc
         \/ pc = "scan" /\ pc' = "model" /\ ~(i > end)
  BY DEF WalkDone, DecodeEmpty, ScanDone, Overshot, codecVars
<1>2. RawBytes' = RawBytes /\ Buf' = Buf
  BY <1>1 DEF RawBytes, Buf
<1>3. Typed'
  BY <1>1 DEF Typed
<1>4. StackInv'
  BY <1>1 DEF Inv, StackInv
<1>5. RawInv'
  BY <1>1, <1>2 DEF Inv, RawInv
<1>6. ~(i > end) => i <= end
  BY DEF Typed
<1>7. ScanInv'
  BY <1>1, <1>2, <1>6 DEF Inv, ScanInv, Contiguous
<1>8. TxsInv'
  BY <1>1, SameTxs DEF Inv, TxsInv
<1>. QED
  BY <1>3, <1>4, <1>5, <1>7, <1>8 DEF Inv

LEMMA CodecStep == Typed /\ Inv /\ [CodecNext]_codecVars => Typed' /\ Inv'
<1>. SUFFICES ASSUME Typed, Inv, [CodecNext]_codecVars PROVE Typed' /\ Inv'
  OBVIOUS
<1>1. CASE WalkOther
  BY <1>1, PopStep DEF WalkOther
<1>. QED
  BY <1>1, WalkSignedStep, WalkBatchStep, BatchPartStep, OpaqueStep, ModelStep, DecodeListStep,
     ScanItemStep, MoveStep DEF CodecNext

LEMMA InvSuffices == Typed /\ Inv => SlicesInBounds
<1>. SUFFICES ASSUME Typed, Inv PROVE SlicesInBounds
  OBVIOUS
<1>1. \A k \in DOMAIN stack : k > 1 => k - 1 \in DOMAIN stack /\ k - 1 < k
  BY DEF Typed
<1>2. /\ \A k \in DOMAIN stack :
           /\ stack[k][1] <= stack[k][3] /\ stack[k][3] <= stack[k][2] /\ stack[k][2] <= Len(payload)
           /\ k > 1 => stack[k - 1][1] < stack[k][1] /\ stack[k][2] <= stack[k - 1][3]
  BY <1>1 DEF Inv, StackInv
<1>. QED
  BY <1>2 DEF Inv, RawInv, ScanInv, TxsInv, TxsFit, TxsAscend, TxFits, SlicesInBounds

(***************************************************************************)
(* No slice of the decoder leaves its buffer and no length wraps, whatever *)
(* the bytes of the l2Msg say and however deep its batches nest; what is   *)
(* taken from a transaction fits where it goes (codec.rs).                 *)
(***************************************************************************)
THEOREM SlicesCorrect == CodecSpec => []SlicesInBounds
BY InvInit, CodecStep, InvSuffices, PTL DEF CodecSpec

-----------------------------------------------------------------------------
(* Items *)

\* The bytes of a slice.
LEMMA SliceAt ==
  ASSUME NEW buf \in Seq(Byte), NEW from \in Nat, NEW to \in Nat, from <= to, to <= Len(buf)
  PROVE  \A k \in 1 .. to - from : Slice(buf, from, to)[k] = buf[from + k]
<1>1. from + 1 \in Int /\ to \in Int
  OBVIOUS
<1>2. \A k \in from + 1 .. to : buf[k] \in Byte
  <2>1. \A k \in 1 .. Len(buf) : buf[k] \in Byte
    OBVIOUS
  <2>2. Len(buf) \in Nat
    OBVIOUS
  <2>3. \A k \in from + 1 .. to : k \in 1 .. Len(buf)
    BY <2>2
  <2>. QED
    BY <2>1, <2>3
<1>. DEFINE q == SubSeq(buf, from + 1, to)
<1>3. \A k \in 1 .. to - (from + 1) + 1 : q[k] = buf[from + 1 + k - 1]
  BY ONLY <1>1, <1>2, SubSeqProperties, SMTT(20)
<1>. HIDE DEF q
<1>4. ASSUME NEW k \in 1 .. to - from PROVE q[k] = buf[from + k]
  <2>1. k \in 1 .. to - (from + 1) + 1 /\ from + 1 + k - 1 = from + k
    OBVIOUS
  <2>. QED
    BY <1>3, <2>1
<1>. QED
  BY <1>4 DEF q, Slice

LEMMA SliceOfSlice ==
  ASSUME NEW buf \in Seq(Byte), NEW h \in Nat, NEW e \in Nat, h <= e, e <= Len(buf),
         NEW a \in Nat, NEW b \in Nat, a <= b, b <= e - h
  PROVE  Slice(Slice(buf, h, e), a, b) = Slice(buf, h + a, h + b)
<1>. DEFINE outer == Slice(buf, h, e)
            inner == Slice(outer, a, b)
            x == h + a
            y == h + b
            direct == Slice(buf, x, y)
<1>1. outer \in Seq(Byte) /\ Len(outer) = e - h /\ \A k \in 1 .. e - h : outer[k] = buf[h + k]
  BY SliceOf, SliceAt
<1>2. x \in Nat /\ y \in Nat /\ x <= y /\ y <= Len(buf) /\ y - x = b - a
  OBVIOUS
<1>. HIDE DEF x, y
<1>3. direct \in Seq(Byte) /\ Len(direct) = y - x /\ \A k \in 1 .. y - x : direct[k] = buf[x + k]
  BY <1>2, SliceOf, SliceAt
<1>. HIDE DEF outer
<1>4. inner \in Seq(Byte) /\ Len(inner) = b - a /\ \A k \in 1 .. b - a : inner[k] = outer[a + k]
  BY <1>1, SliceOf, SliceAt
<1>. HIDE DEF inner, direct
<1>5. Len(inner) = Len(direct) /\ Len(inner) = b - a
  BY <1>2, <1>3, <1>4
<1>6. ASSUME NEW k \in 1 .. Len(inner) PROVE inner[k] = direct[k]
  <2>1. k \in 1 .. b - a /\ k \in 1 .. y - x
    BY <1>2, <1>5
  <2>2. a + k \in 1 .. e - h /\ h + (a + k) = x + k
    BY <2>1 DEF x
  <2>. QED
    BY <1>1, <1>3, <1>4, <2>1, <2>2
<1>7. inner = direct
  BY <1>3, <1>4, <1>5, <1>6, SeqEqual
<1>. QED
  BY <1>7 DEF inner, direct, outer, x, y

\* A header tells exactly where the item that starts there ends, if there is one.
LEMMA ItemAt ==
  ASSUME NEW buf \in Seq(Byte), Len(buf) < USIZE,
         NEW at \in Nat, NEW to \in Nat, at < to, to <= Len(buf)
  PROVE  IsItem(Slice(buf, at, to)) <=> Header(buf, at).ok /\ Header(buf, at).to = to
<1>. DEFINE q == Slice(buf, at, to)
            c == buf[at + 1]
            short == IF c < LIST THEN c - STR ELSE c - LIST
            s == at + 2 + short - SHORT
            long == Number(Slice(buf, at + 1, s))
<1>1. q \in Seq(Byte) /\ Len(q) = to - at /\ q[1] = c
  <2>1. 1 \in 1 .. to - at /\ at <= to
    OBVIOUS
  <2>. QED
    BY <2>1, SliceOf, SliceAt
<1>2. c \in Nat /\ c < BASE
  <2>1. Len(buf) \in Nat /\ \A k \in 1 .. Len(buf) : buf[k] \in Byte
    OBVIOUS
  <2>2. at + 1 \in 1 .. Len(buf)
    BY <2>1
  <2>. QED
    BY <2>1, <2>2, Widths DEF Byte
<1>3. Header(buf, at) = IF c < SINGLE THEN [ok |-> TRUE, from |-> at, to |-> at + 1]
      ELSE IF short < SHORT THEN [ok |-> TRUE, from |-> at + 1, to |-> at + 1 + short]
      ELSE IF s <= Len(buf) /\ s + long < USIZE THEN [ok |-> TRUE, from |-> s, to |-> s + long]
      ELSE [ok |-> FALSE]
  BY DEF Header
<1>. HIDE DEF c
<1>4. short \in Int
  BY <1>2, Widths
<1>5. ~(c < SINGLE) => short \in 0 .. SHORT + LONG - 1 /\ (c = STR + short \/ c = LIST + short)
  BY <1>2, Widths DEF STR, LIST, BASE
<1>6. \A m \in 0 .. SHORT + LONG - 1 : c = STR + m \/ c = LIST + m => ~(c < SINGLE) /\ short = m
  BY <1>2, Widths DEF STR, LIST, BASE
<1>. HIDE DEF short, q
<1>. DEFINE k == short - SHORT + 1
<1>7. IsItem(q) <=>
        \/ Len(q) = 1 /\ c < SINGLE
        \/ ~(c < SINGLE) /\ short < SHORT /\ Len(q) = 1 + short
        \/ ~(c < SINGLE) /\ ~(short < SHORT) /\ Len(q) > k /\ Len(q) = 1 + k + Number(SubSeq(q, 2, 1 + k))
  <2>1. /\ \A n \in 0 .. SHORT - 1 : n \in 0 .. SHORT + LONG - 1 /\ n < SHORT
        /\ \A n \in 1 .. LONG : /\ SHORT - 1 + n \in 0 .. SHORT + LONG - 1
                                /\ ~(SHORT - 1 + n < SHORT)
                                /\ SHORT - 1 + n - SHORT + 1 = n
                                /\ STR + SHORT - 1 + n = STR + (SHORT - 1 + n)
                                /\ LIST + SHORT - 1 + n = LIST + (SHORT - 1 + n)
    BY Widths
  <2>2. ASSUME IsItem(q) PROVE \/ Len(q) = 1 /\ c < SINGLE
                               \/ ~(c < SINGLE) /\ short < SHORT /\ Len(q) = 1 + short
                               \/ ~(c < SINGLE) /\ ~(short < SHORT) /\ Len(q) > k /\ Len(q) = 1 + k + Number(SubSeq(q, 2, 1 + k))
    <3>1. CASE Len(q) = 1 /\ c < SINGLE
      BY <3>1
    <3>2. CASE \E offset \in {STR, LIST} : \E n \in 0 .. SHORT - 1 : c = offset + n /\ Len(q) = 1 + n
      <4>1. PICK n \in 0 .. SHORT - 1 : (c = STR + n \/ c = LIST + n) /\ Len(q) = 1 + n
        BY <3>2
      <4>2. ~(c < SINGLE) /\ short = n /\ n < SHORT
        BY <1>6, <2>1, <4>1
      <4>. QED
        BY <4>1, <4>2
    <3>3. CASE \E offset \in {STR, LIST} : \E n \in 1 .. LONG :
                 c = offset + SHORT - 1 + n /\ Len(q) > n /\ Len(q) = 1 + n + Number(SubSeq(q, 2, 1 + n))
      <4>1. PICK n \in 1 .. LONG : /\ c = STR + SHORT - 1 + n \/ c = LIST + SHORT - 1 + n
                                   /\ Len(q) > n /\ Len(q) = 1 + n + Number(SubSeq(q, 2, 1 + n))
        BY <3>3
      <4>2. ~(c < SINGLE) /\ short = SHORT - 1 + n
        BY <1>6, <2>1, <4>1
      <4>3. ~(short < SHORT) /\ k = n
        BY <2>1, <4>2, Widths
      <4>. QED
        BY <4>1, <4>2, <4>3
    <3>. QED
      BY <1>1, <2>2, <3>1, <3>2, <3>3 DEF IsItem
  <2>3. ASSUME Len(q) = 1 /\ c < SINGLE PROVE IsItem(q)
    BY <1>1, <2>3 DEF IsItem
  <2>4. ASSUME ~(c < SINGLE), short < SHORT, Len(q) = 1 + short PROVE IsItem(q)
    <3>1. short \in 0 .. SHORT - 1 /\ (c = STR + short \/ c = LIST + short)
      BY <1>5, <2>4, Widths
    <3>. QED
      BY <1>1, <2>4, <3>1 DEF IsItem
  <2>5. ASSUME ~(c < SINGLE), ~(short < SHORT), Len(q) > k, Len(q) = 1 + k + Number(SubSeq(q, 2, 1 + k))
        PROVE  IsItem(q)
    <3>1. short \in Int /\ short <= SHORT + LONG - 1 /\ (c = STR + short \/ c = LIST + short)
      BY <1>5, <2>5, Widths
    <3>2. k \in 1 .. LONG
      BY <2>5, <3>1, Widths
    <3>3. STR + SHORT - 1 + k = STR + short /\ LIST + SHORT - 1 + k = LIST + short
      BY <3>1, Widths
    <3>. HIDE DEF k
    <3>. QED
      BY <1>1, <2>5, <3>1, <3>2, <3>3 DEF IsItem
  <2>. QED
    BY <2>2, <2>3, <2>4, <2>5
<1>8. CASE c < SINGLE
  <2>1. Header(buf, at).ok /\ Header(buf, at).to = at + 1
    BY <1>3, <1>8
  <2>2. IsItem(q) <=> Len(q) = 1
    BY <1>7, <1>8
  <2>. QED
    BY <1>1, <2>1, <2>2 DEF q
<1>9. CASE ~(c < SINGLE) /\ short < SHORT
  <2>1. Header(buf, at).ok /\ Header(buf, at).to = at + 1 + short
    BY <1>3, <1>9
  <2>2. IsItem(q) <=> Len(q) = 1 + short
    BY <1>7, <1>9
  <2>. QED
    BY <1>1, <1>4, <2>1, <2>2 DEF q
<1>10. CASE ~(c < SINGLE) /\ ~(short < SHORT)
  <2>1. k \in Nat /\ k >= 1 /\ s = at + 1 + k /\ s \in Nat
    BY <1>4, <1>10, Widths
  <2>2. IsItem(q) <=> Len(q) > k /\ Len(q) = 1 + k + Number(SubSeq(q, 2, 1 + k))
    BY <1>7, <1>10
  <2>3. Header(buf, at) = IF s <= Len(buf) /\ s + long < USIZE THEN [ok |-> TRUE, from |-> s, to |-> s + long]
                          ELSE [ok |-> FALSE]
    BY <1>3, <1>10
  <2>. HIDE DEF k, s
  <2>4. ASSUME s <= to PROVE SubSeq(q, 2, 1 + k) = Slice(buf, at + 1, s)
    <3>1. 1 \in Nat /\ 1 + k \in Nat /\ 1 <= 1 + k /\ 1 + k <= to - at /\ at <= to
      BY <2>1, <2>4
    <3>2. Slice(Slice(buf, at, to), 1, 1 + k) = Slice(buf, at + 1, at + (1 + k))
      BY <3>1, SliceOfSlice
    <3>3. at + (1 + k) = s
      BY <2>1
    <3>4. Slice(q, 1, 1 + k) = SubSeq(q, 2, 1 + k)
      BY DEF Slice
    <3>. QED
      BY <3>2, <3>3, <3>4 DEF q
  <2>5. ASSUME s <= Len(buf) PROVE long \in Nat
    <3>1. at + 1 \in Nat /\ at + 1 <= s
      BY <2>1
    <3>2. Slice(buf, at + 1, s) \in Seq(Byte)
      BY <2>1, <2>5, <3>1, SliceOf
    <3>. QED
      BY <3>2, NumberIsNat
  <2>6. ASSUME IsItem(q) PROVE Header(buf, at).ok /\ Header(buf, at).to = to
    <3>1. s <= to /\ s <= Len(buf)
      BY <1>1, <2>1, <2>2, <2>6
    <3>2. Len(q) = 1 + k + long /\ long \in Nat
      BY <2>2, <2>4, <2>5, <2>6, <3>1
    <3>. HIDE DEF long
    <3>3. s + long = to /\ to < USIZE
      <4>1. Len(buf) \in Nat /\ USIZE \in Nat
        BY Widths
      <4>. QED
        BY <1>1, <2>1, <3>2, <4>1
    <3>. QED
      BY <2>3, <3>1, <3>3
  <2>7. ASSUME Header(buf, at).ok, Header(buf, at).to = to PROVE IsItem(q)
    <3>1. s <= Len(buf) /\ s + long = to
      BY <2>3, <2>7
    <3>2. long \in Nat
      BY <2>5, <3>1
    <3>. HIDE DEF long
    <3>3. s <= to
      BY <2>1, <3>1, <3>2
    <3>4. SubSeq(q, 2, 1 + k) = Slice(buf, at + 1, s)
      BY <2>4, <3>3
    <3>5. Len(q) > k /\ Len(q) = 1 + k + long
      BY <1>1, <2>1, <3>1, <3>2
    <3>. QED
      BY <2>2, <3>4, <3>5 DEF long
  <2>. QED
    BY <2>6, <2>7 DEF q
<1>. QED
  BY <1>8, <1>9, <1>10

\* from says of each position whether the bytes from there on can be cut into items.
Rows(from, bytes) ==
  from = [k \in 0 .. Len(bytes) |->
            k = Len(bytes) \/ \E j \in k + 1 .. Len(bytes) : IsItem(Slice(bytes, k, j)) /\ from[j]]

LEMMA ItemsRows ==
  ASSUME NEW bytes
  PROVE  IsItems(bytes) <=> (CHOOSE from : Rows(from, bytes))[0]
BY DEF IsItems, Rows

\* There is such a function: that of the least set with the end in it and with every
\* position from which an item leads into it.
LEMMA RowsExist ==
  ASSUME NEW bytes, Len(bytes) \in Nat
  PROVE  \E from : Rows(from, bytes)
<1>. DEFINE n == Len(bytes)
            Item(k, j) == IsItem(Slice(bytes, k, j))
            Closed(S) == n \in S /\ \A k \in 0 .. n : \A j \in k + 1 .. n : Item(k, j) /\ j \in S => k \in S
            Smallest == {k \in 0 .. n : \A S \in SUBSET (0 .. n) : Closed(S) => k \in S}
            Step == {k \in 0 .. n : k = n \/ \E j \in k + 1 .. n : Item(k, j) /\ j \in Smallest}
<1>1. Step \subseteq Smallest
  <2>. SUFFICES ASSUME NEW k \in Step, NEW S \in SUBSET (0 .. n), Closed(S) PROVE k \in S
    OBVIOUS
  <2>. HIDE DEF Item
  <2>1. CASE k = n
    BY <2>1
  <2>2. CASE k # n
    <3>1. PICK j \in k + 1 .. n : Item(k, j) /\ j \in Smallest
      BY <2>2
    <3>2. j \in S
      BY <3>1
    <3>. QED
      BY <3>1, <3>2
  <2>. QED
    BY <2>1, <2>2
<1>2. Closed(Step)
  <2>1. n \in Step
    OBVIOUS
  <2>2. ASSUME NEW k \in 0 .. n, NEW j \in k + 1 .. n, Item(k, j), j \in Step PROVE k \in Step
    <3>1. j \in Smallest
      BY <1>1, <2>2
    <3>. HIDE DEF Item, Smallest
    <3>. QED
      BY <2>2, <3>1
  <2>. QED
    BY <2>1, <2>2
<1>3. Step = Smallest
  <2>1. Step \in SUBSET (0 .. n)
    OBVIOUS
  <2>2. Smallest \subseteq Step
    <3>. HIDE DEF Step, Closed
    <3>. QED
      BY <1>2, <2>1
  <2>. QED
    BY <1>1, <2>2
<1>. DEFINE from == [k \in 0 .. n |-> k \in Smallest]
<1>4. \A k \in 0 .. n : from[k] = (k = n \/ \E j \in k + 1 .. n : Item(k, j) /\ from[j])
  <2>. HIDE DEF Item, Smallest, Closed
  <2>1. ASSUME NEW k \in 0 .. n PROVE from[k] = (k = n \/ \E j \in k + 1 .. n : Item(k, j) /\ from[j])
    <3>1. \A j \in k + 1 .. n : j \in 0 .. n /\ from[j] = (j \in Smallest)
      OBVIOUS
    <3>2. (k \in Smallest) <=> (k = n \/ \E j \in k + 1 .. n : Item(k, j) /\ j \in Smallest)
      BY <1>3
    <3>3. from[k] = (k \in Smallest)
      OBVIOUS
    <3>. HIDE DEF from
    <3>4. (\E j \in k + 1 .. n : Item(k, j) /\ from[j]) <=> (\E j \in k + 1 .. n : Item(k, j) /\ j \in Smallest)
      BY <3>1
    <3>5. (k \in Smallest) = (k = n \/ \E j \in k + 1 .. n : Item(k, j) /\ from[j])
      BY <3>2, <3>4
    <3>. QED
      BY <3>3, <3>5
  <2>. QED
    BY <2>1
<1>5. Rows(from, bytes)
  <2>. HIDE DEF Smallest
  <2>. QED
    BY <1>4 DEF Rows
<1>. QED
  BY <1>5

\* The positions from which the bytes can be cut into items.
Heads(bytes) == {k \in 0 .. Len(bytes) : (CHOOSE from : Rows(from, bytes))[k]}

LEMMA HeadsOf ==
  ASSUME NEW bytes, Len(bytes) \in Nat
  PROVE  /\ IsItems(bytes) <=> 0 \in Heads(bytes)
         /\ Len(bytes) \in Heads(bytes)
         /\ \A k \in 0 .. Len(bytes) - 1 :
              k \in Heads(bytes)
                <=> \E j \in k + 1 .. Len(bytes) : IsItem(Slice(bytes, k, j)) /\ j \in Heads(bytes)
<1>. DEFINE n == Len(bytes)
            from == CHOOSE f : Rows(f, bytes)
<1>1. Rows(from, bytes)
  BY RowsExist
<1>. HIDE DEF from
<1>2. \A k \in 0 .. n : from[k] = (k = n \/ \E j \in k + 1 .. n : IsItem(Slice(bytes, k, j)) /\ from[j])
  BY <1>1 DEF Rows
<1>3. Heads(bytes) = {k \in 0 .. n : from[k]}
  BY DEF Heads, from
<1>4. IsItems(bytes) <=> from[0]
  BY ItemsRows DEF from
<1>5. IsItems(bytes) <=> 0 \in Heads(bytes)
  BY <1>3, <1>4
<1>6. n \in Heads(bytes)
  <2>1. n \in 0 .. n
    OBVIOUS
  <2>2. from[n] = TRUE
    BY <1>2, <2>1
  <2>. QED
    BY <1>3, <2>1, <2>2
<1>7. ASSUME NEW k \in 0 .. n - 1
      PROVE  k \in Heads(bytes) <=> \E j \in k + 1 .. n : IsItem(Slice(bytes, k, j)) /\ j \in Heads(bytes)
  <2>1. k \in 0 .. n /\ k # n /\ \A j \in k + 1 .. n : j \in 0 .. n
    OBVIOUS
  <2>2. k \in Heads(bytes) <=> from[k]
    BY <1>3, <2>1
  <2>3. \A j \in k + 1 .. n : j \in Heads(bytes) <=> from[j]
    BY <1>3, <2>1
  <2>4. from[k] = (\E j \in k + 1 .. n : IsItem(Slice(bytes, k, j)) /\ from[j])
    BY <1>2, <2>1
  <2>. QED
    BY <2>2, <2>3, <2>4
<1>. QED
  BY <1>5, <1>6, <1>7

-----------------------------------------------------------------------------
(* The scan of a list *)

\* Where the content of the list being scanned starts, and what it is.
ContentStart == Header(Buf, 0).from
Content == Slice(Buf, ContentStart, end)

\* The content can be cut into items exactly if what is left to scan can, and what
\* was scanned are items.  Past the end of the list it cannot.
CutInv ==
  pc = "scan" =>
    /\ ContentStart \in Nat /\ ContentStart <= end /\ ContentStart <= i
    /\ i <= end => /\ IsItems(Content) <=> i - ContentStart \in Heads(Content)
                   /\ \A k \in DOMAIN fields : IsItem(Slice(Buf, fields[k][1], fields[k][3]))
    /\ i > end => ~IsItems(Content)

LEMMA ContentOf ==
  ASSUME Typed, Inv, CutInv, pc = "scan"
  PROVE  /\ Buf \in Seq(Byte) /\ Len(Buf) + SHORT < USIZE /\ Len(Buf) < USIZE /\ Len(Buf) \in Nat
         /\ i \in Nat /\ end \in Nat /\ end <= Len(Buf)
         /\ ContentStart \in Nat /\ ContentStart <= end /\ ContentStart <= i
         /\ Content \in Seq(Byte) /\ Len(Content) = end - ContentStart /\ Len(Content) \in Nat
<1>1. Buf \in Seq(Byte) /\ Len(Buf) + SHORT < USIZE
  BY RawOf DEF Inv, RawInv
<1>2. Len(Buf) \in Nat /\ Len(Buf) < USIZE
  BY <1>1, Widths
<1>3. i \in Nat /\ end \in Nat /\ end <= Len(Buf)
  BY DEF Typed, Inv, ScanInv
<1>4. ContentStart \in Nat /\ ContentStart <= end /\ ContentStart <= i
  BY DEF CutInv
<1>5. Content \in Seq(Byte) /\ Len(Content) = end - ContentStart
  BY <1>1, <1>3, <1>4, SliceOf DEF Content
<1>. QED
  BY <1>1, <1>2, <1>3, <1>4, <1>5

\* The content can be cut exactly if the next header is whole, its item ends in the
\* list, and what comes after it can be cut.
LEMMA NextItem ==
  ASSUME Typed, Inv, CutInv, pc = "scan", i < end
  PROVE  /\ IsItems(Content)
              <=> /\ Header(Buf, i).ok /\ Header(Buf, i).to <= end
                  /\ Header(Buf, i).to - ContentStart \in Heads(Content)
         /\ Header(Buf, i).ok /\ Header(Buf, i).to <= end => IsItem(Slice(Buf, i, Header(Buf, i).to))
<1>. DEFINE h == ContentStart
            n == Len(Content)
            to == Header(Buf, i).to
<1>1. /\ Buf \in Seq(Byte) /\ Len(Buf) + SHORT < USIZE /\ Len(Buf) < USIZE /\ Len(Buf) \in Nat
      /\ i \in Nat /\ end \in Nat /\ end <= Len(Buf) /\ h \in Nat /\ h <= end /\ h <= i
      /\ n = end - h /\ n \in Nat /\ i < Len(Buf)
  BY ContentOf
<1>2. Header(Buf, i).ok => to \in Nat /\ i < to
  BY <1>1, HeaderOf
<1>3. IsItems(Content) <=> i - h \in Heads(Content)
  <2>1. i <= end
    BY <1>1
  <2>. QED
    BY <2>1 DEF CutInv
<1>4. i - h \in Heads(Content)
        <=> \E j \in i - h + 1 .. n : IsItem(Slice(Content, i - h, j)) /\ j \in Heads(Content)
  <2>1. i - h \in 0 .. n - 1
    BY <1>1
  <2>. QED
    BY <1>1, <2>1, HeadsOf
<1>5. ASSUME NEW j \in i - h + 1 .. n
      PROVE  IsItem(Slice(Content, i - h, j)) <=> Header(Buf, i).ok /\ to = h + j
  <2>1. i - h \in Nat /\ j \in Nat /\ i - h <= j /\ j <= end - h /\ h + (i - h) = i
    BY <1>1
  <2>2. Slice(Slice(Buf, h, end), i - h, j) = Slice(Buf, h + (i - h), h + j)
    BY <1>1, <2>1, SliceOfSlice
  <2>3. Slice(Content, i - h, j) = Slice(Buf, i, h + j)
    BY <2>1, <2>2 DEF Content
  <2>4. h + j \in Nat /\ i < h + j /\ h + j <= Len(Buf)
    BY <1>1, <2>1
  <2>5. IsItem(Slice(Buf, i, h + j)) <=> Header(Buf, i).ok /\ Header(Buf, i).to = h + j
    BY <1>1, <2>4, ItemAt
  <2>. QED
    BY <2>3, <2>5
<1>6. ASSUME Header(Buf, i).ok, to <= end PROVE IsItem(Slice(Buf, i, to))
  <2>1. to \in Nat /\ i < to /\ to <= Len(Buf)
    BY <1>1, <1>2, <1>6
  <2>. HIDE DEF to
  <2>2. IsItem(Slice(Buf, i, to)) <=> Header(Buf, i).ok /\ Header(Buf, i).to = to
    BY <1>1, <2>1, ItemAt
  <2>. QED
    BY <1>6, <2>2 DEF to
<1>. HIDE DEF h, n, to
<1>7. ASSUME NEW j \in i - h + 1 .. n, IsItem(Slice(Content, i - h, j)), j \in Heads(Content)
      PROVE  Header(Buf, i).ok /\ to <= end /\ to - h \in Heads(Content)
  <2>1. Header(Buf, i).ok /\ to = h + j
    BY <1>5, <1>7
  <2>2. to <= end /\ to - h = j
    BY <1>1, <2>1
  <2>. QED
    BY <1>7, <2>1, <2>2
<1>8. ASSUME Header(Buf, i).ok, to <= end, to - h \in Heads(Content)
      PROVE  \E j \in i - h + 1 .. n : IsItem(Slice(Content, i - h, j)) /\ j \in Heads(Content)
  <2>1. to - h \in i - h + 1 .. n /\ to = h + (to - h)
    BY <1>1, <1>2, <1>8
  <2>2. IsItem(Slice(Content, i - h, to - h))
    BY <1>5, <1>8, <2>1
  <2>. QED
    BY <1>8, <2>1, <2>2
<1>. QED
  BY <1>3, <1>4, <1>6, <1>7, <1>8 DEF h, to

LEMMA CutDecodeStep == ASSUME Typed, Inv, DecodeList PROVE CutInv'
<1>1. /\ pc' = "scan" /\ RawBytes # <<>> /\ IsList(Buf)
      /\ i' = Header(Buf, 0).from /\ end' = Header(Buf, 0).to /\ fields' = <<>>
      /\ UNCHANGED <<payload, raw>>
  BY DEF DecodeList, Scannable
<1>2. RawBytes' = RawBytes /\ Buf' = Buf
  BY <1>1 DEF RawBytes, Buf
<1>3. ContentStart' = ContentStart /\ Content' = Slice(Buf, ContentStart, end')
  BY <1>2 DEF ContentStart, Content
<1>. DEFINE h == ContentStart
            content == Slice(Buf, h, end')
<1>4. h \in Nat /\ end' \in Nat /\ h <= end' /\ end' <= Len(Buf) /\ i' = h
  BY <1>1, ListOf DEF Inv, ContentStart
<1>5. Buf \in Seq(Byte)
  BY <1>1, RawOf DEF Inv
<1>6. Len(content) \in Nat
  BY <1>4, <1>5, SliceOf
<1>7. IsItems(content) <=> 0 \in Heads(content)
  BY <1>6, HeadsOf
<1>. HIDE DEF h, content
<1>8. h - h = 0 /\ ~(h > end')
  BY <1>4
<1>9. IsItems(content) <=> i' - h \in Heads(content)
  BY <1>4, <1>7, <1>8
<1>10. DOMAIN fields' = {}
  BY <1>1
<1>11. ContentStart' = h /\ Content' = content
  BY <1>3 DEF h, content
<1>. QED
  BY <1>2, <1>4, <1>8, <1>9, <1>10, <1>11 DEF CutInv

LEMMA CutItemStep == ASSUME Typed, Inv, CutInv, ScanItem PROVE CutInv'
<1>. DEFINE new == <<i, Header(Buf, i).from, Header(Buf, i).to>>
<1>1. /\ pc = "scan" /\ pc' = "scan" /\ i < end /\ Header(Buf, i).ok
      /\ fields' = Append(fields, new) /\ i' = Header(Buf, i).to /\ end' = end
      /\ UNCHANGED <<payload, raw>>
  BY DEF ScanItem
<1>2. RawBytes' = RawBytes /\ Buf' = Buf
  BY <1>1 DEF RawBytes, Buf
<1>3. ContentStart' = ContentStart /\ Content' = Content
  BY <1>1, <1>2 DEF ContentStart, Content
<1>4. /\ IsItems(Content) <=> i' <= end /\ i' - ContentStart \in Heads(Content)
      /\ i' <= end => IsItem(Slice(Buf, i, i'))
  BY <1>1, NextItem
<1>5. /\ i \in Nat /\ end \in Nat /\ ContentStart \in Nat /\ ContentStart <= end /\ ContentStart <= i
      /\ i' \in Nat /\ i <= i'
  BY <1>1, ContentOf, ItemOf DEF Inv
<1>6. \A k \in DOMAIN fields : IsItem(Slice(Buf, fields[k][1], fields[k][3]))
  BY <1>1, <1>5 DEF CutInv
<1>7. ASSUME i' <= end PROVE \A k \in DOMAIN fields' : IsItem(Slice(Buf, fields'[k][1], fields'[k][3]))
  <2>1. new[1] = i /\ new[3] = i'
    BY <1>1
  <2>. HIDE DEF new
  <2>2. /\ fields \in Seq(Span) /\ DOMAIN fields' = 1 .. Len(fields) + 1 /\ DOMAIN fields = 1 .. Len(fields)
        /\ Len(fields) \in Nat /\ fields'[Len(fields) + 1] = new
        /\ \A k \in 1 .. Len(fields) : fields'[k] = fields[k]
    <3>1. fields \in Seq(Span)
      BY DEF Typed
    <3>. QED
      BY <1>1, <3>1
  <2>3. \A k \in DOMAIN fields' : k \in 1 .. Len(fields) \/ k = Len(fields) + 1
    BY <2>2
  <2>. QED
    BY <1>4, <1>6, <1>7, <2>1, <2>2, <2>3
<1>8. ContentStart <= i' /\ (i' > end => ~(i' <= end))
  BY <1>5
<1>. QED
  BY <1>1, <1>2, <1>3, <1>4, <1>5, <1>7, <1>8 DEF CutInv

LEMMA CutStep == Typed /\ Inv /\ CutInv /\ [CodecNext]_codecVars => CutInv'
<1>. SUFFICES ASSUME Typed, Inv, CutInv, [CodecNext]_codecVars PROVE CutInv'
  OBVIOUS
<1>1. CASE UNCHANGED codecVars
  BY <1>1 DEF codecVars, CutInv, Content, ContentStart, Buf, RawBytes
<1>2. CASE \/ WalkSigned \/ WalkBatch \/ WalkOther \/ BatchPart \/ WalkDone \/ DecodeEmpty \/ DecodeOpaque
           \/ ScanMalformed \/ ScanDone \/ Model
  <2>1. pc' # "scan"
    BY <1>2 DEF WalkSigned, WalkBatch, WalkOther, BatchPart, WalkDone, DecodeEmpty, DecodeOpaque,
                ScanMalformed, ScanDone, Model, Push
  <2>. QED
    BY <2>1 DEF CutInv
<1>. QED
  BY <1>1, <1>2, CutDecodeStep, CutItemStep DEF CodecNext

\* What the end of a scan says of the list.
LEMMA DecidesStep ==
  Typed /\ Inv /\ CutInv /\ [CodecNext]_codecVars =>
    [pc = "scan" /\ pc' # "scan"
       => /\ IsItems(Slice(Buf, Header(Buf, 0).from, end)) <=> pc' = "model"
          /\ pc' = "model" => \A k \in DOMAIN fields : IsItem(Slice(Buf, fields[k][1], fields[k][3]))]_pc
<1>. SUFFICES ASSUME Typed, Inv, CutInv, [CodecNext]_codecVars, pc = "scan", pc' # "scan"
              PROVE  /\ IsItems(Content) <=> pc' = "model"
                     /\ pc' = "model" => \A k \in DOMAIN fields : IsItem(Slice(Buf, fields[k][1], fields[k][3]))
  BY DEF Content, ContentStart
<1>1. ScanMalformed \/ ScanDone
  BY DEF CodecNext, codecVars, WalkSigned, WalkBatch, WalkOther, BatchPart, WalkDone, DecodeEmpty,
         DecodeOpaque, DecodeList, ScanItem, Model
<1>2. CASE ScanMalformed
  <2>1. pc' = "walk" /\ ((i < end /\ ~Header(Buf, i).ok) \/ i > end)
    BY <1>2 DEF ScanMalformed, Push, Overshot
  <2>2. ~IsItems(Content)
    BY <2>1, NextItem DEF CutInv
  <2>. QED
    BY <2>1, <2>2
<1>3. CASE ScanDone
  <2>1. pc' = "model" /\ i >= end /\ ~(i > end)
    BY <1>3 DEF ScanDone, Overshot
  <2>2. i = end /\ i <= end /\ i - ContentStart = Len(Content) /\ Len(Content) \in Nat
    BY <2>1, ContentOf
  <2>3. Len(Content) \in Heads(Content)
    BY <2>2, HeadsOf
  <2>. QED
    BY <2>1, <2>2, <2>3 DEF CutInv
<1>. QED
  BY <1>1, <1>2, <1>3

(***************************************************************************)
(* scan_list decides what it is for, whatever the bytes: it takes a list   *)
(* exactly if its content can be cut into whole RLP items, and where it    *)
(* cuts there are items (codec.rs).                                        *)
(***************************************************************************)
THEOREM ScanCorrect == CodecSpec => ScanDecides
<1>1. CodecInit => CutInv
  BY DEF CodecInit, CutInv
<1>. QED
  BY <1>1, InvInit, CodecStep, CutStep, DecidesStep, PTL DEF CodecSpec, ScanDecides

-----------------------------------------------------------------------------
(* How far the decoder is from its end *)

\* Where the walk is: everything before has been looked at.
HeadAt == IF stack = <<>> THEN Len(payload) ELSE Top[3]

\* What the transaction being decoded still takes, at most.
Decoding ==
  CASE pc = "decode" -> raw[2] - raw[1] + 4
    [] pc = "scan" -> (IF i < end THEN end - i ELSE 0) + 3
    [] pc = "model" -> 2
    [] pc = "walk" -> 1
    [] OTHER -> 0

\* What is left to do: four for a byte that is still to be walked over, one
\* for a slice that is still to be left, and the transaction being decoded.
Left == 4 * (Len(payload) - HeadAt) + Len(stack) + Decoding

LEMMA HeadOf ==
  Typed /\ StackInv => HeadAt \in Nat /\ HeadAt <= Len(payload) /\ Len(payload) \in Nat /\ Len(stack) \in Nat
<1>. SUFFICES ASSUME Typed, StackInv
              PROVE  HeadAt \in Nat /\ HeadAt <= Len(payload) /\ Len(payload) \in Nat /\ Len(stack) \in Nat
  OBVIOUS
<1>1. Len(payload) \in Nat /\ Len(stack) \in Nat
  BY DEF Typed
<1>2. stack # <<>> => Top[3] \in Nat /\ Top[3] <= Len(payload)
  <2>. SUFFICES ASSUME stack # <<>> PROVE Top[3] \in Nat /\ Top[3] <= Len(payload)
    OBVIOUS
  <2>1. Top = stack[Len(stack)] /\ Len(stack) \in DOMAIN stack /\ Top[2] \in Nat /\ Top[3] \in Nat
    BY TopOf
  <2>2. Top[3] <= Top[2] /\ Top[2] <= Len(payload)
    BY <2>1 DEF StackInv
  <2>. QED
    BY <1>1, <2>1, <2>2
<1>. QED
  BY <1>1, <1>2 DEF HeadAt

LEMMA DecodingOf == Typed /\ RawInv => Decoding \in Nat
<1>. SUFFICES ASSUME Typed, RawInv PROVE Decoding \in Nat
  OBVIOUS
<1>1. raw[1] \in Nat /\ raw[2] \in Nat /\ raw[1] <= raw[2] /\ i \in Nat /\ end \in Nat
  BY DEF Typed, RawInv
<1>. QED
  BY <1>1 DEF Decoding

\* All these are naturals.
Counted ==
  /\ HeadAt \in Nat /\ HeadAt <= Len(payload) /\ Len(payload) \in Nat /\ Len(stack) \in Nat
  /\ Decoding \in Nat /\ Left \in Nat

LEMMA CountedOf == Typed /\ Inv => Counted
<1>. SUFFICES ASSUME Typed, Inv PROVE Counted
  OBVIOUS
<1>1. /\ HeadAt \in Nat /\ HeadAt <= Len(payload) /\ Len(payload) \in Nat /\ Len(stack) \in Nat
      /\ Decoding \in Nat
  BY HeadOf, DecodingOf DEF Inv
<1>2. Left \in Nat
  BY ONLY <1>1 DEF Left
<1>. QED
  BY <1>1, <1>2 DEF Counted

LEMMA CountedNext == Typed' /\ Inv' => Counted'
BY CountedOf, PTL

LEMMA Falls ==
  ASSUME NEW l \in Nat, NEW h \in Nat, NEW k \in Nat, NEW m \in Nat, NEW n \in Nat, NEW c \in Nat, NEW d \in Nat,
         4 * h + n + d < 4 * k + m + c
  PROVE  4 * (l - k) + n + d < 4 * (l - h) + m + c
OBVIOUS

\* A slice that is left was walked to its end, for the slices around it.
LEMMA PopHead ==
  ASSUME Typed, StackInv, stack # <<>>, stack' = Front(stack), payload' = payload
  PROVE  Top[2] <= HeadAt' /\ Len(stack') = Len(stack) - 1
<1>1. /\ stack' \in Seq(Span) /\ Len(stack') = Len(stack) - 1 /\ Len(stack) - 1 \in Nat
      /\ \A k \in DOMAIN stack' : stack'[k] = stack[k] /\ Top[2] <= stack[k][3]
  BY Popped, FrontOf
<1>2. CASE stack' = <<>>
  <2>1. HeadAt' = Len(payload)
    BY <1>2 DEF HeadAt
  <2>2. Top[2] <= Len(payload)
    BY TopOf, StackOf
  <2>. QED
    BY <1>1, <2>1, <2>2
<1>3. CASE stack' # <<>>
  <2>1. Len(stack') \in DOMAIN stack' /\ HeadAt' = stack'[Len(stack')][3]
    <3>1. Len(stack') # 0 /\ Len(stack') \in Nat /\ DOMAIN stack' = 1 .. Len(stack')
      BY <1>1, <1>3
    <3>2. Top' = stack'[Len(stack')]
      BY DEF Top, Last
    <3>. QED
      BY <1>3, <3>1, <3>2 DEF HeadAt
  <2>. QED
    BY <1>1, <2>1
<1>. QED
  BY <1>2, <1>3

LEMMA WalkBatchLeft == ASSUME Typed, Inv, WalkBatch PROVE HeadAt' = HeadAt + 1 /\ Len(stack') = Len(stack)
<1>. DEFINE new == <<Top[1], Top[2], Top[1] + 1>>
<1>1. stack # <<>> /\ Top[3] = Top[1] /\ stack' = Append(Front(stack), new)
  BY DEF WalkBatch, Fresh
<1>2. new \in Span /\ new[3] = HeadAt + 1
  BY <1>1, TopOf DEF HeadAt, Span
<1>. HIDE DEF new
<1>. DEFINE f == Front(stack)
<1>3. f \in Seq(Span) /\ Len(f) = Len(stack) - 1 /\ stack' = Append(f, new) /\ Len(stack) \in Nat
  BY <1>1, FrontOf DEF Typed
<1>. HIDE DEF f
<1>4. Len(stack') = Len(f) + 1 /\ stack'[Len(f) + 1] = new
  BY <1>2, <1>3, AppendProperties
<1>5. stack' # <<>> /\ Top' = new
  <2>1. Len(stack') # 0 /\ stack'[Len(stack')] = new
    BY <1>3, <1>4
  <2>. QED
    BY <2>1 DEF Top, Last
<1>. QED
  BY <1>2, <1>3, <1>4, <1>5 DEF HeadAt

\* A part that fits takes the head over its length.
LEMMA BatchPartLeft ==
  ASSUME Typed, Inv, BatchPart
  PROVE  \/ HeadAt <= HeadAt' /\ Len(stack') = Len(stack) - 1
         \/ HeadAt + 1 <= HeadAt' /\ Len(stack') = Len(stack) + 1
<1>. DEFINE start == Top[3] + LENGTH
            len == Number(Slice(payload, Top[3], start))
            fits == start <= Top[2] /\ len \in 1 .. Top[2] - start
            outer == <<Top[1], Top[2], start + len>>
            inner == <<start, start + len, start>>
            f == Front(stack)
<1>1. /\ stack # <<>> /\ payload' = payload
      /\ stack' = IF fits THEN f \o <<outer, inner>> ELSE f
  BY DEF BatchPart
<1>2. /\ f \in Seq(Span) /\ Len(f) = Len(stack) - 1 /\ Len(stack) \in Nat
      /\ Top[1] \in Nat /\ Top[2] \in Nat /\ Top[3] \in Nat /\ Top[3] <= Top[2] /\ HeadAt = Top[3]
  BY <1>1, FrontOf, TopOf, StackOf DEF Inv, HeadAt
<1>3. CASE ~fits
  <2>1. Top[2] <= HeadAt' /\ Len(stack') = Len(stack) - 1
    BY <1>1, <1>3, PopHead DEF Inv
  <2>2. HeadAt' \in Nat
    <3>1. Typed' /\ Inv'
      BY BatchPartStep
    <3>. QED
      BY <3>1, CountedNext DEF Counted
  <2>. QED
    BY <1>2, <2>1, <2>2
<1>4. CASE fits
  <2>1. start \in Nat /\ HeadAt + 1 <= start
    BY <1>2, Widths
  <2>2. len \in Nat
    BY <1>2, <1>4, <2>1
  <2>. HIDE DEF start, len
  <2>3. outer \in Span /\ inner \in Span /\ inner[3] = start
    BY ONLY <1>2, <2>1, <2>2 DEF Span, outer, inner
  <2>. HIDE DEF outer, inner, f
  <2>. DEFINE p == <<outer, inner>>
  <2>4. p \in Seq(Span) /\ Len(p) = 2 /\ p[2] = inner /\ stack' = f \o p
    BY <1>1, <1>4, <2>3
  <2>. HIDE DEF p
  <2>5. /\ Len(stack') = Len(f) + 2
        /\ \A k \in 1 .. Len(f) + 2 : stack'[k] = IF k <= Len(f) THEN f[k] ELSE p[k - Len(f)]
    <3>1. /\ Len(f \o p) = Len(f) + Len(p)
          /\ \A k \in 1 .. Len(f) + Len(p) : (f \o p)[k] = IF k <= Len(f) THEN f[k] ELSE p[k - Len(f)]
      BY ONLY <1>2, <2>4, ConcatProperties
    <3>. QED
      BY ONLY <2>4, <3>1
  <2>6. Len(stack') = Len(stack) + 1 /\ Len(stack') \in 1 .. Len(f) + 2 /\ Len(stack') - Len(f) = 2 /\ ~(Len(stack') <= Len(f))
    BY ONLY <1>2, <2>5
  <2>7. stack'[Len(stack')] = inner
    BY <2>4, <2>5, <2>6
  <2>8. stack' # <<>> /\ Top' = inner
    BY <2>6, <2>7, <1>2 DEF Top, Last
  <2>. QED
    BY <2>1, <2>3, <2>6, <2>8 DEF HeadAt
<1>. QED
  BY <1>3, <1>4

\* Every step of the decoder leaves less.
LEMMA LeftStep == ASSUME Typed, Inv, CodecNext PROVE Left' < Left
<1>1. Typed' /\ Inv'
  BY CodecStep
<1>2. /\ HeadAt \in Nat /\ HeadAt <= Len(payload) /\ Len(payload) \in Nat /\ Len(stack) \in Nat /\ Decoding \in Nat
      /\ HeadAt' \in Nat /\ Len(stack') \in Nat /\ Decoding' \in Nat
  BY <1>1, CountedOf, CountedNext DEF Counted
<1>3. payload' = payload
  BY DEF CodecNext, WalkSigned, WalkBatch, WalkOther, BatchPart, WalkDone, DecodeEmpty, DecodeOpaque,
         DecodeList, ScanItem, ScanMalformed, ScanDone, Model, Push
<1>4. ASSUME 4 * HeadAt + Len(stack') + Decoding' < 4 * HeadAt' + Len(stack) + Decoding
      PROVE  Left' < Left
  <2>1. /\ Left = 4 * (Len(payload) - HeadAt) + Len(stack) + Decoding
        /\ Left' = 4 * (Len(payload) - HeadAt') + Len(stack') + Decoding'
    BY <1>3 DEF Left
  <2>. QED
    BY ONLY <1>2, <1>4, <2>1, Falls
<1>5. raw[1] \in Nat /\ raw[2] \in Nat /\ raw[1] <= raw[2] /\ i \in Nat /\ end \in Nat
  BY DEF Typed, Inv, RawInv
<1>6. CASE WalkSigned
  <2>1. /\ stack # <<>> /\ Top[3] = Top[1] /\ Top[1] < Top[2] /\ stack' = Front(stack)
        /\ raw' = <<Top[1] + 1, Top[2]>> /\ pc = "walk" /\ pc' = "decode"
    BY <1>6 DEF WalkSigned, Fresh, Starts
  <2>2. Top[2] <= HeadAt' /\ Len(stack') = Len(stack) - 1 /\ Top[1] \in Nat /\ Top[2] \in Nat /\ HeadAt = Top[1]
    BY <1>3, <2>1, PopHead, TopOf DEF Inv, HeadAt
  <2>3. Decoding = 1 /\ Decoding' = Top[2] - (Top[1] + 1) + 4
    BY <2>1 DEF Decoding
  <2>4. Top[1] < Top[2]
    BY <2>1
  <2>5. 4 * HeadAt + Len(stack') + Decoding' < 4 * HeadAt' + Len(stack) + Decoding
    <3>. DEFINE a == Top[1]
                b == Top[2]
    <3>1. /\ a \in Nat /\ b \in Nat /\ a < b /\ b <= HeadAt' /\ HeadAt = a
          /\ Decoding = 1 /\ Decoding' = b - (a + 1) + 4
      BY <2>2, <2>3, <2>4
    <3>2. Len(stack') = Len(stack) - 1
      BY <2>2
    <3>. HIDE DEF a, b
    <3>. QED
      BY ONLY <1>2, <3>1, <3>2
  <2>. QED
    BY <1>4, <2>5
<1>7. CASE WalkBatch
  <2>1. Decoding' = Decoding
    BY <1>7 DEF WalkBatch, Decoding
  <2>2. 4 * HeadAt + Len(stack') + Decoding' < 4 * HeadAt' + Len(stack) + Decoding
    BY <1>2, <1>7, <2>1, WalkBatchLeft
  <2>. QED
    BY <1>4, <2>2
<1>8. CASE WalkOther
  <2>1. stack # <<>> /\ stack' = Front(stack) /\ Decoding' = Decoding
    BY <1>8 DEF WalkOther, Decoding
  <2>2. Top[2] <= HeadAt' /\ Len(stack') = Len(stack) - 1
    BY <1>3, <2>1, PopHead DEF Inv
  <2>3. HeadAt <= Top[2] /\ Top[2] \in Nat
    BY <2>1, TopOf, StackOf DEF Inv, HeadAt
  <2>4. HeadAt <= HeadAt'
    BY ONLY <1>2, <2>2, <2>3
  <2>5. Len(stack') = Len(stack) - 1 /\ Decoding' = Decoding
    BY <2>1, <2>2
  <2>6. 4 * HeadAt + Len(stack') + Decoding' < 4 * HeadAt' + Len(stack) + Decoding
    BY ONLY <1>2, <2>4, <2>5
  <2>. QED
    BY <1>4, <2>6
<1>9. CASE BatchPart
  <2>1. Decoding' = Decoding
    BY <1>9 DEF BatchPart, Decoding
  <2>2. \/ HeadAt <= HeadAt' /\ Len(stack') = Len(stack) - 1
        \/ HeadAt + 1 <= HeadAt' /\ Len(stack') = Len(stack) + 1
    BY <1>9, BatchPartLeft
  <2>3. 4 * HeadAt + Len(stack') < 4 * HeadAt' + Len(stack)
    BY ONLY <1>2, <2>2
  <2>4. 4 * HeadAt + Len(stack') + Decoding' < 4 * HeadAt' + Len(stack) + Decoding
    BY ONLY <1>2, <2>1, <2>3
  <2>. QED
    BY <1>4, <2>4
<1>10. CASE DecodeList
  <2>1. /\ pc = "decode" /\ pc' = "scan" /\ stack' = stack /\ RawBytes # <<>> /\ IsList(Buf)
        /\ i' = Header(Buf, 0).from /\ end' = Header(Buf, 0).to
    BY <1>10 DEF DecodeList, Scannable
  <2>2. /\ i' \in Nat /\ end' \in Nat /\ end' <= Len(Buf)
    BY <2>1, ListOf DEF Inv
  <2>3. Len(Buf) <= raw[2] - raw[1] /\ Len(Buf) \in Nat
    BY <2>1, RawOf, BodyOf DEF Inv, Buf
  <2>4. Decoding = raw[2] - raw[1] + 4 /\ Decoding' = (IF i' < end' THEN end' - i' ELSE 0) + 3
    BY <2>1 DEF Decoding
  <2>5. HeadAt' = HeadAt
    BY <1>3, <2>1 DEF HeadAt, Top
  <2>6. Decoding' < Decoding
    BY ONLY <1>5, <2>2, <2>3, <2>4
  <2>7. 4 * HeadAt + Len(stack') + Decoding' < 4 * HeadAt' + Len(stack) + Decoding
    BY ONLY <1>2, <2>1, <2>5, <2>6
  <2>. QED
    BY <1>4, <2>7
<1>11. CASE ScanItem
  <2>1. /\ pc = "scan" /\ pc' = "scan" /\ stack' = stack /\ i < end /\ Header(Buf, i).ok
        /\ i' = Header(Buf, i).to /\ end' = end
    BY <1>11 DEF ScanItem
  <2>2. i' \in Nat /\ i < i'
    BY <2>1, ItemOf DEF Inv
  <2>3. Decoding = end - i + 3 /\ Decoding' = (IF i' < end THEN end - i' ELSE 0) + 3
    BY <2>1 DEF Decoding
  <2>4. HeadAt' = HeadAt
    BY <1>3, <2>1 DEF HeadAt, Top
  <2>5. Decoding' < Decoding
    BY ONLY <1>5, <2>1, <2>2, <2>3
  <2>6. 4 * HeadAt + Len(stack') + Decoding' < 4 * HeadAt' + Len(stack) + Decoding
    BY ONLY <1>2, <2>1, <2>4, <2>5
  <2>. QED
    BY <1>4, <2>6
<1>12. CASE WalkDone \/ DecodeEmpty \/ DecodeOpaque \/ ScanMalformed \/ ScanDone \/ Model
  <2>1. /\ stack' = stack
        /\ \/ pc = "walk" /\ pc' = "done"
           \/ pc \in {"decode", "scan", "model"} /\ pc' = "walk"
           \/ pc = "scan" /\ pc' = "model"
    BY <1>12 DEF WalkDone, DecodeEmpty, DecodeOpaque, ScanMalformed, ScanDone, Model, Push
  <2>2. HeadAt' = HeadAt
    BY <1>3, <2>1 DEF HeadAt, Top
  <2>3. Decoding' < Decoding
    BY <1>5, <2>1 DEF Decoding
  <2>4. 4 * HeadAt + Len(stack') + Decoding' < 4 * HeadAt' + Len(stack) + Decoding
    BY ONLY <1>2, <2>1, <2>2, <2>3
  <2>. QED
    BY <1>4, <2>4
<1>. QED
  BY <1>6, <1>7, <1>8, <1>9, <1>10, <1>11, <1>12 DEF CodecNext

(***************************************************************************)
(* Every step of the decoder brings it nearer to its end, by a natural     *)
(* number that can only fall so often: no offset stands still, no batch    *)
(* opens for ever and no list is scanned twice, whatever the bytes say.    *)
(* That the decoder ends (DecodeEnds) follows, if it runs while it can.    *)
(***************************************************************************)
THEOREM DecodingShrinks == CodecSpec => [][Left' < Left /\ Left \in Nat /\ Left' \in Nat]_codecVars
<1>1. Typed /\ Inv /\ [CodecNext]_codecVars => [Left' < Left /\ Left \in Nat /\ Left' \in Nat]_codecVars
  BY CodecStep, CountedOf, CountedNext, LeftStep DEF Counted
<1>. QED
  BY <1>1, InvInit, CodecStep, PTL DEF CodecSpec

-----------------------------------------------------------------------------
(* What was packed is found *)

\* The decoder works on this input, of which it is known what was packed in it.
Reads(input) ==
  /\ payload = input.l2Msg /\ packed = input.packed
  /\ stack # <<>> => input.isL2Message

\* A slice that is walked is a part of the entry: the innermost one, from its
\* start on, or a batch that may be read, after one of its parts.
Opened(input, p, slice) ==
  /\ StartsWith(input.l2Msg, p, L2_BATCH) /\ p.depth < MAX_BATCH_DEPTH
  /\ \E n \in 0 .. Len(p.parts) : slice[3] = After(p, n)
PartAt(input, p, f, slice, innermost) ==
  /\ p.from = slice[1] /\ p.to = slice[2] /\ p.depth = f - 1 /\ p.depth <= MAX_BATCH_DEPTH
  /\ (innermost /\ slice[3] = p.from) \/ Opened(input, p, slice)
PartsInv(input) ==
  \A f \in DOMAIN stack : \E p \in input.parts : PartAt(input, p, f, stack[f], f = Len(stack))

\* A transaction is in hand, and not the empty one.
InHand == pc \in {"decode", "scan", "model"} /\ raw[1] < raw[2]
Taken == Len(txs) + (IF InHand THEN 1 ELSE 0)

\* The transaction there is still ahead of the walk.
Ahead(at) == \E f \in DOMAIN stack : stack[f][3] < at[1] /\ at[2] <= stack[f][2]

\* What was packed was found up to here, and the rest is ahead.
FoundInv(list) ==
  /\ Taken <= Len(list)
  /\ \A k \in DOMAIN txs : txs[k].raw = list[k].at
  /\ InHand => raw = list[Taken].at
  /\ \A k \in DOMAIN list : k > Taken => Ahead(list[k].at)

Follows(input) == Reads(input) /\ PartsInv(input) /\ FoundInv(input.packed[1])

\* What is assumed of an input.
LEMMA PackedOf ==
  ASSUME NEW input \in Inputs, input.packed # <<>>
  PROVE  /\ input.parts \subseteq PackedPart /\ input.packed[1] \in Seq(PackedTx)
         /\ \A part \in input.parts : part.from <= part.to /\ part.to <= Len(input.l2Msg)
         /\ input.isL2Message => /\ IsNesting(input.l2Msg, input.parts)
                                 /\ AreTxsOf(input.l2Msg, input.parts, input.packed[1])
         /\ ~input.isL2Message => input.packed[1] = <<>>
         /\ \A k \in DOMAIN input.packed[1] :
              Len(input.packed[1][k].recovery) = 1 /\ IsSealed(input.packed[1][k])
<1>1. /\ input.parts \subseteq PackedPart /\ input.packed[1] \in Seq(PackedTx)
      /\ \A part \in input.parts : part.from <= part.to /\ part.to <= Len(input.l2Msg)
      /\ IF input.isL2Message
         THEN IsNesting(input.l2Msg, input.parts) /\ AreTxsOf(input.l2Msg, input.parts, input.packed[1])
         ELSE input.packed[1] = <<>>
      /\ \A k \in DOMAIN input.packed[1] :
           Len(input.packed[1][k].recovery) = 1 /\ IsSealed(input.packed[1][k])
  BY PackedAssumption, Zenon
<1>2. ASSUME input.isL2Message
      PROVE  IsNesting(input.l2Msg, input.parts) /\ AreTxsOf(input.l2Msg, input.parts, input.packed[1])
  BY <1>1, <1>2, Zenon
<1>3. ASSUME ~input.isL2Message PROVE input.packed[1] = <<>>
  BY <1>1, <1>3, Zenon
<1>. QED
  BY <1>1, <1>2, <1>3, Zenon

LEMMA PartOf ==
  ASSUME NEW p \in PackedPart
  PROVE  /\ p.from \in Nat /\ p.to \in Nat /\ p.depth \in Nat
         /\ Len(p.parts) \in Nat /\ DOMAIN p.parts = 1 .. Len(p.parts)
         /\ \A n \in DOMAIN p.parts : p.parts[n].from \in Nat /\ p.parts[n].to \in Nat
<1>1. p.from \in Nat /\ p.to \in Nat /\ p.depth \in Nat /\ p.parts \in Seq([from : Nat, to : Nat])
  BY DEF PackedPart
<1>. DEFINE s == p.parts
            S == [from : Nat, to : Nat]
<1>2. Len(s) \in Nat /\ DOMAIN s = 1 .. Len(s) /\ \A n \in DOMAIN s : s[n] \in S
  <2>1. s \in Seq(S)
    BY <1>1
  <2>. HIDE DEF s, S
  <2>. QED
    BY ONLY <2>1
<1>3. \A span \in S : span.from \in Nat /\ span.to \in Nat
  OBVIOUS
<1>. QED
  BY <1>1, <1>2, <1>3

\* A transaction in the list is a part of the entry.
LEMMA TxPart ==
  ASSUME NEW bytes, NEW parts \in SUBSET PackedPart, NEW list \in Seq(PackedTx),
         AreTxsOf(bytes, parts, list), NEW k \in DOMAIN list
  PROVE  /\ list[k].at \in Nat \X Nat /\ list[k].at[1] \in Nat /\ list[k].at[2] \in Nat /\ list[k].at[1] < list[k].at[2]
         /\ list[k].at = <<list[k].at[1], list[k].at[2]>>
         /\ list[k].raw = Slice(bytes, list[k].at[1], list[k].at[2])
         /\ \E q \in parts : /\ q.from + 1 = list[k].at[1] /\ q.to = list[k].at[2]
                             /\ StartsWith(bytes, q, L2_SIGNED_TX) /\ q.depth <= MAX_BATCH_DEPTH
<1>1. list[k] \in PackedTx
  OBVIOUS
<1>2. list[k].at \in Nat \X Nat
  BY <1>1 DEF PackedTx
<1>3. list[k].at \in {<<part.from + 1, part.to>> :
          part \in {p \in parts : /\ StartsWith(bytes, p, L2_SIGNED_TX) /\ p.from + 1 < p.to
                                  /\ p.depth <= MAX_BATCH_DEPTH}}
  BY DEF AreTxsOf
<1>4. PICK q \in parts : /\ StartsWith(bytes, q, L2_SIGNED_TX) /\ q.from + 1 < q.to
                         /\ q.depth <= MAX_BATCH_DEPTH /\ list[k].at = <<q.from + 1, q.to>>
  BY <1>3
<1>5. list[k].at[1] = q.from + 1 /\ list[k].at[2] = q.to
  BY <1>4
<1>6. list[k].raw = Slice(bytes, list[k].at[1], list[k].at[2])
  BY DEF AreTxsOf
<1>. QED
  BY <1>2, <1>4, <1>5, <1>6

\* The parts of a batch do not overlap.
LEMMA PartsAscend ==
  ASSUME NEW bytes, NEW p \in PackedPart, IsBatch(bytes, p),
         NEW j \in DOMAIN p.parts, NEW k \in DOMAIN p.parts, j < k
  PROVE  p.parts[j].to < p.parts[k].from
<1>. DEFINE Bad == {n \in DOMAIN p.parts : j < n /\ ~(p.parts[j].to < p.parts[n].from)}
<1>1. SUFFICES ASSUME Bad # {} PROVE FALSE
  OBVIOUS
<1>2. Bad \subseteq Nat /\ DOMAIN p.parts = 1 .. Len(p.parts) /\ Len(p.parts) \in Nat
      /\ \A n \in DOMAIN p.parts : p.parts[n].from \in Nat /\ p.parts[n].to \in Nat
  BY PartOf
<1>3. PICK n \in Bad : \A m \in Bad : n <= m
  BY <1>1, <1>2, Least
<1>4. n \in DOMAIN p.parts /\ j < n /\ ~(p.parts[j].to < p.parts[n].from) /\ n - 1 \in DOMAIN p.parts /\ n # 1
  BY <1>2, <1>3
<1>5. n - 1 \notin Bad
  <2>1. ~(n <= n - 1)
    BY <1>2, <1>4
  <2>. QED
    BY <1>3, <2>1
<1>6. \A m \in DOMAIN p.parts : /\ p.parts[m].from = After(p, m - 1) + LENGTH
                                /\ p.parts[m].from < p.parts[m].to
  BY DEF IsBatch
<1>7. p.parts[n].from = p.parts[n - 1].to + LENGTH
  <2>1. n - 1 # 0
    BY <1>2, <1>4
  <2>. QED
    BY <1>4, <1>6, <2>1 DEF After
<1>8. LENGTH \in Nat \ {0}
  BY Widths
<1>9. p.parts[n - 1].to < p.parts[n].from
  BY <1>2, <1>4, <1>7, <1>8
<1>10. p.parts[n - 1].from < p.parts[n - 1].to
  BY <1>4, <1>6
<1>11. p.parts[j].to <= p.parts[n - 1].to
  <2>1. CASE j = n - 1
    BY <1>2, <1>4, <2>1
  <2>2. CASE j < n - 1
    <3>1. p.parts[j].to < p.parts[n - 1].from
      BY <1>4, <1>5, <2>2
    <3>. QED
      BY <1>2, <1>4, <1>10, <3>1
  <2>. QED
    BY <1>2, <1>4, <2>1, <2>2
<1>. QED
  BY <1>2, <1>4, <1>9, <1>11

-----------------------------------------------------------------------------
\* The slices that stay.
LEMMA Replaced ==
  ASSUME Typed, stack # <<>>, NEW new \in Seq(Span), stack' = Front(stack) \o new
  PROVE  /\ Len(stack) \in Nat \ {0} /\ Len(stack') = Len(stack) - 1 + Len(new) /\ DOMAIN stack' = 1 .. Len(stack')
         /\ DOMAIN stack = 1 .. Len(stack)
         /\ \A f \in 1 .. Len(stack) - 1 : stack'[f] = stack[f]
         /\ \A n \in 1 .. Len(new) : stack'[Len(stack) - 1 + n] = new[n]
<1>. DEFINE front == Front(stack)
<1>1. /\ front \in Seq(Span) /\ Len(front) = Len(stack) - 1 /\ Len(stack) - 1 \in Nat
      /\ \A k \in 1 .. Len(stack) - 1 : front[k] = stack[k]
  BY FrontOf
<1>2. stack \in Seq(Span)
  BY DEF Typed
<1>. HIDE DEF front
<1>3. /\ front \o new \in Seq(Span)
      /\ Len(front \o new) = Len(front) + Len(new)
      /\ \A k \in 1 .. Len(front) + Len(new) : (front \o new)[k] = IF k <= Len(front) THEN front[k] ELSE new[k - Len(front)]
  BY ONLY <1>1, ConcatProperties
<1>4. stack' = front \o new
  BY DEF front
<1>5. Len(stack) \in Nat /\ Len(new) \in Nat /\ DOMAIN stack = 1 .. Len(stack) /\ DOMAIN (front \o new) = 1 .. Len(front \o new)
  BY ONLY <1>2, <1>3
<1>6. /\ Len(stack') = Len(stack) - 1 + Len(new)
      /\ \A k \in 1 .. Len(stack) - 1 + Len(new) :
           stack'[k] = IF k <= Len(stack) - 1 THEN front[k] ELSE new[k - (Len(stack) - 1)]
  BY ONLY <1>1, <1>3, <1>4
<1>7. \A f \in 1 .. Len(stack) - 1 : stack'[f] = stack[f]
  BY ONLY <1>1, <1>5, <1>6
<1>8. \A n \in 1 .. Len(new) : stack'[Len(stack) - 1 + n] = new[n]
  <2>. TAKE n \in 1 .. Len(new)
  <2>1. Len(stack) - 1 + n \in 1 .. Len(stack) - 1 + Len(new) /\ ~(Len(stack) - 1 + n <= Len(stack) - 1)
        /\ Len(stack) - 1 + n - (Len(stack) - 1) = n
    BY ONLY <1>1, <1>5
  <2>. QED
    BY ONLY <1>6, <2>1
<1>. QED
  BY ONLY <1>1, <1>4, <1>5, <1>6, <1>7, <1>8

\* A slice that is left.
LEMMA StackPopped ==
  ASSUME Typed, stack # <<>>, stack' = Front(stack)
  PROVE  /\ Len(stack) \in Nat \ {0} /\ Len(stack') = Len(stack) - 1 /\ DOMAIN stack' = 1 .. Len(stack')
         /\ DOMAIN stack = 1 .. Len(stack)
         /\ \A f \in 1 .. Len(stack) - 1 : stack'[f] = stack[f]
<1>1. Front(stack) \in Seq(Span)
  BY FrontOf
<1>2. Front(stack) \o <<>> = Front(stack)
  BY <1>1
<1>3. stack' = Front(stack) \o <<>> /\ <<>> \in Seq(Span) /\ Len(<<>>) = 0
  BY <1>2
<1>. DEFINE none == <<>>
<1>4. none \in Seq(Span) /\ Len(none) = 0 /\ stack' = Front(stack) \o none
  BY <1>3
<1>. HIDE DEF none
<1>5. /\ Len(stack) \in Nat \ {0} /\ Len(stack') = Len(stack) - 1 + Len(none) /\ DOMAIN stack' = 1 .. Len(stack')
      /\ DOMAIN stack = 1 .. Len(stack)
      /\ \A f \in 1 .. Len(stack) - 1 : stack'[f] = stack[f]
  BY <1>4, Replaced
<1>. QED
  BY ONLY <1>4, <1>5

\* A batch that is entered.
LEMMA StackEntered ==
  ASSUME Typed, stack # <<>>, stack' = Append(Front(stack), <<Top[1], Top[2], Top[1] + 1>>)
  PROVE  /\ Len(stack) \in Nat \ {0} /\ Len(stack') = Len(stack) /\ DOMAIN stack' = 1 .. Len(stack)
         /\ DOMAIN stack = 1 .. Len(stack)
         /\ \A f \in 1 .. Len(stack) - 1 : stack'[f] = stack[f]
         /\ stack'[Len(stack)] = <<Top[1], Top[2], Top[1] + 1>>
<1>. DEFINE new == <<Top[1], Top[2], Top[1] + 1>>
            front == Front(stack)
<1>1. new \in Span
  BY TopOf DEF Span
<1>2. front \in Seq(Span)
  BY FrontOf
<1>3. stack' = Append(front, new)
  OBVIOUS
<1>. HIDE DEF new, front
<1>. DEFINE one == <<new>>
<1>4. one \in Seq(Span) /\ Len(one) = 1 /\ one[1] = new /\ Append(front, new) = front \o one
  BY ONLY <1>1, <1>2
<1>. HIDE DEF one
<1>5. stack' = Front(stack) \o one
  BY <1>3, <1>4 DEF front
<1>6. /\ Len(stack) \in Nat \ {0} /\ Len(stack') = Len(stack) - 1 + Len(one) /\ DOMAIN stack' = 1 .. Len(stack')
      /\ DOMAIN stack = 1 .. Len(stack)
      /\ \A f \in 1 .. Len(stack) - 1 : stack'[f] = stack[f]
      /\ \A n \in 1 .. Len(one) : stack'[Len(stack) - 1 + n] = one[n]
  BY <1>4, <1>5, Replaced
<1>7. Len(stack) - 1 + Len(one) = Len(stack) /\ Len(stack) - 1 + 1 = Len(stack) /\ 1 \in 1 .. Len(one)
  BY ONLY <1>4, <1>6
<1>8. stack'[Len(stack)] = new
  BY ONLY <1>4, <1>6, <1>7
<1>. QED
  BY ONLY <1>6, <1>7, <1>8 DEF new

\* A part of it that is entered.
LEMMA StackParted ==
  ASSUME Typed, stack # <<>>, NEW outer \in Span, NEW inner \in Span, stack' = Front(stack) \o <<outer, inner>>
  PROVE  /\ Len(stack) \in Nat \ {0} /\ Len(stack') = Len(stack) + 1 /\ DOMAIN stack' = 1 .. Len(stack) + 1
         /\ DOMAIN stack = 1 .. Len(stack)
         /\ \A f \in 1 .. Len(stack) - 1 : stack'[f] = stack[f]
         /\ stack'[Len(stack)] = outer /\ stack'[Len(stack) + 1] = inner
<1>. DEFINE two == <<outer, inner>>
<1>1. two \in Seq(Span) /\ Len(two) = 2 /\ two[1] = outer /\ two[2] = inner /\ stack' = Front(stack) \o two
  OBVIOUS
<1>. HIDE DEF two
<1>2. /\ Len(stack) \in Nat \ {0} /\ Len(stack') = Len(stack) - 1 + Len(two) /\ DOMAIN stack' = 1 .. Len(stack')
      /\ DOMAIN stack = 1 .. Len(stack)
      /\ \A f \in 1 .. Len(stack) - 1 : stack'[f] = stack[f]
      /\ \A n \in 1 .. Len(two) : stack'[Len(stack) - 1 + n] = two[n]
  BY <1>1, Replaced
<1>3. /\ Len(stack) - 1 + Len(two) = Len(stack) + 1 /\ Len(stack) - 1 + 1 = Len(stack)
      /\ Len(stack) - 1 + 2 = Len(stack) + 1 /\ 1 \in 1 .. Len(two) /\ 2 \in 1 .. Len(two)
  <2>1. Len(two) = 2 /\ Len(stack) \in Nat
    BY ONLY <1>1, <1>2
  <2>. QED
    BY ONLY <2>1
<1>4. stack'[Len(stack)] = outer /\ stack'[Len(stack) + 1] = inner
  BY ONLY <1>1, <1>2, <1>3
<1>. QED
  BY ONLY <1>2, <1>3, <1>4

-----------------------------------------------------------------------------
\* Nothing of a batch is before its first part, not even where that may start.
LEMMA AfterBeyond ==
  ASSUME NEW bytes, NEW p \in PackedPart, IsBatch(bytes, p), NEW n \in 0 .. Len(p.parts)
  PROVE  After(p, n) \in Nat /\ p.from < After(p, n)
<1>1. /\ p.from \in Nat /\ p.to \in Nat /\ Len(p.parts) \in Nat /\ DOMAIN p.parts = 1 .. Len(p.parts)
      /\ \A m \in DOMAIN p.parts : p.parts[m].from \in Nat /\ p.parts[m].to \in Nat
  BY PartOf
<1>2. CASE n = 0
  BY <1>1, <1>2 DEF After
<1>3. CASE n # 0
  <2>1. n \in DOMAIN p.parts /\ 1 \in DOMAIN p.parts /\ After(p, n) = p.parts[n].to
    BY <1>1, <1>3 DEF After
  <2>2. \A m \in DOMAIN p.parts : /\ p.parts[m].from = After(p, m - 1) + LENGTH
                                  /\ p.parts[m].from < p.parts[m].to
    BY DEF IsBatch
  <2>3. p.parts[1].from = p.from + 1 + LENGTH
    BY <2>1, <2>2 DEF After
  <2>4. p.from < p.parts[1].from
    BY <1>1, <2>3, Widths
  <2>5. n # 1 => p.parts[1].to < p.parts[n].from
    <3>. SUFFICES ASSUME n # 1 PROVE p.parts[1].to < p.parts[n].from
      OBVIOUS
    <3>1. 1 < n
      BY <1>3
    <3>. QED
      BY <2>1, <3>1, PartsAscend
  <2>6. p.parts[1].from < p.parts[1].to /\ p.parts[n].from < p.parts[n].to
    BY <2>1, <2>2
  <2>. QED
    BY <1>1, <2>1, <2>4, <2>5, <2>6
<1>. QED
  BY <1>2, <1>3

\* What lies in a batch after its n-th part lies in one of the parts after that.
LEMMA InLater ==
  ASSUME NEW bytes, NEW parts \in SUBSET PackedPart, IsNesting(bytes, parts),
         NEW p \in parts, StartsWith(bytes, p, L2_BATCH), NEW n \in 0 .. Len(p.parts),
         NEW q \in parts, q.from < q.to, After(p, n) <= q.from, q.to <= p.to
  PROVE  /\ p.depth < q.depth
         /\ \E j \in DOMAIN p.parts : n < j /\ Within(q, p.parts[j])
<1>1. /\ p.from \in Nat /\ p.to \in Nat /\ Len(p.parts) \in Nat /\ DOMAIN p.parts = 1 .. Len(p.parts)
      /\ \A m \in DOMAIN p.parts : p.parts[m].from \in Nat /\ p.parts[m].to \in Nat
      /\ q.from \in Nat /\ q.to \in Nat
  BY PartOf
<1>2. p \in PackedPart /\ IsBatch(bytes, p)
  BY DEF IsNesting
<1>3. After(p, n) \in Nat /\ p.from < After(p, n)
  BY <1>2, AfterBeyond
<1>4. q \in parts \ {p} /\ Within(q, p)
  BY <1>1, <1>3 DEF Within
<1>5. q.depth > p.depth /\ \E j \in DOMAIN p.parts : Within(q, p.parts[j])
  BY <1>4 DEF IsNesting
<1>6. PICK j \in DOMAIN p.parts : Within(q, p.parts[j])
  BY <1>5
<1>7. p.parts[j].from <= q.from /\ q.to <= p.parts[j].to
  BY <1>6 DEF Within
<1>8. ASSUME j <= n PROVE FALSE
  <2>1. n \in DOMAIN p.parts /\ After(p, n) = p.parts[n].to /\ n # 0
    BY <1>1, <1>8 DEF After
  <2>2. p.parts[n].from < p.parts[n].to
    BY <1>2, <2>1 DEF IsBatch
  <2>3. j # n => p.parts[j].to < p.parts[n].from
    <3>. SUFFICES ASSUME j # n PROVE p.parts[j].to < p.parts[n].from
      OBVIOUS
    <3>1. j < n
      BY <1>1, <1>8
    <3>. QED
      BY <1>2, <2>1, <3>1, PartsAscend
  <2>. QED
    BY <1>1, <1>7, <2>1, <2>2, <2>3
<1>9. n < j
  BY <1>1, <1>8
<1>10. p.depth < q.depth
  BY <1>5, PartOf
<1>. QED
  BY <1>6, <1>9, <1>10

-----------------------------------------------------------------------------
\* What was packed in the input that is read, when there is a slice to walk.
LEMMA EntryOf ==
  ASSUME NEW input \in Inputs, input.packed # <<>>, Typed, Follows(input), stack # <<>>
  PROVE  /\ input.parts \subseteq PackedPart /\ input.packed[1] \in Seq(PackedTx)
         /\ IsNesting(input.l2Msg, input.parts)
         /\ AreTxsOf(input.l2Msg, input.parts, input.packed[1])
         /\ DOMAIN input.packed[1] = 1 .. Len(input.packed[1]) /\ Len(input.packed[1]) \in Nat
         /\ DOMAIN stack = 1 .. Len(stack) /\ Len(stack) \in Nat \ {0}
         /\ Len(txs) \in Nat /\ DOMAIN txs = 1 .. Len(txs)
         /\ payload = input.l2Msg
         /\ \E p \in input.parts : PartAt(input, p, Len(stack), Top, TRUE)
<1>1. input.isL2Message /\ payload = input.l2Msg
  BY DEF Follows, Reads
<1>2. /\ input.parts \subseteq PackedPart /\ input.packed[1] \in Seq(PackedTx)
      /\ IsNesting(input.l2Msg, input.parts)
      /\ AreTxsOf(input.l2Msg, input.parts, input.packed[1])
  BY <1>1, PackedOf
<1>3. /\ Len(stack) \in DOMAIN stack /\ Top = stack[Len(stack)] /\ DOMAIN stack = 1 .. Len(stack)
      /\ Len(stack) \in Nat \ {0}
  <2>1. Len(stack) \in DOMAIN stack /\ Top = stack[Len(stack)]
    BY TopOf
  <2>2. DOMAIN stack = 1 .. Len(stack) /\ Len(stack) \in Nat
    BY DEF Typed
  <2>. QED
    BY <2>1, <2>2
<1>4. PICK p \in input.parts : PartAt(input, p, Len(stack), stack[Len(stack)], Len(stack) = Len(stack))
  BY <1>3 DEF Follows, PartsInv
<1>5. PartAt(input, p, Len(stack), Top, TRUE)
  BY <1>3, <1>4 DEF PartAt
<1>6. DOMAIN input.packed[1] = 1 .. Len(input.packed[1]) /\ Len(input.packed[1]) \in Nat
  BY <1>2
<1>7. Len(txs) \in Nat /\ DOMAIN txs = 1 .. Len(txs)
  BY DEF Typed
<1>. QED
  BY <1>1, <1>2, <1>3, <1>5, <1>6, <1>7

\* Where a transaction of the list is.
LEMMA AtOf ==
  ASSUME NEW input \in Inputs, input.packed # <<>>, Typed, Follows(input), stack # <<>>,
         NEW k \in DOMAIN input.packed[1], NEW at, at = input.packed[1][k].at
  PROVE  /\ at[1] \in Nat /\ at[2] \in Nat /\ at[1] < at[2] /\ at = <<at[1], at[2]>>
         /\ \E q \in input.parts : /\ q.from + 1 = at[1] /\ q.to = at[2] /\ q.from \in Nat /\ q.to \in Nat /\ q.from < q.to
                                   /\ StartsWith(input.l2Msg, q, L2_SIGNED_TX)
                                   /\ q.depth <= MAX_BATCH_DEPTH /\ q.depth \in Nat
<1>1. /\ at[1] \in Nat /\ at[2] \in Nat /\ at[1] < at[2] /\ at = <<at[1], at[2]>>
      /\ \E q \in input.parts : /\ q.from + 1 = at[1] /\ q.to = at[2]
                                /\ StartsWith(input.l2Msg, q, L2_SIGNED_TX) /\ q.depth <= MAX_BATCH_DEPTH
  <2>. DEFINE list == input.packed[1]
              parts == input.parts
  <2>1. /\ parts \in SUBSET PackedPart /\ list \in Seq(PackedTx) /\ AreTxsOf(input.l2Msg, parts, list)
        /\ k \in DOMAIN list /\ at = list[k].at
    BY EntryOf
  <2>. HIDE DEF list, parts
  <2>2. /\ list[k].at[1] \in Nat /\ list[k].at[2] \in Nat /\ list[k].at[1] < list[k].at[2]
        /\ list[k].at = <<list[k].at[1], list[k].at[2]>>
        /\ \E q \in parts : /\ q.from + 1 = list[k].at[1] /\ q.to = list[k].at[2]
                            /\ StartsWith(input.l2Msg, q, L2_SIGNED_TX) /\ q.depth <= MAX_BATCH_DEPTH
    BY ONLY <2>1, TxPart, Zenon
  <2>3. /\ at[1] \in Nat /\ at[2] \in Nat /\ at[1] < at[2] /\ at = <<at[1], at[2]>>
        /\ \E q \in parts : /\ q.from + 1 = at[1] /\ q.to = at[2]
                            /\ StartsWith(input.l2Msg, q, L2_SIGNED_TX) /\ q.depth <= MAX_BATCH_DEPTH
    BY ONLY <2>1, <2>2, Zenon
  <2>. QED
    BY ONLY <2>3, Zenon DEF parts
<1>2. PICK q \in input.parts : /\ q.from + 1 = at[1] /\ q.to = at[2]
                              /\ StartsWith(input.l2Msg, q, L2_SIGNED_TX) /\ q.depth <= MAX_BATCH_DEPTH
  BY <1>1
<1>3. q \in PackedPart
  BY EntryOf
<1>4. q.from \in Nat /\ q.to \in Nat /\ q.depth \in Nat
  BY <1>3, PartOf
<1>5. q.from < q.to
  BY <1>1, <1>2, <1>4
<1>. QED
  BY <1>1, <1>2, <1>4, <1>5

\* The transactions found lie before the walk.
LEMMA FoundBefore ==
  ASSUME NEW input \in Inputs, input.packed # <<>>, Typed, Inv, Follows(input), stack # <<>>,
         NEW k \in DOMAIN txs
  PROVE  k \in DOMAIN input.packed[1] /\ input.packed[1][k].at[2] <= Top[3]
<1>. DEFINE list == input.packed[1]
            n == Len(txs)
<1>1. /\ DOMAIN list = 1 .. Len(list) /\ Len(list) \in Nat /\ n \in Nat /\ DOMAIN txs = 1 .. n
      /\ Len(stack) \in DOMAIN stack /\ Top = stack[Len(stack)] /\ Top[3] \in Nat
  BY EntryOf, TopOf
<1>2. Taken <= Len(list) /\ \A j \in DOMAIN txs : txs[j].raw = list[j].at
  BY DEF Follows, FoundInv
<1>3. n <= Len(list)
  BY <1>1, <1>2 DEF Taken
<1>4. n \in DOMAIN txs /\ n \in DOMAIN list /\ k \in DOMAIN list /\ txs # <<>> /\ k <= n
  BY <1>1, <1>3
<1>5. txs[n].raw[2] <= Top[3] /\ txs[n].raw[1] < txs[n].raw[2]
  BY <1>1, <1>4 DEF Inv, TxsInv, TxsFit, TxFits
<1>6. list[n].at[2] <= Top[3]
  BY <1>2, <1>4, <1>5
<1>7. k # n => list[k].at[2] <= list[n].at[1]
  <2>. SUFFICES ASSUME k # n PROVE list[k].at[2] <= list[n].at[1]
    OBVIOUS
  <2>1. k < n
    BY <1>1, <1>4
  <2>. QED
    BY <1>4, <2>1, EntryOf DEF AreTxsOf
<1>8. list[n].at[1] \in Nat /\ list[n].at[2] \in Nat /\ list[n].at[1] < list[n].at[2] /\ list[k].at[2] \in Nat
  BY <1>4, AtOf
<1>9. k # n => list[k].at[2] <= list[n].at[2]
  BY ONLY <1>7, <1>8
<1>10. list[n].at[2] \in Nat /\ list[k].at[2] \in Nat /\ Top[3] \in Nat
  BY <1>1, <1>8
<1>. DEFINE a == list[k].at[2]
            b == list[n].at[2]
            c == Top[3]
<1>11. a \in Nat /\ b \in Nat /\ c \in Nat /\ (a <= b \/ a = b) /\ b <= c
  BY <1>6, <1>9, <1>10
<1>. HIDE DEF a, b, c
<1>12. a <= c
  BY ONLY <1>11
<1>. QED
  BY ONLY <1>4, <1>12 DEF a, c

\* What is ahead is ahead in the innermost slice, or after it.
LEMMA AheadOf ==
  ASSUME Typed, StackInv, stack # <<>>, NEW at, at[1] \in Nat, at[2] \in Nat, Ahead(at)
  PROVE  \/ Top[3] < at[1] /\ at[2] <= Top[2]
         \/ Top[2] < at[1] /\ \E f \in 1 .. Len(stack) - 1 : stack[f][3] < at[1] /\ at[2] <= stack[f][2]
<1>1. PICK f \in DOMAIN stack : stack[f][3] < at[1] /\ at[2] <= stack[f][2]
  BY DEF Ahead
<1>2. Len(stack) \in DOMAIN stack /\ Top = stack[Len(stack)] /\ Top[2] \in Nat
  BY TopOf
<1>3. DOMAIN stack = 1 .. Len(stack) /\ Len(stack) \in Nat /\ stack[f][3] \in Nat
  BY StackOf
<1>4. CASE f = Len(stack)
  BY <1>1, <1>2, <1>4
<1>5. CASE f # Len(stack)
  <2>1. f < Len(stack) /\ f \in 1 .. Len(stack) - 1
    BY <1>3, <1>5
  <2>2. Top[2] <= stack[f][3]
    BY <1>2, <2>1 DEF StackInv
  <2>. QED
    BY <1>1, <1>2, <1>3, <2>1, <2>2
<1>. QED
  BY <1>4, <1>5

\* The slices around the innermost are batches that were entered, whatever is in them now.
LEMMA OuterParts ==
  ASSUME NEW input, PartsInv(input), NEW f \in DOMAIN stack, f # Len(stack), NEW inner
  PROVE  \E p \in input.parts : PartAt(input, p, f, stack[f], inner)
<1>1. PICK p \in input.parts : PartAt(input, p, f, stack[f], f = Len(stack))
  BY DEF PartsInv
<1>. QED
  BY <1>1 DEF PartAt

\* What a slice that is left leaves: the slices around it, and what is ahead in them.
LEMMA LeaveFollows ==
  ASSUME NEW input \in Inputs, Typed, StackInv, Follows(input), stack # <<>>,
         stack' = Front(stack), UNCHANGED <<payload, packed>>
  PROVE  /\ Reads(input)' /\ PartsInv(input)'
         /\ \A at : /\ at[1] \in Nat /\ at[2] \in Nat /\ Ahead(at)
                   /\ ~(Top[3] < at[1] /\ at[2] <= Top[2])
                   => Ahead(at)'
<1>1. /\ Len(stack) \in Nat \ {0} /\ Len(stack') = Len(stack) - 1 /\ DOMAIN stack' = 1 .. Len(stack')
      /\ DOMAIN stack = 1 .. Len(stack)
      /\ \A f \in 1 .. Len(stack) - 1 : stack'[f] = stack[f]
  BY StackPopped
<1>2. Reads(input)'
  BY DEF Follows, Reads
<1>3. PartsInv(input)'
  <2>. SUFFICES ASSUME NEW f \in DOMAIN stack'
                PROVE  \E p \in input.parts : PartAt(input, p, f, stack'[f], f = Len(stack'))
    BY DEF PartsInv
  <2>1. f \in DOMAIN stack /\ f # Len(stack) /\ stack'[f] = stack[f]
    BY <1>1
  <2>. QED
    BY <2>1, OuterParts DEF Follows
<1>4. ASSUME NEW at, at[1] \in Nat, at[2] \in Nat, Ahead(at), ~(Top[3] < at[1] /\ at[2] <= Top[2])
      PROVE  Ahead(at)'
  <2>1. PICK f \in 1 .. Len(stack) - 1 : stack[f][3] < at[1] /\ at[2] <= stack[f][2]
    BY <1>4, AheadOf
  <2>2. f \in DOMAIN stack' /\ stack'[f] = stack[f]
    BY <1>1
  <2>. QED
    BY <2>1, <2>2 DEF Ahead
<1>. QED
  BY <1>2, <1>3, <1>4

\* Between two transactions, nothing is found or lost but by what is ahead.
LEMMA WalkFound ==
  ASSUME NEW list, Typed, FoundInv(list), pc = "walk", pc' = "walk", txs' = txs,
         \A k \in DOMAIN list : k > Len(txs) /\ Ahead(list[k].at) => Ahead(list[k].at)'
  PROVE  FoundInv(list)'
<1>1. ~InHand /\ ~InHand' /\ Taken = Len(txs) /\ Taken' = Len(txs)
  <2>1. ~InHand /\ ~InHand'
    BY DEF InHand
  <2>2. Len(txs) \in Nat
    BY DEF Typed
  <2>. QED
    BY <2>1, <2>2 DEF Taken
<1>2. /\ Taken' <= Len(list)
      /\ \A k \in DOMAIN txs' : txs'[k].raw = list[k].at
      /\ \A k \in DOMAIN list : k > Taken' => Ahead(list[k].at)'
  BY <1>1 DEF FoundInv
<1>. QED
  BY <1>1, <1>2 DEF FoundInv

\* Of a slice that is neither, or too deep, nothing was packed.
LEMMA OtherFollows ==
  ASSUME NEW input \in Inputs, input.packed # <<>>, Typed, Inv, Follows(input), WalkOther
  PROVE  Follows(input)'
<1>. DEFINE list == input.packed[1]
<1>1. /\ pc = "walk" /\ pc' = "walk" /\ stack # <<>> /\ Top[3] = Top[1] /\ stack' = Front(stack) /\ txs' = txs
      /\ ~Starts(L2_SIGNED_TX) /\ ~(Starts(L2_BATCH) /\ MayEnter)
      /\ UNCHANGED <<payload, packed>>
  BY DEF WalkOther, Fresh
<1>2. Reads(input)' /\ PartsInv(input)'
  BY <1>1, LeaveFollows DEF Inv
<1>3. PICK p \in input.parts : PartAt(input, p, Len(stack), Top, TRUE)
  BY <1>1, EntryOf
<1>4. /\ p.from = Top[1] /\ p.to = Top[2] /\ p.depth = Len(stack) - 1 /\ p.depth <= MAX_BATCH_DEPTH
      /\ ~StartsWith(input.l2Msg, p, L2_SIGNED_TX)
      /\ ~(StartsWith(input.l2Msg, p, L2_BATCH) /\ p.depth < MAX_BATCH_DEPTH)
  <2>1. payload = input.l2Msg
    BY <1>1, EntryOf
  <2>2. p.from = Top[1] /\ p.to = Top[2] /\ p.depth = Len(stack) - 1 /\ p.depth <= MAX_BATCH_DEPTH
    BY <1>3 DEF PartAt
  <2>. QED
    BY <1>1, <2>1, <2>2 DEF Starts, StartsWith, MayEnter
<1>5. p \in PackedPart /\ p.from \in Nat /\ p.to \in Nat /\ p.depth \in Nat /\ MAX_BATCH_DEPTH \in Nat
  <2>1. p \in PackedPart
    BY <1>1, EntryOf
  <2>. QED
    BY <2>1, PartOf, FormatAssumption
<1>6. ASSUME NEW k \in DOMAIN list, Ahead(list[k].at)
      PROVE  Ahead(list[k].at)'
  <2>. DEFINE at == list[k].at
  <2>1. at[1] \in Nat /\ at[2] \in Nat /\ Ahead(at)
    BY <1>1, <1>6, AtOf
  <2>2. PICK q \in input.parts : /\ q.from + 1 = at[1] /\ q.to = at[2] /\ q.from \in Nat /\ q.to \in Nat
                                /\ StartsWith(input.l2Msg, q, L2_SIGNED_TX)
                                /\ q.depth <= MAX_BATCH_DEPTH /\ q.depth \in Nat
    BY <1>1, AtOf
  <2>3. ASSUME Top[3] < at[1], at[2] <= Top[2] PROVE FALSE
    <3>1. p.from <= q.from /\ q.to <= p.to /\ q # p
      BY <1>1, <1>4, <1>5, <2>1, <2>2, <2>3
    <3>2. Within(q, p) /\ q \in input.parts \ {p}
      BY <3>1 DEF Within
    <3>3. IsNesting(input.l2Msg, input.parts)
      BY <1>1, EntryOf
    <3>4. q.depth > p.depth /\ \E n \in DOMAIN p.parts : Within(q, p.parts[n])
      BY <3>2, <3>3 DEF IsNesting
    <3>5. StartsWith(input.l2Msg, p, L2_BATCH)
      <4>1. p.parts # <<>>
        BY <3>4
      <4>. QED
        BY <3>3, <4>1 DEF IsNesting
    <3>. QED
      BY <1>4, <1>5, <2>2, <3>4, <3>5
  <2>. QED
    BY <1>1, <2>1, <2>3, LeaveFollows DEF Inv
<1>7. FoundInv(list)'
  BY <1>1, <1>6, WalkFound DEF Follows
<1>. QED
  BY <1>2, <1>7 DEF Follows

\* What was packed in a batch is ahead in it when it is entered.
LEMMA BatchFollows ==
  ASSUME NEW input \in Inputs, input.packed # <<>>, Typed, Inv, Follows(input), WalkBatch
  PROVE  Follows(input)'
<1>. DEFINE list == input.packed[1]
            new == <<Top[1], Top[2], Top[1] + 1>>
<1>1. /\ pc = "walk" /\ pc' = "walk" /\ stack # <<>> /\ Top[3] = Top[1] /\ txs' = txs
      /\ stack' = Append(Front(stack), new)
      /\ Starts(L2_BATCH) /\ MayEnter
      /\ UNCHANGED <<payload, packed>>
  BY DEF WalkBatch, Fresh
<1>2. /\ Len(stack) \in Nat \ {0} /\ Len(stack') = Len(stack) /\ DOMAIN stack' = 1 .. Len(stack)
      /\ DOMAIN stack = 1 .. Len(stack)
      /\ \A f \in 1 .. Len(stack) - 1 : stack'[f] = stack[f]
      /\ stack'[Len(stack)] = new
  BY <1>1, StackEntered
<1>3. PICK p \in input.parts : PartAt(input, p, Len(stack), Top, TRUE)
  BY <1>1, EntryOf
<1>4. /\ p.from = Top[1] /\ p.to = Top[2] /\ p.depth = Len(stack) - 1 /\ p.depth <= MAX_BATCH_DEPTH
      /\ StartsWith(input.l2Msg, p, L2_BATCH) /\ p.depth < MAX_BATCH_DEPTH
  <2>1. payload = input.l2Msg
    BY <1>1, EntryOf
  <2>2. p.from = Top[1] /\ p.to = Top[2] /\ p.depth = Len(stack) - 1 /\ p.depth <= MAX_BATCH_DEPTH
    BY <1>3 DEF PartAt
  <2>. QED
    BY <1>1, <2>1, <2>2 DEF Starts, StartsWith, MayEnter
<1>5. /\ p \in PackedPart /\ p.from \in Nat /\ p.to \in Nat /\ Len(p.parts) \in Nat
      /\ Top[1] \in Nat /\ Top[2] \in Nat /\ Top[3] \in Nat
  <2>1. p \in PackedPart
    BY <1>1, EntryOf
  <2>. QED
    BY <1>1, <2>1, PartOf, TopOf
<1>6. Reads(input)'
  BY <1>1, <1>2 DEF Follows, Reads
<1>7. PartsInv(input)'
  <2>1. ASSUME NEW f \in DOMAIN stack', f # Len(stack)
        PROVE  \E r \in input.parts : PartAt(input, r, f, stack'[f], f = Len(stack'))
    <3>1. f \in DOMAIN stack /\ stack'[f] = stack[f]
      BY <1>2, <2>1
    <3>. QED
      BY <2>1, <3>1, OuterParts DEF Follows
  <2>2. PartAt(input, p, Len(stack), stack'[Len(stack)], Len(stack) = Len(stack'))
    <3>1. new[1] = Top[1] /\ new[2] = Top[2] /\ new[3] = Top[1] + 1
      OBVIOUS
    <3>2. 0 \in 0 .. Len(p.parts) /\ new[3] = After(p, 0)
      BY <1>4, <1>5, <3>1 DEF After
    <3>3. Opened(input, p, new)
      BY <1>4, <3>2 DEF Opened
    <3>. HIDE DEF new
    <3>. QED
      BY <1>2, <1>4, <3>1, <3>3 DEF PartAt
  <2>. QED
    BY <2>1, <2>2 DEF PartsInv
<1>8. ASSUME NEW k \in DOMAIN list, Ahead(list[k].at)
      PROVE  Ahead(list[k].at)'
  <2>. DEFINE at == list[k].at
  <2>1. at[1] \in Nat /\ at[2] \in Nat /\ Ahead(at)
    BY <1>1, <1>8, AtOf
  <2>2. PICK q \in input.parts : /\ q.from + 1 = at[1] /\ q.to = at[2] /\ q.from \in Nat /\ q.to \in Nat
                                /\ StartsWith(input.l2Msg, q, L2_SIGNED_TX)
    BY <1>1, AtOf
  <2>3. CASE Top[3] < at[1] /\ at[2] <= Top[2]
    <3>1. q.from # p.from
      <4>1. L2_SIGNED_TX # L2_BATCH
        BY FormatAssumption
      <4>. QED
        BY <1>4, <2>2, <4>1 DEF StartsWith
    <3>2. Top[1] + 1 < at[1]
      BY <1>1, <1>4, <1>5, <2>1, <2>2, <2>3, <3>1
    <3>3. new[2] = Top[2] /\ new[3] = Top[1] + 1 /\ Len(stack) \in DOMAIN stack'
      BY <1>2
    <3>. HIDE DEF new
    <3>4. stack'[Len(stack)][3] < at[1] /\ at[2] <= stack'[Len(stack)][2]
      BY <1>2, <2>3, <3>2, <3>3
    <3>. QED
      BY <3>3, <3>4 DEF Ahead
  <2>4. CASE ~(Top[3] < at[1] /\ at[2] <= Top[2])
    <3>1. PICK f \in 1 .. Len(stack) - 1 : stack[f][3] < at[1] /\ at[2] <= stack[f][2]
      BY <1>1, <2>1, <2>4, AheadOf DEF Inv
    <3>2. f \in DOMAIN stack' /\ stack'[f] = stack[f]
      BY <1>2
    <3>. QED
      BY <3>1, <3>2 DEF Ahead
  <2>. QED
    BY <2>3, <2>4
<1>9. FoundInv(list)'
  BY <1>1, <1>8, WalkFound DEF Follows
<1>. QED
  BY <1>6, <1>7, <1>9 DEF Follows

\* The next part of a batch is the one that was packed next, and the batch is
\* left when there is none.
LEMMA PartFollows ==
  ASSUME NEW input \in Inputs, input.packed # <<>>, Typed, Inv, Follows(input), BatchPart
  PROVE  Follows(input)'
<1>. DEFINE list == input.packed[1]
            start == Top[3] + LENGTH
            len == Number(Slice(payload, Top[3], start))
            fits == start <= Top[2] /\ len \in 1 .. Top[2] - start
            outer == <<Top[1], Top[2], start + len>>
            inner == <<start, start + len, start>>
<1>1. /\ pc = "walk" /\ pc' = "walk" /\ stack # <<>> /\ Top[3] # Top[1] /\ txs' = txs
      /\ stack' = IF fits THEN Front(stack) \o <<outer, inner>> ELSE Front(stack)
      /\ UNCHANGED <<payload, packed>>
  BY DEF BatchPart, Fresh
<1>2. PICK p \in input.parts : PartAt(input, p, Len(stack), Top, TRUE)
  BY <1>1, EntryOf
<1>3. PICK n \in 0 .. Len(p.parts) : Top[3] = After(p, n)
  BY <1>1, <1>2 DEF PartAt, Opened
<1>4. /\ p.from = Top[1] /\ p.to = Top[2] /\ p.depth = Len(stack) - 1
      /\ StartsWith(input.l2Msg, p, L2_BATCH) /\ p.depth < MAX_BATCH_DEPTH
  BY <1>1, <1>2 DEF PartAt, Opened
<1>5. /\ p \in PackedPart /\ IsNesting(input.l2Msg, input.parts) /\ payload = input.l2Msg
      /\ input.parts \in SUBSET PackedPart
  BY <1>1, EntryOf
<1>6. IsBatch(payload, p)
  BY <1>4, <1>5 DEF IsNesting
<1>7. /\ p.from \in Nat /\ p.to \in Nat /\ p.depth \in Nat /\ Len(p.parts) \in Nat
      /\ DOMAIN p.parts = 1 .. Len(p.parts)
      /\ \A m \in DOMAIN p.parts : p.parts[m].from \in Nat /\ p.parts[m].to \in Nat
      /\ Top[1] \in Nat /\ Top[2] \in Nat /\ Top[3] \in Nat /\ LENGTH \in Nat \ {0}
  BY <1>1, <1>5, PartOf, TopOf, Widths
\* What is ahead in the batch is in one of the parts after the n-th.
<1>8. ASSUME NEW k \in DOMAIN list, Top[3] < list[k].at[1], list[k].at[2] <= Top[2]
      PROVE  \E j \in DOMAIN p.parts : /\ n < j /\ p.parts[j].from < list[k].at[1] /\ list[k].at[2] <= p.parts[j].to
  <2>. DEFINE at == list[k].at
  <2>1. PICK q \in input.parts : /\ q.from + 1 = at[1] /\ q.to = at[2] /\ q.from \in Nat /\ q.to \in Nat /\ q.from < q.to
    BY <1>1, AtOf
  <2>2. q.from < q.to /\ After(p, n) <= q.from /\ q.to <= p.to
    BY <1>3, <1>4, <1>7, <1>8, <2>1
  <2>3. \E j \in DOMAIN p.parts : n < j /\ Within(q, p.parts[j])
    BY <1>4, <1>5, <2>2, InLater
  <2>4. PICK j \in DOMAIN p.parts : n < j /\ Within(q, p.parts[j])
    BY <2>3
  <2>. DEFINE a == p.parts[j].from
              b == p.parts[j].to
              c == at[1]
              d == at[2]
  <2>5. a \in Nat /\ b \in Nat /\ q.from \in Nat /\ q.from + 1 = c /\ q.to = d /\ a <= q.from /\ q.to <= b
    BY <1>7, <2>1, <2>4 DEF Within
  <2>. HIDE DEF a, b, c, d
  <2>6. a < c /\ d <= b
    BY ONLY <2>5
  <2>. QED
    BY <2>4, <2>6 DEF a, b, c, d
<1>9. CASE n = Len(p.parts)
  <2>1. ~fits
    <3>1. \/ ~(After(p, n) + LENGTH <= p.to)
          \/ Number(Slice(payload, After(p, n), After(p, n) + LENGTH)) \notin 1 .. p.to - After(p, n) - LENGTH
      BY <1>6, <1>9 DEF IsBatch
    <3>2. p.to - After(p, n) - LENGTH = Top[2] - start
      BY <1>3, <1>4, <1>7
    <3>. QED
      BY <1>3, <1>4, <3>1, <3>2
  <2>2. stack' = Front(stack)
    BY <1>1, <2>1
  <2>3. ASSUME NEW k \in DOMAIN list, Ahead(list[k].at) PROVE Ahead(list[k].at)'
    <3>. DEFINE at == list[k].at
    <3>1. at[1] \in Nat /\ at[2] \in Nat /\ Ahead(at)
      BY <1>1, <2>3, AtOf
    <3>2. ~(Top[3] < at[1] /\ at[2] <= Top[2])
      BY <1>7, <1>8, <1>9
    <3>. QED
      BY <1>1, <2>2, <3>1, <3>2, LeaveFollows DEF Inv
  <2>4. FoundInv(list)'
    BY <1>1, <2>3, WalkFound DEF Follows
  <2>. QED
    BY <1>1, <2>2, <2>4, LeaveFollows DEF Follows, Inv
<1>10. CASE n # Len(p.parts)
  <2>. DEFINE part == p.parts[n + 1]
  <2>1. n + 1 \in DOMAIN p.parts /\ n + 1 - 1 = n /\ n + 1 \in 0 .. Len(p.parts) /\ n + 1 # 0 /\ n \in Nat
    BY <1>7, <1>10
  <2>2. /\ part.from = After(p, n) + LENGTH /\ part.from < part.to /\ part.to <= p.to
        /\ Number(Slice(payload, After(p, n), After(p, n) + LENGTH)) = part.to - part.from
    BY <1>6, <2>1 DEF IsBatch
  <2>3. part.from \in Nat /\ part.to \in Nat /\ part.from = start /\ len = part.to - part.from
    BY <1>3, <1>7, <2>1, <2>2
  <2>. HIDE DEF start, len
  <2>4. start \in Nat /\ len \in Nat /\ start + len = part.to /\ fits
    <3>. HIDE DEF part
    <3>. DEFINE a == part.from
                b == part.to
                c == Top[2]
    <3>0. a \in Nat /\ b \in Nat /\ c \in Nat /\ a = start /\ len = b - a /\ a < b /\ b <= c
      BY <1>4, <1>7, <2>2, <2>3
    <3>. HIDE DEF a, b, c
    <3>1. start \in Nat /\ len \in Nat /\ start + len = b /\ 1 <= len /\ start <= c /\ len <= c - start
      BY ONLY <3>0
    <3>2. 1 <= len /\ start <= Top[2] /\ len <= Top[2] - start
      BY <3>1 DEF c
    <3>3. len \in 1 .. Top[2] - start
      BY <1>7, <3>1, <3>2
    <3>. QED
      BY <3>1, <3>2, <3>3 DEF b
  <2>5. stack' = Front(stack) \o <<outer, inner>>
    BY <1>1, <2>4
  <2>6. outer \in Span /\ inner \in Span
    <3>1. start + len \in Nat
      BY <2>4
    <3>. QED
      BY <1>7, <2>4, <3>1 DEF Span
  <2>7. /\ outer[1] = p.from /\ outer[2] = p.to /\ outer[3] = part.to
        /\ inner[1] = part.from /\ inner[2] = part.to /\ inner[3] = part.from
    BY <1>4, <2>3, <2>4
  <2>. HIDE DEF outer, inner, fits
  <2>8. /\ Len(stack) \in Nat \ {0} /\ Len(stack') = Len(stack) + 1 /\ DOMAIN stack' = 1 .. Len(stack) + 1
        /\ DOMAIN stack = 1 .. Len(stack)
        /\ \A f \in 1 .. Len(stack) - 1 : stack'[f] = stack[f]
        /\ stack'[Len(stack)] = outer /\ stack'[Len(stack) + 1] = inner
    BY <1>1, <2>5, <2>6, StackParted
  <2>9. Reads(input)'
    <3>1. input.isL2Message
      BY <1>1 DEF Follows, Reads
    <3>. QED
      BY <1>1, <3>1 DEF Follows, Reads
  <2>10. PartsInv(input)'
    <3>1. ASSUME NEW f \in 1 .. Len(stack) - 1
          PROVE  \E r \in input.parts : PartAt(input, r, f, stack'[f], f = Len(stack'))
      <4>1. f \in 1 .. Len(stack) /\ f # Len(stack)
        <5>1. Len(stack) \in Nat
          BY <2>8
        <5>. QED
          BY ONLY <5>1, <3>1
      <4>2. f \in DOMAIN stack /\ f # Len(stack) /\ stack'[f] = stack[f]
        BY <2>8, <4>1
      <4>. QED
        BY <4>2, OuterParts DEF Follows
    <3>2. \E r \in input.parts : PartAt(input, r, Len(stack), stack'[Len(stack)], Len(stack) = Len(stack'))
      <4>1. Opened(input, p, outer)
        <5>1. After(p, n + 1) = part.to
          BY <2>1 DEF After
        <5>. QED
          BY <1>4, <2>1, <2>7, <5>1 DEF Opened
      <4>2. p.depth <= MAX_BATCH_DEPTH
        BY <1>2 DEF PartAt
      <4>3. PartAt(input, p, Len(stack), outer, Len(stack) = Len(stack'))
        BY <1>4, <2>7, <4>1, <4>2 DEF PartAt
      <4>. QED
        BY <2>8, <4>3
    <3>3. \E r \in input.parts : PartAt(input, r, Len(stack) + 1, stack'[Len(stack) + 1], Len(stack) + 1 = Len(stack'))
      <4>1. PICK r \in input.parts : r.from = part.from /\ r.to = part.to /\ r.depth = p.depth + 1
        BY <1>5, <2>1 DEF IsNesting
      <4>2. r.depth = Len(stack) + 1 - 1 /\ r.depth <= MAX_BATCH_DEPTH
        <5>1. MAX_BATCH_DEPTH \in Nat
          BY FormatAssumption
        <5>. QED
          BY <1>4, <1>7, <2>8, <4>1, <5>1
      <4>3. PartAt(input, r, Len(stack) + 1, inner, Len(stack) + 1 = Len(stack'))
        BY <2>7, <2>8, <4>1, <4>2 DEF PartAt
      <4>. QED
        BY <2>8, <4>3
    <3>4. \A f \in DOMAIN stack' : f \in 1 .. Len(stack) - 1 \/ f = Len(stack) \/ f = Len(stack) + 1
      BY <2>8
    <3>. QED
      BY <3>1, <3>2, <3>3, <3>4 DEF PartsInv
  <2>11. ASSUME NEW k \in DOMAIN list, Ahead(list[k].at) PROVE Ahead(list[k].at)'
    <3>. DEFINE at == list[k].at
    <3>1. at[1] \in Nat /\ at[2] \in Nat /\ Ahead(at)
      BY <1>1, <2>11, AtOf
    <3>2. CASE Top[3] < at[1] /\ at[2] <= Top[2]
      <4>1. PICK j \in DOMAIN p.parts : n < j /\ p.parts[j].from < at[1] /\ at[2] <= p.parts[j].to
        BY <1>8, <3>2
      <4>2. CASE j = n + 1
        <5>1. Len(stack) + 1 \in DOMAIN stack' /\ inner[3] < at[1] /\ at[2] <= inner[2]
          BY <2>7, <2>8, <4>1, <4>2
        <5>. QED
          BY <2>8, <5>1 DEF Ahead
      <4>3. CASE j # n + 1
        <5>1. n + 1 < j
          BY <1>7, <2>1, <4>1, <4>3
        <5>2. part.to < p.parts[j].from
          BY <1>5, <1>6, <2>1, <5>1, PartsAscend
        <5>3. p.parts[j].from \in Nat
          BY <1>7
        <5>. DEFINE a == p.parts[j].from
                    b == part.to
                    c == at[1]
        <5>4. a \in Nat /\ b \in Nat /\ c \in Nat /\ b < a /\ a < c
          BY <2>3, <3>1, <4>1, <5>2, <5>3
        <5>. HIDE DEF a, b, c
        <5>5. b < c
          BY ONLY <5>4
        <5>6. Len(stack) \in DOMAIN stack'
          BY <2>8
        <5>7. outer[3] < at[1] /\ at[2] <= outer[2]
          BY <1>4, <2>7, <3>2, <5>5 DEF b, c
        <5>. QED
          BY <2>8, <5>6, <5>7 DEF Ahead
      <4>. QED
        BY <4>2, <4>3
    <3>3. CASE ~(Top[3] < at[1] /\ at[2] <= Top[2])
      <4>1. PICK f \in 1 .. Len(stack) - 1 : stack[f][3] < at[1] /\ at[2] <= stack[f][2]
        BY <1>1, <3>1, <3>3, AheadOf DEF Inv
      <4>2. f \in DOMAIN stack' /\ stack'[f] = stack[f]
        BY <2>8
      <4>. QED
        BY <4>1, <4>2 DEF Ahead
    <3>. QED
      BY <3>2, <3>3
  <2>12. FoundInv(list)'
    BY <1>1, <2>11, WalkFound DEF Follows
  <2>. QED
    BY <2>9, <2>10, <2>12 DEF Follows
<1>. QED
  BY <1>9, <1>10

\* The transaction that is reached is the next one that was packed.
LEMMA SignedFollows ==
  ASSUME NEW input \in Inputs, input.packed # <<>>, Typed, Inv, Follows(input), WalkSigned
  PROVE  Follows(input)'
<1>. DEFINE list == input.packed[1]
            m == Len(txs)
<1>1. /\ pc = "walk" /\ pc' = "decode" /\ stack # <<>> /\ Top[3] = Top[1] /\ txs' = txs
      /\ stack' = Front(stack) /\ raw' = <<Top[1] + 1, Top[2]>> /\ Starts(L2_SIGNED_TX)
      /\ UNCHANGED <<payload, packed>>
  BY DEF WalkSigned, Fresh
<1>2. Reads(input)' /\ PartsInv(input)'
  BY <1>1, LeaveFollows DEF Inv
<1>3. PICK p \in input.parts : PartAt(input, p, Len(stack), Top, TRUE)
  BY <1>1, EntryOf
<1>4. /\ p.from = Top[1] /\ p.to = Top[2] /\ p.depth <= MAX_BATCH_DEPTH /\ StartsWith(input.l2Msg, p, L2_SIGNED_TX)
  <2>1. payload = input.l2Msg
    BY <1>1, EntryOf
  <2>2. p.from = Top[1] /\ p.to = Top[2] /\ p.depth <= MAX_BATCH_DEPTH
    BY <1>3 DEF PartAt
  <2>. QED
    BY <1>1, <2>1, <2>2 DEF Starts, StartsWith
<1>5. Top[1] \in Nat /\ Top[2] \in Nat /\ Top[3] \in Nat /\ Top[1] < Top[2]
  BY <1>1, TopOf DEF Starts
<1>6. /\ DOMAIN list = 1 .. Len(list) /\ Len(list) \in Nat /\ m \in Nat /\ DOMAIN txs = 1 .. m
      /\ AreTxsOf(input.l2Msg, input.parts, list)
  BY <1>1, EntryOf
<1>7. ~InHand /\ Taken = m
  BY <1>1, <1>6 DEF InHand, Taken
<1>8. /\ m <= Len(list) /\ \A k \in DOMAIN txs : txs[k].raw = list[k].at
      /\ \A k \in DOMAIN list : k > m => Ahead(list[k].at)
  BY <1>7 DEF Follows, FoundInv
<1>9. raw'[1] = Top[1] + 1 /\ raw'[2] = Top[2]
  BY <1>1
\* What is ahead is the transaction in the slice, or after the slice.
<1>10. ASSUME NEW k \in DOMAIN list, k > m
       PROVE  \/ list[k].at = raw' /\ raw'[1] < raw'[2]
              \/ Top[2] < list[k].at[1] /\ Ahead(list[k].at)'
  <2>. DEFINE at == list[k].at
  <2>1. at[1] \in Nat /\ at[2] \in Nat /\ at[1] < at[2] /\ at = <<at[1], at[2]>> /\ Ahead(at)
    BY <1>1, <1>8, <1>10, AtOf
  <2>2. CASE Top[3] < at[1] /\ at[2] <= Top[2]
    <3>1. PICK q \in input.parts : /\ q.from + 1 = at[1] /\ q.to = at[2] /\ q.from \in Nat /\ q.to \in Nat /\ q.from < q.to
      BY <1>1, AtOf
    <3>2. p.from <= q.from /\ q.to <= p.to
      BY <1>1, <1>4, <1>5, <2>1, <2>2, <3>1
    <3>3. q = p
      <4>1. SUFFICES ASSUME q # p PROVE FALSE
        OBVIOUS
      <4>2. Within(q, p) /\ q \in input.parts \ {p} /\ IsNesting(input.l2Msg, input.parts)
        BY <1>1, <3>2, <4>1, EntryOf DEF Within
      <4>3. \E n \in DOMAIN p.parts : Within(q, p.parts[n])
        BY <4>2 DEF IsNesting
      <4>4. StartsWith(input.l2Msg, p, L2_BATCH)
        <5>1. p.parts # <<>>
          BY <4>3
        <5>. QED
          BY <4>2, <5>1 DEF IsNesting
      <4>5. L2_SIGNED_TX # L2_BATCH
        BY FormatAssumption
      <4>. QED
        BY <1>4, <4>4, <4>5 DEF StartsWith
    <3>4. at = raw'
      BY <1>1, <1>4, <2>1, <3>1, <3>3
    <3>. QED
      BY <2>1, <3>4
  <2>3. CASE ~(Top[3] < at[1] /\ at[2] <= Top[2])
    <3>1. Top[2] < at[1]
      BY <1>1, <2>1, <2>3, AheadOf DEF Inv
    <3>2. Ahead(at)'
      BY <1>1, <2>1, <2>3, LeaveFollows DEF Inv
    <3>. QED
      BY <3>1, <3>2
  <2>. QED
    BY <2>2, <2>3
<1>11. CASE raw'[1] < raw'[2]
  <2>1. InHand' /\ Taken' = m + 1
    BY <1>1, <1>6, <1>11 DEF InHand, Taken
  <2>2. PICK k \in DOMAIN list : list[k].at = raw'
    <3>1. p.from + 1 < p.to
      BY <1>4, <1>9, <1>11
    <3>2. raw' = <<p.from + 1, p.to>>
      BY <1>1, <1>4
    <3>. QED
      BY <1>4, <1>6, <3>1, <3>2 DEF AreTxsOf
  <2>3. k > m
    <3>1. SUFFICES ASSUME k \in DOMAIN txs PROVE FALSE
      BY <1>6
    <3>2. list[k].at[2] <= Top[3]
      BY <1>1, <3>1, FoundBefore
    <3>. QED
      BY <1>1, <1>5, <1>9, <2>2, <3>2
  <2>4. k = m + 1
    <3>1. SUFFICES ASSUME m + 1 < k PROVE FALSE
      BY <1>6, <2>3
    <3>2. m + 1 \in DOMAIN list /\ m + 1 > m
      BY <1>6, <3>1
    <3>3. list[m + 1].at[2] <= list[k].at[1]
      BY <1>6, <3>1, <3>2 DEF AreTxsOf
    <3>4. list[m + 1].at[1] \in Nat /\ list[m + 1].at[2] \in Nat /\ list[m + 1].at[1] < list[m + 1].at[2]
      BY <1>1, <3>2, AtOf
    <3>5. list[m + 1].at = raw' \/ Top[2] < list[m + 1].at[1]
      BY <1>10, <3>2
    <3>. QED
      BY <1>5, <1>9, <1>11, <2>2, <3>3, <3>4, <3>5
  <2>5. ASSUME NEW j \in DOMAIN list, j > m + 1 PROVE Ahead(list[j].at)'
    <3>1. list[k].at[2] <= list[j].at[1]
      BY <1>6, <2>4, <2>5 DEF AreTxsOf
    <3>2. list[j].at # raw'
      BY <1>9, <1>5, <1>11, <2>2, <3>1
    <3>3. j > m
      BY <1>6, <2>5
    <3>. QED
      BY <1>10, <3>2, <3>3
  <2>6. FoundInv(list)'
    <3>1. m + 1 <= Len(list)
      BY <1>6, <2>4
    <3>2. \A j \in DOMAIN txs' : txs'[j].raw = list[j].at
      BY <1>1, <1>8
    <3>. QED
      BY <2>1, <2>2, <2>4, <2>5, <3>1, <3>2 DEF FoundInv
  <2>. QED
    BY <1>2, <2>6 DEF Follows
<1>12. CASE ~(raw'[1] < raw'[2])
  <2>1. ~InHand' /\ Taken' = m
    BY <1>1, <1>6, <1>12 DEF InHand, Taken
  <2>2. /\ \A j \in DOMAIN txs' : txs'[j].raw = list[j].at
        /\ \A j \in DOMAIN list : j > m => Ahead(list[j].at)'
    BY <1>1, <1>8, <1>10, <1>12
  <2>3. FoundInv(list)'
    BY <1>8, <2>1, <2>2 DEF FoundInv
  <2>. QED
    BY <1>2, <2>3 DEF Follows
<1>. QED
  BY <1>11, <1>12

\* It is the next one found.
LEMMA PushFollows ==
  ASSUME NEW input, input.packed[1] \in Seq(PackedTx), Typed, Inv, Follows(input),
         pc \in {"decode", "scan", "model"}, raw[1] < raw[2], NEW tx, tx.raw = raw, Push(tx)
  PROVE  Follows(input)'
<1>. DEFINE list == input.packed[1]
            m == Len(txs)
<1>1. pc' = "walk" /\ txs' = Append(txs, tx) /\ UNCHANGED <<payload, packed, stack>>
  BY DEF Push
<1>2. InHand /\ ~InHand'
  BY <1>1 DEF InHand
<1>3. txs \in Seq(Tx) /\ m \in Nat
  BY DEF Typed
<1>4. /\ Len(Append(txs, tx)) = m + 1 /\ DOMAIN Append(txs, tx) = 1 .. m + 1 /\ DOMAIN txs = 1 .. m
      /\ \A k \in 1 .. m : Append(txs, tx)[k] = txs[k]
      /\ Append(txs, tx)[m + 1] = tx
  BY <1>3
<1>5. Taken = m + 1 /\ Taken' = m + 1
  BY <1>1, <1>2, <1>3, <1>4 DEF Taken
<1>6. /\ m + 1 <= Len(list) /\ \A k \in DOMAIN txs : txs[k].raw = list[k].at
      /\ raw = list[m + 1].at
      /\ \A k \in DOMAIN list : k > m + 1 => Ahead(list[k].at)
  BY <1>2, <1>5 DEF Follows, FoundInv
<1>7. \A k \in DOMAIN txs' : txs'[k].raw = list[k].at
  <2>1. \A k \in 1 .. m + 1 : k \in 1 .. m \/ k = m + 1
    BY <1>3
  <2>. QED
    BY <1>1, <1>4, <1>6, <2>1
<1>8. \A k \in DOMAIN list : k > m + 1 => Ahead(list[k].at)'
  BY <1>1, <1>6 DEF Ahead
<1>9. FoundInv(list)'
  BY <1>2, <1>5, <1>6, <1>7, <1>8 DEF FoundInv
<1>10. Reads(input)' /\ PartsInv(input)'
  BY <1>1 DEF Follows, Reads, PartsInv
<1>. QED
  BY <1>9, <1>10 DEF Follows

\* Nothing changes hands.
LEMMA StayFollows ==
  ASSUME NEW input, Typed, Follows(input), UNCHANGED <<payload, packed, stack, raw, txs>>,
         InHand' <=> InHand
  PROVE  Follows(input)'
<1>1. Taken' = Taken
  BY DEF Taken
<1>2. \A at : Ahead(at)' <=> Ahead(at)
  BY DEF Ahead
<1>3. FoundInv(input.packed[1])'
  BY <1>1, <1>2 DEF Follows, FoundInv
<1>4. Reads(input)' /\ PartsInv(input)'
  BY DEF Follows, Reads, PartsInv
<1>. QED
  BY <1>3, <1>4 DEF Follows

LEMMA FollowsStep ==
  ASSUME NEW input \in Inputs, input.packed # <<>>, Typed, Inv, Follows(input), [CodecNext]_codecVars
  PROVE  Follows(input)'
<1>0. input.packed[1] \in Seq(PackedTx)
  BY PackedOf
<1>1. pc \in {"scan", "model"} => raw[1] < raw[2]
  BY DEF Inv, RawInv
<1>2. RawBytes # <<>> <=> raw[1] < raw[2]
  BY RawOf DEF Inv
<1>3. CASE DecodeOpaque \/ ScanMalformed \/ Model
  <2>1. /\ pc \in {"decode", "scan", "model"} /\ raw[1] < raw[2]
        /\ \E tx : tx.raw = raw /\ Push(tx)
    <3>1. CASE DecodeOpaque \/ ScanMalformed
      <4>1. Opaque(raw, TxType(RawBytes)).raw = raw
        BY DEF Opaque
      <4>. QED
        BY <1>1, <1>2, <3>1, <4>1 DEF DecodeOpaque, ScanMalformed
    <3>2. CASE Model
      <4>1. Modeled(raw, Buf, TxType(RawBytes), fields).raw = raw
        BY DEF Modeled, Opaque
      <4>. QED
        BY <1>1, <3>2, <4>1 DEF Model
    <3>. QED
      BY <1>3, <3>1, <3>2
  <2>. QED
    BY <1>0, <2>1, PushFollows
<1>4. CASE DecodeEmpty \/ DecodeList \/ ScanItem \/ ScanDone \/ WalkDone \/ UNCHANGED codecVars
  <2>1. UNCHANGED <<payload, packed, stack, raw, txs>>
    BY <1>4 DEF DecodeEmpty, DecodeList, ScanItem, ScanDone, WalkDone, codecVars
  <2>2. InHand' <=> InHand
    <3>1. CASE DecodeEmpty
      BY <1>2, <2>1, <3>1 DEF DecodeEmpty, InHand
    <3>2. CASE DecodeList \/ ScanItem \/ ScanDone \/ WalkDone \/ UNCHANGED codecVars
      <4>1. \/ pc \in {"decode", "scan", "model"} /\ pc' \in {"decode", "scan", "model"}
            \/ pc = "walk" /\ pc' = "done"
            \/ pc' = pc
        BY <3>2 DEF DecodeList, ScanItem, ScanDone, WalkDone, codecVars
      <4>. QED
        BY <2>1, <4>1 DEF InHand
    <3>. QED
      BY <1>4, <3>1, <3>2
  <2>. QED
    BY <2>1, <2>2, StayFollows
<1>. QED
  BY <1>3, <1>4, SignedFollows, BatchFollows, OtherFollows, PartFollows DEF CodecNext

\* The decoder starts with all of the entry ahead.
LEMMA FollowsInit ==
  ASSUME CodecInit, NEW input \in Inputs, input.packed # <<>>, payload = input.l2Msg, packed = input.packed,
         stack = IF input.isL2Message THEN <<<<0, Len(input.l2Msg), 0>>>> ELSE <<>>
  PROVE  Follows(input)
<1>. DEFINE list == input.packed[1]
<1>1. /\ input.parts \in SUBSET PackedPart /\ list \in Seq(PackedTx)
      /\ \A part \in input.parts : part.from <= part.to /\ part.to <= Len(input.l2Msg)
      /\ input.isL2Message => /\ IsNesting(input.l2Msg, input.parts)
                              /\ AreTxsOf(input.l2Msg, input.parts, list)
      /\ ~input.isL2Message => list = <<>>
  BY PackedOf
<1>2. Len(list) \in Nat /\ DOMAIN list = 1 .. Len(list)
  BY <1>1
<1>3. pc = "walk" /\ txs = <<>>
  BY DEF CodecInit
<1>4. ~InHand /\ Taken = 0
  BY <1>3 DEF InHand, Taken
<1>5. CASE input.isL2Message
  <2>. DEFINE whole == <<0, Len(input.l2Msg), 0>>
  <2>1. stack = <<whole>>
    BY <1>5
  <2>2. Len(stack) = 1 /\ DOMAIN stack = {1} /\ stack[1] = whole /\ stack # <<>>
    <3>. HIDE DEF whole
    <3>. QED
      BY ONLY <2>1
  <2>3. Reads(input)
    BY <1>5 DEF Reads
  <2>4. PartsInv(input)
    <3>1. PICK p \in input.parts : p.from = 0 /\ p.to = Len(input.l2Msg) /\ p.depth = 0
      BY <1>1, <1>5 DEF IsNesting
    <3>2. MAX_BATCH_DEPTH \in Nat
      BY FormatAssumption
    <3>3. PartAt(input, p, 1, whole, TRUE)
      BY <3>1, <3>2 DEF PartAt
    <3>. HIDE DEF whole
    <3>. QED
      BY <2>2, <3>3 DEF PartsInv
  <2>5. ASSUME NEW k \in DOMAIN list PROVE Ahead(list[k].at)
    <3>. DEFINE at == list[k].at
                parts == input.parts
    <3>1. parts \in SUBSET PackedPart /\ AreTxsOf(input.l2Msg, parts, list)
      BY <1>1, <1>5
    <3>2. /\ at[1] \in Nat /\ at[2] \in Nat
          /\ \E q \in parts : q.from + 1 = at[1] /\ q.to = at[2]
      <4>. HIDE DEF list, parts
      <4>. QED
        BY <1>1, <2>5, <3>1, TxPart DEF list
    <3>3. PICK q \in input.parts : q.from + 1 = at[1] /\ q.to = at[2]
      BY <3>2
    <3>4. q \in PackedPart /\ q.to <= Len(input.l2Msg)
      BY <1>1
    <3>5. q.from \in Nat
      BY <3>4, PartOf
    <3>6. 0 < at[1] /\ at[2] <= Len(input.l2Msg)
      BY <3>2, <3>3, <3>4, <3>5
    <3>7. whole[3] = 0 /\ whole[2] = Len(input.l2Msg)
      OBVIOUS
    <3>. HIDE DEF whole
    <3>. QED
      BY <2>2, <3>6, <3>7 DEF Ahead
  <2>6. FoundInv(list)
    BY <1>2, <1>3, <1>4, <2>5 DEF FoundInv
  <2>. QED
    BY <2>3, <2>4, <2>6 DEF Follows
<1>6. CASE ~input.isL2Message
  <2>1. stack = <<>> /\ list = <<>>
    BY <1>1, <1>6
  <2>2. Reads(input) /\ PartsInv(input)
    BY <2>1 DEF Reads, PartsInv
  <2>3. FoundInv(list)
    BY <1>3, <1>4, <2>1 DEF FoundInv
  <2>. QED
    BY <2>2, <2>3 DEF Follows
<1>. QED
  BY <1>5, <1>6

\* The decoder follows what was packed, where that is known, and leaves every slice.
PackInv ==
  /\ \E input \in Inputs : payload = input.l2Msg /\ packed = input.packed
                           /\ (input.packed # <<>> => Follows(input))
  /\ pc = "done" => stack = <<>>

LEMMA PackInit == CodecInit => PackInv
<1>. SUFFICES ASSUME CodecInit PROVE PackInv
  OBVIOUS
<1>1. PICK input \in Inputs :
        /\ payload = input.l2Msg /\ packed = input.packed
        /\ stack = IF input.isL2Message THEN <<<<0, Len(input.l2Msg), 0>>>> ELSE <<>>
  BY DEF CodecInit
<1>2. input.packed # <<>> => Follows(input)
  BY <1>1, FollowsInit
<1>3. pc # "done"
  BY DEF CodecInit
<1>. QED
  BY <1>1, <1>2, <1>3 DEF PackInv

LEMMA PackStep == Typed /\ Inv /\ PackInv /\ [CodecNext]_codecVars => PackInv'
<1>. SUFFICES ASSUME Typed, Inv, PackInv, [CodecNext]_codecVars PROVE PackInv'
  OBVIOUS
<1>1. PICK input \in Inputs : payload = input.l2Msg /\ packed = input.packed
                             /\ (input.packed # <<>> => Follows(input))
  BY DEF PackInv
<1>2. UNCHANGED <<payload, packed>> /\ (pc' = "done" => stack' = <<>>)
  BY DEF PackInv, CodecNext, WalkSigned, WalkBatch, WalkOther, BatchPart, WalkDone, DecodeEmpty, DecodeOpaque,
         DecodeList, ScanItem, ScanMalformed, ScanDone, Model, Push, codecVars
<1>3. input.packed # <<>> => Follows(input)'
  BY <1>1, FollowsStep
<1>. QED
  BY <1>1, <1>2, <1>3 DEF PackInv

\* At the end nothing is ahead.
LEMMA PackSuffices == Typed /\ Inv /\ PackInv => PackedIsFound
<1>. SUFFICES ASSUME Typed, Inv, PackInv, pc = "done", packed # <<>>
              PROVE  [k \in DOMAIN txs |-> Raw(txs[k])] = [k \in DOMAIN packed[1] |-> packed[1][k].raw]
  BY DEF PackedIsFound
<1>1. PICK input \in Inputs : payload = input.l2Msg /\ packed = input.packed
                             /\ (input.packed # <<>> => Follows(input))
  BY DEF PackInv
<1>. DEFINE list == packed[1]
<1>2. stack = <<>> /\ Follows(input)
  BY <1>1 DEF PackInv
<1>3. list \in Seq(PackedTx) /\ list = input.packed[1]
  BY <1>1, PackedOf
<1>4. Len(list) \in Nat /\ DOMAIN list = 1 .. Len(list) /\ Len(txs) \in Nat /\ DOMAIN txs = 1 .. Len(txs)
  BY <1>3 DEF Typed
<1>5. \A at : ~Ahead(at)
  BY <1>2 DEF Ahead
<1>6. Taken = Len(txs)
  BY <1>4 DEF InHand, Taken
<1>7. /\ Len(txs) <= Len(list) /\ \A k \in DOMAIN txs : txs[k].raw = list[k].at
      /\ \A k \in DOMAIN list : ~(k > Len(txs))
  BY <1>2, <1>3, <1>5, <1>6 DEF Follows, FoundInv
<1>8. DOMAIN txs = DOMAIN list
  <2>1. ~(Len(txs) < Len(list))
    <3>1. SUFFICES ASSUME Len(txs) < Len(list) PROVE FALSE
      OBVIOUS
    <3>2. Len(list) \in DOMAIN list
      BY <1>4, <3>1
    <3>. QED
      BY <1>4, <1>7, <3>1, <3>2
  <2>. QED
    BY <1>4, <1>7, <2>1
<1>9. ASSUME NEW k \in DOMAIN txs PROVE Raw(txs[k]) = list[k].raw
  <2>1. input.isL2Message
    <3>1. list # <<>>
      BY <1>8, <1>9
    <3>. QED
      BY <1>1, <1>3, <3>1, PackedOf
  <2>2. AreTxsOf(payload, input.parts, list)
    BY <1>1, <1>3, <2>1, PackedOf
  <2>3. list[k].raw = Slice(payload, list[k].at[1], list[k].at[2])
    BY <1>8, <1>9, <2>2 DEF AreTxsOf
  <2>. QED
    BY <1>7, <1>9, <2>3 DEF Raw
<1>10. \A k \in DOMAIN txs : Raw(txs[k]) = list[k].raw
  BY <1>9
<1>. HIDE DEF list
<1>11. [k \in DOMAIN txs |-> Raw(txs[k])] = [k \in DOMAIN list |-> list[k].raw]
  BY ONLY <1>8, <1>10
<1>. QED
  BY ONLY <1>11 DEF list

(***************************************************************************)
(* The walk finds what was packed, however it is nested: every transaction *)
(* in batches no deeper than the decoder reads, once and in order, and     *)
(* nothing else (codec.rs).                                                *)
(***************************************************************************)
THEOREM PackedCorrect == CodecSpec => []PackedIsFound
BY InvInit, CodecStep, PackInit, PackStep, PackSuffices, PTL DEF CodecSpec

-----------------------------------------------------------------------------
(* Numbers and their bytes *)

LEMMA Division ==
  ASSUME NEW a \in Nat, NEW n \in Nat, n > 0
  PROVE  /\ a \div n \in Nat /\ a % n \in 0 .. n - 1
         /\ a = (a \div n) * n + (a % n)
OBVIOUS

LEMMA DivisionUnique ==
  ASSUME NEW n \in Nat, n > 0, NEW q \in Nat, NEW r \in 0 .. n - 1
  PROVE  (q * n + r) \div n = q /\ (q * n + r) % n = r
OBVIOUS

LEMMA QuotientLess ==
  ASSUME NEW n \in Nat, n > 0, NEW b \in Nat, b >= 2
  PROVE  n \div b \in 0 .. n - 1
<1>. DEFINE q == n \div b
            r == n % b
<1>1. q \in Nat /\ n = q * b + r /\ r \in 0 .. b - 1
  BY Division
<1>. HIDE DEF q, r
<1>. DEFINE c == b - 2
            x == q * c
<1>2. c \in Nat /\ b = c + 2
  OBVIOUS
<1>3. q * (c + 2) = q * c + 2 * q
  BY <1>1, <1>2
<1>4. x \in Nat
  BY <1>1, <1>2
<1>5. n = x + 2 * q + r /\ r \in Nat
  BY <1>1, <1>2, <1>3
<1>. HIDE DEF x, c
<1>6. q \in 0 .. n - 1
  BY <1>1, <1>4, <1>5
<1>. QED
  BY <1>6 DEF q

LEMMA TwoBytes == BASE \in Nat /\ BASE >= 2 /\ BASE > 0
BY Widths DEF STR, LIST, BASE

\* The folds of a sequence and of a longer one agree where it goes.
LEMMA FoldPrefix ==
  ASSUME NEW bytes, NEW longer, NEW len \in Nat, \A k \in 1 .. len : longer[k] = bytes[k],
         NEW g, Folds(g, bytes, 1 .. len), NEW more \in Nat, len <= more,
         NEW h, Folds(h, longer, 1 .. more)
  PROVE  \A n \in 0 .. len : g[1 .. n] = h[1 .. n]
<1>. DEFINE Bad == {n \in 0 .. len : g[1 .. n] # h[1 .. n]}
<1>1. SUFFICES ASSUME Bad # {} PROVE FALSE
  OBVIOUS
<1>0. Bad \subseteq Nat
  OBVIOUS
<1>2. PICK n \in Bad : \A m \in Bad : n <= m
  <2>. HIDE DEF Bad
  <2>. QED
    BY <1>0, <1>1, Least
<1>3. n \in 0 .. len /\ g[1 .. n] # h[1 .. n]
  BY <1>2
<1>. DEFINE s == 1 .. n
<1>4. s \in SUBSET (1 .. len) /\ s \in SUBSET (1 .. more)
  BY <1>3
<1>5. /\ g[s] = IF s = {} THEN 0 ELSE g[s \ {Max(s)}] * BASE + bytes[Max(s)]
      /\ h[s] = IF s = {} THEN 0 ELSE h[s \ {Max(s)}] * BASE + longer[Max(s)]
  BY <1>4 DEF Folds
<1>6. s # {} /\ n \in s
  BY <1>3, <1>5
<1>7. Max(s) = n
  <2>1. n \in Nat /\ s \in SUBSET (1 .. n)
    BY <1>3
  <2>. HIDE DEF s
  <2>. QED
    BY <1>6, <2>1, MaxUpTo
<1>8. s \ {n} = 1 .. n - 1 /\ n - 1 \in 0 .. len /\ longer[n] = bytes[n] /\ ~(n <= n - 1)
  BY <1>3, <1>6
<1>9. g[1 .. n - 1] = h[1 .. n - 1]
  BY <1>2, <1>8
<1>. QED
  BY <1>3, <1>5, <1>6, <1>7, <1>8, <1>9

LEMMA NumberEmpty == Number(<<>>) = 0
<1>. DEFINE none == <<>>
            iter == CHOOSE g : Folds(g, none, 1 .. 0)
<1>1. DOMAIN none = 1 .. 0 /\ 1 .. 0 = {}
  OBVIOUS
<1>. HIDE DEF none
<1>2. Folds(iter, none, 1 .. 0)
  BY FoldExists
<1>3. Number(none) = iter[1 .. 0]
  BY <1>1, NumberFolds
<1>. HIDE DEF iter
<1>4. iter[1 .. 0] = 0
  BY <1>1, <1>2 DEF Folds
<1>. QED
  BY <1>3, <1>4 DEF none

\* One more byte.
LEMMA NumberAppend ==
  ASSUME NEW bytes \in Seq(Byte), NEW byte \in Byte
  PROVE  Number(Append(bytes, byte)) = Number(bytes) * BASE + byte
<1>. DEFINE longer == Append(bytes, byte)
            len == Len(bytes)
<1>1. /\ len \in Nat /\ DOMAIN bytes = 1 .. len /\ DOMAIN longer = 1 .. len + 1 /\ longer[len + 1] = byte
      /\ \A k \in 1 .. len : longer[k] = bytes[k]
  OBVIOUS
<1>. HIDE DEF longer, len
<1>. DEFINE g == CHOOSE f : Folds(f, bytes, 1 .. len)
            h == CHOOSE f : Folds(f, longer, 1 .. len + 1)
<1>2. Folds(g, bytes, 1 .. len) /\ Folds(h, longer, 1 .. len + 1)
  <2>1. len + 1 \in Nat
    BY <1>1
  <2>. QED
    BY <1>1, <2>1, FoldExists
<1>3. Number(bytes) = g[1 .. len] /\ Number(longer) = h[1 .. len + 1]
  BY <1>1, NumberFolds
<1>. HIDE DEF g, h
<1>4. g[1 .. len] = h[1 .. len]
  <2>1. len + 1 \in Nat /\ len <= len + 1 /\ len \in 0 .. len
    BY <1>1
  <2>. QED
    BY <1>1, <1>2, <2>1, FoldPrefix
<1>5. h[1 .. len + 1] = h[1 .. len] * BASE + byte
  <2>. DEFINE s == 1 .. len + 1
  <2>1. s # {} /\ len + 1 \in s /\ s \in SUBSET (1 .. len + 1) /\ len + 1 \in Nat
    <3>1. 1 \in 1 .. len + 1 /\ len + 1 \in 1 .. len + 1 /\ len + 1 \in Nat
      BY <1>1
    <3>. QED
      BY <3>1
  <2>2. Max(s) = len + 1
    BY <2>1, MaxUpTo
  <2>3. s \ {len + 1} = 1 .. len
    BY <1>1
  <2>4. h[s] = h[s \ {Max(s)}] * BASE + longer[Max(s)]
    BY <1>2, <2>1 DEF Folds
  <2>. QED
    BY <1>1, <2>2, <2>3, <2>4
<1>. QED
  BY <1>3, <1>4, <1>5 DEF longer

\* f spells the numbers up to m.
Spells(f, m) == f = [n \in 0 .. m |-> IF n = 0 THEN <<>> ELSE Append(f[n \div BASE], n % BASE)]

LEMMA SpellsExists == ASSUME NEW m \in Nat PROVE \E f : Spells(f, m)
<1>. DEFINE Bad == {n \in Nat : ~\E f : Spells(f, n)}
<1>1. SUFFICES ASSUME Bad # {} PROVE FALSE
  OBVIOUS
<1>2. PICK n \in Bad : \A k \in Bad : n <= k
  BY <1>1, Least
<1>. DEFINE none == [k \in 0 .. 0 |-> <<>>]
<1>3. n \in Nat /\ n # 0 /\ ~\E f : Spells(f, n)
  <2>1. Spells(none, 0)
    BY DEF Spells
  <2>2. n \in Nat /\ ~\E f : Spells(f, n)
    BY <1>2
  <2>. QED
    BY <2>1, <2>2
<1>4. PICK f : Spells(f, n - 1)
  <2>1. n - 1 \in Nat /\ ~(n <= n - 1)
    BY <1>3
  <2>2. n - 1 \notin Bad
    BY <1>2, <2>1
  <2>. QED
    BY <2>1, <2>2
<1>. HIDE DEF Bad
<1>. DEFINE g == [k \in 0 .. n |-> IF k = 0 THEN <<>> ELSE Append(f[k \div BASE], k % BASE)]
<1>5. \A k \in 0 .. n - 1 : g[k] = f[k]
  <2>1. \A k \in 0 .. n - 1 : f[k] = IF k = 0 THEN <<>> ELSE Append(f[k \div BASE], k % BASE)
    BY <1>4 DEF Spells
  <2>2. \A k \in 0 .. n - 1 : k \in 0 .. n
    BY <1>3
  <2>. QED
    BY <2>1, <2>2
<1>6. \A k \in 0 .. n : k # 0 => k \div BASE \in 0 .. n - 1
  <2>. SUFFICES ASSUME NEW k \in 0 .. n, k # 0 PROVE k \div BASE \in 0 .. n - 1
    OBVIOUS
  <2>1. k \div BASE \in 0 .. k - 1
    <3>1. k \in Nat /\ k > 0
      BY <1>3
    <3>. QED
      BY <3>1, QuotientLess, TwoBytes
  <2>. DEFINE q == k \div BASE
  <2>2. q \in 0 .. k - 1
    BY <2>1
  <2>. HIDE DEF q
  <2>3. q \in 0 .. n - 1
    BY <1>3, <2>2
  <2>. QED
    BY <2>3 DEF q
<1>7. Spells(g, n)
  <2>1. \A k \in 0 .. n : k # 0 => g[k \div BASE] = f[k \div BASE]
    BY <1>5, <1>6
  <2>. QED
    BY <2>1 DEF Spells
<1>. QED
  BY <1>3, <1>7

LEMMA SpellsAgree ==
  ASSUME NEW a \in Nat, NEW b \in Nat, a <= b, NEW f, NEW g, Spells(f, a), Spells(g, b), NEW k \in 0 .. a
  PROVE  f[k] = g[k]
<1>. DEFINE Bad == {n \in 0 .. a : f[n] # g[n]}
<1>1. SUFFICES ASSUME Bad # {} PROVE FALSE
  OBVIOUS
<1>0. Bad \subseteq Nat
  OBVIOUS
<1>2. PICK n \in Bad : \A m \in Bad : n <= m
  <2>. HIDE DEF Bad
  <2>. QED
    BY <1>0, <1>1, Least
<1>3. n \in 0 .. a /\ n \in 0 .. b /\ f[n] # g[n]
  BY <1>2
<1>4. /\ f[n] = IF n = 0 THEN <<>> ELSE Append(f[n \div BASE], n % BASE)
      /\ g[n] = IF n = 0 THEN <<>> ELSE Append(g[n \div BASE], n % BASE)
  BY <1>3 DEF Spells
<1>5. n # 0
  BY <1>3, <1>4
<1>. DEFINE q == n \div BASE
<1>6. q \in 0 .. n - 1
  <2>1. n \in Nat /\ n > 0
    BY <1>3, <1>5
  <2>. QED
    BY <2>1, QuotientLess, TwoBytes
<1>. HIDE DEF q
<1>7. q \in 0 .. a /\ ~(n <= q)
  BY <1>3, <1>6
<1>8. f[q] = g[q]
  BY <1>2, <1>7
<1>. QED
  BY <1>3, <1>4, <1>8 DEF q

\* A number's bytes are those of its quotient and its remainder.
LEMMA MinimalIs ==
  ASSUME NEW n \in Nat
  PROVE  Minimal[n] = IF n = 0 THEN <<>> ELSE Append(Minimal[n \div BASE], n % BASE)
<1>. DEFINE Spelled(f) == f = [m \in Nat |-> IF m = 0 THEN <<>> ELSE Append(f[m \div BASE], m % BASE)]
            upTo(m) == CHOOSE f : Spells(f, m)
            all == [m \in Nat |-> upTo(m)[m]]
<1>1. \A m \in Nat : Spells(upTo(m), m)
  BY SpellsExists
<1>. HIDE DEF upTo
<1>2. Spelled(all)
  <2>. SUFFICES ASSUME NEW m \in Nat
                PROVE  all[m] = IF m = 0 THEN <<>> ELSE Append(all[m \div BASE], m % BASE)
    OBVIOUS
  <2>1. upTo(m)[m] = IF m = 0 THEN <<>> ELSE Append(upTo(m)[m \div BASE], m % BASE)
    <3>1. Spells(upTo(m), m) /\ m \in 0 .. m
      BY <1>1
    <3>. DEFINE f == upTo(m)
    <3>2. Spells(f, m)
      BY <3>1
    <3>. HIDE DEF f
    <3>3. f[m] = IF m = 0 THEN <<>> ELSE Append(f[m \div BASE], m % BASE)
      BY <3>1, <3>2 DEF Spells
    <3>. QED
      BY <3>3 DEF f
  <2>2. CASE m = 0
    BY <2>1, <2>2
  <2>3. CASE m # 0
    <3>. DEFINE q == m \div BASE
    <3>1. q \in 0 .. m - 1
      BY <2>3, QuotientLess, TwoBytes
    <3>. HIDE DEF q
    <3>2. q \in Nat /\ q <= m /\ q \in 0 .. q
      BY <3>1
    <3>3. upTo(q)[q] = upTo(m)[q]
      BY <1>1, <3>2, SpellsAgree
    <3>4. all[q] = upTo(m)[q]
      BY <3>2, <3>3
    <3>. QED
      BY <2>1, <2>3, <3>4 DEF q
  <2>. QED
    BY <2>2, <2>3
<1>. HIDE DEF all
<1>3. Minimal = CHOOSE f : Spelled(f)
  BY DEF Minimal
<1>4. Spelled(Minimal)
  <2>. HIDE DEF Spelled
  <2>. QED
    BY <1>2, <1>3
<1>. QED
  BY <1>4

\* There is one way to write a number without leading zeros, and Minimal finds it.
LEMMA MinimalUnique ==
  ASSUME NEW bytes \in Seq(Byte), NEW n, IsMinimal(bytes, n)
  PROVE  bytes = Minimal[n]
<1>. DEFINE Bad == {l \in Nat : \E s \in Seq(Byte) : /\ Len(s) = l /\ (s # <<>> => s[1] # 0)
                                                     /\ s # Minimal[Number(s)]}
<1>1. SUFFICES ASSUME Bad # {} PROVE FALSE
  <2>1. bytes \in Seq(Byte) /\ (bytes # <<>> => bytes[1] # 0) /\ n = Number(bytes) /\ Len(bytes) \in Nat
    BY DEF IsMinimal
  <2>2. Len(bytes) \notin Bad
    BY <1>1
  <2>. QED
    BY <2>1, <2>2
<1>2. PICK l \in Bad : \A m \in Bad : l <= m
  BY <1>1, Least
<1>3. PICK s \in Seq(Byte) : Len(s) = l /\ (s # <<>> => s[1] # 0) /\ s # Minimal[Number(s)]
  BY <1>2
<1>4. s # <<>>
  <2>1. Minimal[0] = <<>>
    BY MinimalIs
  <2>. QED
    BY <1>3, <2>1, NumberEmpty
<1>. DEFINE f == SubSeq(s, 1, l - 1)
            b == s[l]
<1>5. l \in Nat /\ l # 0 /\ l - 1 \in Nat /\ l - 1 <= Len(s) /\ l \in 1 .. Len(s)
  BY <1>3, <1>4
<1>6. f \in Seq(Byte) /\ Len(f) = l - 1 /\ \A k \in 1 .. l - 1 : f[k] = s[k]
  BY <1>5, PrefixOf
<1>7. b \in Byte
  BY <1>5
<1>. HIDE DEF f, b
<1>8. s = Append(f, b)
  <2>1. /\ Append(f, b) \in Seq(Byte) /\ Len(Append(f, b)) = l
        /\ \A k \in 1 .. l - 1 : Append(f, b)[k] = f[k]
        /\ Append(f, b)[l] = b
    <3>1. /\ Append(f, b) \in Seq(Byte) /\ Len(Append(f, b)) = Len(f) + 1
          /\ \A k \in 1 .. Len(f) : Append(f, b)[k] = f[k]
          /\ Append(f, b)[Len(f) + 1] = b
      BY <1>6, <1>7, AppendProperties
    <3>. QED
      BY <1>5, <1>6, <3>1
  <2>2. ASSUME NEW k \in 1 .. Len(s) PROVE s[k] = Append(f, b)[k]
    <3>1. k = l \/ k \in 1 .. l - 1
      BY <1>3, <1>5
    <3>. QED
      BY <1>6, <2>1, <3>1 DEF b
  <2>. QED
    BY <1>3, <2>1, <2>2, SeqEqual
<1>. DEFINE q == Number(f)
            v == Number(s)
<1>9. q \in Nat /\ v = q * BASE + b
  BY <1>6, <1>7, <1>8, NumberIsNat, NumberAppend
<1>. HIDE DEF q, v
<1>10. BASE \in Nat /\ BASE > 0 /\ b \in 0 .. BASE - 1
  BY <1>7, TwoBytes DEF Byte
<1>11. v \in Nat /\ v \div BASE = q /\ v % BASE = b
  <2>1. q * BASE \in Nat
    BY <1>9, <1>10
  <2>. QED
    BY <1>9, <1>10, <2>1, DivisionUnique
<1>12. f = Minimal[q]
  <2>1. ~(l <= l - 1)
    BY <1>5
  <2>2. f # <<>> => f[1] # 0
    <3>1. SUFFICES ASSUME f # <<>> PROVE f[1] # 0
      OBVIOUS
    <3>2. 1 \in 1 .. l - 1
      BY <1>5, <1>6, <3>1
    <3>. QED
      BY <1>3, <1>4, <1>6, <3>2
  <2>. QED
    BY <1>2, <1>5, <1>6, <2>1, <2>2 DEF q
<1>13. v # 0
  <2>1. SUFFICES ASSUME v = 0 PROVE FALSE
    OBVIOUS
  <2>2. q = 0 /\ b = 0
    BY <1>9, <1>10, <2>1
  <2>3. f = <<>>
    BY <1>12, <2>2, MinimalIs
  <2>4. l = 1
    BY <1>5, <1>6, <2>3
  <2>. QED
    BY <1>3, <1>4, <2>2, <2>4 DEF b
<1>14. Minimal[v] = Append(f, b)
  BY <1>11, <1>12, <1>13, MinimalIs
<1>. QED
  BY <1>3, <1>8, <1>14 DEF v

-----------------------------------------------------------------------------
(* What a wallet signed is put together again *)

\* There is one way to write the header of a payload.
LEMMA HeaderUnique ==
  ASSUME NEW bytes \in Seq(Byte), NEW len \in Nat, NEW offset \in Nat, IsHeader(bytes, len, offset)
  PROVE  bytes = RlpHeader(len, offset)
<1>1. CASE len < SHORT
  BY <1>1 DEF IsHeader, RlpHeader
<1>2. CASE ~(len < SHORT)
  <2>. DEFINE rest == Tail(bytes)
  <2>1. bytes # <<>> /\ bytes[1] = offset + SHORT - 2 + Len(bytes) /\ IsMinimal(rest, len)
    BY <1>2 DEF IsHeader
  <2>2. rest \in Seq(Byte) /\ Len(rest) = Len(bytes) - 1 /\ Len(bytes) \in Nat /\ bytes = <<bytes[1]>> \o rest
    BY <2>1
  <2>3. rest = Minimal[len]
    <3>. HIDE DEF rest
    <3>. QED
      BY <2>1, <2>2, MinimalUnique
  <2>4. offset + SHORT - 2 + Len(bytes) = offset + SHORT - 1 + Len(rest)
    BY <2>2, Widths
  <2>5. RlpHeader(len, offset) = <<offset + SHORT - 1 + Len(rest)>> \o rest
    BY <1>2, <2>3, Zenon DEF RlpHeader
  <2>. HIDE DEF rest
  <2>. QED
    BY ONLY <2>1, <2>2, <2>4, <2>5
<1>. QED
  BY <1>1, <1>2

\* There is one way to write a list.
LEMMA ListUnique ==
  ASSUME NEW bytes \in Seq(Byte), NEW prefix \in Seq(Byte), NEW content \in Seq(Byte),
         IsListOf(bytes, prefix, content)
  PROVE  bytes = RlpList(prefix, content)
<1>. DEFINE a == Len(prefix)
            b == Len(bytes) - Len(content)
            header == Slice(bytes, a, b)
            len == Len(content)
<1>1. bytes = prefix \o header \o content /\ IsHeader(header, len, LIST)
  BY DEF IsListOf
<1>2. a \in Nat /\ b \in Int /\ len \in Nat /\ Len(bytes) \in Nat /\ b <= Len(bytes)
  OBVIOUS
<1>3. header # <<>>
  <2>. HIDE DEF header, len
  <2>1. header = <<LIST + len>> \/ header # <<>>
    BY <1>1, Zenon DEF IsHeader
  <2>2. \A x : <<x>> # <<>>
    OBVIOUS
  <2>. QED
    BY ONLY <2>1, <2>2
<1>4. a <= b
  <2>1. SUFFICES ASSUME b < a PROVE header = <<>>
    BY <1>2, <1>3
  <2>2. \A s \in Seq(Byte), x \in Int, y \in Int : y < x => SubSeq(s, x, y) = <<>>
    OBVIOUS
  <2>3. a + 1 \in Int /\ b < a + 1
    BY <1>2, <2>1
  <2>. QED
    BY <1>2, <2>2, <2>3 DEF Slice
<1>5. header \in Seq(Byte)
  <2>1. b \in Nat
    BY <1>2, <1>4
  <2>. HIDE DEF a, b
  <2>. QED
    BY <1>2, <1>4, <2>1, SliceOf
<1>. HIDE DEF header, len, a, b
<1>6. header = RlpHeader(len, LIST)
  BY <1>1, <1>2, <1>5, Widths, HeaderUnique
<1>. QED
  BY <1>1, <1>6, Zenon DEF RlpList, len

\* There is one way to write a number as an item.
LEMMA UintUnique ==
  ASSUME NEW item \in Seq(Byte), NEW n \in Nat, IsUint(item, n)
  PROVE  item = RlpUint(n)
<1>1. PICK k \in 0 .. Len(item) :
        /\ IsMinimal(Slice(item, k, Len(item)), n)
        /\ IF Len(Slice(item, k, Len(item))) = 1 /\ Slice(item, k, Len(item))[1] < SINGLE THEN k = 0
           ELSE IsHeader(Slice(item, 0, k), Len(Slice(item, k, Len(item))), STR)
  BY DEF IsUint
<1>. DEFINE body == Slice(item, k, Len(item))
            head == Slice(item, 0, k)
<1>2. k \in Nat /\ Len(item) \in Nat /\ k <= Len(item)
  OBVIOUS
<1>3. body \in Seq(Byte) /\ Len(body) = Len(item) - k /\ head \in Seq(Byte) /\ Len(head) = k
  <2>. DEFINE len == Len(item)
  <2>1. len \in Nat /\ 0 \in Nat /\ 0 <= k /\ k <= len /\ len <= Len(item) /\ k - 0 = k
    BY <1>2
  <2>. HIDE DEF len
  <2>2. Slice(item, k, len) \in Seq(Byte) /\ Len(Slice(item, k, len)) = len - k
    BY <1>2, <2>1, SliceOf
  <2>3. Slice(item, 0, k) \in Seq(Byte) /\ Len(Slice(item, 0, k)) = k - 0
    BY <1>2, <2>1, SliceOf
  <2>. QED
    BY <2>1, <2>2, <2>3 DEF len
<1>4. item = head \o body /\ (k = 0 => item = body)
  <2>1. \A j \in 1 .. Len(item) - k : body[j] = item[k + j]
    BY <1>2, SliceAt
  <2>2. \A j \in 1 .. k : head[j] = item[j]
    <3>1. \A j \in 1 .. k - 0 : head[j] = item[0 + j]
      BY <1>2, SliceAt
    <3>. QED
      BY <1>2, <3>1
  <2>. HIDE DEF body, head
  <2>3. /\ head \o body \in Seq(Byte) /\ Len(head \o body) = Len(head) + Len(body)
        /\ \A j \in 1 .. Len(head) + Len(body) :
             (head \o body)[j] = IF j <= Len(head) THEN head[j] ELSE body[j - Len(head)]
    BY <1>3, ConcatProperties
  <2>4. Len(head \o body) = Len(item)
    BY <1>2, <1>3, <2>3
  <2>5. \A j \in 1 .. Len(item) : (head \o body)[j] = item[j]
    <3>. SUFFICES ASSUME NEW j \in 1 .. Len(item) PROVE (head \o body)[j] = item[j]
      OBVIOUS
    <3>0. j \in Nat
      BY <1>2
    <3>1. CASE j <= k
      <4>1. j \in 1 .. k /\ j \in 1 .. Len(head) + Len(body)
        BY <1>2, <1>3, <3>0, <3>1
      <4>. QED
        BY <1>3, <2>2, <2>3, <3>1, <4>1
    <3>2. CASE ~(j <= k)
      <4>1. j - k \in 1 .. Len(item) - k /\ j \in 1 .. Len(head) + Len(body) /\ k + (j - k) = j
        BY <1>2, <1>3, <3>0, <3>2
      <4>. QED
        BY <1>3, <2>1, <2>3, <3>2, <4>1
    <3>. QED
      BY <3>1, <3>2
  <2>6. item = head \o body
    <3>. DEFINE whole == head \o body
    <3>1. whole \in Seq(Byte) /\ Len(whole) = Len(item) /\ \A j \in 1 .. Len(item) : whole[j] = item[j]
      BY <2>3, <2>4, <2>5
    <3>. HIDE DEF whole
    <3>2. item = whole
      BY <3>1
    <3>. QED
      BY <3>2 DEF whole
  <2>7. k = 0 => item = body
    <3>. SUFFICES ASSUME k = 0 PROVE item = body
      OBVIOUS
    <3>1. Len(body) = Len(item) /\ \A j \in 1 .. Len(item) : body[j] = item[j]
      BY <1>2, <1>3, <2>1
    <3>. QED
      BY <1>3, <3>1
  <2>. QED
    BY <2>6, <2>7
<1>5. /\ IsMinimal(body, n)
      /\ IF Len(body) = 1 /\ body[1] < SINGLE THEN k = 0 ELSE IsHeader(head, Len(body), STR)
  BY <1>1
<1>. HIDE DEF body, head
<1>6. body = Minimal[n]
  BY <1>3, <1>5, MinimalUnique
<1>7. RlpUint(n) = IF body = <<>> THEN <<STR>>
                   ELSE IF Len(body) = 1 /\ body[1] < SINGLE THEN body
                   ELSE RlpHeader(Len(body), STR) \o body
  BY <1>6, Zenon DEF RlpUint
<1>8. CASE Len(body) = 1 /\ body[1] < SINGLE
  <2>0. Len(<<>>) # 1
    OBVIOUS
  <2>1. body # <<>>
    BY ONLY <1>8, <2>0, Zenon
  <2>. QED
    BY <1>4, <1>5, <1>7, <1>8, <2>1, Zenon
<1>9. CASE ~(Len(body) = 1 /\ body[1] < SINGLE)
  <2>1. head = RlpHeader(Len(body), STR)
    <3>1. Len(body) \in Nat /\ STR \in Nat
      BY <1>3, Widths
    <3>. QED
      BY <1>3, <1>5, <1>9, <3>1, HeaderUnique
  <2>2. CASE body # <<>>
    BY <1>4, <1>7, <1>9, <2>1, <2>2, Zenon
  <2>3. CASE body = <<>>
    <3>1. Len(body) = 0 /\ 0 < SHORT /\ STR + 0 = STR
      BY <2>3, Widths
    <3>2. head = <<STR + 0>>
      BY <2>1, <3>1 DEF RlpHeader
    <3>3. item = head
      BY <1>3, <1>4, <2>3
    <3>. QED
      BY <1>7, <2>3, <3>1, <3>2, <3>3
  <2>. QED
    BY <2>2, <2>3
<1>. QED
  BY <1>8, <1>9

\* A header leads to the payload of the item behind it.
LEMMA PayloadAt ==
  ASSUME NEW buf \in Seq(Byte), Len(buf) + SHORT < USIZE,
         NEW at \in Nat, NEW to \in Nat, at < to, to <= Len(buf), IsItem(Slice(buf, at, to))
  PROVE  /\ Header(buf, at).ok /\ Header(buf, at).to = to
         /\ Header(buf, at).from \in Nat /\ at <= Header(buf, at).from /\ Header(buf, at).from <= to
         /\ Slice(buf, Header(buf, at).from, to) = PayloadOf(Slice(buf, at, to))
         /\ PayloadOf(Slice(buf, at, to)) \in Seq(Byte)
         /\ Len(PayloadOf(Slice(buf, at, to))) = to - Header(buf, at).from
<1>. DEFINE h == Header(buf, at)
            item == Slice(buf, at, to)
            len == to - at
            c == buf[at + 1]
            short == IF c < LIST THEN c - STR ELSE c - LIST
            s == at + 2 + short - SHORT
            end2 == s + Number(Slice(buf, at + 1, s))
<1>0. Len(buf) \in Nat /\ SHORT \in Nat /\ USIZE \in Nat /\ Len(buf) < USIZE /\ at < Len(buf)
  BY Widths
<1>1. h.ok /\ h.to = to
  BY <1>0, ItemAt
<1>2. h.from \in Nat /\ at <= h.from /\ h.from <= to
  BY <1>0, <1>1, HeaderOf
<1>3. item \in Seq(Byte) /\ Len(item) = len /\ len \in Nat /\ 0 < len
  BY SliceOf
<1>4. c \in Byte /\ c \in Nat /\ item[1] = c
  <2>1. \A k \in 1 .. to - at : item[k] = buf[at + k]
    BY SliceAt
  <2>2. at + 1 \in 1 .. Len(buf) /\ 1 \in 1 .. to - at
    BY <1>0
  <2>3. c \in Byte
    BY <2>2
  <2>. QED
    BY <2>1, <2>2, <2>3, Widths DEF Byte
<1>5. h = IF c < SINGLE THEN [ok |-> TRUE, from |-> at, to |-> at + 1]
          ELSE IF short < SHORT THEN [ok |-> TRUE, from |-> at + 1, to |-> at + 1 + short]
          ELSE IF s <= Len(buf) /\ end2 < USIZE THEN [ok |-> TRUE, from |-> s, to |-> end2]
          ELSE [ok |-> FALSE]
  BY Zenon DEF Header
<1>6. PayloadOf(item) = IF c < SINGLE THEN item
                        ELSE IF short < SHORT THEN Tail(item) ELSE Slice(item, short - SHORT + 2, Len(item))
  <2>1. short = c - (IF c < LIST THEN STR ELSE LIST)
    OBVIOUS
  <2>2. PayloadOf(item) = IF item[1] < SINGLE THEN item
                          ELSE IF item[1] - (IF item[1] < LIST THEN STR ELSE LIST) < SHORT THEN Tail(item)
                          ELSE Slice(item, item[1] - (IF item[1] < LIST THEN STR ELSE LIST) - SHORT + 2, Len(item))
    BY DEF PayloadOf
  <2>. HIDE DEF item, c, short
  <2>. QED
    BY ONLY <1>4, <2>1, <2>2
<1>7. Slice(buf, h.from, to) = PayloadOf(item)
  <2>1. CASE c < SINGLE
    BY <1>5, <1>6, <2>1
  <2>2. CASE ~(c < SINGLE) /\ short < SHORT
    <3>1. h.from = at + 1 /\ PayloadOf(item) = Tail(item)
      BY <1>5, <1>6, <2>2
    <3>2. Tail(item) = Slice(item, 1, Len(item))
      <4>. HIDE DEF item
      <4>. QED
        BY <1>3 DEF Slice
    <3>3. Slice(item, 1, len) = Slice(buf, at + 1, at + len)
      <4>1. 1 <= len /\ len <= to - at /\ at <= to
        BY <1>3
      <4>. HIDE DEF len
      <4>. QED
        BY <1>3, <4>1, SliceOfSlice
    <3>4. at + len = to
      OBVIOUS
    <3>. QED
      BY <1>3, <3>1, <3>2, <3>3, <3>4
  <2>3. CASE ~(c < SINGLE) /\ ~(short < SHORT)
    <3>. DEFINE x == short - SHORT + 2
    <3>1. h.from = s /\ PayloadOf(item) = Slice(item, x, Len(item))
      <4>1. h = [ok |-> TRUE, from |-> s, to |-> end2]
        <5>. HIDE DEF h, c, short, s, end2
        <5>1. [ok |-> FALSE].ok = FALSE
          OBVIOUS
        <5>. QED
          BY <1>1, <1>5, <2>3, <5>1
      <4>. HIDE DEF h, end2, s
      <4>2. h.from = s
        BY <4>1
      <4>. HIDE DEF c, short, item
      <4>. QED
        BY <1>6, <2>3, <4>2
    <3>2. short \in Int
      BY <1>4, Widths
    <3>3. x \in Nat /\ s = at + x
      <4>. HIDE DEF short
      <4>. QED
        BY <1>0, <2>3, <3>2
    <3>4. x <= len
      <4>. HIDE DEF x, h, s
      <4>. QED
        BY <1>2, <3>1, <3>3
    <3>5. Slice(item, x, len) = Slice(buf, at + x, at + len)
      <4>1. len <= to - at /\ at <= to
        BY <1>3
      <4>. HIDE DEF len, x
      <4>. QED
        BY <1>3, <3>3, <3>4, <4>1, SliceOfSlice
    <3>6. at + len = to
      OBVIOUS
    <3>. HIDE DEF h, item, x, s, len
    <3>. QED
      BY <1>3, <3>1, <3>3, <3>5, <3>6
  <2>. QED
    BY <2>1, <2>2, <2>3
<1>8. Slice(buf, h.from, to) \in Seq(Byte) /\ Len(Slice(buf, h.from, to)) = to - h.from
  <2>. DEFINE f == h.from
  <2>1. f \in Nat /\ f <= to
    BY <1>2
  <2>. HIDE DEF f
  <2>2. Slice(buf, f, to) \in Seq(Byte) /\ Len(Slice(buf, f, to)) = to - f
    BY <2>1, SliceOf
  <2>. QED
    BY <2>2 DEF f
<1>. HIDE DEF h, item
<1>9. /\ h.ok /\ h.to = to /\ h.from \in Nat /\ at <= h.from /\ h.from <= to
      /\ Slice(buf, h.from, to) = PayloadOf(item) /\ PayloadOf(item) \in Seq(Byte)
      /\ Len(PayloadOf(item)) = to - h.from
  BY <1>1, <1>2, <1>7, <1>8
<1>. QED
  BY <1>9 DEF h, item

-----------------------------------------------------------------------------
(* The fields of a transaction that was packed *)

\* Its list, the number of items in it, the k-th as the decoder takes it, and what is in that.
Wire(tx) == IF tx.type = 0 THEN tx.raw ELSE Tail(tx.raw)
Items(tx) == Len(tx.cuts) - 1
FieldAt(tx, k) == <<tx.cuts[k], Header(Wire(tx), tx.cuts[k]).from, tx.cuts[k + 1]>>
Held(tx, k) == PayloadOf(Slice(Wire(tx), tx.cuts[k], tx.cuts[k + 1]))

\* How it is cut, by its type.
LEMMA SealedCuts ==
  ASSUME NEW tx, IsSealed(tx)
  PROVE  /\ tx.type \in 0 .. TYPES
         /\ IF tx.type = 0 THEN tx.raw[1] >= SINGLE ELSE tx.raw[1] = tx.type /\ tx.type < SINGLE
         /\ IsItem(Wire(tx)) /\ Wire(tx)[1] >= LIST
         /\ tx.cuts[1] = Len(Wire(tx)) - Len(PayloadOf(Wire(tx))) /\ tx.cuts[Items(tx) + 1] = Len(Wire(tx))
         /\ \A k \in 1 .. Items(tx) : /\ tx.cuts[k] < tx.cuts[k + 1]
                                      /\ IsItem(Slice(Wire(tx), tx.cuts[k], tx.cuts[k + 1]))
         /\ CASE tx.type = 0 -> Items(tx) = 9 [] tx.type = 1 -> Items(tx) = 11 [] OTHER -> Items(tx) >= 12
BY Zenon DEF IsSealed, Wire, Items

\* What its items hold, by its type.
LEMMA SealedSizes ==
  ASSUME NEW tx, IsSealed(tx)
  PROVE  LET nonce == IF tx.type = 0 THEN 1 ELSE 2
             gas == CASE tx.type = 0 -> 3 [] tx.type = 1 -> 4 [] OTHER -> 5
         IN  /\ Len(Held(tx, nonce)) <= INTEGER /\ Len(Held(tx, gas)) <= INTEGER
             /\ Len(Held(tx, gas + 1)) \in {0, ADDRESS} /\ Len(Held(tx, gas + 2)) <= SCALAR
             /\ Len(Held(tx, Items(tx) - 2)) <= VWIDTH
             /\ Len(Held(tx, Items(tx) - 1)) \in 1 .. SCALAR /\ Len(Held(tx, Items(tx))) \in 1 .. SCALAR
BY Zenon DEF IsSealed, Wire, Items, Held

\* How it was signed.
LEMMA SealedSignature ==
  ASSUME NEW tx, IsSealed(tx)
  PROVE  LET unsigned == Slice(Wire(tx), tx.cuts[1], tx.cuts[Items(tx) - 2])
             signature == tx.recovery[1]
             v == Number(Held(tx, Items(tx) - 2))
             chain == tx.chain[1]
         IN  /\ signature.r = Number(Held(tx, Items(tx) - 1)) /\ signature.s = Number(Held(tx, Items(tx)))
             /\ signature.parity \in {0, 1}
             /\ IF tx.type = 0 /\ tx.chain # <<>>
                THEN /\ v = 35 + 2 * chain.id + signature.parity
                     /\ IsUint(chain.item, chain.id)
                     /\ IsListOf(signature.signed, <<>>, unsigned \o chain.item \o <<STR, STR>>)
                ELSE /\ v = signature.parity + (IF tx.type = 0 THEN 27 ELSE 0)
                     /\ IsListOf(signature.signed, IF tx.type = 0 THEN <<>> ELSE <<tx.type>>, unsigned)
BY Zenon DEF IsSealed, Wire, Items, Held

LEMMA TxOf ==
  ASSUME NEW tx \in PackedTx
  PROVE  /\ tx.raw \in Seq(Byte) /\ tx.type \in Nat /\ tx.cuts \in Seq(Nat)
         /\ tx.chain \in Seq([id : Nat, item : Seq(Byte)])
         /\ tx.recovery \in Seq([signed : Seq(Byte), r : Nat, s : Nat, parity : Nat])
BY DEF PackedTx

\* The cuts ascend.
LEMMA CutsOf ==
  ASSUME NEW tx \in PackedTx, IsSealed(tx)
  PROVE  /\ Items(tx) \in Nat /\ Items(tx) >= 9
         /\ \A k \in 1 .. Items(tx) + 1 : tx.cuts[k] \in Nat /\ tx.cuts[k] <= Len(Wire(tx))
         /\ \A j, k \in 1 .. Items(tx) + 1 : j <= k => tx.cuts[j] <= tx.cuts[k]
         /\ \A k \in 1 .. Items(tx) : tx.cuts[k] < tx.cuts[k + 1]
         /\ tx.cuts[Items(tx) + 1] = Len(Wire(tx))
<1>. DEFINE n == Items(tx)
            cut == tx.cuts
<1>1. cut \in Seq(Nat) /\ Len(cut) \in Nat /\ DOMAIN cut = 1 .. Len(cut) /\ n = Len(cut) - 1
  <2>1. cut \in Seq(Nat)
    BY TxOf
  <2>2. n = Len(cut) - 1
    BY DEF Items
  <2>. HIDE DEF cut, n
  <2>. QED
    BY <2>1, <2>2
<1>2. /\ \A k \in 1 .. n : cut[k] < cut[k + 1]
      /\ cut[n + 1] = Len(Wire(tx))
      /\ CASE tx.type = 0 -> n = 9 [] tx.type = 1 -> n = 11 [] OTHER -> n >= 12
  BY SealedCuts
<1>. HIDE DEF n, cut
<1>3. n \in Nat /\ n >= 9
  BY <1>1, <1>2
<1>4. \A k \in 1 .. n + 1 : cut[k] \in Nat
  BY <1>1, <1>3
<1>5. ASSUME NEW a \in 1 .. n + 1, NEW b \in 1 .. n + 1, a <= b PROVE cut[a] <= cut[b]
  <2>. DEFINE Bad == {k \in a .. n + 1 : ~(cut[a] <= cut[k])}
  <2>0. a \in Nat /\ b \in a .. n + 1 /\ Bad \subseteq Nat
    BY <1>3, <1>5
  <2>1. SUFFICES ASSUME Bad # {} PROVE FALSE
    BY <2>0
  <2>2. PICK k \in Bad : \A m \in Bad : k <= m
    <3>. HIDE DEF Bad
    <3>. QED
      BY <2>0, <2>1, Least
  <2>3. k \in a .. n + 1 /\ k \in Nat /\ ~(cut[a] <= cut[k])
    BY <2>0, <2>2
  <2>4. cut[a] \in Nat /\ cut[k] \in Nat /\ k # a
    <3>1. a \in 1 .. n + 1 /\ k \in 1 .. n + 1
      BY <1>3, <1>5, <2>3
    <3>2. cut[a] \in Nat /\ cut[k] \in Nat
      BY <1>4, <3>1
    <3>. QED
      BY ONLY <2>3, <3>2
  <2>5. k - 1 \in a .. n + 1 /\ k - 1 \in 1 .. n /\ k - 1 \in 1 .. n + 1 /\ k - 1 + 1 = k /\ ~(k <= k - 1)
    BY ONLY <1>3, <1>5, <2>0, <2>3, <2>4
  <2>6. cut[a] <= cut[k - 1]
    BY <2>2, <2>5
  <2>7. cut[k - 1] < cut[k] /\ cut[k - 1] \in Nat
    BY <1>2, <1>4, <2>5
  <2>. QED
    BY ONLY <2>3, <2>4, <2>6, <2>7
<1>6. ASSUME NEW k \in 1 .. n + 1 PROVE cut[k] \in Nat /\ cut[k] <= Len(Wire(tx))
  <2>1. n + 1 \in 1 .. n + 1 /\ k <= n + 1
    BY <1>3
  <2>. QED
    BY <1>2, <1>4, <1>5, <2>1
<1>7. /\ n \in Nat /\ n >= 9 /\ \A k \in 1 .. n + 1 : cut[k] \in Nat /\ cut[k] <= Len(Wire(tx))
      /\ \A j, k \in 1 .. n + 1 : j <= k => cut[j] <= cut[k]
      /\ \A k \in 1 .. n : cut[k] < cut[k + 1]
      /\ cut[n + 1] = Len(Wire(tx))
  BY <1>2, <1>3, <1>5, <1>6
<1>. QED
  BY <1>7 DEF n, cut

\* The decoder sees a list of a type it knows.
LEMMA WireOf ==
  ASSUME NEW tx \in PackedTx, IsSealed(tx), tx.raw # <<>>, Len(tx.raw) + SHORT < USIZE
  PROVE  /\ Wire(tx) \in Seq(Byte) /\ Len(Wire(tx)) + SHORT < USIZE
         /\ Body(tx.raw) = Wire(tx) /\ TxType(tx.raw) = tx.type /\ Layout(tx.type) # <<>>
         /\ IsList(Wire(tx))
         /\ Header(Wire(tx), 0).from = tx.cuts[1] /\ Header(Wire(tx), 0).to = tx.cuts[Items(tx) + 1]
<1>. DEFINE body == Wire(tx)
<1>1. tx.raw \in Seq(Byte) /\ tx.type \in Nat
  BY TxOf
<1>2. /\ tx.type \in 0 .. TYPES
      /\ IF tx.type = 0 THEN tx.raw[1] >= SINGLE ELSE tx.raw[1] = tx.type /\ tx.type < SINGLE
      /\ IsItem(body) /\ body[1] >= LIST
      /\ tx.cuts[1] = Len(body) - Len(PayloadOf(body)) /\ tx.cuts[Items(tx) + 1] = Len(body)
  BY SealedCuts
<1>3. tx.raw[1] \in Nat
  <2>1. tx.raw[1] \in Byte
    BY <1>1
  <2>. QED
    BY <2>1, Widths DEF Byte
<1>4. TxType(tx.raw) = tx.type /\ Body(tx.raw) = body
  BY <1>2, <1>3, Widths DEF TxType, Body, Wire
<1>5. body \in Seq(Byte) /\ Len(body) <= Len(tx.raw) /\ Len(body) \in Nat
  <2>1. Body(tx.raw) \in Seq(Byte) /\ Len(Body(tx.raw)) <= Len(tx.raw)
    BY <1>1, BodyOf
  <2>. HIDE DEF body
  <2>. QED
    BY <1>4, <2>1
<1>6. Len(body) + SHORT < USIZE
  <2>1. Len(tx.raw) \in Nat
    BY <1>1
  <2>. HIDE DEF body
  <2>. QED
    BY <1>5, <2>1, Widths
<1>7. Layout(tx.type) # <<>>
  <2>1. \/ tx.type = 0 /\ Layout(tx.type) = <<1, 3, 4, 5, 6>>
        \/ tx.type = 1 /\ Layout(tx.type) = <<2, 4, 5, 6, 7>>
        \/ Layout(tx.type) = <<2, 5, 6, 7, 8>>
    <3>1. tx.type \in 2 .. TYPES \/ tx.type = 0 \/ tx.type = 1
      <4>. DEFINE t == tx.type
      <4>1. t \in Nat /\ t \in 0 .. TYPES /\ TYPES \in Nat
        BY <1>1, <1>2, FormatAssumption
      <4>. HIDE DEF t
      <4>2. t \in 2 .. TYPES \/ t = 0 \/ t = 1
        BY ONLY <4>1
      <4>. QED
        BY <4>2 DEF t
    <3>. QED
      BY <3>1 DEF Layout
  <2>. DEFINE l == Layout(tx.type)
  <2>2. \A a, b, c, d, e : <<a, b, c, d, e>> # <<>>
    OBVIOUS
  <2>. QED
    BY <2>1, <2>2, Zenon
<1>. HIDE DEF body
<1>8. body # <<>> /\ 0 < Len(body)
  <2>1. Len(body) # 0
    <3>1. SUFFICES ASSUME Len(body) = 0 PROVE FALSE
      OBVIOUS
    <3>2. \/ Len(body) = 1
          \/ \E n \in 0 .. SHORT - 1 : Len(body) = 1 + n
          \/ \E k \in 1 .. LONG : Len(body) > k
      BY <1>2, Zenon DEF IsItem
    <3>3. SHORT \in Nat /\ LONG \in Nat
      BY Widths
    <3>. QED
      BY ONLY <3>1, <3>2, <3>3
  <2>. QED
    BY <1>5, <2>1
<1>9. Slice(body, 0, Len(body)) = body
  BY <1>5 DEF Slice
<1>10. /\ Header(body, 0).ok /\ Header(body, 0).to = Len(body) /\ Header(body, 0).from \in Nat
       /\ Len(PayloadOf(body)) = Len(body) - Header(body, 0).from
  <2>. DEFINE to == Len(body)
  <2>1. to \in Nat /\ 0 < to /\ to <= Len(body) /\ IsItem(Slice(body, 0, to)) /\ Slice(body, 0, to) = body
    BY <1>2, <1>5, <1>8, <1>9
  <2>. HIDE DEF to
  <2>2. /\ Header(body, 0).ok /\ Header(body, 0).to = to /\ Header(body, 0).from \in Nat
        /\ Len(PayloadOf(Slice(body, 0, to))) = to - Header(body, 0).from
    BY <1>5, <1>6, <2>1, PayloadAt
  <2>. QED
    BY <2>1, <2>2 DEF to
<1>11. Header(body, 0).from = tx.cuts[1] /\ Header(body, 0).to = tx.cuts[Items(tx) + 1]
  <2>. DEFINE f == Header(body, 0).from
              p == Len(PayloadOf(body))
  <2>1. f \in Nat /\ p = Len(body) - f /\ tx.cuts[1] = Len(body) - p
    BY <1>2, <1>10
  <2>. HIDE DEF f, p
  <2>2. f = tx.cuts[1]
    BY <1>5, <2>1
  <2>. QED
    BY <1>2, <1>10, <2>2 DEF f
<1>12. IsList(body)
  BY <1>2, <1>5, <1>8, <1>10 DEF IsList
<1>. QED
  BY <1>4, <1>5, <1>6, <1>7, <1>11, <1>12 DEF body

\* The decoder takes what is in each item.
LEMMA FieldOf ==
  ASSUME NEW tx \in PackedTx, IsSealed(tx), tx.raw # <<>>, Len(tx.raw) + SHORT < USIZE, NEW k \in 1 .. Items(tx)
  PROVE  /\ Header(Wire(tx), tx.cuts[k]).ok /\ Header(Wire(tx), tx.cuts[k]).to = tx.cuts[k + 1]
         /\ Held(tx, k) \in Seq(Byte) /\ Len(Held(tx, k)) = Size(FieldAt(tx, k))
         /\ Slice(Wire(tx), FieldAt(tx, k)[2], FieldAt(tx, k)[3]) = Held(tx, k)
<1>. DEFINE body == Wire(tx)
            at == tx.cuts[k]
            to == tx.cuts[k + 1]
            from == Header(body, at).from
<1>1. body \in Seq(Byte) /\ Len(body) + SHORT < USIZE
  BY WireOf
<1>2. Items(tx) \in Nat /\ k \in 1 .. Items(tx) + 1 /\ k + 1 \in 1 .. Items(tx) + 1
  <2>1. Items(tx) \in Nat
    BY CutsOf
  <2>. QED
    BY <2>1
<1>3. at \in Nat /\ to \in Nat /\ at < to /\ to <= Len(body)
  BY <1>2, CutsOf
<1>4. IsItem(Slice(body, at, to))
  BY SealedCuts
<1>. HIDE DEF body, at, to
<1>5. /\ Header(body, at).ok /\ Header(body, at).to = to
      /\ Slice(body, from, to) = PayloadOf(Slice(body, at, to))
      /\ PayloadOf(Slice(body, at, to)) \in Seq(Byte)
      /\ Len(PayloadOf(Slice(body, at, to))) = to - from
  BY <1>1, <1>3, <1>4, PayloadAt
<1>6. FieldAt(tx, k) = <<at, from, to>> /\ Held(tx, k) = PayloadOf(Slice(body, at, to))
  BY DEF FieldAt, Held, body, at, to
<1>. HIDE DEF from
<1>7. FieldAt(tx, k)[2] = from /\ FieldAt(tx, k)[3] = to
  BY <1>6
<1>8. Size(FieldAt(tx, k)) = to - from
  BY <1>7 DEF Size
<1>9. /\ Header(body, at).ok /\ Header(body, at).to = to
      /\ Held(tx, k) \in Seq(Byte) /\ Len(Held(tx, k)) = Size(FieldAt(tx, k))
      /\ Slice(body, FieldAt(tx, k)[2], FieldAt(tx, k)[3]) = Held(tx, k)
  BY <1>5, <1>6, <1>7, <1>8, Zenon DEF from
<1>. QED
  BY <1>9 DEF body, at, to

-----------------------------------------------------------------------------
(* What its sender signed *)

\* An id comes back from a v that holds it.
LEMMA IdOf ==
  ASSUME NEW id \in Nat, NEW parity \in {0, 1}, NEW v, v = 35 + 2 * id + parity
  PROVE  v >= 35 /\ (v - 35) \div 2 = id /\ (v - 35) % 2 = parity /\ v \in Nat
<1>1. 2 \in Nat /\ 2 > 0 /\ parity \in 0 .. 2 - 1 /\ parity \in Nat
  OBVIOUS
<1>2. (id * 2 + parity) \div 2 = id /\ (id * 2 + parity) % 2 = parity
  BY <1>1, DivisionUnique
<1>3. v - 35 = id * 2 + parity /\ v >= 35 /\ v \in Nat
  BY <1>1
<1>. QED
  BY <1>2, <1>3

\* With the fields that were packed, recovery gets what was signed.
LEMMA RecoveredOf ==
  ASSUME NEW tx \in PackedTx, IsSealed(tx), tx.raw # <<>>, Len(tx.raw) + SHORT < USIZE, Len(tx.recovery) = 1,
         NEW t, Raw(t) = tx.raw, t.type = tx.type, Len(t.fields) = Items(tx),
         \A k \in 1 .. Items(tx) : t.fields[k] = FieldAt(tx, k)
  PROVE  Recovery(t) = tx.recovery
<1>. DEFINE f == t.fields
            n == Items(tx)
            buf == Wire(tx)
            type == tx.type
            item(k) == Slice(buf, f[k][2], f[k][3])
            v == Number(item(n - 2))
            unsigned == Slice(buf, f[1][1], f[LastSigned(t)][3])
            with(bytes, parity) ==
              <<[signed |-> bytes, r |-> Number(item(n - 1)), s |-> Number(item(n)), parity |-> parity]>>
            small == \/ n < 4
                     \/ Size(f[n - 2]) > VWIDTH
                     \/ Size(f[n - 1]) \notin 1 .. SCALAR \/ Size(f[n]) \notin 1 .. SCALAR
            signature == tx.recovery[1]
<1>1. n \in Nat /\ n >= 9 /\ 1 \in 1 .. n /\ n - 3 \in 1 .. n /\ n - 2 \in 1 .. n /\ n - 1 \in 1 .. n /\ n \in 1 .. n
  <2>1. n \in Nat /\ n >= 9
    BY CutsOf
  <2>. HIDE DEF n
  <2>. QED
    BY ONLY <2>1
<1>2. Body(Raw(t)) = buf
  BY WireOf
<1>3. Recovery(t) =
        IF small THEN <<>>
        ELSE IF type # 0
             THEN IF v > 1 THEN <<>> ELSE with(RlpList(<<type>>, unsigned), v)
             ELSE IF v >= 35
                  THEN with(RlpList(<<>>, unsigned \o RlpUint((v - 35) \div 2) \o <<STR, STR>>), (v - 35) % 2)
             ELSE IF v \in {27, 28} THEN with(RlpList(<<>>, unsigned), v - 27)
             ELSE <<>>
  <2>1. Len(t.fields) = n
    OBVIOUS
  <2>2. t.type = type
    OBVIOUS
  <2>. HIDE DEF n, buf, type
  <2>. QED
    BY ONLY <1>2, <2>1, <2>2, Zenon DEF Recovery
<1>4. ASSUME NEW k \in 1 .. n
      PROVE  /\ f[k] = FieldAt(tx, k) /\ item(k) = Held(tx, k) /\ Size(f[k]) = Len(Held(tx, k))
             /\ Held(tx, k) \in Seq(Byte) /\ f[k][1] = tx.cuts[k] /\ f[k][3] = tx.cuts[k + 1]
  <2>1. f[k] = FieldAt(tx, k)
    OBVIOUS
  <2>2. /\ Held(tx, k) \in Seq(Byte) /\ Len(Held(tx, k)) = Size(FieldAt(tx, k))
        /\ Slice(Wire(tx), FieldAt(tx, k)[2], FieldAt(tx, k)[3]) = Held(tx, k)
    BY FieldOf
  <2>3. FieldAt(tx, k)[1] = tx.cuts[k] /\ FieldAt(tx, k)[3] = tx.cuts[k + 1]
    BY DEF FieldAt
  <2>. QED
    BY <2>1, <2>2, <2>3, Zenon
<1>5. LastSigned(t) = n - 3
  <2>1. type # 0 \/ n = 9
    BY SealedCuts, Zenon
  <2>2. LastSigned(t) = IF type = 0 THEN 6 ELSE n - 3
    BY DEF LastSigned
  <2>. HIDE DEF n, type
  <2>. QED
    BY ONLY <2>1, <2>2
<1>6. unsigned = Slice(buf, tx.cuts[1], tx.cuts[n - 2])
  <2>1. n - 3 + 1 = n - 2
    BY ONLY <1>1
  <2>. QED
    BY <1>1, <1>4, <1>5, <2>1, Zenon
<1>7. v = Number(Held(tx, n - 2)) /\ v \in Nat
  BY <1>1, <1>4, NumberIsNat
<1>8. /\ signature.r = Number(item(n - 1)) /\ signature.s = Number(item(n)) /\ signature.parity \in {0, 1}
      /\ IF type = 0 /\ tx.chain # <<>>
         THEN /\ v = 35 + 2 * tx.chain[1].id + signature.parity
              /\ IsUint(tx.chain[1].item, tx.chain[1].id)
              /\ IsListOf(signature.signed, <<>>, unsigned \o tx.chain[1].item \o <<STR, STR>>)
         ELSE /\ v = signature.parity + (IF type = 0 THEN 27 ELSE 0)
              /\ IsListOf(signature.signed, IF type = 0 THEN <<>> ELSE <<type>>, unsigned)
  <2>1. Held(tx, n - 1) = item(n - 1) /\ Held(tx, n) = item(n) /\ Slice(buf, tx.cuts[1], tx.cuts[n - 2]) = unsigned
        /\ Number(Held(tx, n - 2)) = v
    BY <1>1, <1>4, <1>6, <1>7, Zenon
  <2>2. /\ signature.r = Number(Held(tx, n - 1)) /\ signature.s = Number(Held(tx, n)) /\ signature.parity \in {0, 1}
        /\ IF type = 0 /\ tx.chain # <<>>
           THEN /\ Number(Held(tx, n - 2)) = 35 + 2 * tx.chain[1].id + signature.parity
                /\ IsUint(tx.chain[1].item, tx.chain[1].id)
                /\ IsListOf(signature.signed, <<>>, Slice(buf, tx.cuts[1], tx.cuts[n - 2]) \o tx.chain[1].item \o <<STR, STR>>)
           ELSE /\ Number(Held(tx, n - 2)) = signature.parity + (IF type = 0 THEN 27 ELSE 0)
                /\ IsListOf(signature.signed, IF type = 0 THEN <<>> ELSE <<type>>, Slice(buf, tx.cuts[1], tx.cuts[n - 2]))
    BY SealedSignature
  <2>. HIDE DEF v, unsigned, item, n, signature, buf, type
  <2>. QED
    BY ONLY <2>1, <2>2, Zenon
<1>9. ~small
  <2>1. /\ Len(Held(tx, n - 2)) <= VWIDTH /\ VWIDTH \in Nat
        /\ Len(Held(tx, n - 1)) \in 1 .. SCALAR /\ Len(Held(tx, n)) \in 1 .. SCALAR
    BY SealedSizes, FormatAssumption
  <2>2. Len(Held(tx, n - 2)) \in Nat
    BY <1>1, <1>4
  <2>3. Size(f[n - 2]) = Len(Held(tx, n - 2)) /\ Size(f[n - 1]) = Len(Held(tx, n - 1)) /\ Size(f[n]) = Len(Held(tx, n))
    BY <1>1, <1>4, Zenon
  <2>. HIDE DEF n, f
  <2>. QED
    BY ONLY <1>1, <2>1, <2>2, <2>3
<1>10. /\ tx.recovery = <<signature>>
       /\ signature = [signed |-> signature.signed, r |-> signature.r, s |-> signature.s, parity |-> signature.parity]
       /\ signature.signed \in Seq(Byte)
  <2>. DEFINE Signatures == [signed : Seq(Byte), r : Nat, s : Nat, parity : Nat]
              q == tx.recovery
  <2>1. q \in Seq(Signatures) /\ Len(q) = 1
    BY TxOf
  <2>. HIDE DEF q, Signatures
  <2>2. q = <<q[1]>> /\ q[1] \in Signatures
    BY ONLY <2>1
  <2>3. \A x \in Signatures : /\ x = [signed |-> x.signed, r |-> x.r, s |-> x.s, parity |-> x.parity]
                              /\ x.signed \in Seq(Byte)
    BY DEF Signatures
  <2>. QED
    BY <2>2, <2>3 DEF q
<1>11. ASSUME NEW bytes, NEW parity, signature.signed = bytes, signature.parity = parity
       PROVE  with(bytes, parity) = tx.recovery
  <2>. HIDE DEF item, signature
  <2>. QED
    BY <1>8, <1>10, <1>11, Zenon
<1>12. unsigned \in Seq(Byte)
  <2>. DEFINE a == tx.cuts[1]
              b == tx.cuts[n - 2]
  <2>1. buf \in Seq(Byte)
    BY WireOf
  <2>2. 1 \in 1 .. n + 1 /\ n - 2 \in 1 .. n + 1 /\ 1 <= n - 2
    BY ONLY <1>1
  <2>3. a \in Nat /\ b \in Nat /\ b <= Len(buf) /\ a <= b
    BY <2>2, CutsOf
  <2>. HIDE DEF a, b, buf
  <2>4. Slice(buf, a, b) \in Seq(Byte)
    BY <2>1, <2>3, SliceOf
  <2>. QED
    BY <1>6, <2>4, Zenon DEF a, b
<1>13. STR \in Byte
  <2>1. STR \in Nat /\ BASE \in Nat /\ STR < BASE
    BY Widths DEF STR, LIST, BASE
  <2>. QED
    BY <2>1 DEF Byte
<1>. HIDE DEF v, unsigned, item, n, buf, f, small, with, signature
<1>14. CASE type = 0 /\ tx.chain # <<>>
  <2>. DEFINE id == tx.chain[1].id
              written == tx.chain[1].item
  <2>1. id \in Nat /\ written \in Seq(Byte)
    <3>. DEFINE Chains == [id : Nat, item : Seq(Byte)]
                q == tx.chain
    <3>1. q \in Seq(Chains) /\ q # <<>>
      BY <1>14, TxOf
    <3>. HIDE DEF q, Chains
    <3>2. q[1] \in Chains
      BY ONLY <3>1
    <3>3. \A x \in Chains : x.id \in Nat /\ x.item \in Seq(Byte)
      BY DEF Chains
    <3>. QED
      BY <3>2, <3>3 DEF q
  <2>2. /\ v = 35 + 2 * id + signature.parity /\ IsUint(written, id)
        /\ IsListOf(signature.signed, <<>>, unsigned \o written \o <<STR, STR>>)
    BY <1>8, <1>14, Zenon
  <2>. HIDE DEF id, written
  <2>3. v >= 35 /\ (v - 35) \div 2 = id /\ (v - 35) % 2 = signature.parity
    BY <1>8, <2>1, <2>2, IdOf
  <2>4. written = RlpUint(id)
    BY <2>1, <2>2, UintUnique
  <2>. DEFINE content == unsigned \o written \o <<STR, STR>>
              none == <<>>
  <2>5. content \in Seq(Byte) /\ none \in Seq(Byte)
    BY <1>12, <1>13, <2>1
  <2>6. IsListOf(signature.signed, none, content)
    BY <2>2
  <2>. HIDE DEF content, none
  <2>7. signature.signed = RlpList(none, content)
    BY <1>10, <2>5, <2>6, ListUnique
  <2>8. Recovery(t) = with(RlpList(<<>>, unsigned \o RlpUint((v - 35) \div 2) \o <<STR, STR>>), (v - 35) % 2)
    BY <1>3, <1>9, <1>14, <2>3, Zenon
  <2>9. Recovery(t) = with(signature.signed, signature.parity)
    BY <2>3, <2>4, <2>7, <2>8, Zenon DEF content, none
  <2>. QED
    BY <1>11, <2>9, Zenon
<1>15. CASE type = 0 /\ ~(tx.chain # <<>>)
  <2>. DEFINE none == <<>>
  <2>1. v = signature.parity + 27 /\ IsListOf(signature.signed, none, unsigned) /\ none \in Seq(Byte)
    BY <1>8, <1>15
  <2>. HIDE DEF none
  <2>2. signature.signed = RlpList(none, unsigned)
    BY <1>10, <1>12, <2>1, ListUnique
  <2>3. ~(v >= 35) /\ v \in {27, 28} /\ v - 27 = signature.parity
    <3>. DEFINE parity == signature.parity
    <3>1. parity \in {0, 1} /\ v = parity + 27
      BY <1>8, <2>1
    <3>. HIDE DEF parity
    <3>. QED
      BY ONLY <3>1 DEF parity
  <2>4. Recovery(t) = with(RlpList(<<>>, unsigned), v - 27)
    BY <1>3, <1>9, <1>15, <2>3, Zenon
  <2>. QED
    BY <1>11, <2>2, <2>3, <2>4, Zenon DEF none
<1>16. CASE type # 0
  <2>. DEFINE prefix == <<type>>
  <2>1. v = signature.parity + 0 /\ IsListOf(signature.signed, prefix, unsigned)
    BY <1>8, <1>16
  <2>2. prefix \in Seq(Byte)
    <3>1. type < SINGLE /\ type \in Nat
      BY <1>16, SealedCuts, TxOf
    <3>2. SINGLE \in Nat /\ BASE \in Nat /\ SINGLE < BASE
      BY Widths DEF STR, LIST, BASE
    <3>. HIDE DEF type
    <3>3. type \in Byte
      BY <3>1, <3>2 DEF Byte
    <3>. QED
      BY <3>3
  <2>. HIDE DEF prefix
  <2>3. signature.signed = RlpList(prefix, unsigned)
    BY <1>10, <1>12, <2>1, <2>2, ListUnique
  <2>4. ~(v > 1) /\ v = signature.parity
    <3>. DEFINE parity == signature.parity
    <3>1. parity \in {0, 1} /\ v = parity + 0
      BY <1>8, <2>1
    <3>. HIDE DEF parity
    <3>. QED
      BY ONLY <3>1 DEF parity
  <2>5. Recovery(t) = with(RlpList(<<type>>, unsigned), v)
    BY <1>3, <1>9, <1>16, <2>4, Zenon
  <2>. QED
    BY <1>11, <2>3, <2>4, <2>5, Zenon DEF prefix
<1>. QED
  BY <1>14, <1>15, <1>16, Zenon

\* The items of the transaction in hand are taken where it was cut, up to here.
ScanFollows(tx) ==
  /\ pc \in {"scan", "model"} =>
       /\ \A k \in DOMAIN fields : fields[k] = FieldAt(tx, k)
       /\ Len(fields) <= Items(tx) /\ i = tx.cuts[Len(fields) + 1] /\ end = Len(Wire(tx))
  /\ pc = "model" => Len(fields) = Items(tx)

\* A transaction was taken as it was cut.
TakenAs(found, tx) ==
  /\ found.type = tx.type /\ Len(found.fields) = Items(tx)
  /\ \A k \in 1 .. Items(tx) : found.fields[k] = FieldAt(tx, k)

SignInv ==
  packed # <<>> =>
    /\ InHand => ScanFollows(packed[1][Taken])
    /\ \A k \in DOMAIN txs : TakenAs(txs[k], packed[1][k])

\* The transaction in hand is the one that was packed.
LEMMA InHandOf ==
  ASSUME Typed, Inv, PackInv, packed # <<>>, InHand, NEW tx, tx = packed[1][Taken]
  PROVE  /\ Taken = Len(txs) + 1 /\ Len(txs) \in Nat
         /\ tx \in PackedTx /\ IsSealed(tx) /\ tx.raw = RawBytes /\ tx.raw # <<>> /\ Len(tx.raw) + SHORT < USIZE
         /\ Buf = Wire(tx) /\ TxType(RawBytes) = tx.type /\ Scannable
<1>1. PICK input \in Inputs : payload = input.l2Msg /\ packed = input.packed
                             /\ (input.packed # <<>> => Follows(input))
  BY DEF PackInv
<1>. DEFINE list == input.packed[1]
<1>2. /\ list \in Seq(PackedTx) /\ packed[1] = list
      /\ input.isL2Message => AreTxsOf(input.l2Msg, input.parts, list)
      /\ ~input.isL2Message => list = <<>>
      /\ \A k \in DOMAIN list : Len(list[k].recovery) = 1 /\ IsSealed(list[k])
  BY <1>1, PackedOf
<1>3. Taken <= Len(list) /\ raw = list[Taken].at
  BY <1>1 DEF Follows, FoundInv
<1>4. Len(txs) \in Nat
  BY DEF Typed
<1>5. Taken = Len(txs) + 1
  BY DEF Taken
<1>. HIDE DEF list
<1>6. Taken \in DOMAIN list /\ list # <<>>
  <2>1. Len(list) \in Nat /\ DOMAIN list = 1 .. Len(list)
    BY <1>2
  <2>2. Taken \in 1 .. Len(list)
    BY <1>3, <1>4, <1>5, <2>1
  <2>3. DOMAIN (<<>>) = {}
    OBVIOUS
  <2>. QED
    BY <2>1, <2>2, <2>3
<1>7. AreTxsOf(input.l2Msg, input.parts, list)
  BY <1>2, <1>6
<1>8. tx.raw = Slice(input.l2Msg, list[Taken].at[1], list[Taken].at[2])
  BY <1>2, <1>6, <1>7 DEF AreTxsOf
<1>9. tx.raw = RawBytes
  BY <1>1, <1>3, <1>8 DEF RawBytes
<1>10. tx \in PackedTx /\ IsSealed(tx)
  BY <1>2, <1>6
<1>11. raw[1] < raw[2] /\ RawInv
  BY DEF InHand, Inv
<1>12. RawBytes # <<>> /\ Len(RawBytes) = raw[2] - raw[1] /\ raw[1] \in Nat /\ raw[2] \in Nat
  BY <1>11, RawOf
<1>13. Len(RawBytes) + SHORT < USIZE
  <2>1. raw[2] <= Len(payload) /\ Len(payload) \in Nat /\ Len(payload) + SHORT < USIZE
    BY <1>11 DEF RawInv, Typed
  <2>. QED
    BY <1>12, <2>1, Widths
<1>14. tx.raw # <<>> /\ Len(tx.raw) + SHORT < USIZE
  BY <1>9, <1>12, <1>13
<1>15. Body(tx.raw) = Wire(tx) /\ TxType(tx.raw) = tx.type /\ Layout(tx.type) # <<>> /\ IsList(Wire(tx))
  BY <1>10, <1>14, WireOf
<1>16. Buf = Wire(tx) /\ TxType(RawBytes) = tx.type /\ Scannable
  BY <1>9, <1>15 DEF Buf, Scannable
<1>. QED
  BY <1>4, <1>5, <1>9, <1>10, <1>14, <1>16

\* It is scanned item by item, and the scan does not give up.
LEMMA ScannedOf ==
  ASSUME Typed, Inv, PackInv, packed # <<>>, InHand, pc = "scan", NEW tx, tx = packed[1][Taken], ScanFollows(tx)
  PROVE  /\ i \in Nat /\ end \in Nat /\ i <= end
         /\ i < end => /\ Len(fields) + 1 \in 1 .. Items(tx)
                       /\ Header(Buf, i).ok /\ Header(Buf, i).to = tx.cuts[Len(fields) + 2]
                       /\ <<i, Header(Buf, i).from, Header(Buf, i).to>> = FieldAt(tx, Len(fields) + 1)
         /\ i >= end => Len(fields) = Items(tx)
<1>. DEFINE n == Items(tx)
            m == Len(fields)
            body == Wire(tx)
            cut == tx.cuts
<1>1. /\ tx \in PackedTx /\ IsSealed(tx) /\ tx.raw # <<>> /\ Len(tx.raw) + SHORT < USIZE /\ Buf = body
  BY InHandOf
<1>2. /\ n \in Nat /\ cut[n + 1] = Len(body)
      /\ \A k \in 1 .. n + 1 : cut[k] \in Nat /\ cut[k] <= Len(body)
      /\ \A k \in 1 .. n : cut[k] < cut[k + 1]
      /\ \A j, k \in 1 .. n + 1 : j <= k => cut[j] <= cut[k]
  BY <1>1, CutsOf
<1>3. m \in Nat /\ m <= n /\ i = cut[m + 1] /\ end = Len(body)
  BY DEF ScanFollows, Typed
<1>. HIDE DEF n, m, body, cut
<1>4. m + 1 \in 1 .. n + 1 /\ n + 1 \in 1 .. n + 1
  BY ONLY <1>2, <1>3
<1>5. i \in Nat /\ end \in Nat /\ i <= end
  BY <1>2, <1>3, <1>4
<1>6. ASSUME m # n PROVE i < end /\ m + 1 \in 1 .. n
  <2>1. m + 1 \in 1 .. n /\ m + 2 \in 1 .. n + 1 /\ m + 1 + 1 = m + 2
    BY ONLY <1>2, <1>3, <1>6
  <2>2. cut[m + 1] < cut[m + 2] /\ cut[m + 2] <= Len(body) /\ cut[m + 1] \in Nat /\ cut[m + 2] \in Nat
    BY <1>2, <1>4, <2>1
  <2>. QED
    BY <1>3, <1>5, <2>1, <2>2
<1>7. ASSUME m = n PROVE ~(i < end)
  BY <1>2, <1>3, <1>5, <1>7
<1>8. ASSUME i < end
      PROVE  /\ m + 1 \in 1 .. n /\ Header(Buf, i).ok /\ Header(Buf, i).to = cut[m + 2]
             /\ <<i, Header(Buf, i).from, Header(Buf, i).to>> = FieldAt(tx, m + 1)
  <2>1. m + 1 \in 1 .. n
    BY <1>6, <1>7, <1>8
  <2>. DEFINE k == m + 1
  <2>2. k \in 1 .. Items(tx) /\ k + 1 = m + 2 /\ i = tx.cuts[k]
    BY <1>3, <2>1 DEF n, cut
  <2>. HIDE DEF k
  <2>3. Header(Wire(tx), tx.cuts[k]).ok /\ Header(Wire(tx), tx.cuts[k]).to = tx.cuts[k + 1]
    BY <1>1, <2>2, FieldOf
  <2>4. FieldAt(tx, k) = <<i, Header(Buf, i).from, Header(Buf, i).to>>
    BY <1>1, <2>2, <2>3, Zenon DEF FieldAt, body
  <2>. QED
    BY <1>1, <2>1, <2>2, <2>3, <2>4 DEF k, body, cut
<1>9. i >= end => m = n
  BY <1>5, <1>6
<1>10. m + 2 = Len(fields) + 2
  BY DEF m
<1>. QED
  BY <1>5, <1>8, <1>9, <1>10 DEF n, m, cut

\* All its items taken, it has the sizes of its type.
LEMMA ModeledOf ==
  ASSUME Typed, Inv, PackInv, packed # <<>>, InHand, pc = "model", NEW tx, tx = packed[1][Taken], ScanFollows(tx)
  PROVE  TakenAs(Modeled(raw, Buf, TxType(RawBytes), fields), tx)
<1>. DEFINE n == Items(tx)
            type == tx.type
            found == Modeled(raw, Buf, type, fields)
<1>1. /\ tx \in PackedTx /\ IsSealed(tx) /\ tx.raw # <<>> /\ Len(tx.raw) + SHORT < USIZE
      /\ TxType(RawBytes) = type
  BY InHandOf
<1>2. /\ type \in Nat /\ type \in 0 .. TYPES /\ TYPES \in Nat
      /\ CASE type = 0 -> n = 9 [] type = 1 -> n = 11 [] OTHER -> n >= 12
  BY <1>1, SealedCuts, TxOf, FormatAssumption
<1>3. Len(fields) = n /\ n \in Nat /\ \A k \in 1 .. n : fields[k] = FieldAt(tx, k)
  <2>1. Len(fields) = n /\ \A k \in DOMAIN fields : fields[k] = FieldAt(tx, k)
    BY DEF ScanFollows
  <2>2. DOMAIN fields = 1 .. Len(fields) /\ Len(fields) \in Nat
    BY DEF Typed
  <2>. QED
    BY <2>1, <2>2
<1>4. \A k \in 1 .. n : Size(fields[k]) = Len(Held(tx, k))
  <2>. SUFFICES ASSUME NEW k \in 1 .. n PROVE Size(fields[k]) = Len(Held(tx, k))
    OBVIOUS
  <2>1. Len(Held(tx, k)) = Size(FieldAt(tx, k))
    BY <1>1, FieldOf
  <2>. QED
    BY <1>3, <2>1
<1>. DEFINE nonce == IF type = 0 THEN 1 ELSE 2
            gas == CASE type = 0 -> 3 [] type = 1 -> 4 [] OTHER -> 5
            l == Layout(type)
<1>5. /\ Len(Held(tx, nonce)) <= INTEGER /\ Len(Held(tx, gas)) <= INTEGER
      /\ Len(Held(tx, gas + 1)) \in {0, ADDRESS} /\ Len(Held(tx, gas + 2)) <= SCALAR
  BY <1>1, SealedSizes
<1>6. /\ l[1] = nonce /\ l[2] = gas /\ l[3] = gas + 1 /\ l[4] = gas + 2 /\ l[5] = gas + 3
      /\ n >= gas + 6 /\ nonce \in 1 .. n /\ gas \in 1 .. n /\ gas + 1 \in 1 .. n /\ gas + 2 \in 1 .. n
  <2>. HIDE DEF type, n
  <2>1. CASE type = 0
    BY <1>2, <1>3, <2>1 DEF Layout
  <2>2. CASE type = 1
    BY <1>2, <1>3, <2>2 DEF Layout
  <2>3. CASE type # 0 /\ type # 1
    <3>1. type \in 2 .. TYPES
      BY ONLY <1>2, <2>3
    <3>2. l = <<2, 5, 6, 7, 8>>
      BY <2>3, <3>1 DEF Layout
    <3>3. nonce = 2 /\ gas = 5 /\ n >= 12
      BY <1>2, <2>3
    <3>. HIDE DEF l, nonce, gas
    <3>. QED
      BY <1>3, <3>2, <3>3
  <2>. QED
    BY <2>1, <2>2, <2>3
<1>. HIDE DEF nonce, gas, l, n, type
<1>7. Fits(type, fields)
  <2>1. /\ Size(fields[nonce]) = Len(Held(tx, nonce)) /\ Size(fields[gas]) = Len(Held(tx, gas))
        /\ Size(fields[gas + 1]) = Len(Held(tx, gas + 1)) /\ Size(fields[gas + 2]) = Len(Held(tx, gas + 2))
    BY <1>4, <1>6
  <2>2. /\ Size(fields[l[1]]) <= INTEGER /\ Size(fields[l[2]]) <= INTEGER
        /\ Size(fields[l[3]]) \in {0, ADDRESS} /\ Size(fields[l[4]]) <= SCALAR
    BY <1>5, <1>6, <2>1
  <2>3. Len(fields) >= l[5] + 3
    <3>1. gas \in Nat
      BY <1>6
    <3>. QED
      BY <1>3, <1>6, <3>1
  <2>. QED
    BY <2>2, <2>3, Zenon DEF Fits, l
<1>8. found.type = type /\ found.fields = fields
  BY <1>7 DEF Modeled
<1>. HIDE DEF found
<1>9. TakenAs(found, tx)
  BY <1>3, <1>8 DEF TakenAs, n, type
<1>. QED
  BY <1>1, <1>9 DEF found

\* Another transaction is found, as it was cut.
LEMMA PushSigned ==
  ASSUME Typed, SignInv, NEW found, Push(found), packed # <<>>, InHand, Taken = Len(txs) + 1,
         TakenAs(found, packed[1][Taken])
  PROVE  SignInv'
<1>1. pc' = "walk" /\ txs' = Append(txs, found) /\ packed' = packed
  BY DEF Push
<1>2. ~InHand'
  BY <1>1 DEF InHand
<1>3. Len(txs) \in Nat /\ DOMAIN txs = 1 .. Len(txs) /\ txs \in Seq(Tx)
  BY DEF Typed
<1>. DEFINE m == Len(txs)
            longer == Append(txs, found)
<1>4. DOMAIN longer = 1 .. m + 1 /\ longer[m + 1] = found /\ \A k \in 1 .. m : longer[k] = txs[k]
  BY <1>3
<1>5. \A k \in 1 .. m : TakenAs(txs[k], packed[1][k])
  BY <1>3 DEF SignInv
<1>6. \A k \in 1 .. m + 1 : k \in 1 .. m \/ k = m + 1
  BY <1>3
<1>. HIDE DEF longer, m
<1>7. \A k \in DOMAIN longer : TakenAs(longer[k], packed[1][k])
  <2>1. TakenAs(found, packed[1][m + 1])
    BY DEF m
  <2>. QED
    BY <1>4, <1>5, <1>6, <2>1
<1>. QED
  BY <1>1, <1>2, <1>7 DEF SignInv, longer

LEMMA SignStep == Typed /\ Inv /\ PackInv /\ SignInv /\ [CodecNext]_codecVars => SignInv'
<1>. SUFFICES ASSUME Typed, Inv, PackInv, SignInv, [CodecNext]_codecVars PROVE SignInv'
  OBVIOUS
<1>0. packed' = packed
  BY DEF CodecNext, WalkSigned, WalkBatch, WalkOther, BatchPart, WalkDone, DecodeEmpty, DecodeOpaque,
         DecodeList, ScanItem, ScanMalformed, ScanDone, Model, Push, codecVars
<1>. SUFFICES ASSUME packed # <<>> PROVE SignInv'
  BY <1>0 DEF SignInv
<1>. DEFINE tx == packed[1][Taken]
<1>1. RawBytes # <<>> <=> raw[1] < raw[2]
  BY RawOf DEF Inv
<1>2. pc \in {"scan", "model"} => raw[1] < raw[2]
  BY DEF Inv, RawInv
<1>3. InHand => ScanFollows(tx)
  BY DEF SignInv
<1>4. InHand => Scannable
  BY InHandOf
<1>5. \A k \in DOMAIN txs : TakenAs(txs[k], packed[1][k])
  BY DEF SignInv
\* No transaction that was packed is given up.
<1>6. ASSUME DecodeOpaque PROVE FALSE
  BY <1>1, <1>4, <1>6 DEF DecodeOpaque, InHand
<1>7. ASSUME ScanMalformed PROVE FALSE
  <2>1. pc = "scan" /\ InHand /\ ((i < end /\ ~Header(Buf, i).ok) \/ i > end)
    BY <1>2, <1>7 DEF ScanMalformed, Overshot, InHand
  <2>2. i \in Nat /\ end \in Nat /\ i <= end /\ (i < end => Header(Buf, i).ok)
    BY <1>3, <2>1, ScannedOf
  <2>. QED
    BY <2>1, <2>2
<1>8. CASE Model
  <2>1. pc = "model" /\ InHand
    BY <1>2, <1>8 DEF Model, InHand
  <2>2. TakenAs(Modeled(raw, Buf, TxType(RawBytes), fields), tx)
    BY <1>3, <2>1, ModeledOf
  <2>3. Taken = Len(txs) + 1
    BY <2>1 DEF Taken
  <2>. DEFINE found == Modeled(raw, Buf, TxType(RawBytes), fields)
  <2>4. Push(found) /\ TakenAs(found, packed[1][Taken])
    BY <1>8, <2>2 DEF Model
  <2>. HIDE DEF found
  <2>. QED
    BY <2>1, <2>3, <2>4, PushSigned
<1>9. CASE DecodeList
  <2>1. /\ pc = "decode" /\ pc' = "scan" /\ i' = Header(Buf, 0).from /\ end' = Header(Buf, 0).to /\ fields' = <<>>
        /\ UNCHANGED <<packed, raw, txs>> /\ RawBytes # <<>>
    BY <1>9 DEF DecodeList
  <2>2. InHand /\ InHand' /\ Taken' = Taken
    BY <1>1, <2>1 DEF InHand, Taken
  <2>3. /\ tx \in PackedTx /\ IsSealed(tx) /\ tx.raw # <<>> /\ Len(tx.raw) + SHORT < USIZE /\ Buf = Wire(tx)
    BY <2>2, InHandOf
  <2>4. Header(Buf, 0).from = tx.cuts[1] /\ Header(Buf, 0).to = tx.cuts[Items(tx) + 1]
    BY <2>3, WireOf
  <2>5. Items(tx) \in Nat /\ tx.cuts[Items(tx) + 1] = Len(Wire(tx))
    BY <2>3, CutsOf
  <2>. HIDE DEF tx
  <2>6. Len(fields') = 0 /\ DOMAIN fields' = {}
    BY <2>1
  <2>7. ScanFollows(tx)'
    BY <2>1, <2>2, <2>4, <2>5, <2>6 DEF ScanFollows, tx
  <2>. QED
    BY <1>5, <2>1, <2>2, <2>7 DEF SignInv, tx
<1>10. CASE ScanItem
  <2>. DEFINE new == <<i, Header(Buf, i).from, Header(Buf, i).to>>
              m == Len(fields)
  <2>1. /\ pc = "scan" /\ i < end /\ pc' = "scan" /\ fields' = Append(fields, new) /\ i' = Header(Buf, i).to
        /\ UNCHANGED <<packed, raw, end, txs>>
    BY <1>10 DEF ScanItem
  <2>2. InHand /\ InHand' /\ Taken' = Taken /\ tx' = tx
    BY <1>2, <2>1 DEF InHand, Taken
  <2>3. m + 1 \in 1 .. Items(tx) /\ i' = tx.cuts[m + 2] /\ new = FieldAt(tx, m + 1)
    BY <1>3, <2>1, <2>2, ScannedOf
  <2>4. fields \in Seq(Span) /\ m \in Nat /\ DOMAIN fields = 1 .. m
    BY DEF Typed
  <2>5. end = Len(Wire(tx)) /\ \A k \in 1 .. m : fields[k] = FieldAt(tx, k)
    BY <1>3, <2>1, <2>2, <2>4 DEF ScanFollows
  <2>. HIDE DEF new
  <2>6. /\ DOMAIN fields' = 1 .. m + 1 /\ Len(fields') = m + 1 /\ fields'[m + 1] = new
        /\ \A k \in 1 .. m : fields'[k] = fields[k]
    BY <2>1, <2>4, AppendProperties
  <2>. HIDE DEF m, tx
  <2>7. \A k \in DOMAIN fields' : fields'[k] = FieldAt(tx, k)
    <3>1. \A k \in 1 .. m + 1 : k \in 1 .. m \/ k = m + 1
      BY <2>4
    <3>. QED
      BY <2>3, <2>5, <2>6, <3>1
  <2>8. /\ Len(fields') <= Items(tx) /\ i' = tx.cuts[Len(fields') + 1] /\ end' = Len(Wire(tx))
    <3>1. m + 1 + 1 = m + 2 /\ m + 1 <= Items(tx)
      BY <2>3, <2>4
    <3>. QED
      BY <2>1, <2>3, <2>5, <2>6, <3>1
  <2>9. ScanFollows(tx)'
    BY <2>1, <2>2, <2>7, <2>8 DEF ScanFollows
  <2>. QED
    BY <1>5, <2>1, <2>2, <2>9 DEF SignInv, tx
<1>11. CASE ScanDone
  <2>1. /\ pc = "scan" /\ i >= end /\ pc' = "model"
        /\ UNCHANGED <<packed, raw, i, end, fields, txs>>
    BY <1>11 DEF ScanDone
  <2>2. InHand /\ InHand' /\ Taken' = Taken /\ tx' = tx
    BY <1>2, <2>1 DEF InHand, Taken
  <2>3. Len(fields) = Items(tx) /\ ScanFollows(tx)
    BY <1>3, <2>1, <2>2, ScannedOf
  <2>. HIDE DEF tx
  <2>4. ScanFollows(tx)'
    BY <2>1, <2>2, <2>3 DEF ScanFollows
  <2>. QED
    BY <1>5, <2>1, <2>2, <2>4 DEF SignInv, tx
<1>12. CASE WalkSigned \/ WalkBatch \/ WalkOther \/ BatchPart \/ WalkDone \/ DecodeEmpty
  <2>1. UNCHANGED <<packed, txs>> /\ pc' \notin {"scan", "model"}
    BY <1>12 DEF WalkSigned, WalkBatch, WalkOther, BatchPart, WalkDone, DecodeEmpty
  <2>2. \A t : ScanFollows(t)'
    BY <2>1 DEF ScanFollows
  <2>. QED
    BY <1>5, <2>1, <2>2 DEF SignInv
<1>13. CASE UNCHANGED codecVars
  BY <1>13 DEF codecVars, SignInv, InHand, Taken, ScanFollows
<1>. QED
  BY <1>6, <1>7, <1>8, <1>9, <1>10, <1>11, <1>12, <1>13 DEF CodecNext

LEMMA SignInit == CodecInit => SignInv
<1>. SUFFICES ASSUME CodecInit PROVE SignInv
  OBVIOUS
<1>1. pc = "walk" /\ txs = <<>>
  BY DEF CodecInit
<1>2. ~InHand /\ DOMAIN txs = {}
  BY <1>1 DEF InHand
<1>. QED
  BY <1>2 DEF SignInv

\* So the transactions found give what was signed.
LEMMA SignSuffices == Typed /\ Inv /\ PackInv /\ SignInv => SignedIsRecovered
<1>. SUFFICES ASSUME Typed, Inv, PackInv, SignInv, pc = "done", packed # <<>>,
                     NEW k \in DOMAIN txs \cap DOMAIN packed[1]
              PROVE  Recovery(txs[k]) = packed[1][k].recovery
  BY DEF SignedIsRecovered
<1>. DEFINE tx == packed[1][k]
            found == txs[k]
<1>1. PICK input \in Inputs : payload = input.l2Msg /\ packed = input.packed
                             /\ (input.packed # <<>> => Follows(input))
  BY DEF PackInv
<1>2. /\ input.packed[1] \in Seq(PackedTx)
      /\ Len(tx.recovery) = 1 /\ IsSealed(tx)
      /\ input.isL2Message => AreTxsOf(input.l2Msg, input.parts, input.packed[1])
      /\ ~input.isL2Message => input.packed[1] = <<>>
  BY <1>1, PackedOf
<1>3. tx \in PackedTx
  BY <1>1, <1>2
<1>4. AreTxsOf(input.l2Msg, input.parts, packed[1])
  <2>1. packed[1] # <<>>
    <3>1. k \in DOMAIN packed[1] /\ DOMAIN (<<>>) = {}
      OBVIOUS
    <3>. QED
      BY <3>1
  <2>. QED
    BY <1>1, <1>2, <2>1
<1>5. found.raw = tx.at
  BY <1>1 DEF Follows, FoundInv
<1>6. Raw(found) = tx.raw
  BY <1>1, <1>4, <1>5 DEF AreTxsOf, Raw
<1>7. /\ payload \in Seq(Byte) /\ Len(payload) \in Nat /\ Len(payload) + SHORT < USIZE
      /\ found.raw[1] \in Nat /\ found.raw[2] \in Nat /\ found.raw[1] < found.raw[2] /\ found.raw[2] <= Len(payload)
  <2>1. payload \in Seq(Byte) /\ Len(payload) \in Nat /\ Len(payload) + SHORT < USIZE /\ found \in Tx
    BY DEF Typed
  <2>2. found.raw \in Nat \X Nat
    BY <2>1 DEF Tx
  <2>3. found.raw[1] < found.raw[2] /\ found.raw[2] <= Len(payload)
    BY DEF Inv, TxsInv, TxsFit, TxFits
  <2>. QED
    BY <2>1, <2>2, <2>3
<1>8. tx.raw # <<>> /\ Len(tx.raw) + SHORT < USIZE
  <2>. DEFINE a == found.raw[1]
              b == found.raw[2]
              bytes == Slice(payload, a, b)
  <2>0. tx.raw = bytes
    BY <1>6 DEF Raw
  <2>1. a \in Nat /\ b \in Nat /\ a < b /\ a <= b /\ b <= Len(payload)
    BY <1>7
  <2>. HIDE DEF a, b
  <2>2. bytes \in Seq(Byte) /\ Len(bytes) = b - a
    BY <1>7, <2>1, SliceOf
  <2>. HIDE DEF bytes
  <2>3. bytes # <<>> /\ Len(bytes) + SHORT < USIZE
    <3>1. Len(bytes) # 0 /\ Len(bytes) + SHORT < USIZE
      BY <1>7, <2>1, <2>2, Widths
    <3>. QED
      BY <3>1
  <2>. QED
    BY <2>0, <2>3
<1>9. TakenAs(found, tx)
  BY DEF SignInv
<1>. HIDE DEF found, tx
<1>10. Recovery(found) = tx.recovery
  BY <1>2, <1>3, <1>6, <1>8, <1>9, RecoveredOf DEF TakenAs
<1>. QED
  BY <1>10 DEF found, tx

(***************************************************************************)
(* From every transaction found, whatever its type and its sizes, the very *)
(* bytes its wallet signed are put together again, with the signature and  *)
(* the parity that go with them (Tx::recover).                             *)
(***************************************************************************)
THEOREM SignedCorrect == CodecSpec => []SignedIsRecovered
BY InvInit, CodecStep, PackInit, PackStep, SignInit, SignStep, SignSuffices, PTL DEF CodecSpec

=============================================================================
