-------------------------------- MODULE Secp --------------------------------
(***************************************************************************)
(* ECDSA as src/src/secp.rs computes it: recovery of the key behind a      *)
(* signature, and FixedKey, which checks a signature against a known key   *)
(* with tables, signed digits and an addition that cannot double.          *)
(*                                                                         *)
(* The curve is a parameter, so that TLC can go through every signature of *)
(* a small one.  Field and scalar arithmetic, the group itself and recovery *)
(* are libraries (k256, libsecp256k1), described by their mathematics.     *)
(***************************************************************************)
EXTENDS Integers, Sequences

CONSTANTS
  P,            \* the field is the integers modulo P
  N,            \* the order of the group, a prime
  Generator,    \* <<x, y>>
  W,            \* bits of a digit
  DIGITS        \* digits of a 32-byte number

\* Every number but 0 has an inverse modulo a prime.
Prime(m) == \A a \in 1 .. m - 1 : \E b \in 1 .. m - 1 : (a * b) % m = 1

ASSUME CurveAssumption ==
  /\ P \in Nat /\ N \in Nat /\ 2 < N /\ N < P /\ P < 2 * N
  /\ Prime(P) /\ Prime(N)

BASE == 2 ^ W                 \* 256, a digit is a byte
HALF == 2 ^ (W - 1)
ROWS == DIGITS + 1
Word == 0 .. BASE ^ DIGITS - 1    \* what 32 bytes hold

\* A digit is less than the order, and the digits of a word hold all scalars.
ASSUME DigitAssumption ==
  /\ W \in Nat \ {0} /\ DIGITS \in Nat \ {0} /\ HALF \in Nat \ {0}
  /\ HALF < N /\ BASE = 2 * HALF
  /\ BASE ^ 0 = 1 /\ \A row \in 0 .. DIGITS : BASE ^ (row + 1) = BASE ^ row * BASE
  /\ N <= BASE ^ DIGITS

None == <<>>                  \* no key, and the identity

-----------------------------------------------------------------------------
(* The group: its elements are <<x, y>> and <<>>, the identity *)

ModInverse(a, m) == CHOOSE x \in 1 .. m - 1 : (a * x) % m = 1
Negate(p) == <<p[1], (P - p[2]) % P>>

Plus(p, q) ==
  IF p = <<>> THEN q ELSE IF q = <<>> THEN p ELSE IF q = Negate(p) THEN <<>> ELSE
  LET slope == IF p = q THEN 3 * p[1] * p[1] * ModInverse(2 * p[2], P)
               ELSE (p[2] - q[2]) * ModInverse((p[1] - q[1]) % P, P)
      x == (slope * slope - p[1] - q[1]) % P
  IN  <<x, (slope * (p[1] - x) - p[2]) % P>>

Multiple[k \in 0 .. N - 1] == IF k = 0 THEN <<>> ELSE Plus(Multiple[k - 1], Generator)
Log(p) == CHOOSE k \in 0 .. N - 1 : Multiple[k] = p
Times(k, p) == Multiple[(k * Log(p)) % N]

Key == {Multiple[k] : k \in 1 .. N - 1}

\* N is the order of the group: no smaller multiple is the identity.
ASSUME OrderAssumption == None \notin Key

\* The multiples of the generator are a group of points of the curve: their
\* coordinates are in the field, and at most two of them share an x.
ASSUME GroupAssumption ==
  /\ Key \subseteq (0 .. P - 1) \X (0 .. P - 1)
  /\ \A p, q \in Key : p[1] = q[1] => q \in {p, Negate(p)}
  /\ \A j, k \in 0 .. N - 1 : Plus(Multiple[j], Multiple[k]) = Multiple[(j + k) % N]

-----------------------------------------------------------------------------
(* Recovery.  A signature is [digest, r, s, recid]; the recovery id says   *)
(* whether the x of the nonce point is r or r + n, and which of its two y. *)

Nonces(sig) ==
  {q \in Key : q[1] = sig.r + N * (sig.recid \div 2) /\ q[2] % 2 = sig.recid % 2}

\* The key that made the signature, or None.  Rejects r and s out of range.
RecoverKey(sig) ==
  IF sig.r \in 1 .. N - 1 /\ sig.s \in 1 .. N - 1 /\ Nonces(sig) # {}
  THEN LET nonce == CHOOSE q \in Nonces(sig) : TRUE
           key == Times(ModInverse(sig.r, N),
                        Plus(Times(sig.s, nonce), Times((-sig.digest) % N, Generator)))
       IN  IF key = <<>> THEN None ELSE key
  ELSE None

-----------------------------------------------------------------------------
(* Gej: a running sum <<x/z^2, y/z^3>> *)

Zero == [x |-> 0, y |-> 0, z |-> 0, infinity |-> TRUE]

\* acc + b, unless the two are equal: the formulas do not double.
Add(acc, b) ==
  IF acc.infinity THEN [ok |-> TRUE, acc |-> [x |-> b[1], y |-> b[2], z |-> 1, infinity |-> FALSE]]
  ELSE LET z2 == (acc.z * acc.z) % P
           h == (b[1] * z2 - acc.x) % P
           i == (acc.y - b[2] * z2 * acc.z) % P
           h2 == (-(h * h)) % P
           t == (acc.x * h2) % P
           x == (i * i + h2 * h + t + t) % P
       IN  IF h = 0 THEN [ok |-> i # 0, acc |-> [acc EXCEPT !.infinity = i # 0]]
           ELSE [ok |-> TRUE,
                 acc |-> [x |-> x, y |-> ((t + x) * i + h2 * h * acc.y) % P,
                          z |-> (acc.z * h) % P, infinity |-> FALSE]]

(* Table: the multiples 1 .. HALF of a point, times BASE^row *)

Entry(point, row, j) == Times(j * BASE ^ row, point)

Byte(k, row) == IF row < DIGITS THEN (k \div BASE ^ row) % BASE ELSE 0

\* A digit above HALF becomes negative and carries one into the next.
Carry(d) == IF d > HALF THEN 1 ELSE 0

\* Wrong: the carry is lost.
WrongDigitNoBorrow(d) == IF d > HALF THEN d - BASE + 1 ELSE d

Digit(d) == d - BASE * Carry(d)

\* Add one row's digit of k; not ok once an addition needed a doubling.
AddRow(before, k, point, row) ==
  LET d == before.carry + Byte(k, row)
      digit == Digit(d)
      added == IF digit = 0 THEN [ok |-> TRUE, acc |-> before.acc]
               ELSE IF digit > 0 THEN Add(before.acc, Entry(point, row, digit))
               ELSE Add(before.acc, Negate(Entry(point, row, -digit)))
  IN  IF before.ok THEN [ok |-> added.ok, acc |-> added.acc, carry |-> Carry(d)] ELSE before

\* acc + k * point, a row at a time.
MulAdd(acc, k, point) ==
  LET step[row \in 0 .. ROWS] ==
        IF row = 0 THEN [ok |-> TRUE, acc |-> acc, carry |-> 0]
        ELSE AddRow(step[row - 1], k, point, row - 1)
  IN  step[ROWS]

-----------------------------------------------------------------------------
(* FixedKey *)

\* Wrong: the nonce point's x is never taken to be r + n.
WrongXMatchesSmall(acc, r) == (r * acc.z * acc.z - acc.x) % P = 0

\* Whether the x of acc is r modulo N: it is r, or r + N if that is in the field.
XMatches(acc, r) ==
  LET xIs(c) == (c * acc.z * acc.z - acc.x) % P = 0
  IN  xIs(r) \/ (r < P - N /\ xIs(r + N))

\* A doubling came up: the whole sum once more, with complete formulas.
Doubled(u1, u2, key, r) ==
  LET sum == Plus(Times(u1, Generator), Times(u2, key))
  IN  sum # <<>> /\ sum[1] % N = r

\* FixedKey::verify
Verify(key, sig) ==
  /\ sig.r \in 1 .. N - 1 /\ sig.s \in 1 .. N - 1
  /\ LET inverse == ModInverse(sig.s, N)
         u1 == (sig.digest * inverse) % N
         u2 == (sig.r * inverse) % N
         first == MulAdd(Zero, u1, Generator)
         both == MulAdd(first.acc, u2, key)
     IN  IF ~first.ok \/ ~both.ok THEN Doubled(u1, u2, key, sig.r)
         ELSE ~both.acc.infinity /\ XMatches(both.acc, sig.r)
=============================================================================
