----------------------------- MODULE SecpProofs -----------------------------
(***************************************************************************)
(* FixedKey accepts what recovery finds, on every curve whose group is of  *)
(* prime order.  From the bottom up: numbers modulo n; the multiples of    *)
(* the generator and their logarithms; Add, whose formulas are those of    *)
(* the line through two points (AddAdds); MulAdd, a row of digits at a     *)
(* time (MulAddAdds); then Verify, which accepts by the x of the sum, and  *)
(* the recovery id, which tells apart the points that have such an x       *)
(* (FixedKeyCorrect).                                                      *)
(*                                                                         *)
(* The provers reason badly about products under %, so every equation is a *)
(* fact about Same, and the polynomial identities are steps of their own.  *)
(***************************************************************************)
EXTENDS Secp, WellFoundedInduction, TLAPS

-----------------------------------------------------------------------------
(* Integers modulo n *)

\* a and b are the same modulo n.
Same(n, a, b) == a \in Int /\ b \in Int /\ \E k \in Int : a = b + k * n

LEMMA Division ==
  ASSUME NEW a \in Int, NEW n \in Nat, n > 0
  PROVE  /\ a \div n \in Int /\ a % n \in 0 .. n - 1
         /\ a = (a \div n) * n + (a % n)
OBVIOUS

LEMMA DivisionUnique ==
  ASSUME NEW n \in Nat, n > 0, NEW q \in Int, NEW r \in 0 .. n - 1
  PROVE  (q * n + r) \div n = q /\ (q * n + r) % n = r
OBVIOUS

LEMMA SameRemainder ==
  ASSUME NEW n \in Nat, n > 0, NEW a \in Int, NEW b \in Int
  PROVE  Same(n, a, b) <=> a % n = b % n
<1>1. /\ a \div n \in Int /\ a % n \in 0 .. n - 1 /\ a = (a \div n) * n + (a % n)
      /\ b \div n \in Int /\ b % n \in 0 .. n - 1 /\ b = (b \div n) * n + (b % n)
  BY Division
<1>2. ASSUME a % n = b % n PROVE Same(n, a, b)
  <2>. DEFINE q == a \div n
              p == b \div n
              r == b % n
  <2>1. q \in Int /\ p \in Int /\ r \in Int /\ a = q * n + r /\ b = p * n + r
    BY <1>1, <1>2
  <2>. HIDE DEF q, p, r
  <2>2. q - p \in Int /\ a = b + (q - p) * n
    BY <2>1
  <2>. QED
    BY <2>2 DEF Same
<1>3. ASSUME NEW k \in Int, a = b + k * n PROVE a % n = b % n
  <2>. DEFINE p == b \div n
              r == b % n
  <2>1. p \in Int /\ r \in 0 .. n - 1 /\ b = p * n + r
    BY <1>1
  <2>. HIDE DEF p
  <2>2. p + k \in Int /\ a = (p + k) * n + r
    BY <1>3, <2>1
  <2>3. a % n = r
    BY <2>1, <2>2, DivisionUnique
  <2>. QED
    BY <2>3
<1>. QED
  BY <1>2, <1>3 DEF Same

LEMMA SameSelf == ASSUME NEW n \in Int, NEW a \in Int PROVE Same(n, a, a)
<1>1. a = a + 0 * n
  OBVIOUS
<1>. QED
  BY <1>1 DEF Same

LEMMA SameBack ==
  ASSUME NEW n \in Int, NEW a, NEW b, Same(n, a, b)
  PROVE  Same(n, b, a)
<1>1. a \in Int /\ b \in Int
  BY DEF Same
<1>2. PICK k \in Int : a = b + k * n
  BY DEF Same
<1>3. -k \in Int /\ b = a + (-k) * n
  BY <1>1, <1>2
<1>. QED
  BY <1>1, <1>3 DEF Same

LEMMA SameThrough ==
  ASSUME NEW n \in Int, NEW a, NEW b, NEW c, Same(n, a, b), Same(n, b, c)
  PROVE  Same(n, a, c)
<1>1. a \in Int /\ b \in Int /\ c \in Int
  BY DEF Same
<1>2. PICK k \in Int : a = b + k * n
  BY DEF Same
<1>3. PICK l \in Int : b = c + l * n
  BY DEF Same
<1>4. k + l \in Int /\ a = c + (k + l) * n
  BY <1>1, <1>2, <1>3
<1>. QED
  BY <1>1, <1>4 DEF Same

LEMMA SameSum ==
  ASSUME NEW n \in Int, NEW a, NEW b, NEW c, NEW d, Same(n, a, b), Same(n, c, d)
  PROVE  Same(n, a + c, b + d) /\ Same(n, a - c, b - d)
<1>1. a \in Int /\ b \in Int /\ c \in Int /\ d \in Int
  BY DEF Same
<1>2. PICK k \in Int : a = b + k * n
  BY DEF Same
<1>3. PICK l \in Int : c = d + l * n
  BY DEF Same
<1>4. k + l \in Int /\ a + c = (b + d) + (k + l) * n
  BY <1>1, <1>2, <1>3
<1>5. k - l \in Int /\ a - c = (b - d) + (k - l) * n
  BY <1>1, <1>2, <1>3
<1>6. a + c \in Int /\ b + d \in Int /\ a - c \in Int /\ b - d \in Int
  BY <1>1
<1>. QED
  BY <1>4, <1>5, <1>6 DEF Same

LEMMA SameProduct ==
  ASSUME NEW n \in Int, NEW a, NEW b, NEW c, NEW d, Same(n, a, b), Same(n, c, d)
  PROVE  Same(n, a * c, b * d)
<1>1. a \in Int /\ b \in Int /\ c \in Int /\ d \in Int
  BY DEF Same
<1>2. PICK k \in Int : a = b + k * n
  BY DEF Same
<1>3. PICK l \in Int : c = d + l * n
  BY DEF Same
<1>. DEFINE m == b * l + k * d + k * l * n
<1>4. m \in Int /\ a * c = b * d + m * n
  BY <1>1, <1>2, <1>3
<1>5. a * c \in Int /\ b * d \in Int
  BY <1>1
<1>. HIDE DEF m
<1>. QED
  BY <1>4, <1>5 DEF Same

\* The same number times two that are the same, and their opposites.
LEMMA SameScaled ==
  ASSUME NEW n \in Int, NEW a, NEW b, NEW c \in Int, Same(n, a, b)
  PROVE  Same(n, a * c, b * c) /\ Same(n, c * a, c * b) /\ Same(n, -a, -b)
<1>1. Same(n, c, c) /\ Same(n, 0, 0)
  BY SameSelf
<1>2. Same(n, 0 - a, 0 - b)
  BY <1>1, SameSum
<1>3. a \in Int /\ b \in Int
  BY DEF Same
<1>4. 0 - a = -a /\ 0 - b = -b
  BY <1>3
<1>. QED
  BY <1>1, <1>2, <1>4, SameProduct

\* What a number leaves modulo n is the same as the number.
LEMMA SameAsRest ==
  ASSUME NEW n \in Nat, n > 0, NEW a \in Int
  PROVE  a % n \in 0 .. n - 1 /\ Same(n, a % n, a) /\ Same(n, a, a % n)
<1>1. a \div n \in Int /\ a % n \in 0 .. n - 1 /\ a = (a \div n) * n + (a % n)
  BY Division
<1>. DEFINE q == a \div n
            r == a % n
<1>2. q \in Int /\ r \in Int /\ a = q * n + r
  BY <1>1
<1>. HIDE DEF q, r
<1>3. -q \in Int /\ a = r + q * n /\ r = a + (-q) * n
  BY <1>2
<1>4. Same(n, r, a) /\ Same(n, a, r)
  BY <1>2, <1>3 DEF Same
<1>. QED
  BY <1>1, <1>4 DEF r

\* Only multiples of n are 0 modulo n.
LEMMA SameAsZero ==
  ASSUME NEW n \in Nat, n > 0, NEW a \in Int
  PROVE  Same(n, a, 0) <=> a % n = 0
<1>1. 0 % n = 0
  OBVIOUS
<1>. QED
  BY <1>1, SameRemainder

\* Numbers of the field that are the same modulo n are the same.
LEMMA SameInRange ==
  ASSUME NEW n \in Nat, n > 0, NEW a \in 0 .. n - 1, NEW b \in 0 .. n - 1, Same(n, a, b)
  PROVE  a = b
<1>1. a % n = b % n
  <2>1. a \in Int /\ b \in Int
    OBVIOUS
  <2>. QED
    BY <2>1, SameRemainder
<1>2. a % n = a /\ b % n = b
  OBVIOUS
<1>. QED
  BY <1>1, <1>2

LEMMA InverseOf ==
  ASSUME NEW n \in Nat, n > 1, Prime(n), NEW a \in 1 .. n - 1
  PROVE  ModInverse(a, n) \in 1 .. n - 1 /\ Same(n, a * ModInverse(a, n), 1)
<1>1. \E x \in 1 .. n - 1 : (a * x) % n = 1
  BY DEF Prime
<1>2. ModInverse(a, n) \in 1 .. n - 1 /\ (a * ModInverse(a, n)) % n = 1
  BY <1>1 DEF ModInverse
<1>3. 1 % n = 1
  OBVIOUS
<1>4. a * ModInverse(a, n) \in Int /\ 1 \in Int /\ n > 0
  BY <1>2
<1>5. Same(n, a * ModInverse(a, n), 1)
  BY <1>2, <1>3, <1>4, SameRemainder, Zenon
<1>. QED
  BY <1>2, <1>5

\* Modulo a prime, what is not 0 can be cancelled.
LEMMA Cancel ==
  ASSUME NEW n \in Nat, n > 1, Prime(n), NEW c \in Int, c % n # 0,
         NEW a \in Int, NEW b \in Int, Same(n, c * a, c * b)
  PROVE  Same(n, a, b)
<1>. DEFINE d == c % n
            e == ModInverse(d, n)
<1>1. d \in 1 .. n - 1 /\ Same(n, c, d)
  <2>1. n > 0
    OBVIOUS
  <2>2. d \in 0 .. n - 1 /\ Same(n, c, d)
    BY <2>1, SameAsRest
  <2>. QED
    BY <2>2
<1>2. e \in 1 .. n - 1 /\ Same(n, d * e, 1)
  BY <1>1, InverseOf
<1>. HIDE DEF d, e
<1>3. e \in Int /\ d \in Int /\ e * c \in Int /\ e * d \in Int /\ d * e = e * d
  BY <1>1, <1>2
<1>4. n \in Int
  OBVIOUS
<1>5. Same(n, e * c, 1)
  <2>1. Same(n, e * c, e * d)
    BY <1>1, <1>3, <1>4, SameScaled, Zenon
  <2>. QED
    BY <1>2, <1>3, <1>4, <2>1, SameThrough, Zenon
<1>6. ASSUME NEW x \in Int PROVE Same(n, e * (c * x), x)
  <2>1. Same(n, (e * c) * x, 1 * x)
    BY <1>4, <1>5, SameScaled, Zenon
  <2>2. (e * c) * x = e * (c * x) /\ 1 * x = x
    BY <1>3
  <2>. QED
    BY <2>1, <2>2, Zenon
<1>7. Same(n, e * (c * a), e * (c * b))
  BY <1>3, <1>4, SameScaled, Zenon
<1>8. Same(n, e * (c * a), a) /\ Same(n, e * (c * b), b)
  BY <1>6, Zenon
<1>9. Same(n, a, e * (c * a))
  BY <1>4, <1>8, SameBack, Zenon
<1>10. Same(n, a, e * (c * b))
  BY <1>4, <1>7, <1>9, SameThrough, Zenon
<1>. QED
  BY <1>4, <1>8, <1>10, SameThrough, Zenon

\* Modulo a prime, a product is 0 only if a factor is.
LEMMA NoZeroProduct ==
  ASSUME NEW n \in Nat, n > 1, Prime(n), NEW a \in Int, NEW b \in Int, a % n # 0, b % n # 0
  PROVE  (a * b) % n # 0
<1>. SUFFICES ASSUME (a * b) % n = 0 PROVE FALSE
  OBVIOUS
<1>1. a * b \in Int /\ a * 0 = 0 /\ n > 0 /\ 0 \in Int
  OBVIOUS
<1>2. Same(n, a * b, a * 0)
  BY <1>1, SameAsZero, Zenon
<1>3. Same(n, b, 0)
  BY <1>1, <1>2, Cancel, Zenon
<1>. QED
  BY <1>1, <1>3, SameAsZero, Zenon

-----------------------------------------------------------------------------
(* The group *)

LEMMA Parameters ==
  /\ P \in Nat /\ N \in Nat /\ P > 1 /\ N > 2 /\ N < P /\ P < 2 * N
  /\ Prime(P) /\ Prime(N)
BY CurveAssumption

\* A non-empty set of naturals has a least one: what induction is made of.
LEMMA Least ==
  ASSUME NEW T, T \subseteq Nat, T # {}
  PROVE  \E n \in T : \A m \in T : n <= m
<1>. DEFINE R == OpToRel(<, Nat)
<1>1. IsWellFoundedOn(R, Nat)
  BY NatLessThanWellFounded
<1>2. \A m, n \in Nat : <<m, n>> \in R <=> m < n
  BY DEF OpToRel
<1>. HIDE DEF R
<1>3. PICK n \in T : \A m \in T : ~(<<m, n>> \in R)
  BY <1>1, WFMin
<1>4. \A m \in T : ~(m < n)
  BY <1>2, <1>3
<1>. QED
  BY <1>4

\* f is the multiples of the generator up to the n-th.
Multiples(f, n) == f = [k \in 0 .. n |-> IF k = 0 THEN <<>> ELSE Plus(f[k - 1], Generator)]

LEMMA MultiplesExist == \E f : Multiples(f, N - 1)
<1>. DEFINE Bad == {n \in Nat : ~\E f : Multiples(f, n)}
<1>1. SUFFICES ASSUME Bad # {} PROVE FALSE
  BY Parameters
<1>2. PICK n \in Bad : \A m \in Bad : n <= m
  BY <1>1, Least
<1>3. n # 0
  <2>1. Multiples([k \in 0 .. 0 |-> <<>>], 0)
    BY DEF Multiples
  <2>. QED
    BY <2>1
<1>4. PICK f : Multiples(f, n - 1)
  <2>1. n - 1 \in Nat /\ ~(n <= n - 1)
    BY <1>3
  <2>. QED
    BY <1>2, <2>1
<1>. DEFINE g == [k \in 0 .. n |-> IF k = 0 THEN <<>> ELSE Plus(f[k - 1], Generator)]
<1>5. \A k \in 0 .. n - 1 : g[k] = f[k]
  BY <1>4 DEF Multiples
<1>6. Multiples(g, n)
  <2>1. \A k \in 0 .. n : k # 0 => k - 1 \in 0 .. n - 1
    OBVIOUS
  <2>2. \A k \in 0 .. n : k # 0 => g[k - 1] = f[k - 1]
    BY <1>5, <2>1
  <2>. QED
    BY <2>2 DEF Multiples
<1>. QED
  BY <1>2, <1>6

LEMMA MultipleIs ==
  /\ DOMAIN Multiple = 0 .. N - 1
  /\ Multiple[0] = None
  /\ \A k \in 1 .. N - 1 : Multiple[k] = Plus(Multiple[k - 1], Generator)
  /\ Multiple[1] = Generator
<1>1. Multiple = CHOOSE f : Multiples(f, N - 1)
  BY DEF Multiple, Multiples
<1>2. Multiples(Multiple, N - 1)
  BY <1>1, MultiplesExist
<1>3. 0 \in 0 .. N - 1 /\ 1 \in 1 .. N - 1 /\ 1 - 1 = 0
  BY Parameters
<1>4. Multiple[1] = Plus(Multiple[0], Generator) /\ Multiple[0] = <<>>
  BY <1>2, <1>3 DEF Multiples
<1>5. Multiple[1] = Generator
  BY <1>4 DEF Plus
<1>6. ASSUME NEW k \in 1 .. N - 1 PROVE Multiple[k] = Plus(Multiple[k - 1], Generator)
  <2>1. k \in 0 .. N - 1 /\ k # 0
    OBVIOUS
  <2>. QED
    BY <1>2, <2>1 DEF Multiples
<1>. QED
  BY <1>2, <1>4, <1>5, <1>6 DEF Multiples, None

\* The identity and the keys.
Point == Key \cup {None}

LEMMA PointsAreMultiples ==
  /\ Point = {Multiple[k] : k \in 0 .. N - 1}
  /\ \A k \in 0 .. N - 1 : Multiple[k] \in Point /\ (Multiple[k] \in Key <=> k # 0)
<1>1. \A k \in 0 .. N - 1 : k = 0 \/ k \in 1 .. N - 1
  OBVIOUS
<1>2. 0 \in 0 .. N - 1
  BY Parameters
<1>3. \A k \in 1 .. N - 1 : Multiple[k] \in Key
  BY DEF Key
<1>4. Multiple[0] = None /\ None \notin Key
  BY MultipleIs, OrderAssumption
<1>. QED
  BY <1>1, <1>2, <1>3, <1>4 DEF Point, Key

\* The multiples up to N - 1 differ.
LEMMA MultiplesDiffer ==
  ASSUME NEW j \in 0 .. N - 1, NEW k \in 0 .. N - 1, Multiple[j] = Multiple[k]
  PROVE  j = k
<1>1. ASSUME NEW a \in 0 .. N - 1, NEW b \in 0 .. N - 1, a < b, Multiple[a] = Multiple[b]
      PROVE  FALSE
  <2>. DEFINE c == N - b
              d == (a + c) % N
  <2>1. c \in 0 .. N - 1 /\ a + c \in 1 .. N - 1 /\ b + c = N
    BY <1>1, Parameters
  <2>2. d = a + c /\ (b + c) % N = 0
    BY <2>1, Parameters
  <2>3. /\ Multiple[d] = Plus(Multiple[a], Multiple[c])
        /\ Multiple[(b + c) % N] = Plus(Multiple[b], Multiple[c])
    BY <2>1, GroupAssumption
  <2>4. Multiple[d] = Multiple[0]
    BY <1>1, <2>2, <2>3
  <2>5. d \in 0 .. N - 1 /\ d # 0 /\ 0 \in 0 .. N - 1
    BY <2>1, <2>2, Parameters
  <2>. QED
    BY <2>4, <2>5, PointsAreMultiples
<1>2. j < k \/ k < j \/ j = k
  OBVIOUS
<1>. QED
  BY <1>1, <1>2

LEMMA LogOf ==
  /\ \A k \in 0 .. N - 1 : Log(Multiple[k]) = k
  /\ \A p \in Point : Log(p) \in 0 .. N - 1 /\ Multiple[Log(p)] = p /\ (p \in Key <=> Log(p) # 0)
  /\ Log(Generator) = 1 /\ Generator \in Key
<1>1. ASSUME NEW p \in Point PROVE Log(p) \in 0 .. N - 1 /\ Multiple[Log(p)] = p
  <2>1. \E k \in 0 .. N - 1 : Multiple[k] = p
    BY PointsAreMultiples
  <2>. QED
    BY <2>1 DEF Log
<1>2. ASSUME NEW k \in 0 .. N - 1 PROVE Log(Multiple[k]) = k
  <2>1. Multiple[k] \in Point
    BY PointsAreMultiples
  <2>. QED
    BY <1>1, <2>1, MultiplesDiffer
<1>3. 1 \in 0 .. N - 1 /\ 1 # 0
  BY Parameters
<1>. QED
  BY <1>1, <1>2, <1>3, MultipleIs, PointsAreMultiples

LEMMA TimesOf ==
  ASSUME NEW k \in Int, NEW p \in Point
  PROVE  /\ (k * Log(p)) % N \in 0 .. N - 1
         /\ Times(k, p) = Multiple[(k * Log(p)) % N] /\ Times(k, p) \in Point
         /\ Log(Times(k, p)) = (k * Log(p)) % N
<1>1. k * Log(p) \in Int /\ N > 0 /\ N \in Nat
  BY LogOf, Parameters
<1>2. (k * Log(p)) % N \in 0 .. N - 1
  BY <1>1, SameAsRest, Zenon
<1>. QED
  BY <1>2, LogOf, PointsAreMultiples DEF Times

LEMMA SumOf ==
  ASSUME NEW p \in Point, NEW q \in Point
  PROVE  /\ (Log(p) + Log(q)) % N \in 0 .. N - 1
         /\ Plus(p, q) = Multiple[(Log(p) + Log(q)) % N] /\ Plus(p, q) \in Point
         /\ Log(Plus(p, q)) = (Log(p) + Log(q)) % N
<1>1. Log(p) \in 0 .. N - 1 /\ Multiple[Log(p)] = p /\ Log(q) \in 0 .. N - 1 /\ Multiple[Log(q)] = q
  BY LogOf
<1>2. Log(p) + Log(q) \in Int /\ N > 0 /\ N \in Nat
  BY <1>1, Parameters
<1>3. (Log(p) + Log(q)) % N \in 0 .. N - 1
  BY <1>2, SameAsRest, Zenon
<1>4. Plus(p, q) = Multiple[(Log(p) + Log(q)) % N]
  BY <1>1, GroupAssumption
<1>. QED
  BY <1>3, <1>4, LogOf, PointsAreMultiples

\* The opposite of a key is a key.
LEMMA NegateOf ==
  ASSUME NEW p \in Key
  PROVE  Negate(p) \in Key /\ Log(Negate(p)) = N - Log(p)
<1>. DEFINE k == Log(p)
            q == Multiple[N - k]
<1>1. k \in 1 .. N - 1 /\ p \in Point /\ Multiple[k] = p
  <2>1. p \in Point
    BY DEF Point
  <2>2. k \in 0 .. N - 1 /\ k # 0 /\ Multiple[k] = p
    BY <2>1, LogOf
  <2>. QED
    BY <2>1, <2>2
<1>2. N - k \in 1 .. N - 1 /\ k + (N - k) = N
  BY <1>1, Parameters
<1>3. q \in Key /\ q \in Point /\ Log(q) = N - k
  BY <1>2, LogOf, PointsAreMultiples DEF Key
<1>4. Plus(p, q) = <<>>
  <2>1. N % N = 0
    BY Parameters
  <2>2. Plus(p, q) = Multiple[(k + (N - k)) % N]
    BY <1>1, <1>3, SumOf
  <2>. QED
    BY <1>2, <2>1, <2>2, MultipleIs DEF None
<1>5. p # <<>> /\ q # <<>>
  BY <1>3, OrderAssumption DEF None
<1>6. q = Negate(p)
  <2>1. SUFFICES ASSUME q # Negate(p) PROVE FALSE
    OBVIOUS
  <2>. HIDE DEF q
  <2>2. \E x, y : Plus(p, q) = <<x, y>>
    BY <1>5, <2>1 DEF Plus
  <2>. QED
    BY <1>4, <2>2
<1>. QED
  BY <1>3, <1>6

-----------------------------------------------------------------------------
(* Addition in Jacobian coordinates, modulo any n.  <<p, q>> is x/z^2, y/z^3; *)
(* <<b, c>> is added to it; m is the slope of the line through the two.       *)

\* The slope, times z h, is -i.
LEMMA SlopeScaled ==
  ASSUME NEW n \in Int, NEW m \in Int, NEW d \in Int, NEW e \in Int, NEW z \in Int,
         NEW h, NEW i, Same(n, m * d, e), Same(n, h, -(d * (z * z))), Same(n, i, e * (z * z * z))
  PROVE  Same(n, m * (z * h), -i)
<1>. DEFINE zzz == z * z * z
<1>1. h \in Int /\ i \in Int /\ m * z \in Int /\ -zzz \in Int
  BY DEF Same
<1>2. Same(n, (m * z) * h, (m * z) * (-(d * (z * z))))
  BY <1>1, SameScaled, Zenon
<1>3. (m * z) * h = m * (z * h) /\ (m * z) * (-(d * (z * z))) = (m * d) * (-zzz)
  BY <1>1
<1>4. Same(n, (m * d) * (-zzz), e * (-zzz))
  BY <1>1, SameScaled, Zenon
<1>5. e * (-zzz) = -(e * zzz)
  OBVIOUS
<1>6. Same(n, e * zzz, i)
  BY SameBack, Zenon
<1>7. Same(n, -(e * zzz), -i)
  BY <1>6, SameScaled, Zenon
<1>8. Same(n, m * (z * h), e * (-zzz))
  BY <1>2, <1>3, <1>4, SameThrough, Zenon
<1>9. Same(n, m * (z * h), -(e * zzz))
  BY ONLY <1>5, <1>8, Zenon
<1>. QED
  BY ONLY <1>7, <1>9, SameThrough, Zenon

\* A coordinate a/s of a point, in the scale of the sum.
LEMMA Rescaled ==
  ASSUME NEW n \in Int, NEW a \in Int, NEW s \in Int, NEW t \in Int, NEW x, Same(n, a * s, x)
  PROVE  Same(n, a * (s * t), x * t)
<1>1. Same(n, (a * s) * t, x * t)
  BY SameScaled, Zenon
<1>2. (a * s) * t = a * (s * t)
  OBVIOUS
<1>. QED
  BY <1>1, <1>2, Zenon

\* The x of the sum, in the scale of the formulas.
LEMMA AddX ==
  ASSUME NEW n \in Int, NEW m \in Int, NEW p \in Int, NEW b \in Int, NEW u \in Int,
         NEW x \in Int, NEW h \in Int, NEW i \in Int, NEW sx,
         Same(n, sx, m * m - p - b), Same(n, m * u, -i),
         Same(n, p * (u * u), x * (h * h)), Same(n, b * (u * u), (h + x) * (h * h))
  PROVE  Same(n, sx * (u * u), i * i - h * h * h - 2 * (x * (h * h)))
<1>. DEFINE uu == u * u
            mm == (m * u) * (m * u)
<1>1. uu \in Int /\ mm \in Int /\ sx \in Int
  BY DEF Same
<1>2. Same(n, sx * uu, (m * m - p - b) * uu)
  BY <1>1, SameScaled, Zenon
<1>3. (m * m - p - b) * uu = (mm - p * uu) - b * uu
  OBVIOUS
<1>4. Same(n, mm, (-i) * (-i))
  BY SameProduct, Zenon
<1>5. Same(n, mm - p * uu, (-i) * (-i) - x * (h * h))
  BY <1>4, SameSum, Zenon
<1>6. Same(n, (mm - p * uu) - b * uu, ((-i) * (-i) - x * (h * h)) - (h + x) * (h * h))
  BY <1>5, SameSum, Zenon
<1>7. ((-i) * (-i) - x * (h * h)) - (h + x) * (h * h) = i * i - h * h * h - 2 * (x * (h * h))
  OBVIOUS
<1>8. Same(n, sx * uu, (mm - p * uu) - b * uu)
  BY ONLY <1>2, <1>3, Zenon
<1>9. Same(n, (mm - p * uu) - b * uu, i * i - h * h * h - 2 * (x * (h * h)))
  BY ONLY <1>6, <1>7, Zenon
<1>. QED
  BY ONLY <1>8, <1>9, SameThrough, Zenon

\* The y of the sum.
LEMMA AddY ==
  ASSUME NEW n \in Int, NEW m \in Int, NEW p \in Int, NEW q \in Int, NEW u \in Int,
         NEW x \in Int, NEW y \in Int, NEW h \in Int, NEW i \in Int,
         NEW sx \in Int, NEW sy, NEW tx \in Int,
         Same(n, sy, m * (p - sx) - q), Same(n, m * u, -i),
         Same(n, p * (u * u), x * (h * h)), Same(n, q * (u * u * u), y * (h * h * h)),
         Same(n, sx * (u * u), tx)
  PROVE  Same(n, sy * (u * u * u), (tx - x * (h * h)) * i - h * h * h * y)
<1>. DEFINE uu == u * u
            uuu == u * u * u
            hh == x * (h * h)
<1>1. uu \in Int /\ uuu \in Int /\ sy \in Int /\ hh \in Int
  BY DEF Same
<1>2. Same(n, sy * uuu, (m * (p - sx) - q) * uuu)
  BY <1>1, SameScaled, Zenon
<1>3. (m * (p - sx) - q) * uuu = (m * u) * (p * uu - sx * uu) - q * uuu
  OBVIOUS
<1>4. Same(n, p * uu - sx * uu, hh - tx)
  BY SameSum, Zenon
<1>5. Same(n, (m * u) * (p * uu - sx * uu), (-i) * (hh - tx))
  BY <1>4, SameProduct, Zenon
<1>6. Same(n, (m * u) * (p * uu - sx * uu) - q * uuu, (-i) * (hh - tx) - y * (h * h * h))
  BY <1>5, SameSum, Zenon
<1>7. (-i) * (hh - tx) - y * (h * h * h) = (tx - x * (h * h)) * i - h * h * h * y
  OBVIOUS
<1>8. Same(n, sy * uuu, (m * u) * (p * uu - sx * uu) - q * uuu)
  BY ONLY <1>2, <1>3, Zenon
<1>9. Same(n, (m * u) * (p * uu - sx * uu) - q * uuu, (tx - x * (h * h)) * i - h * h * h * y)
  BY ONLY <1>6, <1>7, Zenon
<1>. QED
  BY ONLY <1>8, <1>9, SameThrough, Zenon

\* The line of slope m, what it gives and what Add gives for it.
Chord(n, p, q, b, c, m, x, y, z, h, i, sx, sy, tx, ty, u) ==
  /\ {p, q, b, c, m, x, y, z, h, i, sx, sy} \subseteq Int
  /\ Same(n, p * (z * z), x) /\ Same(n, q * (z * z * z), y)
  /\ Same(n, m * (p - b), q - c) /\ Same(n, h, b * (z * z) - x)
  /\ Same(n, i, y - c * (z * z * z)) /\ Same(n, sx, m * m - p - b)
  /\ Same(n, sy, m * (p - sx) - q) /\ Same(n, u, z * h)
  /\ Same(n, tx, i * i - h * h * h - 2 * (x * (h * h)))
  /\ Same(n, ty, (tx - x * (h * h)) * i - h * h * h * y)

(***************************************************************************)
(* The formulas of Add give the sum: sx and sy are its coordinates by the  *)
(* slope, tx, ty and u what Add computes.                                  *)
(***************************************************************************)
LEMMA AddFormulas ==
  ASSUME NEW n \in Int,
         NEW p, NEW q, NEW b, NEW c, NEW m, NEW x, NEW y, NEW z, NEW h, NEW i, NEW sx, NEW sy,
         NEW tx, NEW ty, NEW u,
         Chord(n, p, q, b, c, m, x, y, z, h, i, sx, sy, tx, ty, u)
  PROVE  Same(n, sx * (u * u), tx) /\ Same(n, sy * (u * u * u), ty)
<1>0a. /\ p \in Int /\ q \in Int /\ b \in Int /\ c \in Int /\ m \in Int /\ x \in Int
          /\ y \in Int /\ z \in Int /\ h \in Int /\ i \in Int /\ sx \in Int /\ sy \in Int
          /\ Same(n, p * (z * z), x) /\ Same(n, q * (z * z * z), y)
          /\ Same(n, m * (p - b), q - c) /\ Same(n, h, b * (z * z) - x)
          /\ Same(n, i, y - c * (z * z * z)) /\ Same(n, sx, m * m - p - b)
          /\ Same(n, sy, m * (p - sx) - q) /\ Same(n, u, z * h)
          /\ Same(n, tx, i * i - h * h * h - 2 * (x * (h * h)))
          /\ Same(n, ty, (tx - x * (h * h)) * i - h * h * h * y)
  BY DEF Chord
<1>. USE <1>0a
<1>. DEFINE zz == z * z
            zzz == z * z * z
            v == z * h
<1>0. zz \in Int /\ zzz \in Int /\ v \in Int /\ h * h \in Int /\ h * h * h \in Int
      /\ v * v \in Int /\ v * v * v \in Int /\ tx \in Int
  BY DEF Same
<1>1. Same(n, h, -((p - b) * zz))
  <2>1. Same(n, x, p * zz) /\ Same(n, b * zz, b * zz)
    BY <1>0, SameBack, SameSelf
  <2>2. Same(n, b * zz - x, b * zz - p * zz)
    BY <2>1, SameSum, Zenon
  <2>3. b * zz - p * zz = -((p - b) * zz)
    OBVIOUS
  <2>4. Same(n, h, b * zz - p * zz)
    BY <2>2, SameThrough, Zenon
  <2>. QED
    BY ONLY <2>3, <2>4, Zenon
<1>2. Same(n, i, (q - c) * zzz)
  <2>1. Same(n, y, q * zzz) /\ Same(n, c * zzz, c * zzz)
    BY <1>0, SameBack, SameSelf
  <2>2. Same(n, y - c * zzz, q * zzz - c * zzz)
    BY <2>1, SameSum, Zenon
  <2>3. q * zzz - c * zzz = (q - c) * zzz
    OBVIOUS
  <2>4. Same(n, i, q * zzz - c * zzz)
    BY <2>2, SameThrough, Zenon
  <2>. QED
    BY ONLY <2>3, <2>4, Zenon
<1>3. Same(n, m * v, -i)
  <2>1. p - b \in Int /\ q - c \in Int
    OBVIOUS
  <2>. QED
    BY <1>1, <1>2, <2>1, SlopeScaled, Zenon
<1>4. Same(n, p * (v * v), x * (h * h))
  <2>1. Same(n, p * (zz * (h * h)), x * (h * h))
    BY <1>0, Rescaled, Zenon
  <2>2. zz * (h * h) = v * v
    OBVIOUS
  <2>. QED
    BY <2>1, <2>2, Zenon
<1>5. Same(n, q * (v * v * v), y * (h * h * h))
  <2>1. Same(n, q * (zzz * (h * h * h)), y * (h * h * h))
    BY <1>0, Rescaled, Zenon
  <2>2. zzz * (h * h * h) = v * v * v
    OBVIOUS
  <2>. QED
    BY <2>1, <2>2, Zenon
<1>6. Same(n, b * (v * v), (h + x) * (h * h))
  <2>1. Same(n, x, x) /\ Same(n, b * zz - x, h)
    BY SameSelf, SameBack
  <2>2. Same(n, (b * zz - x) + x, h + x)
    BY <2>1, SameSum, Zenon
  <2>3. (b * zz - x) + x = b * zz /\ zz * (h * h) = v * v
    OBVIOUS
  <2>4. Same(n, b * zz, h + x)
    BY <2>2, <2>3, Zenon
  <2>5. Same(n, b * (zz * (h * h)), (h + x) * (h * h))
    BY <1>0, <2>4, Rescaled, Zenon
  <2>. QED
    BY <2>3, <2>5, Zenon
<1>7. Same(n, sx * (v * v), tx)
  <2>1. Same(n, sx * (v * v), i * i - h * h * h - 2 * (x * (h * h)))
    BY <1>0, <1>3, <1>4, <1>6, AddX, Zenon
  <2>2. Same(n, i * i - h * h * h - 2 * (x * (h * h)), tx)
    BY SameBack, Zenon
  <2>. QED
    BY <2>1, <2>2, SameThrough, Zenon
<1>8. Same(n, sy * (v * v * v), ty)
  <2>1. Same(n, sy * (v * v * v), (tx - x * (h * h)) * i - h * h * h * y)
    BY <1>0, <1>3, <1>4, <1>5, <1>7, AddY, Zenon
  <2>2. Same(n, (tx - x * (h * h)) * i - h * h * h * y, ty)
    BY SameBack, Zenon
  <2>. QED
    BY <2>1, <2>2, SameThrough, Zenon
<1>9. Same(n, u * u, v * v)
  BY SameProduct, Zenon
<1>10. Same(n, u * u * u, v * v * v)
  BY <1>9, SameProduct, Zenon
<1>11. Same(n, sx * (u * u), sx * (v * v)) /\ Same(n, sy * (u * u * u), sy * (v * v * v))
  BY <1>9, <1>10, SameScaled, Zenon
<1>. QED
  BY <1>7, <1>8, <1>11, SameThrough, Zenon

\* What Add computes for x, y, z and <<b, c>>, by way of z2, h2 and t.
Adding(n, b, c, x, y, z, z2, h, i, h2, t, tx, ty) ==
  /\ {b, c, x, y, z, z2, h, i, h2, t, tx} \subseteq Int
  /\ Same(n, z2, z * z) /\ Same(n, h, b * z2 - x) /\ Same(n, i, y - c * z2 * z)
  /\ Same(n, h2, -(h * h)) /\ Same(n, t, x * h2) /\ Same(n, tx, i * i + h2 * h + t + t)
  /\ Same(n, ty, (t + tx) * i + h2 * h * y)

\* What Add computes by way of z2, h2 and t, modulo n.
LEMMA AddComputes ==
  ASSUME NEW n \in Int,
         NEW b, NEW c, NEW x, NEW y, NEW z, NEW z2, NEW h, NEW i, NEW h2, NEW t, NEW tx, NEW ty,
         Adding(n, b, c, x, y, z, z2, h, i, h2, t, tx, ty)
  PROVE  /\ Same(n, h, b * (z * z) - x) /\ Same(n, i, y - c * (z * z * z))
         /\ Same(n, tx, i * i - h * h * h - 2 * (x * (h * h)))
         /\ Same(n, ty, (tx - x * (h * h)) * i - h * h * h * y)
<1>0a. /\ b \in Int /\ c \in Int /\ x \in Int /\ y \in Int /\ z \in Int /\ z2 \in Int
          /\ h \in Int /\ i \in Int /\ h2 \in Int /\ t \in Int /\ tx \in Int
          /\ Same(n, z2, z * z) /\ Same(n, h, b * z2 - x) /\ Same(n, i, y - c * z2 * z)
          /\ Same(n, h2, -(h * h)) /\ Same(n, t, x * h2) /\ Same(n, tx, i * i + h2 * h + t + t)
          /\ Same(n, ty, (t + tx) * i + h2 * h * y)
  BY DEF Adding
<1>. USE <1>0a
<1>. DEFINE xhh == x * (h * h)
            hhh == (-(h * h)) * h
<1>1. xhh \in Int /\ hhh \in Int /\ i * i \in Int /\ c * z \in Int
  OBVIOUS
<1>2. Same(n, x, x) /\ Same(n, y, y) /\ Same(n, i * i, i * i) /\ Same(n, tx, tx)
  BY <1>1, SameSelf, Zenon
<1>3. Same(n, h, b * (z * z) - x)
  <2>1. Same(n, b * z2, b * (z * z))
    BY SameScaled, Zenon
  <2>2. Same(n, b * z2 - x, b * (z * z) - x)
    BY <1>2, <2>1, SameSum, Zenon
  <2>. QED
    BY <2>2, SameThrough, Zenon
<1>4. Same(n, i, y - c * (z * z * z))
  <2>1. Same(n, (c * z) * z2, (c * z) * (z * z))
    BY <1>1, SameScaled, Zenon
  <2>2. (c * z) * z2 = c * z2 * z /\ (c * z) * (z * z) = c * (z * z * z)
    OBVIOUS
  <2>3. Same(n, c * z2 * z, c * (z * z * z))
    BY ONLY <2>1, <2>2, Zenon
  <2>4. Same(n, y - c * z2 * z, y - c * (z * z * z))
    BY <1>2, <2>3, SameSum, Zenon
  <2>. QED
    BY <2>4, SameThrough, Zenon
<1>5. Same(n, t, -xhh)
  <2>1. Same(n, x * h2, x * (-(h * h)))
    BY SameScaled, Zenon
  <2>2. x * (-(h * h)) = -xhh
    OBVIOUS
  <2>3. Same(n, x * h2, -xhh)
    BY ONLY <2>1, <2>2, Zenon
  <2>. QED
    BY <2>3, SameThrough, Zenon
<1>6. Same(n, h2 * h, hhh)
  BY SameScaled, Zenon
<1>7. Same(n, tx, i * i - h * h * h - 2 * (x * (h * h)))
  <2>1. Same(n, i * i + h2 * h, i * i + hhh)
    BY <1>2, <1>6, SameSum, Zenon
  <2>2. Same(n, i * i + h2 * h + t, i * i + hhh + (-xhh))
    BY <1>5, <2>1, SameSum, Zenon
  <2>3. Same(n, i * i + h2 * h + t + t, i * i + hhh + (-xhh) + (-xhh))
    BY <1>5, <2>2, SameSum, Zenon
  <2>4. i * i + hhh + (-xhh) + (-xhh) = i * i - h * h * h - 2 * (x * (h * h))
    OBVIOUS
  <2>5. Same(n, i * i + h2 * h + t + t, i * i - h * h * h - 2 * (x * (h * h)))
    BY ONLY <2>3, <2>4, Zenon
  <2>. QED
    BY <2>5, SameThrough, Zenon
<1>8. Same(n, ty, (tx - x * (h * h)) * i - h * h * h * y)
  <2>1. Same(n, t + tx, -xhh + tx)
    BY <1>2, <1>5, SameSum, Zenon
  <2>2. Same(n, (t + tx) * i, (-xhh + tx) * i)
    BY <2>1, SameScaled, Zenon
  <2>3. Same(n, h2 * h * y, hhh * y)
    BY <1>6, SameScaled, Zenon
  <2>4. Same(n, (t + tx) * i + h2 * h * y, (-xhh + tx) * i + hhh * y)
    BY <2>2, <2>3, SameSum, Zenon
  <2>5. (-xhh + tx) * i + hhh * y = (tx - x * (h * h)) * i - h * h * h * y
    OBVIOUS
  <2>6. Same(n, (t + tx) * i + h2 * h * y, (tx - x * (h * h)) * i - h * h * h * y)
    BY ONLY <2>4, <2>5, Zenon
  <2>. QED
    BY <2>6, SameThrough, Zenon
<1>. QED
  BY <1>3, <1>4, <1>7, <1>8

-----------------------------------------------------------------------------
(* Add adds *)

Gej == [x : Int, y : Int, z : Int, infinity : BOOLEAN]

\* The running sum stands for the point p.
Represents(acc, p) ==
  IF acc.infinity THEN p = None
  ELSE /\ p \in Key /\ acc.z % P # 0
       /\ Same(P, p[1] * (acc.z * acc.z), acc.x)
       /\ Same(P, p[2] * (acc.z * acc.z * acc.z), acc.y)

LEMMA KeyIs ==
  ASSUME NEW p \in Key
  PROVE  /\ p = <<p[1], p[2]>> /\ p[1] \in 0 .. P - 1 /\ p[2] \in 0 .. P - 1
         /\ p # <<>> /\ p \in Point
BY GroupAssumption, OrderAssumption DEF None, Point

\* The sum of two keys that do not share an x, by the slope of the line through them.
LEMMA SumBySlope ==
  ASSUME NEW p \in Key, NEW b \in Key, p[1] # b[1]
  PROVE  /\ Plus(p, b) \in Key
         /\ \E m \in Int : /\ Same(P, m * (p[1] - b[1]), p[2] - b[2])
                           /\ Same(P, Plus(p, b)[1], m * m - p[1] - b[1])
                           /\ Same(P, Plus(p, b)[2], m * (p[1] - Plus(p, b)[1]) - p[2])
<1>. DEFINE d == p[1] - b[1]
            e == p[2] - b[2]
            inverse == ModInverse(d % P, P)
            m == e * inverse
            x == (m * m - p[1] - b[1]) % P
            y == (m * (p[1] - x) - p[2]) % P
<1>1. /\ p[1] \in 0 .. P - 1 /\ p[2] \in 0 .. P - 1 /\ b[1] \in 0 .. P - 1 /\ b[2] \in 0 .. P - 1
      /\ p # <<>> /\ b # <<>> /\ p \in Point /\ b \in Point
  BY KeyIs
<1>2. d \in Int /\ e \in Int /\ p[1] \in Int /\ p[2] \in Int /\ b[1] \in Int /\ b[2] \in Int
  BY <1>1
<1>3. P \in Int /\ P > 0
  BY Parameters
<1>4. d % P \in 1 .. P - 1 /\ Same(P, d, d % P)
  <2>1. d % P \in 0 .. P - 1 /\ Same(P, d, d % P)
    BY <1>2, <1>3, Parameters, SameAsRest, Zenon
  <2>2. d % P # 0
    <3>1. SUFFICES ASSUME d % P = 0 PROVE FALSE
      OBVIOUS
    <3>2. Same(P, d, 0) /\ Same(P, b[1], b[1])
      BY <1>2, <1>3, <3>1, Parameters, SameAsZero, SameSelf, Zenon
    <3>3. Same(P, d + b[1], 0 + b[1])
      BY <1>3, <3>2, SameSum, Zenon
    <3>4. d + b[1] = p[1] /\ 0 + b[1] = b[1]
      BY <1>2
    <3>5. Same(P, p[1], b[1])
      BY <3>3, <3>4
    <3>. QED
      BY <1>1, <1>3, <3>5, Parameters, SameInRange, Zenon
  <2>. QED
    BY <2>1, <2>2
<1>5. inverse \in 1 .. P - 1 /\ Same(P, (d % P) * inverse, 1)
  BY <1>4, Parameters, InverseOf, Zenon
<1>6. inverse \in Int /\ m \in Int
  BY <1>2, <1>5
<1>7. Same(P, m * d, e)
  <2>. HIDE DEF d, e, inverse
  <2>1. Same(P, d * inverse, (d % P) * inverse)
    BY <1>3, <1>4, <1>6, SameScaled, Zenon
  <2>2. Same(P, d * inverse, 1)
    BY <1>3, <1>5, <2>1, SameThrough, Zenon
  <2>3. Same(P, e * (d * inverse), e * 1)
    BY <1>2, <1>3, <2>2, SameScaled, Zenon
  <2>4. e * (d * inverse) = m * d /\ e * 1 = e
    BY <1>2, <1>6
  <2>. QED
    BY <2>3, <2>4
<1>8. Plus(p, b) = <<x, y>>
  <2>1. Negate(p)[1] = p[1]
    BY DEF Negate
  <2>2. b # Negate(p) /\ p # b
    BY <2>1
  <2>. QED
    BY <1>1, <2>2 DEF Plus
<1>. HIDE DEF m, x, y
<1>9. x \in 0 .. P - 1 /\ Same(P, x, m * m - p[1] - b[1])
  <2>1. m * m - p[1] - b[1] \in Int
    BY <1>2, <1>6
  <2>. QED
    BY <1>3, <2>1, Parameters, SameAsRest, Zenon DEF x
<1>10. y \in 0 .. P - 1 /\ Same(P, y, m * (p[1] - x) - p[2])
  <2>1. m * (p[1] - x) - p[2] \in Int
    BY <1>2, <1>6, <1>9
  <2>. QED
    BY <1>3, <2>1, Parameters, SameAsRest, Zenon DEF y
<1>11. Plus(p, b) \in Key
  <2>1. Plus(p, b) \in Point /\ Plus(p, b) # None
    BY <1>1, <1>8, SumOf DEF None
  <2>. QED
    BY <2>1 DEF Point
<1>12. Plus(p, b)[1] = x /\ Plus(p, b)[2] = y
  BY <1>8
<1>. QED
  BY <1>6, <1>7, <1>9, <1>10, <1>11, <1>12

\* The same for the field, with the range spelled out.
LEMMA InField ==
  ASSUME NEW e \in Int
  PROVE  e % P \in Int /\ e % P \in 0 .. P - 1 /\ Same(P, e % P, e) /\ (e % P) % P = e % P
<1>1. P > 0 /\ P \in Nat
  BY Parameters
<1>2. e % P \in 0 .. P - 1 /\ Same(P, e % P, e)
  BY <1>1, SameAsRest, Zenon
<1>3. (e % P) % P = e % P
  BY <1>1, <1>2
<1>. QED
  BY <1>2, <1>3

\* v is a in the scale s, and w how far b is from it.
Scaled(a, b, s, v, w) ==
  /\ a \in 0 .. P - 1 /\ b \in 0 .. P - 1 /\ w \in 0 .. P - 1 /\ s \in Int /\ s % P # 0
  /\ Same(P, a * s, v) /\ (Same(P, w, b * s - v) \/ Same(P, w, v - b * s))

\* Whether two coordinates are equal, seen in the scale of the running sum.
LEMMA ScaledEqual ==
  ASSUME NEW a, NEW b, NEW s, NEW v, NEW w, Scaled(a, b, s, v, w)
  PROVE  w = 0 <=> a = b
<1>0a. /\ a \in 0 .. P - 1 /\ b \in 0 .. P - 1 /\ w \in 0 .. P - 1 /\ s \in Int /\ s % P # 0
          /\ Same(P, a * s, v) /\ (Same(P, w, b * s - v) \/ Same(P, w, v - b * s))
  BY DEF Scaled
<1>. USE <1>0a
<1>1. /\ P \in Int /\ P > 0 /\ P > 1 /\ P \in Nat /\ Prime(P) /\ v \in Int /\ a \in Int /\ b \in Int
      /\ w \in Int /\ b * s \in Int /\ a * s \in Int /\ s * a = a * s /\ s * b = b * s
      /\ 0 \in 0 .. P - 1
  BY Parameters DEF Same
<1>. DEFINE bs == b * s
<1>2. Same(P, v, v) /\ Same(P, bs, bs) /\ Same(P, v, a * s)
  BY <1>1, SameSelf, SameBack, Zenon
<1>. HIDE DEF bs
<1>3. bs \in Int /\ bs = b * s
  BY <1>1 DEF bs
<1>4. ASSUME w = 0 PROVE a = b
  <2>1. Same(P, bs, v)
    <3>1. CASE Same(P, w, bs - v)
      <4>1. Same(P, bs - v, 0)
        BY <1>1, <1>4, <3>1, SameBack, Zenon
      <4>2. Same(P, (bs - v) + v, 0 + v)
        BY <1>1, <1>2, <4>1, SameSum, Zenon
      <4>3. (bs - v) + v = bs /\ 0 + v = v
        BY <1>1, <1>3
      <4>. QED
        BY <4>2, <4>3
    <3>2. CASE Same(P, w, v - bs)
      <4>1. Same(P, bs - 0, bs - (v - bs)) /\ Same(P, w + bs, (v - bs) + bs)
        BY <1>1, <1>2, <1>4, <3>2, SameSum, Zenon
      <4>2. w + bs = bs /\ (v - bs) + bs = v
        BY <1>1, <1>3, <1>4
      <4>. QED
        BY <4>1, <4>2
    <3>. QED
      BY <1>3, <3>1, <3>2
  <2>2. Same(P, bs, a * s)
    BY <1>1, <1>2, <2>1, SameThrough, Zenon
  <2>3. Same(P, s * b, s * a)
    BY <1>1, <1>3, <2>2, Zenon
  <2>4. Same(P, b, a)
    BY <1>1, <2>3, Cancel, Zenon
  <2>. QED
    BY <1>1, <2>4, SameInRange, Zenon
<1>5. ASSUME a = b PROVE w = 0
  <2>1. Same(P, bs, v)
    BY <1>3, <1>5
  <2>2. Same(P, bs - v, v - v) /\ Same(P, v - bs, v - v)
    BY <1>1, <1>2, <1>3, <2>1, SameSum, SameBack, Zenon
  <2>3. v - v = 0
    BY <1>1
  <2>4. Same(P, w, 0)
    BY <1>1, <1>3, <2>2, <2>3, SameThrough, Zenon
  <2>. QED
    BY <1>1, <2>4, SameInRange, Zenon
<1>. QED
  BY <1>4, <1>5

(***************************************************************************)
(* Add adds: unless it needs a doubling, the running sum it returns stands *)
(* for the point it stood for plus the key, be that the same x, whose sum  *)
(* is the identity, or the identity before it.                             *)
(***************************************************************************)
THEOREM AddAdds ==
  ASSUME NEW acc \in Gej, NEW p \in Point, Represents(acc, p), NEW b \in Key, Add(acc, b).ok
  PROVE  /\ Add(acc, b).acc \in Gej /\ Plus(p, b) \in Point
         /\ Represents(Add(acc, b).acc, Plus(p, b))
<1>0. /\ P \in Int /\ P > 0 /\ P > 1 /\ P \in Nat /\ Prime(P) /\ 1 % P = 1
      /\ b[1] \in 0 .. P - 1 /\ b[2] \in 0 .. P - 1 /\ b[1] \in Int /\ b[2] \in Int
      /\ b # <<>> /\ b \in Point
  BY Parameters, KeyIs
<1>1. Plus(p, b) \in Point
  BY <1>0, SumOf
<1>2. CASE acc.infinity
  <2>1. Plus(p, b) = b
    BY <1>2 DEF Represents, Plus, None
  <2>. DEFINE new == [x |-> b[1], y |-> b[2], z |-> 1, infinity |-> FALSE]
  <2>2. Add(acc, b).acc = new
    BY <1>2 DEF Add
  <2>3. new \in Gej
    BY <1>0 DEF Gej
  <2>4. b[1] * (1 * 1) = b[1] /\ b[2] * (1 * 1 * 1) = b[2]
    BY <1>0
  <2>5. Same(P, b[1], b[1]) /\ Same(P, b[2], b[2])
    BY <1>0, SameSelf, Zenon
  <2>6. Represents(new, b)
    BY <1>0, <2>4, <2>5 DEF Represents
  <2>. QED
    BY <1>1, <2>1, <2>2, <2>3, <2>6
<1>3. CASE ~acc.infinity
  <2>. DEFINE x == acc.x
              y == acc.y
              z == acc.z
              z2 == (z * z) % P
              h == (b[1] * z2 - x) % P
              i == (y - b[2] * z2 * z) % P
              h2 == (-(h * h)) % P
              t == (x * h2) % P
              sx == (i * i + h2 * h + t + t) % P
              sy == ((t + sx) * i + h2 * h * y) % P
              u == (z * h) % P
  <2>1. /\ x \in Int /\ y \in Int /\ z \in Int /\ z % P # 0 /\ p \in Key
        /\ Same(P, p[1] * (z * z), x) /\ Same(P, p[2] * (z * z * z), y)
    BY <1>3 DEF Gej, Represents
  <2>2. p[1] \in 0 .. P - 1 /\ p[2] \in 0 .. P - 1 /\ p[1] \in Int /\ p[2] \in Int /\ p # <<>>
    BY <2>1, KeyIs
  <2>3. Add(acc, b) = IF h = 0 THEN [ok |-> i # 0, acc |-> [acc EXCEPT !.infinity = i # 0]]
                      ELSE [ok |-> TRUE, acc |-> [x |-> sx, y |-> sy, z |-> u, infinity |-> FALSE]]
    BY <1>3 DEF Add
  <2>. HIDE DEF x, y, z
  <2>4. z2 \in Int /\ Same(P, z2, z * z)
    <3>1. z * z \in Int
      BY <2>1
    <3>. QED
      BY <3>1, InField, Zenon
  <2>. HIDE DEF z2
  <2>5. h \in 0 .. P - 1 /\ h \in Int /\ Same(P, h, b[1] * z2 - x)
    <3>1. b[1] * z2 - x \in Int
      BY <1>0, <2>1, <2>4
    <3>. QED
      BY <3>1, InField, Zenon
  <2>6. i \in 0 .. P - 1 /\ i \in Int /\ Same(P, i, y - b[2] * z2 * z)
    <3>1. y - b[2] * z2 * z \in Int
      BY <1>0, <2>1, <2>4
    <3>. QED
      BY <3>1, InField, Zenon
  <2>. HIDE DEF h, i
  <2>7. h2 \in Int /\ Same(P, h2, -(h * h))
    <3>1. -(h * h) \in Int
      BY <2>5
    <3>. QED
      BY <3>1, InField, Zenon
  <2>. HIDE DEF h2
  <2>8. t \in Int /\ Same(P, t, x * h2)
    <3>1. x * h2 \in Int
      BY <2>1, <2>7
    <3>. QED
      BY <3>1, InField, Zenon
  <2>. HIDE DEF t
  <2>9. sx \in Int /\ Same(P, sx, i * i + h2 * h + t + t)
    <3>1. i * i + h2 * h + t + t \in Int
      BY <2>5, <2>6, <2>7, <2>8
    <3>. QED
      BY <3>1, InField, Zenon
  <2>. HIDE DEF sx
  <2>10. sy \in Int /\ Same(P, sy, (t + sx) * i + h2 * h * y)
    <3>1. (t + sx) * i + h2 * h * y \in Int
      BY <2>1, <2>5, <2>6, <2>7, <2>8, <2>9
    <3>. QED
      BY <3>1, InField, Zenon
  <2>. HIDE DEF sy
  <2>11. u \in Int /\ Same(P, u, z * h) /\ u % P = u
    <3>1. z * h \in Int
      BY <2>1, <2>5
    <3>. QED
      BY <3>1, InField, Zenon
  <2>12. h % P # 0 => u # 0
    BY <1>0, <2>1, <2>5, NoZeroProduct, Zenon
  <2>. HIDE DEF u
  <2>13. /\ Same(P, h, b[1] * (z * z) - x) /\ Same(P, i, y - b[2] * (z * z * z))
         /\ Same(P, sx, i * i - h * h * h - 2 * (x * (h * h)))
         /\ Same(P, sy, (sx - x * (h * h)) * i - h * h * h * y)
    <3>1. Adding(P, b[1], b[2], x, y, z, z2, h, i, h2, t, sx, sy)
      <4>1. {b[1], b[2], x, y, z, z2, h, i, h2, t, sx} \subseteq Int
        BY <1>0, <2>1, <2>4, <2>5, <2>6, <2>7, <2>8, <2>9
      <4>. QED
        BY <4>1, <2>4, <2>5, <2>6, <2>7, <2>8, <2>9, <2>10, Zenon DEF Adding
    <3>. QED
      BY <1>0, <3>1, AddComputes, Zenon
  <2>14. z * z \in Int /\ z * z * z \in Int /\ (z * z) % P # 0 /\ (z * z * z) % P # 0
    <3>1. z * z \in Int /\ (z * z) % P # 0
      <4>1. z * z \in Int
        BY <2>1
      <4>. QED
        BY <1>0, <2>1, <4>1, NoZeroProduct, Zenon
    <3>2. z * z * z \in Int
      BY <2>1
    <3>3. ((z * z) * z) % P # 0
      BY <1>0, <2>1, <3>1, NoZeroProduct, Zenon
    <3>. QED
      BY <3>1, <3>2, <3>3
  <2>15. h = 0 <=> p[1] = b[1]
    <3>1. Scaled(p[1], b[1], z * z, x, h)
      BY <1>0, <2>1, <2>2, <2>5, <2>13, <2>14, Zenon DEF Scaled
    <3>. QED
      BY ONLY <3>1, ScaledEqual, Zenon
  <2>16. i = 0 <=> p[2] = b[2]
    <3>1. Scaled(p[2], b[2], z * z * z, y, i)
      BY <1>0, <2>1, <2>2, <2>6, <2>13, <2>14, Zenon DEF Scaled
    <3>. QED
      BY ONLY <3>1, ScaledEqual, Zenon
  <2>17. CASE h = 0
    <3>. DEFINE r == i # 0
                a == [acc EXCEPT !.infinity = r]
    <3>1. Add(acc, b) = [ok |-> r, acc |-> a]
      BY <2>3, <2>17, Zenon
    <3>2. Add(acc, b).ok = r /\ Add(acc, b).acc = a
      <4>. HIDE DEF r, a
      <4>. QED
        BY <3>1
    <3>3. i # 0 /\ r = TRUE
      BY <3>2, Zenon
    <3>. HIDE DEF r
    <3>4. Add(acc, b).acc = [acc EXCEPT !.infinity = TRUE]
      BY <3>2, <3>3
    <3>5. b # p /\ p[1] = b[1]
      BY <2>15, <2>16, <2>17, <3>3
    <3>6. b = Negate(p)
      BY <2>1, <3>5, GroupAssumption
    <3>7. Plus(p, b) = <<>>
      BY <1>0, <2>2, <3>6 DEF Plus
    <3>8. [acc EXCEPT !.infinity = TRUE] \in Gej /\ [acc EXCEPT !.infinity = TRUE].infinity
      BY DEF Gej
    <3>. QED
      BY <1>1, <3>4, <3>7, <3>8 DEF Represents, None
  <2>18. CASE h # 0
    <3>. DEFINE new == [x |-> sx, y |-> sy, z |-> u, infinity |-> FALSE]
    <3>1. Add(acc, b).acc = new /\ new \in Gej
      BY <2>3, <2>9, <2>10, <2>11, <2>18 DEF Gej
    <3>2. p[1] # b[1] /\ u # 0
      <4>1. h % P = h
        BY <1>0, <2>5
      <4>. QED
        BY <2>12, <2>15, <2>18, <4>1
    <3>. DEFINE q == Plus(p, b)
    <3>3. q \in Key
      BY <2>1, <3>2, SumBySlope
    <3>4. PICK m \in Int : /\ Same(P, m * (p[1] - b[1]), p[2] - b[2])
                           /\ Same(P, q[1], m * m - p[1] - b[1])
                           /\ Same(P, q[2], m * (p[1] - q[1]) - p[2])
      BY <2>1, <3>2, SumBySlope
    <3>5. q[1] \in Int /\ q[2] \in Int
      BY <3>3, KeyIs
    <3>. HIDE DEF q
    <3>6. Same(P, q[1] * (u * u), sx) /\ Same(P, q[2] * (u * u * u), sy)
      <4>1. Chord(P, p[1], p[2], b[1], b[2], m, x, y, z, h, i, q[1], q[2], sx, sy, u)
        <5>1. {p[1], p[2], b[1], b[2], m, x, y, z, h, i, q[1], q[2]} \subseteq Int
          BY <1>0, <2>1, <2>2, <2>5, <2>6, <3>5
        <5>. QED
          BY <2>1, <2>11, <2>13, <3>4, <5>1, Zenon DEF Chord
      <4>. QED
        BY <1>0, <4>1, AddFormulas, Zenon
    <3>7. Represents(new, q)
      BY <2>11, <3>2, <3>3, <3>6 DEF Represents
    <3>. QED
      BY <1>1, <3>1, <3>7 DEF q
  <2>. QED
    BY <2>17, <2>18
<1>. QED
  BY <1>2, <1>3 DEF Gej

-----------------------------------------------------------------------------
(* The rows *)

\* The powers of BASE, and that the order, a prime, divides none of them.
LEMMA Powers ==
  \A row \in 0 .. ROWS : /\ BASE ^ row \in Nat /\ BASE ^ row > 0 /\ (BASE ^ row) % N # 0
                         /\ row # ROWS => BASE ^ (row + 1) = BASE ^ row * BASE
<1>. DEFINE Good(row) == BASE ^ row \in Nat /\ BASE ^ row > 0 /\ (BASE ^ row) % N # 0
            Bad == {row \in 0 .. ROWS : ~Good(row)}
<1>1. /\ DIGITS \in Nat /\ ROWS \in Nat /\ HALF \in Nat /\ HALF > 0 /\ HALF < N /\ BASE = 2 * HALF
      /\ BASE \in Nat /\ BASE > 0 /\ BASE ^ 0 = 1
      /\ \A row \in 0 .. DIGITS : BASE ^ (row + 1) = BASE ^ row * BASE
  BY DigitAssumption DEF ROWS
<1>2. \A row \in 0 .. ROWS : row # ROWS => row \in 0 .. DIGITS
  BY <1>1 DEF ROWS
<1>3. /\ N \in Nat /\ N > 1 /\ Prime(N) /\ 1 % N # 0 /\ 2 % N # 0 /\ HALF % N # 0 /\ 2 \in Int
      /\ HALF \in Int
  BY <1>1, Parameters
<1>4. BASE % N # 0
  BY <1>1, <1>3, NoZeroProduct, Zenon
<1>5. \A row \in 0 .. ROWS : Good(row)
  <2>1. SUFFICES ASSUME Bad # {} PROVE FALSE
    OBVIOUS
  <2>2. PICK row \in Bad : \A m \in Bad : row <= m
    <3>1. Bad \subseteq Nat
      BY <1>1
    <3>. HIDE DEF Bad
    <3>. QED
      BY <2>1, <3>1, Least
  <2>3. row # 0
    BY <1>1, <1>3
  <2>. DEFINE m == row - 1
  <2>4. m \in 0 .. DIGITS /\ m \in 0 .. ROWS /\ m + 1 = row /\ m < row
    BY <1>1, <2>3 DEF ROWS
  <2>5. Good(m)
    BY <2>2, <2>4
  <2>6. BASE ^ row = BASE ^ m * BASE
    BY <1>1, <2>4
  <2>. DEFINE b == BASE ^ m
  <2>. HIDE DEF b
  <2>7. b \in Nat /\ b > 0 /\ b % N # 0 /\ BASE ^ row = b * BASE
    BY <2>5, <2>6 DEF b
  <2>8. b * BASE \in Nat /\ b * BASE > 0 /\ b \in Int /\ BASE \in Int
    BY <1>1, <2>7
  <2>9. (b * BASE) % N # 0
    BY <1>3, <1>4, <2>7, <2>8, NoZeroProduct, Zenon
  <2>10. Good(row)
    BY <2>7, <2>8, <2>9
  <2>. QED
    BY <2>2, <2>10
<1>. QED
  BY <1>1, <1>2, <1>5

\* No entry of a table is the identity: the digit, the power and the logarithm are not 0.
LEMMA EntryIs ==
  ASSUME NEW point \in Key, NEW row \in 0 .. DIGITS, NEW j \in 1 .. HALF
  PROVE  /\ Entry(point, row, j) \in Key /\ Negate(Entry(point, row, j)) \in Key
         /\ Same(N, Log(Entry(point, row, j)), (j * BASE ^ row) * Log(point))
         /\ Same(N, Log(Negate(Entry(point, row, j))), ((-j) * BASE ^ row) * Log(point))
<1>. DEFINE b == BASE ^ row
            l == Log(point)
            e == Entry(point, row, j)
            c == j * b
<1>1. N \in Nat /\ N \in Int /\ N > 0 /\ N > 1 /\ Prime(N) /\ HALF \in Nat /\ HALF < N
  BY Parameters, DigitAssumption
<1>2. row \in 0 .. ROWS
  BY DigitAssumption DEF ROWS
<1>3. b \in Int /\ b % N # 0
  BY <1>2, Powers
<1>4. point \in Point /\ l \in 0 .. N - 1 /\ l # 0
  BY LogOf DEF Point
<1>. HIDE DEF b, l
<1>5. j \in Int /\ j % N # 0 /\ l \in Int /\ l % N # 0
  BY <1>1, <1>4
<1>6. c \in Int /\ c % N # 0
  <2>1. c \in Int
    BY <1>3, <1>5
  <2>. QED
    BY <1>1, <1>3, <1>5, <2>1, NoZeroProduct, Zenon
<1>7. e = Times(c, point)
  BY DEF Entry, b
<1>. HIDE DEF c
<1>8. c * l \in Int /\ (c * l) % N # 0
  <2>1. c * l \in Int
    BY <1>5, <1>6
  <2>. QED
    BY <1>1, <1>5, <1>6, <2>1, NoZeroProduct, Zenon
<1>9. Log(e) = (c * l) % N /\ e \in Point
  BY <1>4, <1>6, <1>7, TimesOf DEF l
<1>. HIDE DEF e
<1>10. e \in Key
  BY <1>8, <1>9, LogOf
<1>11. Same(N, Log(e), c * l)
  BY <1>1, <1>8, <1>9, SameAsRest, Zenon
<1>12. Negate(e) \in Key /\ Log(Negate(e)) = N - Log(e)
  BY <1>10, NegateOf
<1>13. Same(N, Log(Negate(e)), -(c * l))
  <2>1. Same(N, N, 0)
    <3>1. N = 0 + 1 * N
      BY <1>1
    <3>. QED
      BY <1>1, <3>1 DEF Same
  <2>2. Same(N, N - Log(e), 0 - c * l)
    BY <1>1, <1>11, <2>1, SameSum, Zenon
  <2>3. 0 - c * l = -(c * l)
    BY <1>8
  <2>. QED
    BY <1>12, <2>2, <2>3
<1>14. -(c * l) = ((-j) * b) * l
  BY <1>3, <1>5 DEF c
<1>. QED
  BY <1>10, <1>11, <1>12, <1>13, <1>14 DEF e, c, b, l

\* The digits of k up to a row are k modulo the power of that row.
LEMMA ByteIs ==
  ASSUME NEW k \in 0 .. N - 1, NEW row \in 0 .. DIGITS
  PROVE  /\ Byte(k, row) \in 0 .. BASE - 1
         /\ k % BASE ^ (row + 1) = (k % BASE ^ row) + BASE ^ row * Byte(k, row)
         /\ k % BASE ^ row \in Nat
         /\ row = DIGITS => Byte(k, row) = 0 /\ k % BASE ^ (row + 1) = k
<1>. DEFINE b == BASE ^ row
<1>1. /\ row \in 0 .. ROWS /\ row # ROWS /\ BASE \in Nat /\ BASE > 0
      /\ N \in Nat /\ N <= BASE ^ DIGITS /\ k \in Nat /\ BASE > 1
  BY Parameters, DigitAssumption DEF ROWS
<1>2. b \in Nat /\ b > 0 /\ BASE ^ (row + 1) = b * BASE
  BY <1>1, Powers
<1>3. row = DIGITS => N <= b
  BY <1>1
<1>4. Byte(k, row) = IF row < DIGITS THEN (k \div b) % BASE ELSE 0
  BY DEF Byte
<1>. HIDE DEF b
<1>5. k % b \in 0 .. b - 1 /\ k \div b \in Int /\ k = (k \div b) * b + (k % b)
  BY <1>1, <1>2, Division
<1>6. CASE row < DIGITS
  <2>. DEFINE q == k \div b
              r == k % b
              c == q \div BASE
              d == q % BASE
  <2>1. r \in 0 .. b - 1 /\ q \in Int /\ k = q * b + r
    BY <1>5
  <2>. HIDE DEF q, r
  <2>2. d \in 0 .. BASE - 1 /\ c \in Int /\ q = c * BASE + d
    BY <1>1, <2>1, Division
  <2>. HIDE DEF c, d
  <2>3. b * BASE \in Nat /\ b * BASE > 0 /\ d * b + r \in Int /\ 0 <= d * b + r
    BY <1>1, <1>2, <2>1, <2>2
  <2>4. d * b + r < b * BASE
    <3>1. d * b <= (BASE - 1) * b
      BY <1>1, <1>2, <2>2
    <3>. QED
      BY <1>1, <1>2, <2>1, <2>2, <3>1
  <2>5. k = c * (b * BASE) + (d * b + r)
    BY <1>1, <1>2, <2>1, <2>2
  <2>6. (c * (b * BASE) + (d * b + r)) % (b * BASE) = d * b + r
    <3>1. d * b + r \in 0 .. (b * BASE) - 1
      BY <2>3, <2>4
    <3>. DEFINE n == b * BASE
                s == d * b + r
    <3>2. n \in Nat /\ n > 0 /\ s \in 0 .. n - 1
      BY <2>3, <3>1
    <3>. HIDE DEF n, s
    <3>3. (c * n + s) % n = s
      BY <2>2, <3>2, DivisionUnique
    <3>. QED
      BY <3>3 DEF n, s
  <2>7. d * b = b * d
    BY <1>2, <2>2
  <2>8. k % BASE ^ (row + 1) = r + b * d
    BY <1>2, <2>1, <2>2, <2>5, <2>6, <2>7
  <2>9. Byte(k, row) = d
    BY <1>4, <1>6 DEF d, q
  <2>. QED
    BY <1>5, <1>6, <2>2, <2>8, <2>9 DEF r, b
<1>7. CASE row = DIGITS
  <2>1. Byte(k, row) = 0
    BY <1>1, <1>4, <1>7, DigitAssumption
  <2>2. k < b /\ b <= b * BASE
    BY <1>1, <1>2, <1>3, <1>7
  <2>3. k % b = k
    BY <1>1, <1>2, <2>2
  <2>. DEFINE n == b * BASE
  <2>4. n \in Nat /\ k < n
    BY <1>1, <1>2, <2>2
  <2>. HIDE DEF n
  <2>5. k % n = k
    BY <1>1, <2>4
  <2>6. b * 0 = 0
    BY <1>2
  <2>. QED
    BY <1>1, <1>2, <1>5, <2>1, <2>3, <2>5, <2>6 DEF n, b
<1>. QED
  BY <1>6, <1>7, DigitAssumption

\* A digit is HALF at most, either way.
LEMMA DigitIs ==
  ASSUME NEW d \in 0 .. BASE
  PROVE  /\ Carry(d) \in {0, 1} /\ Digit(d) \in Int /\ Digit(d) = d - BASE * Carry(d)
         /\ Digit(d) > 0 => Digit(d) \in 1 .. HALF
         /\ Digit(d) < 0 => -Digit(d) \in 1 .. HALF
         /\ d <= 1 => Carry(d) = 0
<1>1. HALF \in Nat /\ HALF > 0 /\ BASE = 2 * HALF
  BY DigitAssumption
<1>2. Digit(d) = d - BASE * Carry(d)
  BY DEF Digit
<1>3. CASE d > HALF
  <2>1. Carry(d) = 1
    BY <1>3 DEF Carry
  <2>2. Digit(d) = d - BASE
    BY <1>1, <1>2, <2>1
  <2>. QED
    BY <1>1, <1>2, <1>3, <2>1, <2>2
<1>4. CASE ~(d > HALF)
  <2>1. Carry(d) = 0
    BY <1>4 DEF Carry
  <2>2. Digit(d) = d
    BY <1>1, <1>2, <2>1
  <2>. QED
    BY <1>1, <1>2, <1>4, <2>1, <2>2
<1>. QED
  BY <1>3, <1>4

\* acc stands for the a-th multiple of the generator; a key whose logarithm is c is added.
LEMMA AddsMultiple ==
  ASSUME NEW acc \in Gej, NEW a \in Int, Represents(acc, Multiple[a % N]),
         NEW e \in Key, NEW c \in Int, Same(N, Log(e), c), Add(acc, e).ok
  PROVE  Add(acc, e).acc \in Gej /\ Represents(Add(acc, e).acc, Multiple[(a + c) % N])
<1>. DEFINE p == Multiple[a % N]
<1>1. N \in Nat /\ N \in Int /\ N > 0
  BY Parameters
<1>2. a % N \in 0 .. N - 1 /\ Same(N, a % N, a)
  BY <1>1, SameAsRest, Zenon
<1>3. p \in Point /\ Log(p) = a % N
  BY <1>2, PointsAreMultiples, LogOf
<1>. HIDE DEF p
<1>4. e \in Point /\ Log(e) \in Int /\ Log(p) \in Int
  <2>1. e \in Point
    BY DEF Point
  <2>. QED
    BY <1>3, <2>1, LogOf
<1>5. Same(N, Log(p) + Log(e), a + c)
  BY <1>1, <1>2, <1>3, SameSum, Zenon
<1>6. (Log(p) + Log(e)) % N = (a + c) % N
  <2>1. Log(p) + Log(e) \in Int /\ a + c \in Int
    BY <1>4
  <2>. QED
    BY <1>1, <1>5, <2>1, SameRemainder, Zenon
<1>7. Plus(p, e) = Multiple[(a + c) % N]
  BY <1>3, <1>4, <1>6, SumOf
<1>8. Represents(acc, p)
  BY DEF p
<1>. QED
  BY <1>3, <1>7, <1>8, AddAdds

(***************************************************************************)
(* After a number of rows, unless an addition needed a doubling: the sum   *)
(* stands for what it was, the a-th multiple of the generator, and v times *)
(* the point, where v and the carry make up the digits of k so far.        *)
(***************************************************************************)
RowsAdded(state, a, k, point, row) ==
  state.ok =>
    /\ state.acc \in Gej /\ state.carry \in {0, 1}
    /\ \E v \in Int : /\ Represents(state.acc, Multiple[(a + v * Log(point)) % N])
                      /\ v + state.carry * BASE ^ row = k % BASE ^ row
    /\ row = ROWS => state.carry = 0

\* One row's digit of k, whichever of the three ways it is added.
LEMMA RowAdds ==
  ASSUME NEW state, NEW a \in Int, NEW k \in 0 .. N - 1, NEW point \in Key, NEW row \in 0 .. DIGITS,
         RowsAdded(state, a, k, point, row)
  PROVE  RowsAdded(AddRow(state, k, point, row), a, k, point, row + 1)
<1>. DEFINE b == BASE ^ row
            l == Log(point)
            d == state.carry + Byte(k, row)
            digit == Digit(d)
            added == IF digit = 0 THEN [ok |-> TRUE, acc |-> state.acc]
                     ELSE IF digit > 0 THEN Add(state.acc, Entry(point, row, digit))
                     ELSE Add(state.acc, Negate(Entry(point, row, -digit)))
            after == AddRow(state, k, point, row)
<1>1. after = IF state.ok THEN [ok |-> added.ok, acc |-> added.acc, carry |-> Carry(d)] ELSE state
  BY DEF AddRow
<1>. HIDE DEF added
<1>2. CASE ~state.ok
  BY <1>1, <1>2 DEF RowsAdded
<1>3. CASE state.ok
  <2>1. /\ after.ok = added.ok /\ after.acc = added.acc /\ after.carry = Carry(d)
        /\ state.acc \in Gej /\ state.carry \in {0, 1}
    BY <1>1, <1>3 DEF RowsAdded
  <2>. HIDE DEF after
  <2>2. PICK v \in Int : /\ Represents(state.acc, Multiple[(a + v * l) % N])
                         /\ v + state.carry * b = k % b
    BY <1>3 DEF RowsAdded
  <2>3. /\ Byte(k, row) \in 0 .. BASE - 1 /\ k % BASE ^ (row + 1) = (k % b) + b * Byte(k, row)
        /\ k % b \in Nat /\ (row = DIGITS => Byte(k, row) = 0)
    BY ByteIs
  <2>4. /\ row \in 0 .. ROWS /\ row # ROWS /\ b \in Nat /\ BASE ^ (row + 1) = b * BASE
        /\ BASE \in Nat /\ BASE > 0 /\ (row + 1 = ROWS => row = DIGITS)
    <3>1. /\ row \in 0 .. ROWS /\ row # ROWS /\ BASE \in Nat /\ BASE > 0
          /\ row + 1 = ROWS => row = DIGITS
      BY DigitAssumption DEF ROWS
    <3>. QED
      BY <3>1, Powers
  <2>5. point \in Point /\ l \in Int
    BY LogOf DEF Point
  <2>6. d \in 0 .. BASE
    BY <2>1, <2>3, <2>4
  <2>7. /\ Carry(d) \in {0, 1} /\ digit \in Int /\ digit = d - BASE * Carry(d)
        /\ digit > 0 => digit \in 1 .. HALF
        /\ digit < 0 => -digit \in 1 .. HALF
        /\ row = DIGITS => Carry(d) = 0
    <3>1. row = DIGITS => d <= 1
      BY <2>1, <2>3
    <3>. HIDE DEF d
    <3>. QED
      BY <2>6, <3>1, DigitIs
  <2>. DEFINE w == v + digit * b
              c == (digit * b) * l
  <2>8. w \in Int /\ c \in Int /\ a + v * l \in Int /\ (a + v * l) + c = a + w * l
    <3>. HIDE DEF digit, b, l
    <3>. QED
      BY <2>2, <2>4, <2>5, <2>7
  <2>9. w + Carry(d) * BASE ^ (row + 1) = k % BASE ^ (row + 1)
    <3>. DEFINE cd == Carry(d)
                y == Byte(k, row)
                r == k % b
                z == state.carry
    <3>1. /\ cd \in Int /\ y \in Int /\ z \in Int /\ r \in Int
          /\ digit = z + y - BASE * cd /\ v + z * b = r
      <4>1. cd \in Int /\ digit = d - BASE * cd
        BY <2>7
      <4>2. z \in Int /\ y \in Int /\ r \in Int
        BY <2>1, <2>3, <2>4
      <4>3. v + z * b = r
        BY <2>2, Zenon
      <4>. HIDE DEF cd, r, digit, b
      <4>. QED
        BY <2>4, <4>1, <4>2, <4>3
    <3>. HIDE DEF cd, y, r, z, digit, b
    <3>2. w + cd * (b * BASE) = r + b * y
      <4>1. (z + y - BASE * cd) * b = z * b + b * y - cd * (b * BASE)
        <5>. DEFINE base == BASE
        <5>1. base \in Int /\ b \in Int
          BY <2>4
        <5>. HIDE DEF base
        <5>2. (z + y - base * cd) * b = z * b + b * y - cd * (b * base)
          BY <3>1, <5>1
        <5>. QED
          BY <5>2 DEF base
      <4>2. digit * b = z * b + b * y - cd * (b * BASE)
        BY <3>1, <4>1
      <4>. DEFINE zb == z * b
                  yb == b * y
                  cb == cd * (b * BASE)
                  db == digit * b
      <4>3. zb \in Int /\ yb \in Int /\ cb \in Int
        BY <2>4, <3>1
      <4>. HIDE DEF zb, yb, cb
      <4>4. db = zb + yb - cb
        BY <4>2 DEF zb, yb, cb
      <4>. HIDE DEF db
      <4>5. v + db + cb = r + yb
        BY <2>2, <3>1, <4>3, <4>4 DEF zb
      <4>. QED
        BY <4>5 DEF db, cb, yb
    <3>. QED
      BY <2>3, <2>4, <3>2 DEF cd, y, r
  <2>10. ASSUME added.ok
         PROVE  added.acc \in Gej /\ Represents(added.acc, Multiple[(a + w * l) % N])
    <3>1. CASE digit = 0
      <4>1. added = [ok |-> TRUE, acc |-> state.acc]
        BY <3>1 DEF added
      <4>2. c = 0 /\ w = v
        <5>. HIDE DEF digit, b, l
        <5>. QED
          BY <2>2, <2>4, <2>5, <3>1
      <4>. QED
        BY <2>1, <2>2, <4>1, <4>2
    <3>2. CASE digit > 0
      <4>. DEFINE e == Entry(point, row, digit)
      <4>1. added = Add(state.acc, e)
        BY <2>7, <3>2 DEF added
      <4>2. e \in Key /\ Same(N, Log(e), c)
        <5>1. digit \in 1 .. HALF
          BY <2>7, <3>2
        <5>. HIDE DEF digit
        <5>. QED
          BY <5>1, EntryIs, Zenon
      <4>. HIDE DEF e, c, l
      <4>3. added.acc \in Gej /\ Represents(added.acc, Multiple[((a + v * l) + c) % N])
        BY <2>1, <2>2, <2>8, <2>10, <4>1, <4>2, AddsMultiple, Zenon
      <4>. QED
        BY <2>8, <4>3
    <3>3. CASE digit < 0
      <4>. DEFINE e == Negate(Entry(point, row, -digit))
      <4>1. added = Add(state.acc, e)
        BY <2>7, <3>3 DEF added
      <4>2. e \in Key /\ Same(N, Log(e), c)
        <5>1. -digit \in 1 .. HALF /\ -(-digit) = digit
          BY <2>7, <3>3
        <5>. HIDE DEF digit
        <5>2. e \in Key /\ Same(N, Log(e), ((-(-digit)) * b) * l)
          BY <5>1, EntryIs, Zenon
        <5>. QED
          BY <5>1, <5>2
      <4>. HIDE DEF e, c, l
      <4>3. added.acc \in Gej /\ Represents(added.acc, Multiple[((a + v * l) + c) % N])
        BY <2>1, <2>2, <2>8, <2>10, <4>1, <4>2, AddsMultiple, Zenon
      <4>. QED
        BY <2>8, <4>3
    <3>. QED
      BY <2>7, <3>1, <3>2, <3>3
  <2>11. row + 1 = ROWS => after.carry = 0
    BY <2>1, <2>4, <2>7
  <2>. HIDE DEF w, d, digit, l
  <2>12. ASSUME after.ok
         PROVE  /\ after.acc \in Gej /\ after.carry \in {0, 1}
                /\ Represents(after.acc, Multiple[(a + w * Log(point)) % N])
                /\ w + after.carry * BASE ^ (row + 1) = k % BASE ^ (row + 1)
    BY <2>1, <2>7, <2>9, <2>10, <2>12 DEF l
  <2>. QED
    BY <2>8, <2>11, <2>12 DEF RowsAdded, after
<1>. QED
  BY <1>2, <1>3

\* f is the states of MulAdd after 0 .. n rows.
Rows(f, acc, k, point, n) ==
  f = [row \in 0 .. n |-> IF row = 0 THEN [ok |-> TRUE, acc |-> acc, carry |-> 0]
                          ELSE AddRow(f[row - 1], k, point, row - 1)]

LEMMA RowsExist == ASSUME NEW acc, NEW k, NEW point PROVE \E f : Rows(f, acc, k, point, ROWS)
<1>. DEFINE Bad == {n \in Nat : ~\E f : Rows(f, acc, k, point, n)}
<1>0. ROWS \in Nat
  BY DigitAssumption DEF ROWS
<1>1. SUFFICES ASSUME Bad # {} PROVE FALSE
  BY <1>0
<1>2. PICK n \in Bad : \A m \in Bad : n <= m
  BY <1>1, Least
<1>3. n # 0
  <2>1. Rows([row \in 0 .. 0 |-> [ok |-> TRUE, acc |-> acc, carry |-> 0]], acc, k, point, 0)
    BY DEF Rows
  <2>. QED
    BY <2>1
<1>4. PICK f : Rows(f, acc, k, point, n - 1)
  <2>1. n - 1 \in Nat /\ ~(n <= n - 1)
    BY <1>3
  <2>. QED
    BY <1>2, <2>1
<1>. DEFINE At(row) == IF row = 0 THEN [ok |-> TRUE, acc |-> acc, carry |-> 0]
                       ELSE AddRow(f[row - 1], k, point, row - 1)
            g == [row \in 0 .. n |-> At(row)]
<1>5. \A row \in 0 .. n - 1 : g[row] = f[row]
  <2>1. f = [row \in 0 .. n - 1 |-> At(row)]
    BY <1>4 DEF Rows
  <2>. HIDE DEF At
  <2>. QED
    BY <2>1
<1>6. Rows(g, acc, k, point, n)
  <2>1. \A row \in 0 .. n : row # 0 => row - 1 \in 0 .. n - 1
    OBVIOUS
  <2>2. \A row \in 0 .. n : row # 0 => g[row - 1] = f[row - 1]
    BY <1>5, <2>1
  <2>. QED
    BY <2>2 DEF Rows
<1>. QED
  BY <1>2, <1>6

(***************************************************************************)
(* MulAdd multiplies and adds: unless an addition needed a doubling, the   *)
(* sum it returns stands for the one it was given and k times the point,   *)
(* the signed digits and their carries over all the rows included.         *)
(***************************************************************************)
THEOREM MulAddAdds ==
  ASSUME NEW acc \in Gej, NEW p \in Point, Represents(acc, p),
         NEW k \in 0 .. N - 1, NEW point \in Key, MulAdd(acc, k, point).ok
  PROVE  /\ MulAdd(acc, k, point).acc \in Gej
         /\ Represents(MulAdd(acc, k, point).acc, Plus(p, Times(k, point)))
<1>. DEFINE step == CHOOSE f : Rows(f, acc, k, point, ROWS)
            a == Log(p)
            l == Log(point)
            Good(row) == RowsAdded(step[row], a, k, point, row)
            Bad == {row \in 0 .. ROWS : ~Good(row)}
<1>1. MulAdd(acc, k, point) = step[ROWS]
  BY DEF MulAdd, Rows
<1>2. Rows(step, acc, k, point, ROWS)
  BY RowsExist
<1>. HIDE DEF step
<1>3. /\ ROWS \in Nat /\ ROWS - 1 = DIGITS /\ DIGITS \in Nat /\ ROWS # 0
      /\ BASE ^ 0 = 1 /\ k \in Int /\ k % 1 = 0
  BY DigitAssumption DEF ROWS
<1>4. /\ point \in Point /\ a \in 0 .. N - 1 /\ a \in Int /\ Multiple[a] = p
      /\ l \in Int /\ N > 0 /\ N \in Nat
  BY LogOf, Parameters DEF Point
<1>5. Good(0)
  <2>1. step[0] = [ok |-> TRUE, acc |-> acc, carry |-> 0]
    BY <1>2, <1>3 DEF Rows
  <2>. HIDE DEF a, l
  <2>2. (a + 0 * l) % N = a
    BY <1>4
  <2>3. Represents(acc, Multiple[(a + 0 * Log(point)) % N])
    BY <1>4, <2>2 DEF l
  <2>4. 0 + 0 * BASE ^ 0 = k % BASE ^ 0
    BY <1>3
  <2>. QED
    BY <1>3, <2>1, <2>3, <2>4 DEF RowsAdded
<1>6. ASSUME NEW row \in 0 .. DIGITS, Good(row) PROVE Good(row + 1)
  <2>1. row + 1 \in 0 .. ROWS /\ row + 1 # 0 /\ (row + 1) - 1 = row
    BY <1>3
  <2>2. step[row + 1] = AddRow(step[row], k, point, row)
    BY <1>2, <2>1 DEF Rows
  <2>. QED
    BY <1>4, <1>6, <2>2, RowAdds
<1>7. Good(ROWS)
  <2>1. SUFFICES ASSUME Bad # {} PROVE FALSE
    BY <1>3
  <2>2. PICK row \in Bad : \A m \in Bad : row <= m
    <3>1. Bad \subseteq Nat
      BY <1>3
    <3>. HIDE DEF Bad
    <3>. QED
      BY <2>1, <3>1, Least
  <2>. DEFINE m == row - 1
  <2>3. row # 0
    BY <1>5, <2>2
  <2>4. m \in 0 .. DIGITS /\ m \in 0 .. ROWS /\ m + 1 = row /\ ~(row <= m)
    BY <1>3, <2>2, <2>3
  <2>5. Good(m)
    BY <2>2, <2>4
  <2>6. Good(m + 1)
    BY <1>6, <2>4, <2>5
  <2>. QED
    BY <2>2, <2>4, <2>6
<1>8. DIGITS \in 0 .. DIGITS /\ DIGITS + 1 = ROWS
  BY <1>3
<1>. DEFINE last == step[ROWS]
<1>9. PICK v \in Int : /\ last.acc \in Gej /\ Represents(last.acc, Multiple[(a + v * l) % N])
                       /\ v + last.carry * BASE ^ ROWS = k % BASE ^ ROWS /\ last.carry = 0
  BY <1>1, <1>7 DEF RowsAdded
<1>10. v = k
  <2>1. k % BASE ^ ROWS = k
    BY <1>8, ByteIs
  <2>2. BASE ^ ROWS \in Int
    BY <1>3, Powers
  <2>. QED
    BY <1>9, <2>1, <2>2
<1>11. Plus(p, Times(k, point)) = Multiple[(a + k * l) % N]
  <2>. DEFINE t == Times(k, point)
  <2>1. t \in Point /\ Log(t) = (k * l) % N
    BY <1>3, <1>4, TimesOf
  <2>2. Plus(p, t) = Multiple[(a + Log(t)) % N]
    BY <2>1, SumOf
  <2>3. (a + Log(t)) % N = (a + k * l) % N
    <3>. HIDE DEF a, l, t
    <3>1. k * l \in Int /\ a + k * l \in Int
      BY <1>3, <1>4
    <3>2. Log(t) \in Int /\ Same(N, Log(t), k * l)
      <4>1. (k * l) % N \in 0 .. N - 1 /\ Same(N, (k * l) % N, k * l)
        BY <1>4, <3>1, SameAsRest, Zenon
      <4>. QED
        BY <2>1, <4>1
    <3>3. Same(N, a, a) /\ N \in Int /\ a + Log(t) \in Int
      BY <1>4, <3>2, SameSelf
    <3>4. Same(N, a + Log(t), a + k * l)
      BY <3>2, <3>3, SameSum, Zenon
    <3>. QED
      BY <1>4, <3>1, <3>3, <3>4, SameRemainder, Zenon
  <2>. QED
    BY <2>2, <2>3
<1>. QED
  BY <1>1, <1>9, <1>10, <1>11

-----------------------------------------------------------------------------
(* FixedKey and recovery *)

\* A coordinate is below 2 * N: modulo N it is r if it is r or r + N.
LEMMA XIs ==
  ASSUME NEW x \in 0 .. P - 1, NEW r \in 1 .. N - 1
  PROVE  /\ x % N = r <=> x = r \/ x = r + N
         /\ r \in 0 .. P - 1 /\ (r < P - N => r + N \in 0 .. P - 1)
         /\ x = r + N => r < P - N
<1>1. P \in Nat /\ N \in Nat /\ N < P /\ P < 2 * N /\ N > 2
  BY Parameters
<1>2. CASE x < N
  <2>1. x % N = x
    BY <1>1, <1>2
  <2>. QED
    BY <1>1, <1>2, <2>1
<1>3. CASE x >= N
  <2>1. x - N \in 0 .. N - 1 /\ 1 \in Int /\ 1 * N + (x - N) = x /\ N > 0
    BY <1>1, <1>3
  <2>2. (1 * N + (x - N)) % N = x - N
    BY <1>1, <2>1, DivisionUnique, Zenon
  <2>. QED
    BY <1>1, <1>3, <2>1, <2>2
<1>. QED
  BY <1>1, <1>2, <1>3

\* XMatches compares the x of the point without dividing by z.
LEMMA XMatchesIs ==
  ASSUME NEW acc \in Gej, NEW q, Represents(acc, q), ~acc.infinity, NEW r \in 1 .. N - 1
  PROVE  q \in Key /\ (XMatches(acc, r) <=> q[1] % N = r)
<1>. DEFINE x == acc.x
            z == acc.z
            zz == z * z
<1>1. /\ q \in Key /\ x \in Int /\ z \in Int /\ z % P # 0 /\ Same(P, q[1] * zz, x)
  BY DEF Represents, Gej
<1>2. q[1] \in 0 .. P - 1
  BY <1>1, KeyIs
<1>3. zz \in Int /\ zz % P # 0
  <2>1. zz \in Int
    BY <1>1
  <2>2. P \in Nat /\ P > 1 /\ Prime(P)
    BY Parameters
  <2>. HIDE DEF z
  <2>. QED
    BY <1>1, <2>1, <2>2, NoZeroProduct, Zenon
<1>4. ASSUME NEW c \in 0 .. P - 1
      PROVE  (c * acc.z * acc.z - acc.x) % P = 0 <=> q[1] = c
  <2>. DEFINE w == (c * z * z - x) % P
  <2>1. c * z * z - x \in Int /\ c * z * z = c * zz
    BY <1>1
  <2>2. w \in 0 .. P - 1 /\ Same(P, w, c * z * z - x)
    BY <2>1, InField, Zenon
  <2>. HIDE DEF w
  <2>3. Same(P, w, c * zz - x)
    BY <2>1, <2>2
  <2>. HIDE DEF x, zz
  <2>4. Scaled(q[1], c, zz, x, w)
    BY <1>1, <1>2, <1>3, <2>2, <2>3, Zenon DEF Scaled
  <2>5. w = 0 <=> q[1] = c
    BY <2>4, ScaledEqual, Zenon
  <2>. QED
    BY <2>5 DEF w, x
<1>5. /\ r \in 0 .. P - 1 /\ (r < P - N => r + N \in 0 .. P - 1)
      /\ q[1] = r + N => r < P - N
      /\ q[1] % N = r <=> q[1] = r \/ q[1] = r + N
  BY <1>2, XIs
<1>6. (r * acc.z * acc.z - acc.x) % P = 0 <=> q[1] = r
  BY <1>4, <1>5
<1>7. r < P - N => ((((r + N) * acc.z * acc.z - acc.x) % P = 0) <=> q[1] = r + N)
  BY <1>4, <1>5
<1>8. XMatches(acc, r) <=> q[1] = r \/ (r < P - N /\ q[1] = r + N)
  BY <1>6, <1>7, Zenon DEF XMatches
<1>. QED
  BY <1>1, <1>5, <1>8

\* What a signature asks of the sum u1 * G + u2 * key.
Fits(q, r) == q \in Key /\ q[1] % N = r

(***************************************************************************)
(* Verify decides on the x of u1 * G + u2 * key, whether its additions did *)
(* or needed a doubling.                                                   *)
(***************************************************************************)
LEMMA VerifyIs ==
  ASSUME NEW key \in Key, NEW sig, sig.r \in 1 .. N - 1, sig.s \in 1 .. N - 1, sig.digest \in Int
  PROVE  LET i == ModInverse(sig.s, N)
             q == Plus(Times((sig.digest * i) % N, Generator), Times((sig.r * i) % N, key))
         IN  q \in Point /\ (Verify(key, sig) <=> Fits(q, sig.r))
<1>. DEFINE i == ModInverse(sig.s, N)
            u1 == (sig.digest * i) % N
            u2 == (sig.r * i) % N
            a == Times(u1, Generator)
            q == Plus(a, Times(u2, key))
            first == MulAdd(Zero, u1, Generator)
            both == MulAdd(first.acc, u2, key)
<1>1. i \in Int
  <2>1. N \in Nat /\ N > 1 /\ Prime(N)
    BY Parameters
  <2>. QED
    BY <2>1, InverseOf
<1>2. u1 \in 0 .. N - 1 /\ u2 \in 0 .. N - 1
  <2>1. N \in Nat /\ N > 0 /\ sig.digest * i \in Int /\ sig.r * i \in Int
    BY <1>1, Parameters
  <2>. HIDE DEF i
  <2>. QED
    BY <2>1, SameAsRest, Zenon
<1>3. Verify(key, sig) <=> IF ~first.ok \/ ~both.ok THEN Doubled(u1, u2, key, sig.r)
                           ELSE ~both.acc.infinity /\ XMatches(both.acc, sig.r)
  BY DEF Verify
<1>. HIDE DEF i, u1, u2
<1>4. Generator \in Key /\ Generator \in Point /\ key \in Point /\ u1 \in Int /\ u2 \in Int
  BY <1>2, LogOf DEF Point
<1>5. a \in Point /\ Times(u2, key) \in Point /\ q \in Point
  BY <1>4, TimesOf, SumOf
<1>6. Plus(None, a) = a
  BY DEF Plus, None
<1>7. Zero \in Gej /\ None \in Point /\ Represents(Zero, None)
  BY DEF Zero, Gej, Point, Represents
<1>. HIDE DEF first, both, a, q
<1>8. ASSUME first.ok PROVE first.acc \in Gej /\ Represents(first.acc, a)
  BY <1>2, <1>4, <1>6, <1>7, <1>8, MulAddAdds DEF first, a
<1>9. ASSUME first.ok, both.ok PROVE both.acc \in Gej /\ Represents(both.acc, q)
  BY <1>2, <1>5, <1>8, <1>9, MulAddAdds DEF both, q
<1>10. CASE ~first.ok \/ ~both.ok
  <2>1. Doubled(u1, u2, key, sig.r) <=> q # <<>> /\ q[1] % N = sig.r
    BY DEF Doubled, q, a
  <2>2. q # <<>> <=> q \in Key
    BY <1>5, OrderAssumption DEF Point, None
  <2>. QED
    BY <1>3, <1>5, <1>10, <2>1, <2>2 DEF Fits, q, a, i, u1, u2
<1>11. CASE first.ok /\ both.ok
  <2>1. both.acc.infinity => q \notin Key
    BY <1>9, <1>11, OrderAssumption DEF Represents
  <2>2. ~both.acc.infinity => q \in Key /\ (XMatches(both.acc, sig.r) <=> q[1] % N = sig.r)
    BY <1>9, <1>11, XMatchesIs
  <2>. QED
    BY <1>3, <1>5, <1>11, <2>1, <2>2 DEF Fits, q, a, i, u1, u2
<1>. QED
  BY <1>10, <1>11

\* A factor that has an inverse can change sides.
LEMMA MoveFactor ==
  ASSUME NEW n \in Int, NEW a \in Int, NEW b \in Int, NEW c \in Int, NEW x \in Int,
         Same(n, c * x, 1)
  PROVE  Same(n, a, c * b) <=> Same(n, x * a, b)
<1>1. ASSUME NEW y \in Int PROVE Same(n, x * (c * y), y) /\ Same(n, c * (x * y), y)
  <2>1. Same(n, (c * x) * y, 1 * y)
    BY SameScaled, Zenon
  <2>2. (c * x) * y = x * (c * y) /\ (c * x) * y = c * (x * y) /\ 1 * y = y
    OBVIOUS
  <2>. QED
    BY <2>1, <2>2
<1>2. ASSUME Same(n, a, c * b) PROVE Same(n, x * a, b)
  <2>1. Same(n, x * a, x * (c * b))
    BY <1>2, SameScaled, Zenon
  <2>. QED
    BY <1>1, <2>1, SameThrough, Zenon
<1>3. ASSUME Same(n, x * a, b) PROVE Same(n, a, c * b)
  <2>1. Same(n, c * (x * a), c * b)
    BY <1>3, SameScaled, Zenon
  <2>2. Same(n, a, c * (x * a))
    BY <1>1, SameBack, Zenon
  <2>. QED
    BY <2>1, <2>2, SameThrough, Zenon
<1>. QED
  BY <1>2, <1>3

\* A term can change sides.
LEMMA MoveTerm ==
  ASSUME NEW n \in Int, NEW a \in Int, NEW b \in Int, NEW c \in Int
  PROVE  Same(n, a, b + c) <=> Same(n, c, a - b)
<1>0. Same(n, b, b)
  BY SameSelf
<1>1. ASSUME Same(n, a, b + c) PROVE Same(n, c, a - b)
  <2>1. Same(n, a - b, (b + c) - b)
    BY <1>0, <1>1, SameSum, Zenon
  <2>2. (b + c) - b = c
    OBVIOUS
  <2>. QED
    BY <2>1, <2>2, SameBack
<1>2. ASSUME Same(n, c, a - b) PROVE Same(n, a, b + c)
  <2>1. Same(n, b + c, b + (a - b))
    BY <1>0, <1>2, SameSum, Zenon
  <2>2. b + (a - b) = a
    OBVIOUS
  <2>. QED
    BY <2>1, <2>2, SameBack
<1>. QED
  BY <1>1, <1>2

\* A signature's equation, solved for the nonce and for the key.
LEMMA SolvedBothWays ==
  ASSUME NEW n \in Int, NEW d \in Int, NEW r \in Int, NEW s \in Int, NEW i \in Int, NEW j \in Int,
         NEW u \in Int, NEW k \in Int, Same(n, i * s, 1), Same(n, j * r, 1)
  PROVE  Same(n, u, i * (d + r * k)) <=> Same(n, k, j * (s * u - d))
<1>1. d + r * k \in Int /\ s * u \in Int /\ r * k \in Int /\ s * u - d \in Int
  OBVIOUS
<1>2. Same(n, u, i * (d + r * k)) <=> Same(n, s * u, d + r * k)
  BY <1>1, MoveFactor, Zenon
<1>3. Same(n, s * u, d + r * k) <=> Same(n, r * k, s * u - d)
  BY <1>1, MoveTerm, Zenon
<1>4. Same(n, k, j * (s * u - d)) <=> Same(n, r * k, s * u - d)
  BY <1>1, MoveFactor, Zenon
<1>. QED
  BY <1>2, <1>3, <1>4

\* The logarithms of products and sums, modulo N.
LEMMA LogSame ==
  /\ \A p \in Point : Log(p) \in 0 .. N - 1 /\ Log(p) \in Int
  /\ \A k \in Int, p \in Point : Times(k, p) \in Point /\ Same(N, Log(Times(k, p)), k * Log(p))
  /\ \A p, q \in Point : Plus(p, q) \in Point /\ Same(N, Log(Plus(p, q)), Log(p) + Log(q))
<1>0. N \in Nat /\ N > 0
  BY Parameters
<1>1. \A p \in Point : Log(p) \in 0 .. N - 1 /\ Log(p) \in Int
  BY <1>0, LogOf
<1>2. ASSUME NEW k \in Int, NEW p \in Point
      PROVE  Times(k, p) \in Point /\ Same(N, Log(Times(k, p)), k * Log(p))
  <2>1. k * Log(p) \in Int
    BY <1>1
  <2>2. Same(N, (k * Log(p)) % N, k * Log(p))
    BY <1>0, <2>1, SameAsRest, Zenon
  <2>. QED
    BY <2>2, TimesOf
<1>3. ASSUME NEW p \in Point, NEW q \in Point
      PROVE  Plus(p, q) \in Point /\ Same(N, Log(Plus(p, q)), Log(p) + Log(q))
  <2>1. Log(p) + Log(q) \in Int
    BY <1>1
  <2>2. Same(N, (Log(p) + Log(q)) % N, Log(p) + Log(q))
    BY <1>0, <2>1, SameAsRest, Zenon
  <2>. QED
    BY <2>2, SumOf
<1>. QED
  BY <1>1, <1>2, <1>3

\* Points with the same logarithm are the same.
LEMMA SameLog ==
  ASSUME NEW p \in Point, NEW q \in Point
  PROVE  Same(N, Log(p), Log(q)) <=> p = q
<1>1. /\ Log(p) \in 0 .. N - 1 /\ Multiple[Log(p)] = p /\ Log(q) \in 0 .. N - 1 /\ Multiple[Log(q)] = q
      /\ N \in Nat /\ N > 0 /\ N \in Int /\ Log(p) \in Int
  BY LogOf, Parameters
<1>2. Same(N, Log(p), Log(q)) => Log(p) = Log(q)
  BY <1>1, SameInRange, Zenon
<1>3. Same(N, Log(p), Log(p))
  BY <1>1, SameSelf, Zenon
<1>. QED
  BY <1>1, <1>2, <1>3

\* Of all nonce points, the sum that Verify looks at is the one that gives back its key.
LEMMA RecoveredFrom ==
  ASSUME NEW key \in Key, NEW nonce \in Key, NEW d \in Int, NEW r \in 1 .. N - 1, NEW s \in 1 .. N - 1
  PROVE  LET i == ModInverse(s, N)
             q == Plus(Times((d * i) % N, Generator), Times((r * i) % N, key))
         IN  Times(ModInverse(r, N), Plus(Times(s, nonce), Times((-d) % N, Generator))) = key <=> nonce = q
<1>. DEFINE i == ModInverse(s, N)
            j == ModInverse(r, N)
            u1 == (d * i) % N
            u2 == (r * i) % N
            m == (-d) % N
            a == Times(u1, Generator)
            b == Times(u2, key)
            q == Plus(a, b)
            e == Times(s, nonce)
            f == Times(m, Generator)
            g == Plus(e, f)
            h == Times(j, g)
            u == Log(nonce)
            k == Log(key)
<1>1. N \in Nat /\ N \in Int /\ N > 0 /\ N > 1 /\ Prime(N) /\ r \in Int /\ s \in Int
  BY Parameters
<1>2. i \in Int /\ j \in Int /\ Same(N, i * s, 1) /\ Same(N, j * r, 1)
  <2>1. i \in 1 .. N - 1 /\ Same(N, s * i, 1) /\ j \in 1 .. N - 1 /\ Same(N, r * j, 1)
    BY <1>1, InverseOf, Zenon
  <2>2. i \in Int /\ j \in Int
    BY <1>1, <2>1
  <2>. HIDE DEF i, j
  <2>3. s * i = i * s /\ r * j = j * r
    BY <1>1, <2>2
  <2>4. Same(N, i * s, 1) /\ Same(N, j * r, 1)
    BY <2>1, <2>3, Zenon
  <2>. QED
    BY <2>2, <2>4, Zenon
<1>. HIDE DEF i, j
<1>3. /\ u1 \in Int /\ Same(N, u1, d * i) /\ u2 \in Int /\ Same(N, u2, r * i)
      /\ m \in Int /\ Same(N, m, -d)
  <2>1. d * i \in Int /\ r * i \in Int /\ -d \in Int
    BY <1>1, <1>2
  <2>2. ASSUME NEW c \in Int PROVE c % N \in Int /\ Same(N, c % N, c)
    <3>1. c % N \in 0 .. N - 1 /\ Same(N, c % N, c)
      BY <1>1, SameAsRest, Zenon
    <3>. QED
      BY <3>1
  <2>. QED
    BY <2>1, <2>2, Zenon
<1>. HIDE DEF u1, u2, m
<1>4. /\ Generator \in Point /\ key \in Point /\ nonce \in Point /\ Log(Generator) = 1
      /\ u \in Int /\ k \in Int
  <2>1. Generator \in Point /\ key \in Point /\ nonce \in Point /\ Log(Generator) = 1
    BY LogOf DEF Point
  <2>. QED
    BY <2>1, LogSame
<1>5. /\ a \in Point /\ Same(N, Log(a), u1 * Log(Generator)) /\ b \in Point /\ Same(N, Log(b), u2 * k)
      /\ e \in Point /\ Same(N, Log(e), s * u) /\ f \in Point /\ Same(N, Log(f), m * Log(Generator))
  BY <1>1, <1>3, <1>4, LogSame, Zenon
<1>6. u1 * Log(Generator) = u1 /\ m * Log(Generator) = m
  BY <1>3, <1>4
<1>. HIDE DEF a, b, e, f, u, k
<1>7. q \in Point /\ Same(N, Log(q), Log(a) + Log(b)) /\ g \in Point /\ Same(N, Log(g), Log(e) + Log(f))
  BY <1>5, LogSame, Zenon
<1>. HIDE DEF q, g
<1>8. h \in Point /\ Same(N, Log(h), j * Log(g))
  BY <1>2, <1>7, LogSame, Zenon
<1>. HIDE DEF h
<1>9. Same(N, Log(q), i * (d + r * k))
  <2>1. Same(N, Log(a), d * i)
    <3>1. Same(N, Log(a), u1)
      BY <1>5, <1>6
    <3>. QED
      BY <1>1, <1>3, <3>1, SameThrough, Zenon
  <2>2. Same(N, Log(b), (r * i) * k)
    <3>1. Same(N, u2 * k, (r * i) * k)
      BY <1>1, <1>3, <1>4, SameScaled, Zenon
    <3>. QED
      BY <1>1, <1>5, <3>1, SameThrough, Zenon
  <2>3. Same(N, Log(a) + Log(b), d * i + (r * i) * k)
    BY <1>1, <2>1, <2>2, SameSum, Zenon
  <2>4. d * i + (r * i) * k = i * (d + r * k)
    BY <1>1, <1>2, <1>4
  <2>5. Same(N, Log(a) + Log(b), i * (d + r * k))
    BY <2>3, <2>4
  <2>. QED
    BY <1>1, <1>7, <2>5, SameThrough, Zenon
<1>10. Same(N, Log(h), j * (s * u - d))
  <2>1. Same(N, Log(f), -d)
    <3>1. Same(N, Log(f), m)
      BY <1>5, <1>6
    <3>. QED
      BY <1>1, <1>3, <3>1, SameThrough, Zenon
  <2>2. Same(N, Log(e) + Log(f), s * u + (-d))
    BY <1>1, <1>5, <2>1, SameSum, Zenon
  <2>3. s * u + (-d) = s * u - d
    BY <1>1, <1>4
  <2>4. Same(N, Log(e) + Log(f), s * u - d)
    BY <2>2, <2>3
  <2>5. Same(N, Log(g), s * u - d)
    BY <1>1, <1>7, <2>4, SameThrough, Zenon
  <2>6. Same(N, j * Log(g), j * (s * u - d))
    BY <1>1, <1>2, <2>5, SameScaled, Zenon
  <2>. QED
    BY <1>1, <1>8, <2>6, SameThrough, Zenon
<1>11. Same(N, u, i * (d + r * k)) <=> Same(N, k, j * (s * u - d))
  BY <1>1, <1>2, <1>4, SolvedBothWays, Zenon
<1>12. nonce = q <=> Same(N, u, i * (d + r * k))
  <2>1. Same(N, u, Log(q)) <=> nonce = q
    BY <1>4, <1>7, SameLog DEF u
  <2>2. Same(N, i * (d + r * k), Log(q))
    BY <1>1, <1>9, SameBack, Zenon
  <2>. QED
    BY <1>1, <1>9, <2>1, <2>2, SameThrough, Zenon
<1>13. h = key <=> Same(N, k, j * (s * u - d))
  <2>1. Same(N, k, Log(h)) <=> key = h
    BY <1>4, <1>8, SameLog DEF k
  <2>2. Same(N, j * (s * u - d), Log(h))
    BY <1>1, <1>10, SameBack, Zenon
  <2>. QED
    BY <1>1, <1>10, <2>1, <2>2, SameThrough, Zenon
<1>14. h = key <=> nonce = q
  BY <1>11, <1>12, <1>13
<1>. QED
  BY <1>14, Zenon DEF h, g, f, e, q, b, a, m, u2, u1, j, i

LEMMA OddPrime ==
  ASSUME NEW n \in Nat, n > 2, Prime(n), NEW h \in Int
  PROVE  n # 2 * h
<1>1. SUFFICES ASSUME n = 2 * h PROVE FALSE
  OBVIOUS
<1>2. h \in 1 .. n - 1 /\ h % n # 0 /\ 2 % n # 0 /\ n > 1 /\ 2 \in Int /\ n % n = 0
  BY <1>1
<1>3. (2 * h) % n # 0
  BY <1>2, NoZeroProduct, Zenon
<1>. QED
  BY <1>1, <1>2, <1>3

\* The two points that share an x have ys of different parities: neither y is 0, and P is odd.
LEMMA Parities ==
  ASSUME NEW p \in Key
  PROVE  Negate(p)[1] = p[1] /\ Negate(p)[2] % 2 # p[2] % 2
<1>1. p = <<p[1], p[2]>> /\ p[1] \in 0 .. P - 1 /\ p[2] \in 0 .. P - 1
  BY KeyIs
<1>2. P \in Nat /\ P > 2 /\ Prime(P) /\ N \in Nat /\ N > 2 /\ Prime(N)
  BY Parameters
<1>3. Negate(p) = <<p[1], (P - p[2]) % P>>
  BY DEF Negate
<1>4. p[2] # 0
  <2>1. SUFFICES ASSUME p[2] = 0 PROVE FALSE
    OBVIOUS
  <2>2. (P - 0) % P = 0
    BY <1>2
  <2>3. Negate(p) = p
    BY <1>1, <1>3, <2>1, <2>2
  <2>4. Log(p) \in Int /\ Log(p) = N - Log(p)
    <3>1. Log(p) \in 0 .. N - 1
      BY LogOf DEF Point
    <3>2. Log(p) = N - Log(p)
      BY <2>3, NegateOf
    <3>. QED
      BY <1>2, <3>1, <3>2
  <2>5. N = 2 * Log(p)
    BY <1>2, <2>4
  <2>. QED
    BY <1>2, <2>4, <2>5, OddPrime
<1>5. (P - p[2]) % P = P - p[2]
  BY <1>1, <1>2, <1>4
<1>6. (P - p[2]) % 2 # p[2] % 2
  <2>1. SUFFICES ASSUME (P - p[2]) % 2 = p[2] % 2 PROVE FALSE
    OBVIOUS
  <2>2. PICK h \in Int : P = 2 * h
    <3>1. (P - p[2]) % 2 \in 0 .. 1 /\ p[2] % 2 \in 0 .. 1
      BY <1>1, <1>2
    <3>2. /\ P - p[2] = 2 * ((P - p[2]) \div 2) + ((P - p[2]) % 2)
          /\ p[2] = 2 * (p[2] \div 2) + (p[2] % 2)
          /\ (P - p[2]) \div 2 \in Int /\ p[2] \div 2 \in Int
      BY <1>1, <1>2
    <3>3. P = 2 * (((P - p[2]) \div 2) + (p[2] \div 2) + (p[2] % 2))
      BY <1>1, <1>2, <2>1, <3>1, <3>2
    <3>4. ((P - p[2]) \div 2) + (p[2] \div 2) + (p[2] % 2) \in Int
      BY <3>1, <3>2
    <3>. QED
      BY <3>3, <3>4
  <2>. QED
    BY <1>2, <2>2, OddPrime
<1>. QED
  BY <1>3, <1>5, <1>6

\* A recovery id tells the nonce points apart.
LEMMA OneNonce ==
  ASSUME NEW sig, NEW p \in Nonces(sig), NEW q \in Nonces(sig)
  PROVE  p = q
<1>1. p \in Key /\ q \in Key /\ p[1] = q[1] /\ p[2] % 2 = q[2] % 2
  BY DEF Nonces
<1>2. q \in {p, Negate(p)}
  BY <1>1, GroupAssumption
<1>. QED
  BY <1>1, <1>2, Parities

\* Each nonce point has a recovery id: which of its two x and ys it is.
LEMMA IdOf ==
  ASSUME NEW q \in Key, NEW r \in 1 .. N - 1
  PROVE  q[1] % N = r <=> \E id \in 0 .. 3 : q[1] = r + N * (id \div 2) /\ q[2] % 2 = id % 2
<1>1. q[1] \in 0 .. P - 1 /\ q[2] \in 0 .. P - 1 /\ q[2] % 2 \in {0, 1} /\ N \in Nat
  BY KeyIs, Parameters
<1>2. q[1] % N = r <=> q[1] = r \/ q[1] = r + N
  BY <1>1, XIs
<1>3. ASSUME q[1] = r \/ q[1] = r + N
      PROVE  \E id \in 0 .. 3 : q[1] = r + N * (id \div 2) /\ q[2] % 2 = id % 2
  <2>1. /\ 0 \div 2 = 0 /\ 1 \div 2 = 0 /\ 2 \div 2 = 1 /\ 3 \div 2 = 1
        /\ 0 % 2 = 0 /\ 1 % 2 = 1 /\ 2 % 2 = 0 /\ 3 % 2 = 1
    OBVIOUS
  <2>2. r + N * 0 = r /\ r + N * 1 = r + N
    BY <1>1
  <2>3. CASE q[1] = r
    <3>1. CASE q[2] % 2 = 0
      <4>1. q[1] = r + N * (0 \div 2) /\ q[2] % 2 = 0 % 2 /\ 0 \in 0 .. 3
        BY <2>1, <2>2, <2>3, <3>1
      <4>. QED
        BY <4>1, Zenon
    <3>2. CASE q[2] % 2 = 1
      <4>1. q[1] = r + N * (1 \div 2) /\ q[2] % 2 = 1 % 2 /\ 1 \in 0 .. 3
        BY <2>1, <2>2, <2>3, <3>2
      <4>. QED
        BY <4>1, Zenon
    <3>. QED
      BY <1>1, <3>1, <3>2
  <2>4. CASE q[1] = r + N
    <3>1. CASE q[2] % 2 = 0
      <4>1. q[1] = r + N * (2 \div 2) /\ q[2] % 2 = 2 % 2 /\ 2 \in 0 .. 3
        BY <2>1, <2>2, <2>4, <3>1
      <4>. QED
        BY <4>1, Zenon
    <3>2. CASE q[2] % 2 = 1
      <4>1. q[1] = r + N * (3 \div 2) /\ q[2] % 2 = 3 % 2 /\ 3 \in 0 .. 3
        BY <2>1, <2>2, <2>4, <3>2
      <4>. QED
        BY <4>1, Zenon
    <3>. QED
      BY <1>1, <3>1, <3>2
  <2>. QED
    BY <1>3, <2>3, <2>4
<1>4. ASSUME NEW id \in 0 .. 3, q[1] = r + N * (id \div 2) PROVE q[1] = r \/ q[1] = r + N
  <2>1. id \div 2 = 0 \/ id \div 2 = 1
    OBVIOUS
  <2>2. N * 0 = 0 /\ N * 1 = N
    BY <1>1
  <2>. QED
    BY <1>1, <1>4, <2>1, <2>2
<1>. QED
  BY <1>2, <1>3, <1>4

(***************************************************************************)
(* FixedKey::verify accepts a signature exactly if the key is what recovery *)
(* finds with one recovery id or another, on any curve whose group is of   *)
(* prime order: the sums that would double, the carries of the signed      *)
(* digits, high s, x as r + n, and r and s out of range make no difference. *)
(***************************************************************************)
THEOREM FixedKeyCorrect ==
  ASSUME NEW key \in Key, NEW d \in Int, NEW r, NEW s, NEW v
  PROVE  LET sig(id) == [digest |-> d, r |-> r, s |-> s, recid |-> id]
         IN  Verify(key, sig(v)) <=> \E id \in 0 .. 3 : RecoverKey(sig(id)) = key
<1>. DEFINE sig(id) == [digest |-> d, r |-> r, s |-> s, recid |-> id]
<1>1. key # None
  BY OrderAssumption
<1>2. CASE ~(r \in 1 .. N - 1 /\ s \in 1 .. N - 1)
  <2>1. ~Verify(key, sig(v))
    BY <1>2 DEF Verify
  <2>2. \A id \in 0 .. 3 : RecoverKey(sig(id)) = None
    BY <1>2 DEF RecoverKey
  <2>. QED
    BY <1>1, <2>1, <2>2
<1>3. CASE r \in 1 .. N - 1 /\ s \in 1 .. N - 1
  <2>. DEFINE i == ModInverse(s, N)
              q == Plus(Times((d * i) % N, Generator), Times((r * i) % N, key))
              From(nonce) == Times(ModInverse(r, N), Plus(Times(s, nonce), Times((-d) % N, Generator)))
  <2>1. q \in Point /\ (Verify(key, sig(v)) <=> Fits(q, r))
    <3>1. sig(v).r = r /\ sig(v).s = s /\ sig(v).digest = d
      OBVIOUS
    <3>. HIDE DEF sig
    <3>. QED
      BY <1>3, <3>1, VerifyIs
  <2>2. \A nonce \in Key : From(nonce) = key <=> nonce = q
    BY <1>3, RecoveredFrom
  <2>. HIDE DEF q
  <2>3. ASSUME NEW id \in 0 .. 3
        PROVE  RecoverKey(sig(id)) = key <=> q \in Nonces(sig(id))
    <3>. DEFINE nonces == Nonces(sig(id))
                nonce == CHOOSE p \in nonces : TRUE
    <3>1. RecoverKey(sig(id)) = IF nonces # {} THEN IF From(nonce) = <<>> THEN None ELSE From(nonce) ELSE None
      BY <1>3 DEF RecoverKey
    <3>2. nonces \subseteq Key
      BY DEF Nonces
    <3>3. q \in nonces => nonce = q
      BY OneNonce
    <3>4. nonces # {} => nonce \in nonces
      OBVIOUS
    <3>. HIDE DEF nonces, nonce, From, sig
    <3>5. ASSUME q \in nonces PROVE RecoverKey(sig(id)) = key
      BY <1>1, <2>2, <3>1, <3>2, <3>3, <3>5 DEF None
    <3>6. ASSUME RecoverKey(sig(id)) = key PROVE q \in nonces
      <4>1. nonces # {} /\ From(nonce) = key
        BY <1>1, <3>1, <3>6
      <4>. QED
        BY <2>2, <3>2, <3>4, <4>1
    <3>. QED
      BY <3>5, <3>6 DEF nonces
  <2>4. \A id : q \in Nonces(sig(id)) <=> q \in Key /\ q[1] = r + N * (id \div 2) /\ q[2] % 2 = id % 2
    BY DEF Nonces
  <2>5. Fits(q, r) <=> \E id \in 0 .. 3 : q \in Nonces(sig(id))
    BY <1>3, <2>4, IdOf DEF Fits
  <2>. QED
    BY <2>1, <2>3, <2>5
<1>. QED
  BY <1>2, <1>3
=============================================================================
