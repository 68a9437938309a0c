----------------------------- MODULE CodecProofs -----------------------------
(* Lemmas for the codec: induction and recursion over the numbers, the digits*)
(* of a remaining length and their bytes, the readers on bytes that are written*)
(* as the standard says, and sequences of strings as one string.             *)
EXTENDS Framing, SequenceTheorems, WellFoundedInduction, TLAPS

(* A set of numbers has a least element: induction over data.                *)
LEMMA LeastNumber ==
    ASSUME NEW T \in SUBSET Nat, T # {}
    PROVE  \E n \in T : \A m \in T : n <= m
PROOF
<1> DEFINE less == {p \in Nat \X Nat : p[1] < p[2]}
<1>1. IsWellFoundedOn(less, Nat)
  <2>1. IsWellFoundedOn(OpToRel(<, Nat), Nat)
    BY NatLessThanWellFounded
  <2> QED BY <2>1 DEF OpToRel
<1>2. \A x, y \in Nat : <<y, x>> \in less <=> y < x
  OBVIOUS
<1> HIDE DEF less
<1>3. PICK x \in T : \A y \in T : ~(<<y, x>> \in less)
  BY <1>1, WFMin
<1>4. ASSUME NEW y \in T
      PROVE  x <= y
  <2>1. ~(y < x)
    BY <1>2, <1>3
  <2> QED BY <2>1
<1> QED BY <1>4

(* The induction itself, for a set of numbers. *)
LEMMA Induction ==
    ASSUME NEW S, 0 \in S, \A n \in Nat : n \in S => n + 1 \in S
    PROVE  \A n \in Nat : n \in S
PROOF
<1> DEFINE wrong == {n \in Nat : n \notin S}
<1> SUFFICES ASSUME wrong # {}
             PROVE  FALSE
  OBVIOUS
<1>1. PICK n \in wrong : \A m \in wrong : n <= m
  BY LeastNumber
<1>2. n # 0 /\ n \in Nat /\ n \notin S
  OBVIOUS
<1>3. n - 1 \in Nat /\ (n - 1) + 1 = n /\ ~(n <= n - 1)
  BY <1>2
<1>4. n - 1 \in S
  BY <1>1, <1>3
<1> QED BY <1>2, <1>3, <1>4

(* f has this value at 0 and takes this step from each number to the next. *)
Recurs(f, T, base, step) ==
    /\ f \in [Nat -> T] /\ f[0] = base
    /\ \A n \in Nat : f[n + 1] = step[<<n, f[n]>>]

(* There is a function with a given value at 0 and a given step.             *)
LEMMA Recursion ==
    ASSUME NEW T, NEW base \in T, NEW step \in [Nat \X T -> T]
    PROVE  \E f : Recurs(f, T, base, step)
PROOF
<1> DEFINE Upto(n, g) == /\ g \in [0 .. n -> T] /\ g[0] = base
                         /\ \A i \in 0 .. n - 1 : g[i + 1] = step[<<i, g[i]>>]
           good == {n \in Nat : \E g : Upto(n, g)}
           same == {i \in Nat : \A m, n \in Nat : \A g, h :
                        i <= m /\ i <= n /\ Upto(m, g) /\ Upto(n, h) => g[i] = h[i]}
<1>1. \A n \in Nat : n \in good
  <2>1. 0 \in good
    <3> DEFINE g == [i \in 0 .. 0 |-> base]
    <3>1. Upto(0, g)
      OBVIOUS
    <3> QED BY <3>1
  <2>2. ASSUME NEW n \in Nat, n \in good
        PROVE  n + 1 \in good
    <3>1. PICK g : Upto(n, g)
      BY <2>2
    <3> DEFINE h == [i \in 0 .. n + 1 |-> IF i <= n THEN g[i] ELSE step[<<n, g[n]>>]]
    <3>2. g[n] \in T /\ step[<<n, g[n]>>] \in T
      BY <3>1
    <3>3. h \in [0 .. n + 1 -> T] /\ h[0] = base
      BY <3>1, <3>2
    <3>4. ASSUME NEW i \in 0 .. (n + 1) - 1
          PROVE  h[i + 1] = step[<<i, h[i]>>]
      <4>1. CASE i < n
        BY <3>1, <4>1
      <4>2. CASE i = n
        <5>1. h[n + 1] = step[<<n, g[n]>>]
          OBVIOUS
        <5>2. h[n] = g[n]
          OBVIOUS
        <5> HIDE DEF h
        <5> QED BY <4>2, <5>1, <5>2
      <4> QED BY <4>1, <4>2
    <3>5. Upto(n + 1, h)
      BY <3>3, <3>4
    <3> HIDE DEF Upto, h
    <3> QED BY <3>5
  <2> HIDE DEF good
  <2> QED BY <2>1, <2>2, Induction
<1>2. \A i \in Nat : i \in same
  <2>1. 0 \in same
    OBVIOUS
  <2>2. ASSUME NEW i \in Nat, i \in same
        PROVE  i + 1 \in same
    <3>1. ASSUME NEW m \in Nat, NEW n \in Nat, NEW g, NEW h,
                 i + 1 <= m, i + 1 <= n, Upto(m, g), Upto(n, h)
          PROVE  g[i + 1] = h[i + 1]
      <4>1. i <= m /\ i <= n /\ i \in 0 .. m - 1 /\ i \in 0 .. n - 1
        BY <3>1
      <4>2. g[i] = h[i]
        <5> HIDE DEF Upto
        <5> QED BY <2>2, <3>1, <4>1
      <4> QED BY <3>1, <4>1, <4>2
    <3> HIDE DEF Upto
    <3> QED BY <3>1
  <2> HIDE DEF same
  <2> QED BY <2>1, <2>2, Induction
<1> DEFINE f == [n \in Nat |-> (CHOOSE g : Upto(n, g))[n]]
<1>3. ASSUME NEW n \in Nat
      PROVE  Upto(n, CHOOSE g : Upto(n, g))
  <2>1. \E g : Upto(n, g)
    BY <1>1
  <2> HIDE DEF Upto
  <2> QED BY <2>1
<1>4. ASSUME NEW n \in Nat
      PROVE  f[n] \in T
  BY <1>3
<1>5. f[0] = base
  BY <1>3
<1>6. ASSUME NEW n \in Nat
      PROVE  f[n + 1] = step[<<n, f[n]>>]
  <2> DEFINE g == CHOOSE g : Upto(n, g)
             h == CHOOSE h : Upto(n + 1, h)
  <2>1. Upto(n, g) /\ Upto(n + 1, h)
    <3>1. n + 1 \in Nat
      OBVIOUS
    <3> HIDE DEF Upto
    <3> QED BY <1>3, <3>1
  <2>2. f[n] = g[n] /\ f[n + 1] = h[n + 1]
    <3> HIDE DEF Upto
    <3> QED OBVIOUS
  <2> HIDE DEF g, h, f
  <2>3. g[n] = h[n]
    <3>1. n <= n /\ n <= n + 1 /\ n + 1 \in Nat
      OBVIOUS
    <3> HIDE DEF Upto
    <3> QED BY <1>2, <2>1, <3>1
  <2>4. h[n + 1] = step[<<n, h[n]>>]
    BY <2>1
  <2> QED BY <2>2, <2>3, <2>4
<1> HIDE DEF f
<1>7. f \in [Nat -> T]
  BY <1>4 DEF f
<1> QED BY <1>5, <1>6, <1>7 DEF Recurs

------------------------------------------------------------------------------
(* Arithmetic.                                                               *)
LEMMA Dividing ==
    ASSUME NEW b \in Nat \ {0}, NEW n \in Nat
    PROVE  n = b * (n \div b) + (n % b) /\ n % b \in 0 .. b - 1 /\ n \div b \in Nat
PROOF OBVIOUS

(* A quotient and a remainder are those of the number they make up.          *)
LEMMA DivisionIs ==
    ASSUME NEW b \in Nat \ {0}, NEW q \in Nat, NEW r \in 0 .. b - 1
    PROVE  (b * q + r) \div b = q /\ (b * q + r) % b = r
PROOF OBVIOUS

(* The mark of a digit does not change what it counts.                       *)
LEMMA Marked ==
    ASSUME NEW b \in Nat \ {0}, NEW r \in 0 .. b - 1
    PROVE  r % b = r /\ (r + b) % b = r
PROOF OBVIOUS

(* Division by two numbers, one after the other.                             *)
LEMMA DivideTwice ==
    ASSUME NEW b \in Nat \ {0}, NEW m \in Nat \ {0}, NEW n \in Nat
    PROVE  (n \div b) \div m = n \div (b * m)
PROOF OBVIOUS

(* Every digit that is written leaves less of the length.                    *)
LEMMA DivisionShrinks ==
    ASSUME NEW b \in Nat, b >= 2, NEW n \in Nat \ {0}
    PROVE  n \div b \in Nat /\ n \div b < n
PROOF OBVIOUS

(* The lower digits and the next one are the lower digits of the number.     *)
LEMMA NextDigit ==
    ASSUME NEW b \in Nat \ {0}, NEW m \in Nat \ {0}, NEW n \in Nat
    PROVE  n % (b * m) = (n % m) + (m * ((n \div m) % b))
PROOF
<1> DEFINE q == n \div m
           r == n % m
           c == q \div b
           d == q % b
<1>1. n = m * q + r /\ r \in 0 .. m - 1 /\ q \in Nat
  BY Dividing
<1>2. q = b * c + d /\ d \in 0 .. b - 1 /\ c \in Nat
  BY <1>1, Dividing
<1> HIDE DEF q, r, c, d
<1>3. n = (b * m) * c + (m * d + r)
  BY <1>1, <1>2
<1>4. m * d + r \in 0 .. (b * m) - 1
  <2>1. m * d <= m * (b - 1)
    BY <1>2
  <2> QED BY <1>1, <1>2, <2>1
<1>5. b * m \in Nat \ {0}
  OBVIOUS
<1>6. n % (b * m) = m * d + r
  BY <1>2, <1>3, <1>4, <1>5, DivisionIs
<1> QED BY <1>1, <1>2, <1>6 DEF q, r, d

(* The powers of the base, as Codec.tla defines them.                        *)
LEMMA MultiplierUnfolds ==
    Multiplier = [k \in Nat |-> IF k = 0 THEN 1 ELSE LengthBase * Multiplier[k - 1]]
PROOF
<1> DEFINE Solves(f) == f = [k \in Nat |-> IF k = 0 THEN 1 ELSE LengthBase * f[k - 1]]
           step == [p \in Nat \X Nat |-> LengthBase * p[2]]
<1>1. LengthBase \in Nat
  BY CodecAssumption
<1>2. step \in [Nat \X Nat -> Nat]
  BY <1>1
<1>3. PICK f \in [Nat -> Nat] : f[0] = 1 /\ \A n \in Nat : f[n + 1] = step[<<n, f[n]>>]
  <2>1. \E f : Recurs(f, Nat, 1, step)
    BY <1>2, Recursion
  <2> QED BY <2>1 DEF Recurs
<1>4. ASSUME NEW k \in Nat
      PROVE  f[k] = IF k = 0 THEN 1 ELSE LengthBase * f[k - 1]
  <2>1. CASE k = 0
    BY <1>3, <2>1
  <2>2. CASE k # 0
    <3>1. k - 1 \in Nat /\ (k - 1) + 1 = k
      BY <2>2
    <3>2. f[k] = step[<<k - 1, f[k - 1]>>]
      BY <1>3, <3>1
    <3> QED BY <2>2, <3>1, <3>2
  <2> QED BY <2>1, <2>2
<1>5. Solves(f)
  BY <1>3, <1>4
<1>6. Multiplier = CHOOSE g : Solves(g)
  BY DEF Multiplier
<1>7. Solves(CHOOSE g : Solves(g))
  <2> HIDE DEF Solves
  <2> QED BY <1>5
<1>8. Solves(Multiplier)
  <2> HIDE DEF Solves
  <2> QED BY <1>6, <1>7
<1> QED BY <1>8

(* The powers of the base. *)
LEMMA Multipliers ==
    /\ Multiplier[0] = 1
    /\ \A k \in Nat : /\ Multiplier[k] \in Nat \ {0}
                      /\ Multiplier[k + 1] = LengthBase * Multiplier[k]
                      /\ k < Multiplier[k]
PROOF
<1> DEFINE S == {k \in Nat : Multiplier[k] \in Nat \ {0} /\ k < Multiplier[k]}
<1>1. LengthBase \in Nat /\ LengthBase >= 2
  BY CodecAssumption
<1>2. Multiplier[0] = 1
  BY MultiplierUnfolds
<1>3. ASSUME NEW k \in Nat
      PROVE  Multiplier[k + 1] = LengthBase * Multiplier[k]
  <2>1. k + 1 \in Nat /\ k + 1 # 0 /\ (k + 1) - 1 = k
    OBVIOUS
  <2> QED BY <2>1, MultiplierUnfolds
<1>4. 0 \in S
  BY <1>2
<1>5. ASSUME NEW k \in Nat, k \in S
      PROVE  k + 1 \in S
  <2>1. Multiplier[k] \in Nat \ {0} /\ k < Multiplier[k]
    BY <1>5
  <2>2. LengthBase * Multiplier[k] \in Nat \ {0} /\ k + 1 < LengthBase * Multiplier[k]
    BY <1>1, <2>1
  <2> QED BY <1>3, <2>2
<1> HIDE DEF S
<1>6. \A k \in Nat : k \in S
  BY <1>4, <1>5, Induction
<1> QED BY <1>2, <1>3, <1>6 DEF S

(* The number of digits of a length, and when a number is it.                *)
LEMMA DigitsBound ==
    ASSUME NEW l \in Nat
    PROVE  /\ Digits(l) \in 1 .. l + 1
           /\ l < Multiplier[Digits(l)]
           /\ \A j \in 1 .. Digits(l) - 1 : l >= Multiplier[j]
PROOF
<1> DEFINE T == {k \in 1 .. l + 1 : l < Multiplier[k]}
<1>1. l + 1 \in T
  BY Multipliers
<1>2. PICK k \in T : \A m \in T : k <= m
  <2>1. T \in SUBSET Nat /\ T # {}
    BY <1>1
  <2> HIDE DEF T
  <2> QED BY <2>1, LeastNumber
<1>3. \A j \in 1 .. k - 1 : l >= Multiplier[j]
  BY <1>2, Multipliers
<1>4. \E n \in 1 .. l + 1 : l < Multiplier[n] /\ \A j \in 1 .. n - 1 : l >= Multiplier[j]
  BY <1>2, <1>3
<1> QED BY <1>4 DEF Digits

(* A length has at least one digit.                                          *)
LEMMA DigitsPositive ==
    ASSUME NEW l \in Nat
    PROVE  Digits(l) \in Nat \ {0}
PROOF
<1> DEFINE d == Digits(l)
<1>1. d \in 1 .. l + 1
  BY DigitsBound
<1> HIDE DEF d
<1> QED BY <1>1 DEF d

(* The only number of digits that has these bounds.                          *)
LEMMA DigitsAre ==
    ASSUME NEW l \in Nat, NEW k \in Nat \ {0}, l < Multiplier[k],
           \A j \in 1 .. k - 1 : l >= Multiplier[j]
    PROVE  Digits(l) = k
PROOF
<1> DEFINE d == Digits(l)
<1>1. d \in Nat \ {0} /\ l < Multiplier[d] /\ \A j \in 1 .. d - 1 : l >= Multiplier[j]
  BY DigitsBound, DigitsPositive
<1> HIDE DEF d
<1>2. Multiplier[d] \in Nat /\ Multiplier[k] \in Nat
  BY <1>1, Multipliers
<1>3. ~(d < k) /\ ~(k < d)
  BY <1>1, <1>2
<1> QED BY <1>1, <1>3 DEF d

(* A longer packet does not have fewer digits.                               *)
LEMMA DigitsGrow ==
    ASSUME NEW l \in Nat, NEW m \in Nat, l <= m
    PROVE  Digits(l) <= Digits(m)
PROOF
<1> DEFINE c == Digits(l)
           d == Digits(m)
<1>1. c \in Nat \ {0} /\ \A j \in 1 .. c - 1 : l >= Multiplier[j]
  BY DigitsBound
<1>2. d \in Nat \ {0} /\ m < Multiplier[d]
  BY DigitsBound
<1>3. Multiplier[d] \in Nat
  BY <1>2, Multipliers
<1> HIDE DEF c, d
<1>4. ~(d < c)
  BY <1>1, <1>2, <1>3
<1> QED BY <1>1, <1>2, <1>4 DEF c, d

(* A length below the base has one digit.                                    *)
LEMMA OneDigit ==
    ASSUME NEW l \in Nat, l < LengthBase
    PROVE  Digits(l) = 1
PROOF
<1>1. Multiplier[0 + 1] = LengthBase * Multiplier[0] /\ Multiplier[0] = 1
  BY Multipliers
<1>2. l < Multiplier[1]
  BY <1>1, CodecAssumption
<1> QED BY <1>2, DigitsAre

(* A length has one digit more than the length divided by the base.          *)
LEMMA MoreDigits ==
    ASSUME NEW l \in Nat, l >= LengthBase
    PROVE  Digits(l) = Digits(l \div LengthBase) + 1
PROOF
<1> DEFINE q == l \div LengthBase
           d == Digits(q)
<1>1. LengthBase \in Nat \ {0}
  BY CodecAssumption
<1>2. /\ q \in Nat /\ l = LengthBase * q + (l % LengthBase)
      /\ l % LengthBase \in 0 .. LengthBase - 1
  BY <1>1, Dividing
<1> HIDE DEF q
<1>3. d \in Nat \ {0} /\ q < Multiplier[d] /\ \A j \in 1 .. d - 1 : q >= Multiplier[j]
  <2>1. q \in Nat
    BY <1>2
  <2> QED BY <2>1, DigitsBound, DigitsPositive
<1> HIDE DEF d
<1>4. l < Multiplier[d + 1]
  <2>1. Multiplier[d] \in Nat /\ Multiplier[d + 1] = LengthBase * Multiplier[d]
    BY <1>3, Multipliers
  <2>2. LengthBase * (q + 1) <= LengthBase * Multiplier[d]
    BY <1>1, <1>2, <1>3, <2>1
  <2> QED BY <1>1, <1>2, <2>1, <2>2
<1>5. ASSUME NEW j \in 1 .. d
      PROVE  l >= Multiplier[j]
  <2>1. CASE j = 1
    <3>1. Multiplier[0 + 1] = LengthBase * Multiplier[0] /\ Multiplier[0] = 1
      BY Multipliers
    <3> QED BY <1>1, <2>1, <3>1
  <2>2. CASE j # 1
    <3>1. j - 1 \in 1 .. d - 1 /\ j - 1 \in Nat /\ (j - 1) + 1 = j
      BY <1>3, <2>2
    <3>2. Multiplier[j - 1] \in Nat /\ Multiplier[j] = LengthBase * Multiplier[j - 1]
      BY <3>1, Multipliers
    <3>3. q >= Multiplier[j - 1]
      BY <1>3, <3>1
    <3>4. LengthBase * q >= LengthBase * Multiplier[j - 1]
      BY <1>1, <1>2, <3>2, <3>3
    <3> QED BY <1>1, <1>2, <3>2, <3>4
  <2> QED BY <2>1, <2>2
<1>6. Digits(l) = d + 1
  <2>1. d + 1 \in Nat \ {0} /\ (d + 1) - 1 = d
    BY <1>3
  <2> QED BY <1>4, <1>5, <2>1, DigitsAre
<1> QED BY <1>6 DEF d, q

(* The bytes of a remaining length: all but the last are marked.             *)
LEMMA LengthBytes ==
    ASSUME NEW l \in Nat
    PROVE  /\ StandardLength(l) \in Seq(Byte)
           /\ Len(StandardLength(l)) = Digits(l)
           /\ \A i \in 1 .. Digits(l) :
                  /\ StandardLength(l)[i] % LengthBase = (l \div Multiplier[i - 1]) % LengthBase
                  /\ StandardLength(l)[i] >= LengthBase <=> i < Digits(l)
PROOF
<1> DEFINE d == Digits(l)
           Digit(i) == (l \div Multiplier[i - 1]) % LengthBase
<1>1. d \in Nat \ {0}
  BY DigitsBound
<1>2. LengthBase \in 2 .. 128
  BY CodecAssumption
<1>3. ASSUME NEW i \in 1 .. d
      PROVE  Digit(i) \in 0 .. LengthBase - 1
  <2>1. i - 1 \in Nat /\ Multiplier[i - 1] \in Nat \ {0}
    BY <1>1, Multipliers
  <2>2. l \div Multiplier[i - 1] \in Nat
    BY <2>1, Dividing
  <2> DEFINE q == l \div Multiplier[i - 1]
  <2>3. LengthBase \in Nat \ {0} /\ q \in Nat
    BY <1>2, <2>2
  <2> HIDE DEF q
  <2>4. q % LengthBase \in 0 .. LengthBase - 1
    BY <2>3, Dividing
  <2> QED BY <2>4 DEF q
<1> HIDE DEF Digit
<1>4. ASSUME NEW i \in 1 .. d
      PROVE  /\ StandardLength(l)[i] \in Byte
             /\ StandardLength(l)[i] % LengthBase = Digit(i)
             /\ StandardLength(l)[i] >= LengthBase <=> i < d
  <2>1. StandardLength(l)[i] = Digit(i) + (IF i < d THEN LengthBase ELSE 0)
    BY DEF StandardLength, Digit
  <2> DEFINE r == Digit(i)
  <2>2. r \in 0 .. LengthBase - 1
    BY <1>3
  <2> HIDE DEF r
  <2>3. r % LengthBase = r /\ (r + LengthBase) % LengthBase = r
    BY <1>2, <2>2, Marked
  <2>4. CASE i < d
    <3>1. StandardLength(l)[i] = r + LengthBase
      BY <2>1, <2>4 DEF r
    <3>2. r + LengthBase \in Byte /\ r + LengthBase >= LengthBase
      BY <1>2, <2>2 DEF Byte
    <3>3. (r + LengthBase) % LengthBase = Digit(i)
      BY <2>3 DEF r
    <3> QED BY <2>4, <3>1, <3>2, <3>3
  <2>5. CASE ~(i < d)
    <3>1. StandardLength(l)[i] = r
      BY <1>2, <2>1, <2>2, <2>5 DEF r
    <3>2. r \in Byte /\ ~(r >= LengthBase)
      BY <1>2, <2>2 DEF Byte
    <3>3. r % LengthBase = Digit(i)
      BY <2>3 DEF r
    <3> QED BY <2>5, <3>1, <3>2, <3>3
  <2> QED BY <2>4, <2>5
<1>5. StandardLength(l) = [i \in 1 .. d |-> StandardLength(l)[i]]
  BY DEF StandardLength
<1>6. StandardLength(l) \in Seq(Byte) /\ Len(StandardLength(l)) = d
  <2> DEFINE s == StandardLength(l)
  <2> HIDE DEF s, d
  <2>1. s = [i \in 1 .. d |-> s[i]] /\ \A i \in 1 .. d : s[i] \in Byte
    BY <1>4, <1>5 DEF s
  <2>2. s \in Seq(Byte) /\ Len(s) = d
    BY <1>1, <2>1
  <2> QED BY <2>2 DEF s
<1> QED BY <1>4, <1>6 DEF Digit

(* Two functions that start alike and go on alike are alike.                 *)
StartAndGoOnAlike(n, f, g) ==
    /\ f[0] = g[0]
    /\ \A k \in 1 .. n : f[k - 1] = g[k - 1] => f[k] = g[k]

(* They are equal at every number.                                           *)
LEMMA Alike ==
    ASSUME NEW n \in Nat, NEW f, NEW g, StartAndGoOnAlike(n, f, g)
    PROVE  \A k \in 0 .. n : f[k] = g[k]
PROOF
<1> USE DEF StartAndGoOnAlike
<1> DEFINE S == {k \in Nat : k <= n => f[k] = g[k]}
<1>1. 0 \in S
  OBVIOUS
<1>2. ASSUME NEW k \in Nat, k \in S
      PROVE  k + 1 \in S
  <2>1. CASE k + 1 <= n
    <3>1. k + 1 \in 1 .. n /\ (k + 1) - 1 = k /\ f[k] = g[k]
      BY <1>2, <2>1
    <3>2. f[k + 1] = g[k + 1]
      BY <3>1
    <3> QED BY <3>2
  <2>2. CASE ~(k + 1 <= n)
    BY <2>2
  <2> QED BY <2>1, <2>2
<1> HIDE DEF S
<1>3. \A k \in Nat : k \in S
  BY <1>1, <1>2, Induction
<1> QED BY <1>3 DEF S

(* The digits of a length count up to it again.                              *)
LEMMA LengthIsRead ==
    ASSUME NEW l \in Nat
    PROVE  LengthValue(StandardLength(l)) = l
PROOF
<1> DEFINE digits == StandardLength(l)
           n == Digits(l)
           Solves(f) == f = [k \in 0 .. Len(digits) |->
                                IF k = 0 THEN 0
                                ELSE f[k - 1] + Multiplier[k - 1] * (digits[k] % LengthBase)]
           value == CHOOSE f : Solves(f)
           read == [k \in 0 .. n |-> l % Multiplier[k]]
<1>1. n \in Nat \ {0} /\ l < Multiplier[n] /\ Len(digits) = n
  BY DigitsBound, LengthBytes
<1>2. LengthValue(digits) = value[Len(digits)]
  BY DEF LengthValue
<1>3. LengthBase \in Nat \ {0}
  BY CodecAssumption
<1>4. \A k \in Nat : Multiplier[k] \in Nat \ {0}
  BY Multipliers
<1>5. l % Multiplier[0] = 0
  BY Multipliers
<1>6. ASSUME NEW k \in 1 .. n
      PROVE  l % Multiplier[k] = (l % Multiplier[k - 1])
                                   + Multiplier[k - 1] * (digits[k] % LengthBase)
  <2> DEFINE m == Multiplier[k - 1]
  <2>1. k - 1 \in Nat /\ (k - 1) + 1 = k
    BY <1>1
  <2>2. m \in Nat \ {0} /\ Multiplier[k] = LengthBase * m
    BY <2>1, Multipliers
  <2>3. digits[k] % LengthBase = (l \div m) % LengthBase
    BY LengthBytes
  <2> HIDE DEF m, digits
  <2>4. l % (LengthBase * m) = (l % m) + (m * ((l \div m) % LengthBase))
    BY <1>3, <2>2, NextDigit
  <2> QED BY <2>2, <2>3, <2>4 DEF m
<1> HIDE DEF digits, n
<1>7. Solves(read)
  <2>1. ASSUME NEW k \in 0 .. n
        PROVE  read[k] = IF k = 0 THEN 0
                         ELSE read[k - 1] + Multiplier[k - 1] * (digits[k] % LengthBase)
    <3>1. CASE k = 0
      BY <1>5, <3>1
    <3>2. CASE k # 0
      <4>1. k \in 1 .. n /\ k - 1 \in 0 .. n
        BY <1>1, <3>2
      <4>2. read[k] = l % Multiplier[k] /\ read[k - 1] = l % Multiplier[k - 1]
        BY <4>1
      <4> HIDE DEF read
      <4> QED BY <1>6, <3>2, <4>1, <4>2
    <3> QED BY <3>1, <3>2
  <2> QED BY <1>1, <2>1
<1>8. Solves(value)
  <2> HIDE DEF Solves
  <2> QED BY <1>7
<1>9. value[n] = read[n]
  <2>1. value[0] = read[0]
    <3>1. 0 \in 0 .. Len(digits)
      BY <1>1
    <3> HIDE DEF value, read
    <3>2. value[0] = 0 /\ read[0] = 0
      BY <1>7, <1>8, <3>1
    <3> QED BY <3>2
  <2>2. ASSUME NEW k \in 1 .. n, value[k - 1] = read[k - 1]
        PROVE  value[k] = read[k]
    <3>1. k \in 0 .. Len(digits) /\ k # 0
      BY <1>1
    <3> DEFINE more == Multiplier[k - 1] * (digits[k] % LengthBase)
    <3>2. value[k] = value[k - 1] + more /\ read[k] = read[k - 1] + more
      <4> HIDE DEF value, read
      <4> QED BY <1>7, <1>8, <3>1
    <3> HIDE DEF value, read, more
    <3> QED BY <2>2, <3>2
  <2>3. n \in 0 .. n
    BY <1>1
  <2> HIDE DEF value, read
  <2>4. StartAndGoOnAlike(n, value, read)
    BY <2>1, <2>2 DEF StartAndGoOnAlike
  <2>5. \A k \in 0 .. n : value[k] = read[k]
    BY <1>1, <2>4, Alike
  <2> QED BY <2>3, <2>5
<1>10. read[n] = l
  <2>1. Multiplier[n] \in Nat \ {0}
    BY <1>1, <1>4
  <2>2. l % Multiplier[n] = l
    <3> DEFINE m == Multiplier[n]
    <3>1. m \in Nat \ {0} /\ l \in 0 .. m - 1
      BY <1>1, <2>1
    <3> HIDE DEF m
    <3>2. l % m = l
      BY <3>1, Marked
    <3> QED BY <3>2 DEF m
  <2> QED BY <1>1, <2>2
<1> QED BY <1>1, <1>2, <1>9, <1>10 DEF digits

(* The first byte of a length, and those of the length divided by the base.  *)
LEMMA LengthTail ==
    ASSUME NEW l \in Nat, l >= LengthBase
    PROVE  StandardLength(l) = <<(l % LengthBase) + LengthBase>>
                                  \o StandardLength(l \div LengthBase)
PROOF
<1> DEFINE q == l \div LengthBase
           d == Digits(q)
           s == StandardLength(q)
           r == l % LengthBase
<1>1. LengthBase \in Nat \ {0} /\ q \in Nat /\ r \in Nat
  BY CodecAssumption
<1>2. Digits(l) = d + 1 /\ d \in Nat \ {0}
  <2>1. Digits(l) = d + 1
    BY MoreDigits
  <2> HIDE DEF q
  <2>2. d \in 1 .. q + 1
    BY <1>1, DigitsBound
  <2> QED BY <1>1, <2>1, <2>2
<1>3. s \in Seq(Byte) /\ Len(s) = d
  BY <1>1, LengthBytes
<1>4. s = [i \in 1 .. d |-> ((q \div Multiplier[i - 1]) % LengthBase)
                              + (IF i < d THEN LengthBase ELSE 0)]
  BY DEF StandardLength
<1>5. StandardLength(l) = [i \in 1 .. d + 1 |-> ((l \div Multiplier[i - 1]) % LengthBase)
                              + (IF i < d + 1 THEN LengthBase ELSE 0)]
  BY <1>2 DEF StandardLength
<1>6. ASSUME NEW i \in 2 .. d + 1
      PROVE  l \div Multiplier[i - 1] = q \div Multiplier[(i - 1) - 1]
  <2> DEFINE m == Multiplier[(i - 1) - 1]
  <2>1. (i - 1) - 1 \in Nat /\ ((i - 1) - 1) + 1 = i - 1
    BY <1>2
  <2>2. m \in Nat \ {0} /\ Multiplier[i - 1] = LengthBase * m
    BY <2>1, Multipliers
  <2> HIDE DEF m
  <2>3. (l \div LengthBase) \div m = l \div (LengthBase * m)
    BY <1>1, <2>2, DivideTwice
  <2> QED BY <2>2, <2>3 DEF m
<1> DEFINE t == <<r + LengthBase>> \o s
<1>7. t \in Seq(Byte) /\ Len(t) = d + 1
  <2>1. r + LengthBase \in Byte
    BY CodecAssumption DEF Byte
  <2> HIDE DEF s, d, r
  <2> QED BY <1>2, <1>3, <2>1
<1>8. ASSUME NEW i \in 1 .. d + 1
      PROVE  t[i] = StandardLength(l)[i]
  <2>1. CASE i = 1
    <3>1. t[1] = r + LengthBase
      <4> HIDE DEF s, r
      <4> QED BY <1>1, <1>3
    <3>2. l \div Multiplier[0] = l
      BY Multipliers
    <3>3. StandardLength(l)[1] = ((l \div Multiplier[0]) % LengthBase)
                              + (IF 1 < d + 1 THEN LengthBase ELSE 0)
      BY <1>2, <1>5
    <3> HIDE DEF t, d
    <3> QED BY <1>2, <2>1, <3>1, <3>2, <3>3 DEF r
  <2>2. CASE i # 1
    <3>1. i \in 2 .. d + 1 /\ i - 1 \in 1 .. d /\ (i < d + 1 <=> i - 1 < d)
      BY <1>2, <2>2
    <3>2. t[i] = s[i - 1]
      <4> HIDE DEF s, r, d
      <4> QED BY <1>1, <1>2, <1>3, <3>1
    <3>3. s[i - 1] = ((q \div Multiplier[(i - 1) - 1]) % LengthBase)
                              + (IF i - 1 < d THEN LengthBase ELSE 0)
      BY <1>4, <3>1
    <3>4. StandardLength(l)[i] = ((l \div Multiplier[i - 1]) % LengthBase)
                              + (IF i < d + 1 THEN LengthBase ELSE 0)
      BY <1>5
    <3> HIDE DEF t, s, q, d
    <3> QED BY <1>6, <3>1, <3>2, <3>3, <3>4
  <2> QED BY <2>1, <2>2
<1>9. t = [i \in 1 .. d + 1 |-> t[i]] /\ StandardLength(l) = [i \in 1 .. d + 1 |-> StandardLength(l)[i]]
  <2> HIDE DEF t, d
  <2> QED BY <1>2, <1>5, <1>7
<1> HIDE DEF t, d
<1>10. t = StandardLength(l)
  BY <1>8, <1>9
<1> QED BY <1>10 DEF t

(* encode_remaining_length writes these digits.                              *)
LEMMA LengthIsWritten ==
    ASSUME NEW l \in Nat
    PROVE  encode_remaining_length[l] = StandardLength(l)
PROOF
<1> DEFINE Solves(f) == f = [n \in Nat |->
                                IF n < LengthBase THEN <<n>>
                                ELSE <<(n % LengthBase) + LengthBase>> \o f[n \div LengthBase]]
           bytes == [n \in Nat |-> StandardLength(n)]
<1>1. LengthBase \in Nat /\ LengthBase >= 2
  BY CodecAssumption
<1>2. ASSUME NEW n \in Nat
      PROVE  bytes[n] = IF n < LengthBase THEN <<n>>
                        ELSE <<(n % LengthBase) + LengthBase>> \o bytes[n \div LengthBase]
  <2>1. CASE n < LengthBase
    <3>1. Digits(n) = 1
      BY <2>1, OneDigit
    <3>2. (n \div Multiplier[0]) % LengthBase = n
      <4>1. n \div Multiplier[0] = n
        BY Multipliers
      <4>2. n % LengthBase = n
        BY <1>1, <2>1, Marked
      <4> QED BY <4>1, <4>2
    <3>3. StandardLength(n) = [i \in 1 .. 1 |-> n]
      <4>1. \A i \in 1 .. 1 : i - 1 = 0 /\ ~(i < 1)
        OBVIOUS
      <4> QED BY <3>1, <3>2, <4>1 DEF StandardLength
    <3> QED BY <2>1, <3>3
  <2>2. CASE ~(n < LengthBase)
    <3>1. n \div LengthBase \in Nat
      BY <1>1, Dividing
    <3>2. StandardLength(n) = <<(n % LengthBase) + LengthBase>>
                                  \o StandardLength(n \div LengthBase)
      <4>1. n >= LengthBase
        BY <1>1, <2>2
      <4> QED BY <4>1, LengthTail
    <3> QED BY <2>2, <3>1, <3>2
  <2> QED BY <2>1, <2>2
<1>3. Solves(bytes)
  BY <1>2
<1>4. Solves(encode_remaining_length)
  <2>1. encode_remaining_length = CHOOSE f : Solves(f)
    BY DEF encode_remaining_length
  <2>2. Solves(CHOOSE f : Solves(f))
    <3> HIDE DEF Solves
    <3> QED BY <1>3
  <2> HIDE DEF Solves
  <2> QED BY <2>1, <2>2
<1> DEFINE wrong == {n \in Nat : encode_remaining_length[n] # bytes[n]}
<1> SUFFICES ASSUME wrong # {}
             PROVE  FALSE
  OBVIOUS
<1>5. PICK n \in wrong : \A m \in wrong : n <= m
  <2>1. wrong \in SUBSET Nat
    OBVIOUS
  <2> HIDE DEF wrong
  <2> QED BY <2>1, LeastNumber
<1>6. n \in Nat /\ encode_remaining_length[n] # bytes[n]
  OBVIOUS
<1> HIDE DEF bytes
<1>7. n >= LengthBase
  BY <1>1, <1>2, <1>4, <1>6
<1>8. n \div LengthBase \in Nat /\ n \div LengthBase < n
  BY <1>1, <1>6, <1>7, DivisionShrinks
<1>9. encode_remaining_length[n \div LengthBase] = bytes[n \div LengthBase]
  BY <1>5, <1>6, <1>8
<1> QED BY <1>1, <1>2, <1>4, <1>6, <1>7, <1>9

------------------------------------------------------------------------------

(* A byte as a number with a bound.                                          *)
LEMMA ByteIs ==
    ASSUME NEW x
    PROVE  x \in Byte <=> x \in Nat /\ x <= 255
PROOF BY DEF Byte

(* What is appended to a string is cut off it again.                         *)
LEMMA Cut ==
    ASSUME NEW T, NEW a \in Seq(T), NEW b \in Seq(T)
    PROVE  /\ a \o b \in Seq(T)
           /\ Len(a \o b) = Len(a) + Len(b)
           /\ SubSeq(a \o b, 1, Len(a)) = a
           /\ SubSeq(a \o b, Len(a) + 1, Len(a \o b)) = b
PROOF
<1> DEFINE c == a \o b
           n == Len(a)
           m == Len(b)
<1>1. c \in Seq(T) /\ Len(c) = n + m
  OBVIOUS
<1>2. \A i \in 1 .. n : c[i] = a[i]
  OBVIOUS
<1>3. \A i \in 1 .. m : c[n + i] = b[i]
  OBVIOUS
<1>4. n \in Nat /\ m \in Nat /\ a \in [1 .. n -> T] /\ b \in [1 .. m -> T]
  OBVIOUS
<1>5. SubSeq(c, 1, n) = a
  <2> HIDE DEF c
  <2>1. SubSeq(c, 1, n) = [i \in 1 .. n |-> c[i]]
    OBVIOUS
  <2> QED BY <1>2, <1>4, <2>1
<1>6. SubSeq(c, n + 1, n + m) = b
  <2> HIDE DEF c, n, m
  <2>1. SubSeq(c, n + 1, n + m) = [i \in 1 .. m |-> c[n + i]]
    BY <1>1, <1>4
  <2> QED BY <1>3, <1>4, <2>1
<1> QED BY <1>1, <1>5, <1>6

(* A sequence with an element more at the front.                             *)
LEMMA Prepended ==
    ASSUME NEW T, NEW x \in T, NEW s \in Seq(T)
    PROVE  /\ <<x>> \o s \in Seq(T)
           /\ <<x>> \o s # <<>>
           /\ (<<x>> \o s)[1] = x
           /\ Tail(<<x>> \o s) = s
           /\ Len(<<x>> \o s) = 1 + Len(s)
PROOF
<1> DEFINE t == <<x>> \o s
<1>1. t \in Seq(T) /\ Len(t) = 1 + Len(s) /\ t[1] = x /\ \A i \in 1 .. Len(s) : t[i + 1] = s[i]
  OBVIOUS
<1>2. t # <<>>
  BY <1>1
<1>3. Tail(t) = s
  <2> HIDE DEF t
  <2>1. Tail(t) \in Seq(T) /\ Len(Tail(t)) = Len(s) /\ \A i \in 1 .. Len(Tail(t)) : Tail(t)[i] = t[i + 1]
    BY <1>1, <1>2, HeadTailProperties
  <2>2. \A i \in 1 .. Len(s) : Tail(t)[i] = s[i]
    BY <1>1, <2>1
  <2> QED BY <2>1, <2>2, SeqEqual
<1> QED BY <1>1, <1>2, <1>3

(* The bytes of a remaining length are read as the length.                   *)
LEMMA LengthIsDecoded ==
    ASSUME NEW l \in Nat, Digits(l) <= MaxLengthBytes, NEW more \in Seq(Byte)
    PROVE  decode_remaining_length(StandardLength(l) \o more) = Ok(l, more)
PROOF
<1> DEFINE s == StandardLength(l)
           d == Digits(l)
           src == s \o more
<1>1. d \in Nat \ {0} /\ d <= MaxLengthBytes /\ MaxLengthBytes \in Nat
  <2>1. d \in Nat \ {0}
    BY DigitsPositive
  <2> QED BY <2>1, CodecAssumption
<1>2. /\ s \in Seq(Byte) /\ Len(s) = d
      /\ \A i \in 1 .. d : s[i] >= LengthBase <=> i < d
  BY LengthBytes
<1>3. LengthValue(s) = l
  BY LengthIsRead
<1> HIDE DEF s, d
<1>4. /\ src \in Seq(Byte) /\ Len(src) = d + Len(more)
      /\ SubSeq(src, 1, d) = s /\ SubSeq(src, d + 1, Len(src)) = more
  <2>1. /\ src \in Seq(Byte) /\ Len(src) = Len(s) + Len(more)
        /\ SubSeq(src, 1, Len(s)) = s /\ SubSeq(src, Len(s) + 1, Len(src)) = more
    <3>1. s \in Seq(Byte)
      BY <1>2
    <3> QED BY <3>1, Cut
  <2> QED BY <1>2, <2>1
<1>5. \A i \in 1 .. d : src[i] = s[i]
  BY <1>2
<1> HIDE DEF src
<1>6. \A i \in 1 .. d : src[i] \in Nat /\ (src[i] >= LengthBase <=> i < d)
  <2>1. \A i \in 1 .. d : s[i] \in Byte
    BY <1>2
  <2>2. \A i \in 1 .. d : s[i] \in Nat
    BY <2>1, ByteIs
  <2> QED BY <1>2, <1>5, <2>2
<1>7. LengthSize(src) = {d}
  <2>1. d \in LengthSize(src)
    BY <1>1, <1>4, <1>6, CodecAssumption DEF LengthSize
  <2>2. ASSUME NEW k \in LengthSize(src)
        PROVE  k = d
    <3>1. /\ k \in Nat \ {0} /\ k <= Len(src) /\ src[k] < LengthBase
          /\ \A i \in 1 .. k - 1 : src[i] >= LengthBase
      BY <1>1 DEF LengthSize
    <3>2. ~(k < d)
      BY <1>1, <1>6, <3>1, CodecAssumption
    <3>3. ~(d < k)
      <4>1. d \in 1 .. d /\ ~(src[d] >= LengthBase)
        BY <1>1, <1>6
      <4> QED BY <1>1, <3>1, <4>1
    <3> QED BY <1>1, <3>1, <3>2, <3>3
  <2> QED BY <2>1, <2>2
<1>8. decode_remaining_length(src) =
        Ok(LengthValue(SubSeq(src, 1, d)), SubSeq(src, d + 1, Len(src)))
  BY <1>7 DEF decode_remaining_length
<1> QED BY <1>3, <1>4, <1>8 DEF src, s

(* A remaining length that is cut off is an error.                           *)
LEMMA LengthIsCutOff ==
    ASSUME NEW src \in Seq(Byte), \A i \in 1 .. Len(src) : src[i] >= LengthBase
    PROVE  decode_remaining_length(src) = {}
PROOF
<1>1. \A i \in 1 .. Len(src) : ~(src[i] < LengthBase)
  <2>1. \A i \in 1 .. Len(src) : src[i] \in Byte
    OBVIOUS
  <2>2. \A i \in 1 .. Len(src) : src[i] \in Nat
    BY <2>1, ByteIs
  <2> QED BY <2>2, CodecAssumption
<1>2. LengthSize(src) = {}
  BY <1>1, CodecAssumption DEF LengthSize
<1> QED BY <1>2 DEF decode_remaining_length

------------------------------------------------------------------------------
(* The readers, on the bytes that the standard writes.                       *)
LEMMA OkIs ==
    ASSUME NEW v, NEW r
    PROVE  \E a : a.value = v /\ a.rest = r /\ Ok(v, r) = {a}
PROOF BY DEF Ok

(* A string at the front is read, and the rest is left.                      *)
LEMMA ReadExact ==
    ASSUME NEW a \in Seq(Byte), NEW more \in Seq(Byte)
    PROVE  inner_read_exact(a \o more, Len(a)) = Ok(a, more)
PROOF
<1> DEFINE src == a \o more
<1>1. /\ src \in Seq(Byte) /\ Len(src) = Len(a) + Len(more)
      /\ SubSeq(src, 1, Len(a)) = a /\ SubSeq(src, Len(a) + 1, Len(src)) = more
  BY Cut
<1> HIDE DEF src
<1>2. ~(Len(src) < Len(a))
  BY <1>1
<1>3. inner_read_exact(src, Len(a)) = Ok(a, more)
  BY <1>1, <1>2 DEF inner_read_exact
<1> QED BY <1>3 DEF src

(* A string is read to its end.                                              *)
LEMMA ReadAll ==
    ASSUME NEW a \in Seq(Byte)
    PROVE  inner_read_exact(a, Len(a)) = Ok(a, <<>>)
PROOF
<1>1. a \o <<>> = a /\ <<>> \in Seq(Byte)
  OBVIOUS
<1>2. inner_read_exact(a \o <<>>, Len(a)) = Ok(a, <<>>)
  BY <1>1, ReadExact
<1> QED BY <1>1, <1>2

(* A byte at the front is read.                                              *)
LEMMA ReadU8 ==
    ASSUME NEW x \in Byte, NEW more \in Seq(Byte)
    PROVE  inner_read_u8(<<x>> \o more) = Ok(x, more)
PROOF
<1> DEFINE a == <<x>>
<1>1. a \in Seq(Byte) /\ Len(a) = 1 /\ a[1] = x
  OBVIOUS
<1> HIDE DEF a
<1>2. inner_read_exact(a \o more, Len(a)) = Ok(a, more)
  BY <1>1, ReadExact
<1>3. PICK r : r.value = a /\ r.rest = more /\ Ok(a, more) = {r}
  BY OkIs
<1>4. inner_read_u8(a \o more) = Ok(x, more)
  BY <1>1, <1>2, <1>3 DEF inner_read_u8
<1> QED BY <1>4 DEF a

(* The two bytes of a number make it up.                                     *)
LEMMA TwoBytesFacts ==
    ASSUME NEW n \in Nat, n <= 65535
    PROVE  /\ TwoBytes(n) \in Seq(Byte) /\ Len(TwoBytes(n)) = 2
           /\ TwoBytes(n)[1] * 256 + TwoBytes(n)[2] = n
PROOF
<1> DEFINE h == n \div 256
           l == n % 256
<1>1. h \in Nat /\ h <= 255 /\ l \in Nat /\ l <= 255 /\ h * 256 + l = n
  OBVIOUS
<1>2. TwoBytes(n) = <<h, l>>
  BY DEF TwoBytes
<1> HIDE DEF h, l
<1>3. h \in Byte /\ l \in Byte
  BY <1>1, ByteIs
<1> QED BY <1>1, <1>2, <1>3

(* A number of two bytes at the front is read.                               *)
LEMMA ReadU16 ==
    ASSUME NEW n \in Nat, n <= 65535, NEW more \in Seq(Byte)
    PROVE  inner_read_u16(TwoBytes(n) \o more) = Ok(n, more)
PROOF
<1> DEFINE a == TwoBytes(n)
<1>1. a \in Seq(Byte) /\ Len(a) = 2 /\ a[1] * 256 + a[2] = n
  BY TwoBytesFacts
<1> HIDE DEF a
<1>2. inner_read_exact(a \o more, Len(a)) = Ok(a, more)
  <2>1. a \in Seq(Byte)
    BY <1>1
  <2> QED BY <2>1, ReadExact
<1>3. PICK r : r.value = a /\ r.rest = more /\ Ok(a, more) = {r}
  BY OkIs
<1>4. inner_read_u16(a \o more) = Ok(n, more)
  BY <1>1, <1>2, <1>3 DEF inner_read_u16
<1> QED BY <1>4 DEF a

(* A string with its length in front.                                        *)
LEMMA PrefixedFacts ==
    ASSUME NEW x \in Binary
    PROVE  /\ x \in Seq(Byte) /\ Len(x) \in Nat /\ Len(x) <= 65535
           /\ TwoBytes(Len(x)) \in Seq(Byte)
           /\ Prefixed(x) \in Seq(Byte) /\ Len(Prefixed(x)) = 2 + Len(x)
PROOF
<1> DEFINE n == Len(x)
           two == TwoBytes(n)
<1>1. x \in Seq(Byte) /\ n \in Nat /\ n <= 65535
  BY DEF Binary
<1> HIDE DEF n
<1>2. two \in Seq(Byte) /\ Len(two) = 2
  BY <1>1, TwoBytesFacts
<1>3. Prefixed(x) = two \o x
  BY DEF Prefixed, n
<1> HIDE DEF two
<1>4. Prefixed(x) \in Seq(Byte) /\ Len(Prefixed(x)) = 2 + Len(x)
  <2>1. x \in Seq(Byte) /\ two \in Seq(Byte)
    BY <1>1, <1>2
  <2>2. two \o x \in Seq(Byte) /\ Len(two \o x) = Len(two) + Len(x)
    BY <2>1, Cut
  <2> QED BY <1>2, <1>3, <2>2
<1> QED BY <1>1, <1>2, <1>4 DEF n, two

(* A string with its length in front is read.                                *)
LEMMA ReadBinary ==
    ASSUME NEW x \in Binary, NEW more \in Seq(Byte)
    PROVE  read_binary(Prefixed(x) \o more) = Ok(x, more)
PROOF
<1> DEFINE n == Len(x)
           two == TwoBytes(n)
           tail == x \o more
           src == Prefixed(x) \o more
<1>1. x \in Seq(Byte) /\ n \in Nat /\ n <= 65535 /\ two \in Seq(Byte) /\ tail \in Seq(Byte)
  BY PrefixedFacts
<1>2. src = two \o tail
  <2> HIDE DEF two, n
  <2>1. (two \o x) \o more = two \o (x \o more)
    BY <1>1, ConcatAssociative
  <2> QED BY <2>1 DEF Prefixed, two, n
<1>3. inner_read_exact(tail, n) = Ok(x, more)
  BY <1>1, ReadExact
<1> HIDE DEF n, tail
<1>4. inner_read_u16(two \o tail) = Ok(n, tail)
  BY <1>1, ReadU16
<1> HIDE DEF src, two
<1>5. PICK r : r.value = n /\ r.rest = tail /\ Ok(n, tail) = {r}
  BY OkIs
<1>6. read_binary(src) = Ok(x, more)
  BY <1>2, <1>3, <1>4, <1>5 DEF read_binary
<1> QED BY <1>6 DEF src

(* One whose bytes all occur in UTF-8 is read as text.                       *)
LEMMA ReadText ==
    ASSUME NEW x \in Text, NEW more \in Seq(Byte)
    PROVE  read_utf8_string(Prefixed(x) \o more) = Ok(x, more)
PROOF
<1> DEFINE src == Prefixed(x) \o more
<1>1. x \in Binary /\ \A i \in DOMAIN x : x[i] < 248
  BY DEF Text
<1>2. read_binary(src) = Ok(x, more)
  BY <1>1, ReadBinary
<1> HIDE DEF src
<1>3. PICK r : r.value = x /\ r.rest = more /\ Ok(x, more) = {r}
  BY OkIs
<1>4. read_utf8_string(src) = Ok(x, more)
  BY <1>1, <1>2, <1>3 DEF read_utf8_string
<1> QED BY <1>4 DEF src

------------------------------------------------------------------------------
(* f gives what the first strings of seqs are together.                      *)
Joins(f, T, seqs) ==
    /\ f \in [0 .. Len(seqs) -> Seq(T)] /\ f[0] = <<>>
    /\ \A i \in 1 .. Len(seqs) : f[i] = f[i - 1] \o seqs[i]

(* There is such a function.                                                 *)
LEMMA JoinsExist ==
    ASSUME NEW T, NEW seqs \in Seq(Seq(T))
    PROVE  \E f : Joins(f, T, seqs)
PROOF
<1> DEFINE n == Len(seqs)
           step == [p \in Nat \X Seq(T) |-> IF p[1] < n THEN p[2] \o seqs[p[1] + 1] ELSE p[2]]
<1>1. n \in Nat /\ \A i \in 1 .. n : seqs[i] \in Seq(T)
  OBVIOUS
<1>2. <<>> \in Seq(T)
  OBVIOUS
<1>3. step \in [Nat \X Seq(T) -> Seq(T)]
  <2>1. ASSUME NEW p \in Nat \X Seq(T)
        PROVE  (IF p[1] < n THEN p[2] \o seqs[p[1] + 1] ELSE p[2]) \in Seq(T)
    <3>1. p[1] \in Nat /\ p[2] \in Seq(T)
      OBVIOUS
    <3>2. CASE p[1] < n
      <4>1. p[1] + 1 \in 1 .. n
        BY <1>1, <3>1, <3>2
      <4>2. seqs[p[1] + 1] \in Seq(T)
        BY <1>1, <4>1
      <4> QED BY <3>1, <3>2, <4>2, Cut
    <3>3. CASE ~(p[1] < n)
      BY <3>1, <3>3
    <3> QED BY <3>2, <3>3
  <2> HIDE DEF n
  <2> QED BY <2>1
<1>4. PICK g : Recurs(g, Seq(T), <<>>, step)
  <2> HIDE DEF step
  <2> QED BY <1>2, <1>3, Recursion
<1> DEFINE f == [i \in 0 .. n |-> g[i]]
<1>5. f \in [0 .. n -> Seq(T)] /\ f[0] = <<>>
  <2>1. g \in [Nat -> Seq(T)] /\ g[0] = <<>>
    BY <1>4 DEF Recurs
  <2>2. 0 \in 0 .. n /\ \A i \in 0 .. n : i \in Nat
    BY <1>1
  <2> HIDE DEF n
  <2> QED BY <2>1, <2>2
<1>6. ASSUME NEW i \in 1 .. n
      PROVE  f[i] = f[i - 1] \o seqs[i]
  <2>1. i - 1 \in Nat /\ (i - 1) + 1 = i /\ i - 1 < n /\ i \in 0 .. n /\ i - 1 \in 0 .. n
    BY <1>1
  <2>2. g[(i - 1) + 1] = step[<<i - 1, g[i - 1]>>] /\ g[i - 1] \in Seq(T)
    <3> HIDE DEF step
    <3> QED BY <1>4, <2>1 DEF Recurs
  <2>3. step[<<i - 1, g[i - 1]>>] = g[i - 1] \o seqs[(i - 1) + 1]
    <3> DEFINE j == i - 1
               h == g[j]
    <3>1. j \in Nat /\ h \in Seq(T) /\ j < n
      BY <2>1, <2>2
    <3> HIDE DEF j, h, n
    <3>2. step[<<j, h>>] = h \o seqs[j + 1]
      BY <3>1
    <3> QED BY <3>2 DEF j, h
  <2>4. f[i] = g[i] /\ f[i - 1] = g[i - 1]
    BY <2>1
  <2> HIDE DEF f, step
  <2> QED BY <2>1, <2>2, <2>3, <2>4
<1> HIDE DEF f
<1> QED BY <1>5, <1>6 DEF Joins

(* FlattenSeq is its last value.                                             *)
LEMMA FlattenIs ==
    ASSUME NEW T, NEW seqs \in Seq(Seq(T)), NEW f, Joins(f, T, seqs)
    PROVE  FlattenSeq(seqs) = f[Len(seqs)]
PROOF
<1> DEFINE n == Len(seqs)
           Solves(g) == g = [i \in 1 .. Len(seqs) |-> IF i = 1 THEN seqs[i] ELSE g[i - 1] \o seqs[i]]
           flatten == CHOOSE g : Solves(g)
           h == [i \in 1 .. n |-> f[i]]
<1>1. n \in Nat
  OBVIOUS
<1>2. CASE n = 0
  <2>1. seqs = <<>>
    BY <1>2
  <2> QED BY <1>2, <2>1 DEF FlattenSeq, Joins
<1>3. CASE n # 0
  <2>1. Solves(h)
    <3>1. ASSUME NEW i \in 1 .. n
          PROVE  h[i] = IF i = 1 THEN seqs[i] ELSE h[i - 1] \o seqs[i]
      <4>1. f[i] = f[i - 1] \o seqs[i] /\ seqs[i] \in Seq(T) /\ f[0] = <<>>
        BY DEF Joins
      <4>2. CASE i = 1
        <5>1. i - 1 = 0
          BY <4>2
        <5>2. f[i] = <<>> \o seqs[i]
          BY <4>1, <5>1
        <5> QED BY <4>1, <4>2, <5>2, ConcatEmptySeq
      <4>3. CASE i # 1
        <5>1. i - 1 \in 1 .. n
          BY <1>1, <4>3
        <5>2. h[i - 1] = f[i - 1] /\ h[i] = f[i]
          BY <5>1
        <5> HIDE DEF h
        <5> QED BY <4>1, <4>3, <5>2
      <4> QED BY <4>2, <4>3
    <3> QED BY <3>1
  <2>2. Solves(flatten)
    <3> HIDE DEF Solves
    <3> QED BY <2>1
  <2>3. StartAndGoOnAlike(n - 1, [k \in 0 .. n - 1 |-> flatten[k + 1]], [k \in 0 .. n - 1 |-> h[k + 1]])
    <3> DEFINE a == [k \in 0 .. n - 1 |-> flatten[k + 1]]
               b == [k \in 0 .. n - 1 |-> h[k + 1]]
    <3>1. a[0] = b[0]
      <4>1. 0 \in 0 .. n - 1 /\ 1 \in 1 .. Len(seqs)
        BY <1>1, <1>3
      <4>2. flatten[1] = seqs[1] /\ h[1] = seqs[1]
        <5> HIDE DEF flatten, h
        <5> QED BY <2>1, <2>2, <4>1
      <4> QED BY <4>1, <4>2
    <3>2. ASSUME NEW k \in 1 .. n - 1, a[k - 1] = b[k - 1]
          PROVE  a[k] = b[k]
      <4>1. k + 1 \in 1 .. Len(seqs) /\ k + 1 # 1 /\ (k + 1) - 1 = k /\ (k - 1) + 1 = k
            /\ k \in 0 .. n - 1 /\ k - 1 \in 0 .. n - 1
        BY <1>1
      <4>2. flatten[k + 1] = flatten[k] \o seqs[k + 1] /\ h[k + 1] = h[k] \o seqs[k + 1]
        <5> HIDE DEF flatten, h
        <5> QED BY <2>1, <2>2, <4>1
      <4>3. a[k - 1] = flatten[k] /\ b[k - 1] = h[k] /\ a[k] = flatten[k + 1] /\ b[k] = h[k + 1]
        <5> HIDE DEF flatten, h
        <5> QED BY <4>1
      <4> HIDE DEF a, b, flatten, h
      <4> QED BY <3>2, <4>2, <4>3
    <3> HIDE DEF a, b
    <3>3. StartAndGoOnAlike(n - 1, a, b)
      BY <3>1, <3>2 DEF StartAndGoOnAlike
    <3> QED BY <3>3 DEF a, b
  <2>4. flatten[n] = h[n]
    <3> DEFINE a == [k \in 0 .. n - 1 |-> flatten[k + 1]]
               b == [k \in 0 .. n - 1 |-> h[k + 1]]
    <3>1. n - 1 \in Nat /\ n - 1 \in 0 .. n - 1 /\ (n - 1) + 1 = n
      BY <1>1, <1>3
    <3> HIDE DEF flatten, h
    <3>2. a[n - 1] = flatten[n] /\ b[n - 1] = h[n]
      BY <3>1
    <3> HIDE DEF a, b
    <3>3. StartAndGoOnAlike(n - 1, a, b)
      BY <2>3 DEF a, b
    <3>4. a[n - 1] = b[n - 1]
      BY <3>1, <3>3, Alike
    <3> QED BY <3>2, <3>4
  <2>5. h[n] = f[n]
    BY <1>1, <1>3
  <2>6. FlattenSeq(seqs) = flatten[n]
    BY <1>3 DEF FlattenSeq
  <2> QED BY <2>4, <2>5, <2>6
<1> QED BY <1>2, <1>3

(* No strings are nothing, and strings are a string.                         *)
LEMMA FlattenFacts ==
    ASSUME NEW T, NEW seqs \in Seq(Seq(T))
    PROVE  /\ FlattenSeq(seqs) \in Seq(T)
           /\ seqs = <<>> => FlattenSeq(seqs) = <<>>
PROOF
<1>1. PICK f : Joins(f, T, seqs)
  BY JoinsExist
<1>2. FlattenSeq(seqs) = f[Len(seqs)]
  BY <1>1, FlattenIs
<1>3. Len(seqs) \in 0 .. Len(seqs) /\ (seqs = <<>> => Len(seqs) = 0)
  OBVIOUS
<1> QED BY <1>1, <1>2, <1>3 DEF Joins

(* A string more at the end.                                                 *)
LEMMA FlattenAppend ==
    ASSUME NEW T, NEW seqs \in Seq(Seq(T)), NEW x \in Seq(T)
    PROVE  FlattenSeq(Append(seqs, x)) = FlattenSeq(seqs) \o x
PROOF
<1> DEFINE n == Len(seqs)
           more == Append(seqs, x)
<1>1. PICK f : Joins(f, T, seqs)
  BY JoinsExist
<1>2. FlattenSeq(seqs) = f[n]
  BY <1>1, FlattenIs
<1>3. /\ n \in Nat /\ more \in Seq(Seq(T)) /\ Len(more) = n + 1 /\ more[n + 1] = x
      /\ \A i \in 1 .. n : more[i] = seqs[i]
  OBVIOUS
<1>4. f \in [0 .. n -> Seq(T)] /\ f[0] = <<>> /\ \A i \in 1 .. n : f[i] = f[i - 1] \o seqs[i]
  BY <1>1 DEF Joins
<1>5. f[n] \in Seq(T) /\ f[n] \o x \in Seq(T)
  BY <1>3, <1>4, Cut
<1> DEFINE g == [i \in 0 .. n + 1 |-> IF i <= n THEN f[i] ELSE f[n] \o x]
<1>6. g \in [0 .. n + 1 -> Seq(T)] /\ g[0] = <<>> /\ g[n + 1] = f[n] \o x /\ g[n] = f[n]
  <2>1. n \in Nat
    BY <1>3
  <2> HIDE DEF n, more
  <2>2. \A i \in 0 .. n + 1 : i <= n => f[i] \in Seq(T)
    BY <1>4, <2>1
  <2> DEFINE last == f[n] \o x
  <2>3. last \in Seq(T)
    BY <1>5
  <2> HIDE DEF last
  <2>4. g = [i \in 0 .. n + 1 |-> IF i <= n THEN f[i] ELSE last]
    BY DEF last
  <2>5. \A i \in 0 .. n + 1 : (IF i <= n THEN f[i] ELSE last) \in Seq(T)
    BY <2>2, <2>3
  <2>6. g \in [0 .. n + 1 -> Seq(T)]
    BY <2>4, <2>5
  <2>7. 0 \in 0 .. n + 1 /\ n \in 0 .. n + 1 /\ n + 1 \in 0 .. n + 1 /\ 0 <= n /\ n <= n /\ ~(n + 1 <= n)
    BY <2>1
  <2>8. g[0] = f[0] /\ g[n] = f[n] /\ g[n + 1] = last
    BY <2>4, <2>7
  <2> HIDE DEF g
  <2> QED BY <1>4, <2>6, <2>8 DEF last
<1>7. ASSUME NEW i \in 1 .. n + 1
      PROVE  g[i] = g[i - 1] \o more[i]
  <2>1. CASE i <= n
    <3>1. g[i] = f[i] /\ g[i - 1] = f[i - 1] /\ i \in 1 .. n
      BY <1>3, <2>1
    <3> HIDE DEF g, n, more
    <3> QED BY <1>3, <1>4, <3>1
  <2>2. CASE ~(i <= n)
    <3>1. i = n + 1 /\ i - 1 = n
      BY <1>3, <2>2
    <3> HIDE DEF g, n, more
    <3> QED BY <1>3, <1>6, <3>1
  <2> QED BY <2>1, <2>2
<1> HIDE DEF g, n, more
<1>8. Joins(g, T, more)
  BY <1>3, <1>6, <1>7 DEF Joins
<1>9. FlattenSeq(more) = g[Len(more)]
  BY <1>3, <1>8, FlattenIs
<1> QED BY <1>2, <1>3, <1>6, <1>9 DEF more

(* A string more at the front.                                               *)
LEMMA FlattenPrepend ==
    ASSUME NEW T, NEW seqs \in Seq(Seq(T)), NEW x \in Seq(T)
    PROVE  FlattenSeq(<<x>> \o seqs) = x \o FlattenSeq(seqs)
PROOF
<1> DEFINE n == Len(seqs)
           more == <<x>> \o seqs
<1>1. PICK f : Joins(f, T, seqs)
  BY JoinsExist
<1>2. FlattenSeq(seqs) = f[n]
  BY <1>1, FlattenIs
<1>3. /\ n \in Nat /\ more \in Seq(Seq(T)) /\ Len(more) = n + 1 /\ more[1] = x
      /\ \A i \in 1 .. n : more[i + 1] = seqs[i]
  OBVIOUS
<1>4. f \in [0 .. n -> Seq(T)] /\ f[0] = <<>> /\ \A i \in 1 .. n : f[i] = f[i - 1] \o seqs[i]
  BY <1>1 DEF Joins
<1> HIDE DEF n, more
<1>5. \A s \in Seq(T) : x \o s \in Seq(T)
  BY Cut
<1> DEFINE g == [i \in 0 .. n + 1 |-> IF i = 0 THEN <<>> ELSE x \o f[i - 1]]
<1>6. g \in [0 .. n + 1 -> Seq(T)] /\ g[0] = <<>> /\ g[n + 1] = x \o f[n]
  <2>1. \A i \in 0 .. n + 1 : i # 0 => x \o f[i - 1] \in Seq(T)
    <3>1. \A i \in 0 .. n + 1 : i # 0 => f[i - 1] \in Seq(T)
      BY <1>3, <1>4
    <3> QED BY <1>5, <3>1
  <2>2. <<>> \in Seq(T)
    OBVIOUS
  <2>3. (n + 1) - 1 = n /\ n + 1 # 0 /\ n + 1 \in 0 .. n + 1 /\ 0 \in 0 .. n + 1
    BY <1>3
  <2>4. g \in [0 .. n + 1 -> Seq(T)]
    BY <2>1, <2>2
  <2>5. g[0] = <<>>
    BY <2>3
  <2>6. g[n + 1] = x \o f[(n + 1) - 1]
    BY <2>3
  <2> QED BY <2>3, <2>4, <2>5, <2>6
<1>7. ASSUME NEW i \in 1 .. n + 1
      PROVE  g[i] = g[i - 1] \o more[i]
  <2>1. CASE i = 1
    <3>1. g[1] = x \o f[0] /\ g[0] = <<>>
      BY <1>3
    <3>2. x \o <<>> = x /\ <<>> \o x = x
      BY ConcatEmptySeq
    <3>3. i - 1 = 0
      BY <2>1
    <3> HIDE DEF g
    <3> QED BY <1>3, <1>4, <2>1, <3>1, <3>2, <3>3
  <2>2. CASE i # 1
    <3>1. i - 1 \in 1 .. n /\ (i - 1) + 1 = i /\ i - 1 # 0 /\ i \in 0 .. n + 1 /\ i - 1 \in 0 .. n + 1 /\ i # 0
      BY <1>3, <2>2
    <3>2. g[i] = x \o f[i - 1] /\ g[i - 1] = x \o f[(i - 1) - 1]
      BY <3>1
    <3> HIDE DEF g
    <3> DEFINE j == i - 1
    <3>3. f[j] = f[j - 1] \o seqs[j] /\ more[i] = seqs[j] /\ seqs[j] \in Seq(T) /\ f[j - 1] \in Seq(T)
      <4>1. seqs[j] \in Seq(T)
        BY <3>1 DEF n
      <4>2. j - 1 \in 0 .. n
        BY <1>3, <3>1
      <4> QED BY <1>3, <1>4, <3>1, <4>1, <4>2
    <3> DEFINE a == f[j - 1]
               b == seqs[j]
    <3>4. a \in Seq(T) /\ b \in Seq(T)
      BY <3>3
    <3>5. g[i] = x \o (a \o b) /\ g[i - 1] \o more[i] = (x \o a) \o b
      <4>1. g[i] = x \o f[j] /\ g[i - 1] = x \o f[j - 1]
        BY <3>2
      <4> QED BY <3>3, <4>1
    <3> HIDE DEF a, b
    <3> QED BY <3>4, <3>5, ConcatAssociative
  <2> QED BY <2>1, <2>2
<1> HIDE DEF g
<1>8. Joins(g, T, more)
  BY <1>3, <1>6, <1>7 DEF Joins
<1>9. FlattenSeq(more) = g[Len(more)]
  BY <1>3, <1>8, FlattenIs
<1> QED BY <1>2, <1>3, <1>6, <1>9 DEF more

------------------------------------------------------------------------------
(* What is left of s without its first j elements.                           *)
From(s, j) == [i \in 1 .. Len(s) - j |-> s[j + i]]

(* From the start, from the end, and from one element on.                    *)
LEMMA FromFacts ==
    ASSUME NEW T, NEW s \in Seq(T)
    PROVE  /\ From(s, 0) = s /\ From(s, Len(s)) = <<>>
           /\ \A j \in 0 .. Len(s) : From(s, j) \in Seq(T) /\ Len(From(s, j)) = Len(s) - j
           /\ \A j \in 1 .. Len(s) : From(s, j - 1) = <<s[j]>> \o From(s, j)
PROOF
<1> DEFINE n == Len(s)
<1>1. n \in Nat /\ s \in [1 .. n -> T]
  OBVIOUS
<1>2. From(s, 0) = s
  BY <1>1 DEF From
<1>3. From(s, n) = <<>>
  BY <1>1 DEF From
<1>4. ASSUME NEW j \in 0 .. n
      PROVE  /\ From(s, j) \in Seq(T) /\ Len(From(s, j)) = n - j
             /\ \A i \in 1 .. n - j : From(s, j)[i] = s[j + i]
  <2>1. n - j \in Nat /\ \A i \in 1 .. n - j : s[j + i] \in T
    <3>1. \A i \in 1 .. n - j : j + i \in 1 .. n
      BY <1>1
    <3> QED BY <1>1, <3>1
  <2> DEFINE t == From(s, j)
             m == n - j
  <2>2. t = [i \in 1 .. m |-> s[j + i]]
    BY DEF From
  <2>3. t \in [1 .. m -> T] /\ \A i \in 1 .. m : t[i] = s[j + i]
    <3> HIDE DEF t, m
    <3> QED BY <2>1, <2>2 DEF m
  <2>4. m \in Nat
    BY <2>1
  <2> HIDE DEF t, m
  <2>5. t \in Seq(T) /\ Len(t) = m
    BY <2>3, <2>4
  <2> QED BY <2>3, <2>5 DEF t, m
<1>5. ASSUME NEW j \in 1 .. n
      PROVE  From(s, j - 1) = <<s[j]>> \o From(s, j)
  <2> DEFINE a == From(s, j - 1)
             t == From(s, j)
             x == s[j]
             b == <<x>> \o t
  <2>1. j - 1 \in 0 .. n /\ j \in 0 .. n /\ j \in Nat
    BY <1>1
  <2>2. /\ a \in Seq(T) /\ Len(a) = n - (j - 1)
        /\ \A i \in 1 .. n - (j - 1) : a[i] = s[(j - 1) + i]
    <3> HIDE DEF n
    <3> QED BY <1>4, <2>1
  <2>3. t \in Seq(T) /\ Len(t) = n - j /\ \A i \in 1 .. n - j : t[i] = s[j + i]
    <3> HIDE DEF n
    <3> QED BY <1>4, <2>1
  <2>4. s[j] \in T
    OBVIOUS
  <2> HIDE DEF a, t
  <2>5. b \in Seq(T) /\ Len(b) = 1 + Len(t) /\ b[1] = x /\ \A i \in 1 .. Len(t) : b[i + 1] = t[i]
    <3>1. x \in T /\ t \in Seq(T)
      BY <2>3, <2>4
    <3> HIDE DEF x
    <3> QED BY <3>1
  <2> HIDE DEF b, n, x
  <2>6. ASSUME NEW i \in 1 .. Len(a)
        PROVE  a[i] = b[i]
    <3>1. a[i] = s[(j - 1) + i] /\ x = s[j]
      BY <2>2 DEF x
    <3>2. CASE i = 1
      <4>1. (j - 1) + i = j
        BY <2>1, <3>2
      <4> QED BY <2>5, <3>1, <3>2, <4>1
    <3>3. CASE i # 1
      <4> DEFINE k == i - 1
      <4>1. k \in 1 .. n - j /\ i = k + 1 /\ (j - 1) + i = j + k
        BY <1>1, <2>1, <2>2, <3>3
      <4>2. k \in 1 .. Len(t)
        BY <2>3, <4>1
      <4>3. t[k] = s[j + k]
        BY <2>3, <4>1
      <4> HIDE DEF k
      <4>4. b[k + 1] = t[k]
        BY <2>5, <4>2
      <4> QED BY <3>1, <4>1, <4>3, <4>4
    <3> QED BY <3>2, <3>3
  <2>7. Len(a) = Len(b)
    BY <1>1, <2>1, <2>2, <2>3, <2>5
  <2>8. a = b
    BY <2>2, <2>5, <2>6, <2>7, SeqEqual
  <2> QED BY <2>8 DEF a, b, t, x
<1> QED BY <1>2, <1>3, <1>4, <1>5

(* The strings from one on are that string and the strings after it.         *)
LEMMA FlattenFrom ==
    ASSUME NEW T, NEW s \in Seq(Seq(T)), NEW j \in 1 .. Len(s)
    PROVE  /\ FlattenSeq(From(s, j)) \in Seq(T)
           /\ FlattenSeq(From(s, j - 1)) = s[j] \o FlattenSeq(From(s, j))
PROOF
<1> DEFINE t == From(s, j)
<1>1. j \in 0 .. Len(s) /\ s[j] \in Seq(T)
  OBVIOUS
<1>2. t \in Seq(Seq(T)) /\ From(s, j - 1) = <<s[j]>> \o t
  BY <1>1, FromFacts
<1> HIDE DEF t
<1>3. FlattenSeq(t) \in Seq(T)
  BY <1>2, FlattenFacts
<1>4. FlattenSeq(<<s[j]>> \o t) = s[j] \o FlattenSeq(t)
  <2> DEFINE x == s[j]
  <2>1. x \in Seq(T) /\ t \in Seq(Seq(T))
    BY <1>1, <1>2
  <2> HIDE DEF x
  <2>2. FlattenSeq(<<x>> \o t) = x \o FlattenSeq(t)
    BY <2>1, FlattenPrepend
  <2> QED BY <2>2 DEF x
<1> QED BY <1>2, <1>3, <1>4 DEF t
==============================================================================
