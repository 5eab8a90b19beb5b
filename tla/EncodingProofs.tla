--------------------------- MODULE EncodingProofs ---------------------------
(***************************************************************************)
(* Lemmas about the conversions of both nodes: single precision division   *)
(* and multiplication, and the two directions of the link.                 *)
(***************************************************************************)
EXTENDS Encoding, TLAPS

---------------------------------------------------------------------------
(* Powers of two.  The provers know those of numbers only, so the          *)
(* exponents of FloatDiv are gone through one by one.                      *)

LEMMA PowerTable ==
  /\ Power(0) = 1 /\ Power(1) = 2 /\ Power(2) = 4 /\ Power(3) = 8
  /\ Power(4) = 16 /\ Power(5) = 32 /\ Power(6) = 64
  /\ Power(7) = 128 /\ Power(8) = 256 /\ Power(9) = 512
  /\ Power(10) = 1024 /\ Power(11) = 2048 /\ Power(12) = 4096
  /\ Power(13) = 8192 /\ Power(14) = 16384 /\ Power(15) = 32768
  /\ Power(16) = 65536 /\ Power(17) = 131072 /\ Power(18) = 262144
  /\ Power(19) = 524288 /\ Power(20) = 1048576 /\ Power(21) = 2097152
  /\ Power(22) = 4194304 /\ Power(23) = 8388608 /\ Power(24) = 16777216
  /\ Power(25) = 33554432 /\ Power(26) = 67108864 /\ Power(27) = 134217728
  BY SMT DEF Power

LEMMA Powers ==
  ASSUME NEW k \in 0..20
  PROVE  /\ Power(k) \in Nat /\ Power(k) >= 1
         /\ Power(k + 7) = 128 * Power(k)
         /\ Power(k + 6) = 64 * Power(k)
  BY PowerTable, SMT

---------------------------------------------------------------------------
(* Division into a float.                                                  *)

LEMMA DivIs ==
  ASSUME NEW a \in Nat, NEW b \in Nat, b > 0
  PROVE  /\ a \div b \in Nat /\ a % b \in Nat /\ a % b < b
         /\ a = b * (a \div b) + (a % b)
  BY SMT

\* What is divided in the two programs' range of readings, and by what.
Dividend == {n \in Nat : n > 0 /\ n <= 100001}
Divisor  == {100, 1000}
Shift    == 0..20

\* What Shifted computes: n * 2^(k+13) = d * q + r.
IsShifted(n, d, k, q, r) ==
  /\ Shifted(n, d, k + 13) = [quotient |-> q, remainder |-> r]
  /\ r < d /\ d * q + r = n * 8192 * Power(k)

\* Long division, a part at a time: what the first division leaves is scaled by
\* the power and divided.
LEMMA ShiftedIs ==
  ASSUME NEW n \in Dividend, NEW d \in Divisor, NEW k \in Shift
  PROVE  \E q, r \in Nat : IsShifted(n, d, k, q, r)
  <1>1. PICK h \in Nat, p \in Nat : h = n * 8192 /\ p = Power(k)
    BY Powers, SMT DEF Dividend, Shift
  <1>2. d \in Nat /\ d > 0 /\ k + 13 - 13 = k
    BY SMT DEF Divisor, Shift
  <1>3. PICK a \in Nat, b \in Nat : h \div d = a /\ h % d = b /\ h = d * a + b
    BY <1>2, DivIs, SMT
  <1>4. b * p \in Nat
    BY SMT
  <1>5. PICK q \in Nat, r \in Nat :
          (b * p) \div d = q /\ (b * p) % d = r /\ r < d /\ b * p = d * q + r
    BY <1>2, <1>4, DivIs, SMT
  <1>6. d * (a * p + q) + r = h * p
    <2>1. h * p = d * (a * p) + b * p
      BY <1>2, <1>3, SMT
    <2>2. d * (a * p + q) = d * (a * p) + d * q
      BY <1>2, SMT
    <2> QED
      BY <1>2, <1>5, <2>1, <2>2, SMT
  <1>7. a * p + q \in Nat
    BY SMT
  <1>8. Shifted(n, d, k + 13) = [quotient |-> a * p + q, remainder |-> r]
    BY <1>1, <1>2, <1>3, <1>5, SMT DEF Shifted, Shift
  <1> QED
    <2>1. IsShifted(n, d, k, a * p + q, r)
      BY <1>1, <1>5, <1>6, <1>8 DEF IsShifted
    <2> QED
      BY <1>7, <2>1

\* Some shift makes a quotient of 24 bits.
LEMMA ShiftExists ==
  ASSUME NEW n \in Dividend, NEW d \in Divisor
  PROVE  \E e \in 13..33 : /\ 2^23 <= Shifted(n, d, e).quotient
                           /\ Shifted(n, d, e).quotient < 2^24
  <1> DEFINE Fit(k) == d * 1024 <= n * Power(k) /\ n * Power(k) < d * 2048
  <1> USE DEF Dividend, Shift
  <1>1. PICK k \in Shift : Fit(k)
    <2>1. CASE d = 100
      <3>1. \/ Fit(1) \/ Fit(2) \/ Fit(3) \/ Fit(4) \/ Fit(5) \/ Fit(6) \/ Fit(7)
            \/ Fit(8) \/ Fit(9) \/ Fit(10) \/ Fit(11) \/ Fit(12) \/ Fit(13)
            \/ Fit(14) \/ Fit(15) \/ Fit(16) \/ Fit(17)
        BY <2>1, PowerTable, SMT
      <3> HIDE DEF Fit
      <3> QED
        BY <3>1, SMT
    <2>2. CASE d = 1000
      <3>1. \/ Fit(4) \/ Fit(5) \/ Fit(6) \/ Fit(7) \/ Fit(8) \/ Fit(9) \/ Fit(10)
            \/ Fit(11) \/ Fit(12) \/ Fit(13) \/ Fit(14) \/ Fit(15) \/ Fit(16)
            \/ Fit(17) \/ Fit(18) \/ Fit(19) \/ Fit(20)
        BY <2>2, PowerTable, SMT
      <3> HIDE DEF Fit
      <3> QED
        BY <3>1, SMT
    <2> QED
      BY <2>1, <2>2 DEF Divisor
  <1> HIDE DEF Dividend, Shift
  <1>2. PICK q \in Nat, r \in Nat : IsShifted(n, d, k, q, r)
    BY ShiftedIs, Zenon
  <1> USE DEF Dividend, Shift
  <1>3. n * 8192 * Power(k) = 8192 * (n * Power(k)) /\ n * Power(k) \in Nat
    BY Powers, SMT
  <1>4. 2^23 <= q /\ q < 2^24
    BY <1>1, <1>2, <1>3, SMT DEF IsShifted, Divisor
  <1>5. k + 13 \in 13..33 /\ Shifted(n, d, k + 13).quotient = q
    BY <1>2, SMT DEF IsShifted
  <1> QED
    BY <1>4, <1>5, SMT

\* The float is the quotient of 24 bits, rounded.
IsFloat(n, d, k, q, r) ==
  /\ IsShifted(n, d, k, q, r)
  /\ 2^23 <= q /\ q < 2^24
  /\ FloatDiv(n, d) = [m |-> RoundUp(q, r, d), e |-> k + 13]

LEMMA FloatDivIs ==
  ASSUME NEW n \in Dividend, NEW d \in Divisor
  PROVE  \E k \in Shift : \E q, r \in Nat : IsFloat(n, d, k, q, r)
  <1> DEFINE Is24Bits(q) == 2^23 <= q /\ q < 2^24
             e == CHOOSE j \in 13..33 : Is24Bits(Shifted(n, d, j).quotient)
             x == Shifted(n, d, e)
  <1>1. \E j \in 13..33 : Is24Bits(Shifted(n, d, j).quotient)
    BY ShiftExists, SMT
  <1>2. e \in 13..33 /\ Is24Bits(x.quotient)
    BY <1>1, SMT
  <1>3. FloatDiv(n, d) = [m |-> RoundUp(x.quotient, x.remainder, d), e |-> e]
    BY SMT DEF FloatDiv, Dividend
  <1> HIDE DEF e
  <1>4. PICK k \in Shift : e = k + 13
    <2>1. e - 13 \in 0..20 /\ e = (e - 13) + 13
      BY <1>2, SMT
    <2> QED
      BY <2>1 DEF Shift
  <1>5. PICK q \in Nat, r \in Nat : IsShifted(n, d, k, q, r)
    BY ShiftedIs, Zenon
  <1>6. x.quotient = q /\ x.remainder = r
    BY <1>4, <1>5, SMT DEF IsShifted
  <1>7. IsFloat(n, d, k, q, r)
    BY <1>2, <1>3, <1>4, <1>5, <1>6 DEF IsFloat
  <1> QED
    BY <1>7, Zenon

---------------------------------------------------------------------------
(* Multiplication of a float by 100.                                       *)

\* u * d is the multiple of d nearest to p.
IsRounded(u, p, d) == 2 * (d * u) <= 2 * p + d /\ 2 * p <= 2 * (d * u) + d

LEMMA RoundUpIs ==
  ASSUME NEW q \in Nat, NEW r \in Nat, NEW d \in Nat, r < d
  PROVE  RoundUp(q, r, d) \in Nat /\ IsRounded(RoundUp(q, r, d), d * q + r, d)
  <1>1. CASE RoundUp(q, r, d) = q /\ 2 * r <= d
    BY <1>1, SMT DEF IsRounded
  <1>2. CASE RoundUp(q, r, d) = q + 1 /\ 2 * r >= d
    <2>1. d * (q + 1) = d * q + d
      BY SMT
    <2> QED
      BY <1>2, <2>1, SMT DEF IsRounded
  <1> QED
    BY <1>1, <1>2, SMT DEF RoundUp

\* p rounded to a multiple of h, then cut to one of h * one.
IsCut(w, p, h, one) ==
  /\ 2 * (h * (one * w)) <= 2 * p + h
  /\ 2 * p < 2 * (h * (one * w)) + 2 * (h * one) + h

LEMMA CutIs ==
  ASSUME NEW a \in Nat, NEW b \in Nat, NEW h \in Nat, h > 0, b < h,
         NEW one \in Nat, one >= 1
  PROVE  \E w \in Nat : RoundUp(a, b, h) \div one = w /\ IsCut(w, h * a + b, h, one)
  <1>1. PICK u \in Nat : u = RoundUp(a, b, h) /\ IsRounded(u, h * a + b, h)
    BY RoundUpIs, Zenon
  <1>2. PICK w \in Nat, r \in Nat : u \div one = w /\ u = one * w + r /\ r < one
    BY DivIs, SMT
  <1>3. PICK c \in Nat : c = one * w /\ c <= u /\ u + 1 <= c + one
    BY <1>2, SMT
  <1>4. h * c <= h * u /\ h * u + h <= h * c + h * one
    <2>1. h * c <= h * u
      BY <1>3, SMT
    <2>2. h * (u + 1) <= h * (c + one)
      BY <1>3, SMT
    <2> QED
      BY <2>1, <2>2, SMT
  <1>5. IsCut(w, h * a + b, h, one)
    <2>1. PICK p \in Nat : p = h * a + b
      BY SMT
    <2> QED
      BY <1>1, <1>3, <1>4, <2>1, SMT DEF IsCut, IsRounded
  <1> QED
    BY <1>1, <1>2, <1>5

\* w is the whole part of m / 2^(k+13) * 100, but for a rounding error of at
\* most half of 2^7.
IsTimes100(w, m, k) ==
  /\ 8192 * (Power(k) * w) <= 100 * m + 64
  /\ 100 * m < 8192 * (Power(k) * w) + 8192 * Power(k) + 64

LEMMA Times100Is ==
  ASSUME NEW m \in Nat, NEW k \in Shift
  PROVE  \E w \in Nat :
           Times100([m |-> m, e |-> k + 13]).whole = w /\ IsTimes100(w, m, k)
  <1> DEFINE x == [m |-> m, e |-> k + 13]
  <1>1. PICK p \in Nat : p = Power(k) /\ p >= 1 /\ Power(k + 7) = 128 * p /\ Power(k + 6) = 64 * p
    BY Powers DEF Shift
  <1>2. CASE (m * 100) \div 64 < 2^24
    <2>1. PICK a \in Nat, b \in Nat : a = (m * 100) \div 64 /\ b = (m * 100) % 64
                                      /\ m * 100 = 64 * a + b /\ b < 64
      BY SMT
    <2>2. x.m * 100 = m * 100 /\ x.e - 6 = k + 7
      BY SMT DEF Shift
    <2>3. PICK one \in Nat : one = 128 * p /\ one >= 1
      BY <1>1, SMT
    <2>4. Times100(x).whole = RoundUp(a, b, 64) \div one
      BY <1>1, <1>2, <2>1, <2>2, <2>3, SMT DEF Times100
    <2>5. PICK w \in Nat : RoundUp(a, b, 64) \div one = w /\ IsCut(w, 64 * a + b, 64, one)
      <3>1. PICK h \in Nat : h = 64 /\ h > 0 /\ b < h
        BY <2>1, SMT
      <3>2. \E w \in Nat : RoundUp(a, b, h) \div one = w /\ IsCut(w, h * a + b, h, one)
        BY <2>3, <3>1, CutIs, Zenon
      <3> QED
        BY <3>1, <3>2
    <2>6. one * w = 128 * (p * w) /\ p * w \in Nat
      BY <2>3, SMT
    <2>7. IsTimes100(w, m, k)
      BY <1>1, <2>1, <2>3, <2>5, <2>6, SMT DEF IsTimes100, IsCut
    <2> QED
      BY <2>4, <2>5, <2>7
  <1>3. CASE ~((m * 100) \div 64 < 2^24)
    <2>1. PICK a \in Nat, b \in Nat : a = (m * 100) \div 128 /\ b = (m * 100) % 128
                                      /\ m * 100 = 128 * a + b /\ b < 128
      BY SMT
    <2>2. x.m * 100 = m * 100 /\ x.e - 7 = k + 6
      BY SMT DEF Shift
    <2>3. PICK one \in Nat : one = 64 * p /\ one >= 1
      BY <1>1, SMT
    <2>4. Times100(x).whole = RoundUp(a, b, 128) \div one
      BY <1>1, <1>3, <2>1, <2>2, <2>3, SMT DEF Times100
    <2>5. PICK w \in Nat : RoundUp(a, b, 128) \div one = w /\ IsCut(w, 128 * a + b, 128, one)
      <3>1. PICK h \in Nat : h = 128 /\ h > 0 /\ b < h
        BY <2>1, SMT
      <3>2. \E w \in Nat : RoundUp(a, b, h) \div one = w /\ IsCut(w, h * a + b, h, one)
        BY <2>3, <3>1, CutIs, Zenon
      <3> QED
        BY <3>1, <3>2
    <2>6. one * w = 64 * (p * w) /\ p * w \in Nat
      BY <2>3, SMT
    <2>7. IsTimes100(w, m, k)
      BY <1>1, <2>1, <2>3, <2>5, <2>6, SMT DEF IsTimes100, IsCut
    <2> QED
      BY <2>4, <2>5, <2>7
  <1> QED
    BY <1>2, <1>3

---------------------------------------------------------------------------
(* What is left of a reading that was divided and multiplied.              *)

\* In units of 1/c hundredths: nothing is added and at most one hundredth lost.
LEMMA WholeIs ==
  ASSUME NEW n \in Dividend, NEW d \in Divisor
  PROVE  \E w \in Nat : /\ Times100(FloatDiv(n, d)).whole = w
                        /\ d = 100 => w <= n /\ n <= w + 1
                        /\ d = 1000 => 10 * w <= n /\ n <= 10 * w + 10
  <1>1. PICK k \in Shift, q \in Nat, r \in Nat : IsFloat(n, d, k, q, r)
    BY FloatDivIs, Zenon
  <1>2. d \in Nat /\ r < d /\ n \in Nat
    BY <1>1, SMT DEF IsFloat, IsShifted, Divisor, Dividend
  <1>3. PICK u \in Nat : u = RoundUp(q, r, d) /\ IsRounded(u, d * q + r, d)
    BY <1>2, RoundUpIs, Zenon
  <1>4. PICK w \in Nat : /\ Times100([m |-> u, e |-> k + 13]).whole = w
                         /\ IsTimes100(w, u, k)
    BY Times100Is, Zenon
  <1>5. Times100(FloatDiv(n, d)).whole = w
    BY <1>1, <1>3, <1>4, Zenon DEF IsFloat
  <1>6. PICK p \in Nat : p = Power(k) /\ p >= 1
    BY Powers, SMT DEF Shift
  <1>7. PICK pn \in Nat, pw \in Nat : pn = p * n /\ pw = p * w
    BY <1>2, SMT
  <1>8. d * q + r = 8192 * pn
    BY <1>1, <1>2, <1>6, <1>7, SMT DEF IsFloat, IsShifted
  <1>9. /\ 2 * (d * u) <= 2 * (8192 * pn) + d /\ 2 * (8192 * pn) <= 2 * (d * u) + d
        /\ 8192 * pw <= 100 * u + 64 /\ 100 * u < 8192 * pw + 8192 * p + 64
    BY <1>3, <1>4, <1>6, <1>7, <1>8 DEF IsRounded, IsTimes100
  <1>10. CASE d = 100
    <2>1. pw <= pn /\ pn <= pw + p
      BY <1>9, <1>10, SMT
    <2>2. w <= n /\ n <= w + 1
      BY <1>2, <1>6, <1>7, <2>1, SMT
    <2> QED
      BY <1>5, <1>10, <2>2, SMT
  <1>11. CASE d = 1000
    <2>1. 10 * pw <= pn /\ pn <= 10 * pw + 10 * p
      BY <1>9, <1>11, SMT
    <2>2. 10 * w <= n /\ n <= 10 * w + 10
      BY <1>2, <1>6, <1>7, <2>1, SMT
    <2> QED
      BY <1>5, <1>11, <2>2, SMT
  <1> QED
    BY <1>10, <1>11 DEF Divisor

LEMMA WholeOfNone ==
  ASSUME NEW d \in Divisor
  PROVE  Times100(FloatDiv(0, d)).whole = 0
  <1>1. FloatDiv(0, d) = [m |-> 0, e |-> 23]
    BY SMT DEF FloatDiv
  <1>2. PICK p \in Nat : p = Power(17) /\ p >= 1
    BY PowerTable, SMT
  <1>3. 0 \div p = 0
    BY <1>2, SMT
  <1>4. RoundUp(0, 0, 64) = 0
    BY SMT DEF RoundUp
  <1>5. Times100([m |-> 0, e |-> 23]).whole = 0 \div Power(17)
    BY <1>4, SMT DEF Times100
  <1> QED
    BY <1>1, <1>2, <1>3, <1>5

\* (int16_t)(x * 100) is at most a hundredth nearer to zero than x.
LEMMA TemperatureSent ==
  ASSUME NEW n \in Int, -100000 <= n, n <= 100000
  PROVE  LET h == InHundredths(n, 100) IN
           /\ h \in Int
           /\ n >= 0 => 0 <= h /\ h <= n /\ n <= h + 1
           /\ n <= 0 => n <= h /\ h <= n + 1 /\ h <= 0
  <1> USE DEF InHundredths
  <1>1. 100 \in Divisor
    BY DEF Divisor
  <1>2. CASE n = 0
    <2>1. InHundredths(0, 100) = 0
      BY <1>1, WholeOfNone
    <2> QED
      BY <1>2, <2>1, SMT
  <1>3. CASE n > 0
    <2>1. n \in Dividend
      BY <1>3, SMT DEF Dividend
    <2>2. PICK w \in Nat : Times100(FloatDiv(n, 100)).whole = w /\ w <= n /\ n <= w + 1
      BY <1>1, <2>1, WholeIs
    <2> QED
      BY <1>3, <2>2, SMT
  <1>4. CASE n < 0
    <2>1. -n \in Dividend
      BY <1>4, SMT DEF Dividend
    <2>2. PICK w \in Nat : Times100(FloatDiv(-n, 100)).whole = w /\ w <= -n /\ -n <= w + 1
      BY <1>1, <2>1, WholeIs
    <2> QED
      BY <1>4, <2>2, SMT
  <1> QED
    BY <1>2, <1>3, <1>4, SMT

LEMMA HumiditySent ==
  ASSUME NEW n \in Nat, n <= 100000
  PROVE  /\ InHundredths(n, 1000) \in Nat
         /\ (n \div 10) - InHundredths(n, 1000) \in 0..1
  <1>1. InHundredths(n, 1000) = Times100(FloatDiv(n, 1000)).whole
    BY SMT DEF InHundredths
  <1>2. 1000 \in Divisor
    BY DEF Divisor
  <1>3. CASE n = 0
    BY <1>1, <1>2, <1>3, WholeOfNone, SMT
  <1>4. CASE n > 0
    <2>1. n \in Dividend
      BY <1>4, SMT DEF Dividend
    <2>2. PICK w \in Nat : /\ Times100(FloatDiv(n, 1000)).whole = w
                           /\ 10 * w <= n /\ n <= 10 * w + 10
      BY <1>2, <2>1, WholeIs
    <2> QED
      BY <1>1, <2>2, SMT
  <1> QED
    BY <1>3, <1>4, SMT

---------------------------------------------------------------------------
(* Floats compare as the integers they were made of.                       *)

LEMMA PowersGrow ==
  ASSUME NEW j \in Shift, NEW k \in Shift, j < k
  PROVE  Power(k) >= 2 * Power(j)
  BY PowerTable, SMT DEF Shift

LEMMA FloatsCompare ==
  ASSUME NEW n \in Nat, n + 1 \in Dividend
  PROVE  FloatLess(FloatDiv(n, 100), FloatDiv(n + 1, 100))
  <1>1. 100 \in Divisor /\ n + 1 \in Dividend
    BY SMT DEF Divisor
  <1>2. PICK k2 \in Shift, q2 \in Nat, r2 \in Nat : IsFloat(n + 1, 100, k2, q2, r2)
    BY <1>1, FloatDivIs, Zenon
  <1>3. PICK p2 \in Nat : p2 = Power(k2) /\ p2 >= 1
    BY Powers, SMT DEF Shift
  <1>4. RoundUp(q2, r2, 100) \in Nat /\ RoundUp(q2, r2, 100) >= q2
    BY SMT DEF RoundUp
  <1>5. CASE n = 0
    <2>1. FloatDiv(n, 100).m = 0
      BY <1>5, SMT DEF FloatDiv
    <2>2. FloatDiv(n + 1, 100).m # 0
      BY <1>2, <1>4, SMT DEF IsFloat
    <2> QED
      BY <2>1, <2>2 DEF FloatLess
  <1>6. CASE n > 0
    <2>1. n \in Dividend
      BY <1>6, SMT DEF Dividend
    <2>2. PICK k \in Shift, q \in Nat, r \in Nat : IsFloat(n, 100, k, q, r)
      BY <1>1, <2>1, FloatDivIs, Zenon
    <2>3. PICK p \in Nat : p = Power(k) /\ p >= 1
      BY Powers, SMT DEF Shift
    <2>4. /\ r < 100 /\ 100 * q + r = 8192 * (n * p)
          /\ r2 < 100 /\ 100 * q2 + r2 = 8192 * (n * p2) + 8192 * p2
          /\ 2^23 <= q /\ q2 < 2^24
      BY <1>2, <1>3, <2>2, <2>3, SMT DEF IsFloat, IsShifted
    <2>5. k2 <= k
      <3>1. ASSUME k < k2 PROVE FALSE
        <4>1. p2 >= 2 * p
          BY <1>3, <2>3, <3>1, PowersGrow
        <4>2. n * p2 >= 2 * (n * p)
          BY <4>1, SMT
        <4> QED
          BY <2>3, <2>4, <4>1, <4>2, SMT
      <3> QED
        BY <3>1, SMT DEF Shift
    <2>6. CASE k = k2
      <3>1. q2 > q + 1
        BY <1>3, <2>3, <2>4, <2>6, SMT
      <3>2. RoundUp(q, r, 100) \in Nat /\ RoundUp(q, r, 100) <= q + 1
        BY SMT DEF RoundUp
      <3>3. RoundUp(q, r, 100) < RoundUp(q2, r2, 100)
        BY <1>4, <3>1, <3>2, SMT
      <3> QED
        BY <1>2, <2>2, <2>6, <3>3, SMT DEF IsFloat, FloatLess
    <2>7. CASE k2 < k
      <3>1. k + 13 > k2 + 13
        BY <2>7, SMT DEF Shift
      <3> QED
        BY <1>2, <2>2, <3>1, SMT DEF IsFloat, FloatLess
    <2> QED
      BY <2>5, <2>6, <2>7, SMT DEF Shift
  <1> QED
    BY <1>5, <1>6, SMT

---------------------------------------------------------------------------
(* The two directions of the link.                                         *)

LEMMA SignedIs ==
  ASSUME NEW n \in Nat, NEW x
  PROVE  x \in Signed(n) <=> x \in Int /\ -n <= x /\ x < n
  BY SMT DEF Signed

LEMMA UnsignedIs ==
  ASSUME NEW n \in Nat, NEW x
  PROVE  x \in Unsigned(n) <=> x \in Int /\ 0 <= x /\ x < n
  BY SMT DEF Unsigned

\* A word put together from its two bytes.
LEMMA BytesMakeWord ==
  ASSUME NEW x \in Int
  PROVE  /\ Word(High(x), Low(x)) \in Int
         /\ 0 <= x /\ x < 65536 => U16(Word(High(x), Low(x))) = x /\ Word(High(x), Low(x)) = x
         /\ -32768 <= x /\ x < 32768 => I16(Word(High(x), Low(x))) = x
  <1>1. Word(High(x), Low(x)) = U16(x)
    BY SMT DEF Word, High, Low, U16, U8
  <1>2. U16(x) \in Int
    BY SMT DEF U16
  <1>3. 0 <= x /\ x < 65536 => U16(U16(x)) = x /\ U16(x) = x
    BY SMT DEF U16
  <1>4. -32768 <= x /\ x < 32768 => I16(U16(x)) = x
    BY SMT DEF I16, U16
  <1> QED
    BY <1>1, <1>2, <1>3, <1>4

LEMMA FrameFields ==
  ASSUME NEW r
  PROVE  LET f == SendUartFrame(r) IN
           /\ f[1] = High(r.temp) /\ f[2] = Low(r.temp)
           /\ f[3] = High(r.hum)  /\ f[4] = Low(r.hum)
           /\ f[5] = U8(r.sound \div 64)
           /\ f[6] = High(r.dist) /\ f[7] = Low(r.dist)
           /\ f[8] = r.alarm
  BY SMT DEF SendUartFrame, Array

\* sample_fetch gets the reading that was sent, the sound level scaled to 0..63.
LEMMA SampleIsReading ==
  ASSUME NEW r \in Reading, r.hum >= 0
  PROVE  SampleFetch(SendUartFrame(r)) =
           [temperature |-> r.temp, humidity |-> r.hum, sound |-> r.sound \div 64,
            distance |-> r.dist, alarm_status |-> r.alarm]
  <1> DEFINE f == SendUartFrame(r)
  <1>1. /\ r.temp \in Int /\ -32768 <= r.temp /\ r.temp < 32768
        /\ r.hum \in Int /\ r.hum < 65536
        /\ r.sound \in Int /\ 0 <= r.sound /\ r.sound < 4096
        /\ r.dist \in Int /\ 0 <= r.dist /\ r.dist < 65536
    BY SignedIs, UnsignedIs, SMT DEF Reading, Int16, UInt16
  <1>2. I16(Word(f[1], f[2])) = r.temp
    BY <1>1, BytesMakeWord, FrameFields
  <1>3. U16(Word(f[3], f[4])) = r.hum
    BY <1>1, BytesMakeWord, FrameFields, SMT
  <1>4. U16(Word(f[6], f[7])) = r.dist
    BY <1>1, BytesMakeWord, FrameFields
  <1>5. f[5] = r.sound \div 64
    BY <1>1, FrameFields, SMT DEF U8
  <1>6. f[8] = r.alarm
    BY FrameFields
  <1> QED
    BY <1>2, <1>3, <1>4, <1>5, <1>6 DEF SampleFetch

\* channel_get and attr_set agree on the scale.
LEMMA ThereAndBack ==
  ASSUME NEW n \in Int
  PROVE  ToHundredths(Hundredths(n)) = n
  <1>1. CDiv(n, 100) \in Int /\ CMod(n, 100) \in Int /\ CDiv(n, 100) * 100 + CMod(n, 100) = n
    BY SMT DEF CDiv, CMod
  <1>2. \A i \in Int : CDiv(i * 10000, 10000) = i
    BY SMT DEF CDiv
  <1>3. CDiv(CMod(n, 100) * 10000, 10000) = CMod(n, 100)
    BY <1>1, <1>2
  <1> QED
    BY <1>1, <1>3 DEF ToHundredths, Hundredths

LEMMA RawType ==
  ASSUME NEW attr \in Attributes, NEW val, val.val1 \in Int, val.val2 \in Int
  PROVE  Raw(attr, val) \in Int /\ 0 <= Raw(attr, val) /\ Raw(attr, val) < 65536
  <1>1. \A x \in Int : U16(x) \in Int /\ 0 <= U16(x) /\ U16(x) < 65536
    BY SMT DEF U16
  <1>2. ToHundredths(val) \in Int
    <2>1. \A x \in Int : CDiv(x, 10000) \in Int
      BY SMT DEF CDiv
    <2> QED
      BY <2>1 DEF ToHundredths
  <1>3. I16(ToHundredths(val)) \in Int /\ val.val1 % 64 \in Int
    BY <1>2, SMT DEF I16, U16
  <1> QED
    BY <1>1, <1>2, <1>3 DEF Raw, Attributes

\* The command frame carries the number and the value.
LEMMA CommandCarries ==
  ASSUME NEW attr \in Attributes, NEW val, val.val1 \in Int, val.val2 \in Int
  PROVE  LET f == AttrSetFrame(attr, val) IN
           f[1] = Cmd[attr] /\ Word(f[2], f[3]) = Raw(attr, val)
  <1>1. Word(High(Raw(attr, val)), Low(Raw(attr, val))) = Raw(attr, val)
    BY RawType, BytesMakeWord
  <1>2. LET f == AttrSetFrame(attr, val) IN
          f[1] = Cmd[attr] /\ f[2] = High(Raw(attr, val)) /\ f[3] = Low(Raw(attr, val))
    BY SMT DEF AttrSetFrame, Array
  <1> QED
    BY <1>1, <1>2

=============================================================================
