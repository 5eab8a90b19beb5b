-------------------------- MODULE ConversionProofs --------------------------
(***************************************************************************)
(* Proofs about Conversions: what those of both nodes do to every reading, *)
(* and what the compensation does to every raw value, with any calibration *)
(* in the usual range.                                                     *)
(***************************************************************************)
EXTENDS Conversions, EncodingProofs

---------------------------------------------------------------------------
(* Readings on their way to the base node.                                 *)

LEMMA HundredthsIs ==
  ASSUME NEW n \in Int
  PROVE  IsHundredths(Hundredths(n), n)
  BY SMT DEF IsHundredths, Hundredths, CDiv, CMod, Magnitude

\* Every reading, whatever its five parts, is shown as it was sent.
THEOREM EveryReadingIsShown ==
  ASSUME NEW r \in Reading, r.hum >= 0
  PROVE  LET Get(chan) == ChannelGet(SampleFetch(SendUartFrame(r)), chan) IN
           /\ Get("AMBIENT_TEMP") = Hundredths(r.temp)
           /\ Get("HUMIDITY") = Hundredths(r.hum)
           /\ Get("SOUND") = Whole(r.sound \div 64)
           /\ Get("DISTANCE") = Whole(r.dist)
           /\ Get("ALARM_STATUS") = Whole(r.alarm)
  BY SampleIsReading, SMT DEF ChannelGet

---------------------------------------------------------------------------
(* Settings on their way to the sensor node.                               *)

\* Which threshold changes, and to what: the rest of apply_command follows from
\* the number and the value that the frame carries.
LEMMA AfterIs ==
  ASSUME NEW val, val.val1 \in Int, val.val2 \in Int
  PROVE  /\ After("DIST_THRESH", val).dist = U16(val.val1)
         /\ After("SOUND_THRESH", val).sound = U8(U16(val.val1 % 64) % 64)
         /\ After("TEMP_MAX", val).temp = I16(U16(I16(ToHundredths(val))))
         /\ After("HUM_MAX", val).hum_max = U16(ToHundredths(val))
         /\ After("HUM_MIN", val).hum_min = U16(ToHundredths(val))
  <1>1. ASSUME NEW attr \in Attributes
        PROVE  After(attr, val) = ApplyCommand(InitThresholds, Cmd[attr], Raw(attr, val))
    BY CommandCarries DEF After
  <1>2. {"DIST_THRESH", "SOUND_THRESH", "TEMP_MAX", "HUM_MAX", "HUM_MIN"} \subseteq Attributes
    BY DEF Attributes
  <1> QED
    BY <1>1, <1>2, SMT DEF ApplyCommand, Cmd, Raw

LEMMA AfterHundredths ==
  ASSUME NEW n \in Int
  PROVE  /\ After("TEMP_MAX", Hundredths(n)).temp = I16(U16(I16(n)))
         /\ After("HUM_MAX", Hundredths(n)).hum_max = U16(n)
         /\ After("HUM_MIN", Hundredths(n)).hum_min = U16(n)
  <1>1. Hundredths(n).val1 \in Int /\ Hundredths(n).val2 \in Int
    BY SMT DEF Hundredths, CDiv, CMod
  <1> QED
    BY <1>1, AfterIs, ThereAndBack

LEMMA AfterWhole ==
  ASSUME NEW n \in Int
  PROVE  /\ After("DIST_THRESH", Whole(n)).dist = U16(n)
         /\ After("SOUND_THRESH", Whole(n)).sound = n % 64
  <1>1. Whole(n).val1 = n /\ Whole(n).val2 = 0
    BY DEF Whole
  <1>2. U8(U16(n % 64) % 64) = n % 64
    BY SMT DEF U8, U16
  <1> QED
    BY <1>1, <1>2, AfterIs

\* For every setting: it arrives exactly if it fits.
THEOREM EverySettingThatFits ==
  ASSUME NEW n \in Int
  PROVE  /\ After("DIST_THRESH", Whole(n)).dist = n <=> n \in UInt16
         /\ After("SOUND_THRESH", Whole(n)).sound = n <=> n \in 0..63
         /\ After("TEMP_MAX", Hundredths(n)).temp = n <=> n \in Int16
         /\ After("HUM_MAX", Hundredths(n)).hum_max = n <=> n \in UInt16
         /\ After("HUM_MIN", Hundredths(n)).hum_min = n <=> n \in UInt16
  <1>1. U16(n) = n <=> n \in UInt16
    <2>1. U16(n) = n <=> 0 <= n /\ n < 65536
      BY SMT DEF U16
    <2> QED
      BY <2>1, UnsignedIs, SMT DEF UInt16
  <1>2. I16(U16(I16(n))) = n <=> n \in Int16
    <2>1. I16(U16(I16(n))) = n <=> -32768 <= n /\ n < 32768
      BY SMT DEF I16, U16
    <2> QED
      BY <2>1, SignedIs, SMT DEF Int16
  <1>3. n % 64 = n <=> n \in 0..63
    BY SMT
  <1> QED
    BY <1>1, <1>2, <1>3, AfterWhole, AfterHundredths

---------------------------------------------------------------------------
(* The numbers that Conversions goes through.                              *)

WordInv == word \in Nat

LEMMA WordInvariant == Spec => []WordInv
  <1>1. Init => WordInv
    BY SMT DEF Init, WordInv
  <1>2. WordInv /\ [Next]_word => WordInv'
    BY SMT DEF Next, WordInv
  <1> QED
    BY <1>1, <1>2, PTL DEF Spec

LEMMA ReadingOfType ==
  ASSUME NEW w \in Nat
  PROVE  ReadingOf(w) \in Reading /\ ReadingOf(w).hum >= 0
  <1>1. /\ U16(w) - 32768 \in Int /\ -32768 <= U16(w) - 32768 /\ U16(w) - 32768 < 32768
        /\ w % 10001 \in Int /\ 0 <= w % 10001 /\ w % 10001 < 32768
        /\ w % 4096 \in Int /\ 0 <= w % 4096 /\ w % 4096 < 4096
        /\ U16(w) \in Int /\ 0 <= U16(w) /\ U16(w) < 65536
        /\ U8(w) \in Int /\ 0 <= U8(w) /\ U8(w) < 256
    BY SMT DEF U16, U8
  <1>2. /\ U16(w) - 32768 \in Int16 /\ w % 10001 \in Int16
        /\ w % 4096 \in Unsigned(4096)
        /\ U16(w) \in UInt16 /\ U8(w) \in UInt8
    BY <1>1, SignedIs, UnsignedIs, SMT DEF Int16, UInt16, UInt8
  <1> QED
    BY <1>1, <1>2 DEF ReadingOf, Reading

\* What the base node shows is the reading that was sent.
THEOREM ReadingsAreShown == Spec => []ChannelsShowReading
  <1>1. ASSUME WordInv PROVE ChannelsShowReading
    <2> DEFINE r == ReadingOf(word)
    <2>1. r \in Reading /\ r.hum >= 0
      BY <1>1, ReadingOfType DEF WordInv
    <2>2. r.temp \in Int /\ r.hum \in Int
      BY <2>1, SignedIs, SMT DEF Reading, Int16
    <2> HIDE DEF r
    <2>3. IsHundredths(Hundredths(r.temp), r.temp) /\ IsHundredths(Hundredths(r.hum), r.hum)
      BY <2>2, HundredthsIs
    <2>4. LET Get(chan) == ChannelGet(SampleFetch(SendUartFrame(r)), chan) IN
            /\ Get("AMBIENT_TEMP") = Hundredths(r.temp)
            /\ Get("HUMIDITY") = Hundredths(r.hum)
            /\ Get("SOUND") = Whole(r.sound \div 64)
            /\ Get("DISTANCE") = Whole(r.dist)
            /\ Get("ALARM_STATUS") = Whole(r.alarm)
      BY <2>1, EveryReadingIsShown
    <2> QED
      BY <2>3, <2>4 DEF ChannelsShowReading, r, Whole
  <1> QED
    BY <1>1, WordInvariant, PTL

\* What main prints of n hundredths: the quotient and the remainder of C's
\* division, both with n's sign.
LEMMA PrintedIs ==
  ASSUME NEW n \in Int
  PROVE  LET p == Printed(Hundredths(n)) IN
           /\ p.units \in Int /\ p.digits \in Int /\ p.units * 100 + p.digits = n
           /\ n >= 0 => 0 <= p.units /\ 0 <= p.digits /\ p.digits < 100
           /\ n <= 0 => p.units <= 0 /\ -100 < p.digits /\ p.digits <= 0
           /\ p.digits = 0 <=> n % 100 = 0
  <1>1. CASE n >= 0
    BY <1>1, SMT DEF Printed, Hundredths, CDiv, CMod
  <1>2. CASE n < 0
    BY <1>2, SMT DEF Printed, Hundredths, CDiv, CMod
  <1> QED
    BY <1>1, <1>2, SMT

LEMMA PrintedReads ==
  ASSUME NEW n \in Int
  PROVE  ReadsAs(Printed(Hundredths(n)), n) <=> n >= 0 \/ n % 100 = 0
  <1> DEFINE u == Printed(Hundredths(n)).units
             d == Printed(Hundredths(n)).digits
  <1>1. /\ u \in Int /\ d \in Int /\ u * 100 + d = n
        /\ n >= 0 => 0 <= u /\ 0 <= d /\ d < 100
        /\ n <= 0 => u <= 0 /\ -100 < d /\ d <= 0
        /\ d = 0 <=> n % 100 = 0
    BY PrintedIs
  <1>2. ReadsAs(Printed(Hundredths(n)), n) <=>
          0 <= d /\ d < 100 /\ u * 100 + (IF u < 0 THEN -d ELSE d) = n
    BY <1>1, SMT DEF ReadsAs
  <1> HIDE DEF u, d
  <1>3. (0 <= d /\ d < 100 /\ u * 100 + (IF u < 0 THEN -d ELSE d) = n)
          <=> n >= 0 \/ n % 100 = 0
    BY <1>1, SMT
  <1> QED
    BY <1>2, <1>3

\* The console is right about the humidity, and about the temperature unless
\* it is below zero and not a whole degree.
THEOREM ConsoleIsRight == Spec => []ConsoleShowsReading
  <1>1. ASSUME WordInv PROVE ConsoleShowsReading
    <2> DEFINE r == ReadingOf(word)
    <2>1. r \in Reading /\ r.hum >= 0
      BY <1>1, ReadingOfType DEF WordInv
    <2>2. r.temp \in Int /\ r.hum \in Int
      BY <2>1, SignedIs, SMT DEF Reading, Int16
    <2> HIDE DEF r
    <2>3. LET Get(chan) == ChannelGet(SampleFetch(SendUartFrame(r)), chan) IN
            /\ Get("AMBIENT_TEMP") = Hundredths(r.temp)
            /\ Get("HUMIDITY") = Hundredths(r.hum)
      BY <2>1, EveryReadingIsShown
    <2>4. ReadsAs(Printed(Hundredths(r.hum)), r.hum)
      BY <2>1, <2>2, PrintedReads
    <2>5. /\ ReadsAs(Printed(Hundredths(r.temp)), r.temp) <=> r.temp >= 0 \/ r.temp % 100 = 0
          /\ Printed(Hundredths(r.temp)).units * 100 + Printed(Hundredths(r.temp)).digits = r.temp
      BY <2>2, PrintedReads, PrintedIs
    <2> QED
      BY <2>3, <2>4, <2>5 DEF ConsoleShowsReading, r
  <1> QED
    BY <1>1, WordInvariant, PTL

\* A reading handed back as a threshold arrives as that reading.
THEOREM EveryReadingAsThreshold ==
  ASSUME NEW r \in Reading, r.hum >= 0
  PROVE  LET Got(chan) == ChannelGet(SampleFetch(SendUartFrame(r)), chan) IN
           /\ After("TEMP_MAX", Got("AMBIENT_TEMP")).temp = r.temp
           /\ After("HUM_MAX", Got("HUMIDITY")).hum_max = r.hum
           /\ After("HUM_MIN", Got("HUMIDITY")).hum_min = r.hum
           /\ After("SOUND_THRESH", Got("SOUND")).sound = r.sound \div 64
           /\ After("DIST_THRESH", Got("DISTANCE")).dist = r.dist
  <1>1. /\ r.temp \in Int16 /\ r.temp \in Int /\ r.hum \in UInt16 /\ r.hum \in Int
        /\ r.sound \div 64 \in Int /\ r.sound \div 64 \in 0..63
        /\ r.dist \in UInt16 /\ r.dist \in Int
    <2>1. /\ r.temp \in Int16 /\ r.temp \in Int
          /\ r.hum \in Int /\ 0 <= r.hum /\ r.hum < 65536
          /\ r.sound \in Int /\ 0 <= r.sound /\ r.sound < 4096
          /\ r.dist \in UInt16 /\ r.dist \in Int
      BY SignedIs, UnsignedIs, SMT DEF Reading, Int16, UInt16
    <2>2. r.hum \in UInt16
      BY <2>1, UnsignedIs, SMT DEF UInt16
    <2>3. r.sound \div 64 \in Int /\ r.sound \div 64 \in 0..63
      BY <2>1, SMT
    <2> QED
      BY <2>1, <2>2, <2>3
  <1> QED
    BY <1>1, EveryReadingIsShown, EverySettingThatFits

\* What the application reads and hands back to attr_set is what the sensor
\* node then compares with.
THEOREM ReadingsAreThresholds == Spec => []ReadingAsThreshold
  <1>1. ASSUME WordInv PROVE ReadingAsThreshold
    BY <1>1, ReadingOfType, EveryReadingAsThreshold DEF WordInv, ReadingAsThreshold
  <1> QED
    BY <1>1, WordInvariant, PTL

\* A setting arrives exactly if its field can hold it.
THEOREM SettingsThatFit == Spec => []OnlyFittingSettingsArrive
  <1>1. ASSUME WordInv PROVE OnlyFittingSettingsArrive
    <2>1. word \in Int /\ -word \in Int
      BY <1>1, SMT DEF WordInv
    <2> QED
      BY <2>1, EverySettingThatFits DEF OnlyFittingSettingsArrive
  <1> QED
    BY <1>1, WordInvariant, PTL

\* Single precision loses at most a hundredth, and keeps the order.
THEOREM FloatsAreHarmless == Spec => []FloatsLoseAHundredth
  <1>1. ASSUME WordInv PROVE FloatsLoseAHundredth
    <2>1. ASSUME NEW n \in {word, -word}, n \in Int16
          PROVE  Magnitude(n) - Magnitude(InHundredths(n, 100)) \in 0..1
      <3>1. n \in Int /\ -100000 <= n /\ n <= 100000
        BY <2>1, SignedIs, SMT DEF Int16
      <3> DEFINE h == InHundredths(n, 100)
      <3>2. h \in Int /\ (n >= 0 => 0 <= h /\ h <= n /\ n <= h + 1)
                      /\ (n <= 0 => n <= h /\ h <= n + 1 /\ h <= 0)
        BY <3>1, TemperatureSent
      <3> HIDE DEF h
      <3>3. Magnitude(n) - Magnitude(h) \in 0..1
        BY <3>1, <3>2, SMT DEF Magnitude
      <3> QED
        BY <3>3 DEF h
    <2>2. ASSUME word \in Unsigned(100001)
          PROVE  /\ (word \div 10) - InHundredths(word, 1000) \in 0..1
                 /\ FloatLess(FloatDiv(word, 100), FloatDiv(word + 1, 100))
      <3>1. word \in Nat /\ word <= 100000
        BY <2>2, UnsignedIs, SMT
      <3>2. word + 1 \in Dividend
        BY <3>1, SMT DEF Dividend
      <3> QED
        BY <3>1, <3>2, HumiditySent, FloatsCompare
    <2> QED
      BY <2>1, <2>2 DEF FloatsLoseAHundredth
  <1> QED
    BY <1>1, WordInvariant, PTL

---------------------------------------------------------------------------
(* The compensation.                                                       *)

LEMMA CalibIs ==
  /\ Calib.par_t1 \in Nat /\ 25600 <= Calib.par_t1 /\ Calib.par_t1 <= 26400
  /\ Calib.par_t2 \in Nat /\ 26000 <= Calib.par_t2 /\ Calib.par_t2 <= 26800
  /\ Calib.par_t3 \in Nat /\ Calib.par_t3 <= 10
  /\ Calib.par_h1 \in Nat /\ 700 <= Calib.par_h1 /\ Calib.par_h1 <= 900
  /\ Calib.par_h2 \in Nat /\ 900 <= Calib.par_h2 /\ Calib.par_h2 <= 1100
  /\ Calib.par_h3 = 0 /\ Calib.par_h4 = 45 /\ Calib.par_h5 = 20
  /\ Calib.par_h6 = 120 /\ Calib.par_h7 = -100
  <1>1. /\ Calib.par_t1 \in Int /\ Calib.par_t2 \in Int /\ Calib.par_t3 \in Int
        /\ Calib.par_h1 \in Int /\ Calib.par_h2 \in Int
    BY CalibAssumption
  <1> QED
    BY <1>1, CalibAssumption, SMT

LEMMA FitsIs ==
  ASSUME NEW x \in Int, NEW y \in Int, Magnitude(x) * Magnitude(y) <= MaxInt
  PROVE  Fits(x, y)
  <1>1. PICK a \in Nat, b \in Nat : a = Magnitude(x) /\ b = Magnitude(y)
    BY SMT DEF Magnitude
  <1>2. CASE b = 0
    BY <1>1, <1>2, SMT DEF Fits, Magnitude
  <1>3. CASE b > 0
    <2>1. PICK q \in Nat, r \in Nat : MaxInt \div b = q /\ MaxInt = b * q + r /\ r < b
      BY <1>3, DivIs, SMT DEF MaxInt
    <2>2. b * a < b * (q + 1)
      BY <1>1, <2>1, SMT
    <2>3. a <= q
      BY <1>3, <2>2, SMT
    <2> QED
      BY <1>1, <2>1, <2>3 DEF Fits
  <1> QED
    BY <1>2, <1>3, SMT

LEMMA SquareIs ==
  ASSUME NEW x \in Int, NEW a \in Nat, -a <= x, x <= a
  PROVE  Squared(x) \in Nat /\ Squared(x) <= a * a
  BY SMT DEF Squared

---------------------------------------------------------------------------
(* Temperature, for every raw value of 20 bits.                            *)

RawTemp == {a \in Nat : a < 1048576}

\* var1, its half, the half's square and its part of t_fine, before the shift,
\* as var1's own is.
TempTerms(a, v, x, s, p, w) ==
  /\ v = (a \div 8) - 2 * Calib.par_t1 /\ x = v \div 2 /\ s = x * x
  /\ -52800 <= v /\ v <= 79871 /\ s <= 1594884096
  /\ p = v * Calib.par_t2 /\ -1415040000 <= p /\ p <= 2140542800
  /\ w = (s \div 4096) * Calib.par_t3 * 16 /\ w <= 62300320
  /\ TempVar1(a, Calib) = v /\ Square(a, Calib) = s \div 4096

LEMMA TempTermsAre ==
  ASSUME NEW a \in RawTemp
  PROVE  \E v, x, p \in Int, s, w \in Nat : TempTerms(a, v, x, s, p, w)
  <1>1. PICK v \in Int : v = (a \div 8) - 2 * Calib.par_t1 /\ -52800 <= v /\ v <= 79871
    BY CalibIs, SMT DEF RawTemp
  <1>2. PICK x \in Int : x = v \div 2 /\ -39936 <= x /\ x <= 39936
    BY <1>1, SMT
  <1>3. PICK s \in Nat : s = Squared(x) /\ s <= 39936 * 39936
    <2>1. 39936 \in Nat /\ -39936 <= x /\ x <= 39936
      BY <1>2, SMT
    <2>2. Squared(x) \in Nat /\ Squared(x) <= 39936 * 39936
      BY <2>1, SquareIs
    <2> QED
      BY <2>2
  <1>4. PICK p \in Int : p = v * Calib.par_t2 /\ -1415040000 <= p /\ p <= 2140542800
    <2>1. CASE v >= 0
      <3>1. 0 <= v * Calib.par_t2 /\ v * Calib.par_t2 <= v * 26800
        BY <2>1, CalibIs, SMT
      <3> QED
        BY <1>1, <2>1, <3>1, CalibIs, SMT
    <2>2. CASE v < 0
      <3>1. 0 <= (-v) * Calib.par_t2 /\ (-v) * Calib.par_t2 <= (-v) * 26800
        BY <2>2, CalibIs, SMT
      <3> QED
        BY <1>1, <2>2, <3>1, CalibIs, SMT
    <2> QED
      BY <2>1, <2>2, SMT
  <1>5. PICK w \in Nat : w = (s \div 4096) * Calib.par_t3 * 16 /\ w <= 62300320
    <2>1. PICK e \in Nat : e = s \div 4096 /\ e <= 389377
      BY <1>3, SMT
    <2>2. PICK f \in Nat : f = e * Calib.par_t3 /\ f <= 10 * e
      BY CalibIs, SMT
    <2> QED
      BY <2>1, <2>2, SMT
  <1>6. TempVar1(a, Calib) = v /\ Square(a, Calib) = s \div 4096
    BY <1>1, <1>2, <1>3, SMT DEF TempVar1, Square
  <1>7. TempTerms(a, v, x, s, p, w)
    BY <1>1, <1>2, <1>3, <1>4, <1>5, <1>6, SMT DEF TempTerms, Squared
  <1> QED
    BY <1>7, Zenon

LEMMA EveryTempFits ==
  ASSUME NEW a \in RawTemp
  PROVE  TempFits(a, Calib)
  <1>1. PICK v \in Int, x \in Int, p \in Int, s \in Nat, w \in Nat :
          TempTerms(a, v, x, s, p, w)
    BY TempTermsAre
  <1>2. Fits(v, Calib.par_t2)
    <2>1. Magnitude(v) * Magnitude(Calib.par_t2) = Magnitude(p)
      <3>1. Magnitude(Calib.par_t2) = Calib.par_t2
        BY CalibIs, SMT DEF Magnitude
      <3>2. CASE v >= 0
        <4>1. v * Calib.par_t2 >= 0
          BY <3>2, CalibIs, SMT
        <4> QED
          BY <1>1, <3>1, <3>2, <4>1, CalibIs, SMT DEF Magnitude, TempTerms
      <3>3. CASE v < 0
        <4>1. (-v) * Calib.par_t2 >= 0 /\ (-v) * Calib.par_t2 = - (v * Calib.par_t2)
          BY <3>3, CalibIs, SMT
        <4>2. p = v * Calib.par_t2
          BY <1>1 DEF TempTerms
        <4> QED
          BY <3>1, <3>3, <4>1, <4>2, SMT DEF Magnitude
      <3> QED
        BY <3>2, <3>3, SMT
    <2>2. Magnitude(p) <= MaxInt
      BY <1>1, SMT DEF TempTerms, Magnitude, MaxInt
    <2> QED
      BY <2>1, <2>2, CalibIs, FitsIs
  <1>3. Fits(x, x)
    <2>1. Magnitude(x) * Magnitude(x) = s
      BY <1>1, SMT DEF TempTerms, Magnitude
    <2>2. s <= MaxInt
      BY <1>1, SMT DEF TempTerms, MaxInt
    <2> QED
      BY <2>1, <2>2, FitsIs
  <1>4. Fits(s \div 4096, Calib.par_t3 * 16)
    <2>1. PICK e \in Nat, f \in Nat : e = s \div 4096 /\ f = Calib.par_t3 * 16
      BY CalibIs, SMT
    <2>2. Magnitude(e) = e /\ Magnitude(f) = f
      BY SMT DEF Magnitude
    <2>3. e * f = w
      <3>1. w = e * Calib.par_t3 * 16
        BY <1>1, <2>1 DEF TempTerms
      <3> QED
        BY <2>1, <3>1, CalibIs, SMT
    <2>4. Magnitude(e) * Magnitude(f) <= MaxInt
      BY <1>1, <2>2, <2>3, SMT DEF TempTerms, MaxInt
    <2> QED
      BY <2>1, <2>4, FitsIs
  <1>5. TempVar1(a, Calib) = v /\ v \div 2 = x /\ Square(a, Calib) = s \div 4096
    BY <1>1 DEF TempTerms
  <1> QED
    BY <1>2, <1>3, <1>4, <1>5, SMT DEF TempFits

\* calc_temp in one formula, of its two parts.
TempOf(p, w) == (p \div 2048 + w \div 16384) * 5

LEMMA TempIs ==
  ASSUME NEW a, NEW v \in Int, NEW x \in Int, NEW p \in Int, NEW s \in Nat, NEW w \in Nat,
         TempTerms(a, v, x, s, p, w)
  PROVE  /\ TempOf(p, w) \in Int
         /\ CalcTemp(a, Calib) = (TempOf(p, w) + 128) \div 256
  <1>1. TempOf(p, w) \in Int
    BY SMT DEF TempOf
  <1>2. TFine(a, Calib) = p \div 2^11 + w \div 2^14
    BY DEF TempTerms, TFine
  <1> QED
    BY <1>1, <1>2, SMT DEF CalcTemp, Hundredth, TempOf

LEMMA TempInRange ==
  ASSUME NEW a \in RawTemp
  PROVE  CalcTemp(a, Calib) \in Int16
  <1>1. PICK v \in Int, x \in Int, p \in Int, s \in Nat, w \in Nat :
          TempTerms(a, v, x, s, p, w)
    BY TempTermsAre
  <1>2. LET t == (TempOf(p, w) + 128) \div 256 IN t \in Int /\ -32768 <= t /\ t < 32768
    BY <1>1, SMT DEF TempTerms, TempOf
  <1> QED
    BY <1>1, <1>2, TempIs, SignedIs, SMT DEF Int16

\* A higher raw value never gives a lower temperature: var1 grows by more than
\* its square shrinks.
LEMMA TempGrows ==
  ASSUME NEW a \in RawTemp, NEW b \in RawTemp, a <= b
  PROVE  CalcTemp(a, Calib) <= CalcTemp(b, Calib)
  <1>1. PICK v \in Int, x \in Int, p \in Int, s \in Nat, w \in Nat :
          TempTerms(a, v, x, s, p, w)
    BY TempTermsAre
  <1>2. PICK v2 \in Int, x2 \in Int, p2 \in Int, s2 \in Nat, w2 \in Nat :
          TempTerms(b, v2, x2, s2, p2, w2)
    BY TempTermsAre
  <1>3. v <= v2
    BY <1>1, <1>2, CalibIs, SMT DEF TempTerms, RawTemp
  <1>4. x <= x2 /\ x >= -26400 /\ 2 * (x2 - x) <= v2 - v + 1
    BY <1>1, <1>2, <1>3, SMT DEF TempTerms
  <1>5. s2 >= s - 52800 * (x2 - x)
    <2>1. s2 - s = (x2 - x) * (x2 + x)
      BY <1>1, <1>2, SMT DEF TempTerms
    <2>2. (x2 - x) * (x2 + x) >= (x2 - x) * (-52800)
      BY <1>4, SMT
    <2> QED
      BY <2>1, <2>2, SMT
  <1>6. p2 >= p + 26000 * (v2 - v)
    <2>1. PICK k \in Nat : k = Calib.par_t2 /\ 26000 <= k
      BY CalibIs, SMT
    <2>2. p = v * k /\ p2 = v2 * k
      <3>1. p = v * Calib.par_t2 /\ p2 = v2 * Calib.par_t2
        BY <1>1, <1>2, SMT DEF TempTerms
      <3> QED
        BY <2>1, <3>1
    <2>3. p2 - p = (v2 - v) * k
      BY <2>2, SMT
    <2>4. (v2 - v) * k >= (v2 - v) * 26000
      BY <1>3, <2>1, SMT
    <2> QED
      BY <2>3, <2>4, SMT
  <1>7. w2 >= w \/ w2 >= w - 160 * (13 * (x2 - x) + 1)
    <2>1. PICK e \in Nat, e2 \in Nat : e = s \div 4096 /\ e2 = s2 \div 4096
      BY SMT
    <2>2. e2 >= e - (13 * (x2 - x) + 1)
      BY <1>4, <1>5, <2>1, SMT
    <2>3. PICK k \in Nat : k = Calib.par_t3 * 16 /\ k <= 160
      BY CalibIs, SMT
    <2>4. w = e * k /\ w2 = e2 * k
      <3>1. w = e * Calib.par_t3 * 16 /\ w2 = e2 * Calib.par_t3 * 16
        BY <1>1, <1>2, <2>1 DEF TempTerms
      <3> QED
        BY <2>3, <3>1, CalibIs, SMT
    <2>5. CASE e2 >= e
      BY <2>4, <2>5, SMT
    <2>6. CASE e2 < e
      <3>1. (e - e2) * k <= (e - e2) * 160
        BY <2>3, <2>6, SMT
      <3> QED
        BY <2>2, <2>4, <3>1, SMT
    <2> QED
      BY <2>5, <2>6, SMT
  <1>8. TempOf(p, w) <= TempOf(p2, w2)
    <2>1. CASE v = v2
      <3>1. p = p2 /\ w = w2
        BY <1>1, <1>2, <2>1 DEF TempTerms
      <3>2. TempOf(p, w) \in Int
        BY <1>1, TempIs
      <3> QED
        BY <3>1, <3>2, SMT
    <2>2. CASE v < v2
      BY <1>4, <1>6, <1>7, <2>2, SMT DEF TempOf
    <2> QED
      BY <1>3, <2>1, <2>2, SMT
  <1> QED
    <2>1. /\ TempOf(p, w) \in Int
          /\ CalcTemp(a, Calib) = (TempOf(p, w) + 128) \div 256
      BY <1>1, TempIs
    <2>2. /\ TempOf(p2, w2) \in Int
          /\ CalcTemp(b, Calib) = (TempOf(p2, w2) + 128) \div 256
      BY <1>2, TempIs
    <2> QED
      BY <1>8, <2>1, <2>2, SMT

---------------------------------------------------------------------------
(* Humidity, for every raw value, at every temperature from -41 to 86 C.   *)

RawHum  == {h \in Nat : h < 65536}
HumTemp == {t \in Int : -4100 <= t /\ t <= 8600}

LEMMA ClampIs ==
  ASSUME NEW x \in Int
  PROVE  Clamp(x) = IF x < 0 THEN 0 ELSE IF x > 100000 THEN 100000 ELSE x
  <1>1. Min({100000, x}) = IF x > 100000 THEN 100000 ELSE x
    BY SMT DEF Min
  <1>2. ASSUME NEW y \in Int PROVE Max({0, y}) = IF y < 0 THEN 0 ELSE y
    BY SMT DEF Max
  <1> QED
    BY <1>1, <1>2, SMT DEF Clamp

\* var3 is the raw value's distance from a zero, times a gain; var4 is another
\* factor.  Both depend on the temperature only.
Zero == 16 * Calib.par_h1

LEMMA ZeroIs == Zero \in Nat /\ 11200 <= Zero /\ Zero <= 14400
  BY CalibIs, SMT DEF Zero

LEMMA GainIs ==
  ASSUME NEW t \in HumTemp
  PROVE  /\ HumVar2(Calib, t) \in Int
         /\ 12000 <= HumVar2(Calib, t) /\ HumVar2(Calib, t) <= 24250
         /\ HumVar4(Calib, t) \in Int
         /\ 400 <= HumVar4(Calib, t) /\ HumVar4(Calib, t) <= 1250
         /\ \A h \in RawHum : HumVar1(h, Calib, t) = h - Zero
         /\ Fits(t, CDiv(t * Calib.par_h5, 100))
  <1>1. t \in Int /\ -4100 <= t /\ t <= 8600
    BY DEF HumTemp
  <1>2. PICK a \in Int : a = CDiv(t * 45, 100) /\ -1845 <= a /\ a <= 3870
    BY <1>1, SMT DEF CDiv
  <1>3. PICK b \in Int : b = CDiv(t * 20, 100) /\ -820 <= b /\ b <= 1720
                         /\ (t >= 0 => b >= 0) /\ (t <= 0 => b <= 0)
    BY <1>1, SMT DEF CDiv
  <1>4. PICK p \in Nat : p = t * b /\ p <= 14792000
    <2>1. CASE t >= 0
      <3>1. t * b >= 0 /\ t * b <= 8600 * b
        BY <1>1, <1>3, <2>1, SMT
      <3> QED
        BY <1>1, <1>3, <3>1, SMT
    <2>2. CASE t < 0
      <3>1. t * b = (-t) * (-b)
        BY <1>1, <1>3, SMT
      <3>2. (-t) * (-b) >= 0 /\ (-t) * (-b) <= 4100 * (-b)
        BY <1>1, <1>3, <2>2, SMT
      <3> QED
        BY <1>1, <1>3, <3>1, <3>2, SMT
    <2> QED
      BY <1>1, <2>1, <2>2
  <1>5. PICK c \in Int : c = CDiv(p \div 64, 100) /\ 0 <= c /\ c <= 2312
    BY <1>4, SMT DEF CDiv
  <1>6. HumVar2(Calib, t) = (Calib.par_h2 * (a + c + 16384)) \div 1024
    BY <1>1, <1>2, <1>3, <1>4, <1>5, CalibIs, SMT DEF HumVar2
  <1>7. /\ HumVar2(Calib, t) \in Int
        /\ 12000 <= HumVar2(Calib, t) /\ HumVar2(Calib, t) <= 24250
    <2>1. PICK m \in Nat : m = a + c + 16384 /\ 14539 <= m /\ m <= 22566
      BY <1>2, <1>5, SMT
    <2>2. PICK n \in Nat : n = Calib.par_h2 * m /\ 900 * m <= n /\ n <= 1100 * m
      BY <2>1, CalibIs, SMT
    <2>3. HumVar2(Calib, t) = n \div 1024
      BY <1>6, <2>1, <2>2
    <2> QED
      BY <2>1, <2>2, <2>3, SMT
  <1>8. PICK d \in Int : d = CDiv(t * (-100), 100) /\ -8600 <= d /\ d <= 4100
    BY <1>1, SMT DEF CDiv
  <1>9. HumVar4(Calib, t) = (15360 + d) \div 16
    BY <1>8, CalibIs, SMT DEF HumVar4
  <1>10. /\ HumVar4(Calib, t) \in Int
         /\ 400 <= HumVar4(Calib, t) /\ HumVar4(Calib, t) <= 1250
    BY <1>8, <1>9, SMT
  <1>11. ASSUME NEW h \in RawHum PROVE HumVar1(h, Calib, t) = h - Zero
    <2>1. CDiv(t * 0, 100) \div 2 = 0
      BY <1>1, SMT DEF CDiv
    <2> QED
      BY <2>1, CalibIs, SMT DEF HumVar1, RawHum, Zero
  <1>12. Fits(t, b)
    <2>1. Magnitude(t) * Magnitude(b) = p
      BY <1>1, <1>3, <1>4, SMT DEF Magnitude
    <2>2. p <= MaxInt
      BY <1>4, SMT DEF MaxInt
    <2> QED
      BY <1>1, <2>1, <2>2, FitsIs
  <1> QED
    BY <1>3, <1>7, <1>10, <1>11, <1>12, CalibIs

\* What calc_hum makes of var3 = v and var4 = k, before it is clamped.
HumSum(v, k) == v + (k * (Squared(Scaled(v)) \div 1024)) \div 2
HumOf(sum)   == ((sum \div 1024) * 1000) \div 4096

LEMMA HumIs ==
  ASSUME NEW h \in RawHum, NEW t \in HumTemp
  PROVE  LET v == (h - Zero) * HumVar2(Calib, t) IN
           /\ v \in Int /\ HumSum(v, HumVar4(Calib, t)) \in Int
           /\ CalcHum(h, Calib, t) = Clamp(HumOf(HumSum(v, HumVar4(Calib, t))))
  <1>1. PICK g \in Int, k \in Int : g = HumVar2(Calib, t) /\ k = HumVar4(Calib, t)
    BY GainIs, SMT
  <1>2. HumVar1(h, Calib, t) = h - Zero
    BY GainIs, SMT
  <1>3. PICK v \in Int : v = (h - Zero) * g
    BY ZeroIs, SMT DEF RawHum
  <1>4. PICK sum \in Int : sum = HumSum(v, k)
    BY SMT DEF HumSum, Squared, Scaled
  <1>5. CalcHum(h, Calib, t) = Clamp(HumOf(sum))
    BY <1>1, <1>2, <1>3, <1>4, SMT DEF CalcHum, HumSum, HumOf
  <1> QED
    BY <1>1, <1>3, <1>4, <1>5, SMT

\* var5 and var6 in the range that matters.
LEMMA ScaledIs ==
  ASSUME NEW v \in Int, -350000000 <= v, v <= 430000000
  PROVE  \E s \in Int, q \in Nat :
           s = Scaled(v) /\ q = Squared(s) /\ q <= 688852516
  <1>1. PICK s \in Int : s = Scaled(v) /\ -26246 <= s /\ s <= 26246
    BY SMT DEF Scaled
  <1>2. s * s \in Nat /\ s * s <= 688852516
    BY <1>1, SMT
  <1> QED
    BY <1>1, <1>2, SMT DEF Squared

LEMMA Var6Is ==
  ASSUME NEW q \in Nat, q <= 688852516, NEW k \in Int, 400 <= k, k <= 1250
  PROVE  \E e \in Nat, z \in Nat : e = q \div 1024 /\ z = k * e /\ z <= 850000000
  <1>1. PICK e \in Nat : e = q \div 1024 /\ e <= 672708
    BY SMT
  <1>2. k * e >= 0 /\ k * e <= 1250 * e
    BY SMT
  <1> QED
    BY <1>1, <1>2, SMT

\* Up to var3 = 430000000 no product overflows.
LEMMA HumFitsUpTo ==
  ASSUME NEW h \in RawHum, NEW t \in HumTemp,
         (h - Zero) * HumVar2(Calib, t) <= 430000000
  PROVE  HumFits(h, Calib, t)
  <1>1. PICK g \in Int, k \in Int :
          /\ g = HumVar2(Calib, t) /\ k = HumVar4(Calib, t)
          /\ 12000 <= g /\ g <= 24250 /\ 400 <= k /\ k <= 1250
    BY GainIs, SMT
  <1>2. HumVar1(h, Calib, t) = h - Zero
    BY GainIs, SMT
  <1>3. PICK u \in Int : u = h - Zero /\ -14400 <= u /\ u <= 54335
    BY ZeroIs, SMT DEF RawHum
  <1>4. PICK v \in Int : v = u * g /\ -350000000 <= v /\ v <= 430000000
    <2>1. u * g \in Int /\ u * g >= -350000000
      <3>1. CASE u >= 0
        BY <1>1, <3>1, SMT
      <3>2. CASE u < 0
        <4>1. (-u) * g <= (-u) * 24250
          BY <1>1, <3>2, SMT
        <4> QED
          BY <1>3, <4>1, SMT
      <3> QED
        BY <3>1, <3>2, SMT
    <2> QED
      BY <1>1, <1>3, <2>1, SMT
  <1>5. PICK s \in Int, q \in Nat : s = Scaled(v) /\ q = Squared(s) /\ q <= 688852516
    BY <1>4, ScaledIs, SMT
  <1>6. PICK e \in Nat, z \in Nat : e = q \div 1024 /\ z = k * e /\ z <= 850000000
    BY <1>1, <1>5, Var6Is, SMT
  <1>7. Fits(u, g)
    <2>1. Magnitude(u) * Magnitude(g) <= MaxInt
      <3>1. Magnitude(u) <= 54335 /\ Magnitude(u) \in Nat /\ Magnitude(g) = g
        BY <1>1, <1>3, SMT DEF Magnitude
      <3>2. Magnitude(u) * g <= 54335 * g
        BY <1>1, <3>1, SMT
      <3> QED
        BY <1>1, <3>1, <3>2, SMT DEF MaxInt
    <2> QED
      BY <2>1, FitsIs, SMT
  <1>8. Fits(s, s)
    <2>1. Magnitude(s) * Magnitude(s) = q /\ q <= MaxInt
      BY <1>5, SMT DEF Squared, Magnitude, MaxInt
    <2> QED
      BY <2>1, FitsIs, SMT
  <1>9. Fits(k, e)
    <2>1. Magnitude(k) * Magnitude(e) <= MaxInt
      BY <1>1, <1>6, SMT DEF Magnitude, MaxInt
    <2> QED
      BY <2>1, FitsIs, SMT
  <1>10. SumFits(v, z \div 2)
    BY <1>4, <1>6, SMT DEF SumFits, MaxInt
  <1>11. Fits((v + z \div 2) \div 1024, 1000)
    <2>1. PICK c \in Int : c = (v + z \div 2) \div 1024 /\ -2147483 <= c /\ c <= 2147483
      BY <1>4, <1>6, SMT
    <2>2. Magnitude(c) * Magnitude(1000) <= MaxInt
      BY <2>1, SMT DEF Magnitude, MaxInt
    <2> QED
      BY <2>1, <2>2, FitsIs, SMT
  <1>12. Fits(t, CDiv(t * Calib.par_h5, 100))
    BY GainIs, SMT
  <1> QED
    BY <1>1, <1>2, <1>3, <1>4, <1>5, <1>6, <1>7, <1>8, <1>9, <1>10, <1>11, <1>12,
       SMT DEF HumFits

\* var3, as a number.
LEMMA Var3Is ==
  ASSUME NEW h \in RawHum, NEW t \in HumTemp
  PROVE  \E g, k, v \in Int :
           /\ g = HumVar2(Calib, t) /\ k = HumVar4(Calib, t) /\ v = (h - Zero) * g
           /\ 12000 <= g /\ g <= 24250 /\ 400 <= k /\ k <= 1250
           /\ -350000000 <= v
           /\ CalcHum(h, Calib, t) = Clamp(HumOf(HumSum(v, k)))
  <1>1. PICK g \in Int, k \in Int :
          /\ g = HumVar2(Calib, t) /\ k = HumVar4(Calib, t)
          /\ 12000 <= g /\ g <= 24250 /\ 400 <= k /\ k <= 1250
    BY GainIs, SMT
  <1>2. PICK u \in Int : u = h - Zero /\ -14400 <= u
    BY ZeroIs, SMT DEF RawHum
  <1>3. PICK v \in Int : v = u * g
    BY SMT
  <1>4. -350000000 <= v
    <2>1. CASE u >= 0
      BY <1>1, <1>3, <2>1, SMT
    <2>2. CASE u < 0
      <3>1. (-u) * g <= (-u) * 24250
        BY <1>1, <2>2, SMT
      <3> QED
        BY <1>2, <1>3, <3>1, SMT
    <2> QED
      BY <2>1, <2>2, SMT
  <1>5. CalcHum(h, Calib, t) = Clamp(HumOf(HumSum(v, k)))
    BY <1>1, <1>2, <1>3, HumIs, SMT
  <1> QED
    BY <1>1, <1>2, <1>3, <1>4, <1>5, SMT

\* Where var3 is negative, its square does not outweigh it: the humidity is 0.
LEMMA HumOfNegative ==
  ASSUME NEW v \in Int, -350000000 <= v, v < 0,
         NEW k \in Int, 400 <= k, k <= 1250
  PROVE  Clamp(HumOf(HumSum(v, k))) = 0
  <1>1. PICK m \in Nat : /\ -m = Scaled(v) /\ 1 <= m /\ m <= 21363
                         /\ v < 16384 - 16384 * m
    BY SMT DEF Scaled
  <1>2. PICK q \in Nat : q = Squared(Scaled(v)) /\ q = m * m
    BY <1>1, SMT DEF Squared
  <1>3. PICK e \in Nat : e = q \div 1024 /\ 1024 * e <= q
    BY SMT
  <1>4. PICK z \in Nat : z = k * e /\ z <= 1250 * e
    BY SMT
  <1>5. v + z \div 2 < 0
    <2>1. CASE m < 32
      <3>1. m * m <= 31 * m
        BY <2>1, SMT
      <3>2. e = 0
        BY <1>2, <1>3, <2>1, <3>1, SMT
      <3> QED
        BY <1>4, <3>2, SMT
    <2>2. CASE m >= 32
      <3>1. q <= 21363 * m
        BY <1>1, <1>2, SMT
      <3> QED
        BY <1>1, <1>3, <1>4, <2>2, <3>1, SMT
    <2> QED
      BY <2>1, <2>2, SMT
  <1>6. PICK sum \in Int : sum = HumSum(v, k) /\ sum < 0
    BY <1>2, <1>3, <1>4, <1>5, SMT DEF HumSum
  <1>7. HumOf(sum) \in Int /\ HumOf(sum) < 0
    BY <1>6, SMT DEF HumOf
  <1> QED
    BY <1>6, <1>7, ClampIs

\* The larger sum gives no less.
LEMMA HumOfGrows ==
  ASSUME NEW a \in Int, NEW b \in Int, a <= b
  PROVE  Clamp(HumOf(a)) <= Clamp(HumOf(b))
  <1>1. PICK x \in Int, y \in Int : x = HumOf(a) /\ y = HumOf(b) /\ x <= y
    BY SMT DEF HumOf
  <1> QED
    BY <1>1, ClampIs, SMT

\* What var5 and var6 make of a var3 that is not negative grows with it.
LEMMA HumSumGrows ==
  ASSUME NEW v \in Int, NEW w \in Int, 0 <= v, v <= w,
         NEW k \in Int, 400 <= k
  PROVE  /\ HumSum(v, k) \in Int /\ HumSum(w, k) \in Int
         /\ v <= HumSum(v, k) /\ HumSum(v, k) <= HumSum(w, k)
  <1>1. PICK m \in Nat, n \in Nat : m = Scaled(v) /\ n = Scaled(w) /\ m <= n
    BY SMT DEF Scaled
  <1>2. PICK p \in Nat, q \in Nat : /\ p = Squared(Scaled(v)) /\ q = Squared(Scaled(w))
                                   /\ p = m * m /\ q = n * n
    BY <1>1, SMT DEF Squared
  <1>3. p <= q
    <2>1. m * m <= m * n /\ m * n <= n * n
      BY <1>1, SMT
    <2> QED
      BY <1>2, <2>1, SMT
  <1>4. PICK d \in Nat, e \in Nat : d = p \div 1024 /\ e = q \div 1024 /\ d <= e
    BY <1>3, SMT
  <1>5. PICK y \in Nat, z \in Nat : y = k * d /\ z = k * e /\ y <= z
    BY <1>4, SMT
  <1> QED
    BY <1>2, <1>4, <1>5, SMT DEF HumSum

\* A higher raw value never gives a lower humidity.
LEMMA HumGrows ==
  ASSUME NEW h \in RawHum, NEW i \in RawHum, h <= i, NEW t \in HumTemp
  PROVE  CalcHum(h, Calib, t) <= CalcHum(i, Calib, t)
  <1>1. PICK g \in Int, k \in Int, v \in Int :
          /\ g = HumVar2(Calib, t) /\ k = HumVar4(Calib, t) /\ v = (h - Zero) * g
          /\ 12000 <= g /\ g <= 24250 /\ 400 <= k /\ k <= 1250
          /\ -350000000 <= v
          /\ CalcHum(h, Calib, t) = Clamp(HumOf(HumSum(v, k)))
    BY Var3Is, SMT
  <1>2. PICK w \in Int : /\ w = (i - Zero) * g /\ -350000000 <= w
                         /\ CalcHum(i, Calib, t) = Clamp(HumOf(HumSum(w, k)))
    BY <1>1, Var3Is, SMT
  <1>3. v <= w
    <2>1. (i - h) * g >= 0 /\ w - v = (i - h) * g
      BY <1>1, <1>2, ZeroIs, SMT DEF RawHum
    <2> QED
      BY <2>1, SMT
  <1>4. CASE v < 0
    <2>1. CalcHum(h, Calib, t) = 0
      BY <1>1, <1>4, HumOfNegative
    <2>2. CalcHum(i, Calib, t) >= 0
      <3>1. HumOf(HumSum(w, k)) \in Int
        BY <1>1, <1>2, SMT DEF HumOf, HumSum, Squared, Scaled
      <3> QED
        BY <1>2, <3>1, ClampIs, SMT
    <2> QED
      BY <2>1, <2>2
  <1>5. CASE v >= 0
    BY <1>1, <1>2, <1>3, <1>5, HumSumGrows, HumOfGrows, SMT
  <1> QED
    BY <1>4, <1>5, SMT

\* Only a raw value past the first that gives 100 % can overflow.
LEMMA OverflowsAfterFull ==
  ASSUME NEW h \in RawHum, NEW i \in RawHum, i = h + 1, NEW t \in HumTemp,
         ~ HumFits(i, Calib, t)
  PROVE  CalcHum(h, Calib, t) = 100000
  <1>1. PICK g \in Int, k \in Int, v \in Int :
          /\ g = HumVar2(Calib, t) /\ k = HumVar4(Calib, t) /\ v = (h - Zero) * g
          /\ 12000 <= g /\ g <= 24250 /\ 400 <= k /\ k <= 1250
          /\ -350000000 <= v
          /\ CalcHum(h, Calib, t) = Clamp(HumOf(HumSum(v, k)))
    BY Var3Is, SMT
  <1>2. (i - Zero) * g = v + g
    BY <1>1, ZeroIs, SMT DEF RawHum
  <1>3. v + g > 430000000
    BY <1>1, <1>2, HumFitsUpTo, SMT
  <1>4. 0 <= v /\ v >= 429975750
    BY <1>1, <1>3, SMT
  <1>5. HumSum(v, k) \in Int /\ v <= HumSum(v, k)
    BY <1>1, <1>4, HumSumGrows
  <1>6. PICK sum \in Int : sum = HumSum(v, k) /\ sum >= 429975750
    BY <1>4, <1>5, SMT
  <1>7. HumOf(sum) \in Int /\ HumOf(sum) > 100000
    BY <1>6, SMT DEF HumOf
  <1> QED
    BY <1>1, <1>6, <1>7, ClampIs

LEMMA TempsOfRuns ==
  ASSUME NEW raw \in RawTemps
  PROVE  CalcTemp(raw, Calib) \in HumTemp
  BY RawTempsAssumption DEF HumTemp

\* The compensation of the BME680 neither overflows nor turns back, as
\* CompensationFits states it: calc_temp for every raw value, calc_hum up to
\* the first that gives 100 %.
THEOREM CompensationIsSafe == Spec => []CompensationFits
  <1>1. WordInv => CompensationFits
    <2> SUFFICES ASSUME WordInv, word \in UInt16 /\ word > 0
                 PROVE  CompensationFits!2
      BY DEF CompensationFits
    <2> word \in Int /\ 1 <= word /\ word < 65536
      BY UnsignedIs, SMT DEF UInt16
    <2>1. PICK h \in RawHum, i \in RawHum : h = word - 1 /\ i = word /\ i = h + 1
      BY SMT DEF RawHum
    <2>2. PICK a \in RawTemp, b \in RawTemp : a = 16 * (word - 1) /\ b = 16 * word /\ a <= b
      BY SMT DEF RawTemp
    <2>3. /\ TempFits(16 * word, Calib) /\ CalcTemp(16 * word, Calib) \in Int16
          /\ CalcTemp(16 * (word - 1), Calib) <= CalcTemp(16 * word, Calib)
      BY <2>2, EveryTempFits, TempInRange, TempGrows
    <2>4. ASSUME NEW raw \in RawTemps
          PROVE  LET t == CalcTemp(raw, Calib) IN
                   IF HumFits(word, Calib, t)
                   THEN CalcHum(word - 1, Calib, t) <= CalcHum(word, Calib, t)
                   ELSE CalcHum(word - 1, Calib, t) = 100000
      <3>1. CalcTemp(raw, Calib) \in HumTemp
        BY TempsOfRuns
      <3>2. CalcHum(h, Calib, CalcTemp(raw, Calib)) <= CalcHum(i, Calib, CalcTemp(raw, Calib))
        BY <2>1, <3>1, HumGrows, SMT
      <3>3. ~ HumFits(i, Calib, CalcTemp(raw, Calib)) =>
              CalcHum(h, Calib, CalcTemp(raw, Calib)) = 100000
        BY <2>1, <3>1, OverflowsAfterFull
      <3> QED
        BY <2>1, <3>2, <3>3
    <2> QED
      BY <2>3, <2>4
  <1> QED
    BY <1>1, WordInvariant, PTL

=============================================================================
