---------------------------- MODULE Conversions ----------------------------
(***************************************************************************)
(* Every number, taken as a temperature, a humidity, a distance, a sound   *)
(* level and an alarm status in turn, goes through the conversions of both *)
(* nodes; as the BME680's raw output, through its compensation.            *)
(***************************************************************************)
EXTENDS Bme680

CONSTANTS
  Last,     \* the last number that is tried
  Calib,    \* what read_calib made of the BME680's calibration
  RawTemps  \* raw temperatures

ASSUME LastAssumption == Last \in Nat

\* Calibrations in the usual range; most factors of the humidity are the same
\* for every BME680.
ASSUME CalibAssumption ==
  /\ \A p \in {"par_t1", "par_t2", "par_t3", "par_h1", "par_h2"} : Calib[p] \in Int
  /\ 25600 <= Calib.par_t1 /\ Calib.par_t1 <= 26400
  /\ 26000 <= Calib.par_t2 /\ Calib.par_t2 <= 26800
  /\ 0 <= Calib.par_t3 /\ Calib.par_t3 <= 10
  /\ 700 <= Calib.par_h1 /\ Calib.par_h1 <= 900
  /\ 900 <= Calib.par_h2 /\ Calib.par_h2 <= 1100
  /\ Calib.par_h3 = 0 /\ Calib.par_h4 = 45 /\ Calib.par_h5 = 20
  /\ Calib.par_h6 = 120 /\ Calib.par_h7 = -100

\* The BME680 works from -40 to 85 C.
ASSUME RawTempsAssumption ==
  \A raw \in RawTemps :
    LET t == CalcTemp(raw, Calib) IN t \in Int /\ -4100 <= t /\ t <= 8600

VARIABLE word

Init == word = 0
Next == word < Last /\ word' = word + 1
Spec == Init /\ [][Next]_word

\* The reading that a word stands for; compensated humidity is in 0..100 %.
ReadingOf(w) == [temp |-> U16(w) - 32768, hum |-> w % 10001, sound |-> w % 4096,
                 dist |-> U16(w), alarm |-> U8(w)]

\* A sensor_value that stands for n hundredths: both parts have n's sign, and
\* the second is less than one unit, in millionths.
IsHundredths(v, n) ==
  /\ v.val1 * 1000000 + v.val2 = n * 10000
  /\ Magnitude(v.val2) < 1000000
  /\ n >= 0 => v.val1 >= 0 /\ v.val2 >= 0
  /\ n <= 0 => v.val1 <= 0 /\ v.val2 <= 0

\* What channel_get returns on the base node is the reading that the sensor
\* node sent: negative temperatures and fractions included.
ChannelsShowReading ==
  LET r == ReadingOf(word)
      Get(chan) == ChannelGet(SampleFetch(SendUartFrame(r)), chan)
  IN  /\ IsHundredths(Get("AMBIENT_TEMP"), r.temp)
      /\ IsHundredths(Get("HUMIDITY"), r.hum)
      /\ Get("SOUND") = [val1 |-> r.sound \div 64, val2 |-> 0]
      /\ Get("DISTANCE") = [val1 |-> r.dist, val2 |-> 0]
      /\ Get("ALARM_STATUS") = [val1 |-> r.alarm, val2 |-> 0]

\* A value printed as units and hundredths reads as n hundredths: only the
\* units may have a sign.
ReadsAs(printed, n) ==
  /\ printed.digits \in 0..99
  /\ printed.units * 100 + (IF printed.units < 0 THEN -printed.digits ELSE printed.digits) = n

\* The console shows the humidity and the temperature that were sent, unless
\* the temperature is below zero and not a whole degree: the hundredths then
\* have a sign of their own.
ConsoleShowsReading ==
  LET r        == ReadingOf(word)
      data     == SampleFetch(SendUartFrame(r))
      humidity == Printed(ChannelGet(data, "HUMIDITY"))
      temp     == Printed(ChannelGet(data, "AMBIENT_TEMP"))
  IN  /\ ReadsAs(humidity, r.hum)
      /\ ReadsAs(temp, r.temp) <=> r.temp >= 0 \/ r.temp % 100 = 0
      /\ temp.units * 100 + temp.digits = r.temp

\* The thresholds after a call of attr_set.
After(attr, val) ==
  LET f == AttrSetFrame(attr, val) IN ApplyCommand(InitThresholds, f[1], Word(f[2], f[3]))

\* A reading that the application hands back to attr_set as a threshold
\* arrives at the sensor node as that reading: the conversions of the two
\* directions agree on scale, sign and byte order.
ReadingAsThreshold ==
  LET r == ReadingOf(word)
      Got(chan) == ChannelGet(SampleFetch(SendUartFrame(r)), chan)
  IN  /\ After("TEMP_MAX", Got("AMBIENT_TEMP")).temp = r.temp
      /\ After("HUM_MAX", Got("HUMIDITY")).hum_max = r.hum
      /\ After("HUM_MIN", Got("HUMIDITY")).hum_min = r.hum
      /\ After("SOUND_THRESH", Got("SOUND")).sound = r.sound \div 64
      /\ After("DIST_THRESH", Got("DISTANCE")).dist = r.dist

\* attr_set checks no range: a setting arrives as it was given exactly if its
\* field can hold it, and otherwise as another one.
OnlyFittingSettingsArrive ==
  \A n \in {word, -word} :
    /\ After("DIST_THRESH", Whole(n)).dist = n <=> n \in UInt16
    /\ After("SOUND_THRESH", Whole(n)).sound = n <=> n \in 0..63
    /\ After("TEMP_MAX", Hundredths(n)).temp = n <=> n \in Int16
    /\ After("HUM_MAX", Hundredths(n)).hum_max = n <=> n \in UInt16
    /\ After("HUM_MIN", Hundredths(n)).hum_min = n <=> n \in UInt16

\* The floats in between do no harm: what is sent of a temperature, and of a
\* humidity in thousandths, is at most a hundredth nearer to zero than what was
\* measured, and temp > threshold_temp / 100.0f compares as the integers do.
FloatsLoseAHundredth ==
  /\ \A n \in {word, -word} :
       n \in Int16 =>
         Magnitude(n) - Magnitude(InHundredths(n, 100)) \in 0..1
  /\ word \in Unsigned(100001) =>
       /\ word \div 10 - InHundredths(word, 1000) \in 0..1
       /\ FloatLess(FloatDiv(word, 100), FloatDiv(word + 1, 100))

\* int32_t is wide enough: no product overflows for a temperature, which fits
\* an int16_t too, nor for a humidity up to the first raw value that gives
\* 100 %; and a higher raw value never gives less.
CompensationFits ==
  word \in UInt16 /\ word > 0 =>
    /\ TempFits(16 * word, Calib)
    /\ CalcTemp(16 * word, Calib) \in Int16
    /\ CalcTemp(16 * (word - 1), Calib) <= CalcTemp(16 * word, Calib)
    /\ \A raw \in RawTemps :
         LET t == CalcTemp(raw, Calib) IN
           HumFits(word - 1, Calib, t) =>
             LET before == CalcHum(word - 1, Calib, t) IN
               IF HumFits(word, Calib, t)
               THEN before <= CalcHum(word, Calib, t)
               ELSE before = 100000

=============================================================================
