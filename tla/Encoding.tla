------------------------------ MODULE Encoding ------------------------------
(***************************************************************************)
(* The conversions on both sides of the serial link, with the widths the   *)
(* C types give them: readings into data frames (send_uart_frame), data    *)
(* frames into fields (sensor_node_sample_fetch), fields into Zephyr's     *)
(* sensor_value (sensor_node_channel_get), and threshold settings into     *)
(* command frames (sensor_node_attr_set) and back (apply_command).         *)
(*                                                                         *)
(* A temperature is a number of hundredths, a humidity one of thousandths, *)
(* as the compensation formulas return them; the division into a float and *)
(* the multiplication out of it are those of IEEE single precision.        *)
(***************************************************************************)
EXTENDS Integers, Sequences

U8(x)  == x % 256
U16(x) == x % 65536

\* Mutant of I16: the cast back to a signed type is missing.
I16Unsigned(x) == U16(x)

I16(x) == IF U16(x) < 32768 THEN U16(x) ELSE U16(x) - 65536

Unsigned(n) == 0..n-1
Signed(n)   == -n..n-1
Int16  == Signed(32768)
UInt16 == Unsigned(65536)
UInt8  == Unsigned(256)

\* x >> 8 (arithmetic, x in int or uint16_t) cut to a byte, and x cut to a byte.
High(x) == U8(x \div 256)
Low(x)  == U8(x)
Word(hi, lo) == hi * 256 + lo

\* C's integer division truncates towards zero; n % d has the sign of n.
CDiv(n, d) == IF n >= 0 THEN n \div d ELSE -((-n) \div d)
CMod(n, d) == n - d * CDiv(n, d)

\* A C array of the given values, indexed from 0.
Array(values) == [i \in 0..Len(values)-1 |-> values[i+1]]

---------------------------------------------------------------------------
(* Floats: m / 2^e with m < 2^24, rounded to nearest, ties to even.        *)

RoundUp(q, r, d) == IF 2*r > d \/ (2*r = d /\ q % 2 = 1) THEN q + 1 ELSE q

Power(k) == 2^k

\* n * 2^e divided by d, for n < 2^18 and e >= 13: no product reaches 2^31.
Shifted(n, d, e) ==
  LET high == n * 2^13
      low  == (high % d) * Power(e - 13)
  IN  [quotient |-> (high \div d) * Power(e - 13) + low \div d, remainder |-> low % d]

\* (float)n / d for n >= 0 and n / d in 2^-10..2^10: the quotient of 24 bits.
FloatDiv(n, d) ==
  LET Is24Bits(q) == 2^23 <= q /\ q < 2^24
      e == CHOOSE k \in 13..33 : Is24Bits(Shifted(n, d, k).quotient)
      x == Shifted(n, d, e)
  IN  IF n = 0 THEN [m |-> 0, e |-> 23]
               ELSE [m |-> RoundUp(x.quotient, x.remainder, d), e |-> e]

FloatLess(x, y) == x.e > y.e \/ (x.e = y.e /\ x.m < y.m) \/ (x.m = 0 /\ y.m # 0)

\* x * 100.0f for a quotient of that form: its whole part, and whether there
\* is anything after the point.
Times100(x) ==
  LET p == x.m * 100
      k == IF p \div 64 < 2^24 THEN 6 ELSE 7
      m == RoundUp(p \div 2^k, p % 2^k, 2^k)
      one == Power(x.e - k)
  IN  [whole |-> m \div one, fraction |-> m % one # 0]

\* Mutant of InHundredths: (int16_t)x * 100.
InHundredthsCastFirst(n, unit) == CDiv(n, unit) * 100

\* (int16_t)(x * 100) where x = n / unit: the cast truncates towards zero.
InHundredths(n, unit) ==
  IF n >= 0 THEN Times100(FloatDiv(n, unit)).whole
            ELSE -Times100(FloatDiv(-n, unit)).whole

---------------------------------------------------------------------------
(* Data frames, sensor node to base node.                                  *)

\* A reading: temp and hum in hundredths, as int16_t; sound is the 12-bit ADC
\* value, dist a uint16_t.
Reading == [temp : Int16, hum : Int16, sound : Unsigned(4096), dist : UInt16,
            alarm : UInt8]

SendUartFrame(r) ==
  Array(<<170, High(r.temp), Low(r.temp), High(r.hum), Low(r.hum),
          U8(r.sound \div 64), High(r.dist), Low(r.dist), r.alarm, 85>>)

SampleFetch(f) ==
  [temperature  |-> I16(Word(f[1], f[2])),
   humidity     |-> U16(Word(f[3], f[4])),
   sound        |-> f[5],
   distance     |-> U16(Word(f[6], f[7])),
   alarm_status |-> f[8]]

\* sensor_value of a number of hundredths: units and millionths.
Hundredths(n) == [val1 |-> CDiv(n, 100), val2 |-> CMod(n, 100) * 10000]
Whole(n)      == [val1 |-> n, val2 |-> 0]

ChannelGet(data, chan) ==
  [AMBIENT_TEMP |-> Hundredths(data.temperature),
   HUMIDITY     |-> Hundredths(data.humidity),
   SOUND        |-> Whole(data.sound),
   DISTANCE     |-> Whole(data.distance),
   ALARM_STATUS |-> Whole(data.alarm_status)][chan]

\* Mutant of Printed: val2 / 1000.
PrintedThousandths(v) == [units |-> v.val1, digits |-> CDiv(v.val2, 1000)]

\* The two numbers that main prints of a value, as %d.%02d.
Printed(v) == [units |-> v.val1, digits |-> CDiv(v.val2, 10000)]

---------------------------------------------------------------------------
(* Command frames, base node to sensor node.                               *)

Attributes == {"DIST_THRESH", "TEMP_MAX", "SOUND_THRESH", "HUM_MAX", "HUM_MIN"}

\* Mutant of Cmd: the two humidity thresholds are mixed up.
CmdSwapped == [DIST_THRESH |-> 1, TEMP_MAX |-> 2, SOUND_THRESH |-> 3,
               HUM_MAX |-> 5, HUM_MIN |-> 4]

Cmd == [DIST_THRESH |-> 1, TEMP_MAX |-> 2, SOUND_THRESH |-> 3,
        HUM_MAX |-> 4, HUM_MIN |-> 5]

\* Mutant of ToHundredths: the fraction of the value is dropped.
ToHundredthsWhole(val) == val.val1 * 100

ToHundredths(val) == val.val1 * 100 + CDiv(val.val2, 10000)

\* The 16-bit value that attr_set puts into the frame.
Raw(attr, val) ==
  [DIST_THRESH  |-> U16(val.val1),
   TEMP_MAX     |-> U16(I16(ToHundredths(val))),
   SOUND_THRESH |-> U16(val.val1 % 64),
   HUM_MAX      |-> U16(ToHundredths(val)),
   HUM_MIN      |-> U16(ToHundredths(val))][attr]

AttrSetFrame(attr, val) ==
  Array(<<187, Cmd[attr], High(Raw(attr, val)), Low(Raw(attr, val)), 102>>)

\* Mutant of IRQ_MASK: without the BME680's alarms.
IRQ_MASK_SHORT == 5
IRQ_MASK       == 23   \* all four alarms

\* The sensor node's thresholds, as apply_command keeps them.
InitThresholds ==
  [dist |-> 50, temp |-> 4000, sound |-> 30, hum_max |-> 8000, hum_min |-> 2000,
   irq_enabled |-> 1, irq_mask |-> IRQ_MASK]

\* A command of another number changes nothing.
ApplyCommand(th, cmd, val) ==
  [dist        |-> IF cmd = 1 THEN val ELSE th.dist,
   temp        |-> IF cmd = 2 THEN I16(val) ELSE th.temp,
   sound       |-> IF cmd = 3 THEN U8(val % 64) ELSE th.sound,
   hum_max     |-> IF cmd = 4 THEN val ELSE th.hum_max,
   hum_min     |-> IF cmd = 5 THEN val ELSE th.hum_min,
   irq_enabled |-> IF cmd = 6 THEN (IF val = 0 THEN 0 ELSE 1) ELSE th.irq_enabled,
   irq_mask    |-> IF cmd = 7 THEN U8(val) ELSE th.irq_mask]

============================================================================
