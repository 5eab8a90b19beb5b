------------------------------- MODULE Bme680 -------------------------------
(***************************************************************************)
(* The BME680's compensation formulas as sensor_node/main.c computes them  *)
(* in int32_t: read_calib, calc_temp and calc_hum, and the conditions      *)
(* under which none of their products overflows.  x >> k of a negative x   *)
(* rounds down.                                                            *)
(***************************************************************************)
EXTENDS Encoding, FiniteSetsExt

MaxInt == 2147483647
I8(x)  == IF U8(x) < 128 THEN U8(x) ELSE U8(x) - 256

\* The calibration in the bytes from 0x89 and from 0xE1 on.
ReadCalib(c1, c2) ==
  [par_t1 |-> Word(c2[9], c2[8]),
   par_t2 |-> I16(Word(c1[2], c1[1])),
   par_t3 |-> I8(c1[3]),
   par_h1 |-> c2[2] * 16 + (c2[1] % 16),
   par_h2 |-> c2[0] * 16 + (c2[1] \div 16),
   par_h3 |-> I8(c2[3]), par_h4 |-> I8(c2[4]), par_h5 |-> I8(c2[5]),
   par_h6 |-> I8(c2[6]), par_h7 |-> I8(c2[7])]

---------------------------------------------------------------------------
(* Temperature.                                                            *)

TempVar1(adc_t, c) == adc_t \div 8 - 2 * c.par_t1

Squared(x) == x * x

Square(adc_t, c) == Squared(TempVar1(adc_t, c) \div 2) \div 2^12

TFine(adc_t, c) ==
  (TempVar1(adc_t, c) * c.par_t2) \div 2^11 + (Square(adc_t, c) * c.par_t3 * 16) \div 2^14

Hundredth(t_fine) == (t_fine * 5 + 128) \div 256

CalcTemp(adc_t, c) == Hundredth(TFine(adc_t, c))

---------------------------------------------------------------------------
(* Humidity, at temperature t in hundredths.                               *)

HumVar1(adc_h, c, t) == adc_h - 16 * c.par_h1 - CDiv(t * c.par_h3, 100) \div 2

HumVar2(c, t) ==
  (c.par_h2 * ( CDiv(t * c.par_h4, 100)
              + CDiv((t * CDiv(t * c.par_h5, 100)) \div 2^6, 100)
              + 2^14 )) \div 2^10

HumVar4(c, t) == (c.par_h6 * 2^7 + CDiv(t * c.par_h7, 100)) \div 2^4

\* Mutant of Scaled: var3 >> 10.
ScaledLess(var3) == var3 \div 2^10

\* var3 >> 14, which is squared next.
Scaled(var3) == var3 \div 2^14

Clamp(hum_comp) == Max({0, Min({100000, hum_comp})})

CalcHum(adc_h, c, t) ==
  LET var3 == HumVar1(adc_h, c, t) * HumVar2(c, t)
      var5 == Squared(Scaled(var3)) \div 2^10
      var6 == (HumVar4(c, t) * var5) \div 2
      hum_comp == (((var3 + var6) \div 2^10) * 1000) \div 2^12
  IN  Clamp(hum_comp)

---------------------------------------------------------------------------
(* When the products fit.  CalcTemp and CalcHum mean nothing otherwise.    *)

Magnitude(x) == IF x >= 0 THEN x ELSE -x
Fits(x, y)   == y = 0 \/ Magnitude(x) <= MaxInt \div Magnitude(y)
SumFits(x, y) == IF x >= 0 THEN y <= MaxInt - x ELSE y >= -MaxInt - x

TempFits(adc_t, c) ==
  LET var1 == TempVar1(adc_t, c) IN
    /\ Fits(var1, c.par_t2)
    /\ Fits(var1 \div 2, var1 \div 2)
    /\ Fits(Square(adc_t, c), c.par_t3 * 16)

HumFits(adc_h, c, t) ==
  LET var1 == HumVar1(adc_h, c, t)
      var3 == var1 * HumVar2(c, t)
      var5 == Squared(Scaled(var3)) \div 2^10
      var6 == (HumVar4(c, t) * var5) \div 2
  IN  /\ Fits(t, CDiv(t * c.par_h5, 100))
      /\ Fits(var1, HumVar2(c, t))
      /\ Fits(Scaled(var3), Scaled(var3))
      /\ Fits(HumVar4(c, t), var5)
      /\ SumFits(var3, var6)
      /\ Fits((var3 + var6) \div 2^10, 1000)

=============================================================================
