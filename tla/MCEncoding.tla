----------------------------- MODULE MCEncoding -----------------------------
(***************************************************************************)
(* Every 16-bit word and more, up to 100000, humidity being in thousandths.*)
(***************************************************************************)
EXTENDS Conversions

\* The bytes that a calibration in the usual range is made of (other bytes are
\* not used), and raw temperatures for about -40, 25 and 85 C.
MCCalib ==
  ReadCalib([i \in 0..24 |-> IF i = 1 THEN 32 ELSE IF i = 2 THEN 103 ELSE 3],
            Array(<<63, 44, 48, 0, 45, 20, 120, 156, 144, 101>>))
MCRawTemps == {18054 * 16, 30964 * 16, 42872 * 16}

=============================================================================
