---------------------------- MODULE MCHomeAlert ----------------------------
(***************************************************************************)
(* Instances of HomeAlert for TLC.  Readings are on the limits: an echo of *)
(* 30 us is half a centimetre, one of 1740 us 30 cm, the threshold that    *)
(* main sets (the default is 50 cm); 30 is the sound threshold; 40.00 C    *)
(* and 80 % are the climate that is just no alarm.  A BME680 off the bus   *)
(* may seem to report a temperature that no frame can hold and a humidity  *)
(* just above its limit.  What an undefined cast leaves is a distance near *)
(* enough for an alarm, or 65535.                                          *)
(***************************************************************************)
EXTENDS HomeAlert

MCEchoes   == {30, 1740}
MCSounds   == {30}
MCClimates == {<<4000, 80000>>}
MCGarbage  == {<<40000, 80001>>}
MCUndefined == {10, 65535}

============================================================================
