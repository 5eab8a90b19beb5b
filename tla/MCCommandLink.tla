--------------------------- MODULE MCCommandLink ---------------------------
(***************************************************************************)
(* Instances of CommandLink for TLC.                                       *)
(***************************************************************************)
EXTENDS CommandLink

Setting(attr, val1, val2) == <<attr, [val1 |-> val1, val2 |-> val2]>>

\* Two values for one attribute, and bytes that look like a start marker
\* (187 = 0x00BB) and like an end marker (1.02 % = 0x0066).
MCSettings ==
  { Setting("DIST_THRESH", 187, 0), Setting("DIST_THRESH", 30, 0),
    Setting("HUM_MIN", 1, 20000) }

MCTwo == { Setting("DIST_THRESH", 30, 0), Setting("HUM_MAX", 60, 750000) }

============================================================================
