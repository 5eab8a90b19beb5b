----------------------------- MODULE MCDataLink -----------------------------
(***************************************************************************)
(* Instances of DataLink for TLC, with frames of the real layout.          *)
(***************************************************************************)
EXTENDS DataLink

E == INSTANCE Encoding

\* A frame for a temperature and humidity in hundredths and a distance in cm.
FrameOf(temp, hum, dist) ==
  E!SendUartFrame([temp |-> temp, hum |-> hum, sound |-> 640, dist |-> dist, alarm |-> 1])

\* 2474 = 0x09AA (24.74 C), 2389 = 0x0955, 4522 = 0x11AA (45.22 %),
\* 4437 = 0x1155, and 170 cm = 0x00AA, 85 cm = 0x0055: low bytes that look
\* like the markers.
MCFrames ==
  { FrameOf(2474, 4000, 30), FrameOf(2389, 4522, 30), FrameOf(2389, 4437, 170),
    FrameOf(2474, 4522, 85), FrameOf(2300, 4000, 30) }

\* One frame that resynchronises and two that do not.
MCFewFrames ==
  { FrameOf(2474, 4000, 30), FrameOf(2389, 4522, 85), FrameOf(2300, 4000, 30) }

\* A frame with both markers in its payload, and a clean one with an end marker.
MCTwoFrames == { FrameOf(2474, 4000, 85), FrameOf(2300, 4437, 30) }

MCByte == UNION {{f[i] : i \in 0..9} : f \in MCFrames \cup MCTwoFrames} \cup {0}

============================================================================
