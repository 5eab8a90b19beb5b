--------------------------- MODULE BaseNodeHistory ---------------------------
(***************************************************************************)
(* BaseNode with a history variable: the frames that ready_buf has held    *)
(* since the application thread last took the semaphore.  It serves to say *)
(* which frames a sample is made of.                                       *)
(***************************************************************************)
EXTENDS BaseNode, FiniteSets

CONSTANT MaxSeen  \* bound: different frames that may complete during one fetch

VARIABLE seen

hvars == <<vars, seen>>

HInit == Init /\ seen = {}

\* A frame that completes while the thread parses is seen.
HUartIsr ==
  /\ UartIsr
  /\ seen' = IF pc = "parse" THEN seen \cup {ready_buf'} ELSE seen
  /\ Cardinality(seen') <= MaxSeen

HSemTake == SemTake /\ seen' = {ready_buf}

HWake == Wake /\ seen' = {}

HNext ==
  \/ HUartIsr
  \/ HSemTake
  \/ HWake
  \/ /\ \/ StartLoop
        \/ FetchTimeout
        \/ \E i \in Payload : ReadByte(i)
        \/ FetchReturn
        \/ SetLed
     /\ UNCHANGED seen

HSpec == HInit /\ [][HNext]_hvars

---------------------------------------------------------------------------
\* "Double buffer: ISR writes, fetch reads": the sample that a fetch returns
\* is one frame's payload.
SampleIsOneFrame ==
  pc = "parse" /\ unread = {} =>
    \E f \in seen : \A i \in Payload : sample[i] = f[i]

============================================================================
