--------------------------- MODULE BaseNodeProofs ---------------------------
(***************************************************************************)
(* Theorems about BaseNode, for every frame length, every position of the  *)
(* alarm status and every set of bytes that may arrive.                    *)
(***************************************************************************)
EXTENDS BaseNode, FrameParserProofs

\* LedSeq enumerates the four LEDs.
LEMMA LedSeqFacts ==
  /\ Len(LedSeq) = 4
  /\ \A k \in 1..4 : LedSeq[k] \in Led
  /\ \A l \in Led : \E k \in 1..4 : LedSeq[k] = l
  /\ \A j, k \in 1..4 : LedSeq[j] = LedSeq[k] => j = k
<1>1. /\ LedSeq[1] = "motion" /\ LedSeq[2] = "temp"
      /\ LedSeq[3] = "sound" /\ LedSeq[4] = "humidity" /\ Len(LedSeq) = 4
  BY DEF LedSeq
<1>2. \A k \in 1..4 : k = 1 \/ k = 2 \/ k = 3 \/ k = 4
  OBVIOUS
<1> QED
  BY <1>1, <1>2 DEF Led

\* An LED is on or off.
LEMMA LitType == \A l, s : Lit(l, s) \in BOOLEAN
  BY DEF Lit

\* The types of all variables; the interrupt handler never writes outside
\* its buffer (sensor_node_uart_isr), whatever bytes arrive and whenever.
THEOREM TypeCorrect == Spec => []TypeOK
<1>1. Init => TypeOK
  BY NoFrameIsFrame, ParserAssumption
     DEF Init, TypeOK, ParserInit, ParserTypeOK, Pc, Payload
<1>2. TypeOK /\ [Next]_vars => TypeOK'
  <2> SUFFICES ASSUME TypeOK, [Next]_vars
               PROVE  TypeOK'
    OBVIOUS
  <2> USE DEF TypeOK, Pc
  <2>1. CASE UartIsr
    BY <2>1, RxByteType DEF UartIsr, threadVars
  <2>2. CASE StartLoop
    BY <2>2 DEF StartLoop, parserVars, ParserTypeOK
  <2>3. CASE SemTake
    BY <2>3 DEF SemTake, ParserTypeOK
  <2>4. CASE FetchTimeout
    BY <2>4 DEF FetchTimeout, parserVars, ParserTypeOK
  <2>5. ASSUME NEW i \in Payload, ReadByte(i)
        PROVE  TypeOK'
    <3>1. ready_buf[i] \in Byte
      BY ParserAssumption DEF ParserTypeOK, Frame, Payload
    <3> QED
      BY <2>5, <3>1 DEF ReadByte, parserVars, ParserTypeOK
  <2>6. CASE FetchReturn
    BY <2>6, StatusAssumption DEF FetchReturn, FetchReturnWith, parserVars, ParserTypeOK
  <2>7. CASE SetLed
    <3>1. LedSeq[led_idx] \in Led
      BY LedSeqFacts
    <3>2. leds' \in [Led -> BOOLEAN]
      BY <2>7, <3>1, LitType DEF SetLed, SetLedFrom
    <3> QED
      BY <2>7, <3>2, LedSeqFacts DEF SetLed, SetLedFrom, parserVars, ParserTypeOK
  <2>8. CASE Wake
    BY <2>8 DEF Wake, parserVars, ParserTypeOK
  <2>9. CASE UNCHANGED vars
    BY <2>9 DEF vars, parserVars, threadVars, ParserTypeOK
  <2> QED
    BY <2>1, <2>2, <2>3, <2>4, <2>5, <2>6, <2>7, <2>8, <2>9 DEF Next, Thread
<1> QED
  BY <1>1, <1>2, PTL DEF Spec

\* What the handler publishes is framed by the two markers: a frame whose
\* end marker is wrong never reaches sample_fetch.
THEOREM PublishedFramesAreFramed == Spec => []ReadyIsFramed
<1>1. Init => Opened /\ ReadyIsFramed
  BY DEF Init, ParserInit, Opened, ReadyIsFramed
<1>2. TypeOK /\ Opened /\ ReadyIsFramed /\ [Next]_vars => (Opened /\ ReadyIsFramed)'
  <2> SUFFICES ASSUME TypeOK, Opened, ReadyIsFramed, [Next]_vars
               PROVE  (Opened /\ ReadyIsFramed)'
    OBVIOUS
  <2>1. CASE UartIsr
    BY <2>1, RxByteFramed DEF UartIsr, TypeOK, ReadyIsFramed
  <2>2. CASE Thread \/ UNCHANGED vars
    <3>1. UNCHANGED <<rx_buf, rx_idx, ready_buf>>
      BY <2>2 DEF Thread, StartLoop, SemTake, FetchTimeout, ReadByte, FetchReturn,
                  FetchReturnWith, SetLed, SetLedFrom, Wake, vars, parserVars
    <3> QED
      BY <3>1 DEF Opened, ReadyIsFramed
  <2> QED
    BY <2>1, <2>2 DEF Next
<1> QED
  BY <1>1, <1>2, TypeCorrect, PTL DEF Spec

---------------------------------------------------------------------------
(***************************************************************************)
(* No lost update.  While the semaphore is not given, what the thread has  *)
(* loaded so far agrees with ready_buf, since every change of ready_buf    *)
(* gives the semaphore; and the LEDs follow what has been loaded.          *)
(***************************************************************************)

\* Outside a parse everything has been loaded.
Loaded == IF pc = "parse" THEN Payload \ unread ELSE Payload

SampleIsCurrent == frame_sem = 0 => \A i \in Loaded : sample[i] = ready_buf[i]

LedsFollowSample ==
  /\ pc = "boot" => \A l \in Led : ~leds[l]
  /\ pc \in {"boot", "fetch", "sleep"} => Shows(sample[STATUS])
  /\ pc = "leds" =>
       /\ alarm_flags = sample[STATUS]
       /\ \A k \in 1..4 : k < led_idx => leds[LedSeq[k]] = Lit(LedSeq[k], alarm_flags)

IInv == SampleIsCurrent /\ LedsFollowSample

LEMMA IInvInit == Init => IInv
<1> SUFFICES ASSUME Init PROVE IInv
  OBVIOUS
<1>1. SampleIsCurrent
  BY ParserAssumption
     DEF Init, ParserInit, SampleIsCurrent, Loaded, NoFrame, Payload
<1>2. \A l \in Led : Lit(l, 0) = FALSE
  BY DEF Lit, Led, Mask
<1>3. sample[STATUS] = 0
  BY StatusAssumption DEF Init
<1> QED
  BY <1>1, <1>2, <1>3 DEF Init, IInv, LedsFollowSample, Shows

LEMMA IInvStep == TypeOK /\ IInv /\ [Next]_vars => IInv'
<1> SUFFICES ASSUME TypeOK, IInv, [Next]_vars
             PROVE  IInv'
  OBVIOUS
<1> USE DEF IInv
<1>1. CASE UartIsr
  \* A new frame gives the semaphore; the thread's variables do not move.
  <2>1. frame_sem' = 1 \/ UNCHANGED <<ready_buf, frame_sem>>
    BY <1>1, PublishGives DEF UartIsr
  <2>2. SampleIsCurrent'
    BY <1>1, <2>1 DEF UartIsr, threadVars, SampleIsCurrent, Loaded
  <2>3. LedsFollowSample'
    BY <1>1 DEF UartIsr, threadVars, LedsFollowSample, Shows
  <2> QED
    BY <2>2, <2>3
<1>2. CASE StartLoop
  <2>1. SampleIsCurrent'
    BY <1>2 DEF StartLoop, SampleIsCurrent, Loaded, parserVars
  <2>2. \A l \in Led : leds'[l] = leds[l]
    BY <1>2 DEF StartLoop, LedsFollowSample, TypeOK
  <2>3. LedsFollowSample'
    BY <1>2, <2>2 DEF StartLoop, LedsFollowSample, Shows
  <2> QED
    BY <2>1, <2>3
<1>3. CASE SemTake
  \* Nothing has been loaded yet.
  BY <1>3 DEF SemTake, SampleIsCurrent, Loaded, LedsFollowSample
<1>4. CASE FetchTimeout
  BY <1>4 DEF FetchTimeout, SampleIsCurrent, Loaded, parserVars, LedsFollowSample, Shows
<1>5. ASSUME NEW i \in Payload, ReadByte(i)
      PROVE  IInv'
  <2>1. SampleIsCurrent'
    BY <1>5 DEF ReadByte, SampleIsCurrent, Loaded, parserVars, TypeOK
  <2>2. LedsFollowSample'
    BY <1>5 DEF ReadByte, LedsFollowSample
  <2> QED
    BY <2>1, <2>2
<1>6. CASE FetchReturn
  BY <1>6 DEF FetchReturn, FetchReturnWith, SampleIsCurrent, Loaded, parserVars, LedsFollowSample, TypeOK
<1>7. CASE SetLed
  <2>1. SampleIsCurrent'
    BY <1>7 DEF SetLed, SetLedFrom, SampleIsCurrent, Loaded, parserVars
  <2>2. \A k \in 1..4 : k < led_idx + 1 => leds'[LedSeq[k]] = Lit(LedSeq[k], alarm_flags)
    BY <1>7, LedSeqFacts DEF SetLed, SetLedFrom, TypeOK, LedsFollowSample
  <2>3. CASE led_idx = 4
    <3>1. \A l \in Led : leds'[l] = Lit(l, alarm_flags)
      BY <2>2, <2>3, LedSeqFacts
    <3> QED
      BY <1>7, <2>1, <2>3, <3>1, LedSeqFacts DEF SetLed, SetLedFrom, LedsFollowSample, Shows
  <2>4. CASE led_idx # 4
    BY <1>7, <2>1, <2>2, <2>4, LedSeqFacts DEF SetLed, SetLedFrom, LedsFollowSample
  <2> QED
    BY <2>3, <2>4
<1>8. CASE Wake
  BY <1>8 DEF Wake, SampleIsCurrent, Loaded, parserVars, LedsFollowSample, Shows
<1>9. CASE UNCHANGED vars
  BY <1>9 DEF vars, parserVars, threadVars, SampleIsCurrent, Loaded, LedsFollowSample, Shows
<1> QED
  BY <1>1, <1>2, <1>3, <1>4, <1>5, <1>6, <1>7, <1>8, <1>9 DEF Next, Thread

\* When the application waits in sample_fetch and no unread frame is
\* announced, the newest complete frame is the one parsed, untorn, and the
\* one the LEDs show: the race on ready_buf never loses an alarm.
THEOREM NoLostUpdate == Spec => []NewestIsShown
<1>1. TypeOK /\ IInv => NewestIsShown
  BY StatusAssumption
     DEF IInv, SampleIsCurrent, Loaded, LedsFollowSample, NewestIsShown, Shows
<1> QED
  BY IInvInit, IInvStep, TypeCorrect, <1>1, PTL DEF Spec

\* An LED update that is interrupted by new frames still leaves all four LEDs
\* with the status of the one sample main fetched.
THEOREM LedUpdateIsWhole == Spec => []LedsMatchSample
<1>1. IInv => LedsMatchSample
  BY DEF IInv, LedsFollowSample, LedsMatchSample
<1> QED
  BY IInvInit, IInvStep, TypeCorrect, <1>1, PTL DEF Spec

============================================================================
