------------------------------ MODULE BaseNode ------------------------------
(***************************************************************************)
(* The base node's data path: the driver's interrupt handler (module       *)
(* FrameParser) against the application thread, which loops over           *)
(* sensor_sample_fetch, sensor_channel_get, the four alert LEDs and a      *)
(* sleep.  The handler can run between any two steps of the thread; the    *)
(* thread never runs inside the handler (one core).                        *)
(*                                                                         *)
(* sample_fetch reads ready_buf outside any lock, so the interrupt handler *)
(* may replace it in the middle.  That is a data race: the compiler is     *)
(* free to load the bytes in any order, and so is ReadByte.                *)
(***************************************************************************)
EXTENDS FrameParser, Sequences

CONSTANT STATUS  \* offset of the alarm status byte in a frame (8)

ASSUME StatusAssumption == STATUS \in Payload

VARIABLES
  pc,           \* where the application thread is
  unread,       \* offsets of ready_buf that sample_fetch has yet to load
  sample,       \* the parsed fields, as the payload bytes they are made of
  alarm_flags,  \* main's local copy of the alarm status
  led_idx,      \* the next LED to be written
  leds          \* the four alert LEDs

threadVars == <<pc, unread, sample, alarm_flags, led_idx, leds>>
vars == <<parserVars, threadVars>>

LedSeq == <<"motion", "temp", "sound", "humidity">>  \* in the order written
Led    == {"motion", "temp", "sound", "humidity"}
Mask   == [motion |-> 1, temp |-> 2, sound |-> 4, humidity |-> 16]

\* (flags & mask) ? 1 : 0, for a mask of one bit.
Lit(led, flags) == (flags \div Mask[led]) % 2 = 1

Pc == {"boot", "fetch", "parse", "leds", "sleep"}

Init ==
  /\ ParserInit
  /\ pc = "boot"
  /\ unread = {}
  /\ sample = [i \in Payload |-> 0]
  /\ alarm_flags = 0
  /\ led_idx = 1
  /\ leds = [l \in Led |-> FALSE]

---------------------------------------------------------------------------
(* The interrupt handler.                                                  *)

UartIsr ==
  \E b \in Byte :
    /\ RxByte(b)
    /\ UNCHANGED threadVars

---------------------------------------------------------------------------
(* The application thread.                                                 *)

\* main has slept through the boot delays; the LED pins become outputs, off.
StartLoop ==
  /\ pc = "boot"
  /\ leds' = [l \in Led |-> FALSE]
  /\ pc' = "fetch"
  /\ UNCHANGED <<parserVars, unread, sample, alarm_flags, led_idx>>

\* k_sem_take succeeds.
SemTake ==
  /\ pc = "fetch"
  /\ frame_sem = 1
  /\ frame_sem' = 0
  /\ unread' = Payload
  /\ pc' = "parse"
  /\ UNCHANGED <<rx_buf, rx_idx, ready_buf, sample, alarm_flags, led_idx, leds>>

\* Two seconds pass without a frame: -EAGAIN, main only logs it.
FetchTimeout ==
  /\ pc = "fetch"
  /\ frame_sem = 0
  /\ pc' = "sleep"
  /\ UNCHANGED <<parserVars, unread, sample, alarm_flags, led_idx, leds>>

ReadByte(i) ==
  /\ pc = "parse"
  /\ i \in unread
  /\ sample' = [sample EXCEPT ![i] = ready_buf[i]]
  /\ unread' = unread \ {i}
  /\ UNCHANGED <<parserVars, pc, alarm_flags, led_idx, leds>>

FetchReturnWith(sem) ==
  /\ pc = "parse"
  /\ unread = {}
  /\ frame_sem' = sem
  /\ alarm_flags' = sample[STATUS]
  /\ led_idx' = 1
  /\ pc' = "leds"
  /\ UNCHANGED <<rx_buf, rx_idx, ready_buf, unread, sample, leds>>

\* Mutant of FetchReturn: the semaphore is cleared after the parse as well.
FetchReturnClearsSem == FetchReturnWith(0)

\* sample_fetch returns 0; main gets the channels and copies the alarm status.
FetchReturn == FetchReturnWith(frame_sem)

SetLedFrom(flags, last) ==
  /\ pc = "leds"
  /\ leds' = [leds EXCEPT ![LedSeq[led_idx]] = Lit(LedSeq[led_idx], flags)]
  /\ IF led_idx = last
     THEN pc' = "sleep" /\ led_idx' = 1
     ELSE led_idx' = led_idx + 1 /\ UNCHANGED pc
  /\ UNCHANGED <<parserVars, unread, sample, alarm_flags>>

\* Mutants of SetLed: the last LED is left out; the flags are read from the
\* driver's buffer instead of main's copy.
SetLedButLast    == SetLedFrom(alarm_flags, Len(LedSeq) - 1)
SetLedFromBuffer == SetLedFrom(ready_buf[STATUS], Len(LedSeq))

SetLed == SetLedFrom(alarm_flags, Len(LedSeq))

\* k_msleep(300) ends and the loop starts over.
Wake ==
  /\ pc = "sleep"
  /\ pc' = "fetch"
  /\ UNCHANGED <<parserVars, unread, sample, alarm_flags, led_idx, leds>>

Thread == \/ StartLoop
          \/ SemTake
          \/ FetchTimeout
          \/ \E i \in Payload : ReadByte(i)
          \/ FetchReturn
          \/ SetLed
          \/ Wake

Next == UartIsr \/ Thread

Spec == Init /\ [][Next]_vars

(***************************************************************************)
(* The thread is the only one of the application and interrupts are finite *)
(* in number per unit of time, so it keeps running.  Nothing is assumed of *)
(* the interrupt handler: the sensor node may fall silent.                 *)
(***************************************************************************)
FairSpec == Spec /\ WF_vars(Thread)

---------------------------------------------------------------------------
(* Properties.                                                             *)

\* Every variable keeps its type; in particular the handler never writes
\* outside rx_buf (rx_idx < FRAME_LEN between bytes), whatever arrives.
TypeOK ==
  /\ ParserTypeOK
  /\ pc \in Pc
  /\ unread \subseteq Payload
  /\ sample \in [Payload -> Byte]
  /\ alarm_flags \in Byte
  /\ led_idx \in 1..4
  /\ leds \in [Led -> BOOLEAN]

Shows(status) == \A l \in Led : leds[l] = Lit(l, status)

\* No lost update: when the application waits in sample_fetch and the
\* semaphore says nothing new has come, then the newest complete frame is
\* the one that was parsed, untorn, and the one the LEDs show.  A frame that
\* replaces ready_buf during a parse leaves the semaphore given.
NewestIsShown ==
  pc = "fetch" /\ frame_sem = 0 =>
    /\ \A i \in Payload : sample[i] = ready_buf[i]
    /\ Shows(ready_buf[STATUS])

\* Whatever the handler publishes between two gpio_pin_set_dt calls: when the
\* update is over, all LEDs show the alarm status of the sample that main
\* fetched, and no later frame has changed some of them.
LedsMatchSample ==
  pc \in {"boot", "fetch", "sleep"} => Shows(sample[STATUS])

\* What the parser publishes is framed: nothing, or a start marker and an
\* end marker FRAME_LEN bytes apart.
ReadyIsFramed ==
  \/ ready_buf = NoFrame
  \/ ready_buf[0] = FRAME_START /\ ready_buf[FRAME_LEN-1] = FRAME_END

\* An alarm status that stays the newest one ends up on the LEDs.
StatusReachesLeds ==
  \A s \in Byte : (ready_buf[STATUS] = s) ~> (ready_buf[STATUS] # s \/ Shows(s))

============================================================================
