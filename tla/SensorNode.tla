----------------------------- MODULE SensorNode -----------------------------
(***************************************************************************)
(* The sensor node's program: start-up, and the super-loop that polls for  *)
(* commands, reads the sensors whose interval is over, decides which       *)
(* alarms are active, drives the interrupt line, sends a frame and sleeps. *)
(*                                                                         *)
(* Nothing outside sees the node between the start of a turn and the write *)
(* to the line, so that part is one step, unless the BME680 makes it hang. *)
(* Commands arrive whole (their bytes are in module CommandLink), and time *)
(* passes in ticks of 100 ms.                                              *)
(***************************************************************************)
EXTENDS Encoding, SequencesExt

CONSTANTS
  Echoes,    \* how long an echo may last, in microseconds
  Sounds,    \* sound levels, scaled to 0..63
  Climates,  \* what the BME680 may report: <<0.01 C, 0.001 %>>
  Garbage,   \* what the formulas may give for uninitialised data or calibration
  Undefined, \* what 16 bits may hold after the cast of a float out of range
  BmeInterval  \* 3000: BME_INTERVAL, in ms

\* Echoes end long before the distance has 16 bits (30 ms are 517 cm); calc_hum
\* clamps whatever it comes to, calc_temp does not.
ASSUME ReadingsAssumption ==
  /\ Echoes \subseteq Unsigned(58 * 65536)
  /\ Sounds \subseteq 0..63
  /\ Climates \subseteq Int16 \X Unsigned(100001)
  /\ Garbage \subseteq Int \X Unsigned(100001)
  /\ Undefined \subseteq UInt16

ASSUME IntervalAssumption == BmeInterval \in Nat /\ BmeInterval >= 100

VARIABLES
  npc,         \* where the program is
  wait,        \* ticks until it goes on, in "boot" and "loop"
  timer,       \* ticks until each sensor is due
  reading,     \* what each sensor gave last
  ready,       \* the sensors whose reading counts
  commands,    \* commands received and not yet polled: <<number, value>>
  thresholds,
  alarm,       \* the alarm bits found in the last turn
  line,        \* the level of INTR_PIN
  frame        \* the last frame sent

nodeVars == <<npc, wait, timer, reading, ready, commands, thresholds, alarm,
              line, frame>>

Sensor == {"dist", "sound", "bme"}

Ticks(ms)  == ms \div 100
Interval   == [dist |-> Ticks(500), sound |-> Ticks(200), bme |-> Ticks(BmeInterval)]
LoopSleepShort == Ticks(400)  \* mutant of LoopSleep
LoopSleep  == Ticks(500)
BootTicks  == Ticks(2000 + 100)  \* boot delay and reset of the BME680
NoReading  == [dist |-> 0, sound |-> 0, bme |-> <<0, 0>>]
NoFrame    == [temp |-> 0, hum |-> 0, sound |-> 0, dist |-> -1, alarm |-> {}]

MOTION   == 1
TEMP     == 2
SOUND    == 4
HUMIDITY == 16
Bits(byte) == {b \in {MOTION, TEMP, SOUND, HUMIDITY} : (byte \div b) % 2 = 1}

\* uart_init follows the boot delay; what comes before is lost.
UartUp == npc # "boot" \/ wait <= Ticks(100)

NodeInit ==
  /\ npc = "boot"
  /\ wait = BootTicks
  /\ timer = Interval
  /\ reading = NoReading
  /\ ready = {}
  /\ commands = <<>>
  /\ thresholds = InitThresholds
  /\ alarm = {}
  /\ line = FALSE
  /\ frame = NoFrame

\* A reset, at any time; the pad of the line is pulled down until it is set up.
NodeReset ==
  /\ npc' = "boot"
  /\ wait' = BootTicks
  /\ timer' = Interval
  /\ reading' = NoReading
  /\ ready' = {}
  /\ commands' = <<>>
  /\ thresholds' = InitThresholds
  /\ alarm' = {}
  /\ line' = FALSE
  /\ frame' = NoFrame

\* main starts the timers and enters the loop, or returns if the chip's id is
\* wrong; a read that fails leaves in id what was there, right or wrong.
NodeBoot ==
  /\ npc = "boot" /\ wait = 0
  /\ npc' \in {"loop", "halted"}
  /\ timer' = Interval
  /\ UNCHANGED <<wait, reading, ready, commands, thresholds, alarm, line, frame>>

---------------------------------------------------------------------------
(* The parts of a turn.                                                    *)

PollCommands ==
  /\ thresholds' = FoldLeft(LAMBDA th, c : ApplyCommand(th, c[1], c[2]), thresholds, commands)
  /\ commands' = <<>>

Due == {s \in Sensor : timer[s] = 0}

\* Mutant of Counts: once there has been an echo, every distance counts.
CountsSticky(due, r) == ready \cup {s \in due : s = "dist" => r.dist # 0}

\* Any distance above 0 counts, be it a fraction of a centimetre; a failed echo
\* (-1) does not, nor does the reading before it.
Counts(due, r) == (ready \cup due) \ {s \in due : s = "dist" /\ r.dist <= 0}

\* What the three sensors may give.  A distance is the time of its echo, a 58th
\* of a centimetre per microsecond.  The BME680's measurement may be an older one,
\* and garbage if it does not answer, or did not when the calibration was read.
ReadDistance == Echoes \cup {-1}
ReadSound    == Sounds
ReadBme680   == Climates \cup Garbage

\* The sensors in due are read, and their timers start again.
Read(due) ==
  /\ reading' \in
       [dist  : IF "dist" \in due THEN ReadDistance ELSE {reading.dist},
        sound : IF "sound" \in due THEN ReadSound ELSE {reading.sound},
        bme   : IF "bme" \in due THEN ReadBme680 ELSE {reading.bme}]
  /\ ready' = Counts(due, reading')
  /\ timer' = [s \in Sensor |-> IF s \in due THEN Interval[s] ELSE timer[s]]

\* hum * 100.0f against the bounds, which are integers.
HumidityOut(hum, th) ==
  LET h == Times100(FloatDiv(hum, 1000)) IN
    \/ h.whole < th.hum_min
    \/ h.whole > th.hum_max
    \/ h.whole = th.hum_max /\ h.fraction

\* The alarm logic, for readings r of which those in rd count.  The threshold is
\* in whole centimetres, of which no float with a fraction of a 58th falls short.
Alarms(r, rd, th) ==
  {b \in {MOTION, TEMP, SOUND, HUMIDITY} :
     \/ b = MOTION /\ "dist" \in rd /\ r.dist < 58 * th.dist
     \/ b = TEMP /\ "bme" \in rd /\ r.bme[1] > th.temp
     \/ b = SOUND /\ "sound" \in rd /\ r.sound > th.sound
     \/ b = HUMIDITY /\ "bme" \in rd /\ HumidityOut(r.bme[2], th)}

LineLevel(a, th) == th.irq_enabled = 1 /\ a \cap Bits(th.irq_mask) # {}

Decide ==
  /\ alarm' = Alarms(reading', ready', thresholds')
  /\ line' = LineLevel(alarm', thresholds')
  /\ npc' = "send"

---------------------------------------------------------------------------
(* The super-loop.                                                         *)

\* A turn up to gpio_put.
Turn ==
  /\ npc = "loop" /\ wait = 0
  /\ PollCommands
  /\ Read(Due)
  /\ Decide
  /\ UNCHANGED <<wait, frame>>

\* The BME680 does not answer, and status happens to hold the measuring bit.
Hang ==
  /\ npc = "loop" /\ wait = 0
  /\ "bme" \in Due
  /\ PollCommands
  /\ Read(Due \ {"bme"})
  /\ npc' = "hung"
  /\ UNCHANGED <<wait, alarm, line, frame>>

\* It answers, or the bus reads otherwise, and the turn goes on.
Unhang ==
  /\ npc = "hung"
  /\ UNCHANGED <<wait, commands, thresholds, frame>>
  /\ Read({"bme"})
  /\ Decide

\* (uint16_t)dist cuts the fraction off; the result for -1.0f is undefined, and
\* so is that of (int16_t)(temp * 100) for a temperature out of range.
CastDist(d) == IF d >= 0 THEN {d \div 58} ELSE Undefined
CastTemp(t) == IF t \in Int16 THEN {InHundredths(t, 100)} ELSE {I16(u) : u \in Undefined}

\* The frame, and then sleep_ms(500); the next turn's sensors may take up to
\* 100 ms before it comes to its line.
SendFrame ==
  /\ npc = "send"
  /\ \E t \in CastTemp(reading.bme[1]), d \in CastDist(reading.dist) :
       frame' = [temp |-> t, hum |-> InHundredths(reading.bme[2], 1000),
                 sound |-> reading.sound, dist |-> d, alarm |-> alarm]
  /\ npc' = "loop"
  /\ wait' \in LoopSleep..LoopSleep+1
  /\ UNCHANGED <<timer, reading, ready, commands, thresholds, alarm, line>>

---------------------------------------------------------------------------
(* Its environment.                                                        *)

\* A command arrives; one that repeats the last one need not be kept twice.
GetCommand(c) ==
  /\ commands' = IF UartUp /\ (commands = <<>> \/ Last(commands) # c)
                 THEN Append(commands, c) ELSE commands
  /\ UNCHANGED <<npc, wait, timer, reading, ready, thresholds, alarm, line, frame>>

Less(t) == IF t = 0 THEN 0 ELSE t - 1

\* 100 ms pass; not while there is something to do at once.
NodeTick ==
  /\ npc # "send"
  /\ npc \in {"boot", "loop"} => wait > 0
  /\ wait' = Less(wait)
  /\ timer' = IF npc = "boot" THEN timer ELSE [s \in Sensor |-> Less(timer[s])]
  /\ UNCHANGED <<npc, reading, ready, commands, thresholds, alarm, line, frame>>

NodeStep == NodeBoot \/ Turn \/ Hang \/ Unhang

---------------------------------------------------------------------------
(* Properties.                                                             *)

\* An alarm and the value sent next to it agree, with the node's thresholds.  A
\* motion alarm comes with a distance below the threshold, if only 0 for less
\* than a centimetre, and a distance below it comes without the alarm only if
\* there was no echo (it is 0 before the first reading, and what an undefined
\* cast left after a failed one): a failed echo alone drops the alarm.  A temperature
\* alarm is borne out by the value sent, unless no frame can hold the value.
FrameExplainsAlarm ==
  npc = "loop" /\ frame # NoFrame =>
    /\ MOTION \in frame.alarm => frame.dist < thresholds.dist
    /\ frame.dist < thresholds.dist => MOTION \in frame.alarm \/ reading.dist <= 0
    /\ SOUND \in frame.alarm <=> frame.sound > thresholds.sound
    /\ TEMP \in frame.alarm =>
         frame.temp >= thresholds.temp \/ reading.bme[1] \notin Int16
    /\ HUMIDITY \in frame.alarm =>
         \/ frame.hum < thresholds.hum_min
         \/ frame.hum >= thresholds.hum_max

\* No alarm rests on an old distance or sound level: although the distance's
\* interval is as long as the sleep, both are read again in every turn but the
\* first, in those that read the BME680 too.  Only what is left of a turn after
\* a hang (Unhang) decides on a distance as old as the hang is long.
ReadingsAreFresh ==
  [][Turn /\ "sound" \in ready' =>
       timer'["dist"] = Interval["dist"] /\ timer'["sound"] = Interval["sound"]]_nodeVars

=============================================================================
