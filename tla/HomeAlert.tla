----------------------------- MODULE HomeAlert -----------------------------
(***************************************************************************)
(* Both nodes in time: the sensor node (SensorNode) and its interrupt line *)
(* against the base node's trigger (AlarmTrigger), its application loop    *)
(* and its LEDs.  A frame arrives when it is sent, which takes 0.9 ms, and *)
(* the parse of one takes no time; their steps are in DataLink, BaseNode.  *)
(*                                                                         *)
(* Either node may be reset at any time, and the BME680 may come off the   *)
(* bus.  Time passes when there is nothing to do at once.                  *)
(***************************************************************************)
EXTENDS SensorNode, AlarmTrigger

VARIABLES
  bpc,        \* where main is
  bwait,      \* ticks until it goes on, in "boot", "fetch" and "sleep"
  frame_sem,  \* 1: a frame has come since the last fetch
  status,     \* alarm status of the newest frame, in ready_buf
  leds,       \* the alarms shown
  ret,        \* what the last fetch returned
  fetched,    \* history: fetches that returned a frame since main started, up to 2
  frame_age,  \* history: ticks since a frame was sent, up to MaxAge
  calls,      \* history: calls of the handler since the line last rose
  deaf        \* history: no call is due for that rise

baseVars == <<bpc, bwait, frame_sem, status, leds, ret, fetched>>
history  == <<calls, deaf>>
vars == <<nodeVars, triggerVars, baseVars, frame_age, history>>

\* Mutants of FetchTicks: K_SECONDS(20), and K_MSEC(2) for K_SECONDS(2).
FetchTicksLong  == Ticks(20000)
FetchTicksShort == Ticks(2)

BootSleep  == Ticks(1000 + 2000)
FetchTicks == Ticks(2000)

\* Mutant of SleepTicks: the console takes longer.
SleepTicksLong == Ticks(300)..Ticks(500)

\* k_msleep(300) and what the loop prints: up to 100 ms are allowed for it.
SleepTicks == Ticks(300)..Ticks(400)

\* Bound on frame_age: above all delays that the properties speak of.
MaxAge == Ticks(2900)

EAGAIN == -11

DIST_THRESH == <<Cmd["DIST_THRESH"], 30>>

Init ==
  /\ NodeInit
  /\ TriggerInit
  /\ bpc = "boot" /\ bwait = BootSleep
  /\ frame_sem = 0 /\ status = {}
  /\ leds = {}
  /\ ret = 0
  /\ fetched = 0
  /\ frame_age = MaxAge
  /\ calls = 0 /\ deaf = TRUE

---------------------------------------------------------------------------
(* Steps of the sensor node; every one may move the line.                  *)

LineToBase ==
  /\ LineMoves(line, line')
  /\ IF ~line /\ line'
     THEN calls' = 0 /\ deaf' = (setting \/ ~armed)
     ELSE UNCHANGED history

NodeWorks ==
  /\ NodeStep
  /\ LineToBase
  /\ UNCHANGED <<baseVars, frame_age>>

NodeIsReset ==
  /\ NodeReset
  /\ LineToBase
  /\ UNCHANGED <<baseVars, frame_age>>

\* The interrupt for the line is served before the frame is out.
FrameArrives ==
  /\ SendFrame
  /\ ~edge
  /\ frame_sem' = 1
  /\ status' = alarm
  /\ frame_age' = 0
  /\ UNCHANGED <<triggerVars, bpc, bwait, leds, ret, fetched, history>>

---------------------------------------------------------------------------
(* The base node.                                                          *)

\* main, after its boot delays: LEDs off, the handler registered.
Start ==
  /\ bpc = "boot" /\ bwait = 0
  /\ leds' = {}
  /\ \E t \in Trig, h \in Handler : TriggerSet(t, h)
  /\ bpc' = "attr"
  /\ UNCHANGED <<nodeVars, bwait, frame_sem, status, ret, fetched, frame_age, history>>

\* sensor_attr_set: the distance threshold becomes 30 cm.
AttrSet ==
  /\ bpc = "attr" /\ ~setting
  /\ GetCommand(DIST_THRESH)
  /\ bpc' = "fetch"
  /\ bwait' = FetchTicks
  /\ UNCHANGED <<triggerVars, frame_sem, status, leds, ret, fetched, frame_age, history>>

FetchShowing(alarms) ==
  /\ bpc = "fetch" /\ frame_sem = 1
  /\ frame_sem' = 0
  /\ leds' = alarms
  /\ ret' = 0
  /\ fetched' = IF fetched < 2 THEN fetched + 1 ELSE fetched
  /\ bpc' = "sleep"
  /\ bwait' \in SleepTicks
  /\ UNCHANGED <<nodeVars, triggerVars, status, frame_age, history>>

\* Mutant of Fetch: LEDs are switched on and never off.
FetchLatching == FetchShowing(leds \cup status)

Fetch == FetchShowing(status)

\* -EAGAIN: the LEDs stay as they are, and the console says so.
FetchTimeout ==
  /\ bpc = "fetch" /\ frame_sem = 0 /\ bwait = 0
  /\ ret' = EAGAIN
  /\ bpc' = "sleep"
  /\ bwait' \in SleepTicks
  /\ UNCHANGED <<nodeVars, triggerVars, frame_sem, status, leds, fetched, frame_age, history>>

Wake ==
  /\ bpc = "sleep" /\ bwait = 0
  /\ bpc' = "fetch"
  /\ bwait' = FetchTicks
  /\ UNCHANGED <<nodeVars, triggerVars, frame_sem, status, leds, ret, fetched, frame_age, history>>

Setting == TriggerStep /\ UNCHANGED <<nodeVars, baseVars, frame_age, history>>

Interrupt ==
  /\ GpioIsr
  /\ calls' = IF CallsHandler /\ calls < 2 THEN calls + 1 ELSE calls
  /\ UNCHANGED <<nodeVars, baseVars, frame_age, deaf>>

\* The driver is initialised at once, main only after its delays.
BaseReset ==
  /\ bpc' = "boot" /\ bwait' = BootSleep
  /\ frame_sem' = 0 /\ status' = {}
  /\ leds' = {}
  /\ ret' = 0
  /\ fetched' = 0
  /\ TriggerReset
  /\ deaf' = TRUE /\ calls' = 0
  /\ UNCHANGED <<nodeVars, frame_age>>

Tick ==
  /\ NodeTick
  /\ ~setting /\ ~edge
  /\ bwait > 0
  /\ bpc # "attr"
  /\ bpc = "fetch" => frame_sem = 0
  /\ bwait' = bwait - 1
  /\ frame_age' = IF frame_age < MaxAge THEN frame_age + 1 ELSE frame_age
  /\ UNCHANGED <<triggerVars, bpc, frame_sem, status, leds, ret, fetched, history>>

---------------------------------------------------------------------------

NodeNext == NodeWorks \/ FrameArrives \/ NodeIsReset

BaseNext == \/ Start \/ AttrSet \/ Fetch \/ FetchTimeout \/ Wake
            \/ Setting \/ Interrupt \/ BaseReset

Next == NodeNext \/ BaseNext \/ Tick

Spec == Init /\ [][Next]_vars

---------------------------------------------------------------------------
(* Properties.                                                             *)

TypeOK ==
  /\ npc \in {"boot", "loop", "send", "hung", "halted"}
  /\ wait \in 0..BootTicks
  /\ \A s \in Sensor : timer[s] \in 0..Interval[s]
  /\ TriggerTypeOK
  /\ bpc \in {"boot", "attr", "fetch", "sleep"}
  /\ bwait \in 0..BootSleep
  /\ frame_sem \in 0..1
  /\ ret \in {0, EAGAIN}
  /\ fetched \in 0..2
  /\ frame_age \in 0..MaxAge

Running == bpc \in {"fetch", "sleep"} /\ fetched # 0

\* While main runs, the LEDs show the alarms of the newest frame, at the
\* latest 400 ms after it was sent: no timing of the two loops, resets of the
\* sensor node included, makes them lag by a whole frame.
LedsAreCurrent ==
  Running => leds = status \/ (frame_sem = 1 /\ frame_age <= Ticks(400))

\* LEDs that no longer follow the sensor node are reported: whatever silences it
\* (a reset, a BME680 that hangs it, a return from main), no later than 2.8 s after
\* its last frame the last fetch has failed and the console has said so.  The LEDs
\* themselves keep showing that frame.  The first fetch is an exception: its frame
\* may be as old as the boot is long.
SilenceIsReported ==
  Running /\ fetched = 2 /\ frame_age > Ticks(2800) => ret = EAGAIN

\* The two paths of an alarm agree: once the base node has fetched what was
\* sent, its LEDs are lit exactly if the interrupt line is high, although the
\* line passes through the mask and the LEDs do not.
LineAgreesWithLeds ==
  Running /\ frame_sem = 0 /\ npc \in {"loop", "hung"} /\ frame # NoFrame =>
    (line <=> leds # {})

\* sample_fetch parses ready_buf in place; yet, from the second fetch on, no
\* frame comes near the parse of another one: a frame is parsed at most 400 ms
\* after it was sent, and the next one is sent no less than 500 ms after it.
FramesDoNotMeet ==
  [][/\ Fetch /\ fetched # 0 => frame_age <= Ticks(400)
     /\ FrameArrives => frame_age >= Ticks(500)]_vars

\* A fetch times out, and leaves LEDs that may be out of date, only if the
\* sensor node is not between two turns: it has not sent a frame since it was
\* reset, has returned from main, or hangs (until that very moment at least).
TimeoutMeansDown == [][FetchTimeout /\ npc = "loop" => frame = NoFrame]_vars

\* When the LEDs go on, the handler has been called before, and once, for this
\* rise of the line, unless it was not armed when the line rose.
CalledBeforeShown ==
  [][Fetch /\ leds = {} /\ leds' # {} /\ line /\ ~deaf => calls = 1]_vars

\* What is called is what main registered, whole: although the three fields are
\* stored in no known order and the line may rise between any two stores, no call
\* comes during trigger_set, as main makes its one call with the pin disarmed.
CalledAsRegistered == CallsHandler => ~setting /\ data = args

\* A rise of the line is one call, no matter how the alarms behind it change.
OneCallPerRise == calls <= 1

\* "called from GPIO ISR context when the sensor node pulls its INTR_PIN high
\* (i.e. any alarm condition becomes active)": while the handler is registered
\* a turn that finds a new alarm interrupts the base node.
EveryAlarmCalls ==
  [][Turn /\ ~(alarm' \subseteq alarm) /\ armed /\ ~setting => edge']_vars

============================================================================
