-------------------------- MODULE HomeAlertProofs --------------------------
(***************************************************************************)
(* Proofs about HomeAlert, for any readings, any interval of the BME680,   *)
(* any triggers and handlers.                                              *)
(***************************************************************************)
EXTENDS HomeAlert, AlarmTriggerProofs, EncodingProofs

LEMMA Durations ==
  /\ LoopSleep = 5 /\ BootTicks = 21 /\ BootSleep = 30
  /\ FetchTicks = 20 /\ SleepTicks = 3..4
  /\ MaxAge = 29 /\ Ticks(500) = 5 /\ Ticks(400) = 4 /\ Ticks(2800) = 28
  BY DEF LoopSleep, BootTicks, BootSleep, FetchTicks, SleepTicks, MaxAge, Ticks

LEMMA IntervalType == Interval \in [Sensor -> Nat]
  <1>1. \A ms \in Nat : Ticks(ms) \in Nat
    BY DEF Ticks
  <1>2. BmeInterval \in Nat
    BY IntervalAssumption
  <1>3. Ticks(500) \in Nat /\ Ticks(200) \in Nat /\ Ticks(BmeInterval) \in Nat
    BY <1>1, <1>2
  <1> QED
    BY <1>3 DEF Interval, Sensor

LEMMA LessType == \A t \in Nat : Less(t) \in 0..t
  BY DEF Less

---------------------------------------------------------------------------
(* What the sensor node's steps do to where it is, to its clocks and to    *)
(* the frame.                                                              *)

TimerOK == timer \in [Sensor -> Nat] /\ \A s \in Sensor : timer[s] <= Interval[s]

LEMMA ReadTimer ==
  ASSUME NEW due, Read(due), TimerOK
  PROVE  TimerOK'
  <1>1. timer' = [s \in Sensor |-> IF s \in due THEN Interval[s] ELSE timer[s]]
    BY DEF Read
  <1> QED
    BY <1>1, IntervalType DEF TimerOK

LEMMA NodeStepFacts ==
  ASSUME NodeStep, TimerOK
  PROVE  /\ TimerOK'
         /\ wait' = wait /\ frame' = frame
         /\ \/ npc = "boot" /\ wait = 0 /\ npc' \in {"loop", "halted"}
            \/ npc = "loop" /\ wait = 0 /\ npc' \in {"send", "hung"}
            \/ npc = "hung" /\ npc' = "send"
  <1>1. CASE NodeBoot
    BY <1>1, IntervalType DEF NodeBoot, TimerOK
  <1>2. CASE Turn
    BY <1>2, ReadTimer DEF Turn, Decide
  <1>3. CASE Hang
    BY <1>3, ReadTimer DEF Hang
  <1>4. CASE Unhang
    BY <1>4, ReadTimer DEF Unhang, Decide
  <1> QED
    BY <1>1, <1>2, <1>3, <1>4 DEF NodeStep

LEMMA NodeTickFacts ==
  ASSUME NodeTick, TimerOK, wait \in Nat
  PROVE  /\ TimerOK'
         /\ npc' = npc /\ frame' = frame
         /\ npc # "send" /\ wait' \in 0..wait
         /\ npc \in {"boot", "loop"} => wait > 0 /\ wait' = wait - 1
  <1>1. CASE npc = "boot"
    BY <1>1 DEF NodeTick, TimerOK, Less
  <1>2. CASE npc # "boot"
    <2>1. timer' = [s \in Sensor |-> Less(timer[s])]
      BY <1>2 DEF NodeTick
    <2>2. TimerOK'
      BY <2>1, IntervalType, LessType DEF TimerOK
    <2> QED
      BY <1>2, <2>2 DEF NodeTick, Less
  <1> QED
    BY <1>1, <1>2

---------------------------------------------------------------------------
(* The line and the trigger.                                               *)

\* Every step of the two nodes is one of the trigger or leaves it alone.
LEMMA StepIsTriggers == [Next]_vars => [TriggerNext]_triggerVars
  <1> SUFFICES ASSUME [Next]_vars PROVE [TriggerNext]_triggerVars
    OBVIOUS
  <1>1. ASSUME LineToBase PROVE TriggerNext
    <2>1. CASE ~line /\ line'
      <3>1. LineMoves(FALSE, TRUE)
        BY <1>1, <2>1 DEF LineToBase, LineMoves, Detects
      <3> QED
        BY <3>1 DEF TriggerNext
    <2>2. CASE ~(~line /\ line')
      <3>1. LineMoves(FALSE, FALSE)
        BY <1>1, <2>2 DEF LineToBase, LineMoves, Detects
      <3> QED
        BY <3>1 DEF TriggerNext
    <2> QED
      BY <2>1, <2>2
  <1>2. ASSUME NodeNext PROVE [TriggerNext]_triggerVars
    BY <1>1, <1>2 DEF NodeNext, NodeWorks, NodeIsReset, FrameArrives
  <1>3. ASSUME Start PROVE TriggerNext
    BY <1>3 DEF Start, SetTrigger, TriggerNext
  <1>4. ASSUME Setting \/ Interrupt \/ BaseReset PROVE TriggerNext
    BY <1>4 DEF Setting, Interrupt, BaseReset, TriggerNext
  <1>5. ASSUME AttrSet \/ Fetch \/ FetchTimeout \/ Wake \/ Tick PROVE UNCHANGED triggerVars
    BY <1>5 DEF AttrSet, Fetch, FetchShowing, FetchTimeout, Wake, Tick
  <1>6. ASSUME UNCHANGED vars PROVE UNCHANGED triggerVars
    BY <1>6 DEF vars
  <1> QED
    BY <1>2, <1>3, <1>4, <1>5, <1>6 DEF Next, BaseNext

THEOREM HomeAlertIsTrigger == Spec => TriggerSpec
  <1>1. Init => TriggerInit
    BY DEF Init
  <1> QED
    BY <1>1, StepIsTriggers, PTL DEF Spec, TriggerSpec

---------------------------------------------------------------------------
(* Types, and how old frames can be.                                       *)

TypeInv ==
  /\ npc \in {"boot", "loop", "send", "hung", "halted"}
  /\ wait \in 0..BootTicks
  /\ TimerOK
  /\ bpc \in {"boot", "attr", "fetch", "sleep"}
  /\ bwait \in 0..BootSleep
  /\ frame_sem \in 0..1
  /\ ret \in {0, EAGAIN}
  /\ fetched \in 0..2
  /\ frame_age \in 0..MaxAge

\* The sensor node's next frame is at least 500 ms after its last one, and at
\* most 600 ms, if it has sent one since its reset and gets through its turn.
SenderInv ==
  /\ npc \in {"boot", "loop"} => frame_age + wait >= 5
  /\ npc \in {"send", "hung", "halted"} => frame_age >= 5
  /\ npc = "boot" => frame = NoFrame
  /\ npc = "loop" /\ frame # NoFrame => frame_age + wait <= 6

\* A fetch begins less than 2 s after the last frame only if it waits for the
\* next one until it is 2 s old; a frame that has come during a sleep is
\* fetched within 400 ms; with nothing to fetch the LEDs show the last frame.
FetchInv ==
  /\ bpc \in {"boot", "attr"} => fetched = 0
  /\ bpc = "fetch" /\ frame_sem = 0 => frame_age + bwait >= 20
  /\ bpc = "sleep" => bwait <= 4
  /\ fetched # 0 /\ frame_sem = 1 =>
       /\ bpc = "fetch" => frame_age <= 4
       /\ bpc = "sleep" => frame_age + bwait <= 4
  /\ fetched # 0 /\ frame_sem = 0 => leds = status

HomeInv == TypeInv /\ SenderInv /\ FetchInv

LEMMA HomeInvInit == Init => HomeInv
  <1> SUFFICES ASSUME Init PROVE HomeInv
    OBVIOUS
  <1>1. TimerOK
    BY IntervalType DEF Init, NodeInit, TimerOK
  <1> QED
    BY <1>1, Durations DEF Init, NodeInit, HomeInv, TypeInv, SenderInv, FetchInv

LEMMA HomeInvStep == HomeInv /\ [Next]_vars => HomeInv'
  <1> SUFFICES ASSUME HomeInv, [Next]_vars PROVE HomeInv'
    OBVIOUS
  <1> USE Durations DEF HomeInv, TypeInv, SenderInv, FetchInv, baseVars
  <1>1. CASE NodeWorks
    BY <1>1, NodeStepFacts DEF NodeWorks
  <1>2. CASE NodeIsReset
    <2>1. TimerOK'
      BY <1>2, IntervalType DEF NodeIsReset, NodeReset, TimerOK
    <2> QED
      BY <1>2, <2>1 DEF NodeIsReset, NodeReset
  <1>3. CASE FrameArrives
    <2>1. npc = "send" /\ npc' = "loop" /\ (wait' = 5 \/ wait' = 6) /\ UNCHANGED timer
      BY <1>3 DEF FrameArrives, SendFrame
    <2>2. frame_sem' = 1 /\ frame_age' = 0 /\ UNCHANGED <<bpc, bwait, ret, fetched>>
      BY <1>3 DEF FrameArrives
    <2>3. TypeInv'
      BY <2>1, <2>2 DEF TimerOK
    <2>4. SenderInv'
      BY <2>1, <2>2
    <2>5. FetchInv'
      BY <2>2
    <2> HIDE DEF TypeInv, SenderInv, FetchInv
    <2> QED
      BY <2>3, <2>4, <2>5
  <1>4. CASE Start
    BY <1>4 DEF Start, nodeVars, TimerOK
  <1>5. CASE AttrSet
    BY <1>5 DEF AttrSet, GetCommand, TimerOK
  <1>6. CASE Fetch
    BY <1>6 DEF Fetch, FetchShowing, nodeVars, TimerOK
  <1>7. CASE FetchTimeout
    BY <1>7 DEF FetchTimeout, nodeVars, TimerOK
  <1>8. CASE Wake
    BY <1>8 DEF Wake, nodeVars, TimerOK
  <1>9. CASE Setting \/ Interrupt
    BY <1>9 DEF Setting, Interrupt, nodeVars, TimerOK
  <1>10. CASE BaseReset
    BY <1>10 DEF BaseReset, nodeVars, TimerOK
  <1>11. CASE Tick
    <2>1. NodeTick
      BY <1>11 DEF Tick
    <2>2. /\ bwait > 0 /\ bwait' = bwait - 1
          /\ bpc = "fetch" => frame_sem = 0
          /\ frame_age' = IF frame_age < 29 THEN frame_age + 1 ELSE frame_age
          /\ UNCHANGED <<bpc, frame_sem, status, leds, ret, fetched>>
      BY <1>11 DEF Tick
    <2>3. wait \in Nat
      OBVIOUS
    <2> HIDE DEF TimerOK
    <2> QED
      BY <2>1, <2>2, <2>3, NodeTickFacts
  <1>12. CASE UNCHANGED vars
    BY <1>12 DEF vars, nodeVars, TimerOK
  <1> QED
    BY <1>1, <1>2, <1>3, <1>4, <1>5, <1>6, <1>7, <1>8, <1>9, <1>10,
       <1>11, <1>12 DEF Next, NodeNext, BaseNext

LEMMA HomeInvariant == Spec => []HomeInv
  BY HomeInvInit, HomeInvStep, PTL DEF Spec

\* TypeOK of the composition.
THEOREM HomeTypeCorrect == Spec => []TypeOK
  <1>1. HomeInv /\ TriggerTypeOK => TypeOK
    BY DEF HomeInv, TypeInv, TimerOK, TypeOK
  <1> QED
    BY <1>1, HomeInvariant, HomeAlertIsTrigger, TriggerTypeCorrect, PTL

\* No timing of the two loops makes the LEDs lag by a whole frame.
THEOREM LedsNotStale == Spec => []LedsAreCurrent
  <1>1. HomeInv => LedsAreCurrent
    BY Durations DEF HomeInv, TypeInv, FetchInv, LedsAreCurrent, Running
  <1> QED
    BY <1>1, HomeInvariant, PTL

\* From the second frame on, the sleep after a frame is over 800 ms after that
\* frame was sent, and the fetch after that sleep 2 s later.
SilenceInv ==
  fetched = 2 /\ ret = 0 /\ frame_sem = 0 =>
    /\ bpc = "fetch" => frame_age + bwait <= 28
    /\ bpc = "sleep" => frame_age + bwait <= 8

LEMMA SilenceInvInit == Init => SilenceInv
  BY DEF Init, SilenceInv

LEMMA SilenceInvStep == SilenceInv /\ HomeInv /\ [Next]_vars => SilenceInv'
  <1> SUFFICES ASSUME SilenceInv, HomeInv, [Next]_vars PROVE SilenceInv'
    OBVIOUS
  <1> USE DEF SilenceInv
  <1>1. CASE NodeWorks \/ NodeIsReset
    BY <1>1 DEF NodeWorks, NodeIsReset, baseVars
  <1>2. CASE FrameArrives
    BY <1>2 DEF FrameArrives
  <1>3. CASE Fetch
    <2>1. bpc = "fetch" /\ frame_sem = 1 /\ frame_age' = frame_age /\ frame_age \in Nat
      BY <1>3, Durations DEF Fetch, FetchShowing, HomeInv, TypeInv
    <2>2. bpc' = "sleep" /\ (bwait' = 3 \/ bwait' = 4)
      BY <1>3, Durations DEF Fetch, FetchShowing
    <2>3. fetched' = 2 => fetched # 0
      BY <1>3 DEF Fetch, FetchShowing
    <2>4. fetched # 0 => frame_age <= 4
      BY <2>1 DEF HomeInv, FetchInv
    <2> QED
      BY <2>1, <2>2, <2>3, <2>4
  <1>4. CASE FetchTimeout
    BY <1>4 DEF FetchTimeout, EAGAIN
  <1>5. CASE Wake
    <2>1. bpc = "sleep" /\ bwait = 0 /\ frame_age \in Nat
      BY <1>5, Durations DEF Wake, HomeInv, TypeInv
    <2>2. bpc' = "fetch" /\ bwait' = 20
      BY <1>5, Durations DEF Wake
    <2>3. UNCHANGED <<fetched, ret, frame_sem, frame_age>>
      BY <1>5 DEF Wake
    <2> QED
      BY <2>1, <2>2, <2>3
  <1>6. CASE Start \/ AttrSet \/ BaseReset
    BY <1>6 DEF Start, AttrSet, BaseReset, HomeInv, FetchInv
  <1>7. CASE Setting \/ Interrupt
    BY <1>7 DEF Setting, Interrupt, baseVars
  <1>8. CASE Tick
    <2>1. /\ bwait > 0 /\ bwait' = bwait - 1
          /\ frame_age' = frame_age + 1 \/ frame_age' = frame_age
          /\ UNCHANGED <<bpc, frame_sem, ret, fetched>>
      BY <1>8 DEF Tick
    <2>2. frame_age \in Nat /\ bwait \in Nat
      BY Durations DEF HomeInv, TypeInv
    <2> QED
      BY <2>1, <2>2
  <1>9. CASE UNCHANGED vars
    BY <1>9 DEF vars, baseVars
  <1> QED
    BY <1>1, <1>2, <1>3, <1>4, <1>5, <1>6, <1>7, <1>8, <1>9
    DEF Next, NodeNext, BaseNext

\* No later than 2.8 s after its last frame a silent sensor node is reported.
THEOREM SilenceReported == Spec => []SilenceIsReported
  <1>1. SilenceInv /\ HomeInv => SilenceIsReported
    BY Durations DEF SilenceInv, HomeInv, TypeInv, FetchInv, SilenceIsReported, Running
  <1> QED
    BY <1>1, SilenceInvInit, SilenceInvStep, HomeInvariant, PTL DEF Spec

\* From the second fetch on, no frame comes near the parse of another one.
THEOREM ParseIsUndisturbed == Spec => FramesDoNotMeet
  <1>1. HomeInv /\ [Next]_vars =>
          [/\ Fetch /\ fetched # 0 => frame_age <= Ticks(400)
           /\ FrameArrives => frame_age >= Ticks(500)]_vars
    <2>1. HomeInv /\ Fetch /\ fetched # 0 => frame_age <= 4
      BY DEF HomeInv, FetchInv, Fetch, FetchShowing
    <2>2. HomeInv /\ FrameArrives => frame_age >= 5
      BY DEF HomeInv, SenderInv, FrameArrives, SendFrame
    <2> QED
      BY <2>1, <2>2, Durations
  <1> QED
    BY <1>1, HomeInvariant, PTL DEF Spec, FramesDoNotMeet

\* A sensor node that is between two turns is never timed out.
THEOREM NoFalseTimeout == Spec => TimeoutMeansDown
  <1>1. HomeInv /\ [Next]_vars => [FetchTimeout /\ npc = "loop" => frame = NoFrame]_vars
    BY DEF HomeInv, TypeInv, SenderInv, FetchInv, FetchTimeout
  <1> QED
    BY <1>1, HomeInvariant, PTL DEF Spec, TimeoutMeansDown

---------------------------------------------------------------------------
(* Calls of the handler.                                                   *)

CallsInv == calls \in 0..1 /\ (edge => calls = 0)

LEMMA CallsInvariant == Spec => []CallsInv
  <1>1. Init => CallsInv
    BY DEF Init, TriggerInit, CallsInv
  <1>2. CallsInv /\ [Next]_vars => CallsInv'
    <2> SUFFICES ASSUME CallsInv, [Next]_vars PROVE CallsInv'
      OBVIOUS
    <2> USE DEF CallsInv
    <2>1. ASSUME LineToBase PROVE CallsInv'
      <3>1. CASE ~line /\ line'
        BY <2>1, <3>1 DEF LineToBase
      <3>2. CASE ~(~line /\ line')
        BY <2>1, <3>2 DEF LineToBase, LineMoves, Detects, history
      <3> QED
        BY <3>1, <3>2
    <2>2. CASE NodeNext
      BY <2>1, <2>2 DEF NodeNext, NodeWorks, NodeIsReset, FrameArrives,
                        triggerVars, history
    <2>3. CASE Start
      BY <2>3 DEF Start, TriggerSet, history
    <2>4. CASE AttrSet \/ Fetch \/ FetchTimeout \/ Wake \/ Tick
      BY <2>4 DEF AttrSet, Fetch, FetchShowing, FetchTimeout, Wake, Tick,
                  triggerVars, history
    <2>5. CASE Setting
      BY <2>5 DEF Setting, TriggerStep, StoreField, Configure, ConfigureWith, history
    <2>6. CASE Interrupt
      BY <2>6 DEF Interrupt, GpioIsr, CallsHandler
    <2>7. CASE BaseReset
      BY <2>7 DEF BaseReset, TriggerReset
    <2>8. CASE UNCHANGED vars
      BY <2>8 DEF vars, triggerVars, history
    <2> QED
      BY <2>2, <2>3, <2>4, <2>5, <2>6, <2>7, <2>8 DEF Next, BaseNext
  <1> QED
    BY <1>1, <1>2, PTL DEF Spec

\* A rise of the line calls the handler at most once, whatever happens to the
\* alarms, the nodes and the registration in between.
THEOREM OneCall == Spec => []OneCallPerRise
  <1>1. CallsInv => OneCallPerRise
    BY DEF CallsInv, OneCallPerRise
  <1> QED
    BY <1>1, CallsInvariant, PTL

---------------------------------------------------------------------------
(* Age of the readings.                                                    *)

\* When the node's next turn comes, distance and sound level are due, unless it
\* is the first turn.
DueInv ==
  /\ npc = "boot" => "sound" \notin ready
  /\ npc = "loop" =>
       \/ timer["dist"] <= wait /\ timer["sound"] <= wait
       \/ timer["sound"] # 0 /\ wait = 0 /\ "sound" \notin ready

LEMMA Intervals == Interval["dist"] = 5 /\ Interval["sound"] = 2
  BY DEF Interval, Ticks

LEMMA DueInvInit == Init => DueInv
  BY DEF Init, NodeInit, DueInv

LEMMA DueInvStep == DueInv /\ HomeInv /\ [Next]_vars => DueInv'
  <1> SUFFICES ASSUME DueInv, HomeInv, [Next]_vars PROVE DueInv'
    OBVIOUS
  <1> USE DEF DueInv
  <1>1. timer \in [Sensor -> Nat] /\ wait \in Nat /\ timer["dist"] <= 5 /\ timer["sound"] <= 2
    BY Intervals, Durations DEF HomeInv, TypeInv, TimerOK, Sensor
  <1>2. CASE NodeWorks
    <2>1. CASE NodeBoot
      BY <2>1, Intervals DEF NodeBoot
    <2>2. CASE Turn \/ Hang \/ Unhang
      BY <2>2 DEF Turn, Hang, Unhang, Decide
    <2> QED
      BY <1>2, <2>1, <2>2 DEF NodeWorks, NodeStep
  <1>3. CASE NodeIsReset
    BY <1>3 DEF NodeIsReset, NodeReset
  <1>4. CASE FrameArrives
    <2>1. npc' = "loop" /\ (wait' = 5 \/ wait' = 6) /\ timer' = timer
      BY <1>4, Durations DEF FrameArrives, SendFrame
    <2> QED
      BY <1>1, <2>1 DEF Sensor
  <1>5. CASE Tick
    <2>1. NodeTick
      BY <1>5 DEF Tick
    <2>2. CASE npc = "loop"
      <3>1. timer' = [s \in Sensor |-> Less(timer[s])]
        BY <2>1, <2>2 DEF NodeTick
      <3>2. npc' = "loop" /\ ready' = ready /\ wait > 0 /\ wait' = wait - 1
        BY <1>1, <2>1, <2>2 DEF NodeTick, Less
      <3> QED
        BY <1>1, <2>2, <3>1, <3>2 DEF Less, Sensor
    <2>3. CASE npc # "loop"
      BY <2>1, <2>3 DEF NodeTick
    <2> QED
      BY <2>2, <2>3
  <1>6. CASE AttrSet
    BY <1>6 DEF AttrSet, GetCommand
  <1>7. CASE \/ Start \/ Fetch \/ FetchTimeout \/ Wake \/ Setting \/ Interrupt \/ BaseReset
    BY <1>7 DEF Start, Fetch, FetchShowing, FetchTimeout, Wake, Setting, Interrupt,
                BaseReset, nodeVars
  <1>8. CASE UNCHANGED vars
    BY <1>8 DEF vars, nodeVars
  <1> QED
    BY <1>2, <1>3, <1>4, <1>5, <1>6, <1>7, <1>8 DEF Next, NodeNext, BaseNext

\* A turn that decides on a sound level starts both intervals again.
LEMMA TurnReadsBoth ==
  ASSUME DueInv, HomeInv, Turn, "sound" \in ready'
  PROVE  timer'["dist"] = Interval["dist"] /\ timer'["sound"] = Interval["sound"]
  <1>1. timer \in [Sensor -> Nat] /\ wait = 0 /\ npc = "loop"
    BY DEF Turn, HomeInv, TypeInv, TimerOK
  <1>2. ready' \subseteq ready \cup Due
    BY DEF Turn, Read, Counts
  <1>3. timer' = [s \in Sensor |-> IF s \in Due THEN Interval[s] ELSE timer[s]]
    BY DEF Turn, Read
  <1>4. CASE timer["dist"] <= wait /\ timer["sound"] <= wait
    <2>1. "dist" \in Due /\ "sound" \in Due
      BY <1>1, <1>4 DEF Due, Sensor
    <2> QED
      BY <1>3, <2>1 DEF Sensor
  <1>5. CASE timer["sound"] # 0 /\ "sound" \notin ready
    BY <1>2, <1>5 DEF Due
  <1> QED
    BY <1>1, <1>4, <1>5 DEF DueInv

\* No alarm rests on an old distance or sound level, but after a hang.
THEOREM FreshReadings == Spec => ReadingsAreFresh
  <1>1. DueInv /\ HomeInv /\ [Next]_vars =>
          [Turn /\ "sound" \in ready' =>
             timer'["dist"] = Interval["dist"] /\ timer'["sound"] = Interval["sound"]]_nodeVars
    BY TurnReadsBoth
  <1> QED
    BY <1>1, DueInvInit, DueInvStep, HomeInvariant, PTL DEF Spec, ReadingsAreFresh

---------------------------------------------------------------------------
(* PollCommands, for the commands that can be waiting: none or one.  The   *)
(* function that FoldLeft builds on the sets of their indices is exhibited,*)
(* so it is the one that FoldLeft chooses.                                 *)

LEMMA PollNone ==
  ASSUME PollCommands, commands = <<>>
  PROVE  thresholds' = thresholds
  <1> DEFINE Step(c, th) == ApplyCommand(th, c[1], c[2])
             Body(it) == [s \in SUBSET {} |->
                            IF s = {} THEN thresholds
                            ELSE Step(commands[Max(s)], it[s \ {Max(s)}])]
             iter == CHOOSE it : it = Body(it)
             known == [s \in SUBSET {} |-> thresholds]
  <1>1. thresholds' = iter[{}]
    BY SMT DEF PollCommands, FoldLeft, MapThenFoldSet
  <1>2. known = Body(known)
    BY SMT
  <1>3. \E it : it = Body(it)
    BY <1>2
  <1> HIDE DEF Body
  <1>4. iter = Body(iter)
    BY <1>3
  <1> HIDE DEF iter
  <1>5. iter[{}] = thresholds
    BY <1>4, SMT DEF Body
  <1> QED
    BY <1>1, <1>5

LEMMA MaxOne == Max({1}) = 1
  <1>1. \E x \in {1} : \A y \in {1} : x >= y
    OBVIOUS
  <1> QED
    BY <1>1, SMT DEF Max

LEMMA PollOne ==
  ASSUME NEW c, PollCommands, commands = <<c>>
  PROVE  thresholds' = ApplyCommand(thresholds, c[1], c[2])
  <1> DEFINE Step(d, th) == ApplyCommand(th, d[1], d[2])
             Body(it) == [s \in SUBSET {1} |->
                            IF s = {} THEN thresholds
                            ELSE Step(commands[Max(s)], it[s \ {Max(s)}])]
             iter == CHOOSE it : it = Body(it)
             known == [s \in SUBSET {1} |->
                         IF s = {} THEN thresholds ELSE Step(c, thresholds)]
  <1>1. DOMAIN commands = {1} /\ commands[1] = c
    OBVIOUS
  <1>2. thresholds' = iter[{1}]
    BY <1>1, SMT DEF PollCommands, FoldLeft, MapThenFoldSet
  <1>3. known = Body(known)
    <2>1. ASSUME NEW s \in SUBSET {1}, s # {}
          PROVE  Max(s) = 1 /\ s \ {Max(s)} = {} /\ s = {1}
      <3>1. s = {1}
        BY <2>1
      <3> QED
        BY <3>1, MaxOne
    <2> HIDE DEF Step
    <2> QED
      BY <1>1, <2>1
  <1>4. \E it : it = Body(it)
    BY <1>3
  <1> HIDE DEF Body
  <1>5. iter = Body(iter)
    BY <1>4
  <1> HIDE DEF iter
  <1>6. iter[{}] = thresholds
    BY <1>5, SMT DEF Body
  <1>7. iter[{1}] = Step(c, thresholds)
    <2> HIDE DEF Step
    <2>1. \A s \in SUBSET {1} :
            Body(iter)[s] = IF s = {} THEN thresholds
                            ELSE Step(commands[Max(s)], iter[s \ {Max(s)}])
      BY DEF Body
    <2>2. {1} \in SUBSET {1} /\ {1} # {}
      OBVIOUS
    <2>3. {1} \ {Max({1})} = {} /\ commands[Max({1})] = c
      BY <1>1, MaxOne
    <2> QED
      BY <1>5, <1>6, <2>1, <2>2, <2>3
  <1> QED
    BY <1>2, <1>7

---------------------------------------------------------------------------
(* The line is the OR of the alarms.                                       *)

MaskInv ==
  /\ commands \in {<<>>, <<DIST_THRESH>>}
  /\ thresholds.irq_enabled = 1 /\ thresholds.irq_mask = IRQ_MASK

LineInv == MaskInv /\ (line <=> alarm # {})

LEMMA AllBits == Bits(IRQ_MASK) = {MOTION, TEMP, SOUND, HUMIDITY}
  BY DEF Bits, IRQ_MASK, MOTION, TEMP, SOUND, HUMIDITY

LEMMA PollMask ==
  ASSUME MaskInv, PollCommands
  PROVE  MaskInv'
  <1>1. CASE commands = <<>>
    BY <1>1, PollNone DEF MaskInv, PollCommands
  <1>2. CASE commands = <<DIST_THRESH>>
    <2>1. thresholds' = ApplyCommand(thresholds, DIST_THRESH[1], DIST_THRESH[2])
      BY <1>2, PollOne
    <2>2. DIST_THRESH[1] = 1
      BY DEF DIST_THRESH, Cmd
    <2>3. thresholds'.irq_enabled = 1 /\ thresholds'.irq_mask = IRQ_MASK
      BY <2>1, <2>2 DEF MaskInv, ApplyCommand
    <2> QED
      BY <2>3 DEF MaskInv, PollCommands
  <1> QED
    BY <1>1, <1>2 DEF MaskInv

LEMMA DecideLine ==
  ASSUME MaskInv', Decide
  PROVE  line' <=> alarm' # {}
  <1>1. alarm' \subseteq {MOTION, TEMP, SOUND, HUMIDITY}
    BY DEF Decide, Alarms
  <1> QED
    BY <1>1, AllBits DEF MaskInv, Decide, LineLevel

LEMMA LineInvInit == Init => LineInv
  BY DEF Init, NodeInit, LineInv, MaskInv, InitThresholds

LEMMA LineInvStep == LineInv /\ [Next]_vars => LineInv'
  <1> SUFFICES ASSUME LineInv, [Next]_vars PROVE LineInv'
    OBVIOUS
  <1> USE DEF LineInv
  <1>1. CASE NodeWorks
    <2>1. CASE NodeBoot
      BY <2>1 DEF NodeBoot, MaskInv
    <2>2. CASE Turn
      BY <2>2, PollMask, DecideLine DEF Turn
    <2>3. CASE Hang
      BY <2>3, PollMask DEF Hang
    <2>4. CASE Unhang
      <3>1. MaskInv'
        BY <2>4 DEF Unhang, MaskInv
      <3> QED
        BY <2>4, <3>1, DecideLine DEF Unhang
    <2> QED
      BY <1>1, <2>1, <2>2, <2>3, <2>4 DEF NodeWorks, NodeStep
  <1>2. CASE NodeIsReset
    BY <1>2 DEF NodeIsReset, NodeReset, MaskInv, InitThresholds
  <1>3. CASE AttrSet
    <2>1. UNCHANGED <<thresholds, line, alarm>>
      BY <1>3 DEF AttrSet, GetCommand
    <2>2. commands' \in {<<>>, <<DIST_THRESH>>}
      <3>1. CASE commands = <<>>
        BY <1>3, <3>1 DEF AttrSet, GetCommand
      <3>2. CASE commands = <<DIST_THRESH>>
        <4>1. Last(commands) = DIST_THRESH
          BY <3>2 DEF Last
        <4>2. commands # <<>>
          BY <3>2
        <4> QED
          BY <1>3, <3>2, <4>1, <4>2 DEF AttrSet, GetCommand
      <3> QED
        BY <3>1, <3>2 DEF MaskInv
    <2> QED
      BY <2>1, <2>2 DEF MaskInv
  <1>4. CASE \/ FrameArrives \/ Start \/ Fetch \/ FetchTimeout \/ Wake
             \/ Setting \/ Interrupt \/ BaseReset \/ Tick \/ UNCHANGED vars
    <2>1. UNCHANGED <<commands, thresholds, line, alarm>>
      BY <1>4 DEF FrameArrives, SendFrame, Start, Fetch, FetchShowing,
                  FetchTimeout, Wake, Setting, Interrupt, BaseReset, Tick, NodeTick,
                  vars, nodeVars
    <2> QED
      BY <2>1 DEF MaskInv
  <1> QED
    BY <1>1, <1>2, <1>3, <1>4 DEF Next, NodeNext, BaseNext

LEMMA LineInvariant == Spec => []LineInv
  BY LineInvInit, LineInvStep, PTL DEF Spec

---------------------------------------------------------------------------
(* What the sensors have given.                                            *)

\* A distance counts exactly if there was an echo, and a sound level that does
\* not count yet is 0.
ReadingInv ==
  /\ reading.dist \in Echoes \cup {-1, 0}
  /\ "dist" \in ready <=> reading.dist > 0
  /\ reading.sound \in Sounds \cup {0}
  /\ "sound" \notin ready => reading.sound = 0
  /\ reading.bme \in Climates \cup Garbage \cup {<<0, 0>>}

LEMMA ReadingInvInit == Init => ReadingInv
  BY DEF Init, NodeInit, NoReading, ReadingInv

LEMMA Within ==
  ASSUME NEW S, NEW a \in Int, NEW b \in Int, S \subseteq a..b, NEW x \in S
  PROVE  x \in Int /\ a <= x /\ x <= b
  BY SMT

LEMMA ReadingRanges ==
  /\ \A d \in Echoes : d \in Nat
  /\ \A x \in Sounds : x \in Int /\ 0 <= x
  /\ \A c \in Climates \cup Garbage \cup {<<0, 0>>} :
       c[1] \in Int /\ c[2] \in Nat /\ c[2] <= 100000
  <1>1. Sounds \subseteq 0..63
    BY ReadingsAssumption
  <1>2. ASSUME NEW d \in Echoes PROVE d \in Nat
    <2>1. PICK n \in Nat : n = 58 * 65536
      OBVIOUS
    <2>2. d \in Unsigned(n)
      BY <1>2, <2>1, ReadingsAssumption
    <2> QED
      BY <2>2, UnsignedIs, SMT
  <1>3. ASSUME NEW c \in Climates \cup Garbage
        PROVE  c[1] \in Int /\ c[2] \in Nat /\ c[2] <= 100000
    <2>1. c \in Int16 \X Unsigned(100001) \/ c \in Int \X Unsigned(100001)
      BY <1>3, ReadingsAssumption
    <2>2. (c[1] \in Signed(32768) \/ c[1] \in Int) /\ c[2] \in Unsigned(100001)
      BY <2>1 DEF Int16
    <2> QED
      BY <2>2, SignedIs, UnsignedIs, SMT
  <1> QED
    BY <1>1, <1>2, <1>3, Within

LEMMA ReadKeepsReading ==
  ASSUME ReadingInv, NEW due \in SUBSET Sensor, Read(due)
  PROVE  ReadingInv'
  <1>1. /\ reading'.dist \in (IF "dist" \in due THEN ReadDistance ELSE {reading.dist})
        /\ reading'.sound \in (IF "sound" \in due THEN ReadSound ELSE {reading.sound})
        /\ reading'.bme \in (IF "bme" \in due THEN ReadBme680 ELSE {reading.bme})
    BY DEF Read
  <1>2. ready' = (ready \cup due) \ {s \in due : s = "dist" /\ reading'.dist <= 0}
    BY DEF Read, Counts
  <1>3. CASE "dist" \in due
    <2>1. reading'.dist \in Echoes \cup {-1}
      BY <1>1, <1>3 DEF ReadDistance
    <2>2. reading'.dist <= 0 \/ reading'.dist > 0
      BY <2>1, ReadingRanges
    <2>3. "dist" \in ready' <=> reading'.dist > 0
      BY <1>2, <1>3, <2>1, ReadingRanges
    <2> QED
      BY <1>1, <1>2, <2>1, <2>3 DEF ReadingInv, ReadSound, ReadBme680
  <1>4. CASE "dist" \notin due
    <2>1. reading'.dist = reading.dist /\ ("dist" \in ready' <=> "dist" \in ready)
      BY <1>1, <1>2, <1>4
    <2> QED
      BY <1>1, <1>2, <2>1 DEF ReadingInv, ReadSound, ReadBme680
  <1> QED
    BY <1>3, <1>4

LEMMA ReadingInvStep == ReadingInv /\ [Next]_vars => ReadingInv'
  <1> SUFFICES ASSUME ReadingInv, [Next]_vars PROVE ReadingInv'
    OBVIOUS
  <1>1. CASE NodeWorks
    <2>1. CASE NodeBoot
      BY <2>1 DEF NodeBoot, ReadingInv
    <2>2. CASE Turn
      BY <2>2, ReadKeepsReading DEF Turn, Due
    <2>3. CASE Hang
      BY <2>3, ReadKeepsReading DEF Hang, Due
    <2>4. CASE Unhang
      BY <2>4, ReadKeepsReading DEF Unhang, Sensor
    <2> QED
      BY <1>1, <2>1, <2>2, <2>3, <2>4 DEF NodeWorks, NodeStep
  <1>2. CASE NodeIsReset
    BY <1>2 DEF NodeIsReset, NodeReset, NoReading, ReadingInv
  <1>3. CASE \/ FrameArrives \/ Start \/ AttrSet \/ Fetch \/ FetchTimeout \/ Wake
             \/ Setting \/ Interrupt \/ BaseReset \/ Tick \/ UNCHANGED vars
    <2>1. UNCHANGED <<reading, ready>>
      BY <1>3 DEF FrameArrives, SendFrame, Start, AttrSet, GetCommand, Fetch,
                  FetchShowing, FetchTimeout, Wake, Setting, Interrupt, BaseReset,
                  Tick, NodeTick, vars, nodeVars
    <2> QED
      BY <2>1 DEF ReadingInv
  <1> QED
    BY <1>1, <1>2, <1>3 DEF Next, NodeNext, BaseNext

LEMMA ReadingInvariant == Spec => []ReadingInv
  BY ReadingInvInit, ReadingInvStep, PTL DEF Spec

---------------------------------------------------------------------------
(* The LEDs follow the line.                                               *)

\* Before its first frame the sensor node has nothing to decide on.
FirstInv ==
  /\ npc = "boot" => ready = {}
  /\ npc = "loop" /\ frame = NoFrame =>
       wait = 0 /\ ready = {} /\ \A s \in Sensor : timer[s] # 0
  /\ npc = "hung" => frame # NoFrame

\* Between two turns the newest frame, if the base node has one, is of the
\* last turn.
SentInv ==
  (frame_sem = 1 \/ fetched # 0) /\ npc \in {"loop", "hung"} /\ frame # NoFrame =>
    status = alarm

PathInv == LineInv /\ FirstInv /\ SentInv

LEMMA IntervalPositive == \A s \in Sensor : Interval[s] # 0
  <1>1. BmeInterval \in Nat /\ BmeInterval >= 100
    BY IntervalAssumption
  <1>2. Ticks(BmeInterval) # 0
    BY <1>1 DEF Ticks
  <1> QED
    BY <1>2, Intervals DEF Interval, Sensor

\* A first turn reads nothing, so it neither hangs nor finds an alarm.
LEMMA FirstTurn ==
  ASSUME FirstInv, npc = "loop", frame = NoFrame
  PROVE  Due = {} /\ (Turn => alarm' = {})
  <1>1. Due = {} /\ ready = {}
    BY DEF FirstInv, Due
  <1>2. ASSUME Turn PROVE alarm' = {}
    <2>1. ready' = {}
      BY <1>1, <1>2 DEF Turn, Read, Counts
    <2> QED
      BY <1>2, <2>1 DEF Turn, Decide, Alarms
  <1> QED
    BY <1>1, <1>2

\* What the cast of a distance leaves; an echo of d us is below th centimetres
\* exactly if its whole centimetres are.
LEMMA DistanceSent ==
  ASSUME NEW d \in Int, NEW x \in CastDist(d)
  PROVE  /\ x \in Nat
         /\ d >= 0 => \A th \in Nat : x < th <=> d < 58 * th
  <1>1. CASE d >= 0
    <2>1. x = d \div 58
      BY <1>1 DEF CastDist
    <2> QED
      BY <1>1, <2>1, SMT
  <1>2. CASE ~(d >= 0)
    <2>1. x \in UInt16
      BY <1>2, ReadingsAssumption DEF CastDist
    <2>2. PICK n \in Nat : n = 65536
      OBVIOUS
    <2>3. x \in Unsigned(n)
      BY <2>1, <2>2 DEF UInt16
    <2> QED
      BY <1>2, <2>3, UnsignedIs, SMT
  <1> QED
    BY <1>1, <1>2

LEMMA SentFrame ==
  ASSUME SendFrame, reading.dist \in Int
  PROVE  frame' # NoFrame
  <1>1. PICK d \in CastDist(reading.dist) : frame'.dist = d
    BY DEF SendFrame
  <1>2. d # -1
    BY DistanceSent
  <1>3. NoFrame.dist = -1
    BY DEF NoFrame
  <1> QED
    BY <1>1, <1>2, <1>3

LEMMA PathInvInit == Init => PathInv
  BY LineInvInit DEF Init, NodeInit, PathInv, FirstInv, SentInv

LEMMA PathInvStep == PathInv /\ ReadingInv /\ HomeInv /\ [Next]_vars => PathInv'
  <1> SUFFICES ASSUME PathInv, ReadingInv, HomeInv, [Next]_vars PROVE PathInv'
    OBVIOUS
  <1> USE DEF PathInv, FirstInv, SentInv
  <1>1. LineInv'
    BY LineInvStep
  <1>2. CASE NodeWorks
    <2> USE DEF NodeWorks, baseVars
    <2>1. CASE NodeBoot
      BY <1>1, <1>2, <2>1, IntervalPositive DEF NodeBoot, HomeInv, SenderInv
    <2>2. CASE Turn
      BY <1>1, <1>2, <2>2 DEF Turn, Decide
    <2>3. CASE Hang
      BY <1>1, <1>2, <2>3, FirstTurn DEF Hang
    <2>4. CASE Unhang
      BY <1>1, <1>2, <2>4 DEF Unhang, Decide
    <2> QED
      BY <1>2, <2>1, <2>2, <2>3, <2>4 DEF NodeStep
  <1>3. CASE NodeIsReset
    BY <1>1, <1>3 DEF NodeIsReset, NodeReset
  <1>4. CASE FrameArrives
    <2>1. frame' # NoFrame
      BY <1>4, SentFrame, ReadingRanges DEF FrameArrives, ReadingInv
    <2> QED
      BY <1>1, <1>4, <2>1 DEF FrameArrives, SendFrame
  <1>5. CASE AttrSet
    BY <1>1, <1>5 DEF AttrSet, GetCommand
  <1>6. CASE \/ Start \/ Fetch \/ FetchTimeout \/ Wake \/ Setting \/ Interrupt \/ BaseReset
    BY <1>1, <1>6 DEF Start, Fetch, FetchShowing, FetchTimeout, Wake, Setting, Interrupt,
                      BaseReset, nodeVars, baseVars
  <1>7. CASE Tick
    <2>1. UNCHANGED <<npc, ready, frame, alarm, frame_sem, fetched, status>>
      BY <1>7 DEF Tick, NodeTick
    <2>2. ~(npc = "loop" /\ frame = NoFrame)
      BY <1>7 DEF Tick, NodeTick
    <2> QED
      BY <1>1, <2>1, <2>2
  <1>8. CASE UNCHANGED vars
    BY <1>1, <1>8 DEF vars, nodeVars, baseVars
  <1> QED
    BY <1>2, <1>3, <1>4, <1>5, <1>6, <1>7, <1>8 DEF Next, NodeNext, BaseNext

LEMMA PathInvariant == Spec => []PathInv
  BY PathInvInit, PathInvStep, ReadingInvariant, HomeInvariant, PTL DEF Spec

\* Once the base node has fetched what was sent, its LEDs are lit exactly if
\* the interrupt line is high.
THEOREM PathsAgree == Spec => []LineAgreesWithLeds
  <1>1. PathInv /\ HomeInv => LineAgreesWithLeds
    BY DEF PathInv, LineInv, SentInv, HomeInv, FetchInv, LineAgreesWithLeds, Running
  <1> QED
    BY <1>1, PathInvariant, HomeInvariant, PTL

---------------------------------------------------------------------------
(* The handler is called before the LEDs go on.                            *)

\* If a call is due for a rise of the line, it is pending or has been made;
\* while it is pending, no frame shows an alarm yet.
CallInv ==
  /\ bpc = "boot" => deaf /\ ~setting /\ ~armed
  /\ setting => bpc = "attr" /\ ~armed
  /\ ~deaf => ~setting /\ armed
  /\ ~deaf /\ line => edge \/ calls = 1
  /\ edge /\ frame_sem = 1 => status = {}

LEMMA CallInvInit == Init => CallInv
  BY DEF Init, TriggerInit, NodeInit, CallInv

\* When the line rises, what was sent last shows no alarm.
LEMMA RiseAfterQuiet ==
  ASSUME PathInv, NodeStep, ~line, line', frame_sem = 1
  PROVE  status = {}
  <1>1. npc \in {"loop", "hung"} /\ (npc = "loop" => Turn)
    BY DEF NodeStep, NodeBoot, Hang, Unhang, Turn
  <1>2. alarm = {}
    BY DEF PathInv, LineInv
  <1>3. frame # NoFrame
    <2>1. CASE npc = "loop"
      <3>1. ASSUME frame = NoFrame PROVE FALSE
        <4>1. alarm' = {}
          BY <1>1, <2>1, <3>1, FirstTurn DEF PathInv
        <4>2. line' = LineLevel(alarm', thresholds')
          BY <1>1, <2>1 DEF Turn, Decide
        <4> QED
          BY <4>1, <4>2 DEF LineLevel
      <3> QED
        BY <3>1
    <2> QED
      BY <1>1, <2>1 DEF PathInv, FirstInv
  <1> QED
    BY <1>1, <1>2, <1>3 DEF PathInv, SentInv

LEMMA CallInvStep ==
  CallInv /\ CallsInv /\ TriggerInv /\ PathInv /\ [Next]_vars => CallInv'
  <1> SUFFICES ASSUME CallInv, CallsInv, TriggerInv, PathInv, [Next]_vars
               PROVE  CallInv'
    OBVIOUS
  <1> USE DEF CallInv
  <1>1. CASE NodeWorks
    <2>1. CASE ~line /\ line'
      <3>1. frame_sem = 1 => status = {}
        BY <1>1, <2>1, RiseAfterQuiet DEF NodeWorks
      <3> QED
        BY <1>1, <2>1, <3>1 DEF NodeWorks, LineToBase, LineMoves, Detects, baseVars
    <2>2. CASE ~(~line /\ line')
      BY <1>1, <2>2 DEF NodeWorks, LineToBase, LineMoves, Detects, baseVars, history
    <2> QED
      BY <2>1, <2>2
  <1>2. CASE NodeIsReset
    BY <1>2 DEF NodeIsReset, NodeReset, LineToBase, LineMoves, Detects, baseVars, history
  <1>3. CASE FrameArrives
    BY <1>3 DEF FrameArrives, SendFrame, triggerVars, history
  <1>4. CASE Start
    BY <1>4 DEF Start, TriggerSet, nodeVars, history
  <1>5. CASE AttrSet
    BY <1>5 DEF AttrSet, GetCommand, triggerVars, history
  <1>6. CASE Fetch \/ FetchTimeout \/ Wake
    BY <1>6 DEF Fetch, FetchShowing, FetchTimeout, Wake, nodeVars, triggerVars, history
  <1>7. CASE Setting
    BY <1>7 DEF Setting, TriggerStep, StoreField, Configure, ConfigureWith, nodeVars,
                baseVars, history
  <1>8. CASE Interrupt
    <2>1. ~deaf => calls' = 1
      BY <1>8 DEF Interrupt, GpioIsr, CallsHandler, CallsInv, TriggerInv
    <2> QED
      BY <1>8, <2>1 DEF Interrupt, GpioIsr, nodeVars, baseVars
  <1>9. CASE BaseReset
    BY <1>9 DEF BaseReset, TriggerReset, nodeVars
  <1>10. CASE Tick
    BY <1>10 DEF Tick, NodeTick, triggerVars, history
  <1>11. CASE UNCHANGED vars
    BY <1>11 DEF vars, nodeVars, baseVars, triggerVars, history
  <1> QED
    BY <1>1, <1>2, <1>3, <1>4, <1>5, <1>6, <1>7, <1>8, <1>9, <1>10,
       <1>11 DEF Next, NodeNext, BaseNext

LEMMA CallInvariant == Spec => []CallInv
  BY CallInvInit, CallInvStep, CallsInvariant, PathInvariant, HomeAlertIsTrigger,
     TriggerInvariant, PTL DEF Spec

\* When the LEDs go on, the handler has been called, and once, for this rise
\* of the line, unless it was not armed when the line rose.
THEOREM CalledFirst == Spec => CalledBeforeShown
  <1>1. CallInv /\ CallsInv /\ [Next]_vars =>
          [Fetch /\ leds = {} /\ leds' # {} /\ line /\ ~deaf => calls = 1]_vars
    BY DEF CallInv, Fetch, FetchShowing
  <1> QED
    BY <1>1, CallInvariant, CallsInvariant, PTL DEF Spec, CalledBeforeShown

\* No call comes during trigger_set, so what is called is what main registered.
THEOREM RegisteredIsCalled == Spec => []CalledAsRegistered
  <1>1. CallInv /\ TriggerInv => CalledAsRegistered
    BY DEF CallInv, TriggerInv, CallsHandler, CalledAsRegistered
  <1> QED
    BY <1>1, CallInvariant, HomeAlertIsTrigger, TriggerInvariant, PTL

---------------------------------------------------------------------------
(* What a frame says bears out the alarms in it.                           *)

\* The base node sets none but the threshold of the distance.
ThresholdInv ==
  /\ thresholds.dist \in {30, 50}
  /\ thresholds.temp = 4000 /\ thresholds.sound = 30
  /\ thresholds.hum_max = 8000 /\ thresholds.hum_min = 2000

ExplainInv ==
  /\ ThresholdInv
  /\ npc = "send" => alarm = Alarms(reading, ready, thresholds)
  /\ FrameExplainsAlarm

LEMMA PollThresholds ==
  ASSUME MaskInv, ThresholdInv, PollCommands
  PROVE  ThresholdInv'
  <1>1. CASE commands = <<>>
    BY <1>1, PollNone DEF ThresholdInv
  <1>2. CASE commands = <<DIST_THRESH>>
    <2>1. thresholds' = ApplyCommand(thresholds, DIST_THRESH[1], DIST_THRESH[2])
      BY <1>2, PollOne
    <2>2. DIST_THRESH[1] = 1 /\ DIST_THRESH[2] = 30
      BY DEF DIST_THRESH, Cmd
    <2> QED
      BY <2>1, <2>2 DEF ThresholdInv, ApplyCommand
  <1> QED
    BY <1>1, <1>2 DEF MaskInv

LEMMA FrameExplained ==
  ASSUME ReadingInv, ThresholdInv, alarm = Alarms(reading, ready, thresholds), SendFrame
  PROVE  /\ MOTION \in frame'.alarm => frame'.dist < thresholds.dist
         /\ frame'.dist < thresholds.dist => MOTION \in frame'.alarm \/ reading.dist <= 0
         /\ SOUND \in frame'.alarm <=> frame'.sound > thresholds.sound
         /\ TEMP \in frame'.alarm =>
              frame'.temp >= thresholds.temp \/ reading.bme[1] \notin Int16
         /\ HUMIDITY \in frame'.alarm =>
              \/ frame'.hum < thresholds.hum_min
              \/ frame'.hum >= thresholds.hum_max
  <1> DEFINE temp == reading.bme[1]
             hum  == reading.bme[2]
  <1>1. PICK t \in CastTemp(temp), d \in CastDist(reading.dist) :
          frame' = [temp |-> t, hum |-> InHundredths(hum, 1000),
                    sound |-> reading.sound, dist |-> d, alarm |-> alarm]
    BY DEF SendFrame
  <1>2. temp \in Int /\ hum \in Nat /\ hum <= 100000
    BY ReadingRanges DEF ReadingInv
  <1>3. /\ MOTION \in frame'.alarm => frame'.dist < thresholds.dist
        /\ frame'.dist < thresholds.dist => MOTION \in frame'.alarm \/ reading.dist <= 0
    <2>1. MOTION \in frame'.alarm <=> "dist" \in ready /\ reading.dist < 58 * thresholds.dist
      BY <1>1 DEF Alarms, MOTION, TEMP, SOUND, HUMIDITY
    <2>2. reading.dist \in Int
      BY ReadingRanges DEF ReadingInv
    <2>3. thresholds.dist \in Nat /\ frame'.dist = d
      BY <1>1 DEF ThresholdInv
    <2>4. reading.dist >= 0 => (d < thresholds.dist <=> reading.dist < 58 * thresholds.dist)
      BY <2>2, <2>3, DistanceSent
    <2>5. "dist" \in ready <=> reading.dist > 0
      BY DEF ReadingInv
    <2> QED
      BY <2>1, <2>2, <2>3, <2>4, <2>5
  <1>4. SOUND \in frame'.alarm <=> frame'.sound > thresholds.sound
    <2>1. SOUND \in frame'.alarm <=> "sound" \in ready /\ reading.sound > thresholds.sound
      BY <1>1 DEF Alarms, MOTION, TEMP, SOUND, HUMIDITY
    <2> QED
      BY <1>1, <2>1 DEF ReadingInv, ThresholdInv
  <1>5. ASSUME TEMP \in frame'.alarm, temp \in Int16
        PROVE  frame'.temp >= thresholds.temp
    <2>1. temp > 4000
      BY <1>1, <1>5 DEF Alarms, ThresholdInv, MOTION, TEMP, SOUND, HUMIDITY
    <2>2. temp < 32768
      BY <1>5, SignedIs DEF Int16
    <2>3. PICK h \in Int : h = InHundredths(temp, 100) /\ (temp >= 0 => temp <= h + 1)
      BY <1>2, <2>1, <2>2, TemperatureSent, SMT
    <2>4. t = InHundredths(temp, 100)
      BY <1>1, <1>5 DEF CastTemp
    <2>5. frame'.temp = h
      BY <1>1, <2>3, <2>4
    <2> QED
      BY <1>2, <2>1, <2>3, <2>5 DEF ThresholdInv
  <1>6. ASSUME HUMIDITY \in frame'.alarm
        PROVE  frame'.hum < thresholds.hum_min \/ frame'.hum >= thresholds.hum_max
    <2>1. HumidityOut(hum, thresholds)
      BY <1>1, <1>6 DEF Alarms, MOTION, TEMP, SOUND, HUMIDITY
    <2>2. InHundredths(hum, 1000) \in Nat
          /\ InHundredths(hum, 1000) = Times100(FloatDiv(hum, 1000)).whole
      BY <1>2, HumiditySent, SMT DEF InHundredths
    <2>3. PICK w \in Nat : w = frame'.hum /\ w = Times100(FloatDiv(hum, 1000)).whole
      BY <1>1, <2>2
    <2> QED
      BY <2>1, <2>3 DEF HumidityOut, ThresholdInv
  <1> QED
    BY <1>3, <1>4, <1>5, <1>6

LEMMA ExplainInvInit == Init => ExplainInv
  <1> SUFFICES ASSUME Init PROVE ExplainInv
    OBVIOUS
  <1>1. ThresholdInv
    BY DEF Init, NodeInit, InitThresholds, ThresholdInv
  <1> QED
    BY <1>1 DEF Init, NodeInit, ExplainInv, FrameExplainsAlarm

LEMMA ExplainInvStep ==
  ExplainInv /\ ReadingInv /\ MaskInv /\ HomeInv /\ [Next]_vars => ExplainInv'
  <1> SUFFICES ASSUME ExplainInv, ReadingInv, MaskInv, HomeInv, [Next]_vars
               PROVE  ExplainInv'
    OBVIOUS
  <1> USE DEF ExplainInv
  <1>1. ASSUME Decide, ThresholdInv' PROVE ExplainInv'
    <2>1. npc' = "send" /\ alarm' = Alarms(reading', ready', thresholds')
      BY <1>1 DEF Decide
    <2> QED
      BY <1>1, <2>1 DEF FrameExplainsAlarm
  <1>2. CASE NodeWorks
    <2>1. CASE NodeBoot
      <3>1. frame' = NoFrame
        BY <2>1 DEF NodeBoot, HomeInv, SenderInv
      <3> QED
        BY <2>1, <3>1 DEF NodeBoot, ThresholdInv, FrameExplainsAlarm
    <2>2. CASE Turn
      BY <1>1, <2>2, PollThresholds DEF Turn
    <2>3. CASE Hang
      <3>1. ThresholdInv'
        BY <2>3, PollThresholds DEF Hang
      <3> QED
        BY <2>3, <3>1 DEF Hang, FrameExplainsAlarm
    <2>4. CASE Unhang
      <3>1. ThresholdInv'
        BY <2>4 DEF Unhang, ThresholdInv
      <3> QED
        BY <1>1, <2>4, <3>1 DEF Unhang
    <2> QED
      BY <1>2, <2>1, <2>2, <2>3, <2>4 DEF NodeWorks, NodeStep
  <1>3. CASE NodeIsReset
    <2>1. ThresholdInv'
      BY <1>3 DEF NodeIsReset, NodeReset, InitThresholds, ThresholdInv
    <2> QED
      BY <1>3, <2>1 DEF NodeIsReset, NodeReset, FrameExplainsAlarm
  <1>4. CASE FrameArrives
    <2>1. npc = "send" /\ npc' = "loop" /\ UNCHANGED <<reading, ready, thresholds>>
      BY <1>4 DEF FrameArrives, SendFrame
    <2>2. FrameExplainsAlarm'
      BY <1>4, <2>1, FrameExplained DEF FrameArrives, FrameExplainsAlarm
    <2> QED
      BY <2>1, <2>2 DEF ThresholdInv
  <1>5. CASE \/ Start \/ AttrSet \/ Fetch \/ FetchTimeout \/ Wake
             \/ Setting \/ Interrupt \/ BaseReset \/ Tick \/ UNCHANGED vars
    <2>1. UNCHANGED <<npc, reading, ready, thresholds, alarm, frame>>
      BY <1>5 DEF Start, AttrSet, GetCommand, Fetch, FetchShowing,
                  FetchTimeout, Wake, Setting, Interrupt, BaseReset, Tick, NodeTick,
                  vars, nodeVars
    <2> QED
      BY <2>1 DEF ThresholdInv, FrameExplainsAlarm
  <1> QED
    BY <1>2, <1>3, <1>4, <1>5 DEF Next, NodeNext, BaseNext

\* A reader of the frame who knows the thresholds finds its alarms borne out by
\* the values next to them: for every echo, fractions of a centimetre included,
\* with what single precision makes of the BME680's values, whatever garbage the
\* chip or its calibration gives and whatever the undefined casts leave.
THEOREM AlarmsExplained == Spec => []FrameExplainsAlarm
  <1>1. ExplainInv => FrameExplainsAlarm
    BY DEF ExplainInv
  <1>2. LineInv => MaskInv
    BY DEF LineInv
  <1> QED
    BY <1>1, <1>2, ExplainInvInit, ExplainInvStep, ReadingInvariant, LineInvariant,
       HomeInvariant, PTL DEF Spec

=============================================================================
