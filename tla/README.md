# Home-Alert-System: TLA+ models, checks and proofs

The Home-Alert-System is two Raspberry Pi Picos and two wires. The *sensor node*
(`src/sensor_node/main.c`, bare-metal C) reads a distance, a sound level, a
temperature and a humidity, decides which alarms are active, and sends a 10-byte
frame over a UART about twice a second. The *base node* (`src/base_node/`, Zephyr)
receives the frames in an interrupt handler, and an application thread fetches
them through the Zephyr sensor API and drives four alert LEDs. In the other
direction the base node sends 5-byte commands that set alarm thresholds. A
separate GPIO line from the sensor node interrupts the base node when an alarm
becomes active.

There is no acknowledgement, no checksum, no sequence number and no lock anywhere,
so what makes the system correct is the order in which bytes, interrupts, polls and
resets can happen. The modules here are about that.

## 1. Inventory

Paths are relative to `src/`. *Driver* is
`base_node/drivers/sensor_node/sensor_node.c`.

| component | state | operations | what makes it correct |
| --- | --- | --- | --- |
| Driver, UART receive path | `rx_buf`, `rx_idx`, `ready_buf`, `frame_sem` | `sensor_node_uart_isr`, `sensor_node_init` | never writes outside `rx_buf`; publishes only framed data; stays in step with the sender, comes back into step after a fault |
| Driver, `sample_fetch` / `channel_get` | parsed fields, `frame_sem` | take the semaphore or time out after 2 s, parse, convert | the newest frame is not lost; a sample is one frame; channels show the reading sent |
| Driver, `attr_set` | none (writes to the UART) | encode a setting, write five bytes | the sensor node gets the value meant |
| Driver, `trigger_set` and the GPIO interrupt | `trig`, `trigger_dev`, `trigger_handler`, edge interrupt enable | arm, disarm, call the handler | the handler runs once when the line rises, never with half a registration |
| Base application (`base_node/src/main.c`) | `alarm_flags`, LEDs | start-up, trigger registration, one `attr_set`, fetch loop, four LED writes, 300 ms sleep, callback | LEDs show one alarm state, and soon the current one |
| Sensor node, command receiver | `cmd_state_t`, thresholds, UART FIFO | `poll_commands`, `apply_command` | every command applied once, in order; no threshold nobody asked for |
| Sensor node, data frames | none | `send_uart_frame` | frame layout and widths agree with the driver |
| Sensor node, super-loop and alarm logic | readings, readiness flags, three timers, interrupt line | poll, read, decide, drive the line, send, sleep 500 ms | alarms agree with readings and thresholds; the line agrees with the frame |
| Sensor node, BME680 | calibration, `t_fine` | I2C register access, compensation | no overflow, a fresh measurement |
| Sensor node, distance and sound | none | echo timing with a 30 ms time-out, ADC | failure is told from a reading |

**How they interact.** Frames go sensor node → UART → interrupt handler →
`ready_buf` and semaphore → thread → LEDs. Commands go application → `attr_set` →
UART → 32-byte FIFO → `poll_commands` once per loop → thresholds → alarm logic.
Alarms also go alarm logic → GPIO line → edge interrupt → callback. The handler and
the thread share memory; everything else is by wire.

**What is hard.** The handler can run between any two loads of the thread. Bytes
may be lost, and payload bytes may look like markers. Either node may restart while
the other is in the middle of a frame or a command. The sensor node reads its FIFO
only every 500 ms. `PROJECT.json` lists each hazard at its line, with the property
that covers it or the reason none does yet.

Left aside: `protocol/protocol.h` (constants that neither program includes; both have
copies of the same values), device tree and Kconfig (static wiring), the unit tests,
which check the layout and the constants but never call the driver, and `.vscode`,
`build_base`, `build_tests` and `base_node/build`. These last are Zephyr's build
directories, committed with the program: some 45 thousand lines of generated headers
and compiler probes, against about 1,100 lines in the four files the two programs are made of.

## 2. Modules

| module | models | depends on |
| --- | --- | --- |
| `FrameParser` | the interrupt handler and the state it shares with the thread | |
| `BaseNode` | handler against application thread: fetch, LEDs, sleep | `FrameParser` |
| `BaseNodeHistory` | `BaseNode` with a history of the frames seen during one fetch | `BaseNode` |
| `FrameChannel` | abstract: whole frames, in order, newest replaces | |
| `DataLink` | sender, wire and handler byte by byte, with base restarts, byte loss, sensor node resets | `FrameParser`, instance of `FrameChannel` |
| `Encoding` | the conversions of both nodes with their C widths, floats included | |
| `Bme680` | calibration and compensation in `int32_t` | `Encoding` |
| `Conversions` | every number through `Encoding` and `Bme680` | `Bme680` |
| `SettingChannel` | abstract: settings applied once, in order, until a reset; afterwards nothing that was not asked for | |
| `CommandLink` | `attr_set`, wire, FIFO, `poll_commands`, resets | `Encoding`, instance of `SettingChannel` |
| `SensorNode` | the sensor node's start-up and super-loop, in ticks of 100 ms | `Encoding` |
| `AlarmTrigger` | `trigger_set` against the GPIO interrupt | |
| `HomeAlert` | both programs in time: frames, line, LEDs, callback, resets | `SensorNode`, `AlarmTrigger` |
| `MCDataLink`, `MCCommandLink`, `MCEncoding`, `MCHomeAlert` | instances for TLC | |
| `FrameParserProofs`, `BaseNodeProofs`, `DataLinkProofs`, `CommandLinkProofs`, `AlarmTriggerProofs`, `HomeAlertProofs`, `EncodingProofs`, `ConversionProofs` | theorems and proofs | |

**`FrameParser`.** `RxByte(b)` is one turn of the drain loop in
`sensor_node_uart_isr`; its disjuncts are the branches: `Discard`, `Begin`, `Store`,
`Accept`, `Reject`. The code stores and increments before it compares `rx_idx` with
the frame length, so `Accept` and `Reject` store too, and `rx_idx` never holds the
full length between two bytes. `k_sem_give` at the limit leaves the semaphore at 1.

**`BaseNode`.** `pc` follows `main`: `boot`, `fetch`, `parse`, `leds`, `sleep`.
`sample_fetch` reads `ready_buf` with no lock. That is a data race, so `ReadByte`
loads the bytes one at a time in any order, and `UartIsr` may run between any two
loads. Each LED write is a step. The time-out of `k_sem_take` may fire whenever the
semaphore is not available: no timing is assumed. `channel_get` copies fields
without changing state; its arithmetic is in `Encoding`. The calls of `attr_set` and
`trigger_set` during start-up touch none of this module's state.

**`DataLink`.** The wire is a sequence of frames, of which the first is partly
received; `Receive` gives the handler the next byte. `BaseOff`, `MissByte`, `BaseBoot`
switch the base node off and on at any byte; `LoseByte` is a framing error or FIFO
overrun; `NodeReset` cuts the last frame short. `faults`, `corrupt` and `lossy` are
history. Assumption `MarkersApart` says which frames the sensor node can build: the
high bytes of temperature (-40 to 85 °C: 0xF0 to 0xFF and 0x00 to 0x21), humidity (at most 100 %, 0x27) and
distance (at most about 517 cm within the 30 ms echo limit, 0x02), the sound level (at most 0x3F) and the
alarm byte (at most 0x17) have no marker's value, so a payload byte 0xAA is a low byte,
and the byte before it is a high one.
What an undefined cast leaves is outside this assumption: a distance after a failed echo, whose -1 `uint16_t` cannot hold (0 or 65535 with the
usual compilers, whose bytes are no markers), and a temperature that `int16_t` cannot hold, which garbage from the BME680 may be.

**`CommandLink`.** `AttrSet` computes the frame; `PollOut` moves a byte to the FIFO,
or loses it if the UART is not initialised or the FIFO full; `StartPoll`, `PollByte`,
`EndPoll` are one call of `poll_commands`. `Complete` calls `apply_command`. `NodeReset`
puts the compiled-in thresholds back. `wanted` and `was_reset` are history. `Commands`
reads the settings on their way back out of the bytes, for the refinement.

**`Encoding`.** `SendUartFrame`, `SampleFetch`, `ChannelGet`, `Raw`, `AttrSetFrame` and
`ApplyCommand`, with `U8`, `U16`, `I16` for C's conversions and division truncating
towards zero. `FloatDiv` and `Times100` are IEEE single precision, rounding to nearest
even: `read_bme680` divides integers by 100.0f and 1000.0f, `send_uart_frame` multiplies by 100 and
truncates. `Times100` stands for `temp * 100` and `hum * 100.0f` alike. `FloatDiv` takes the exponent for which the quotient has 24 bits
(`Shifted` divides in two parts, so that no number of the model leaves TLC's 32 bits either). `Printed` is what `main` prints of a value.

**`Bme680`.** `ReadCalib`, `CalcTemp` and `CalcHum` follow the C code line by line;
`TempFits` and `HumFits` say when none of their products leaves `int32_t`, which would be undefined.

**`Conversions`.** One variable that counts: every number is taken as a reading, as a setting and as a raw value of the BME680. The calibration is a
constant, in the range that `CalibAssumption` gives (the chip supplies it; the code checks nothing).

**`SensorNode`.** One `Turn` is what the super-loop does from `poll_commands` to `gpio_put`:
nothing outside sees the node in between. `Due` are the sensors whose `absolute_time_t` has passed;
`Counts` is what becomes of the three readiness flags; `Read` takes any reading the sensor may give. A distance is the
time of its echo in microseconds, of which 58 are a centimetre, or -1 for a failed one: an echo of 1 to 57 us counts and raises the
motion alarm, and the cast sends it as 0 (`CastDist`). `SendFrame` is the frame and the sleep. The BME680 may fail to answer at any access: `read_reg`
leaves its buffer as it was, so `status`, the data, the calibration and at start-up the chip id are whatever the stack held. The
loop then hangs (`Hang`, until `Unhang`) or reads garbage, of any temperature (`calc_hum` clamps humidity), and `main` may return (`halted`).
`(uint16_t)dist` of -1 and `(int16_t)` of a temperature out of range are undefined: `CastDist` and `CastTemp` leave any value of `Undefined`. Commands arrive whole here.

**`AlarmTrigger`.** `TriggerSet` begins a call, `StoreField` stores one of the three fields (in any order,
nothing is volatile), `Configure` arms or disarms the pin and ends it. `LineMoves` sets `edge` on a rise while armed;
`GpioIsr` may come between any two of them. `TriggerSpec` lets callers call again with any handler or `NULL`.

**`HomeAlert`.** Each action of the sensor node may move the line; `FrameArrives` is `SendFrame` together with the
interrupt handler of the base node (0.9 ms for ten bytes). `Start`, `AttrSet`, `Fetch`, `FetchTimeout`, `Wake` are
`main`; `ret` is what the last fetch returned, which the console tells. `Tick` passes 100 ms, and not while either node has something to do. `calls`, `deaf`, `fetched` and `frame_age` are history.

Definitions commented as mutants are variants of a definition with a plausible bug
in them. They take part in no specification; they serve to confirm that each property
fails when the code is wrong in that way.

## 3. Runs

`PROJECT.json` names the module, configuration and properties of each.

| run | shows | distinct states |
| --- | --- | --- |
| `base_node` | no lost update: a thread waiting with nothing signalled has parsed, untorn, and shows the newest frame; the LEDs show the status of *one* sample, although frames may arrive between two writes; published data are framed; `rx_idx` stays in bounds; an alarm status that stays the newest reaches the LEDs | 170 thousand |
| `base_node_torn` | **violation**: a sample made of two frames | |
| `data_link_sync` | without faults the link implements `FrameChannel`, fairness included | 17 thousand |
| `data_link_join` | a base node that starts at any byte publishes nothing that was not sent, once in step stays so, and if clean frames (no 0xAA in the payload) keep coming, frames keep being taken | 38 thousand |
| `data_link_no_sync` | **violation**: without clean frames the parser may stay out of step for ever | |
| `data_link_faults` | at most one corrupt frame per lost byte or reset; a clean frame brings the parser back | 9.2 million |
| `command_link` | the link implements `SettingChannel`: until a reset it is a queue of settings; each setting is applied with the value meant, the last one of an attribute wins, and an attribute that is no longer changed is applied whatever is set on others; resets anywhere in a command never give a threshold nobody asked for | 890 thousand |
| `command_link_lost` | **violation**: a setting sent while the sensor node starts, or before it is reset, is lost for good | |
| `command_link_flood` | **violation**: a FIFO overrun joins two commands into one nobody sent | |
| `encoding` | every word through both directions, all five attributes: `channel_get` shows the reading, the console prints it unless it is a fraction of a degree below zero, a reading comes back as a threshold, a setting arrives exactly if its field can hold it; what is sent of a temperature or humidity is at most a hundredth nearer to zero than what was measured; no product of the compensation overflows before humidity has reached 100 %, and it never falls as the raw value rises | 100 thousand |
| `home_alert` | a frame's alarms are borne out by the values next to them; no turn decides on an old distance, but after a hang; LEDs are at most 400 ms behind the newest frame, and a sensor node silent for 2.8 s is reported; line and LEDs agree; a rise of the line is one call, made before the LEDs show it; no call comes during `trigger_set`, and none with half a registration; from the second fetch on no frame meets the parse of another; a fetch times out only if the sensor node is not between two turns | 1.2 million |
| `home_alert_calls` | **violation**: a second alarm, or one active before arming, calls nothing | |

### What the violations say

* **Torn sample** (driver line 163). The comment "Double buffer: ISR writes, fetch
  reads" describes more than there is. `NewestIsShown` bounds the harm: the semaphore
  has been given again, so a later fetch replaces the torn sample. The alarm status is one byte
  and is not torn, hence `LedsMatchSample`.
* **No synchronisation** (driver line 109). After `Reject` the handler forgets the bytes
  it holds instead of looking for a start marker among them. A steady reading such as
  24.74 °C (0x09AA) can keep it misaligned. `CleanFramesAreReceived` is what does hold.
* **Lost setting** (base `main.c` line 119). Sent once, never acknowledged, kept in RAM.
* **Spliced command** (sensor `main.c` line 313). Two commands and one overrun suffice
  when the room left in the FIFO is not a multiple of five; the application in the repository
  makes one call only, so this concerns the driver's users.
* **Alarms without a call** (driver line 315). The line is the OR of the alarms and the interrupt is for its rising
  edge. An alarm that starts while another lasts, or that lasts since before the base node armed the pin (any restart
  of the base node during an alarm), is seen on the LEDs only.

### What the passing runs say that the code does not

* The torn sample needs a frame during a parse. `FramesDoNotMeet` says that with this application and this sensor node that can
  happen at the first fetch after a start only, when a frame may be as old as the boot is long; later the two are at least 100 ms apart.
  A console that takes more than 100 ms a turn would change that (its mutant).
* Truncation: among the hundredths from 0.00 to 85.00 C, 569 of 8501 are sent one hundredth low, and 569 of the 10001 humidities from 0.00 to 100.00 %.
* `FrameExplainsAlarm`: motion comes with a distance below the threshold. A distance below it comes without the alarm only
  if there was no echo, when it is what an undefined cast left, or 0 before the first reading. The alarm drops at a failed echo, and nothing else drops it while the distance is
  below the threshold. A distance of 0 may be an alarm (less than a centimetre) or none: the bit alone tells.
* `SilenceIsReported`: LEDs that show a frame of a sensor node gone silent stay as they are, for ever. What the user gets is the warning on the console, no later than
  2.8 s after that frame (400 ms until it is fetched, 400 ms of sleep, 2 s of waiting). The first frame after a start is excepted, as it may be as old as the boot is long.
* `CalledAsRegistered`: `trigger_set` stores its three fields with the interrupt possible in between. This program calls it once, with the pin disarmed, so no call can see
  the fields half stored; a second call with the pin armed would have no such protection, and only `CalledWithDevice` (no `NULL`) would be left (`HandlerHasDevice`).
* `ReadingsAreFresh`: `DIST_INTERVAL` equals the sleep of the loop. A sleep of 400 ms would decide every second time on an old distance.
  A turn that hangs on the BME680 does decide on a distance as old as the hang.
* Sound: `sensor_node.h` gives the level as ADC 0 to 255; the sensor node sends its 12 bits shifted right by six, 0 to 63. `ChannelsShowReading` is about what is sent.
* `ConsoleShowsReading`: -0.50 C prints as `0.-50` and -1.50 C as `-1.-50`, as `%02d` shows the sign of the hundredths; every other value prints right.
* `OnlyFittingSettingsArrive`: `attr_set` checks no range and reports no error. A sound threshold of 64 arrives as 0, a temperature of 400 C as a negative one.
* Humidity: with the usual calibration the formula reaches 100 % at a raw value near 30000, and would overflow only from 46746 on.

### Bounds

* `BaseNode*`: frames of 4 bytes and 3 byte values. The handler's branches
  depend only on "first", "last" and "other" position and on whether a byte is a
  marker, so two payload bytes (the status and another one) give every case. Byte
  values 0x55 and 0xAA light complementary LEDs, so a mixture is visible. The
  theorems hold for every length.
* `MaxSeen` = 2 different frames during one fetch suffice for a mixture.
* `DataLink`: the real 10-byte layout, with readings whose low bytes are markers in each
  of the three places. `MaxInFlight` = 2 or 3: a frame being received and one behind it; the
  parser never sees further. `MaxFaults` = 2: a second fault while the first one's effect lasts.
* `CommandLink`: the real 5-byte layout; two values of one attribute and one of another, with bytes
  equal to both markers. `RxFifoLen` = 6 holds a command and the tail of the one before.
  The flood run uses 7, which is 2 modulo 5 as the real 32 is: where in a command
  the overrun falls is what matters. `Paced` lets an application set an attribute only when the FIFO has room for
  a command, which a caller that waits for one loop of the sensor node ensures.
* `MCEncoding` is exhaustive in the reading; humidity is limited to 0..100.00 %,
  which `calc_hum` clamps to, and sound to 12 bits. The five parts of a reading go together there; the theorems take them apart. The compensation is checked
  for one usual calibration, all raw temperatures (the upper 16 of their 20 bits) and, at -40, 25 and 85 C, all raw humidities; the theorem is for a range of calibrations
  and all temperatures in between.
* `HomeAlert`: 100 ms a tick. A turn takes 500 to 600 ms, the base node's sleep with its console output 300 to 400 ms;
  that is the one assumption on timing. Readings are on the limits: echoes of half a centimetre and of 30 cm (under both thresholds, under the
  default only) or none, a sound level of 30, a climate of 40.00 C and 80.000 %, or garbage: a temperature that `int16_t` cannot hold, and a humidity just over 80 %.
  An undefined cast leaves 10 or 65535, a distance below and one above the thresholds. `MaxAge` ends the count of a frame's age just above 2.8 s.
  `BmeInterval` is 1100 ms rather than 3000: what matters is that it is longer than a turn and no multiple of one. The theorems hold for any readings and any interval.
  No byte is lost here and frames are whole; loss is `DataLink`'s. A `calls` of 2 stands for more.

### Fairness

* `BaseNode!FairSpec`: the application thread keeps running; it is the only one of
  the application, and interrupts take a bounded share of the time. Nothing is assumed of the handler.
* `DataLink!Fairness`: bytes on the wire arrive and the interrupt is served; the
  application comes back to `sample_fetch` (its loop always does). For joining
  also: a base node that is off is switched on, and the super-loop sends a frame on every turn.
* `CommandLink!Fairness`: the UART sends what it was given, and the super-loop
  comes around (a BME680 that hangs the loop would break this). For the lost setting also: a sensor
  node that was reset boots.
* `HomeAlert` assumes no fairness. Its properties are safety properties about a clock, so they bound delays rather
  than promise an event some day.

## 4. Proofs

All for every value of the constants, under the assumptions named in the modules.

`FrameParserProofs` has lemmas about `RxByte`: it keeps types, publishes only on the last
byte, opens and stores where it should.

`BaseNodeProofs`
* `TypeCorrect`: `Spec => []TypeOK`. The point is `rx_idx`, a `uint8_t` that is the only guard of the write into `rx_buf`.
* `PublishedFramesAreFramed`: needs that a frame in assembly starts with a start marker, which
  `rx_idx > 0 => rx_buf[0] = FRAME_START` adds.
* `NoLostUpdate`: `NewestIsShown` is not inductive. The strengthening says, for each `pc`, what
  holds *while the semaphore is not given*: in `parse`, the bytes already loaded agree with
  `ready_buf`; in `leds`, the flags are its status and the LEDs already written
  show it; in `sleep` and `fetch`, all of them. `Accept` makes the hypothesis false; `SemTake` makes
  the conclusion vacuous by setting `unread` to everything.
* `LedUpdateIsWhole`: `LedsMatchSample`, from the same invariant.

`DataLinkProofs`
* `LinkTypeCorrect`, for the specification with all faults.
* `AlwaysInSync`, `SyncKept`: `rx_idx` is the position of the sender, and `rx_buf` the prefix sent.
* `CleanFrameSuffices`: while a frame without start markers is received without loss, the
  parser is either in step with it or was opened before it; in the second case it reaches its length
  inside the frame and then discards to the end.
* `NeverCorrupt`: from `Aligned`. A misaligned window opened at position p > 0 of one frame ends at position
  p - 1 of the next. The opening byte was a payload byte with the value of a start marker, and by
  `MarkersApart` no frame has an end marker's value at p - 1, so the window is rejected. The
  induction carries where the open window began.
* `LinkIsChannel`: every step of `Spec` maps to a step of `FrameChannel` or a stutter: the last byte is
  `Receive`, every other byte a stutter.
* `OneCorruptFrame`: each fault has an account of one corrupt frame. A lost byte charges the frame being assembled; a reset
  charges the frame it cuts short, which may be behind others on the wire. `FaultInv`: there are numbers `c`, at least the
  frames cut short on the wire, and `t`, 1 if the frame being assembled is charged, with `corrupt + t + c <= faults`, and if `t` is 0 the
  parser is `Aligned`. The end of a cut frame moves one from `c` to `t`; the last byte of what is assembled moves it to `corrupt`.

`CommandLinkProofs` (of `ResetSpec`: either node is reset at any byte)
* `CommandTypeCorrect`: with `FifoInv`, that a paced application leaves room in the FIFO for what is on its way.
* `NothingUnasked`, `QuietIsApplied`: the invariant tags every byte between `attr_set` and `apply_command` (in `tx`, in the
  FIFO, in `cmd_buf`) with the setting whose frame it belongs to and its place there (`Tagged`): neighbours are neighbours
  in one frame, or the second one starts a frame. Resets take bytes off either end (`Drop`, `Take`) and keep that.
  `Window`: five bytes that end in an end marker are then one whole frame, or carry a start marker where the command's number belongs, which
  `apply_command` ignores; that no high byte is an end marker is what excludes the rest. Without resets the frames are `WholeFrames`, and `Pending` says that
  the last one for an attribute carries the value wanted.
* `LinkIsSettingChannel`: every step of `ResetSpec` maps to a step of `SettingChannel` or a stutter. `pending` is what the bytes on their way
  say, five at a time (`Commands`), and empty once a node has been reset; `applied` is the five thresholds. Without resets a frame starts
  at every multiple of five (`WholeAt`), so an `attr_set` appends one setting (`QueueAdd`), the byte that completes a command takes the
  head off and applies it (`QueueDrop`, `CompleteIsApply`), and every other byte moves from one place to the next and changes nothing (`QueueSame`).
  After a reset what is completed is the command of one setting or changes no threshold (`WindowApplied`).

`AlarmTriggerProofs` (of `TriggerSpec`: any callers, any handlers, any line)
* `TriggerTypeCorrect`, `HandlerHasDevice`: while the pin is armed, device and trigger are those of *some*
  caller, even in the middle of the next call; the fields already stored are the arguments of the call in progress.

`HomeAlertProofs` (any readings, any interval of the BME680)
* `HomeAlertIsTrigger`: `HomeAlert` implements `TriggerSpec`, which carries the theorems above over.
* `RegisteredIsCalled`: `CallInv` adds that the pin is disarmed while a call of `trigger_set` is in progress, and `TriggerInv` that an unserved edge needs an armed pin.
* `HomeTypeCorrect`, `OneCall`: an unserved edge and a call made for the same rise exclude each other.
* `LedsNotStale`, `ParseIsUndisturbed`, `NoFalseTimeout`: the argument is arithmetic on the two clocks. Between frames the sensor
  node's `wait` and the frame's age add up to 500 to 600 ms; the base node sleeps at most 400 ms and then fetches at once.
* `SilenceReported`: as long as no fetch has failed since the last frame, that frame's age and the base node's remaining wait add up to at most 800 ms in its sleep and 2.8 s in the fetch after it (`SilenceInv`).
* `FreshReadings`: between turns the timers of distance and sound level run out no later than the turn begins (`DueInv`).
* `PathsAgree`: the line is the OR of the alarms, as no command of this application touches mask or enable (`PollOne` unfolds the
  fold over the commands waiting, of which there is at most one); between turns the newest frame is of the last turn.
* `CalledFirst`: if a call is due for a rise, it is pending or made; while it is pending, the newest frame shows no alarm
  (`RiseAfterQuiet`: a first turn after a reset reads nothing, and every later one follows a frame that agrees with the line).
* `AlarmsExplained`: `FrameExplainsAlarm` is inductive together with what a turn leaves behind (`ReadingInv`, `ExplainInv`): a distance counts exactly if its echo took any time, a
  sound level that does not count yet is 0, only the distance's threshold is ever set, and between the decision and the frame the
  alarms are those of the readings. The step that sends (`FrameExplained`) is where the conversions come in: an echo is shorter than 58 us for each centimetre of the threshold exactly if its whole centimetres are
  below it (`DistanceSent`), a temperature above 40.00 C that fits goes out as 40.00 C at least
  (`TemperatureSent`), and humidity is compared and sent as the same float product.

`EncodingProofs`: lemmas about the conversions.
* `FloatDivIs`: long division. For every dividend up to 100001 and divisor 100 or 1000 there is exactly one exponent with a quotient of 24 bits, and the float is that
  quotient, rounded (`IsFloat`). `Times100Is` and `WholeIs` bound what the product's two roundings and the cut add and take: nothing and at most a hundredth
  (`TemperatureSent`, `HumiditySent`); `FloatsCompare`: a greater dividend has a greater quotient.
* `SampleIsReading`, `CommandCarries`, `ThereAndBack`: what the bytes of a frame and of a command carry, for any reading and any value.

`ConversionProofs` (any `Last`, any calibration in the range of `CalibAssumption`, any temperatures from -41 to 86 C)
* `EveryReadingIsShown`, `ReadingsAreShown`, `ConsoleIsRight`, `ReadingsAreThresholds`, `EverySettingThatFits`, `SettingsThatFit`: each holds of every
  reading or every integer, whatever number the specification has come to; the only invariant needed is that this is a natural number.
* `FloatsAreHarmless`, from `EncodingProofs`.
* `CompensationIsSafe`: temperature is `var1` times a gain plus its square times a tiny one, and the product grows by more than the square
  shrinks (`TempGrows`). For humidity, where `var3` is negative its square does not outweigh it and the result is 0 (`HumOfNegative`); from there on all terms grow
  (`HumGrows`). No product overflows while `var3` is at most 430 million (`HumFitsUpTo`), and one step of the raw value before that the
  result has already reached 100 % (`OverflowsAfterFull`).

Only model-checked: the liveness properties (`StatusReachesLeds`, `CleanFramesAreReceived`, `SettingIsApplied` and the fairness in
`ImplementsFairChannel`), which need fairness and are out of the prover's reach. Every invariant and every action property that a passing run checks is
also a theorem.

## 5. Not modelled, and what is left

* **Generated build output** (`build_base`, `build_tests`, `base_node/build`): device tree macros, system call stubs, compiler probes. There is nothing of the
  program in them to translate, and they are nearly all of the repository's lines, so the share of lines that the modules stand for stays small
  although every function of the two programs but console output is modelled.
* **Console and USB**: the wording of what is printed; the digits of a value are in `Encoding`.
* **The BME680's conversion time**: whether its measuring bit is set at the first read of `status`. `ReadBme680` may give any climate.
* **The echo pulse** inside its 30 ms limit.
* **Initialisation failures** of the driver (`-ENODEV`): `main` returns at once.
* **Device tree, Kconfig, unit tests, `protocol.h`**: see the inventory.

Left to do: a composition of `CommandLink` with `SensorNode` byte by byte (now the commands of `HomeAlert` are whole).
