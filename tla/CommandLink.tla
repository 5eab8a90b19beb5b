---------------------------- MODULE CommandLink ----------------------------
(***************************************************************************)
(* The command direction of the serial link, byte by byte: on the base     *)
(* node sensor_node_attr_set, which writes a command frame to the UART; on *)
(* the sensor node the receive FIFO, and poll_commands, which drains it on *)
(* every turn of the super-loop and applies the commands it finds.  There  *)
(* is no acknowledgement and no retry, and the sensor node keeps its       *)
(* thresholds in RAM.                                                      *)
(*                                                                         *)
(* Three specifications differ in what may go wrong:                       *)
(*   NodeResetSpec  the sensor node may be reset at any byte;              *)
(*   ResetSpec  either node may be reset at any byte; in both the          *)
(*              application paces its settings;                            *)
(*   FloodSpec  the application sets attributes as fast as it can, and the *)
(*              receive FIFO overruns while the sensor node sleeps.        *)
(***************************************************************************)
EXTENDS Encoding

CONSTANTS
  Settings,   \* the settings <<attribute, sensor_value>> applications ask for
  RxFifoLen   \* 32: the depth of the sensor node's hardware FIFO

CMD_START     == 187   \* 0xBB
CMD_END       == 102   \* 0x66
CMD_FRAME_LEN == 5

\* The threshold that an attribute sets, and the range it has there.
Field == [DIST_THRESH |-> "dist", TEMP_MAX |-> "temp", SOUND_THRESH |-> "sound",
          HUM_MAX |-> "hum_max", HUM_MIN |-> "hum_min"]

Thresholds ==
  [dist : UInt16, temp : Int16, sound : 0..63, hum_max : UInt16, hum_min : UInt16,
   irq_enabled : 0..1, irq_mask : UInt8]

\* What a caller means by a value: whole units, or hundredths.
Meaning(attr, val) ==
  IF attr \in {"DIST_THRESH", "SOUND_THRESH"}
  THEN val.val1
  ELSE val.val1 * 100 + val.val2 \div 10000

(***************************************************************************)
(* Settings are whole hundredths in the range of their threshold, and no   *)
(* high byte looks like an end marker, which holds for what can be         *)
(* measured (at most 5 m, 85 C, 100 %).                                    *)
(***************************************************************************)
RangeOf(attr) ==
  [DIST_THRESH |-> UInt16, TEMP_MAX |-> Int16, SOUND_THRESH |-> 0..63,
   HUM_MAX |-> UInt16, HUM_MIN |-> UInt16][attr]

ASSUME SettingsAssumption ==
  \A s \in Settings :
    /\ s[1] \in Attributes
    /\ s[2].val1 \in Int /\ s[2].val2 \in Int /\ s[2].val2 % 10000 = 0
    /\ Meaning(s[1], s[2]) \in RangeOf(s[1])
    /\ High(Raw(s[1], s[2])) # CMD_END

ASSUME FifoAssumption == RxFifoLen \in Nat \ {0}

VARIABLES
  tx,          \* base: bytes of the command being sent, not yet on the wire
  rx_fifo,     \* node: received and not yet read
  node_up,     \* node: is the UART initialised?
  polling,     \* node: inside poll_commands?
  cmd_buf,     \* node: cmd_state_t
  cmd_idx,
  thresholds,  \* node: what the alarms are compared with
  wanted,      \* history: for each attribute the last value asked for
  was_reset    \* history: has either node been reset?

nodeVars == <<rx_fifo, node_up, polling, cmd_buf, cmd_idx, thresholds>>
vars == <<tx, nodeVars, wanted, was_reset>>

TypeOK ==
  /\ tx \in Seq(UInt8) /\ Len(tx) <= CMD_FRAME_LEN
  /\ rx_fifo \in Seq(UInt8) /\ Len(rx_fifo) <= RxFifoLen
  /\ node_up \in BOOLEAN
  /\ polling \in BOOLEAN
  /\ cmd_buf \in [0..CMD_FRAME_LEN-1 -> UInt8]
  /\ cmd_idx \in 0..CMD_FRAME_LEN-1
  /\ thresholds \in Thresholds
  /\ wanted \in [Attributes -> Int]
  /\ was_reset \in BOOLEAN

Init ==
  /\ tx = <<>>
  /\ rx_fifo = <<>>
  /\ node_up = TRUE
  /\ polling = FALSE
  /\ cmd_buf = [i \in 0..CMD_FRAME_LEN-1 |-> 0]
  /\ cmd_idx = 0
  /\ thresholds = InitThresholds
  /\ wanted = [a \in Attributes |-> InitThresholds[Field[a]]]
  /\ was_reset = FALSE

---------------------------------------------------------------------------
(* The base node.                                                          *)

\* attr_set builds the frame; the transmit FIFO only delays its bytes.
AttrSet(attr, val) ==
  /\ tx = <<>>
  /\ tx' = [i \in 1..CMD_FRAME_LEN |-> AttrSetFrame(attr, val)[i-1]]
  /\ wanted' = [wanted EXCEPT ![attr] = Meaning(attr, val)]
  /\ UNCHANGED <<nodeVars, was_reset>>

\* A byte arrives at the sensor node.  It is lost while the UART is not set up
\* and when the FIFO is full.
PollOut ==
  /\ tx # <<>>
  /\ tx' = Tail(tx)
  /\ rx_fifo' = IF node_up /\ Len(rx_fifo) < RxFifoLen
                THEN Append(rx_fifo, Head(tx)) ELSE rx_fifo
  /\ UNCHANGED <<node_up, polling, cmd_buf, cmd_idx, thresholds, wanted, was_reset>>

---------------------------------------------------------------------------
(* The sensor node.                                                        *)

\* The super-loop comes around, after the sensors and a sleep of 500 ms.
StartPoll ==
  /\ node_up /\ ~polling
  /\ polling' = TRUE
  /\ UNCHANGED <<tx, rx_fifo, node_up, cmd_buf, cmd_idx, thresholds, wanted, was_reset>>

\* poll_commands returns when the FIFO is empty.
EndPoll ==
  /\ polling /\ rx_fifo = <<>>
  /\ polling' = FALSE
  /\ UNCHANGED <<tx, rx_fifo, node_up, cmd_buf, cmd_idx, thresholds, wanted, was_reset>>

\* The outcomes of one byte b.
Discard(b) ==
  /\ cmd_idx = 0 /\ b # CMD_START
  /\ UNCHANGED <<cmd_buf, cmd_idx, thresholds>>

Begin(b) ==
  /\ cmd_idx = 0 /\ b = CMD_START
  /\ cmd_buf' = [cmd_buf EXCEPT ![0] = b]
  /\ cmd_idx' = 1
  /\ UNCHANGED thresholds

StoreBefore(b, last) ==
  /\ cmd_idx > 0 /\ cmd_idx # last
  /\ cmd_buf' = [cmd_buf EXCEPT ![cmd_idx] = b]
  /\ cmd_idx' = cmd_idx + 1
  /\ UNCHANGED thresholds

\* Mutant of Store: the length is checked one byte too late.
StorePastEnd(b) == StoreBefore(b, CMD_FRAME_LEN)

Store(b) == StoreBefore(b, CMD_FRAME_LEN - 1)

CompleteAt(b, idx, valid) ==
  /\ cmd_idx > 0 /\ cmd_idx + 1 = CMD_FRAME_LEN
  /\ cmd_buf' = [cmd_buf EXCEPT ![cmd_idx] = b]
  /\ cmd_idx' = idx
  /\ thresholds' = IF valid
                   THEN ApplyCommand(thresholds, cmd_buf[1], Word(cmd_buf[2], cmd_buf[3]))
                   ELSE thresholds

\* Mutants of Complete: the position is not reset; the end marker is not
\* checked.
CompleteWithoutReset(b) == CompleteAt(b, cmd_idx, b = CMD_END)
CompleteUnchecked(b)    == CompleteAt(b, 0, TRUE)

Complete(b) == CompleteAt(b, 0, b = CMD_END)

PollByte ==
  /\ polling
  /\ rx_fifo # <<>>
  /\ LET b == Head(rx_fifo) IN Discard(b) \/ Begin(b) \/ Store(b) \/ Complete(b)
  /\ rx_fifo' = Tail(rx_fifo)
  /\ UNCHANGED <<tx, node_up, polling, wanted, was_reset>>

---------------------------------------------------------------------------
(* Resets.                                                                 *)

\* The sensor node starts over, with the thresholds it was compiled with; it
\* sleeps for two seconds before it sets up the UART.
NodeReset ==
  /\ node_up
  /\ node_up' = FALSE
  /\ polling' = FALSE
  /\ rx_fifo' = <<>>
  /\ cmd_buf' = [i \in 0..CMD_FRAME_LEN-1 |-> 0]
  /\ cmd_idx' = 0
  /\ thresholds' = InitThresholds
  /\ was_reset' = TRUE
  /\ UNCHANGED <<tx, wanted>>

NodeBoot ==
  /\ ~node_up
  /\ node_up' = TRUE
  /\ UNCHANGED <<tx, rx_fifo, polling, cmd_buf, cmd_idx, thresholds, wanted, was_reset>>

\* The base node is reset in the middle of a command.
BaseReset ==
  /\ tx # <<>>
  /\ tx' = <<>>
  /\ was_reset' = TRUE
  /\ UNCHANGED <<nodeVars, wanted>>

---------------------------------------------------------------------------

\* A paced application leaves the sensor node the time to empty its FIFO.
Paced == Len(rx_fifo) + CMD_FRAME_LEN <= RxFifoLen

Set == \E s \in Settings : AttrSet(s[1], s[2])

Work == PollOut \/ StartPoll \/ EndPoll \/ PollByte

NodeResetNext == (Paced /\ Set) \/ Work \/ NodeReset \/ NodeBoot
ResetNext     == NodeResetNext \/ BaseReset
FloodNext     == Set \/ Work

NodeResetSpec == Init /\ [][NodeResetNext]_vars
ResetSpec     == Init /\ [][ResetNext]_vars
FloodSpec     == Init /\ [][FloodNext]_vars

(***************************************************************************)
(* The UART sends what it is given and the super-loop never stops; that a  *)
(* sensor node which is reset boots is assumed only where it matters.      *)
(***************************************************************************)
Fairness == WF_vars(PollOut) /\ WF_vars(StartPoll \/ EndPoll \/ PollByte)

FairResetSpec     == ResetSpec /\ Fairness
FairNodeResetSpec == NodeResetSpec /\ Fairness /\ WF_vars(NodeBoot)

---------------------------------------------------------------------------
(* Properties.                                                             *)

\* The sensor node has the value last asked for.
Applied(a) == thresholds[Field[a]] = wanted[a]

\* Unless a node has been reset: once the link is quiet the sensor node has
\* every threshold that was asked for, with the value the caller meant.  The
\* last setting of an attribute wins and none is missing.
QuietMeansApplied ==
  ~was_reset /\ tx = <<>> /\ rx_fifo = <<>> =>
    \A a \in Attributes : Applied(a)

Changed(a) == wanted'[a] # wanted[a]

\* Unless a node is reset, every attribute whose wanted value stops changing
\* is applied, whatever is set meanwhile on other attributes: no sequence of
\* settings and polls starves it.
SettingIsApplied ==
  \A a \in {s[1] : s \in Settings} :
    []<>(Applied(a) \/ was_reset) \/ []<><<Changed(a)>>_wanted

AskedFor(a) == {Meaning(s[1], s[2]) : s \in {t \in Settings : t[1] = a}}

\* No threshold is ever anything but its default or a value that was asked
\* for it, wherever in a command either node is reset.
OnlyAskedFor ==
  \A a \in Attributes :
    thresholds[Field[a]] \in
      {InitThresholds[Field[a]]} \cup AskedFor(a)

\* "The sensor node applies the new value immediately on next loop iteration":
\* a sensor node that stays up comes to have the thresholds asked for.
SettingSurvivesReset ==
  <>[]node_up =>
    \A a \in {s[1] : s \in Settings} : []<>Applied(a) \/ []<><<Changed(a)>>_wanted

(***************************************************************************)
(* The bytes on their way: stored in cmd_buf, waiting in the FIFO, and not *)
(* yet sent.  In frames of five bytes they are commands.                   *)
(***************************************************************************)
InTransit == cmd_idx + Len(rx_fifo) + Len(tx)

ByteInTransit(p) ==
  IF p <= cmd_idx THEN cmd_buf[p-1]
  ELSE IF p <= cmd_idx + Len(rx_fifo) THEN rx_fifo[p-cmd_idx]
  ELSE tx[p-cmd_idx-Len(rx_fifo)]

\* The attribute that a command's number stands for, and its value.
AttributeOf(cmd) == CHOOSE a \in Attributes : Cmd[a] = cmd

Decoded(attr, raw) == IF attr = "TEMP_MAX" THEN I16(raw) ELSE raw

SettingOf(cmd, high, low) ==
  <<AttributeOf(cmd), Decoded(AttributeOf(cmd), Word(high, low))>>

Commands ==
  [k \in 1..InTransit \div 5 |->
     SettingOf(ByteInTransit(5*k-3), ByteInTransit(5*k-2), ByteInTransit(5*k-1))]

Channel == INSTANCE SettingChannel WITH
             Asked    <- [a \in Attributes |-> AskedFor(a)],
             Compiled <- [a \in Attributes |-> InitThresholds[Field[a]]],
             pending  <- IF was_reset THEN <<>> ELSE Commands,
             applied  <- [a \in Attributes |-> thresholds[Field[a]]],
             broken   <- was_reset

\* Until a node is reset the link is a queue of settings: every attr_set takes
\* effect exactly once, in the order of the calls, on its own threshold and
\* with the value meant.  After a reset thresholds change one at a time, to
\* values that were asked for, or all to their defaults.
ImplementsChannel == Channel!Spec

============================================================================
