------------------------------ MODULE DataLink ------------------------------
(***************************************************************************)
(* The data direction of the serial link, byte by byte: send_uart_frame on *)
(* the sensor node, the wire with the FIFOs at its ends, and the driver's  *)
(* parser (module FrameParser) on the base node.  The link has no          *)
(* acknowledgement, no checksum, no byte stuffing: a payload byte may have *)
(* the value of either marker.                                             *)
(*                                                                         *)
(* Three specifications differ in what may go wrong:                       *)
(*   Spec        both nodes run and no byte is lost;                       *)
(*   JoinSpec    the base node may be switched off and on at any byte;     *)
(*   FaultySpec  besides, bytes are lost on the wire and the sensor node   *)
(*               is reset while a frame is leaving it.                     *)
(***************************************************************************)
EXTENDS FrameParser, Sequences

CONSTANTS
  Frames,       \* the frames that send_uart_frame may build
  MaxInFlight,  \* bound: frames on the wire
  MaxFaults     \* bound: faults of FaultySpec

FramesFit ==
  /\ Frames \subseteq [0..FRAME_LEN-1 -> Byte]
  /\ \A f \in Frames : f[0] = FRAME_START /\ f[FRAME_LEN-1] = FRAME_END

ASSUME LinkAssumption ==
  /\ FramesFit
  /\ MaxInFlight \in Nat \ {0}
  /\ MaxFaults \in Nat

\* The positions at which some frame carries the value of a marker.
StartPositions == {p \in 0..FRAME_LEN-1 : \E f \in Frames : f[p] = FRAME_START}
EndPositions   == {p \in 0..FRAME_LEN-1 : \E f \in Frames : f[p] = FRAME_END}

(***************************************************************************)
(* Readings are in range, so only the low bytes of temperature, humidity   *)
(* and distance can have the value of a marker: no payload byte that may   *)
(* look like a start follows a position that may look like an end.         *)
(***************************************************************************)
ASSUME MarkersApart == \A p \in StartPositions \ {0} : p - 1 \notin EndPositions

VARIABLES
  wire,     \* frames on the wire, the one that is being received first
  base_up,  \* is the base node's driver running?
  faults,   \* history: faults so far
  corrupt   \* history: frames published that are not the frame sent

vars == <<parserVars, wire, base_up, faults, corrupt>>

\* Of frame, the bytes next..stop-1 are still on the wire.  Only the first
\* segment is partly received, only one cut by a reset stops early.  History:
\* lossy tells whether LoseByte has taken a byte of it.
Segment == [frame : Frames, next : 0..FRAME_LEN-1, stop : 1..FRAME_LEN,
            lossy : BOOLEAN]

TypeOK ==
  /\ ParserTypeOK
  /\ wire \in Seq(Segment)
  /\ \A k \in 1..Len(wire) : wire[k].next < wire[k].stop
  /\ Len(wire) <= MaxInFlight
  /\ base_up \in BOOLEAN
  /\ faults \in 0..MaxFaults
  /\ corrupt \in Nat

Init ==
  /\ ParserInit
  /\ wire = <<>>
  /\ base_up = TRUE
  /\ faults = 0
  /\ corrupt = 0

NextByte == wire[1].frame[wire[1].next]

\* The position in its frame of the next byte to be received.
Pos == IF wire = <<>> THEN 0 ELSE wire[1].next

\* The next byte leaves the wire, and is lost or not.
Advance(lost) ==
  LET s == wire[1] IN
    wire' = IF s.next + 1 = s.stop
            THEN Tail(wire)
            ELSE [wire EXCEPT ![1] = [frame |-> s.frame, next |-> s.next + 1,
                                      stop |-> s.stop, lossy |-> s.lossy \/ lost]]

---------------------------------------------------------------------------
(* Steps of the two programs.                                              *)

\* send_uart_frame hands a frame to uart_write_blocking.
SendFrame(f) ==
  /\ Len(wire) < MaxInFlight
  /\ wire' = Append(wire, [frame |-> f, next |-> 0, stop |-> FRAME_LEN,
                          lossy |-> FALSE])
  /\ UNCHANGED <<parserVars, base_up, faults, corrupt>>

\* The interrupt handler takes a byte from the FIFO.
Publishes(b) == rx_idx + 1 = FRAME_LEN /\ b = FRAME_END

Receive ==
  /\ base_up
  /\ wire # <<>>
  /\ RxByte(NextByte)
  /\ Advance(FALSE)
  /\ corrupt' = IF Publishes(NextByte) /\ ready_buf' # wire[1].frame
                THEN corrupt + 1 ELSE corrupt
  /\ UNCHANGED <<base_up, faults>>

\* sample_fetch takes the semaphore.
SemTake ==
  /\ base_up
  /\ frame_sem = 1
  /\ frame_sem' = 0
  /\ UNCHANGED <<rx_buf, rx_idx, ready_buf, wire, base_up, faults, corrupt>>

---------------------------------------------------------------------------
(* The base node loses power and starts again.                             *)

BaseOff ==
  /\ base_up
  /\ base_up' = FALSE
  /\ UNCHANGED <<parserVars, wire, faults, corrupt>>

\* A byte that arrives while the base node is off.
MissByte ==
  /\ ~base_up
  /\ wire # <<>>
  /\ Advance(FALSE)
  /\ UNCHANGED <<parserVars, base_up, faults, corrupt>>

BaseBoot ==
  /\ ~base_up
  /\ base_up' = TRUE
  /\ ParserReset
  /\ UNCHANGED <<wire, faults, corrupt>>

---------------------------------------------------------------------------
(* Faults.                                                                 *)

\* A framing error or a FIFO overrun: the byte never reaches the handler.
LoseByte ==
  /\ base_up
  /\ wire # <<>>
  /\ faults < MaxFaults
  /\ faults' = faults + 1
  /\ Advance(TRUE)
  /\ UNCHANGED <<parserVars, base_up, corrupt>>

\* The sensor node is reset: what is left of its last frame is not sent.
NodeReset ==
  /\ wire # <<>>
  /\ faults < MaxFaults
  /\ faults' = faults + 1
  /\ LET n == Len(wire) IN
       \E stop \in wire[n].next..wire[n].stop-1 :
         wire' = IF stop = wire[n].next
                 THEN SubSeq(wire, 1, n-1)
                 ELSE [wire EXCEPT ![n].stop = stop]
  /\ UNCHANGED <<parserVars, base_up, corrupt>>

---------------------------------------------------------------------------

Next == (\E f \in Frames : SendFrame(f)) \/ Receive \/ SemTake

JoinNext == Next \/ BaseOff \/ MissByte \/ BaseBoot

FaultyNext == JoinNext \/ LoseByte \/ NodeReset

Spec       == Init /\ [][Next]_vars
JoinSpec   == Init /\ [][JoinNext]_vars
FaultySpec == Init /\ [][FaultyNext]_vars

(***************************************************************************)
(* Bytes on the wire arrive, the interrupt is served, the application      *)
(* comes back to sample_fetch, and a base node that is off is switched on. *)
(* The sensor node sends a frame on every turn of its loop.                *)
(***************************************************************************)
Fairness == WF_vars(Receive) /\ WF_vars(SemTake)

FairSpec == Spec /\ Fairness

FairJoinSpec ==
  /\ JoinSpec
  /\ Fairness
  /\ WF_vars(BaseBoot)
  /\ WF_vars(\E f \in Frames : SendFrame(f))

---------------------------------------------------------------------------
(* Properties.                                                             *)

\* The parser is in step with the sender: it has stored exactly the bytes
\* of the frame that is on its way, from the start marker on.
InSync ==
  /\ rx_idx = Pos
  /\ wire # <<>> => \A j \in 0..rx_idx-1 : rx_buf[j] = wire[1].frame[j]

Channel == INSTANCE FrameChannel WITH
             queue  <- [k \in 1..Len(wire) |-> wire[k].frame],
             newest <- ready_buf,
             fresh  <- frame_sem

\* While both nodes run and no byte is lost, the link implements a channel
\* that delivers frames whole, in order, and without losing any.
ImplementsChannel == Channel!Spec
ImplementsFairChannel == Channel!FairSpec

\* A base node that starts in the middle of a frame, and so may take a
\* payload byte for a start marker, never publishes a frame that was not sent.
NothingCorrupt == corrupt = 0

\* The payload of f holds no byte that looks like a start marker.
Clean(f) == \A p \in Payload : f[p] # FRAME_START

\* A single frame without such a byte suffices for the parser to find back
\* into step, whatever has happened before: when the base node has received
\* that frame's last byte, having lost none of it while it was up, then it
\* waits for the next start marker.
CleanFrameResyncs ==
  [][Receive /\ Clean(wire[1].frame) /\ wire[1].next = FRAME_LEN-1 /\ ~wire[1].lossy
       => rx_idx' = 0]_vars

\* No fault-free step takes a parser that is in step out of step.
SyncIsKept == [][InSync /\ base_up /\ base_up' => InSync']_vars

\* A lost byte or a reset of the sensor node makes the base node publish at
\* most one frame that was not sent: there is no lasting corruption.
OneCorruptFramePerFault == corrupt <= faults

\* If the base node stays on, and clean frames keep coming, frames keep
\* being taken by the application.
CleanFramesAreReceived ==
  <>[]base_up /\ []<>(wire # <<>> /\ Clean(wire[1].frame))
    => []<><<SemTake>>_vars

\* "uses a state machine to synchronise on the 0xAA start marker": a base
\* node that stays on comes into step with the sensor node.
Synchronises == <>[]base_up => <>[]InSync

============================================================================
