---------------------------- MODULE FrameParser ----------------------------
(***************************************************************************)
(* The receive side of the base node's sensor driver: the UART interrupt   *)
(* handler sensor_node_uart_isr, the buffer it assembles a frame in, the   *)
(* "ready" buffer it publishes complete frames through, and the binary     *)
(* semaphore that tells the application thread one is there.               *)
(*                                                                         *)
(* The handler drains the FIFO in a loop; RxByte is one turn of that loop. *)
(* The FIFO may be drained in batches of any size, one byte included, and  *)
(* a batch of n bytes is n consecutive RxByte steps.                       *)
(***************************************************************************)
EXTENDS Integers

CONSTANTS
  Byte,         \* the byte values that may appear on the wire
  FRAME_START,  \* 0xAA
  FRAME_END,    \* 0x55
  FRAME_LEN     \* 10; rx_idx is a uint8_t

ASSUME ParserAssumption ==
  /\ Byte \subseteq 0..255
  /\ {0, FRAME_START, FRAME_END} \subseteq Byte
  /\ FRAME_START # FRAME_END
  /\ FRAME_LEN \in 3..255

VARIABLES
  rx_buf,     \* the frame being assembled
  rx_idx,     \* its write position; 0 = waiting for a start marker
  ready_buf,  \* the last complete frame
  frame_sem   \* binary semaphore, given by the handler, taken by sample_fetch

parserVars == <<rx_buf, rx_idx, ready_buf, frame_sem>>

Frame    == [0..FRAME_LEN-1 -> Byte]
NoFrame  == [i \in 0..FRAME_LEN-1 |-> 0]   \* static data start out as zeros
Payload  == 1..FRAME_LEN-2                 \* the bytes between the markers

ParserTypeOK ==
  /\ rx_buf \in Frame
  /\ rx_idx \in 0..FRAME_LEN-1
  /\ ready_buf \in Frame
  /\ frame_sem \in 0..1

ParserInit ==
  /\ rx_buf = NoFrame
  /\ rx_idx = 0
  /\ ready_buf = NoFrame
  /\ frame_sem = 0

(***************************************************************************)
(* The same assignments as an action: the driver's initialisation after    *)
(* the base node has been reset.                                           *)
(***************************************************************************)
ParserReset ==
  /\ rx_buf' = NoFrame
  /\ rx_idx' = 0
  /\ ready_buf' = NoFrame
  /\ frame_sem' = 0

---------------------------------------------------------------------------
(* The branches of the handler's loop body, one per outcome of a byte b.   *)

\* A stray byte while waiting for a start marker.
Discard(b) ==
  /\ rx_idx = 0
  /\ b # FRAME_START
  /\ UNCHANGED parserVars

BeginIf(opens, b) ==
  /\ rx_idx = 0
  /\ opens
  /\ rx_buf' = [rx_buf EXCEPT ![0] = b]
  /\ rx_idx' = 1
  /\ UNCHANGED <<ready_buf, frame_sem>>

\* Mutant of Begin: any byte opens a frame.
BeginOnAnyByte(b) == BeginIf(TRUE, b)

Begin(b) == BeginIf(b = FRAME_START, b)

StoreAt(i, last, b) ==
  /\ rx_idx > 0
  /\ rx_idx # last
  /\ rx_buf' = [rx_buf EXCEPT ![i] = b]
  /\ rx_idx' = i + 1
  /\ UNCHANGED <<ready_buf, frame_sem>>

\* Mutants of Store: the length is checked one byte too late; a byte that
\* looks like a start marker opens a new frame.
StorePastEnd(b)   == StoreAt(rx_idx, FRAME_LEN, b)
StoreOrRestart(b) == StoreAt(IF b = FRAME_START THEN 0 ELSE rx_idx, FRAME_LEN - 1, b)

Store(b) == StoreAt(rx_idx, FRAME_LEN - 1, b)

\* The last byte of a frame: it is stored, and the position becomes idx.
LastByte(b, idx) ==
  /\ rx_idx > 0
  /\ rx_idx + 1 = FRAME_LEN
  /\ rx_buf' = [rx_buf EXCEPT ![rx_idx] = b]
  /\ rx_idx' = idx

\* k_sem_give on a semaphore at its limit of 1 leaves it there.
Publish ==
  /\ ready_buf' = rx_buf'
  /\ frame_sem' = 1

\* Mutants of Accept: the end marker is not checked; k_sem_give is missing.
AcceptAnyEnd(b)   == LastByte(b, 0) /\ Publish
AcceptSilently(b) == LastByte(b, 0) /\ b = FRAME_END /\ ready_buf' = rx_buf' /\ UNCHANGED frame_sem

Accept(b) == LastByte(b, 0) /\ b = FRAME_END /\ Publish

RejectAt(b, idx) == LastByte(b, idx) /\ b # FRAME_END /\ UNCHANGED <<ready_buf, frame_sem>>

\* Mutant of Reject: the position is not reset, so the next end marker
\* completes the frame.
RejectWithoutReset(b) == RejectAt(b, rx_idx)

Reject(b) == RejectAt(b, 0)

RxByte(b) == Discard(b) \/ Begin(b) \/ Store(b) \/ Accept(b) \/ Reject(b)

============================================================================
