------------------------- MODULE FrameParserProofs -------------------------
(***************************************************************************)
(* What one byte does to the driver's parser, for every frame length and   *)
(* every choice of marker values.                                          *)
(***************************************************************************)
EXTENDS FrameParser, TLAPS

\* The buffers start out as frames of zeros.
LEMMA NoFrameIsFrame == NoFrame \in Frame
  BY ParserAssumption DEF NoFrame, Frame

\* The handler of one byte keeps the parser's types; the write position stays
\* inside the buffer whatever the byte.
LEMMA RxByteType ==
  ASSUME ParserTypeOK, NEW b \in Byte, RxByte(b)
  PROVE  ParserTypeOK'
<1> USE ParserAssumption DEF ParserTypeOK, Frame
<1>1. CASE Discard(b)
  BY <1>1 DEF Discard, parserVars
<1>2. CASE Begin(b)
  BY <1>2 DEF Begin, BeginIf
<1>3. CASE Store(b)
  BY <1>3 DEF Store, StoreAt
<1>4. CASE Accept(b)
  BY <1>4 DEF Accept, LastByte, Publish
<1>5. CASE Reject(b)
  BY <1>5 DEF Reject, RejectAt, LastByte
<1> QED
  BY <1>1, <1>2, <1>3, <1>4, <1>5 DEF RxByte

\* A byte changes the published frame only together with the semaphore.
LEMMA PublishGives ==
  ASSUME NEW b, RxByte(b)
  PROVE  frame_sem' = 1 \/ UNCHANGED <<ready_buf, frame_sem>>
  BY DEF RxByte, Discard, Begin, Store, Accept, Reject,
         BeginIf, StoreAt, LastByte, Publish, RejectAt, parserVars

\* A start marker opens whatever the parser holds in rx_buf.
Opened == rx_idx > 0 => rx_buf[0] = FRAME_START

\* So a published frame has both markers in place.
LEMMA RxByteFramed ==
  ASSUME ParserTypeOK, Opened, NEW b \in Byte, RxByte(b)
  PROVE  /\ Opened'
         /\ \/ UNCHANGED ready_buf
            \/ ready_buf'[0] = FRAME_START /\ ready_buf'[FRAME_LEN-1] = FRAME_END
<1> USE ParserAssumption DEF ParserTypeOK, Frame, Opened
<1>1. CASE Discard(b)
  BY <1>1 DEF Discard, parserVars
<1>2. CASE Begin(b)
  BY <1>2 DEF Begin, BeginIf
<1>3. CASE Store(b)
  BY <1>3 DEF Store, StoreAt
<1>4. CASE Accept(b)
  BY <1>4 DEF Accept, LastByte, Publish
<1>5. CASE Reject(b)
  BY <1>5 DEF Reject, RejectAt, LastByte
<1> QED
  BY <1>1, <1>2, <1>3, <1>4, <1>5 DEF RxByte

\* The write position after a byte.
LEMMA RxByteIdx ==
  ASSUME ParserTypeOK, NEW b \in Byte, RxByte(b)
  PROVE  /\ rx_idx = 0 /\ b # FRAME_START => rx_idx' = 0
         /\ rx_idx = 0 /\ b = FRAME_START => rx_idx' = 1
         /\ rx_idx > 0 /\ rx_idx + 1 # FRAME_LEN => rx_idx' = rx_idx + 1
         /\ rx_idx > 0 /\ rx_idx + 1 = FRAME_LEN => rx_idx' = 0
  BY ParserAssumption
     DEF RxByte, Discard, Begin, Store, Accept, Reject, BeginIf, StoreAt, LastByte,
         Publish, RejectAt, parserVars, ParserTypeOK

\* The buffers and the semaphore after a byte that is stored.
LEMMA RxByteStores ==
  ASSUME ParserTypeOK, NEW b \in Byte, RxByte(b), rx_idx > 0 \/ b = FRAME_START
  PROVE  /\ \A j \in 0..FRAME_LEN-1 : rx_buf'[j] = IF j = rx_idx THEN b ELSE rx_buf[j]
         /\ rx_idx > 0 /\ rx_idx + 1 = FRAME_LEN /\ b = FRAME_END =>
              ready_buf' = rx_buf' /\ frame_sem' = 1
         /\ ~(rx_idx > 0 /\ rx_idx + 1 = FRAME_LEN /\ b = FRAME_END) =>
              UNCHANGED <<ready_buf, frame_sem>>
<1>1. rx_buf' = [rx_buf EXCEPT ![rx_idx] = b]
  BY DEF RxByte, Discard, Begin, Store, Accept, Reject,
         BeginIf, StoreAt, LastByte, Publish, RejectAt
<1>2. \A j \in 0..FRAME_LEN-1 : rx_buf'[j] = IF j = rx_idx THEN b ELSE rx_buf[j]
  BY <1>1 DEF ParserTypeOK, Frame
<1> QED
  BY <1>2, ParserAssumption
     DEF RxByte, Discard, Begin, Store, Accept, Reject, BeginIf, StoreAt, LastByte,
         Publish, RejectAt, parserVars, ParserTypeOK

============================================================================
