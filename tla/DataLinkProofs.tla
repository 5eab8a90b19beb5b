--------------------------- MODULE DataLinkProofs ---------------------------
(***************************************************************************)
(* Theorems about DataLink, for every frame length and every set of frames *)
(* that LinkAssumption and MarkersApart allow, every bound on the frames   *)
(* in flight and every number of faults.                                   *)
(***************************************************************************)
EXTENDS DataLink, FrameParserProofs, SequenceTheorems

---------------------------------------------------------------------------
(* What the steps do to the wire.                                          *)

WireOK ==
  /\ wire \in Seq(Segment)
  /\ \A k \in 1..Len(wire) : wire[k].next < wire[k].stop

\* Only the first frame on the wire is partly received.
OnlyFirstStarted == \A k \in 2..Len(wire) : wire[k].next = 0

\* A segment's fields.
LEMMA SegmentFields ==
  ASSUME NEW s \in Segment
  PROVE  /\ s.frame \in Frames
         /\ s.next \in 0..FRAME_LEN-1
         /\ s.stop \in 1..FRAME_LEN
         /\ s.lossy \in BOOLEAN
  BY DEF Segment

\* A frame on the wire is a frame of bytes between its markers.
LEMMA FrameFacts ==
  ASSUME NEW f \in Frames
  PROVE  /\ f \in Frame
         /\ \A p \in 0..FRAME_LEN-1 : f[p] \in Byte
         /\ f[0] = FRAME_START
         /\ f[FRAME_LEN-1] = FRAME_END
  BY LinkAssumption DEF FramesFit, Frame

\* A wire that is not empty has a first segment.
LEMMA First ==
  ASSUME WireOK, wire # <<>>
  PROVE  /\ Len(wire) \in Nat \ {0}
         /\ 1 \in 1..Len(wire)
         /\ wire[1] \in Segment
         /\ wire[1].next < wire[1].stop
         /\ NextByte \in Byte
<1>1. Len(wire) \in Nat \ {0}
  BY EmptySeq DEF WireOK
<1>2. wire[1] \in Segment /\ wire[1].next < wire[1].stop
  BY <1>1, ElementOfSeq DEF WireOK
<1>3. NextByte \in Byte
  BY <1>2, SegmentFields, FrameFacts DEF NextByte
<1> QED
  BY <1>1, <1>2, <1>3

\* Advance removes the first segment, or moves one byte ahead in it.
LEMMA AdvanceFacts ==
  ASSUME WireOK, wire # <<>>, NEW lost \in BOOLEAN, Advance(lost)
  PROVE  /\ WireOK'
         /\ OnlyFirstStarted => OnlyFirstStarted'
         /\ wire[1].next + 1 = wire[1].stop =>
              /\ Len(wire') = Len(wire) - 1
              /\ \A k \in 1..Len(wire') : wire'[k] = wire[k+1]
         /\ wire[1].next + 1 # wire[1].stop =>
              /\ Len(wire') = Len(wire)
              /\ wire'[1].frame = wire[1].frame
              /\ wire'[1].next = wire[1].next + 1
              /\ wire'[1].stop = wire[1].stop
              /\ wire'[1].lossy = (wire[1].lossy \/ lost)
              /\ \A k \in 2..Len(wire) : wire'[k] = wire[k]
<1> USE First, ParserAssumption
<1>1. CASE wire[1].next + 1 = wire[1].stop
  <2>1. wire' = Tail(wire)
    BY <1>1 DEF Advance
  <2>2. /\ wire' \in Seq(Segment)
        /\ Len(wire') = Len(wire) - 1
        /\ \A k \in 1..Len(wire') : wire'[k] = wire[k+1]
    BY <2>1, HeadTailProperties DEF WireOK
  <2>3. WireOK'
    <3>1. \A k \in 1..Len(wire') : k+1 \in 1..Len(wire)
      BY <2>2
    <3> QED
      BY <2>2, <3>1 DEF WireOK
  <2>4. OnlyFirstStarted => OnlyFirstStarted'
    <3>1. \A k \in 2..Len(wire') : k \in 1..Len(wire') /\ k+1 \in 2..Len(wire)
      BY <2>2
    <3> QED
      BY <2>2, <3>1 DEF OnlyFirstStarted
  <2> QED
    BY <1>1, <2>2, <2>3, <2>4
<1>2. CASE wire[1].next + 1 # wire[1].stop
  <2> DEFINE s == [frame |-> wire[1].frame, next |-> wire[1].next + 1,
                   stop |-> wire[1].stop, lossy |-> wire[1].lossy \/ lost]
  <2>1. wire' = [wire EXCEPT ![1] = s]
    BY <1>2, Zenon DEF Advance
  <2>2. s \in Segment
    BY <1>2, SegmentFields DEF Segment
  <2>3. /\ s.frame = wire[1].frame
        /\ s.next = wire[1].next + 1
        /\ s.stop = wire[1].stop
        /\ s.lossy = (wire[1].lossy \/ lost)
    OBVIOUS
  <2> HIDE DEF s
  <2>4. /\ wire' \in Seq(Segment)
        /\ Len(wire') = Len(wire)
        /\ \A j \in 1..Len(wire) : wire'[j] = IF j = 1 THEN s ELSE wire[j]
    BY <2>1, <2>2, ExceptSeq DEF WireOK
  <2>5. s.next < s.stop
    BY <1>2, <2>3, SegmentFields
  <2>6. wire'[1] = s /\ \A k \in 2..Len(wire) : wire'[k] = wire[k]
    BY <2>4
  <2>7. WireOK'
    BY <2>4, <2>5 DEF WireOK
  <2>8. OnlyFirstStarted => OnlyFirstStarted'
    BY <2>4, <2>6 DEF OnlyFirstStarted
  <2> QED
    BY <1>2, <2>3, <2>4, <2>6, <2>7, <2>8
<1> QED
  BY <1>1, <1>2

\* SendFrame adds a segment at the end.
LEMMA SendFacts ==
  ASSUME WireOK, NEW f \in Frames, SendFrame(f)
  PROVE  /\ WireOK'
         /\ OnlyFirstStarted => OnlyFirstStarted'
         /\ Len(wire') = Len(wire) + 1
         /\ \A k \in 1..Len(wire) : wire'[k] = wire[k]
         /\ wire'[Len(wire')] = [frame |-> f, next |-> 0, stop |-> FRAME_LEN,
                                 lossy |-> FALSE]
<1> DEFINE s == [frame |-> f, next |-> 0, stop |-> FRAME_LEN, lossy |-> FALSE]
<1>1. s \in Segment /\ s.next < s.stop
  BY ParserAssumption DEF Segment
<1>2. wire' = Append(wire, s) /\ Len(wire) \in Nat
  BY LenProperties DEF SendFrame, WireOK
<1> HIDE DEF s
<1>3. /\ wire' \in Seq(Segment)
      /\ Len(wire') = Len(wire) + 1
      /\ \A k \in 1..Len(wire) : wire'[k] = wire[k]
      /\ wire'[Len(wire) + 1] = s
  BY <1>1, <1>2, AppendProperties DEF WireOK
<1>4. WireOK'
  BY <1>1, <1>2, <1>3 DEF WireOK
<1>5. OnlyFirstStarted => OnlyFirstStarted'
  BY <1>1, <1>2, <1>3 DEF OnlyFirstStarted, s
<1> QED
  BY <1>3, <1>4, <1>5 DEF s

\* NodeReset cuts the last segment short, or removes it.
LEMMA ResetFacts ==
  ASSUME WireOK, NodeReset
  PROVE  /\ WireOK'
         /\ OnlyFirstStarted => OnlyFirstStarted'
         /\ Len(wire') \in 0..Len(wire)
         /\ Len(wire') \in {Len(wire) - 1, Len(wire)}
         /\ \A k \in 1..Len(wire') : /\ wire'[k].frame = wire[k].frame
                                    /\ wire'[k].next = wire[k].next
                                    /\ wire'[k].lossy = wire[k].lossy
         /\ \A k \in 1..Len(wire') : k < Len(wire) => wire'[k] = wire[k]
<1> DEFINE n == Len(wire)
<1>1. wire # <<>>
  BY DEF NodeReset
<1>2. n \in Nat \ {0}
  BY <1>1, First
<1>3. \A k \in 1..n : wire[k] \in Segment /\ wire[k].next < wire[k].stop
  BY ElementOfSeq DEF WireOK
<1>4. PICK stop \in wire[n].next..wire[n].stop-1 :
        wire' = IF stop = wire[n].next
                THEN SubSeq(wire, 1, n-1)
                ELSE [wire EXCEPT ![n].stop = stop]
  BY DEF NodeReset
<1>5. CASE stop = wire[n].next
  <2>1. /\ wire' \in Seq(Segment)
        /\ Len(wire') = n - 1
        /\ \A k \in 1..n-1 : wire'[k] = wire[k]
    <3>1. wire' = SubSeq(wire, 1, n-1)
      BY <1>4, <1>5
    <3>2. \A k \in 1..n-1 : wire[k] \in Segment
      BY <1>2, <1>3
    <3> HIDE DEF n
    <3>3. /\ SubSeq(wire, 1, n-1) \in Seq(Segment)
          /\ Len(SubSeq(wire, 1, n-1)) = IF 1 <= n-1 THEN n-1-1+1 ELSE 0
          /\ \A k \in 1..n-1-1+1 : SubSeq(wire, 1, n-1)[k] = wire[1+k-1]
      BY <1>2, <3>2, SubSeqProperties
    <3> QED
      BY <1>2, <3>1, <3>3
  <2>2. OnlyFirstStarted => OnlyFirstStarted'
    BY <1>2, <2>1 DEF OnlyFirstStarted
  <2>3. WireOK'
    BY <1>2, <1>3, <2>1 DEF WireOK
  <2> QED
    BY <1>2, <2>1, <2>2, <2>3
<1>6. CASE stop # wire[n].next
  <2> DEFINE s == [wire[n] EXCEPT !.stop = stop]
  <2>1. wire' = [wire EXCEPT ![n] = s]
    BY <1>4, <1>6, Zenon
  <2>2. n \in 1..n /\ wire[n] \in Segment
    BY <1>2, <1>3
  <2>3. /\ s \in Segment
        /\ s.frame = wire[n].frame /\ s.next = wire[n].next
        /\ s.lossy = wire[n].lossy /\ s.next < s.stop
    <3>1. wire[n].next \in 0..FRAME_LEN-1 /\ wire[n].stop \in 1..FRAME_LEN
      BY <2>2, SegmentFields
    <3> HIDE DEF n
    <3>2. stop \in 1..FRAME_LEN /\ wire[n].next < stop
      BY <1>6, <3>1, ParserAssumption
    <3> QED
      BY <2>2, <3>2 DEF Segment
  <2> HIDE DEF s
  <2>4. /\ wire' \in Seq(Segment)
        /\ Len(wire') = n
        /\ \A k \in 1..n : wire'[k] = IF k = n THEN s ELSE wire[k]
    BY <2>1, <2>2, <2>3, ExceptSeq DEF WireOK
  <2>5. OnlyFirstStarted => OnlyFirstStarted'
    BY <1>2, <2>3, <2>4 DEF OnlyFirstStarted
  <2>6. WireOK'
    BY <1>3, <2>3, <2>4 DEF WireOK
  <2> QED
    BY <1>2, <2>3, <2>4, <2>5, <2>6
<1> QED
  BY <1>4, <1>5, <1>6

---------------------------------------------------------------------------
(* Types.                                                                  *)

\* Every variable keeps its type, whatever goes wrong on the link; the wire
\* holds at most MaxInFlight frames.
THEOREM LinkTypeCorrect == FaultySpec => []TypeOK
<1>1. Init => TypeOK
  BY NoFrameIsFrame, ParserAssumption, LinkAssumption
     DEF Init, TypeOK, ParserInit, ParserTypeOK
<1>2. TypeOK /\ [FaultyNext]_vars => TypeOK'
  <2> SUFFICES ASSUME TypeOK, [FaultyNext]_vars
               PROVE  TypeOK'
    OBVIOUS
  <2>1. WireOK /\ ParserTypeOK /\ Len(wire) \in Nat
    BY LenProperties DEF TypeOK, WireOK
  <2>2. ASSUME NEW lost \in BOOLEAN, wire # <<>>, Advance(lost)
        PROVE  WireOK' /\ Len(wire') <= MaxInFlight
    BY <2>1, <2>2, AdvanceFacts, LinkAssumption DEF TypeOK
  <2>3. ASSUME NEW f \in Frames, SendFrame(f)
        PROVE  TypeOK'
    <3>1. WireOK' /\ Len(wire') <= MaxInFlight
      BY <2>1, <2>3, SendFacts, LinkAssumption DEF SendFrame
    <3> QED
      BY <2>3, <3>1 DEF SendFrame, TypeOK, WireOK, parserVars, ParserTypeOK
  <2>4. CASE Receive
    <3>1. ParserTypeOK'
      BY <2>1, <2>4, First, RxByteType DEF Receive
    <3>2. corrupt' \in Nat
      BY <2>4 DEF Receive, TypeOK
    <3> QED
      BY <2>2, <2>4, <3>1, <3>2 DEF Receive, TypeOK, WireOK
  <2>5. CASE SemTake
    BY <2>5 DEF SemTake, TypeOK, ParserTypeOK
  <2>6. CASE BaseOff
    BY <2>6 DEF BaseOff, TypeOK, parserVars, ParserTypeOK
  <2>7. CASE MissByte
    BY <2>2, <2>7 DEF MissByte, TypeOK, WireOK, parserVars, ParserTypeOK
  <2>8. CASE BaseBoot
    BY <2>8, NoFrameIsFrame, ParserAssumption DEF BaseBoot, ParserReset, TypeOK, ParserTypeOK
  <2>9. CASE LoseByte
    <3>1. WireOK' /\ Len(wire') <= MaxInFlight
      BY <2>2, <2>9 DEF LoseByte
    <3>2. faults' \in 0..MaxFaults
      BY <2>9, LinkAssumption DEF LoseByte, TypeOK
    <3> QED
      BY <2>9, <3>1, <3>2 DEF LoseByte, TypeOK, WireOK, parserVars, ParserTypeOK
  <2>10. CASE NodeReset
    <3>1. WireOK' /\ Len(wire') <= MaxInFlight
      BY <2>1, <2>10, ResetFacts, LinkAssumption DEF TypeOK
    <3>2. faults' \in 0..MaxFaults
      BY <2>10, LinkAssumption DEF NodeReset, TypeOK
    <3> QED
      BY <2>10, <3>1, <3>2 DEF NodeReset, TypeOK, WireOK, parserVars, ParserTypeOK
  <2>11. CASE UNCHANGED vars
    BY <2>11 DEF vars, TypeOK, parserVars, ParserTypeOK
  <2> QED
    BY <2>3, <2>4, <2>5, <2>6, <2>7, <2>8, <2>9, <2>10, <2>11
       DEF FaultyNext, JoinNext, Next
<1> QED
  BY <1>1, <1>2, PTL DEF FaultySpec

---------------------------------------------------------------------------
(***************************************************************************)
(* Resynchronisation.  A parser that has been up, and has missed nothing,  *)
(* since it stored the byte it took for a start marker, took it rx_idx     *)
(* bytes ago: if that is within the frame being received, then that frame  *)
(* has the value of a start marker there.  The invariant speaks of frames  *)
(* that lost no byte, whatever was lost before.                            *)
(***************************************************************************)

StartSeen ==
  base_up /\ wire # <<>> /\ ~wire[1].lossy /\ rx_idx \in 1..wire[1].next
    => wire[1].frame[wire[1].next - rx_idx] = FRAME_START

SInv == OnlyFirstStarted /\ StartSeen

\* SInv holds along every behaviour of the link, faults included.
LEMMA SInvStep == TypeOK /\ SInv /\ [FaultyNext]_vars => SInv'
<1> SUFFICES ASSUME TypeOK, SInv, [FaultyNext]_vars
             PROVE  SInv'
  OBVIOUS
<1> USE ParserAssumption
<1>1. WireOK /\ ParserTypeOK /\ rx_idx \in 0..FRAME_LEN-1 /\ Len(wire) \in Nat
  BY LenProperties DEF TypeOK, WireOK, ParserTypeOK
<1>2. ASSUME WireOK', OnlyFirstStarted', wire' # <<>>, Len(wire') < Len(wire),
             \A k \in 1..Len(wire') : wire'[k] = wire[k+1]
      PROVE  wire'[1].next = 0
  \* The segment that comes first next has not been started.
  <2>1. Len(wire') \in Nat \ {0}
    BY <1>2, EmptySeq DEF WireOK
  <2>2. wire'[1] = wire[2] /\ 2 \in 2..Len(wire)
    BY <1>1, <1>2, <2>1
  <2> QED
    BY <2>2 DEF SInv, OnlyFirstStarted
<1>3. ASSUME NEW f \in Frames, SendFrame(f)
      PROVE  SInv'
  <2>1. OnlyFirstStarted'
    BY <1>1, <1>3, SendFacts DEF SInv
  <2>2. CASE wire = <<>>
    <3>1. Len(wire') = 1
      <4>1. Len(wire) = 0
        BY <2>2
      <4>2. Len(wire') = Len(wire) + 1
        BY <1>1, <1>3, SendFacts
      <4> QED
        BY <4>1, <4>2
    <3>2. wire'[1].next = 0
      BY <1>1, <1>3, <3>1, SendFacts
    <3> QED
      BY <1>1, <1>3, <2>1, <3>2 DEF SInv, StartSeen, SendFrame, parserVars
  <2>3. CASE wire # <<>>
    <3>1. wire'[1] = wire[1]
      BY <1>1, <1>3, <2>3, SendFacts, First
    <3> QED
      BY <1>3, <2>1, <2>3, <3>1 DEF SInv, StartSeen, SendFrame, parserVars
  <2> QED
    BY <2>2, <2>3
<1>4. CASE Receive
  <2>1. wire # <<>> /\ Advance(FALSE) /\ RxByte(NextByte) /\ base_up
    BY <1>4 DEF Receive
  <2>2. OnlyFirstStarted' /\ WireOK'
    BY <1>1, <2>1, AdvanceFacts DEF SInv
  <2>3. CASE wire[1].next + 1 = wire[1].stop
    <3>1. Len(wire') = Len(wire) - 1 /\ \A k \in 1..Len(wire') : wire'[k] = wire[k+1]
      BY <1>1, <2>1, <2>3, AdvanceFacts
    <3>2. wire' # <<>> => wire'[1].next = 0
      BY <1>1, <1>2, <2>2, <3>1
    <3> QED
      BY <2>2, <3>2 DEF SInv, StartSeen
  <2>4. CASE wire[1].next + 1 # wire[1].stop
    <3> DEFINE n == wire[1].next
    <3>1. n \in 0..FRAME_LEN-1 /\ NextByte = wire[1].frame[n] /\ NextByte \in Byte
      BY <1>1, <2>1, First, SegmentFields DEF NextByte
    <3>2. wire'[1].frame = wire[1].frame /\ wire'[1].next = n + 1
      BY <1>1, <2>1, <2>4, AdvanceFacts
    <3>5. ~wire'[1].lossy => ~wire[1].lossy
      BY <1>1, <2>1, <2>4, AdvanceFacts
    <3>3. CASE rx_idx = 0
      <4>1. \/ rx_idx' = 0
            \/ rx_idx' = 1 /\ wire[1].frame[n] = FRAME_START
        BY <1>1, <2>1, <3>1, <3>3, RxByteIdx
      <4>2. rx_idx' = 1 => wire'[1].next - rx_idx' = n
        BY <3>1, <3>2
      <4>3. rx_idx' \in 1..wire'[1].next =>
              wire'[1].frame[wire'[1].next - rx_idx'] = FRAME_START
        BY <3>2, <4>1, <4>2
      <4> QED
        BY <2>2, <4>3 DEF SInv, StartSeen
    <3>4. CASE rx_idx > 0
      <4>1. rx_idx' = 0 \/ rx_idx' = rx_idx + 1
        BY <1>1, <2>1, <3>1, <3>4, RxByteIdx
      <4>2. rx_idx' = rx_idx + 1 /\ rx_idx' \in 1..n+1 =>
              rx_idx \in 1..n /\ (n + 1) - rx_idx' = n - rx_idx
        BY <1>1, <3>1, <3>4
      <4>3. rx_idx' \in 1..wire'[1].next =>
              /\ rx_idx \in 1..n
              /\ wire'[1].frame[wire'[1].next - rx_idx'] = wire[1].frame[n - rx_idx]
        <5>1. rx_idx' \in 1..wire'[1].next => rx_idx' = rx_idx + 1 /\ rx_idx' \in 1..n+1
          BY <3>1, <3>2, <4>1
        <5>2. wire'[1].next - rx_idx' = (n + 1) - rx_idx'
          BY <3>2, Zenon
        <5> HIDE DEF n
        <5> QED
          BY <3>2, <4>2, <5>1, <5>2, Zenon
      <4>4. ~wire[1].lossy /\ rx_idx \in 1..n => wire[1].frame[n - rx_idx] = FRAME_START
        BY <2>1 DEF SInv, StartSeen
      <4>5. ~wire'[1].lossy /\ rx_idx' \in 1..wire'[1].next =>
              wire'[1].frame[wire'[1].next - rx_idx'] = FRAME_START
        BY <3>5, <4>3, <4>4
      <4> QED
        BY <2>2, <4>5 DEF SInv, StartSeen
    <3> QED
      BY <1>1, <3>3, <3>4
  <2> QED
    BY <2>3, <2>4
<1>5. CASE LoseByte
  <2>1. wire # <<>> /\ Advance(TRUE) /\ UNCHANGED rx_idx
    BY <1>5 DEF LoseByte, parserVars
  <2>2. OnlyFirstStarted' /\ WireOK'
    BY <1>1, <2>1, AdvanceFacts DEF SInv
  <2>3. CASE wire[1].next + 1 = wire[1].stop
    <3>1. Len(wire') = Len(wire) - 1 /\ \A k \in 1..Len(wire') : wire'[k] = wire[k+1]
      BY <1>1, <2>1, <2>3, AdvanceFacts
    <3>2. wire' # <<>> => wire'[1].next = 0
      BY <1>1, <1>2, <2>2, <3>1
    <3> QED
      BY <2>2, <3>2 DEF SInv, StartSeen
  <2>4. CASE wire[1].next + 1 # wire[1].stop
    <3>1. wire'[1].lossy
      BY <1>1, <2>1, <2>4, AdvanceFacts
    <3> QED
      BY <2>2, <3>1 DEF SInv, StartSeen
  <2> QED
    BY <2>3, <2>4
<1>6. CASE NodeReset
  <2>1. /\ OnlyFirstStarted' /\ WireOK'
        /\ \A k \in 1..Len(wire') : /\ wire'[k].frame = wire[k].frame
                                   /\ wire'[k].next = wire[k].next
                                   /\ wire'[k].lossy = wire[k].lossy
    BY <1>1, <1>6, ResetFacts DEF SInv
  <2>2. wire' # <<>> => 1 \in 1..Len(wire')
    BY <2>1, EmptySeq DEF WireOK
  <2>3. wire # <<>> /\ UNCHANGED <<rx_idx, base_up>>
    BY <1>6 DEF NodeReset, parserVars
  <2> QED
    BY <2>1, <2>2, <2>3 DEF SInv, StartSeen
<1>7. CASE MissByte
  BY <1>1, <1>7, AdvanceFacts DEF MissByte, SInv, StartSeen
<1>8. CASE BaseBoot
  BY <1>8 DEF BaseBoot, ParserReset, SInv, StartSeen, OnlyFirstStarted
<1>9. CASE SemTake \/ BaseOff \/ UNCHANGED vars
  BY <1>9 DEF SemTake, BaseOff, vars, parserVars, SInv, StartSeen, OnlyFirstStarted
<1> QED
  BY <1>3, <1>4, <1>5, <1>6, <1>7, <1>8, <1>9 DEF FaultyNext, JoinNext, Next

\* Whatever was lost, cut or corrupted before, the end of one frame without a
\* false start marker leaves the parser waiting for the next frame.
THEOREM CleanFrameSuffices == FaultySpec => CleanFrameResyncs
<1>1. Init => SInv
  BY EmptySeq DEF Init, SInv, StartSeen, OnlyFirstStarted
<1>2. TypeOK /\ SInv /\ [FaultyNext]_vars =>
        [Receive /\ Clean(wire[1].frame) /\ wire[1].next = FRAME_LEN-1 /\ ~wire[1].lossy
           => rx_idx' = 0]_vars
  <2> SUFFICES ASSUME TypeOK, SInv, Receive, Clean(wire[1].frame),
                      wire[1].next = FRAME_LEN-1, ~wire[1].lossy
               PROVE  rx_idx' = 0
    OBVIOUS
  <2> USE ParserAssumption
  <2>1. /\ WireOK /\ ParserTypeOK /\ rx_idx \in 0..FRAME_LEN-1
        /\ wire # <<>> /\ RxByte(NextByte) /\ base_up
    BY DEF TypeOK, WireOK, ParserTypeOK, Receive
  <2>2. NextByte \in Byte /\ NextByte = FRAME_END
    BY <2>1, First, SegmentFields, FrameFacts DEF NextByte
  <2>3. CASE rx_idx = 0
    BY <2>1, <2>2, <2>3, RxByteIdx
  <2>4. CASE rx_idx > 0
    <3>1. wire[1].frame[FRAME_LEN-1 - rx_idx] = FRAME_START
      BY <2>1, <2>4 DEF SInv, StartSeen
    <3>2. FRAME_LEN-1 - rx_idx \notin Payload
      BY <3>1 DEF Clean
    <3>3. rx_idx + 1 = FRAME_LEN
      BY <2>1, <2>4, <3>2 DEF Payload
    <3> QED
      BY <2>1, <2>2, <2>4, <3>3, RxByteIdx
  <2> QED
    BY <2>1, <2>3, <2>4
<1> QED
  BY <1>1, <1>2, SInvStep, LinkTypeCorrect, PTL DEF FaultySpec, CleanFrameResyncs

---------------------------------------------------------------------------
(***************************************************************************)
(* Without resets of the sensor node every frame on the wire is whole, and *)
(* the parser's write position can be compared with the position in the    *)
(* frame that is being received.                                           *)
(***************************************************************************)

Whole == OnlyFirstStarted /\ \A k \in 1..Len(wire) : wire[k].stop = FRAME_LEN

\* The position after a byte.
LEMMA AdvanceOne ==
  ASSUME WireOK, OnlyFirstStarted, wire # <<>>, NEW lost \in BOOLEAN, Advance(lost)
  PROVE  /\ OnlyFirstStarted'
         /\ Pos = wire[1].next /\ Pos \in 0..FRAME_LEN-1
         /\ Pos + 1 = wire[1].stop => Pos' = 0
         /\ Pos + 1 # wire[1].stop =>
              Pos' = Pos + 1 /\ wire' # <<>> /\ wire'[1].frame = wire[1].frame
<1> USE ParserAssumption, First
<1>1. /\ Pos = wire[1].next /\ Pos \in 0..FRAME_LEN-1
      /\ WireOK' /\ OnlyFirstStarted'
  BY SegmentFields, AdvanceFacts DEF Pos
<1>2. CASE Pos + 1 = wire[1].stop
  <2>1. Len(wire') = Len(wire) - 1 /\ \A k \in 1..Len(wire') : wire'[k] = wire[k+1]
    BY <1>1, <1>2, AdvanceFacts
  <2>2. \A k \in 1..Len(wire') : k+1 \in 2..Len(wire)
    BY <2>1
  <2>3. \A k \in 1..Len(wire') : wire'[k].next = 0
    BY <2>1, <2>2 DEF OnlyFirstStarted
  <2>4. wire' # <<>> => 1 \in 1..Len(wire')
    BY <1>1, EmptySeq DEF WireOK
  <2> QED
    BY <1>1, <1>2, <2>3, <2>4 DEF Pos
<1>3. CASE Pos + 1 # wire[1].stop
  <2>1. /\ Len(wire') = Len(wire)
        /\ wire'[1].frame = wire[1].frame
        /\ wire'[1].next = wire[1].next + 1
    BY <1>1, <1>3, AdvanceFacts
  <2>2. wire' # <<>>
    BY <2>1
  <2> QED
    BY <1>1, <1>3, <2>1, <2>2 DEF Pos
<1> QED
  BY <1>1, <1>2, <1>3

\* On a wire of whole frames.
LEMMA AdvancePos ==
  ASSUME WireOK, Whole, wire # <<>>, NEW lost \in BOOLEAN, Advance(lost)
  PROVE  /\ Whole'
         /\ Pos \in 0..FRAME_LEN-1
         /\ Pos + 1 = FRAME_LEN => Pos' = 0
         /\ Pos + 1 # FRAME_LEN =>
              Pos' = Pos + 1 /\ wire' # <<>> /\ wire'[1].frame = wire[1].frame
<1> USE First DEF Whole
<1>1. wire[1].stop = FRAME_LEN /\ Len(wire) \in Nat
  OBVIOUS
<1>2. CASE wire[1].next + 1 = wire[1].stop
  <2>1. Len(wire') = Len(wire) - 1 /\ \A k \in 1..Len(wire') : wire'[k] = wire[k+1]
    BY <1>2, AdvanceFacts
  <2>2. \A k \in 1..Len(wire') : k+1 \in 1..Len(wire)
    BY <1>1, <2>1
  <2> QED
    BY <1>1, <2>1, <2>2, AdvanceOne
<1>3. CASE wire[1].next + 1 # wire[1].stop
  <2>1. /\ Len(wire') = Len(wire)
        /\ wire'[1].stop = wire[1].stop
        /\ \A k \in 2..Len(wire) : wire'[k] = wire[k]
    BY <1>3, AdvanceFacts
  <2>2. \A k \in 1..Len(wire') : wire'[k].stop = FRAME_LEN
    BY <1>1, <2>1
  <2> QED
    BY <1>1, <2>2, AdvanceOne
<1> QED
  BY <1>2, <1>3

\* Sending a frame does not touch the one that is being received.
LEMMA SendPos ==
  ASSUME WireOK, OnlyFirstStarted, NEW f \in Frames, SendFrame(f)
  PROVE  /\ OnlyFirstStarted'
         /\ Whole => Whole'
         /\ Pos' = Pos
         /\ wire # <<>> => wire'[1] = wire[1]
<1> USE ParserAssumption
<1>1. /\ OnlyFirstStarted'
      /\ Len(wire') = Len(wire) + 1
      /\ Len(wire) \in Nat
      /\ \A k \in 1..Len(wire) : wire'[k] = wire[k]
      /\ wire'[Len(wire')].stop = FRAME_LEN
      /\ wire'[Len(wire')].next = 0
  <2>1. Len(wire) \in Nat
    BY LenProperties DEF WireOK
  <2>2. wire'[Len(wire')] = [frame |-> f, next |-> 0, stop |-> FRAME_LEN,
                             lossy |-> FALSE]
    BY SendFacts
  <2>3. wire'[Len(wire')].stop = FRAME_LEN /\ wire'[Len(wire')].next = 0
    BY <2>2
  <2> QED
    BY <2>1, <2>3, SendFacts
<1>2. Whole => Whole'
  BY <1>1 DEF Whole
<1>3. CASE wire = <<>>
  <2>1. Len(wire) = 0
    BY <1>3
  <2>2. Len(wire') = 1 /\ wire'[1].next = 0
    BY <1>1, <2>1
  <2> QED
    BY <1>1, <1>2, <1>3, <2>2 DEF Pos
<1>4. CASE wire # <<>>
  <2>1. wire'[1] = wire[1]
    BY <1>1, <1>4, First
  <2>2. wire' # <<>>
    BY <1>1, <1>4, First
  <2> QED
    BY <1>1, <1>2, <1>4, <2>1, <2>2 DEF Pos
<1> QED
  BY <1>3, <1>4

\* A byte received in step keeps the parser in step, and publishes the frame
\* that was sent if it is the frame's last.
LEMMA ReceiveInSync ==
  ASSUME TypeOK, Whole, InSync, Receive
  PROVE  /\ InSync'
         /\ Pos + 1 = FRAME_LEN => ready_buf' = wire[1].frame /\ frame_sem' = 1
         /\ Pos + 1 # FRAME_LEN => UNCHANGED <<ready_buf, frame_sem>>
<1> USE ParserAssumption
<1> DEFINE f == wire[1].frame
<1>1. /\ WireOK /\ ParserTypeOK /\ wire # <<>>
      /\ RxByte(NextByte) /\ Advance(FALSE) /\ rx_idx = Pos
      /\ \A j \in 0..rx_idx-1 : rx_buf[j] = f[j]
  BY DEF TypeOK, WireOK, Receive, InSync
<1>2. /\ f \in Frames /\ NextByte = f[Pos] /\ NextByte \in Byte
      /\ Pos \in 0..FRAME_LEN-1
  BY <1>1, First, SegmentFields DEF Pos, NextByte
<1>3. /\ f \in Frame /\ f[0] = FRAME_START /\ f[FRAME_LEN-1] = FRAME_END
  BY <1>2, FrameFacts
<1> HIDE DEF f
<1>4. rx_idx > 0 \/ NextByte = FRAME_START
  BY <1>1, <1>2, <1>3
<1>5. \A j \in 0..FRAME_LEN-1 : rx_buf'[j] = IF j = rx_idx THEN NextByte ELSE rx_buf[j]
  BY <1>1, <1>2, <1>4, RxByteStores
<1>6. \A j \in 0..Pos : rx_buf'[j] = f[j]
  BY <1>1, <1>2, <1>5
<1>7. CASE Pos + 1 = FRAME_LEN
  <2>1. rx_idx > 0 /\ NextByte = FRAME_END
    BY <1>1, <1>2, <1>3, <1>7
  <2>2. rx_idx' = 0 /\ ready_buf' = rx_buf' /\ frame_sem' = 1
    BY <1>1, <1>2, <1>7, <2>1, RxByteIdx, RxByteStores
  <2>3. rx_buf' = f
    <3>1. rx_buf' \in Frame
      BY <1>1, <1>2, RxByteType DEF ParserTypeOK
    <3>2. \A j \in 0..FRAME_LEN-1 : rx_buf'[j] = f[j]
      BY <1>2, <1>6, <1>7
    <3> QED
      BY <1>3, <3>1, <3>2 DEF Frame
  <2>4. Pos' = 0
    BY <1>1, <1>7, AdvancePos
  <2> QED
    BY <1>7, <2>2, <2>3, <2>4 DEF InSync, f
<1>8. CASE Pos + 1 # FRAME_LEN
  <2>1. rx_idx' = rx_idx + 1
    BY <1>1, <1>2, <1>4, <1>8, RxByteIdx
  <2>2. UNCHANGED <<ready_buf, frame_sem>>
    BY <1>1, <1>2, <1>4, <1>8, RxByteStores
  <2>3. Pos' = Pos + 1 /\ wire'[1].frame = f
    BY <1>1, <1>8, AdvancePos DEF f
  <2>4. \A j \in 0..rx_idx'-1 : rx_buf'[j] = wire'[1].frame[j]
    BY <1>1, <1>2, <1>6, <2>1, <2>3
  <2> QED
    BY <1>1, <1>8, <2>1, <2>2, <2>3, <2>4 DEF InSync
<1> QED
  BY <1>7, <1>8

---------------------------------------------------------------------------
(* A parser in step stays in step.                                         *)

\* The two nodes' own steps.
LEMMA NextKeepsSync ==
  ASSUME TypeOK, Whole, [Next]_vars
  PROVE  Whole' /\ (InSync => InSync')
<1>1. WireOK
  BY DEF TypeOK, WireOK
<1>2. ASSUME NEW f \in Frames, SendFrame(f)
      PROVE  Whole' /\ (InSync => InSync')
  <2>1. Whole' /\ Pos' = Pos /\ (wire # <<>> => wire'[1] = wire[1])
    BY <1>1, <1>2, SendPos DEF Whole
  <2>2. UNCHANGED <<rx_buf, rx_idx>>
    BY <1>2 DEF SendFrame, parserVars
  <2>3. wire = <<>> => Pos = 0
    BY DEF Pos
  <2> QED
    BY <2>1, <2>2, <2>3 DEF InSync
<1>3. CASE Receive
  <2>1. Whole'
    BY <1>1, <1>3, AdvancePos DEF Receive
  <2> QED
    BY <1>3, <2>1, ReceiveInSync
<1>4. CASE SemTake \/ UNCHANGED vars
  BY <1>4 DEF SemTake, vars, parserVars, Whole, OnlyFirstStarted, InSync, Pos
<1> QED
  BY <1>2, <1>3, <1>4 DEF Next

\* Also when the base node may be switched off and on, no byte being lost on
\* the wire.
LEMMA JoinKeepsSync ==
  ASSUME TypeOK, Whole, [JoinNext]_vars
  PROVE  Whole' /\ (InSync /\ base_up /\ base_up' => InSync')
<1>1. CASE Next \/ UNCHANGED vars
  BY <1>1, NextKeepsSync
<1>2. CASE MissByte
  <2>1. WireOK
    BY DEF TypeOK, WireOK
  <2>2. Whole'
    BY <1>2, <2>1, AdvancePos DEF MissByte
  <2> QED
    BY <1>2, <2>2 DEF MissByte
<1>3. CASE BaseOff \/ BaseBoot
  BY <1>3 DEF BaseOff, BaseBoot, Whole, OnlyFirstStarted
<1> QED
  BY <1>1, <1>2, <1>3 DEF JoinNext

\* At the start the parser is in step.
LEMMA InitInSync == Init => Whole /\ InSync
<1> SUFFICES ASSUME Init
             PROVE  Whole /\ InSync
  OBVIOUS
<1>1. wire = <<>> /\ rx_idx = 0 /\ Len(wire) = 0
  BY DEF Init, ParserInit
<1> QED
  BY <1>1 DEF Whole, OnlyFirstStarted, InSync, Pos

\* No step of a link that loses no byte takes the parser out of step.
THEOREM SyncKept == JoinSpec => SyncIsKept
<1>1. TypeOK /\ Whole /\ [JoinNext]_vars => Whole'
  BY JoinKeepsSync
<1>2. TypeOK /\ Whole /\ [JoinNext]_vars =>
        [InSync /\ base_up /\ base_up' => InSync']_vars
  BY JoinKeepsSync
<1>3. [JoinNext]_vars => [FaultyNext]_vars
  BY DEF FaultyNext
<1> QED
  BY <1>1, <1>2, <1>3, InitInSync, LinkTypeCorrect, PTL
     DEF JoinSpec, FaultySpec, SyncIsKept

\* While both nodes run, the parser is always in step with the sensor node.
THEOREM AlwaysInSync == Spec => []InSync
<1>1. TypeOK /\ Whole /\ InSync /\ [Next]_vars => Whole' /\ InSync'
  BY NextKeepsSync
<1>2. [Next]_vars => [FaultyNext]_vars
  BY DEF FaultyNext, JoinNext
<1> QED
  BY <1>1, <1>2, InitInSync, LinkTypeCorrect, PTL DEF Spec, FaultySpec

---------------------------------------------------------------------------
(***************************************************************************)
(* Joining in the middle of a frame.  The byte that opened the frame being *)
(* assembled was sent rx_idx bytes ago, in the current frame or the one    *)
(* before: some frame has the value of a start marker at that position.    *)
(* If that frame position is not 0, the position before it may not hold an *)
(* end marker (MarkersApart), so what has been assembled is rejected.      *)
(***************************************************************************)

OpenedAt == IF rx_idx <= Pos THEN Pos - rx_idx ELSE Pos - rx_idx + FRAME_LEN

Aligned ==
  base_up /\ rx_idx > 0 =>
    /\ OpenedAt \in StartPositions
    /\ rx_idx = Pos => \A j \in 0..rx_idx-1 : rx_buf[j] = wire[1].frame[j]

\* A byte publishes nothing but the frame sent, and keeps the parser aligned
\* unless it is the last one of a frame cut short.
LEMMA ReceiveAligned ==
  ASSUME TypeOK, OnlyFirstStarted, Aligned, Receive
  PROVE  /\ corrupt' = corrupt
         /\ Pos + 1 # wire[1].stop \/ wire[1].stop = FRAME_LEN => Aligned'
<1> USE ParserAssumption
<1> DEFINE f == wire[1].frame
           uncut == Pos + 1 # wire[1].stop \/ wire[1].stop = FRAME_LEN
<1>1. /\ WireOK /\ ParserTypeOK /\ wire # <<>> /\ base_up
      /\ RxByte(NextByte) /\ Advance(FALSE) /\ rx_idx \in 0..FRAME_LEN-1
  BY DEF TypeOK, WireOK, Receive, ParserTypeOK
<1>2. /\ f \in Frames /\ NextByte = f[Pos] /\ NextByte \in Byte
      /\ Pos \in 0..FRAME_LEN-1
  BY <1>1, First, SegmentFields DEF Pos, NextByte
<1>3. /\ f \in Frame /\ f[0] = FRAME_START /\ f[FRAME_LEN-1] = FRAME_END
  BY <1>2, FrameFacts
<1>4. /\ NextByte = FRAME_START => Pos \in StartPositions
      /\ NextByte = FRAME_END => Pos \in EndPositions
  BY <1>2 DEF StartPositions, EndPositions
<1>5. ASSUME uncut
      PROVE  /\ Pos + 1 = FRAME_LEN => Pos' = 0
             /\ Pos + 1 # FRAME_LEN => Pos' = Pos + 1 /\ wire'[1].frame = f
  <2>1. wire[1].stop \in 1..FRAME_LEN /\ wire[1].next < wire[1].stop /\ Pos = wire[1].next
    BY <1>1, First, SegmentFields DEF Pos
  <2>2. Pos + 1 = FRAME_LEN <=> Pos + 1 = wire[1].stop
    BY <1>2, <1>5, <2>1
  <2>3. /\ Pos + 1 = wire[1].stop => Pos' = 0
        /\ Pos + 1 # wire[1].stop => Pos' = Pos + 1 /\ wire'[1].frame = f
    BY <1>1, AdvanceOne
  <2> QED
    BY <2>2, <2>3
<1> HIDE DEF f, uncut
<1>6. CASE rx_idx = 0 /\ NextByte # FRAME_START
  <2>1. rx_idx' = 0
    BY <1>1, <1>2, <1>6, RxByteIdx
  <2>2. Aligned'
    BY <2>1 DEF Aligned
  <2>3. corrupt' = corrupt
    BY <1>6 DEF Receive, Publishes
  <2> QED
    BY <2>2, <2>3
<1>7. CASE rx_idx = 0 /\ NextByte = FRAME_START
  <2>1. rx_idx' = 1 /\ rx_buf'[0] = FRAME_START
    BY <1>1, <1>2, <1>7, RxByteIdx, RxByteStores
  <2>2. Pos + 1 # FRAME_LEN
    <3>1. Pos + 1 = FRAME_LEN => Pos = FRAME_LEN-1
      BY <1>2
    <3> QED
      BY <1>2, <1>3, <1>7, <3>1
  <2>3. ASSUME uncut PROVE Aligned'
    <3>1. OpenedAt' = Pos
      BY <1>2, <1>5, <2>1, <2>2, <2>3 DEF OpenedAt
    <3>2. rx_idx' = Pos' => \A j \in 0..rx_idx'-1 : rx_buf'[j] = wire'[1].frame[j]
      BY <1>2, <1>3, <1>5, <2>1, <2>2, <2>3
    <3> QED
      BY <1>4, <1>7, <3>1, <3>2 DEF Aligned, StartPositions
  <2>4. corrupt' = corrupt
    BY <1>7 DEF Receive, Publishes
  <2> QED
    BY <2>3, <2>4 DEF uncut
<1>8. CASE rx_idx > 0 /\ rx_idx + 1 # FRAME_LEN
  <2>1. /\ rx_idx' = rx_idx + 1
        /\ \A j \in 0..FRAME_LEN-1 : rx_buf'[j] = IF j = rx_idx THEN NextByte ELSE rx_buf[j]
    BY <1>1, <1>2, <1>8, RxByteIdx, RxByteStores
  <2>2. ASSUME uncut PROVE Aligned'
    <3>1. OpenedAt' = OpenedAt
      <4>1. CASE Pos + 1 = FRAME_LEN
        <5>1. Pos' = 0 /\ Pos = FRAME_LEN-1
          BY <1>2, <1>5, <2>2, <4>1
        <5>2. OpenedAt = Pos - rx_idx
          BY <1>1, <5>1 DEF OpenedAt
        <5>3. OpenedAt' = 0 - (rx_idx + 1) + FRAME_LEN
          BY <1>1, <2>1, <5>1 DEF OpenedAt
        <5> QED
          BY <1>1, <5>1, <5>2, <5>3
      <4>2. CASE Pos + 1 # FRAME_LEN
        <5>1. Pos' = Pos + 1
          BY <1>5, <2>2, <4>2
        <5> QED
          BY <1>1, <1>2, <2>1, <5>1 DEF OpenedAt
      <4> QED
        BY <4>1, <4>2
    <3>2. rx_idx' = Pos' => rx_idx = Pos /\ Pos + 1 # FRAME_LEN
      BY <1>1, <1>2, <1>5, <2>1, <2>2
    <3>3. rx_idx = Pos => \A j \in 0..Pos : rx_buf'[j] = f[j]
      BY <1>1, <1>2, <1>8, <2>1 DEF Aligned, f
    <3>4. rx_idx' = Pos' => \A j \in 0..rx_idx'-1 : rx_buf'[j] = wire'[1].frame[j]
      BY <1>2, <1>5, <2>1, <2>2, <3>2, <3>3
    <3> QED
      BY <1>1, <1>8, <3>1, <3>4 DEF Aligned, StartPositions
  <2>3. corrupt' = corrupt
    BY <1>8 DEF Receive, Publishes
  <2> QED
    BY <2>2, <2>3 DEF uncut
<1>9. CASE rx_idx > 0 /\ rx_idx + 1 = FRAME_LEN
  <2>1. rx_idx' = 0
    BY <1>1, <1>2, <1>9, RxByteIdx
  <2>2. Aligned'
    BY <2>1 DEF Aligned
  <2>3. ASSUME NextByte = FRAME_END
        PROVE  ready_buf' = f
    <3>1. rx_idx = Pos
      \* Otherwise a false start marker at Pos + 1 would follow an end
      \* marker's value at Pos.
      <4>1. CASE rx_idx > Pos
        <5>1. OpenedAt = Pos + 1
          BY <1>1, <1>2, <1>9, <4>1 DEF OpenedAt
        <5>2. Pos + 1 \in StartPositions \ {0}
          BY <1>1, <1>2, <1>9, <5>1 DEF Aligned
        <5> QED
          BY <1>2, <1>4, <2>3, <5>2, MarkersApart
      <4> QED
        BY <1>1, <1>2, <1>9, <4>1
    <3>2. /\ ready_buf' = rx_buf'
          /\ \A j \in 0..FRAME_LEN-1 : rx_buf'[j] = IF j = rx_idx THEN NextByte ELSE rx_buf[j]
      BY <1>1, <1>2, <1>9, <2>3, RxByteStores
    <3>3. \A j \in 0..FRAME_LEN-1 : rx_buf'[j] = f[j]
      BY <1>1, <1>2, <1>9, <3>1, <3>2 DEF Aligned, f
    <3>4. rx_buf' \in Frame
      BY <1>1, <1>2, RxByteType DEF ParserTypeOK
    <3> QED
      BY <1>3, <3>2, <3>3, <3>4 DEF Frame
  <2>4. corrupt' = corrupt
    BY <2>3 DEF Receive, Publishes, f
  <2> QED
    BY <2>2, <2>4
<1> QED
  BY <1>1, <1>6, <1>7, <1>8, <1>9

\* A base node that starts at any byte never publishes a frame that was not
\* sent, although it may take a payload byte for a start marker.
THEOREM NeverCorrupt == JoinSpec => []NothingCorrupt
<1> DEFINE Inv == Whole /\ Aligned /\ NothingCorrupt
<1>1. Init => Inv
  BY InitInSync DEF Init, ParserInit, Aligned, NothingCorrupt
<1>2. TypeOK /\ Inv /\ [JoinNext]_vars => Inv'
  <2> SUFFICES ASSUME TypeOK, Inv, [JoinNext]_vars
               PROVE  Inv'
    OBVIOUS
  <2>1. Whole'
    BY JoinKeepsSync
  <2>2. WireOK /\ OnlyFirstStarted
    BY DEF TypeOK, WireOK, Whole
  <2>3. ASSUME NEW f \in Frames, SendFrame(f)
        PROVE  Inv'
    <3>1. Pos' = Pos /\ (wire # <<>> => wire'[1] = wire[1])
      BY <2>2, <2>3, SendPos
    <3>2. UNCHANGED <<rx_buf, rx_idx, base_up, corrupt>>
      BY <2>3 DEF SendFrame, parserVars
    <3>3. OpenedAt' = OpenedAt /\ StartPositions' = StartPositions
      BY <3>1, <3>2 DEF OpenedAt, StartPositions
    <3>4. wire = <<>> => Pos = 0
      BY DEF Pos
    <3> QED
      BY <2>1, <3>1, <3>2, <3>3, <3>4 DEF Aligned, NothingCorrupt
  <2>4. CASE Receive
    <3>1. wire[1].stop = FRAME_LEN
      BY <2>2, <2>4, First DEF Receive, Whole
    <3> QED
      BY <2>1, <2>2, <2>4, <3>1, ReceiveAligned DEF NothingCorrupt
  <2>5. CASE SemTake \/ UNCHANGED vars
    BY <2>1, <2>5 DEF SemTake, vars, parserVars, Aligned, OpenedAt, Pos, StartPositions,
                      NothingCorrupt
  <2>6. CASE BaseOff \/ MissByte
    <3>1. UNCHANGED corrupt
      BY <2>6 DEF BaseOff, MissByte
    <3>2. ~base_up'
      BY <2>6, Zenon DEF BaseOff, MissByte
    <3> QED
      BY <2>1, <3>1, <3>2 DEF Aligned, NothingCorrupt
  <2>7. CASE BaseBoot
    BY <2>1, <2>7 DEF BaseBoot, ParserReset, Aligned, NothingCorrupt
  <2> QED
    BY <2>3, <2>4, <2>5, <2>6, <2>7 DEF JoinNext, Next
<1>3. [JoinNext]_vars => [FaultyNext]_vars
  BY DEF FaultyNext
<1> QED
  BY <1>1, <1>2, <1>3, LinkTypeCorrect, PTL DEF JoinSpec, FaultySpec

---------------------------------------------------------------------------
(***************************************************************************)
(* The link implements the channel.  The frames on the wire are the        *)
(* channel's queue; all but the last byte of a frame are stuttering steps. *)
(***************************************************************************)

Queue(w) == [k \in 1..Len(w) |-> w[k].frame]

\* The queue is a sequence of frames as long as the wire.
LEMMA QueueIsSeq ==
  ASSUME NEW w \in Seq(Segment)
  PROVE  /\ Queue(w) \in Seq(Frames)
         /\ Len(Queue(w)) = Len(w)
         /\ Len(w) \in Nat
         /\ \A k \in 1..Len(w) : Queue(w)[k] = w[k].frame
<1>1. Len(w) \in Nat
  BY LenProperties
<1>2. \A k \in 1..Len(w) : w[k].frame \in Frames
  BY ElementOfSeq, SegmentFields
<1>3. Queue(w) \in [1..Len(w) -> Frames]
  BY <1>2 DEF Queue
<1>4. Queue(w) \in Seq(Frames)
  BY <1>1, <1>3, SeqDef
<1>5. Len(Queue(w)) \in Nat /\ DOMAIN Queue(w) = 1..Len(Queue(w))
  BY <1>4, LenProperties
<1>6. DOMAIN Queue(w) = 1..Len(w)
  BY DEF Queue
<1>7. Len(Queue(w)) = Len(w)
  BY <1>1, <1>5, <1>6
<1> QED
  BY <1>1, <1>4, <1>7 DEF Queue

\* While both nodes run, the base node holds and is told of exactly the frames
\* sent, in order: every step of the link is a step of the channel or none.
THEOREM LinkIsChannel == Spec => ImplementsChannel
<1>1. Init => Channel!Init
  <2> SUFFICES ASSUME Init
               PROVE  Channel!Init
    OBVIOUS
  <2>1. wire = <<>> /\ Len(wire) = 0
    BY DEF Init
  <2>2. [k \in 1..Len(wire) |-> wire[k].frame] = <<>>
    BY <2>1
  <2> QED
    BY <2>2 DEF Init, ParserInit, Channel!Init
<1>2. TypeOK /\ Whole /\ InSync /\ [Next]_vars => [Channel!Next]_(Channel!vars)
  <2> SUFFICES ASSUME TypeOK, Whole, InSync, [Next]_vars
               PROVE  [Channel!Next]_(Channel!vars)
    OBVIOUS
  <2>1. WireOK /\ Len(wire) \in Nat
    BY LenProperties DEF TypeOK, WireOK
  <2>2. ASSUME NEW f \in Frames, SendFrame(f)
        PROVE  Channel!Send(f)
    <3>1. /\ WireOK'
          /\ Len(wire') = Len(wire) + 1
          /\ \A k \in 1..Len(wire) : wire'[k] = wire[k]
          /\ wire'[Len(wire')].frame = f
      <4>1. wire'[Len(wire')] = [frame |-> f, next |-> 0, stop |-> FRAME_LEN,
                                 lossy |-> FALSE]
        BY <2>1, <2>2, SendFacts
      <4>2. wire'[Len(wire')].frame = f
        BY <4>1
      <4> QED
        BY <2>1, <2>2, <4>2, SendFacts
    <3>2. /\ Queue(wire') \in Seq(Frames)
          /\ Len(Queue(wire')) = Len(wire')
          /\ \A k \in 1..Len(wire') : Queue(wire')[k] = wire'[k].frame
      BY <3>1, QueueIsSeq DEF WireOK
    <3>3. /\ Append(Queue(wire), f) \in Seq(Frames)
          /\ Len(Append(Queue(wire), f)) = Len(wire) + 1
          /\ \A k \in 1..Len(wire) : Append(Queue(wire), f)[k] = wire[k].frame
          /\ Append(Queue(wire), f)[Len(wire) + 1] = f
      BY <2>1, QueueIsSeq, AppendProperties DEF WireOK
    <3>4. \A k \in 1..Len(wire') : Queue(wire')[k] = Append(Queue(wire), f)[k]
      BY <2>1, <3>1, <3>2, <3>3
    <3>5. Queue(wire') = Append(Queue(wire), f)
      BY <3>1, <3>2, <3>3, <3>4, SeqEqual
    <3>6. Len(Queue(wire)) < MaxInFlight
      BY <2>1, <2>2, QueueIsSeq DEF SendFrame, WireOK
    <3> QED
      BY <2>2, <3>5, <3>6 DEF Channel!Send, Queue, SendFrame, parserVars
  <2>3. CASE Receive
    <3>1. wire # <<>> /\ Len(wire) > 0
      <4>1. wire # <<>>
        BY <2>3 DEF Receive
      <4> QED
        BY <2>1, <4>1, First
    <3>7. Advance(FALSE)
      BY <2>3 DEF Receive
    <3>2. /\ WireOK'
          /\ wire[1].stop = FRAME_LEN
          /\ Pos = wire[1].next
      BY <2>1, <3>1, <3>7, First, AdvanceFacts DEF Whole, Pos
    <3>3. /\ Queue(wire') \in Seq(Frames)
          /\ Len(Queue(wire')) = Len(wire')
          /\ \A k \in 1..Len(wire') : Queue(wire')[k] = wire'[k].frame
      BY <3>2, QueueIsSeq DEF WireOK
    <3>4. /\ Queue(wire) \in Seq(Frames) /\ Len(Queue(wire)) = Len(wire)
          /\ \A k \in 1..Len(wire) : Queue(wire)[k] = wire[k].frame
      BY <2>1, QueueIsSeq DEF WireOK
    <3>5. CASE Pos + 1 = FRAME_LEN
      <4>1. ready_buf' = wire[1].frame /\ frame_sem' = 1
        BY <2>3, <3>5, ReceiveInSync
      <4>2. Len(wire') = Len(wire) - 1 /\ \A k \in 1..Len(wire') : wire'[k] = wire[k+1]
        BY <2>1, <3>1, <3>2, <3>5, <3>7, AdvanceFacts
      <4>3. Queue(wire) # <<>>
        BY <3>1, <3>4
      <4>4. /\ Tail(Queue(wire)) \in Seq(Frames)
            /\ Len(Tail(Queue(wire))) = Len(wire) - 1
            /\ \A k \in 1..Len(wire)-1 : Tail(Queue(wire))[k] = Queue(wire)[k+1]
        BY <3>4, <4>3, HeadTailProperties
      <4>5. \A k \in 1..Len(wire') : Queue(wire')[k] = Tail(Queue(wire))[k]
        BY <2>1, <3>3, <3>4, <4>2, <4>4
      <4>6. Queue(wire') = Tail(Queue(wire))
        BY <3>3, <4>2, <4>4, <4>5, SeqEqual
      <4>7. Head(Queue(wire)) = wire[1].frame
        BY <3>1, <3>4, <4>3
      <4>8. Channel!Receive
        BY <4>1, <4>3, <4>6, <4>7 DEF Channel!Receive, Queue
      <4> QED
        BY <4>8 DEF Channel!Next
    <3>6. CASE Pos + 1 # FRAME_LEN
      <4>1. UNCHANGED <<ready_buf, frame_sem>>
        BY <2>3, <3>6, ReceiveInSync
      <4>2. /\ Len(wire') = Len(wire)
            /\ wire'[1].frame = wire[1].frame
            /\ \A k \in 2..Len(wire) : wire'[k] = wire[k]
        BY <2>1, <3>1, <3>2, <3>6, <3>7, AdvanceFacts
      <4>3. \A k \in 1..Len(wire) : Queue(wire')[k] = Queue(wire)[k]
        BY <2>1, <3>3, <3>4, <4>2
      <4>4. Queue(wire') = Queue(wire)
        BY <3>3, <3>4, <4>2, <4>3, SeqEqual
      <4> QED
        BY <4>1, <4>4 DEF Channel!vars, Queue
    <3> QED
      BY <3>5, <3>6
  <2>4. CASE SemTake
    BY <2>4 DEF SemTake, Channel!Next, Channel!Take
  <2>5. CASE UNCHANGED vars
    BY <2>5 DEF vars, parserVars, Channel!vars
  <2> QED
    BY <2>2, <2>3, <2>4, <2>5 DEF Next, Channel!Next
<1>3. TypeOK /\ Whole /\ InSync /\ [Next]_vars => Whole' /\ InSync'
  BY NextKeepsSync
<1>4. [Next]_vars => [FaultyNext]_vars
  BY DEF FaultyNext, JoinNext
<1> QED
  BY <1>1, <1>2, <1>3, <1>4, InitInSync, LinkTypeCorrect, PTL
     DEF Spec, FaultySpec, ImplementsChannel, Channel!Spec

---------------------------------------------------------------------------
(* With faults: a lost byte or a reset of the sensor node makes the base   *)
(* node publish at most one frame that was not sent, for every number of   *)
(* faults, in any order.                                                   *)
(*                                                                         *)
(* Each fault has an account of one corrupt frame.  A lost byte uses it up *)
(* in the frame that the parser is assembling then.  A reset may use it    *)
(* later: the frame that it cuts short is still on the wire, behind others.*)

\* F counts frames cut short on the wire, from any number on: there are at
\* most c.
CountsCuts(F, c) ==
  /\ F \in [0..Len(wire) -> Nat]
  /\ \A j, k \in 0..Len(wire) : j <= k => F[j] <= F[k]
  /\ \A k \in 1..Len(wire) : wire[k].stop # FRAME_LEN => F[k-1] < F[k]
  /\ F[Len(wire)] <= F[0] + c

CutsAtMost(c) == \E F : CountsCuts(F, c)

\* t is 1 if the frame that is being assembled may be the victim of a fault.
FaultInv ==
  /\ OnlyFirstStarted
  /\ \E c \in Nat, t \in {0, 1} :
       /\ CutsAtMost(c)
       /\ corrupt + t + c <= faults
       /\ t = 0 => Aligned

---------------------------------------------------------------------------
(* What the steps do to the number of cut frames.                          *)

LEMMA WireLen ==
  ASSUME WireOK
  PROVE  Len(wire) \in Nat
  BY LenProperties DEF WireOK

LEMMA CutsSend ==
  ASSUME WireOK, NEW f \in Frames, SendFrame(f), NEW c \in Nat, CutsAtMost(c)
  PROVE  CutsAtMost(c)'
<1> DEFINE n == Len(wire)
<1>1. /\ n \in Nat /\ Len(wire') = n + 1
      /\ \A k \in 1..n : wire'[k] = wire[k]
      /\ wire'[n+1].stop = FRAME_LEN
  <2>1. /\ Len(wire') = Len(wire) + 1
        /\ \A k \in 1..Len(wire) : wire'[k] = wire[k]
        /\ wire'[Len(wire')] = [frame |-> f, next |-> 0, stop |-> FRAME_LEN,
                                lossy |-> FALSE]
    BY SendFacts
  <2>2. wire'[Len(wire')].stop = FRAME_LEN
    BY <2>1
  <2> QED
    BY <2>1, <2>2, WireLen
<1>2. PICK F : CountsCuts(F, c)
  BY DEF CutsAtMost
<1> DEFINE G == [k \in 0..n+1 |-> IF k = n+1 THEN F[n] ELSE F[k]]
<1> HIDE DEF n
<1>3. /\ F \in [0..n -> Nat]
      /\ \A j, k \in 0..n : j <= k => F[j] <= F[k]
      /\ \A k \in 1..n : wire[k].stop # FRAME_LEN => F[k-1] < F[k]
      /\ F[n] <= F[0] + c
  BY <1>2 DEF CountsCuts, n
<1>4. G \in [0..n+1 -> Nat] /\ \A k \in 0..n+1 : G[k] = IF k = n+1 THEN F[n] ELSE F[k]
  BY <1>1, <1>3
<1> HIDE DEF G
<1>5. \A j, k \in 0..n+1 : j <= k => G[j] <= G[k]
  BY <1>1, <1>3, <1>4
<1>6. \A k \in 1..n+1 : wire'[k].stop # FRAME_LEN => G[k-1] < G[k]
  <2>1. ASSUME NEW k \in 1..n+1, wire'[k].stop # FRAME_LEN
        PROVE  G[k-1] < G[k]
    <3>1. k \in 1..n /\ k # n+1 /\ k-1 # n+1 /\ k-1 \in 0..n+1 /\ k \in 0..n+1
      BY <1>1, <2>1
    <3>2. wire[k].stop # FRAME_LEN
      BY <1>1, <2>1, <3>1
    <3>3. F[k-1] < F[k]
      BY <1>3, <3>1, <3>2
    <3>4. G[k-1] = F[k-1] /\ G[k] = F[k]
      BY <1>4, <3>1
    <3> QED
      BY <3>3, <3>4
  <2> QED
    BY <2>1
<1>7. G[n+1] <= G[0] + c
  BY <1>1, <1>3, <1>4
<1> QED
  BY <1>1, <1>4, <1>5, <1>6, <1>7 DEF CutsAtMost, CountsCuts

\* A frame that leaves the wire takes its cut with it.
LEMMA CutsAdvance ==
  ASSUME WireOK, wire # <<>>, NEW lost \in BOOLEAN, Advance(lost),
         NEW c \in Nat, CutsAtMost(c)
  PROVE  /\ CutsAtMost(c)'
         /\ wire[1].next + 1 = wire[1].stop /\ wire[1].stop # FRAME_LEN =>
              c > 0 /\ CutsAtMost(c-1)'
<1> DEFINE n == Len(wire)
<1>1. n \in Nat \ {0}
  BY First
<1>2. PICK F : CountsCuts(F, c)
  BY DEF CutsAtMost
<1>3. /\ F \in [0..n -> Nat]
      /\ \A j, k \in 0..n : j <= k => F[j] <= F[k]
      /\ \A k \in 1..n : wire[k].stop # FRAME_LEN => F[k-1] < F[k]
      /\ F[n] <= F[0] + c
  BY <1>2 DEF CountsCuts
<1>4. CASE wire[1].next + 1 = wire[1].stop
  <2>1. Len(wire') = n - 1 /\ \A k \in 1..n-1 : wire'[k] = wire[k+1]
    BY <1>4, AdvanceFacts
  <2> DEFINE G == [k \in 0..n-1 |-> F[k+1]]
  <2> HIDE DEF n
  <2>2. G \in [0..n-1 -> Nat] /\ \A k \in 0..n-1 : G[k] = F[k+1]
    BY <1>1, <1>3
  <2> HIDE DEF G
  <2>3. \A j, k \in 0..n-1 : j <= k => G[j] <= G[k]
    BY <1>1, <1>3, <2>2
  <2>4. \A k \in 1..n-1 : wire'[k].stop # FRAME_LEN => G[k-1] < G[k]
    <3>1. ASSUME NEW k \in 1..n-1, wire'[k].stop # FRAME_LEN
          PROVE  G[k-1] < G[k]
      <4>1. k+1 \in 1..n /\ k-1 \in 0..n-1 /\ k \in 0..n-1 /\ (k+1)-1 = k /\ (k-1)+1 = k
        BY <1>1, <3>1
      <4>2. wire[k+1].stop # FRAME_LEN
        BY <2>1, <3>1
      <4>3. F[k] < F[k+1]
        BY <1>3, <4>1, <4>2
      <4> QED
        BY <2>2, <4>1, <4>3
    <3> QED
      BY <3>1
  <2>5. G[n-1] = F[n] /\ G[0] = F[1] /\ F[0] <= F[1] /\ F[1] <= F[n]
    BY <1>1, <1>3, <2>2
  <2>6. F[0] \in Nat /\ F[1] \in Nat /\ F[n] \in Nat
    BY <1>1, <1>3
  <2>7. CutsAtMost(c)'
    <3>1. G[n-1] <= G[0] + c
      BY <1>3, <2>5, <2>6
    <3> QED
      BY <2>1, <2>2, <2>3, <2>4, <3>1 DEF CutsAtMost, CountsCuts
  <2>8. ASSUME wire[1].stop # FRAME_LEN
        PROVE  c > 0 /\ CutsAtMost(c-1)'
    <3>1. F[0] < F[1]
      BY <1>1, <1>3, <2>8
    <3>2. c > 0 /\ G[n-1] <= G[0] + (c-1)
      BY <1>3, <2>5, <2>6, <3>1
    <3> QED
      BY <2>1, <2>2, <2>3, <2>4, <3>2 DEF CutsAtMost, CountsCuts
  <2> QED
    BY <2>7, <2>8
<1>5. CASE wire[1].next + 1 # wire[1].stop
  <2>1. /\ Len(wire') = n
        /\ wire'[1].stop = wire[1].stop
        /\ \A k \in 2..n : wire'[k] = wire[k]
    BY <1>5, AdvanceFacts
  <2>2. \A k \in 1..n : wire'[k].stop = wire[k].stop
    BY <1>1, <2>1
  <2>3. CountsCuts(F, c)'
    BY <1>3, <2>1, <2>2 DEF CountsCuts
  <2> QED
    BY <1>5, <2>3 DEF CutsAtMost
<1> QED
  BY <1>4, <1>5

\* A reset removes a frame, or cuts one.
LEMMA CutsReset ==
  ASSUME WireOK, NodeReset, NEW c \in Nat, CutsAtMost(c)
  PROVE  \/ CutsAtMost(c)'
         \/ Len(wire') = Len(wire) /\ CutsAtMost(c+1)'
<1> DEFINE n == Len(wire)
<1>1. n \in Nat \ {0}
  BY First DEF NodeReset
<1>2. PICK F : CountsCuts(F, c)
  BY DEF CutsAtMost
<1>3. /\ F \in [0..n -> Nat]
      /\ \A j, k \in 0..n : j <= k => F[j] <= F[k]
      /\ \A k \in 1..n : wire[k].stop # FRAME_LEN => F[k-1] < F[k]
      /\ F[n] <= F[0] + c
  BY <1>2 DEF CountsCuts
<1>4. /\ Len(wire') \in {n - 1, n}
      /\ \A k \in 1..Len(wire') : k < n => wire'[k] = wire[k]
  BY ResetFacts
<1> HIDE DEF n
<1>5. CASE Len(wire') = n - 1
  <2> DEFINE G == [k \in 0..n-1 |-> F[k]]
  <2>1. G \in [0..n-1 -> Nat] /\ \A k \in 0..n-1 : G[k] = F[k]
    BY <1>1, <1>3
  <2> HIDE DEF G
  <2>2. \A j, k \in 0..n-1 : j <= k => G[j] <= G[k]
    BY <1>1, <1>3, <2>1
  <2>3. \A k \in 1..n-1 : wire'[k].stop # FRAME_LEN => G[k-1] < G[k]
    <3>1. ASSUME NEW k \in 1..n-1, wire'[k].stop # FRAME_LEN
          PROVE  G[k-1] < G[k]
      <4>1. k \in 1..n /\ k < n /\ k-1 \in 0..n-1 /\ k \in 0..n-1
        BY <1>1, <3>1
      <4>2. wire[k].stop # FRAME_LEN
        BY <1>4, <1>5, <3>1, <4>1
      <4> QED
        BY <1>3, <2>1, <4>1, <4>2
    <3> QED
      BY <3>1
  <2>4. G[n-1] <= G[0] + c
    <3>1. F[n-1] <= F[n] /\ F[0] \in Nat /\ F[n-1] \in Nat /\ F[n] \in Nat
      BY <1>1, <1>3
    <3> QED
      BY <1>1, <1>3, <2>1, <3>1
  <2> QED
    BY <1>5, <2>1, <2>2, <2>3, <2>4 DEF CutsAtMost, CountsCuts
<1>6. CASE Len(wire') = n
  <2> DEFINE G == [k \in 0..n |-> IF k = n THEN F[n] + 1 ELSE F[k]]
  <2>1. G \in [0..n -> Nat] /\ \A k \in 0..n : G[k] = IF k = n THEN F[n] + 1 ELSE F[k]
    BY <1>1, <1>3
  <2> HIDE DEF G
  <2>2. \A j, k \in 0..n : j <= k => G[j] <= G[k]
    <3>1. ASSUME NEW j \in 0..n, NEW k \in 0..n, j <= k
          PROVE  G[j] <= G[k]
      <4>1. F[j] \in Nat /\ F[k] \in Nat /\ F[n] \in Nat /\ F[j] <= F[k] /\ F[k] <= F[n]
        BY <1>1, <1>3, <3>1
      <4>2. j = n => k = n
        BY <1>1, <3>1
      <4> QED
        BY <2>1, <3>1, <4>1, <4>2
    <3> QED
      BY <3>1
  <2>3. \A k \in 1..n : wire'[k].stop # FRAME_LEN => G[k-1] < G[k]
    <3>1. ASSUME NEW k \in 1..n, wire'[k].stop # FRAME_LEN
          PROVE  G[k-1] < G[k]
      <4>1. CASE k = n
        BY <1>1, <1>3, <2>1, <4>1
      <4>2. CASE k # n
        <5>1. k < n /\ wire[k].stop # FRAME_LEN
          BY <1>1, <1>4, <1>6, <3>1, <4>2
        <5> QED
          BY <1>1, <1>3, <2>1, <5>1
      <4> QED
        BY <4>1, <4>2
    <3> QED
      BY <3>1
  <2>4. G[n] <= G[0] + (c+1)
    BY <1>1, <1>3, <2>1
  <2>5. CutsAtMost(c+1)'
    BY <1>6, <2>1, <2>2, <2>3, <2>4 DEF CutsAtMost, CountsCuts
  <2> QED
    BY <1>6, <2>5 DEF n
<1> QED
  BY <1>4, <1>5, <1>6

---------------------------------------------------------------------------
(* What the steps do to the account.                                       *)

\* Aligned speaks of the frame being received only.
LEMMA AlignedKept ==
  ASSUME Aligned, UNCHANGED <<rx_buf, rx_idx, base_up, Pos>>,
         Pos > 0 => wire'[1].frame = wire[1].frame,
         ParserTypeOK
  PROVE  Aligned'
<1>1. OpenedAt' = OpenedAt /\ StartPositions' = StartPositions
  BY DEF OpenedAt, StartPositions
<1> QED
  BY <1>1 DEF Aligned

\* A byte that ends what is being assembled settles its account; one that ends
\* a frame cut short may make it a victim.
LEMMA FaultReceive ==
  ASSUME TypeOK, FaultInv, Receive
  PROVE  FaultInv'
<1>1. /\ WireOK /\ wire # <<>> /\ RxByte(NextByte) /\ Advance(FALSE) /\ ParserTypeOK
      /\ OnlyFirstStarted /\ faults' = faults /\ NextByte \in Byte
      /\ corrupt \in Nat /\ faults \in Nat /\ rx_idx \in 0..FRAME_LEN-1
  <2>1. WireOK /\ ParserTypeOK /\ corrupt \in Nat /\ faults \in Nat
    BY LinkAssumption DEF TypeOK, WireOK
  <2>2. wire # <<>> /\ RxByte(NextByte) /\ Advance(FALSE) /\ faults' = faults
    BY DEF Receive
  <2>3. OnlyFirstStarted
    BY DEF FaultInv
  <2>4. NextByte \in Byte /\ rx_idx \in 0..FRAME_LEN-1
    BY <2>1, <2>2, First DEF ParserTypeOK
  <2> QED
    BY <2>1, <2>2, <2>3, <2>4
<1>2. OnlyFirstStarted' /\ Pos = wire[1].next
  BY <1>1, AdvanceOne
<1>3. PICK c \in Nat, t \in {0, 1} :
        CutsAtMost(c) /\ corrupt + t + c <= faults /\ (t = 0 => Aligned)
  BY DEF FaultInv
<1>4. /\ CutsAtMost(c)'
      /\ wire[1].next + 1 = wire[1].stop /\ wire[1].stop # FRAME_LEN =>
           c > 0 /\ CutsAtMost(c-1)'
  BY <1>1, <1>3, CutsAdvance
<1>5. /\ corrupt' \in {corrupt, corrupt + 1}
      /\ rx_idx + 1 # FRAME_LEN => corrupt' = corrupt
  BY DEF Receive, Publishes
<1>6. CASE t = 1 /\ rx_idx + 1 = FRAME_LEN
  <2>1. rx_idx' = 0
    <3>1. rx_idx > 0
      BY <1>1, <1>6, ParserAssumption
    <3> QED
      BY <1>1, <1>6, <3>1, RxByteIdx
  <2>2. Aligned'
    BY <2>1 DEF Aligned
  <2>3. corrupt' + 0 + c <= faults'
    <3>1. corrupt + 1 + c <= faults
      BY <1>3, <1>6
    <3>2. corrupt' = corrupt \/ corrupt' = corrupt + 1
      BY <1>5
    <3> QED
      BY <1>1, <3>1, <3>2
  <2> QED
    BY <1>2, <1>4, <2>2, <2>3 DEF FaultInv
<1>7. CASE t = 1 /\ rx_idx + 1 # FRAME_LEN
  <2>1. corrupt' + 1 + c <= faults'
    BY <1>1, <1>3, <1>5, <1>7
  <2> QED
    BY <1>2, <1>4, <2>1 DEF FaultInv
<1>8. CASE t = 0
  <2>1. /\ corrupt' = corrupt
        /\ Pos + 1 # wire[1].stop \/ wire[1].stop = FRAME_LEN => Aligned'
    BY <1>1, <1>3, <1>8, ReceiveAligned
  <2>2. CASE Pos + 1 # wire[1].stop \/ wire[1].stop = FRAME_LEN
    <3>1. corrupt' + 0 + c <= faults'
      BY <1>1, <1>3, <1>8, <2>1
    <3> QED
      BY <1>2, <1>4, <2>1, <2>2, <3>1 DEF FaultInv
  <2>3. CASE ~(Pos + 1 # wire[1].stop \/ wire[1].stop = FRAME_LEN)
    <3>1. c-1 \in Nat /\ CutsAtMost(c-1)'
      BY <1>2, <1>4, <2>3
    <3>2. corrupt' + 1 + (c-1) <= faults'
      BY <1>1, <1>3, <1>8, <2>1
    <3> QED
      BY <1>2, <3>1, <3>2 DEF FaultInv
  <2> QED
    BY <2>2, <2>3
<1> QED
  BY <1>3, <1>6, <1>7, <1>8

\* A fault opens an account, in the frame being assembled or in one cut short.
LEMMA FaultFault ==
  ASSUME TypeOK, FaultInv, LoseByte \/ NodeReset
  PROVE  FaultInv'
<1>1. /\ WireOK /\ wire # <<>> /\ faults' = faults + 1 /\ corrupt' = corrupt
      /\ OnlyFirstStarted /\ corrupt \in Nat /\ faults \in Nat /\ ParserTypeOK
  <2>1. WireOK /\ ParserTypeOK /\ corrupt \in Nat /\ faults \in Nat
    BY LinkAssumption DEF TypeOK, WireOK
  <2>2. wire # <<>> /\ faults' = faults + 1 /\ corrupt' = corrupt
    BY DEF LoseByte, NodeReset
  <2>3. OnlyFirstStarted
    BY DEF FaultInv
  <2> QED
    BY <2>1, <2>2, <2>3
<1>2. PICK c \in Nat, t \in {0, 1} :
        CutsAtMost(c) /\ corrupt + t + c <= faults /\ (t = 0 => Aligned)
  BY DEF FaultInv
<1>3. ASSUME OnlyFirstStarted', CutsAtMost(c)'
      PROVE  FaultInv'
  <2>1. corrupt' + 1 + c <= faults'
    BY <1>1, <1>2
  <2> QED
    BY <1>3, <2>1 DEF FaultInv
<1>4. CASE LoseByte
  <2>1. Advance(TRUE)
    BY <1>4 DEF LoseByte
  <2>2. OnlyFirstStarted'
    BY <1>1, <2>1, AdvanceOne
  <2>3. CutsAtMost(c)'
    BY <1>1, <1>2, <2>1, CutsAdvance
  <2> QED
    BY <1>3, <2>2, <2>3
<1>5. CASE NodeReset
  <2>1. OnlyFirstStarted'
    BY <1>1, <1>5, ResetFacts
  <2>2. CASE CutsAtMost(c)'
    BY <1>3, <2>1, <2>2
  <2>3. CASE Len(wire') = Len(wire) /\ CutsAtMost(c+1)'
    <3>1. Len(wire) \in Nat \ {0}
      BY <1>1, First
    <3>2. wire'[1].frame = wire[1].frame /\ wire'[1].next = wire[1].next
      BY <1>1, <1>5, <2>3, <3>1, ResetFacts
    <3>3. wire' # <<>>
      BY <2>3, <3>1
    <3>4. Pos' = Pos
      BY <1>1, <3>2, <3>3 DEF Pos
    <3>5. Aligned => Aligned'
      BY <1>1, <1>5, <3>2, <3>4, AlignedKept DEF NodeReset, parserVars
    <3>6. corrupt' + t + (c+1) <= faults' /\ c+1 \in Nat
      BY <1>1, <1>2
    <3> QED
      BY <1>2, <2>1, <2>3, <3>5, <3>6 DEF FaultInv
  <2> QED
    BY <1>1, <1>2, <1>5, <2>2, <2>3, CutsReset
<1> QED
  BY <1>4, <1>5

LEMMA FaultInvStep == TypeOK /\ FaultInv /\ [FaultyNext]_vars => FaultInv'
<1> SUFFICES ASSUME TypeOK, FaultInv, [FaultyNext]_vars
             PROVE  FaultInv'
  OBVIOUS
<1>1. WireOK /\ OnlyFirstStarted /\ ParserTypeOK
  BY DEF TypeOK, WireOK, FaultInv
<1>2. PICK c \in Nat, t \in {0, 1} :
        CutsAtMost(c) /\ corrupt + t + c <= faults /\ (t = 0 => Aligned)
  BY DEF FaultInv
<1>3. ASSUME NEW f \in Frames, SendFrame(f)
      PROVE  FaultInv'
  <2>1. OnlyFirstStarted' /\ Pos' = Pos /\ (wire # <<>> => wire'[1] = wire[1])
    BY <1>1, <1>3, SendPos
  <2>2. UNCHANGED <<rx_buf, rx_idx, base_up, corrupt, faults>>
    BY <1>3 DEF SendFrame, parserVars
  <2>3. Pos > 0 => wire'[1].frame = wire[1].frame
    BY <2>1 DEF Pos
  <2>4. Aligned => Aligned'
    BY <1>1, <2>1, <2>2, <2>3, AlignedKept
  <2>5. CutsAtMost(c)'
    BY <1>1, <1>2, <1>3, CutsSend
  <2> QED
    BY <1>2, <2>1, <2>2, <2>4, <2>5 DEF FaultInv
<1>4. CASE Receive
  BY <1>4, FaultReceive
<1>5. CASE LoseByte \/ NodeReset
  BY <1>5, FaultFault
<1>6. CASE SemTake \/ BaseOff \/ BaseBoot \/ UNCHANGED vars
  <2>1. UNCHANGED <<wire, corrupt, faults>>
    BY <1>6 DEF SemTake, BaseOff, BaseBoot, vars
  <2>2. Aligned => Aligned'
    <3>1. CASE SemTake \/ UNCHANGED vars
      BY <3>1 DEF SemTake, vars, parserVars, Aligned, OpenedAt, Pos, StartPositions
    <3>2. CASE BaseOff
      BY <3>2 DEF BaseOff, Aligned
    <3>3. CASE BaseBoot
      BY <3>3 DEF BaseBoot, ParserReset, Aligned
    <3> QED
      BY <1>6, <3>1, <3>2, <3>3
  <2>3. OnlyFirstStarted' /\ CutsAtMost(c)'
    BY <1>1, <1>2, <2>1 DEF OnlyFirstStarted, CutsAtMost, CountsCuts
  <2> QED
    BY <1>2, <2>1, <2>2, <2>3 DEF FaultInv
<1>7. CASE MissByte
  <2>1. wire # <<>> /\ Advance(FALSE) /\ UNCHANGED <<corrupt, faults>> /\ ~base_up'
    BY <1>7, Zenon DEF MissByte
  <2>2. OnlyFirstStarted' /\ CutsAtMost(c)'
    BY <1>1, <1>2, <2>1, AdvanceOne, CutsAdvance
  <2>3. Aligned'
    BY <2>1 DEF Aligned
  <2> QED
    BY <1>2, <2>1, <2>2, <2>3 DEF FaultInv
<1> QED
  BY <1>3, <1>4, <1>5, <1>6, <1>7 DEF FaultyNext, JoinNext, Next

LEMMA FaultInvInit == Init => FaultInv
<1> SUFFICES ASSUME Init PROVE FaultInv
  OBVIOUS
<1>1. wire = <<>> /\ Len(wire) = 0 /\ corrupt = 0 /\ faults = 0 /\ rx_idx = 0
  BY DEF Init, ParserInit
<1>2. CountsCuts([k \in 0..0 |-> 0], 0)
  BY <1>1 DEF CountsCuts
<1>3. Aligned /\ OnlyFirstStarted
  BY <1>1 DEF Aligned, OnlyFirstStarted
<1>4. corrupt + 0 + 0 <= faults
  BY <1>1
<1>5. CutsAtMost(0)
  BY <1>2 DEF CutsAtMost
<1> QED
  BY <1>3, <1>4, <1>5 DEF FaultInv

\* However many bytes are lost and however often either node is reset, the
\* base node publishes at most one corrupt frame per fault.
THEOREM OneCorruptFrame == FaultySpec => []OneCorruptFramePerFault
<1>1. TypeOK /\ FaultInv => OneCorruptFramePerFault
  BY DEF TypeOK, FaultInv, OneCorruptFramePerFault
<1> QED
  BY <1>1, FaultInvInit, FaultInvStep, LinkTypeCorrect, PTL DEF FaultySpec

============================================================================
