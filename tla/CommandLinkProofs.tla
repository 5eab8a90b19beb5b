------------------------- MODULE CommandLinkProofs -------------------------
(***************************************************************************)
(* Proofs about CommandLink, for any settings in range and any FIFO.       *)
(***************************************************************************)
EXTENDS CommandLink, SequenceTheorems, TLAPS

---------------------------------------------------------------------------
(* The encoding.                                                           *)

LEMMA UnsignedDef == \A n \in Nat : \A x : x \in Unsigned(n) <=> x \in Int /\ 0 <= x /\ x < n
  BY DEF Unsigned

LEMMA SignedDef == \A n \in Nat : \A x : x \in Signed(n) <=> x \in Int /\ -n <= x /\ x < n
  BY DEF Signed

LEMMA Widths ==
  /\ \A x : x \in UInt8 <=> x \in Int /\ 0 <= x /\ x < 256
  /\ \A x : x \in UInt16 <=> x \in Int /\ 0 <= x /\ x < 65536
  /\ \A x : x \in Int16 <=> x \in Int /\ -32768 <= x /\ x < 32768
  <1>1. \A x : x \in UInt8 <=> x \in Int /\ 0 <= x /\ x < 256
    BY UnsignedDef DEF UInt8
  <1>2. \A x : x \in UInt16 <=> x \in Int /\ 0 <= x /\ x < 65536
    BY UnsignedDef DEF UInt16
  <1>3. \A x : x \in Int16 <=> x \in Int /\ -32768 <= x /\ x < 32768
    BY SignedDef DEF Int16
  <1> QED
    BY <1>1, <1>2, <1>3

LEMMA ByteType == \A x \in Int : High(x) \in UInt8 /\ Low(x) \in UInt8
  BY Widths DEF High, Low, U8

LEMMA WordOfBytes == \A v \in UInt16 : Word(High(v), Low(v)) = v
  BY Widths DEF Word, High, Low, U8

LEMMA WordType == \A h, l \in UInt8 : Word(h, l) \in UInt16
  BY Widths DEF Word

LEMMA Fitting ==
  /\ \A n \in Int : U16(n) \in UInt16 /\ I16(n) \in Int16 /\ U8(n) \in UInt8
  /\ \A n \in UInt16 : U16(n) = n
  /\ \A n \in Int16 : I16(n) = n /\ I16(U16(n)) = n
  BY Widths DEF I16, U16, U8

LEMMA Scaled == \A n \in 0..63 : n \in UInt16 /\ n % 64 = n /\ U8(n % 64) = n
  BY Widths DEF U8

\* The bytes of a setting's frame carry its meaning.
LEMMA RawMeans ==
  ASSUME NEW s \in Settings
  PROVE  /\ Raw(s[1], s[2]) \in UInt16
         /\ Decoded(s[1], Raw(s[1], s[2])) = Meaning(s[1], s[2])
         /\ s[1] = "SOUND_THRESH" => Raw(s[1], s[2]) \in 0..63
         /\ Meaning(s[1], s[2]) \in Int
  <1> DEFINE val == s[2]
             n == val.val1 * 100 + val.val2 \div 10000
  <1>1. /\ s[1] \in Attributes
        /\ val.val1 \in Int /\ val.val2 \in Int /\ val.val2 % 10000 = 0
        /\ Meaning(s[1], val) \in RangeOf(s[1])
    BY SettingsAssumption
  <1>2. ToHundredths(val) = n /\ n \in Int
    BY <1>1 DEF ToHundredths, CDiv
  <1>3. CASE s[1] = "DIST_THRESH"
    BY <1>1, <1>3, Fitting, Widths DEF Raw, Meaning, RangeOf, Decoded
  <1>4. CASE s[1] = "SOUND_THRESH"
    BY <1>1, <1>4, Fitting, Scaled DEF Raw, Meaning, RangeOf, Decoded
  <1>5. CASE s[1] = "TEMP_MAX"
    <2>1. n \in Int16 /\ Meaning(s[1], val) = n
      BY <1>1, <1>5 DEF Meaning, RangeOf
    <2>2. Raw(s[1], val) = U16(I16(n))
      BY <1>2, <1>5 DEF Raw
    <2> QED
      BY <1>2, <1>5, <2>1, <2>2, Fitting DEF Decoded
  <1>6. CASE s[1] \in {"HUM_MAX", "HUM_MIN"}
    <2>1. n \in UInt16 /\ Meaning(s[1], val) = n
      BY <1>1, <1>6 DEF Meaning, RangeOf
    <2>2. Raw(s[1], val) = U16(n)
      BY <1>2, <1>6 DEF Raw
    <2> QED
      BY <1>2, <1>6, <2>1, <2>2, Fitting DEF Decoded
  <1> QED
    BY <1>1, <1>3, <1>4, <1>5, <1>6 DEF Attributes

\* The fields of the thresholds after a command.
LEMMA ApplyFields ==
  ASSUME NEW th \in Thresholds, NEW cmd, NEW val \in UInt16
  PROVE  LET after == ApplyCommand(th, cmd, val) IN
           /\ after \in Thresholds
           /\ after["dist"] = IF cmd = 1 THEN val ELSE th["dist"]
           /\ after["temp"] = IF cmd = 2 THEN I16(val) ELSE th["temp"]
           /\ after["sound"] = IF cmd = 3 THEN U8(val % 64) ELSE th["sound"]
           /\ after["hum_max"] = IF cmd = 4 THEN val ELSE th["hum_max"]
           /\ after["hum_min"] = IF cmd = 5 THEN val ELSE th["hum_min"]
  <1>1. I16(val) \in Int16 /\ U8(val % 64) \in 0..63 /\ U8(val) \in UInt8
    <2>1. val \in Int
      BY Widths
    <2>2. val % 64 \in 0..63
      BY <2>1
    <2> QED
      BY <2>1, <2>2, Fitting, Scaled
  <1> DEFINE after == ApplyCommand(th, cmd, val)
  <1>2. /\ after["dist"] = IF cmd = 1 THEN val ELSE th["dist"]
        /\ after["temp"] = IF cmd = 2 THEN I16(val) ELSE th["temp"]
        /\ after["sound"] = IF cmd = 3 THEN U8(val % 64) ELSE th["sound"]
        /\ after["hum_max"] = IF cmd = 4 THEN val ELSE th["hum_max"]
        /\ after["hum_min"] = IF cmd = 5 THEN val ELSE th["hum_min"]
    BY DEF ApplyCommand, Thresholds
  <1>3. after \in Thresholds
    BY <1>1 DEF ApplyCommand, Thresholds
  <1> QED
    BY <1>2, <1>3

\* A command that sets attribute a changes that threshold only.
LEMMA ApplySetting ==
  ASSUME NEW th \in Thresholds, NEW s \in Settings
  PROVE  LET after == ApplyCommand(th, Cmd[s[1]], Raw(s[1], s[2])) IN
           \A a \in Attributes :
             after[Field[a]] = IF a = s[1] THEN Meaning(s[1], s[2]) ELSE th[Field[a]]
  <1> DEFINE raw == Raw(s[1], s[2])
  <1>1. s[1] \in Attributes
    BY SettingsAssumption
  <1>2. raw \in UInt16 /\ Decoded(s[1], raw) = Meaning(s[1], s[2])
    BY RawMeans
  <1>3. s[1] = "SOUND_THRESH" => U8(raw % 64) = raw
    BY RawMeans DEF U8
  <1> HIDE DEF raw
  <1> QED
    BY <1>1, <1>2, <1>3, ApplyFields DEF Attributes, Cmd, Field, Decoded, raw

LEMMA FrameBytes ==
  ASSUME NEW s \in Settings
  PROVE  LET f == AttrSetFrame(s[1], s[2])
             raw == Raw(s[1], s[2])
         IN  /\ f[0] = 187 /\ f[1] = Cmd[s[1]] /\ f[2] = High(raw) /\ f[3] = Low(raw) /\ f[4] = 102
             /\ \A i \in 0..4 : f[i] \in UInt8
             /\ f[1] # 102 /\ f[2] # 102
  <1> DEFINE raw == Raw(s[1], s[2])
             f == AttrSetFrame(s[1], s[2])
  <1>1. s[1] \in Attributes /\ High(raw) # 102
    BY SettingsAssumption DEF CMD_END
  <1>2. Cmd[s[1]] \in 1..5
    BY <1>1 DEF Cmd, Attributes
  <1>3. raw \in Int
    BY RawMeans, Widths
  <1> HIDE DEF raw
  <1>4. High(raw) \in UInt8 /\ Low(raw) \in UInt8 /\ 187 \in UInt8 /\ 102 \in UInt8
        /\ Cmd[s[1]] \in UInt8
    BY <1>2, <1>3, ByteType, Widths
  <1>5. f[0] = 187 /\ f[1] = Cmd[s[1]] /\ f[2] = High(raw) /\ f[3] = Low(raw) /\ f[4] = 102
    BY DEF AttrSetFrame, Array, raw
  <1>6. \A i \in 0..4 : i = 0 \/ i = 1 \/ i = 2 \/ i = 3 \/ i = 4
    OBVIOUS
  <1> HIDE DEF f
  <1> QED
    BY <1>1, <1>2, <1>4, <1>5, <1>6 DEF f, raw

---------------------------------------------------------------------------
(* The bytes on their way: in cmd_buf, in the FIFO and not yet sent.  Each  *)
(* one is byte I[p] of the frame of setting S[p], and is followed by the    *)
(* next byte of that frame or the first of another: resets cut frames off.  *)

Bytes == [p \in 1..InTransit |-> ByteInTransit(p)]

FrameByte(s, i) == AttrSetFrame(s[1], s[2])[i]

Tagged(B, n, S, I) ==
  /\ S \in [1..n -> Settings]
  /\ I \in [1..n -> 0..4]
  /\ \A p \in 1..n : B[p] = FrameByte(S[p], I[p])
  /\ \A p \in 1..n-1 : I[p+1] = 0 \/ (I[p+1] = I[p] + 1 /\ S[p+1] = S[p])

\* Without resets the frames are whole.
WholeFrames(n, I) == n % 5 = 0 /\ \A p \in 1..n : I[p] = (p-1) % 5

\* The last frame on its way that sets an attribute has the value wanted; the
\* threshold has it if there is none.
Pending(n, S, I, th, w) ==
  \A a \in Attributes :
    /\ (\A p \in 1..n : S[p][1] # a) => th[Field[a]] = w[a]
    /\ \A p \in 1..n :
         I[p] = 4 /\ S[p][1] = a /\ (\A q \in p+1..n : S[q][1] # a) =>
           w[a] = Meaning(S[p][1], S[p][2])

Drop(f, d, n) == [p \in 1..n-d |-> f[p+d]]
Take(f, m)    == [p \in 1..m |-> f[p]]

LEMMA TagDrop ==
  ASSUME NEW B, NEW n \in Nat, NEW S, NEW I, Tagged(B, n, S, I),
         NEW d \in 0..n, NEW C, \A p \in 1..n-d : C[p] = B[p+d]
  PROVE  Tagged(C, n-d, Drop(S, d, n), Drop(I, d, n))
  BY DEF Tagged, Drop

LEMMA TagTake ==
  ASSUME NEW B, NEW n \in Nat, NEW S, NEW I, Tagged(B, n, S, I),
         NEW m \in 0..n, NEW C, \A p \in 1..m : C[p] = B[p]
  PROVE  Tagged(C, m, Take(S, m), Take(I, m))
  BY DEF Tagged, Take

AddS(S, n, s) == [p \in 1..n+5 |-> IF p <= n THEN S[p] ELSE s]
AddI(I, n)    == [p \in 1..n+5 |-> IF p <= n THEN I[p] ELSE p-n-1]

LEMMA TagAdd ==
  ASSUME NEW B, NEW n \in Nat, NEW S, NEW I, Tagged(B, n, S, I),
         NEW s \in Settings, NEW C, \A p \in 1..n : C[p] = B[p],
         \A p \in n+1..n+5 : C[p] = FrameByte(s, p-n-1)
  PROVE  Tagged(C, n+5, AddS(S, n, s), AddI(I, n))
  BY DEF Tagged, AddS, AddI

\* A window of five bytes that ends with an end marker is a frame, or has a
\* start marker where the command's number belongs.
LEMMA Window ==
  ASSUME NEW B, NEW n \in Nat, NEW S, NEW I, Tagged(B, n, S, I), n >= 5, B[5] = 102
  PROVE  \/ \A p \in 1..5 : I[p] = p-1 /\ S[p] = S[1]
         \/ B[2] = 187
  <1>1. \A p \in 1..5 : I[p] \in 0..4 /\ S[p] \in Settings /\ B[p] = FrameByte(S[p], I[p])
    BY DEF Tagged
  <1>2. \A p \in 1..4 : I[p+1] = 0 \/ (I[p+1] = I[p] + 1 /\ S[p+1] = S[p])
    BY DEF Tagged
  <1>3. I[5] = 3 \/ I[5] = 4
    BY <1>1, FrameBytes DEF FrameByte
  <1>4. CASE I[5] = 3
    <2>1. I[4] = 2
      BY <1>1, <1>2, <1>4
    <2>2. I[3] = 1
      BY <1>1, <1>2, <2>1
    <2>3. I[2] = 0
      BY <1>1, <1>2, <2>2
    <2> QED
      BY <1>1, <2>3, FrameBytes DEF FrameByte
  <1>5. CASE I[5] = 4
    <2>1. I[4] = 3 /\ S[5] = S[4]
      BY <1>1, <1>2, <1>5
    <2>2. I[3] = 2 /\ S[4] = S[3]
      BY <1>1, <1>2, <2>1
    <2>3. I[2] = 1 /\ S[3] = S[2]
      BY <1>1, <1>2, <2>2
    <2>4. I[1] = 0 /\ S[2] = S[1]
      BY <1>1, <1>2, <2>3
    <2> QED
      BY <1>5, <2>1, <2>2, <2>3, <2>4
  <1> QED
    BY <1>3, <1>4, <1>5

\* The five bytes after the first m are a frame.
IsFrame(B, n, S, I, m) ==
  /\ m + 5 <= n /\ S[m+1] \in Settings
  /\ \A p \in 1..5 : /\ m+p \in 1..n /\ I[m+p] = p-1 /\ S[m+p] = S[m+1]
                     /\ B[m+p] = FrameByte(S[m+1], p-1)

\* Without resets every multiple of five is followed by a frame.
LEMMA WholeAt ==
  ASSUME NEW B, NEW n \in Nat, NEW S, NEW I, Tagged(B, n, S, I), WholeFrames(n, I),
         NEW m \in Nat, m < n, m % 5 = 0
  PROVE  IsFrame(B, n, S, I, m)
  <1>1. n % 5 = 0 /\ \A p \in 1..n : I[p] = (p-1) % 5
    BY DEF WholeFrames
  <1>2. m + 5 <= n
    BY <1>1
  <1>3. ASSUME NEW p \in 1..5 PROVE m+p \in 1..n /\ I[m+p] = p-1
    <2>1. m+p \in 1..n /\ (m+p-1) % 5 = p-1
      BY <1>2
    <2> QED
      BY <1>1, <2>1
  <1>4. ASSUME NEW p \in 1..4 PROVE S[m+p+1] = S[m+p]
    <2>1. m+p \in 1..n-1 /\ p+1 \in 1..5 /\ m+(p+1) = m+p+1
      BY <1>2
    <2>2. I[m+p+1] = p
      BY <1>3, <2>1
    <2> QED
      BY <2>1, <2>2 DEF Tagged
  <1>5. S[m+2] = S[m+1] /\ S[m+3] = S[m+2] /\ S[m+4] = S[m+3] /\ S[m+5] = S[m+4]
    <2>1. 1 \in 1..4 /\ 2 \in 1..4 /\ 3 \in 1..4 /\ 4 \in 1..4
      OBVIOUS
    <2> QED
      BY <1>4, <2>1
  <1>6. \A p \in 1..5 : S[m+p] = S[m+1]
    BY <1>5
  <1>7. m+1 \in 1..n /\ S[m+1] \in Settings
    BY <1>2 DEF Tagged
  <1> QED
    BY <1>2, <1>3, <1>6, <1>7 DEF Tagged, IsFrame

\* They begin with a whole frame.
LEMMA WholeFirst ==
  ASSUME NEW B, NEW n \in Nat, NEW S, NEW I, Tagged(B, n, S, I), WholeFrames(n, I), n > 0
  PROVE  /\ n >= 5 /\ B[1] = 187 /\ B[5] = 102
         /\ \A p \in 1..5 : I[p] = p-1 /\ S[p] = S[1]
  <1>1. /\ 5 <= n /\ S[1] \in Settings
        /\ \A p \in 1..5 : I[p] = p-1 /\ S[p] = S[1] /\ B[p] = FrameByte(S[1], p-1)
    <2>1. PICK m \in Nat : m = 0 /\ m < n /\ m % 5 = 0
      BY 0 \in Nat /\ 0 % 5 = 0
    <2>2. IsFrame(B, n, S, I, m)
      BY <2>1, WholeAt, Zenon
    <2>3. m + 5 = 5 /\ m + 1 = 1 /\ \A p \in 1..5 : m + p = p
      BY <2>1
    <2> QED
      BY <2>2, <2>3 DEF IsFrame
  <1> QED
    BY <1>1, FrameBytes DEF FrameByte

---------------------------------------------------------------------------
(* Types, and room in the FIFO for what a paced application sends.         *)

FifoInv ==
  /\ Len(rx_fifo) + Len(tx) <= RxFifoLen
  /\ ~node_up => rx_fifo = <<>> /\ cmd_idx = 0 /\ ~polling /\ was_reset

LEMMA FrameSeq ==
  ASSUME NEW s \in Settings
  PROVE  LET q == [i \in 1..CMD_FRAME_LEN |-> AttrSetFrame(s[1], s[2])[i-1]] IN
           /\ q \in Seq(UInt8) /\ Len(q) = 5
           /\ \A i \in 1..5 : q[i] = FrameByte(s, i-1)
  <1> DEFINE q == [i \in 1..5 |-> AttrSetFrame(s[1], s[2])[i-1]]
  <1>1. \A i \in 1..5 : AttrSetFrame(s[1], s[2])[i-1] \in UInt8
    BY FrameBytes
  <1>2. q \in Seq(UInt8) /\ Len(q) = 5
    BY <1>1
  <1> QED
    BY <1>2 DEF FrameByte, CMD_FRAME_LEN

LEMMA ThresholdsInit == InitThresholds \in Thresholds
  BY Widths DEF InitThresholds, Thresholds, IRQ_MASK

LEMMA EmptyBuf == [i \in 0..CMD_FRAME_LEN-1 |-> 0] \in [0..CMD_FRAME_LEN-1 -> UInt8]
  <1>1. 0 \in UInt8
    BY Widths
  <1> QED
    BY <1>1

LEMMA TypeInit == Init => TypeOK /\ FifoInv
  <1> SUFFICES ASSUME Init PROVE TypeOK /\ FifoInv
    OBVIOUS
  <1>1. wanted \in [Attributes -> Int]
    BY ThresholdsInit, Widths DEF Init, Attributes, Field, Thresholds
  <1>2. thresholds \in Thresholds
    BY ThresholdsInit DEF Init
  <1>3. cmd_buf \in [0..CMD_FRAME_LEN-1 -> UInt8]
    BY EmptyBuf DEF Init
  <1>4. node_up /\ node_up \in BOOLEAN /\ polling \in BOOLEAN /\ was_reset \in BOOLEAN
    BY DEF Init
  <1>5. tx = <<>> /\ rx_fifo = <<>> /\ cmd_idx = 0
    BY DEF Init
  <1>6. tx \in Seq(UInt8) /\ rx_fifo \in Seq(UInt8) /\ Len(tx) = 0 /\ Len(rx_fifo) = 0
    BY <1>5
  <1>7. 0 \in 0..CMD_FRAME_LEN-1 /\ 0 <= CMD_FRAME_LEN /\ 0 <= RxFifoLen /\ 0 + 0 <= RxFifoLen
    BY FifoAssumption DEF CMD_FRAME_LEN
  <1> QED
    BY <1>1, <1>2, <1>3, <1>4, <1>5, <1>6, <1>7, Zenon DEF TypeOK, FifoInv

LEMMA TypeStep == TypeOK /\ FifoInv /\ [ResetNext]_vars => TypeOK' /\ FifoInv'
  <1> SUFFICES ASSUME TypeOK, FifoInv, [ResetNext]_vars PROVE TypeOK' /\ FifoInv'
    OBVIOUS
  <1> USE FifoAssumption DEF TypeOK, FifoInv, CMD_FRAME_LEN
  <1>1. ASSUME Paced, NEW s \in Settings, AttrSet(s[1], s[2]) PROVE TypeOK' /\ FifoInv'
    <2>1. wanted' \in [Attributes -> Int]
      BY <1>1, RawMeans, SettingsAssumption DEF AttrSet
    <2>2. tx' \in Seq(UInt8) /\ Len(tx') = 5
      BY <1>1, FrameSeq DEF AttrSet
    <2> QED
      BY <1>1, <2>1, <2>2 DEF AttrSet, Paced, nodeVars
  <1>2. CASE PollOut
    BY <1>2 DEF PollOut
  <1>3. CASE StartPoll \/ EndPoll
    BY <1>3 DEF StartPoll, EndPoll
  <1>4. CASE PollByte
    <2>1. Head(rx_fifo) \in UInt8 /\ Tail(rx_fifo) \in Seq(UInt8) /\ Len(Tail(rx_fifo)) = Len(rx_fifo) - 1
      BY <1>4 DEF PollByte
    <2>2. Word(cmd_buf[2], cmd_buf[3]) \in UInt16
      BY WordType
    <2>3. thresholds' \in Thresholds /\ cmd_buf' \in [0..4 -> UInt8] /\ cmd_idx' \in 0..4
      BY <1>4, <2>1, <2>2, ApplyFields DEF PollByte, Discard, Begin, Store, StoreBefore, Complete, CompleteAt
    <2> QED
      BY <1>4, <2>1, <2>3 DEF PollByte
  <1>5. CASE NodeReset
    <2>1. thresholds' \in Thresholds /\ cmd_buf' \in [0..CMD_FRAME_LEN-1 -> UInt8]
      BY <1>5, ThresholdsInit, EmptyBuf DEF NodeReset
    <2>2. rx_fifo' = <<>> /\ cmd_idx' = 0 /\ tx' = tx /\ wanted' = wanted
      BY <1>5 DEF NodeReset
    <2>3. ~polling' /\ was_reset' /\ node_up' \in BOOLEAN /\ polling' \in BOOLEAN /\ was_reset' \in BOOLEAN
      BY <1>5, Zenon DEF NodeReset
    <2>4. /\ rx_fifo' \in Seq(UInt8) /\ Len(rx_fifo') <= RxFifoLen
          /\ Len(rx_fifo') + Len(tx') <= RxFifoLen /\ cmd_idx' \in 0..CMD_FRAME_LEN-1
      BY <2>2
    <2> HIDE DEF CMD_FRAME_LEN
    <2> QED
      BY <2>1, <2>2, <2>3, <2>4, Zenon
  <1>6. CASE NodeBoot
    BY <1>6 DEF NodeBoot
  <1>7. CASE BaseReset
    BY <1>7 DEF BaseReset, nodeVars
  <1>8. CASE UNCHANGED vars
    BY <1>8 DEF vars, nodeVars
  <1> QED
    BY <1>1, <1>2, <1>3, <1>4, <1>5, <1>6, <1>7, <1>8
       DEF ResetNext, NodeResetNext, Set, Work

\* Types of the link, whatever is reset.
THEOREM CommandTypeCorrect == ResetSpec => []TypeOK
  BY TypeInit, TypeStep, PTL DEF ResetSpec

---------------------------------------------------------------------------
(* How WholeFrames and Pending change when a frame is added or taken off.        *)

LEMMA WholeAdd ==
  ASSUME NEW n \in Nat, NEW I, I \in [1..n -> 0..4], WholeFrames(n, I)
  PROVE  WholeFrames(n+5, AddI(I, n))
  <1>1. n % 5 = 0 /\ \A p \in 1..n : I[p] = (p-1) % 5
    BY DEF WholeFrames
  <1>2. \A p \in n+1..n+5 : p-n-1 = (p-1) % 5 /\ ~(p <= n)
    BY <1>1
  <1>3. \A p \in 1..n+5 : (p \in 1..n /\ p <= n) \/ p \in n+1..n+5
    OBVIOUS
  <1>4. \A p \in 1..n+5 : AddI(I, n)[p] = (p-1) % 5
    BY <1>1, <1>2, <1>3 DEF AddI
  <1>5. (n+5) % 5 = 0
    BY <1>1
  <1> QED
    BY <1>4, <1>5 DEF WholeFrames

LEMMA PendingAdd ==
  ASSUME NEW n \in Nat, NEW S, NEW I, NEW th, NEW w \in [Attributes -> Int], NEW s \in Settings,
         Pending(n, S, I, th, w)
  PROVE  Pending(n+5, AddS(S, n, s), AddI(I, n), th, [w EXCEPT ![s[1]] = Meaning(s[1], s[2])])
  <1> DEFINE T == AddS(S, n, s)
             J == AddI(I, n)
             v == [w EXCEPT ![s[1]] = Meaning(s[1], s[2])]
  <1>1. \A p \in 1..n : T[p] = S[p] /\ J[p] = I[p]
    BY DEF AddS, AddI
  <1>2. \A p \in n+1..n+5 : T[p] = s /\ J[p] = p-n-1
    BY DEF AddS, AddI
  <1>3. n+5 \in n+1..n+5 /\ T[n+5] = s
    BY <1>2
  <1>4. \A p \in 1..n+5 : p \in 1..n \/ p \in n+1..n+5
    OBVIOUS
  <1>5. \A p \in 1..n : p \in 1..n+5 /\ n+5 \in p+1..n+5 /\ \A q \in p+1..n : q \in 1..n /\ q \in p+1..n+5
    OBVIOUS
  <1> HIDE DEF T, J
  <1>6. ASSUME NEW a \in Attributes, \A p \in 1..n+5 : T[p][1] # a
        PROVE  th[Field[a]] = v[a]
    <2>1. a # s[1]
      BY <1>3, <1>6, n+5 \in 1..n+5
    <2>2. \A p \in 1..n : S[p][1] # a
      BY <1>1, <1>5, <1>6
    <2> QED
      BY <2>1, <2>2 DEF Pending
  <1>7. ASSUME NEW a \in Attributes, NEW p \in 1..n+5, J[p] = 4, T[p][1] = a,
               \A q \in p+1..n+5 : T[q][1] # a
        PROVE  v[a] = Meaning(T[p][1], T[p][2])
    <2>1. CASE p \in 1..n
      <3>1. a # s[1]
        BY <1>3, <1>5, <1>7, <2>1
      <3>2. I[p] = 4 /\ S[p][1] = a /\ \A q \in p+1..n : S[q][1] # a
        BY <1>1, <1>5, <1>7, <2>1
      <3> QED
        BY <1>1, <2>1, <3>1, <3>2 DEF Pending
    <2>2. CASE p \in n+1..n+5
      BY <1>2, <1>7, <2>2
    <2> QED
      BY <1>4, <2>1, <2>2
  <1> QED
    BY <1>6, <1>7 DEF Pending, T, J

LEMMA WholeDrop ==
  ASSUME NEW n \in Nat, NEW I, I \in [1..n -> 0..4], WholeFrames(n, I), n >= 5
  PROVE  WholeFrames(n-5, Drop(I, 5, n))
  <1>1. \A p \in 1..n-5 : p+5 \in 1..n /\ (p+5-1) % 5 = (p-1) % 5
    OBVIOUS
  <1> QED
    BY <1>1 DEF WholeFrames, Drop

LEMMA PendingDrop ==
  ASSUME NEW n \in Nat, n >= 5, NEW S, NEW I, NEW th, NEW th2, NEW w,
         Pending(n, S, I, th, w), \A p \in 1..5 : I[p] = p-1 /\ S[p] = S[1],
         \A a \in Attributes :
           th2[Field[a]] = IF a = S[1][1] THEN Meaning(S[1][1], S[1][2]) ELSE th[Field[a]]
  PROVE  Pending(n-5, Drop(S, 5, n), Drop(I, 5, n), th2, w)
  <1> DEFINE T == Drop(S, 5, n)
             J == Drop(I, 5, n)
  <1>1. \A p \in 1..n-5 : T[p] = S[p+5] /\ J[p] = I[p+5]
    BY DEF Drop
  <1> HIDE DEF T, J
  <1>2. ASSUME NEW a \in Attributes, \A p \in 1..n-5 : T[p][1] # a
        PROVE  th2[Field[a]] = w[a]
    <2>1. \A p \in 6..n : S[p][1] # a
      <3> SUFFICES ASSUME NEW p \in 6..n PROVE S[p][1] # a
        OBVIOUS
      <3>1. PICK k \in 1..n-5 : p = k+5
        <4>1. p-5 \in 1..n-5 /\ p = (p-5)+5
          OBVIOUS
        <4> QED
          BY <4>1
      <3> QED
        BY <1>1, <1>2, <3>1
    <2>2. CASE a = S[1][1]
      <3>1. 5 \in 1..n /\ I[5] = 4 /\ S[5] = S[1] /\ \A q \in 5+1..n : S[q][1] # a
        BY <2>1
      <3> QED
        BY <2>2, <3>1 DEF Pending
    <2>3. CASE a # S[1][1]
      <3>1. \A p \in 1..n : p \in 1..5 \/ p \in 6..n
        OBVIOUS
      <3>2. \A p \in 1..n : S[p][1] # a
        BY <2>1, <2>3, <3>1
      <3> QED
        BY <2>3, <3>2 DEF Pending
    <2> QED
      BY <2>2, <2>3
  <1>3. ASSUME NEW a \in Attributes, NEW p \in 1..n-5, J[p] = 4, T[p][1] = a,
               \A q \in p+1..n-5 : T[q][1] # a
        PROVE  w[a] = Meaning(T[p][1], T[p][2])
    <2>1. p+5 \in 1..n /\ I[p+5] = 4 /\ S[p+5][1] = a
      BY <1>1, <1>3
    <2>2. ASSUME NEW q \in (p+5)+1..n PROVE S[q][1] # a
      <3>1. PICK k \in p+1..n-5 : k \in 1..n-5 /\ q = k+5
        <4>1. q-5 \in p+1..n-5 /\ q-5 \in 1..n-5 /\ q = (q-5)+5
          OBVIOUS
        <4> QED
          BY <4>1
      <3> QED
        BY <1>1, <1>3, <3>1
    <2> QED
      BY <1>1, <2>1, <2>2 DEF Pending
  <1> QED
    BY <1>2, <1>3 DEF Pending, T, J

---------------------------------------------------------------------------
(* The invariant.                                                          *)

TagInv ==
  \E S, I : /\ Tagged(Bytes, InTransit, S, I)
            /\ ~was_reset => WholeFrames(InTransit, I) /\ Pending(InTransit, S, I, thresholds, wanted)

LinkInv == TypeOK /\ FifoInv /\ OnlyAskedFor /\ TagInv

\* The bytes are those of the three places they wait in.
LEMMA ByteAt ==
  ASSUME TypeOK
  PROVE  /\ InTransit \in Nat /\ Len(rx_fifo) \in Nat /\ Len(tx) \in Nat /\ cmd_idx \in 0..4
         /\ \A p \in 1..cmd_idx : p \in 1..InTransit /\ Bytes[p] = cmd_buf[p-1]
         /\ \A k \in 1..Len(rx_fifo) : cmd_idx+k \in 1..InTransit /\ Bytes[cmd_idx+k] = rx_fifo[k]
         /\ \A k \in 1..Len(tx) : /\ cmd_idx+Len(rx_fifo)+k \in 1..InTransit
                                  /\ Bytes[cmd_idx+Len(rx_fifo)+k] = tx[k]
  BY DEF TypeOK, InTransit, Bytes, ByteInTransit, CMD_FRAME_LEN

LEMMA LinkInit == Init => LinkInv
  <1> SUFFICES ASSUME Init PROVE OnlyAskedFor /\ TagInv
    BY TypeInit DEF LinkInv
  <1>1. OnlyAskedFor
    BY DEF OnlyAskedFor, Init
  <1>2. InTransit = 0
    BY DEF Init, InTransit
  <1> PICK S : S = [p \in 1..0 |-> p]
    OBVIOUS
  <1>3. Tagged(Bytes, InTransit, S, S)
    BY <1>2 DEF Tagged
  <1>4. WholeFrames(InTransit, S)
    BY <1>2 DEF WholeFrames
  <1>5. Pending(InTransit, S, S, thresholds, wanted)
    BY <1>2 DEF Pending, Init
  <1> QED
    BY <1>1, <1>3, <1>4, <1>5 DEF TagInv

\* A step that keeps the bytes, the thresholds and what is wanted.
LEMMA TagSame ==
  ASSUME LinkInv, InTransit' = InTransit, \A p \in 1..InTransit : Bytes'[p] = Bytes[p],
         UNCHANGED <<thresholds, wanted, was_reset>>
  PROVE  OnlyAskedFor' /\ TagInv'
  <1>1. OnlyAskedFor'
    BY DEF LinkInv, OnlyAskedFor
  <1>2. PICK S, I : /\ Tagged(Bytes, InTransit, S, I)
                    /\ ~was_reset => WholeFrames(InTransit, I) /\ Pending(InTransit, S, I, thresholds, wanted)
    BY DEF LinkInv, TagInv
  <1>3. Tagged(Bytes', InTransit, S, I)
    BY <1>2 DEF Tagged
  <1> QED
    BY <1>1, <1>2, <1>3 DEF TagInv

\* A step after a reset that loses the first d bytes.
LEMMA TagLost ==
  ASSUME LinkInv, was_reset', NEW d \in 0..InTransit, InTransit' = InTransit - d,
         \A p \in 1..InTransit-d : Bytes'[p] = Bytes[p+d]
  PROVE  TagInv'
  <1>1. InTransit \in Nat
    BY ByteAt DEF LinkInv
  <1>2. PICK S, I : Tagged(Bytes, InTransit, S, I)
    BY DEF LinkInv, TagInv
  <1>3. Tagged(Bytes', InTransit', Drop(S, d, InTransit), Drop(I, d, InTransit))
    BY <1>1, <1>2, TagDrop
  <1> QED
    BY <1>3 DEF TagInv

\* A step that keeps the bytes, and one that loses the first d of them.
SameBytes == InTransit' = InTransit /\ \A p \in 1..InTransit : Bytes'[p] = Bytes[p]

LosesFirst(d) ==
  /\ d \in 0..InTransit /\ InTransit' = InTransit - d
  /\ \A p \in 1..InTransit-d : Bytes'[p] = Bytes[p+d]

\* A setting adds its frame at the end.
LEMMA SetBytes ==
  ASSUME LinkInv, NEW s \in Settings, AttrSet(s[1], s[2])
  PROVE  /\ InTransit \in Nat /\ InTransit' = InTransit + 5
         /\ \A p \in 1..InTransit : Bytes'[p] = Bytes[p]
         /\ \A p \in InTransit+1..InTransit+5 : Bytes'[p] = FrameByte(s, p-InTransit-1)
  <1> tx = <<>> /\ Len(tx') = 5 /\ UNCHANGED <<rx_fifo, cmd_buf, cmd_idx>>
    BY FrameSeq DEF AttrSet, nodeVars
  <1>1. InTransit \in Nat /\ InTransit = cmd_idx + Len(rx_fifo) /\ InTransit' = InTransit + 5
    BY ByteAt DEF LinkInv, InTransit
  <1>2. \A p \in 1..InTransit : Bytes'[p] = Bytes[p]
    BY <1>1, ByteAt DEF LinkInv, AttrSet, nodeVars, Bytes, ByteInTransit
  <1>3. \A p \in InTransit+1..InTransit+5 : Bytes'[p] = FrameByte(s, p-InTransit-1)
    <2>1. \A i \in 1..5 : tx'[i] = FrameByte(s, i-1)
      BY FrameSeq DEF AttrSet
    <2>2. cmd_idx \in Nat /\ Len(rx_fifo) \in Nat
      BY ByteAt DEF LinkInv
    <2>3. \A p \in InTransit+1..InTransit+5 : /\ p \in 1..InTransit' /\ ~(p <= cmd_idx)
                                              /\ ~(p <= cmd_idx + Len(rx_fifo))
                                              /\ p-cmd_idx-Len(rx_fifo) = p-InTransit
      BY <1>1, <2>2
    <2>4. \A p \in InTransit+1..InTransit+5 : Bytes'[p] = tx'[p-InTransit]
      BY <2>3 DEF Bytes, ByteInTransit
    <2> QED
      BY <1>1, <2>1, <2>4
  <1> QED
    BY <1>1, <1>2, <1>3

LEMMA SetStep ==
  ASSUME LinkInv, TypeOK', NEW s \in Settings, AttrSet(s[1], s[2])
  PROVE  OnlyAskedFor' /\ TagInv'
  <1>1. OnlyAskedFor'
    BY DEF LinkInv, OnlyAskedFor, AttrSet, nodeVars
  <1>2. PICK S, I : /\ Tagged(Bytes, InTransit, S, I)
                    /\ ~was_reset => WholeFrames(InTransit, I) /\ Pending(InTransit, S, I, thresholds, wanted)
    BY DEF LinkInv, TagInv
  <1>3. /\ InTransit \in Nat /\ InTransit' = InTransit + 5
        /\ \A p \in 1..InTransit : Bytes'[p] = Bytes[p]
        /\ \A p \in InTransit+1..InTransit+5 : Bytes'[p] = FrameByte(s, p-InTransit-1)
    BY SetBytes
  <1>4. Tagged(Bytes', InTransit+5, AddS(S, InTransit, s), AddI(I, InTransit))
    BY <1>2, <1>3, TagAdd
  <1>5. ~was_reset => /\ WholeFrames(InTransit+5, AddI(I, InTransit))
                      /\ Pending(InTransit+5, AddS(S, InTransit, s), AddI(I, InTransit), thresholds, wanted')
    BY <1>2, <1>3, WholeAdd, PendingAdd DEF LinkInv, TypeOK, AttrSet, Tagged
  <1> QED
    BY <1>1, <1>3, <1>4, <1>5 DEF TagInv, AttrSet, nodeVars

\* The wire.
LEMMA PollOutBytes ==
  ASSUME LinkInv, PollOut
  PROVE  SameBytes \/ (was_reset /\ LosesFirst(1))
  <1> UNCHANGED <<thresholds, wanted, was_reset, cmd_buf, cmd_idx>> /\ tx # <<>> /\ tx' = Tail(tx)
    BY DEF PollOut
  <1>1. /\ InTransit \in Nat /\ Len(rx_fifo) \in Nat /\ cmd_idx \in Nat /\ tx \in Seq(UInt8)
        /\ rx_fifo \in Seq(UInt8)
    BY ByteAt DEF LinkInv, TypeOK
  <1>2. Len(tx) \in Nat \ {0} /\ Len(tx') = Len(tx) - 1 /\ \A k \in 1..Len(tx') : tx'[k] = tx[k+1]
    BY <1>1
  <1>3. CASE node_up
    <2>1. rx_fifo' = Append(rx_fifo, Head(tx))
      BY <1>1, <1>2, <1>3, FifoAssumption DEF PollOut, LinkInv, FifoInv
    <2>2. /\ Len(rx_fifo') = Len(rx_fifo) + 1 /\ rx_fifo'[Len(rx_fifo) + 1] = tx[1]
          /\ \A k \in 1..Len(rx_fifo) : rx_fifo'[k] = rx_fifo[k]
      BY <1>1, <1>2, <2>1
    <2>3. InTransit' = InTransit
      BY <1>1, <1>2, <2>2 DEF InTransit
    <2>4. \A p \in 1..InTransit : Bytes'[p] = Bytes[p]
      BY <1>1, <1>2, <2>2, <2>3 DEF Bytes, ByteInTransit, InTransit
    <2> QED
      BY <2>3, <2>4 DEF SameBytes
  <1>4. CASE ~node_up
    <2>1. rx_fifo = <<>> /\ rx_fifo' = rx_fifo /\ cmd_idx = 0 /\ was_reset
      BY <1>4 DEF PollOut, LinkInv, FifoInv
    <2>2. InTransit' = InTransit - 1 /\ 1 \in 0..InTransit
      BY <1>2, <2>1 DEF InTransit
    <2>3. \A p \in 1..InTransit-1 : Bytes'[p] = Bytes[p+1]
      BY <1>1, <1>2, <2>1, <2>2 DEF Bytes, ByteInTransit, InTransit
    <2> QED
      BY <2>1, <2>2, <2>3 DEF LosesFirst
  <1> QED
    BY <1>3, <1>4

LEMMA PollOutStep ==
  ASSUME LinkInv, TypeOK', PollOut
  PROVE  OnlyAskedFor' /\ TagInv'
  <1>1. UNCHANGED <<thresholds, wanted, was_reset>>
    BY DEF PollOut
  <1>2. OnlyAskedFor'
    BY <1>1 DEF LinkInv, OnlyAskedFor
  <1> QED
    BY <1>1, <1>2, PollOutBytes, TagSame, TagLost DEF SameBytes, LosesFirst

\* Resets lose the bytes at one end.
LEMMA ResetSteps ==
  ASSUME LinkInv, TypeOK', NodeReset \/ BaseReset
  PROVE  OnlyAskedFor' /\ TagInv'
  <1>1. /\ InTransit \in Nat /\ Len(rx_fifo) \in Nat /\ cmd_idx \in Nat /\ Len(tx) \in Nat
    BY ByteAt DEF LinkInv
  <1>2. CASE NodeReset
    <2> cmd_idx' = 0 /\ rx_fifo' = <<>> /\ tx' = tx /\ thresholds' = InitThresholds /\ was_reset'
      BY <1>2 DEF NodeReset
    <2> DEFINE d == cmd_idx + Len(rx_fifo)
    <2>1. d \in 0..InTransit /\ InTransit' = InTransit - d /\ Len(rx_fifo') = 0
      BY <1>1 DEF InTransit
    <2>2. \A p \in 1..InTransit-d : Bytes'[p] = Bytes[p+d]
      <3> SUFFICES ASSUME NEW p \in 1..InTransit-d PROVE Bytes'[p] = Bytes[p+d]
        OBVIOUS
      <3>1. p \in 1..InTransit' /\ ~(p <= cmd_idx') /\ ~(p <= cmd_idx' + Len(rx_fifo'))
            /\ p - cmd_idx' - Len(rx_fifo') = p
        BY <1>1, <2>1
      <3>2. PICK e \in 1..InTransit : /\ e = p+d /\ e - cmd_idx - Len(rx_fifo) = p
                                   /\ ~(e <= cmd_idx) /\ ~(e <= cmd_idx + Len(rx_fifo))
        <4>1. /\ p+d \in 1..InTransit /\ (p+d) - cmd_idx - Len(rx_fifo) = p
              /\ ~(p+d <= cmd_idx) /\ ~(p+d <= cmd_idx + Len(rx_fifo))
          BY <1>1, <2>1
        <4> QED
          BY <4>1
      <3> HIDE DEF d
      <3>3. Bytes'[p] = tx'[p - cmd_idx' - Len(rx_fifo')]
        BY <3>1 DEF Bytes, ByteInTransit
      <3>4. Bytes[e] = tx[e - cmd_idx - Len(rx_fifo)]
        BY <3>2 DEF Bytes, ByteInTransit
      <3> QED
        BY <3>1, <3>2, <3>3, <3>4
    <2>3. OnlyAskedFor'
      BY DEF OnlyAskedFor
    <2> QED
      BY <2>1, <2>2, <2>3, TagLost
  <1>3. CASE BaseReset
    <2> tx' = <<>> /\ UNCHANGED <<rx_fifo, cmd_idx, cmd_buf, thresholds>> /\ was_reset'
      BY <1>3 DEF BaseReset, nodeVars
    <2>1. OnlyAskedFor'
      BY DEF LinkInv, OnlyAskedFor
    <2>2. InTransit' \in 0..InTransit /\ InTransit' = cmd_idx + Len(rx_fifo)
      BY <1>1 DEF InTransit
    <2>3. \A p \in 1..InTransit' : Bytes'[p] = Bytes[p]
      BY <1>1, <2>2 DEF Bytes, ByteInTransit
    <2>4. PICK S, I : Tagged(Bytes, InTransit, S, I)
      BY DEF LinkInv, TagInv
    <2>5. Tagged(Bytes', InTransit', Take(S, InTransit'), Take(I, InTransit'))
      BY <1>1, <2>2, <2>3, <2>4, TagTake
    <2> QED
      BY <2>1, <2>5 DEF TagInv
  <1> QED
    BY <1>2, <1>3

\* Five bytes have been stored; with an end marker they are a command.
CompletesFrame ==
  /\ InTransit >= 5 /\ LosesFirst(5) /\ Word(Bytes[3], Bytes[4]) \in UInt16
  /\ thresholds' = IF Bytes[5] = 102
                   THEN ApplyCommand(thresholds, Bytes[2], Word(Bytes[3], Bytes[4]))
                   ELSE thresholds

\* One byte read by poll_commands.
LEMMA PollByteBytes ==
  ASSUME LinkInv, PollByte
  PROVE  \/ SameBytes /\ thresholds' = thresholds
         \/ was_reset /\ LosesFirst(1) /\ thresholds' = thresholds
         \/ CompletesFrame
  <1> DEFINE b == Head(rx_fifo)
  <1> rx_fifo # <<>> /\ rx_fifo' = Tail(rx_fifo) /\ UNCHANGED <<tx, wanted, was_reset>>
    BY DEF PollByte
  <1>1. /\ InTransit \in Nat /\ Len(rx_fifo) \in Nat /\ cmd_idx \in 0..4 /\ Len(tx) \in Nat
        /\ rx_fifo \in Seq(UInt8)
    BY ByteAt DEF LinkInv, TypeOK
  <1>2. /\ Len(rx_fifo) > 0 /\ Len(rx_fifo') = Len(rx_fifo) - 1 /\ b = rx_fifo[1]
        /\ \A k \in 1..Len(rx_fifo') : rx_fifo'[k] = rx_fifo[k+1]
    BY <1>1
  <1>3. InTransit = cmd_idx + Len(rx_fifo) + Len(tx) /\ Bytes[cmd_idx+1] = b
        /\ \A p \in 1..cmd_idx : Bytes[p] = cmd_buf[p-1]
    BY <1>1, <1>2, ByteAt DEF LinkInv, InTransit
  <1>4. DOMAIN cmd_buf = 0..4
    BY DEF LinkInv, TypeOK, CMD_FRAME_LEN
  <1> HIDE DEF b
  <1>5. CASE Begin(b) \/ Store(b)
    <2>1. /\ thresholds' = thresholds /\ cmd_idx' = cmd_idx + 1
          /\ cmd_buf' = [cmd_buf EXCEPT ![cmd_idx] = b]
      BY <1>5 DEF Begin, Store, StoreBefore
    <2>2. InTransit' = InTransit
      BY <1>1, <1>2, <2>1 DEF InTransit
    <2>3. \A p \in 1..InTransit : Bytes'[p] = Bytes[p]
      <3> SUFFICES ASSUME NEW p \in 1..InTransit PROVE Bytes'[p] = Bytes[p]
        OBVIOUS
      <3>1. CASE p <= cmd_idx
        BY <1>1, <1>4, <2>1, <2>2, <3>1 DEF Bytes, ByteInTransit
      <3>2. CASE p = cmd_idx + 1
        <4>1. p-1 = cmd_idx /\ p <= cmd_idx'
          BY <1>1, <2>1, <3>2
        <4>2. Bytes'[p] = cmd_buf'[cmd_idx]
          BY <2>2, <4>1 DEF Bytes, ByteInTransit
        <4>3. cmd_buf'[cmd_idx] = b
          BY <1>1, <1>4, <2>1
        <4>4. Bytes[p] = b
          BY <1>3, <3>2
        <4> QED
          BY <4>2, <4>3, <4>4
      <3>3. CASE p > cmd_idx + 1 /\ p <= cmd_idx + Len(rx_fifo)
        <4> DEFINE k == p-cmd_idx-1
        <4>1. k \in 1..Len(rx_fifo') /\ p-cmd_idx' = k /\ p-cmd_idx = k+1
          BY <1>1, <1>2, <2>1, <3>3
        <4>2. ~(p <= cmd_idx) /\ ~(p <= cmd_idx') /\ p <= cmd_idx' + Len(rx_fifo')
          BY <1>1, <1>2, <2>1, <3>3
        <4> HIDE DEF k
        <4>3. Bytes'[p] = rx_fifo'[k]
          BY <2>2, <4>1, <4>2 DEF Bytes, ByteInTransit
        <4>4. Bytes[p] = rx_fifo[k+1]
          BY <3>3, <4>1, <4>2 DEF Bytes, ByteInTransit
        <4> QED
          BY <1>2, <4>1, <4>3, <4>4
      <3>4. CASE p > cmd_idx + Len(rx_fifo)
        BY <1>1, <1>2, <2>1, <2>2, <3>4 DEF Bytes, ByteInTransit
      <3> QED
        BY <1>1, <1>2, <3>1, <3>2, <3>3, <3>4
    <2> QED
      BY <2>1, <2>2, <2>3 DEF SameBytes
  <1>6. CASE Discard(b)
    <2>1. cmd_idx = 0 /\ cmd_idx' = 0 /\ b # 187 /\ thresholds' = thresholds
      BY <1>6 DEF Discard, CMD_START
    <2>2. InTransit' = InTransit - 1 /\ 1 \in 0..InTransit /\ InTransit > 0
      BY <1>1, <1>2, <2>1 DEF InTransit
    <2>3. \A p \in 1..InTransit-1 : Bytes'[p] = Bytes[p+1]
      BY <1>1, <1>2, <1>3, <2>1, <2>2 DEF Bytes, ByteInTransit
    <2>4. was_reset
      BY <1>1, <1>3, <2>1, <2>2, WholeFirst DEF LinkInv, TagInv
    <2> QED
      BY <2>1, <2>2, <2>3, <2>4 DEF LosesFirst
  <1>7. CASE Complete(b)
    <2>1. /\ cmd_idx = 4 /\ cmd_idx' = 0
          /\ thresholds' = IF b = 102 THEN ApplyCommand(thresholds, cmd_buf[1], Word(cmd_buf[2], cmd_buf[3]))
                           ELSE thresholds
      BY <1>1, <1>7 DEF Complete, CompleteAt, CMD_FRAME_LEN, CMD_END
    <2>2. InTransit' = InTransit - 5 /\ InTransit >= 5 /\ 5 \in 0..InTransit
      BY <1>1, <1>2, <2>1 DEF InTransit
    <2>3. \A p \in 1..InTransit-5 : Bytes'[p] = Bytes[p+5]
      BY <1>1, <1>2, <1>3, <2>1, <2>2 DEF Bytes, ByteInTransit
    <2>4. Bytes[5] = b /\ Bytes[2] = cmd_buf[1] /\ Bytes[3] = cmd_buf[2] /\ Bytes[4] = cmd_buf[3]
      BY <1>3, <2>1
    <2>5. Word(cmd_buf[2], cmd_buf[3]) \in UInt16
      BY WordType DEF LinkInv, TypeOK, CMD_FRAME_LEN
    <2> QED
      BY <2>1, <2>2, <2>3, <2>4, <2>5 DEF CompletesFrame, LosesFirst
  <1> QED
    BY <1>5, <1>6, <1>7 DEF PollByte, b

\* The command of setting s sets the threshold of its attribute to its meaning.
LEMMA FirstApplied ==
  ASSUME LinkInv, CompletesFrame, NEW s \in Settings,
         \A p \in 1..5 : Bytes[p] = FrameByte(s, p-1)
  PROVE  \A a \in Attributes :
           thresholds'[Field[a]] = IF a = s[1] THEN Meaning(s[1], s[2]) ELSE thresholds[Field[a]]
  <1>1. /\ Bytes[2] = FrameByte(s, 1) /\ Bytes[3] = FrameByte(s, 2) /\ Bytes[4] = FrameByte(s, 3)
        /\ Bytes[5] = FrameByte(s, 4)
    OBVIOUS
  <1>2. Word(Bytes[3], Bytes[4]) = Raw(s[1], s[2]) /\ Bytes[2] = Cmd[s[1]] /\ Bytes[5] = 102
    BY <1>1, FrameBytes, RawMeans, WordOfBytes DEF FrameByte
  <1>3. thresholds \in Thresholds /\ thresholds' = ApplyCommand(thresholds, Cmd[s[1]], Raw(s[1], s[2]))
    BY <1>2 DEF CompletesFrame, LinkInv, TypeOK
  <1> QED
    BY <1>3, ApplySetting

\* A frame that was cut short changes nothing: a start marker is where the
\* command's number belongs, or the end marker is missing.
LEMMA CutApplied ==
  ASSUME LinkInv, CompletesFrame, Bytes[5] # 102 \/ Bytes[2] = 187
  PROVE  \A a \in Attributes : thresholds'[Field[a]] = thresholds[Field[a]]
  <1>1. CASE Bytes[5] # 102
    BY <1>1 DEF CompletesFrame
  <1>2. CASE Bytes[5] = 102 /\ Bytes[2] = 187
    <2> DEFINE val == Word(Bytes[3], Bytes[4])
    <2>1. thresholds \in Thresholds /\ val \in UInt16 /\ thresholds' = ApplyCommand(thresholds, 187, val)
      BY <1>2 DEF CompletesFrame, LinkInv, TypeOK
    <2> HIDE DEF val
    <2> QED
      BY <2>1, ApplyFields DEF Attributes, Field
  <1> QED
    BY <1>1, <1>2

\* What is completed is the command of a setting or changes no threshold.
LEMMA WindowApplied ==
  ASSUME LinkInv, CompletesFrame
  PROVE  \/ \A a \in Attributes : thresholds'[Field[a]] = thresholds[Field[a]]
         \/ \E s \in Settings : \A a \in Attributes :
              thresholds'[Field[a]] = IF a = s[1] THEN Meaning(s[1], s[2]) ELSE thresholds[Field[a]]
  <1>1. PICK S, I : Tagged(Bytes, InTransit, S, I)
    BY DEF LinkInv, TagInv
  <1>2. InTransit \in Nat /\ InTransit >= 5 /\ \A p \in 1..5 : p \in 1..InTransit
    BY ByteAt DEF LinkInv, CompletesFrame
  <1>3. CASE Bytes[5] # 102 \/ Bytes[2] = 187
    BY <1>3, CutApplied
  <1>4. CASE \A p \in 1..5 : I[p] = p-1 /\ S[p] = S[1]
    <2>1. S[1] \in Settings /\ \A p \in 1..5 : Bytes[p] = FrameByte(S[1], p-1)
      BY <1>1, <1>2, <1>4 DEF Tagged
    <2> QED
      BY <2>1, FirstApplied
  <1> QED
    BY <1>1, <1>2, <1>3, <1>4, Window

LEMMA PollByteStep ==
  ASSUME LinkInv, TypeOK', PollByte
  PROVE  OnlyAskedFor' /\ TagInv'
  <1>1. UNCHANGED <<wanted, was_reset>>
    BY DEF PollByte
  <1>2. CASE SameBytes /\ thresholds' = thresholds
    BY <1>1, <1>2, TagSame DEF SameBytes
  <1>3. CASE was_reset /\ LosesFirst(1) /\ thresholds' = thresholds
    <2>1. OnlyAskedFor'
      BY <1>3 DEF LinkInv, OnlyAskedFor
    <2> QED
      BY <1>1, <1>3, <2>1, TagLost DEF LosesFirst
  <1>4. CASE CompletesFrame
    <2>1. OnlyAskedFor'
      BY <1>4, WindowApplied DEF LinkInv, OnlyAskedFor, AskedFor
    <2>2. PICK S, I : /\ Tagged(Bytes, InTransit, S, I)
                      /\ ~was_reset => WholeFrames(InTransit, I) /\ Pending(InTransit, S, I, thresholds, wanted)
      BY DEF LinkInv, TagInv
    <2>3. /\ InTransit \in Nat /\ InTransit >= 5 /\ 5 \in 0..InTransit /\ InTransit' = InTransit - 5
          /\ \A p \in 1..InTransit-5 : Bytes'[p] = Bytes[p+5]
      BY <1>4, ByteAt DEF LinkInv, CompletesFrame, LosesFirst
    <2>4. Tagged(Bytes', InTransit-5, Drop(S, 5, InTransit), Drop(I, 5, InTransit))
      BY <2>2, <2>3, TagDrop
    <2>5. ASSUME ~was_reset
          PROVE  /\ WholeFrames(InTransit-5, Drop(I, 5, InTransit))
                 /\ Pending(InTransit-5, Drop(S, 5, InTransit), Drop(I, 5, InTransit), thresholds', wanted)
      <3>1. I \in [1..InTransit -> 0..4] /\ S \in [1..InTransit -> Settings]
        BY <2>2 DEF Tagged
      <3>2. \A p \in 1..5 : I[p] = p-1 /\ S[p] = S[1]
        BY <2>2, <2>3, <2>5, WholeFirst
      <3>3. S[1] \in Settings /\ \A p \in 1..5 : Bytes[p] = FrameByte(S[1], p-1)
        BY <2>2, <2>3, <3>2 DEF Tagged
      <3>4. WholeFrames(InTransit-5, Drop(I, 5, InTransit))
        BY <2>2, <2>3, <2>5, <3>1, WholeDrop
      <3>5. \A a \in Attributes :
              thresholds'[Field[a]] =
                IF a = S[1][1] THEN Meaning(S[1][1], S[1][2]) ELSE thresholds[Field[a]]
        BY <1>4, <3>3, FirstApplied
      <3> QED
        BY <2>2, <2>3, <2>5, <3>2, <3>4, <3>5, PendingDrop
    <2> QED
      BY <1>1, <2>1, <2>3, <2>4, <2>5 DEF TagInv
  <1> QED
    BY <1>2, <1>3, <1>4, PollByteBytes

LEMMA LinkStep == LinkInv /\ [ResetNext]_vars => LinkInv'
  <1> SUFFICES ASSUME LinkInv, [ResetNext]_vars PROVE LinkInv'
    OBVIOUS
  <1>1. TypeOK' /\ FifoInv'
    BY TypeStep DEF LinkInv
  <1> SUFFICES OnlyAskedFor' /\ TagInv'
    BY <1>1 DEF LinkInv
  <1>2. ASSUME NEW s \in Settings, AttrSet(s[1], s[2]) PROVE OnlyAskedFor' /\ TagInv'
    BY <1>1, <1>2, SetStep
  <1>3. CASE StartPoll \/ EndPoll \/ NodeBoot \/ UNCHANGED vars
    <2>1. UNCHANGED <<tx, rx_fifo, cmd_buf, cmd_idx, thresholds, wanted, was_reset>>
      BY <1>3 DEF StartPoll, EndPoll, NodeBoot, vars, nodeVars
    <2>2. InTransit' = InTransit /\ Bytes' = Bytes
      BY <2>1 DEF InTransit, Bytes, ByteInTransit
    <2> QED
      BY <2>1, <2>2, TagSame
  <1> QED
    BY <1>1, <1>2, <1>3, PollOutStep, PollByteStep, ResetSteps
       DEF ResetNext, NodeResetNext, Set, Work

THEOREM LinkInvariant == ResetSpec => []LinkInv
  BY LinkInit, LinkStep, PTL DEF ResetSpec

\* No threshold ever has a value nobody asked for, wherever in a command either
\* node is reset.
THEOREM NothingUnasked == ResetSpec => []OnlyAskedFor
  <1>1. LinkInv => OnlyAskedFor
    BY DEF LinkInv
  <1> QED
    BY <1>1, LinkInvariant, PTL

\* Without resets a quiet link means that every setting has been applied.
THEOREM QuietIsApplied == ResetSpec => []QuietMeansApplied
  <1>1. LinkInv => QuietMeansApplied
    <2> SUFFICES ASSUME LinkInv, ~was_reset, tx = <<>>, rx_fifo = <<>>, NEW a \in Attributes
                 PROVE  Applied(a)
      BY DEF QuietMeansApplied
    <2>1. PICK S, I : /\ Tagged(Bytes, InTransit, S, I) /\ WholeFrames(InTransit, I)
                      /\ Pending(InTransit, S, I, thresholds, wanted)
      BY DEF LinkInv, TagInv
    <2>2. InTransit \in Nat /\ InTransit < 5
      BY ByteAt DEF LinkInv, InTransit
    <2>3. ASSUME InTransit > 0 PROVE InTransit >= 5
      <3> DEFINE n == InTransit
                 B == Bytes
      <3>1. n \in Nat /\ n > 0 /\ Tagged(B, n, S, I) /\ WholeFrames(n, I)
        BY <2>1, <2>2, <2>3
      <3> HIDE DEF n, B
      <3>2. n >= 5
        BY <3>1, WholeFirst
      <3> QED
        BY <3>2 DEF n
    <2>4. InTransit = 0
      BY <2>2, <2>3
    <2> QED
      BY <2>1, <2>4 DEF Pending, Applied
  <1> QED
    BY <1>1, LinkInvariant, PTL

---------------------------------------------------------------------------
(* The refinement: the frames in transit are the queue of settings.        *)

\* A frame's bytes are read as the setting it was made of.
LEMMA FrameIsSetting ==
  ASSUME NEW s \in Settings
  PROVE  SettingOf(FrameByte(s, 1), FrameByte(s, 2), FrameByte(s, 3)) = <<s[1], Meaning(s[1], s[2])>>
  <1>1. s[1] \in Attributes
    BY SettingsAssumption
  <1>2. \A a, c \in Attributes : Cmd[a] = Cmd[c] => a = c
    BY DEF Attributes, Cmd
  <1>3. AttributeOf(Cmd[s[1]]) = s[1]
    BY <1>1, <1>2 DEF AttributeOf
  <1>4. FrameByte(s, 1) = Cmd[s[1]] /\ Word(FrameByte(s, 2), FrameByte(s, 3)) = Raw(s[1], s[2])
    BY FrameBytes, RawMeans, WordOfBytes DEF FrameByte
  <1> QED
    BY <1>3, <1>4, RawMeans DEF SettingOf

\* The queue of settings, by the bytes.
Queue(B, n) == [k \in 1..n \div 5 |-> SettingOf(B[5*k-3], B[5*k-2], B[5*k-1])]

LEMMA QueueIndex ==
  ASSUME NEW n \in Nat, NEW k \in 1..n \div 5
  PROVE  5*k-3 \in 1..n /\ 5*k-2 \in 1..n /\ 5*k-1 \in 1..n
  OBVIOUS

LEMMA CommandsAre ==
  /\ InTransit \in Nat => Commands = Queue(Bytes, InTransit)
  /\ InTransit' \in Nat => Commands' = Queue(Bytes', InTransit')
  <1>1. ASSUME InTransit \in Nat PROVE Commands = Queue(Bytes, InTransit)
    <2>1. \A p \in 1..InTransit : Bytes[p] = ByteInTransit(p)
      BY DEF Bytes
    <2> QED
      BY <1>1, <2>1, QueueIndex DEF Commands, Queue
  <1>2. ASSUME InTransit' \in Nat PROVE Commands' = Queue(Bytes', InTransit')
    <2>1. \A p \in 1..InTransit' : Bytes'[p] = ByteInTransit(p)'
      BY DEF Bytes
    <2> QED
      BY <1>2, <2>1, QueueIndex DEF Commands, Queue
  <1> QED
    BY <1>1, <1>2

\* A queue is a sequence, and sequences with the same elements are equal.
LEMMA QueueSeq ==
  ASSUME NEW B, NEW n \in Nat
  PROVE  \E T : /\ Queue(B, n) \in Seq(T) /\ Len(Queue(B, n)) = n \div 5
               /\ \A k \in 1..n \div 5 :
                    Queue(B, n)[k] = SettingOf(B[5*k-3], B[5*k-2], B[5*k-1])
  <1> DEFINE Q == Queue(B, n)
             T == {Q[k] : k \in 1..n \div 5}
  <1>1. n \div 5 \in Nat
    OBVIOUS
  <1>2. /\ Q = [k \in 1..n \div 5 |-> Q[k]]
        /\ \A k \in 1..n \div 5 : Q[k] = SettingOf(B[5*k-3], B[5*k-2], B[5*k-1])
    BY DEF Queue
  <1> HIDE DEF Q
  <1>3. Q \in [1..n \div 5 -> T]
    BY <1>2
  <1>4. Q \in Seq(T) /\ Len(Q) = n \div 5
    BY <1>1, <1>3
  <1> QED
    BY <1>2, <1>4 DEF Q

LEMMA QueueSame ==
  ASSUME NEW n \in Nat, NEW B, NEW C, \A p \in 1..n : C[p] = B[p]
  PROVE  Queue(C, n) = Queue(B, n)
  BY QueueIndex DEF Queue

LEMMA QueueAdd ==
  ASSUME NEW n \in Nat, n % 5 = 0, NEW B, NEW C, \A p \in 1..n : C[p] = B[p],
         NEW s \in Settings, \A p \in n+1..n+5 : C[p] = FrameByte(s, p-n-1)
  PROVE  Queue(C, n+5) = Append(Queue(B, n), <<s[1], Meaning(s[1], s[2])>>)
  <1> DEFINE x == <<s[1], Meaning(s[1], s[2])>>
  <1>1. PICK m \in Nat : m = n \div 5 /\ n = 5*m /\ (n+5) \div 5 = m+1
    <2>1. n \div 5 \in Nat /\ n = 5*(n \div 5) /\ (n+5) \div 5 = (n \div 5) + 1
      OBVIOUS
    <2> QED
      BY <2>1
  <1>2. \A k \in 1..m : Queue(C, n+5)[k] = Queue(B, n)[k]
    <2> SUFFICES ASSUME NEW k \in 1..m PROVE Queue(C, n+5)[k] = Queue(B, n)[k]
      OBVIOUS
    <2>1. k \in 1..n \div 5 /\ k \in 1..(n+5) \div 5
      BY <1>1
    <2>2. C[5*k-3] = B[5*k-3] /\ C[5*k-2] = B[5*k-2] /\ C[5*k-1] = B[5*k-1]
      BY <2>1, QueueIndex
    <2> QED
      BY <2>1, <2>2 DEF Queue
  <1>3. Queue(C, n+5)[m+1] = x
    <2>1. /\ 5*(m+1)-3 = n+2 /\ 5*(m+1)-2 = n+3 /\ 5*(m+1)-1 = n+4 /\ m+1 \in 1..(n+5) \div 5
          /\ n+2 \in n+1..n+5 /\ n+3 \in n+1..n+5 /\ n+4 \in n+1..n+5
          /\ n+2-n-1 = 1 /\ n+3-n-1 = 2 /\ n+4-n-1 = 3
      BY <1>1
    <2>2. C[n+2] = FrameByte(s, 1) /\ C[n+3] = FrameByte(s, 2) /\ C[n+4] = FrameByte(s, 3)
      BY <2>1
    <2>3. Queue(C, n+5)[m+1] = SettingOf(C[n+2], C[n+3], C[n+4])
      BY <2>1 DEF Queue
    <2> QED
      BY <2>2, <2>3, FrameIsSetting
  <1> HIDE DEF x
  <1>4. PICK T : Queue(B, n) \in Seq(T) /\ Len(Queue(B, n)) = m
    BY <1>1, QueueSeq
  <1>5. PICK U : Queue(C, n+5) \in Seq(U) /\ Len(Queue(C, n+5)) = m+1
    <2>1. PICK e \in Nat : e = n+5
      OBVIOUS
    <2>2. \E U : Queue(C, e) \in Seq(U) /\ Len(Queue(C, e)) = e \div 5
      BY QueueSeq
    <2> QED
      BY <1>1, <2>1, <2>2
  <1> DEFINE Q == Queue(B, n)
             R == Queue(C, n+5)
  <1> HIDE DEF Q, R
  <1>6. /\ Q \in Seq(T \cup U \cup {x}) /\ R \in Seq(T \cup U \cup {x})
        /\ Len(Q) = m /\ Len(R) = m+1 /\ R[m+1] = x /\ \A k \in 1..m : R[k] = Q[k]
    BY <1>2, <1>3, <1>4, <1>5 DEF Q, R
  <1>7. R = Append(Q, x)
    <2> DEFINE V == T \cup U \cup {x}
    <2>1. x \in V
      OBVIOUS
    <2> HIDE DEF V
    <2>2. /\ Append(Q, x) \in Seq(V) /\ Len(Append(Q, x)) = m+1
          /\ Append(Q, x)[m+1] = x /\ \A k \in 1..m : Append(Q, x)[k] = Q[k]
      BY <1>6, <2>1, AppendProperties DEF V
    <2>3. \A k \in 1..m+1 : k \in 1..m \/ k = m+1
      OBVIOUS
    <2>4. \A k \in 1..m+1 : R[k] = Append(Q, x)[k]
      BY <1>6, <2>2, <2>3
    <2> QED
      BY <1>6, <2>2, <2>4, SeqEqual DEF V
  <1> QED
    BY <1>7 DEF Q, R, x

LEMMA QueueDrop ==
  ASSUME NEW n \in Nat, n % 5 = 0, n >= 5, NEW B, NEW C, \A p \in 1..n-5 : C[p] = B[p+5],
         NEW s \in Settings, \A p \in 1..5 : B[p] = FrameByte(s, p-1)
  PROVE  /\ Queue(B, n) # <<>> /\ Head(Queue(B, n)) = <<s[1], Meaning(s[1], s[2])>>
         /\ Queue(C, n-5) = Tail(Queue(B, n))
  <1> DEFINE x == <<s[1], Meaning(s[1], s[2])>>
             Q == Queue(B, n)
             R == Queue(C, n-5)
  <1>1. PICK m \in Nat : m+1 = n \div 5 /\ n = 5*m+5 /\ (n-5) \div 5 = m
    <2>1. (n-5) \div 5 \in Nat /\ n = 5*((n-5) \div 5) + 5 /\ ((n-5) \div 5) + 1 = n \div 5
      OBVIOUS
    <2> QED
      BY <2>1
  <1>2. Q[1] = x
    <2>1. 1 \in 1..n \div 5 /\ 5*1-3 = 2 /\ 5*1-2 = 3 /\ 5*1-1 = 4
      BY <1>1
    <2>2. B[2] = FrameByte(s, 1) /\ B[3] = FrameByte(s, 2) /\ B[4] = FrameByte(s, 3)
      OBVIOUS
    <2>3. Q[1] = SettingOf(B[2], B[3], B[4])
      BY <2>1 DEF Queue
    <2> QED
      BY <2>2, <2>3, FrameIsSetting
  <1>3. \A k \in 1..m : R[k] = Q[k+1]
    <2> SUFFICES ASSUME NEW k \in 1..m PROVE R[k] = Q[k+1]
      OBVIOUS
    <2>1. /\ k \in 1..(n-5) \div 5 /\ k+1 \in 1..n \div 5
          /\ 5*k-3 \in 1..n-5 /\ 5*k-2 \in 1..n-5 /\ 5*k-1 \in 1..n-5
          /\ 5*(k+1)-3 = (5*k-3)+5 /\ 5*(k+1)-2 = (5*k-2)+5 /\ 5*(k+1)-1 = (5*k-1)+5
      BY <1>1
    <2>2. C[5*k-3] = B[5*(k+1)-3] /\ C[5*k-2] = B[5*(k+1)-2] /\ C[5*k-1] = B[5*(k+1)-1]
      BY <2>1
    <2> QED
      BY <2>1, <2>2 DEF Queue
  <1>4. PICK T : Q \in Seq(T) /\ Len(Q) = m+1
    BY <1>1, QueueSeq
  <1>5. PICK U : R \in Seq(U) /\ Len(R) = m
    <2>1. PICK e \in Nat : e = n-5
      OBVIOUS
    <2>2. \E U : Queue(C, e) \in Seq(U) /\ Len(Queue(C, e)) = e \div 5
      BY QueueSeq
    <2> QED
      BY <1>1, <2>1, <2>2
  <1> HIDE DEF Q, R, x
  <1>6. Q # <<>> /\ Head(Q) = x
    BY <1>2, <1>4
  <1>7. R = Tail(Q)
    <2> DEFINE V == T \cup U
    <2>1. Q \in Seq(V) /\ R \in Seq(V)
      BY <1>4, <1>5
    <2> HIDE DEF V
    <2>2. /\ Tail(Q) \in Seq(V) /\ Len(Tail(Q)) = m
          /\ \A k \in 1..m : Tail(Q)[k] = Q[k+1]
      BY <1>4, <1>6, <2>1, HeadTailProperties
    <2>3. \A k \in 1..m : R[k] = Tail(Q)[k]
      BY <1>3, <2>2
    <2> QED
      BY <1>5, <2>1, <2>2, <2>3, SeqEqual
  <1> QED
    BY <1>6, <1>7 DEF Q, R, x

\* What the abstract variables do in the steps that the channel does not see.
LEMMA ChannelSame ==
  ASSUME LinkInv, UNCHANGED <<thresholds, was_reset>>, SameBytes \/ was_reset
  PROVE  UNCHANGED Channel!vars
  <1>1. InTransit \in Nat
    BY ByteAt DEF LinkInv
  <1>2. CASE was_reset
    BY <1>2 DEF Channel!vars
  <1>3. CASE SameBytes
    <2>1. Queue(Bytes', InTransit) = Queue(Bytes, InTransit) /\ InTransit' = InTransit
      BY <1>1, <1>3, QueueSame DEF SameBytes
    <2>2. Commands' = Commands
      BY <1>1, <2>1, CommandsAre
    <2> QED
      BY <2>2 DEF Channel!vars
  <1> QED
    BY <1>2, <1>3

\* An attr_set joins the queue.
LEMMA SetIsAsk ==
  ASSUME LinkInv, NEW s \in Settings, AttrSet(s[1], s[2])
  PROVE  [Channel!Next]_(Channel!vars)
  <1>1. UNCHANGED <<thresholds, was_reset>>
    BY DEF AttrSet, nodeVars
  <1>2. CASE was_reset
    BY <1>1, <1>2, ChannelSame
  <1>3. CASE ~was_reset
    <2>1. InTransit % 5 = 0
      BY <1>3 DEF LinkInv, TagInv, WholeFrames
    <2>2. /\ InTransit \in Nat /\ InTransit' = InTransit + 5
          /\ Queue(Bytes', InTransit + 5) = Append(Queue(Bytes, InTransit), <<s[1], Meaning(s[1], s[2])>>)
      <3> DEFINE n == InTransit
                 B == Bytes
                 C == Bytes'
      <3>1. /\ n \in Nat /\ n % 5 = 0 /\ InTransit' = n + 5 /\ \A p \in 1..n : C[p] = B[p]
            /\ \A p \in n+1..n+5 : C[p] = FrameByte(s, p-n-1)
        BY <2>1, SetBytes
      <3> HIDE DEF n, B, C
      <3>2. Queue(C, n+5) = Append(Queue(B, n), <<s[1], Meaning(s[1], s[2])>>)
        BY <3>1, QueueAdd
      <3> QED
        BY <3>1, <3>2 DEF n, B, C
    <2>3. Commands' = Append(Commands, <<s[1], Meaning(s[1], s[2])>>)
      BY <2>2, CommandsAre
    <2>4. s[1] \in Attributes /\ Meaning(s[1], s[2]) \in AskedFor(s[1])
      BY SettingsAssumption DEF AskedFor
    <2>5. Channel!Ask(s[1], Meaning(s[1], s[2]))
      BY <1>1, <1>3, <2>3 DEF Channel!Ask
    <2> QED
      BY <2>4, <2>5 DEF Channel!Next
  <1> QED
    BY <1>2, <1>3

\* A command that is completed leaves the queue, and is applied; after a reset
\* it changes one threshold, or none.
LEMMA CompleteIsApply ==
  ASSUME LinkInv, CompletesFrame, UNCHANGED was_reset
  PROVE  [Channel!Next]_(Channel!vars)
  <1> DEFINE Sets(s) == \A a \in Attributes :
               thresholds'[Field[a]] = IF a = s[1] THEN Meaning(s[1], s[2]) ELSE thresholds[Field[a]]
             applied == [a \in Attributes |-> thresholds[Field[a]]]
  <1>1. ASSUME NEW s \in Settings, Sets(s)
        PROVE  applied' = [applied EXCEPT ![s[1]] = Meaning(s[1], s[2])]
    BY <1>1
  <1>2. CASE was_reset
    <2>1. CASE \A a \in Attributes : thresholds'[Field[a]] = thresholds[Field[a]]
      BY <1>2, <2>1 DEF Channel!vars
    <2>2. ASSUME NEW s \in Settings, Sets(s)
          PROVE  Channel!Next
      <3>1. s[1] \in Attributes /\ Meaning(s[1], s[2]) \in AskedFor(s[1])
        BY SettingsAssumption DEF AskedFor
      <3>2. Channel!ApplyLate(s[1], Meaning(s[1], s[2]))
        BY <1>1, <1>2, <2>2 DEF Channel!ApplyLate
      <3> QED
        BY <3>1, <3>2 DEF Channel!Next
    <2> QED
      BY <2>1, <2>2, WindowApplied
  <1>3. CASE ~was_reset
    <2>1. PICK S, I : Tagged(Bytes, InTransit, S, I) /\ WholeFrames(InTransit, I)
      BY <1>3 DEF LinkInv, TagInv
    <2>2. /\ InTransit \in Nat /\ InTransit >= 5 /\ InTransit % 5 = 0 /\ InTransit' = InTransit - 5
          /\ \A p \in 1..InTransit-5 : Bytes'[p] = Bytes[p+5]
      BY <2>1, ByteAt DEF LinkInv, CompletesFrame, LosesFirst, WholeFrames
    <2>3. \A p \in 1..5 : I[p] = p-1 /\ S[p] = S[1]
      <3> DEFINE n == InTransit
                 B == Bytes
      <3>1. n \in Nat /\ n > 0 /\ Tagged(B, n, S, I) /\ WholeFrames(n, I)
        BY <2>1, <2>2
      <3> HIDE DEF n, B
      <3>2. /\ n >= 5 /\ B[1] = 187 /\ B[5] = 102
            /\ \A p \in 1..5 : I[p] = p-1 /\ S[p] = S[1]
        BY <3>1, WholeFirst
      <3> QED
        BY <3>2
    <2>4. PICK s \in Settings : \A p \in 1..5 : Bytes[p] = FrameByte(s, p-1)
      <3>1. S[1] \in Settings /\ \A p \in 1..5 : Bytes[p] = FrameByte(S[1], p-1)
        BY <2>1, <2>2, <2>3 DEF Tagged
      <3> QED
        BY <3>1
    <2>5. /\ Queue(Bytes, InTransit) # <<>>
          /\ Head(Queue(Bytes, InTransit)) = <<s[1], Meaning(s[1], s[2])>>
          /\ Queue(Bytes', InTransit - 5) = Tail(Queue(Bytes, InTransit))
      <3> DEFINE n == InTransit
                 B == Bytes
                 C == Bytes'
      <3>1. /\ n \in Nat /\ n % 5 = 0 /\ n >= 5 /\ \A p \in 1..n-5 : C[p] = B[p+5]
            /\ \A p \in 1..5 : B[p] = FrameByte(s, p-1)
        BY <2>2, <2>4
      <3> HIDE DEF n, B, C
      <3>2. /\ Queue(B, n) # <<>> /\ Head(Queue(B, n)) = <<s[1], Meaning(s[1], s[2])>>
            /\ Queue(C, n-5) = Tail(Queue(B, n))
        BY <3>1, QueueDrop
      <3> QED
        BY <3>2 DEF n, B, C
    <2>6. /\ Commands # <<>> /\ Head(Commands) = <<s[1], Meaning(s[1], s[2])>>
          /\ Commands' = Tail(Commands)
      BY <2>2, <2>5, CommandsAre
    <2>7. applied' = [applied EXCEPT ![s[1]] = Meaning(s[1], s[2])]
      BY <1>1, <2>4, FirstApplied
    <2>8. Channel!Apply
      <3> DEFINE queue == IF was_reset THEN <<>> ELSE Commands
      <3>1. queue = Commands /\ queue' = Commands' /\ was_reset' = was_reset
        BY <1>3
      <3>2. Head(queue) = <<s[1], Meaning(s[1], s[2])>> /\ queue # <<>> /\ queue' = Tail(queue)
        BY <2>6, <3>1
      <3> HIDE DEF queue, applied
      <3>3. Head(queue)[1] = s[1] /\ Head(queue)[2] = Meaning(s[1], s[2])
        BY <3>2
      <3>4. applied' = [applied EXCEPT ![Head(queue)[1]] = Head(queue)[2]]
        BY <2>7, <3>3
      <3> QED
        BY <1>3, <3>1, <3>2, <3>4, Zenon DEF Channel!Apply, queue, applied
    <2> QED
      BY <2>8 DEF Channel!Next
  <1> QED
    BY <1>2, <1>3

\* A reset empties the queue for good.
LEMMA ResetIsReset ==
  ASSUME NodeReset \/ BaseReset
  PROVE  Channel!Reset
  <1>1. was_reset' = TRUE /\ (thresholds' = thresholds \/ thresholds' = InitThresholds)
    BY DEF NodeReset, BaseReset, nodeVars
  <1> QED
    BY <1>1 DEF Channel!Reset

LEMMA StepIsChannelStep ==
  ASSUME LinkInv, [ResetNext]_vars
  PROVE  [Channel!Next]_(Channel!vars)
  <1>1. ASSUME NEW s \in Settings, AttrSet(s[1], s[2]) PROVE [Channel!Next]_(Channel!vars)
    BY <1>1, SetIsAsk
  <1>2. CASE PollOut
    <2>1. UNCHANGED <<thresholds, was_reset>>
      BY <1>2 DEF PollOut
    <2> QED
      BY <1>2, <2>1, PollOutBytes, ChannelSame
  <1>3. CASE PollByte
    <2>1. UNCHANGED was_reset
      BY <1>3 DEF PollByte
    <2> QED
      BY <1>3, <2>1, PollByteBytes, ChannelSame, CompleteIsApply
  <1>4. CASE NodeReset \/ BaseReset
    BY <1>4, ResetIsReset DEF Channel!Next
  <1>5. CASE StartPoll \/ EndPoll \/ NodeBoot \/ UNCHANGED vars
    <2>1. UNCHANGED <<tx, rx_fifo, cmd_buf, cmd_idx, thresholds, was_reset>>
      BY <1>5 DEF StartPoll, EndPoll, NodeBoot, vars, nodeVars
    <2>2. SameBytes
      BY <2>1 DEF SameBytes, InTransit, Bytes, ByteInTransit
    <2> QED
      BY <2>1, <2>2, ChannelSame
  <1> QED
    BY <1>1, <1>2, <1>3, <1>4, <1>5 DEF ResetNext, NodeResetNext, Set, Work

\* Wherever the nodes are reset, every step of the link is a step of the queue of
\* settings or none: until the first reset each attr_set is applied exactly once,
\* in order and as meant; later no threshold changes but to a value asked for it.
THEOREM LinkIsSettingChannel == ResetSpec => ImplementsChannel
  <1>1. Init => Channel!Init
    <2> SUFFICES ASSUME Init PROVE Channel!Init
      OBVIOUS
    <2>1. Commands = <<>>
      BY DEF Init, Commands, InTransit
    <2> QED
      BY <2>1 DEF Init, Channel!Init
  <1> QED
    BY <1>1, StepIsChannelStep, LinkInvariant, PTL
       DEF ResetSpec, ImplementsChannel, Channel!Spec

=============================================================================
