----------------------------- MODULE RxRingProofs ----------------------------
(***************************************************************************)
(* The receive ring for every number of frames and of packets: one owner   *)
(* per frame, no packet lost from the statistics, and the refinement of    *)
(* BoundedFifo.                                                            *)
(***************************************************************************)
EXTENDS RxRing, SequenceTheorems, TLAPS

\* A step of at most one round wraps around at most once.
LEMMA Wrap ==
    ASSUME NEW i \in FrameIds, NEW k \in 0 .. RX_FRAME_NR
    PROVE  (i + k) % RX_FRAME_NR =
               IF i + k < RX_FRAME_NR THEN i + k ELSE i + k - RX_FRAME_NR
<1>1. RX_FRAME_NR \in Nat /\ RX_FRAME_NR > 0
  BY RxFrameNrAssumption
<1>2. CASE i + k < RX_FRAME_NR
  BY <1>1, <1>2 DEF FrameIds
<1>3. CASE i + k >= RX_FRAME_NR
  <2>1. i + k - RX_FRAME_NR \in 0 .. RX_FRAME_NR - 1
    BY <1>1, <1>3 DEF FrameIds
  <2>2. i + k = 1 * RX_FRAME_NR + (i + k - RX_FRAME_NR)
    BY <1>1 DEF FrameIds
  <2> QED BY <1>1, <1>3, <2>1, <2>2 DEF FrameIds
<1> QED BY <1>1, <1>2, <1>3 DEF FrameIds

\* The frame after frame i.
LEMMA NextFrame ==
    ASSUME NEW i \in FrameIds
    PROVE  /\ (i + 1) % RX_FRAME_NR \in FrameIds
           /\ (i + 1) % RX_FRAME_NR = IF i + 1 = RX_FRAME_NR THEN 0 ELSE i + 1
<1>1. RX_FRAME_NR \in Nat /\ RX_FRAME_NR > 0 /\ 1 \in 0 .. RX_FRAME_NR
  BY RxFrameNrAssumption
<1>2. (i + 1) % RX_FRAME_NR = IF i + 1 < RX_FRAME_NR THEN i + 1 ELSE i + 1 - RX_FRAME_NR
  BY <1>1, Wrap
<1> QED BY <1>1, <1>2 DEF FrameIds

\* The frames pending in terms of the two indices.
LEMMA PendingBounds ==
    ASSUME IInv
    PROVE  /\ NumPending \in 0 .. RX_FRAME_NR
           /\ tp_status[frame_idx] = "KERNEL" =>
                 NumPending = Dist(curr_frame_idx_, frame_idx) /\ NumPending < RX_FRAME_NR
           /\ tp_status[frame_idx] = "USER" =>
                 NumPending = RX_FRAME_NR /\ frame_idx = curr_frame_idx_
           /\ tp_status[curr_frame_idx_] = "USER" => NumPending > 0
           /\ NumPending > 0 => tp_status[curr_frame_idx_] = "USER"
<1>1. /\ tp_status \in [FrameIds -> {"KERNEL", "USER"}]
      /\ frame_idx \in FrameIds /\ curr_frame_idx_ \in FrameIds
      /\ RX_FRAME_NR \in Nat /\ RX_FRAME_NR > 0
  BY RxFrameNrAssumption DEF IInv, TypeOK
<1>2. Dist(curr_frame_idx_, frame_idx) \in 0 .. RX_FRAME_NR - 1
      /\ Dist(curr_frame_idx_, curr_frame_idx_) = 0
  BY <1>1 DEF Dist, FrameIds
<1> QED BY <1>1, <1>2 DEF IInv, StatusMarksStretch, NumPending

\* Releasing a frame lengthens the stretch by that frame.
LEMMA ReleaseAdds ==
    ASSUME IInv, release_frame
    PROVE  /\ NumPending' = NumPending + 1 /\ StatusMarksStretch'
           /\ NumPending < RX_FRAME_NR /\ NumPending = Dist(curr_frame_idx_, frame_idx)
<1> DEFINE n == NumPending
           N == RX_FRAME_NR
           c == curr_frame_idx_
           w == frame_idx
           x == frame_idx'
<1>1. /\ tp_status \in [FrameIds -> {"KERNEL", "USER"}] /\ w \in FrameIds /\ c \in FrameIds
      /\ N \in Nat /\ N > 0
  BY RxFrameNrAssumption DEF IInv, TypeOK
<1>2. /\ tp_status[w] = "KERNEL" /\ tp_status' = [tp_status EXCEPT ![w] = "USER"]
      /\ c' = c /\ x = (w + 1) % N
  BY DEF release_frame, IInv, WriterHoldsFrame, readerVars
<1>3. n = Dist(c, w) /\ n < N /\ n \in Nat
  BY <1>1, <1>2, PendingBounds
<1>4. x \in FrameIds /\ x = IF w + 1 = N THEN 0 ELSE w + 1
  BY <1>1, <1>2, NextFrame
<1>5. \A i \in FrameIds : tp_status[i] = "USER" <=> Dist(c, i) < n
  BY DEF IInv, StatusMarksStretch
<1>6. \A i \in FrameIds : /\ Dist(c, i) \in 0 .. N - 1 /\ (Dist(c, i) = n <=> i = w)
                          /\ tp_status'[i] = IF i = w THEN "USER" ELSE tp_status[i]
  BY <1>1, <1>2, <1>3 DEF Dist, FrameIds
<1>7. IF x = c THEN n = N - 1 /\ Dist(c, x) = 0 ELSE Dist(c, x) = n + 1
  BY <1>1, <1>3, <1>4 DEF Dist, FrameIds
<1> HIDE DEF n, N, c, w, x
<1>8. \A i \in FrameIds : tp_status'[i] = "USER" <=> Dist(c, i) < n + 1
  BY <1>3, <1>5, <1>6
<1>9. tp_status'[x] = "USER" => x = c
  BY <1>3, <1>4, <1>7, <1>8
<1>10. tp_status'[x] = "USER" <=> x = c
  BY <1>3, <1>4, <1>7, <1>8, <1>9
<1>11. n + 1 = IF tp_status'[x] = "USER" THEN N ELSE Dist(c, x)
  BY <1>1, <1>3, <1>7, <1>10
<1>12. NumPending' = n + 1
  BY <1>2, <1>11 DEF NumPending, Dist, n, N, c, w, x
<1>13. StatusMarksStretch'
  BY <1>2, <1>8, <1>9, <1>12 DEF StatusMarksStretch, Dist, c, x, N
<1> QED BY <1>3, <1>12, <1>13 DEF n, c, w, N

\* Returning a frame shortens it at the other end.
LEMMA ReturnTakes ==
    ASSUME IInv, return_frame
    PROVE  NumPending' = NumPending - 1 /\ StatusMarksStretch' /\ NumPending > 0
<1> DEFINE n == NumPending
           N == RX_FRAME_NR
           c == curr_frame_idx_
           w == frame_idx
           x == curr_frame_idx_'
<1>1. /\ tp_status \in [FrameIds -> {"KERNEL", "USER"}] /\ w \in FrameIds /\ c \in FrameIds
      /\ N \in Nat /\ N > 0
  BY RxFrameNrAssumption DEF IInv, TypeOK
<1>2. /\ tp_status[c] = "USER" /\ tp_status' = [tp_status EXCEPT ![c] = "KERNEL"]
      /\ w' = w /\ x = (c + 1) % N
  BY DEF return_frame, IInv, ReaderHoldsFrame, writerVars
<1>3. /\ n \in 1 .. N
      /\ tp_status[w] = "USER" => n = N /\ w = c
      /\ tp_status[w] = "KERNEL" => n = Dist(c, w) /\ w # c
  BY <1>1, <1>2, PendingBounds
<1>4. x \in FrameIds /\ x = IF c + 1 = N THEN 0 ELSE c + 1
  BY <1>1, <1>2, NextFrame
<1>5. \A i \in FrameIds : tp_status[i] = "USER" <=> Dist(c, i) < n
  BY DEF IInv, StatusMarksStretch
<1>6. \A i \in FrameIds : /\ Dist(c, i) \in 0 .. N - 1
                          /\ Dist(x, i) = IF i = c THEN N - 1 ELSE Dist(c, i) - 1
                          /\ tp_status'[i] = IF i = c THEN "KERNEL" ELSE tp_status[i]
  BY <1>1, <1>2, <1>4 DEF Dist, FrameIds
<1>7. tp_status[w] \in {"KERNEL", "USER"}
  BY <1>1
<1> HIDE DEF n, N, c, w, x
<1>8. \A i \in FrameIds : tp_status'[i] = "USER" <=> Dist(x, i) < n - 1
  BY <1>1, <1>3, <1>5, <1>6
<1>9. tp_status'[w] # "USER" /\ Dist(x, w) = n - 1
  BY <1>1, <1>3, <1>6, <1>7
<1>10. NumPending' = n - 1
  BY <1>2, <1>9 DEF NumPending, Dist, n, N, c, w, x
<1>11. StatusMarksStretch'
  BY <1>2, <1>8, <1>9, <1>10 DEF StatusMarksStretch, Dist, c, w, x, N
<1> QED BY <1>3, <1>10, <1>11 DEF n, N

-----------------------------------------------------------------------------
\* The ring starts empty and the writer's.
LEMMA InitIInv == Init => IInv
<1> SUFFICES ASSUME Init PROVE IInv
  OBVIOUS
<1>1. RX_FRAME_NR \in Nat /\ RX_FRAME_NR > 0 /\ NumPackets \in Nat /\ 0 \in FrameIds
  BY RxFrameNrAssumption, NumPacketsAssumption DEF FrameIds
<1>2. TypeOK
  BY <1>1 DEF Init, TypeOK, NoPacket
<1>3. NumPending = 0 /\ \A i \in FrameIds : Dist(0, i) \in Nat
  BY <1>1 DEF Init, NumPending, Dist, FrameIds
<1>4. StatusMarksStretch
  BY <1>1, <1>3 DEF Init, StatusMarksStretch
<1> QED BY <1>1, <1>2, <1>4 DEF Init, IInv, FramesComplete, WriterHoldsFrame, ReaderHoldsFrame

\* One case per step of the writer and of the reader.
LEMMA NextIInv == IInv /\ [Next]_vars => IInv'
<1> SUFFICES ASSUME IInv, [Next]_vars PROVE IInv'
  OBVIOUS
<1> USE DEF writerVars, readerVars
<1>0. RX_FRAME_NR \in Nat /\ RX_FRAME_NR > 0 /\ NumPackets \in Nat
  BY RxFrameNrAssumption, NumPacketsAssumption
<1>t. TypeOK /\ StatusMarksStretch /\ FramesComplete /\ WriterHoldsFrame /\ ReaderHoldsFrame
  BY DEF IInv
<1>s. ASSUME UNCHANGED <<tp_status, frame_idx, curr_frame_idx_>>
      PROVE  StatusMarksStretch'
  BY <1>t, <1>s DEF StatusMarksStretch, NumPending, Dist
<1>1. CASE acquire_frame
  BY <1>0, <1>t, <1>1, <1>s DEF acquire_frame, IInv, TypeOK, FramesComplete, WriterHoldsFrame,
                          ReaderHoldsFrame
<1>2. CASE store_header
  <2>1. /\ writer = "header" /\ writer' = "payload"
        /\ frame' = [frame EXCEPT ![frame_idx].tp_snaplen = data + 1]
        /\ UNCHANGED <<tp_status, data, frame_idx, written, curr_frame_idx_, reader, payload_length,
                       parsed, returned, numParsed, total_packets, reported>>
    BY <1>2 DEF store_header
  <2>2. /\ frame \in [FrameIds -> [tp_snaplen : 0 .. NumPackets, payload : 0 .. NumPackets]]
        /\ frame_idx \in FrameIds /\ data + 1 \in 0 .. NumPackets
        /\ tp_status[frame_idx] = "KERNEL"
    BY <1>0, <1>t, <2>1 DEF TypeOK, WriterHoldsFrame
  <2>3. /\ frame' \in [FrameIds -> [tp_snaplen : 0 .. NumPackets, payload : 0 .. NumPackets]]
        /\ frame'[frame_idx].tp_snaplen = data + 1
        /\ \A i \in FrameIds : i # frame_idx => frame'[i] = frame[i]
    BY <2>1, <2>2
  <2>4. TypeOK'
    BY <1>t, <2>1, <2>3 DEF TypeOK
  <2>5. FramesComplete' /\ WriterHoldsFrame'
    BY <1>t, <2>1, <2>2, <2>3 DEF FramesComplete, WriterHoldsFrame
  <2>6. ReaderHoldsFrame'
    BY <1>t, <2>1, <2>2, <2>3 DEF ReaderHoldsFrame, TypeOK
  <2> QED BY <1>s, <2>1, <2>4, <2>5, <2>6 DEF IInv
<1>3. CASE copy_payload
  <2>1. /\ writer = "payload" /\ writer' = "release"
        /\ frame' = [frame EXCEPT ![frame_idx].payload = data + 1]
        /\ UNCHANGED <<tp_status, data, frame_idx, written, curr_frame_idx_, reader, payload_length,
                       parsed, returned, numParsed, total_packets, reported>>
    BY <1>3 DEF copy_payload
  <2>2. /\ frame \in [FrameIds -> [tp_snaplen : 0 .. NumPackets, payload : 0 .. NumPackets]]
        /\ frame_idx \in FrameIds /\ data + 1 \in 0 .. NumPackets
        /\ tp_status[frame_idx] = "KERNEL"
    BY <1>0, <1>t, <2>1 DEF TypeOK, WriterHoldsFrame
  <2>3. /\ frame' \in [FrameIds -> [tp_snaplen : 0 .. NumPackets, payload : 0 .. NumPackets]]
        /\ frame'[frame_idx].payload = data + 1
        /\ frame'[frame_idx].tp_snaplen = frame[frame_idx].tp_snaplen
        /\ \A i \in FrameIds : i # frame_idx => frame'[i] = frame[i]
    BY <2>1, <2>2
  <2>4. TypeOK'
    BY <1>t, <2>1, <2>3 DEF TypeOK
  <2>5. FramesComplete' /\ WriterHoldsFrame'
    BY <1>t, <2>1, <2>2, <2>3 DEF FramesComplete, WriterHoldsFrame
  <2>6. ReaderHoldsFrame'
    BY <1>t, <2>1, <2>2, <2>3 DEF ReaderHoldsFrame, TypeOK
  <2> QED BY <1>s, <2>1, <2>4, <2>5, <2>6 DEF IInv
<1>4. CASE release_frame
  <2>1. /\ writer = "release" /\ writer' = "wait" /\ data' = data + 1
        /\ tp_status' = [tp_status EXCEPT ![frame_idx] = "USER"]
        /\ frame_idx' = (frame_idx + 1) % RX_FRAME_NR
        /\ UNCHANGED <<frame, curr_frame_idx_, reader, payload_length,
                       parsed, returned, numParsed, total_packets, reported>>
    BY <1>4 DEF release_frame
  <2>2. /\ frame_idx' \in FrameIds /\ data + 1 \in 0 .. NumPackets /\ data \in Nat
        /\ frame[frame_idx].tp_snaplen = data + 1 /\ frame[frame_idx].payload = data + 1
    BY <1>0, <1>t, <2>1, NextFrame DEF TypeOK, WriterHoldsFrame
  <2>3. TypeOK'
    BY <1>t, <2>1, <2>2 DEF TypeOK
  <2>4. FramesComplete' /\ WriterHoldsFrame' /\ ReaderHoldsFrame'
    BY <1>t, <2>1, <2>2 DEF FramesComplete, WriterHoldsFrame, ReaderHoldsFrame, TypeOK
  <2> QED BY <1>4, <2>3, <2>4, ReleaseAdds DEF IInv
<1>5. CASE wait_for_packet
  BY <1>t, <1>5, <1>s DEF wait_for_packet, IInv, TypeOK, FramesComplete, WriterHoldsFrame,
                          ReaderHoldsFrame
<1>6. CASE load_header
  BY <1>t, <1>6, <1>s DEF load_header, IInv, TypeOK, FramesComplete, WriterHoldsFrame,
                          ReaderHoldsFrame
<1>7. CASE parse_block
  BY <1>t, <1>7, <1>s DEF parse_block, IInv, TypeOK, FramesComplete, WriterHoldsFrame,
                          ReaderHoldsFrame
<1>8. CASE return_frame
  <2>1. /\ reader = "return" /\ reader' = "count"
        /\ tp_status' = [tp_status EXCEPT ![curr_frame_idx_] = "KERNEL"]
        /\ curr_frame_idx_' = (curr_frame_idx_ + 1) % RX_FRAME_NR
        /\ UNCHANGED <<frame, data, frame_idx, writer, written, payload_length, parsed,
                       numParsed, total_packets, reported>>
    BY <1>8 DEF return_frame
  <2>2. curr_frame_idx_' \in FrameIds
    BY <1>t, <2>1, NextFrame DEF TypeOK
  <2>3. TypeOK'
    BY <1>t, <2>1, <2>2 DEF TypeOK
  <2>4. FramesComplete' /\ WriterHoldsFrame' /\ ReaderHoldsFrame'
    BY <1>t, <2>1, <2>2 DEF FramesComplete, WriterHoldsFrame, ReaderHoldsFrame, TypeOK
  <2> QED BY <1>8, <2>3, <2>4, ReturnTakes DEF IInv
<1>9. CASE count_packet
  BY <1>t, <1>9, <1>s DEF count_packet, IInv, TypeOK, FramesComplete, WriterHoldsFrame,
                          ReaderHoldsFrame
<1>10. CASE print_statistics
  BY <1>t, <1>10, <1>s DEF print_statistics, IInv, TypeOK, FramesComplete, WriterHoldsFrame,
                           ReaderHoldsFrame
<1>11. CASE UNCHANGED vars
  BY <1>t, <1>11, <1>s DEF vars, IInv, TypeOK, FramesComplete, WriterHoldsFrame,
                           ReaderHoldsFrame
<1> QED BY <1>1, <1>2, <1>3, <1>4, <1>5, <1>6, <1>7, <1>8, <1>9, <1>10, <1>11
           DEF Next, Writer, Reader

\* The inductive invariant holds for every size of the ring.
THEOREM Invariance == Spec => []IInv
BY InitIInv, NextIInv, PTL DEF Spec

\* For every size of the ring, writer and reader are never in the same frame.
THEOREM Ownership == Spec => []FrameHasOneOwner
<1>1. IInv => FrameHasOneOwner
  BY DEF IInv, WriterHoldsFrame, ReaderHoldsFrame, FrameHasOneOwner
<1> QED BY <1>1, Invariance, PTL

\* However often the counter is exchanged for 0, every packet parsed is in it,
\* was printed, or is about to be added.
THEOREM Counting == Spec => []EveryPacketCounted
<1> DEFINE Inv == IInv /\ EveryPacketCounted
<1>1. Init => Inv
  BY InitIInv DEF Init, EveryPacketCounted
<1>2. Inv /\ [Next]_vars => Inv'
  <2> SUFFICES ASSUME IInv, EveryPacketCounted, [Next]_vars
               PROVE  EveryPacketCounted'
    BY NextIInv
  <2>1. numParsed \in Nat /\ total_packets \in Nat /\ reported \in Nat
    BY DEF IInv, TypeOK
  <2>3. CASE Writer
    BY <2>3 DEF EveryPacketCounted, Writer, acquire_frame, store_header, copy_payload,
                release_frame, readerVars
  <2>4. CASE Reader
    BY <2>1, <2>4 DEF EveryPacketCounted, Reader, wait_for_packet, load_header, parse_block,
                      return_frame, count_packet
  <2>5. CASE print_statistics \/ UNCHANGED vars
    BY <2>1, <2>5 DEF EveryPacketCounted, print_statistics, vars, readerVars
  <2> QED BY <2>3, <2>4, <2>5 DEF Next
<1> QED BY <1>1, <1>2, PTL DEF Spec

-----------------------------------------------------------------------------
(* The refinement of BoundedFifo.                                           *)

Blocks == (1 .. NumPackets) \X (1 .. NumPackets)
Block(i) == <<frame[i].tp_snaplen, frame[i].payload>>

\* A sequence given element by element is an Append.
LEMMA IsAppend ==
    ASSUME NEW S, NEW s \in Seq(S), NEW x \in S, NEW t \in Seq(S),
           Len(t) = Len(s) + 1, t[Len(s) + 1] = x,
           \A k \in 1 .. Len(s) : t[k] = s[k]
    PROVE  t = Append(s, x)
<1>1. Len(s) \in Nat
  OBVIOUS
<1>2. \A k \in 1 .. Len(t) : k \in 1 .. Len(s) \/ k = Len(s) + 1
  BY <1>1
<1>3. \A k \in 1 .. Len(t) : t[k] = Append(s, x)[k]
  BY <1>2, AppendProperties
<1> QED BY <1>3, AppendProperties, SeqEqual

\* A sequence given element by element is a Tail.
LEMMA IsTail ==
    ASSUME NEW S, NEW s \in Seq(S), s # <<>>, NEW t \in Seq(S),
           Len(t) = Len(s) - 1,
           \A k \in 1 .. Len(s) - 1 : t[k] = s[k + 1]
    PROVE  t = Tail(s)
<1>1. \A k \in 1 .. Len(t) : t[k] = Tail(s)[k]
  BY HeadTailProperties
<1> QED BY <1>1, HeadTailProperties, SeqEqual

\* The k-th pending frame is a complete frame of the reader.
LEMMA PendingFrame ==
    ASSUME IInv, NEW k \in 1 .. NumPending
    PROVE  /\ FrameAt(k) \in FrameIds
           /\ FrameAt(k) = IF curr_frame_idx_ + (k - 1) < RX_FRAME_NR
                           THEN curr_frame_idx_ + (k - 1)
                           ELSE curr_frame_idx_ + (k - 1) - RX_FRAME_NR
           /\ tp_status[FrameAt(k)] = "USER"
           /\ Block(FrameAt(k)) \in Blocks
<1> DEFINE i == FrameAt(k)
<1>1. /\ NumPending \in 0 .. RX_FRAME_NR /\ curr_frame_idx_ \in FrameIds
      /\ RX_FRAME_NR \in Nat /\ RX_FRAME_NR > 0
      /\ frame \in [FrameIds -> [tp_snaplen : 0 .. NumPackets, payload : 0 .. NumPackets]]
  BY PendingBounds, RxFrameNrAssumption DEF IInv, TypeOK
<1>2. k - 1 \in 0 .. RX_FRAME_NR /\ k \in 1 .. RX_FRAME_NR
      /\ curr_frame_idx_ + (k - 1) = curr_frame_idx_ + k - 1
  BY <1>1 DEF FrameIds
<1>3. i = IF curr_frame_idx_ + (k - 1) < RX_FRAME_NR
          THEN curr_frame_idx_ + (k - 1) ELSE curr_frame_idx_ + (k - 1) - RX_FRAME_NR
  BY <1>1, <1>2, Wrap DEF FrameAt
<1> HIDE DEF i
<1>4. i \in FrameIds /\ Dist(curr_frame_idx_, i) = k - 1
  BY <1>1, <1>2, <1>3 DEF FrameIds, Dist
<1>5. tp_status[i] = "USER"
  BY <1>1, <1>2, <1>4 DEF IInv, StatusMarksStretch
<1>6. Block(i) \in Blocks
  BY <1>1, <1>4, <1>5, NumPacketsAssumption DEF IInv, FramesComplete, Block, Blocks
<1> QED BY <1>3, <1>4, <1>5, <1>6 DEF i

\* What is pending is a sequence of blocks.
LEMMA PendingType ==
    ASSUME IInv
    PROVE  /\ Pending \in Seq(Blocks) /\ Len(Pending) = NumPending /\ NumPending \in Nat
           /\ \A k \in 1 .. NumPending : Pending[k] = Block(FrameAt(k))
<1>1. NumPending \in Nat
  BY PendingBounds, RxFrameNrAssumption
<1>2. Pending = [k \in 1 .. NumPending |-> Block(FrameAt(k))]
  BY DEF Pending, Block
<1>3. \A k \in 1 .. NumPending : Block(FrameAt(k)) \in Blocks
  BY PendingFrame
<1> HIDE DEF Block, Blocks, FrameAt, Pending, NumPending
<1> QED BY <1>1, <1>2, <1>3

\* Filling a frame does not show until its status word is stored.
LEMMA FillingIsInvisible ==
    ASSUME IInv, store_header \/ copy_payload
    PROVE  Pending' = Pending
<1>1. /\ UNCHANGED <<tp_status, frame_idx, curr_frame_idx_>>
      /\ tp_status[frame_idx] = "KERNEL"
      /\ \A i \in FrameIds : i # frame_idx => frame'[i] = frame[i]
  BY DEF store_header, copy_payload, readerVars, IInv, TypeOK, WriterHoldsFrame
<1>2. NumPending' = NumPending
  BY <1>1 DEF NumPending, Dist
<1>3. \A k \in 1 .. NumPending : FrameAt(k)' = FrameAt(k) /\ frame'[FrameAt(k)] = frame[FrameAt(k)]
  <2>1. \A k \in 1 .. NumPending : FrameAt(k)' = FrameAt(k)
    BY <1>1 DEF FrameAt
  <2> QED BY <1>1, <2>1, PendingFrame
<1> HIDE DEF FrameAt, NumPending
<1> QED BY <1>2, <1>3 DEF Pending

\* Storing TP_STATUS_USER appends the packet, and there was room for it.
LEMMA ReleaseEnqueues ==
    ASSUME IInv, release_frame
    PROVE  Fifo!Enqueue(<<data + 1, data + 1>>) /\ <<data + 1, data + 1>> \in Blocks
<1> DEFINE n == NumPending
           v == <<data + 1, data + 1>>
<1>1. /\ n \in Nat /\ NumPending' = n + 1 /\ n < RX_FRAME_NR
      /\ n = Dist(curr_frame_idx_, frame_idx)
  BY ReleaseAdds, PendingBounds, RxFrameNrAssumption
<1>2. /\ UNCHANGED <<frame, curr_frame_idx_, returned>> /\ written' = v
      /\ Block(frame_idx) = v /\ data \in Nat /\ data < NumPackets
      /\ frame_idx \in FrameIds /\ curr_frame_idx_ \in FrameIds
  BY NumPacketsAssumption DEF release_frame, readerVars, IInv, TypeOK, WriterHoldsFrame, Block
<1>3. v \in Blocks
  BY <1>2, NumPacketsAssumption DEF Blocks
<1>4. /\ Pending \in Seq(Blocks) /\ Len(Pending) = n
      /\ \A k \in 1 .. n : Pending[k] = Block(FrameAt(k))
  BY PendingType
<1>5. FrameAt(n + 1) = frame_idx
  <2>1. /\ n \in 0 .. RX_FRAME_NR /\ curr_frame_idx_ + (n + 1) - 1 = curr_frame_idx_ + n
        /\ RX_FRAME_NR \in Nat
    BY <1>1, <1>2, RxFrameNrAssumption DEF FrameIds
  <2>2. FrameAt(n + 1) = IF curr_frame_idx_ + n < RX_FRAME_NR THEN curr_frame_idx_ + n
                         ELSE curr_frame_idx_ + n - RX_FRAME_NR
    BY <1>2, <2>1, Wrap DEF FrameAt
  <2> QED BY <1>1, <1>2, <2>1, <2>2 DEF Dist, FrameIds
<1> DEFINE t == [k \in 1 .. n + 1 |-> Block(FrameAt(k))]
<1>6. Pending' = t
  BY <1>1, <1>2 DEF Pending, Block, FrameAt
<1> HIDE DEF n, v, Block, Blocks, FrameAt, Pending
<1>7. \A k \in 1 .. n + 1 : k \in 1 .. n \/ k = n + 1
  BY <1>1
<1>8. \A k \in 1 .. n + 1 : Block(FrameAt(k)) \in Blocks
  <2>1. \A k \in 1 .. n : Pending[k] \in Blocks
    BY <1>1, <1>4
  <2> QED BY <1>2, <1>3, <1>4, <1>5, <1>7, <2>1
<1>9. t \in Seq(Blocks) /\ Len(t) = n + 1
  BY <1>1, <1>8
<1>10. t[n + 1] = v /\ \A k \in 1 .. n : t[k] = Pending[k]
  BY <1>1, <1>2, <1>4, <1>5
<1> HIDE DEF t
<1>11. t = Append(Pending, v)
  BY <1>3, <1>4, <1>9, <1>10, IsAppend
<1>12. Fifo!Enqueue(v)
  BY <1>1, <1>2, <1>4, <1>6, <1>11 DEF Fifo!Enqueue
<1> QED BY <1>3, <1>12 DEF v

\* Storing TP_STATUS_KERNEL removes the oldest packet, the one just parsed.
LEMMA ReturnDequeues ==
    ASSUME IInv, return_frame
    PROVE  Fifo!Dequeue
<1> DEFINE n == NumPending
<1>1. n \in 1 .. RX_FRAME_NR /\ NumPending' = n - 1 /\ RX_FRAME_NR \in Nat
  BY ReturnTakes, PendingBounds, RxFrameNrAssumption
<1>2. /\ UNCHANGED <<frame, written>> /\ returned' = parsed
      /\ parsed = Block(curr_frame_idx_) /\ curr_frame_idx_ \in FrameIds
      /\ curr_frame_idx_' = (curr_frame_idx_ + 1) % RX_FRAME_NR
  BY DEF return_frame, writerVars, IInv, TypeOK, ReaderHoldsFrame, Block
<1>3. curr_frame_idx_' \in FrameIds
      /\ curr_frame_idx_' = IF curr_frame_idx_ + 1 = RX_FRAME_NR THEN 0 ELSE curr_frame_idx_ + 1
  BY <1>2, NextFrame
<1>4. /\ Pending \in Seq(Blocks) /\ Len(Pending) = n
      /\ \A k \in 1 .. n : Pending[k] = Block(FrameAt(k))
  BY PendingType
<1>5. FrameAt(1) = curr_frame_idx_
  <2>1. 1 \in 1 .. n
    BY <1>1
  <2>2. FrameAt(1) = IF curr_frame_idx_ + (1 - 1) < RX_FRAME_NR
                     THEN curr_frame_idx_ + (1 - 1) ELSE curr_frame_idx_ + (1 - 1) - RX_FRAME_NR
    BY <2>1, PendingFrame
  <2> QED BY <1>1, <1>2, <2>2 DEF FrameIds
<1>6. ASSUME NEW k \in 1 .. n - 1 PROVE FrameAt(k)' = FrameAt(k + 1)
  <2>1. /\ k \in Nat /\ k - 1 \in 0 .. RX_FRAME_NR /\ k \in 0 .. RX_FRAME_NR
        /\ curr_frame_idx_' + k - 1 = curr_frame_idx_' + (k - 1)
        /\ curr_frame_idx_ + (k + 1) - 1 = curr_frame_idx_ + k
    BY <1>1, <1>2, <1>3 DEF FrameIds
  <2>2. FrameAt(k)' = IF curr_frame_idx_' + (k - 1) < RX_FRAME_NR
                      THEN curr_frame_idx_' + (k - 1) ELSE curr_frame_idx_' + (k - 1) - RX_FRAME_NR
    BY <1>3, <2>1, Wrap DEF FrameAt
  <2>3. FrameAt(k + 1) = IF curr_frame_idx_ + k < RX_FRAME_NR
                         THEN curr_frame_idx_ + k ELSE curr_frame_idx_ + k - RX_FRAME_NR
    BY <1>2, <2>1, Wrap DEF FrameAt
  <2> QED BY <1>1, <1>2, <1>3, <2>1, <2>2, <2>3 DEF FrameIds
<1> DEFINE t == [k \in 1 .. n - 1 |-> Block(FrameAt(k + 1))]
<1>7. Pending' = t
  <2>1. Pending' = [k \in 1 .. n - 1 |-> Block(FrameAt(k)')]
    BY <1>1, <1>2 DEF Pending, Block
  <2> QED BY <1>6, <2>1
<1> HIDE DEF n, Block, Blocks, FrameAt, Pending
<1>8. \A k \in 1 .. n - 1 : k + 1 \in 1 .. n
  BY <1>1
<1>9. \A k \in 1 .. n - 1 : t[k] = Pending[k + 1] /\ t[k] \in Blocks
  <2>1. \A k \in 1 .. n : Pending[k] \in Blocks
    BY <1>1, <1>4
  <2> QED BY <1>4, <1>8, <2>1
<1>10. t \in Seq(Blocks) /\ Len(t) = n - 1
  <2>1. t \in [1 .. n - 1 -> Blocks]
    BY <1>9
  <2> HIDE DEF t
  <2> QED BY <1>1, <2>1
<1> HIDE DEF t
<1>11. Pending # <<>> /\ Head(Pending) = Block(curr_frame_idx_)
  BY <1>1, <1>4, <1>5
<1>12. t = Tail(Pending)
  BY <1>4, <1>9, <1>10, <1>11, IsTail
<1> QED BY <1>2, <1>7, <1>11, <1>12 DEF Fifo!Dequeue

\* For every size the ring is a FIFO queue of RX_FRAME_NR packets.
THEOREM Refinement == Spec => ImplementsFifo
<1>1. Init => Fifo!Init
  <2> SUFFICES ASSUME Init PROVE Pending = <<>>
    BY DEF Init, Fifo!Init
  <2>1. NumPending = 0
    BY RxFrameNrAssumption DEF Init, NumPending, Dist, FrameIds
  <2> QED BY <2>1 DEF Pending
<1>2. IInv /\ [Next]_vars => [Fifo!Next]_(Fifo!vars)
  <2> SUFFICES ASSUME IInv, [Next]_vars PROVE [Fifo!Next]_(Fifo!vars)
    OBVIOUS
  <2> USE DEF Fifo!vars, writerVars, readerVars
  <2>1. ASSUME UNCHANGED <<tp_status, frame, frame_idx, curr_frame_idx_, written, returned>>
        PROVE  UNCHANGED Fifo!vars
    BY <2>1 DEF Pending, NumPending, FrameAt, Dist
  <2>2. CASE acquire_frame \/ print_statistics \/ UNCHANGED vars
    BY <2>1, <2>2 DEF acquire_frame, print_statistics, vars
  <2>3. CASE store_header \/ copy_payload
    BY <2>3, FillingIsInvisible DEF store_header, copy_payload
  <2>4. CASE release_frame
    BY <2>4, ReleaseEnqueues DEF Fifo!Next, Blocks
  <2>5. CASE return_frame
    BY <2>5, ReturnDequeues DEF Fifo!Next
  <2>6. CASE wait_for_packet \/ load_header \/ parse_block \/ count_packet
    BY <2>1, <2>6 DEF wait_for_packet, load_header, parse_block, count_packet
  <2> QED BY <2>2, <2>3, <2>4, <2>5, <2>6 DEF Next, Writer, Reader
<1> QED BY <1>1, <1>2, Invariance, PTL DEF Spec, Fifo!Spec, ImplementsFifo
=============================================================================
