------------------------------- MODULE RxRing --------------------------------
(***************************************************************************)
(* The receive ring of network::MulticastReceiver in mock mode:            *)
(* simulate_packets() fills frames from a capture file on one thread,      *)
(* poll_simulation() hands them to the parser on another, and              *)
(* print_statistics_mock_mode() reads the packet counter on a third.  The  *)
(* status word of a frame says whose it is; the fields and the payload are *)
(* plain memory.  poll() is the same loop with the kernel as the writer.   *)
(*                                                                         *)
(* Each thread sees its own last store to a status word, and otherwise an  *)
(* old value at worst.  An old value means "not mine yet", so a stale load *)
(* is one more turn of the spin loop, a step that changes nothing.         *)
(***************************************************************************)
EXTENDS Integers, Sequences

CONSTANTS
    RX_FRAME_NR,    \* frames in the ring
    NumPackets      \* packets in the capture file, numbered from 1

ASSUME RxFrameNrAssumption == RX_FRAME_NR \in Nat \ {0}
ASSUME NumPacketsAssumption == NumPackets \in Nat

VARIABLES
    tp_status,      \* of each frame: "KERNEL" or "USER"
    frame,          \* of each frame: the packets its length and payload are of
    data,           \* packets of the file written so far
    frame_idx,      \* next frame of the writer
    writer,         \* "wait", "header", "payload", "release"
    curr_frame_idx_, \* next frame of the reader
    reader,         \* "wait", "header", "parse", "return", "count"
    payload_length, \* packet whose length the reader has loaded
    written,        \* last packet released to the reader
    parsed,         \* last block given to parse_block(): <<length of, payload of>>
    returned,       \* last block whose frame was given back
    numParsed,      \* blocks parsed so far
    total_packets,  \* the counter shared with the statistics thread
    reported        \* sum of what the statistics thread has printed

writerVars == <<data, frame_idx, writer, written>>
readerVars == <<curr_frame_idx_, reader, payload_length, parsed, returned, numParsed>>
vars == <<tp_status, frame, writerVars, readerVars, total_packets, reported>>

FrameIds == 0 .. RX_FRAME_NR - 1
NoPacket == 0
NoBlock == <<NoPacket, NoPacket>>

\* MAP_ANONYMOUS memory is zero, and TP_STATUS_KERNEL is 0.
Init ==
    /\ tp_status = [i \in FrameIds |-> "KERNEL"]
    /\ frame = [i \in FrameIds |-> [tp_snaplen |-> NoPacket, payload |-> NoPacket]]
    /\ data = 0 /\ frame_idx = 0 /\ writer = "wait" /\ written = NoBlock
    /\ curr_frame_idx_ = 0 /\ reader = "wait" /\ payload_length = NoPacket
    /\ parsed = NoBlock /\ returned = NoBlock /\ numParsed = 0
    /\ total_packets = 0 /\ reported = 0

-----------------------------------------------------------------------------
(* simulate_packets()                                                       *)

\* Mutated form: the writer does not wait for the frame.
acquire_frame_no_wait ==
    /\ writer = "wait" /\ data < NumPackets
    /\ writer' = "header"
    /\ UNCHANGED <<tp_status, frame, data, frame_idx, written, readerVars, total_packets, reported>>

\* Mutated form: the end of the file is taken to be one packet further.
acquire_frame_past_end ==
    /\ writer = "wait" /\ data <= NumPackets
    /\ tp_status[frame_idx] = "KERNEL"
    /\ writer' = "header"
    /\ UNCHANGED <<tp_status, frame, data, frame_idx, written, readerVars, total_packets, reported>>

\* Mutated form: the packet that ends at the end of the file is left out.
acquire_frame_drops_last ==
    /\ writer = "wait" /\ data + 1 < NumPackets
    /\ tp_status[frame_idx] = "KERNEL"
    /\ writer' = "header"
    /\ UNCHANGED <<tp_status, frame, data, frame_idx, written, readerVars, total_packets, reported>>

\* The spin loop ends when the frame is the writer's.
acquire_frame ==
    /\ writer = "wait" /\ data < NumPackets
    /\ tp_status[frame_idx] = "KERNEL"
    /\ writer' = "header"
    /\ UNCHANGED <<tp_status, frame, data, frame_idx, written, readerVars, total_packets, reported>>

\* tp_snaplen, tp_len, tp_mac, tp_net
store_header ==
    /\ writer = "header"
    /\ frame' = [frame EXCEPT ![frame_idx].tp_snaplen = data + 1]
    /\ writer' = "payload"
    /\ UNCHANGED <<tp_status, data, frame_idx, written, readerVars, total_packets, reported>>

\* Mutated form: the frame is released before the payload is copied.
copy_payload_late ==
    /\ writer = "payload"
    /\ tp_status' = [tp_status EXCEPT ![frame_idx] = "USER"]
    /\ writer' = "release"
    /\ UNCHANGED <<frame, data, frame_idx, written, readerVars, total_packets, reported>>

copy_payload ==
    /\ writer = "payload"
    /\ frame' = [frame EXCEPT ![frame_idx].payload = data + 1]
    /\ writer' = "release"
    /\ UNCHANGED <<tp_status, data, frame_idx, written, readerVars, total_packets, reported>>

release_frame ==
    /\ writer = "release"
    /\ tp_status' = [tp_status EXCEPT ![frame_idx] = "USER"]
    /\ written' = <<data + 1, data + 1>>
    /\ data' = data + 1
    /\ frame_idx' = (frame_idx + 1) % RX_FRAME_NR
    /\ writer' = "wait"
    /\ UNCHANGED <<frame, readerVars, total_packets, reported>>

-----------------------------------------------------------------------------
(* poll_simulation()                                                        *)

wait_for_packet ==
    /\ reader = "wait"
    /\ tp_status[curr_frame_idx_] = "USER"
    /\ reader' = "header"
    /\ UNCHANGED <<tp_status, frame, writerVars, curr_frame_idx_, payload_length,
                   parsed, returned, numParsed, total_packets, reported>>

load_header ==
    /\ reader = "header"
    /\ payload_length' = frame[curr_frame_idx_].tp_snaplen
    /\ reader' = "parse"
    /\ UNCHANGED <<tp_status, frame, writerVars, curr_frame_idx_,
                   parsed, returned, numParsed, total_packets, reported>>

\* handler_.parse_block(payload_ptr, payload_length)
parse_block ==
    /\ reader = "parse"
    /\ parsed' = <<payload_length, frame[curr_frame_idx_].payload>>
    /\ numParsed' = numParsed + 1
    /\ reader' = "return"
    /\ UNCHANGED <<tp_status, frame, writerVars, curr_frame_idx_, payload_length,
                   returned, total_packets, reported>>

return_frame ==
    /\ reader = "return"
    /\ tp_status' = [tp_status EXCEPT ![curr_frame_idx_] = "KERNEL"]
    /\ curr_frame_idx_' = (curr_frame_idx_ + 1) % RX_FRAME_NR
    /\ returned' = parsed
    /\ reader' = "count"
    /\ UNCHANGED <<frame, writerVars, payload_length, parsed, numParsed, total_packets, reported>>

count_packet ==
    /\ reader = "count"
    /\ total_packets' = total_packets + 1
    /\ reader' = "wait"
    /\ UNCHANGED <<tp_status, frame, writerVars, curr_frame_idx_, payload_length,
                   parsed, returned, numParsed, reported>>

-----------------------------------------------------------------------------
\* Mutated form: the counter is read and never set back.
print_statistics_keeps_count ==
    /\ reported' = reported + total_packets
    /\ UNCHANGED <<tp_status, frame, writerVars, readerVars, total_packets>>

\* print_statistics_mock_mode(): one exchange(0) of the counter.
print_statistics ==
    /\ total_packets > 0
    /\ reported' = reported + total_packets
    /\ total_packets' = 0
    /\ UNCHANGED <<tp_status, frame, writerVars, readerVars>>

Writer == acquire_frame \/ store_header \/ copy_payload \/ release_frame
Reader == wait_for_packet \/ load_header \/ parse_block \/ return_frame \/ count_packet
Next == Writer \/ Reader \/ print_statistics

Spec == Init /\ [][Next]_vars

\* Both threads are pinned to a core and only ever spin; a store to a status
\* word becomes visible after a finite time.
FairSpec == Spec /\ WF_vars(Writer) /\ WF_vars(Reader)

-----------------------------------------------------------------------------
\* Indices stay in the ring, and no frame holds a packet not yet in the file.
TypeOK ==
    /\ tp_status \in [FrameIds -> {"KERNEL", "USER"}]
    /\ frame \in [FrameIds -> [tp_snaplen : 0 .. NumPackets, payload : 0 .. NumPackets]]
    /\ data \in 0 .. NumPackets
    /\ frame_idx \in FrameIds /\ curr_frame_idx_ \in FrameIds
    /\ writer \in {"wait", "header", "payload", "release"}
    /\ reader \in {"wait", "header", "parse", "return", "count"}
    /\ numParsed \in Nat /\ total_packets \in Nat /\ reported \in Nat

\* The plain accesses to a frame, by the writer between its two accesses to
\* the status word and by the reader between its own, never overlap: the
\* zero-copy parser is not looking at bytes that are being overwritten.
FrameHasOneOwner ==
    ~ /\ writer \in {"header", "payload"}
      /\ reader \in {"header", "parse"}
      /\ frame_idx = curr_frame_idx_

\* Steps from frame a to frame b round the ring.
Dist(a, b) == IF a <= b THEN b - a ELSE b - a + RX_FRAME_NR

\* The frames handed over and not given back, oldest first: all of them when
\* even the writer's next frame is the reader's.
NumPending ==
    IF tp_status[frame_idx] = "USER" THEN RX_FRAME_NR ELSE Dist(curr_frame_idx_, frame_idx)

FrameAt(k) == (curr_frame_idx_ + k - 1) % RX_FRAME_NR

Pending ==
    [k \in 1 .. NumPending |-> <<frame[FrameAt(k)].tp_snaplen, frame[FrameAt(k)].payload>>]

\* The status words mark one stretch of the ring, from the reader's frame to
\* the writer's, although neither thread knows the other's index.
StatusMarksStretch ==
    /\ \A i \in FrameIds : tp_status[i] = "USER" <=> Dist(curr_frame_idx_, i) < NumPending
    /\ tp_status[frame_idx] = "USER" => frame_idx = curr_frame_idx_

FramesComplete ==
    \A i \in FrameIds :
        tp_status[i] = "USER" => frame[i].tp_snaplen > 0 /\ frame[i].payload > 0

\* What each thread knows of its frame between its two accesses to the
\* status word.
WriterHoldsFrame ==
    /\ writer # "wait" => data < NumPackets /\ tp_status[frame_idx] = "KERNEL"
    /\ writer \in {"payload", "release"} => frame[frame_idx].tp_snaplen = data + 1
    /\ writer = "release" => frame[frame_idx].payload = data + 1

ReaderHoldsFrame ==
    /\ reader \in {"header", "parse", "return"} => tp_status[curr_frame_idx_] = "USER"
    /\ reader \in {"parse", "return"} => payload_length = frame[curr_frame_idx_].tp_snaplen
    /\ reader = "return" =>
          parsed = <<frame[curr_frame_idx_].tp_snaplen, frame[curr_frame_idx_].payload>>

\* The inductive invariant behind FrameHasOneOwner and the refinement.
IInv == TypeOK /\ StatusMarksStretch /\ FramesComplete /\ WriterHoldsFrame /\ ReaderHoldsFrame

Fifo == INSTANCE BoundedFifo WITH
            Capacity <- RX_FRAME_NR,
            Values <- (1 .. NumPackets) \X (1 .. NumPackets),
            NoValue <- NoBlock,
            queue <- Pending, accepted <- written, delivered <- returned

\* Unlike SPSCQueue the ring uses every frame, and needs no shared index: it
\* is a FIFO of RX_FRAME_NR packets, each parsed whole, once and in order.
ImplementsFifo == Fifo!Spec

\* Packets printed by the statistics thread, still in the counter or about to
\* be added to it are the packets parsed: exchange(0) loses none of those
\* added at the same time and counts none twice.
EveryPacketCounted ==
    reported + total_packets + (IF reader \in {"return", "count"} THEN 1 ELSE 0) = numParsed

\* The whole file gets through the ring.
AllPacketsParsed == <>(parsed = <<NumPackets, NumPackets>>)
=============================================================================
