---------------------------- MODULE WriteAheadLog ----------------------------
(***************************************************************************)
(* The write-ahead log: ItchParser::log_payload() filling the frames that  *)
(* recovery::MmapLogger hands out, the kernel writing the mapped pages     *)
(* back, a crash at any point, and RecoveryEngine::run_recovery() reading  *)
(* what is left.                                                           *)
(*                                                                         *)
(* A frame is filled by plain stores in the order of the source, so a      *)
(* crash or a write-back can catch it between two of them.  The message in *)
(* a frame is one value; the checksum is the tuple of everything it covers *)
(* (marker, sequence number, payload), that is, a CRC without collisions.  *)
(***************************************************************************)
EXTENDS Integers, Sequences

CONSTANTS
    NumFrames,  \* FILE_SIZE / sizeof(WalFrame)
    Messages,   \* what log_payload() is called with
    LongMessages, \* those of types 'O' and 'I', 48 and 50 bytes for the 44 of WalFrame::payload
    LongestMessages, \* those of type 'I', which do not fit into the frame either
    Fatal,      \* the sequences of messages on whose last one the order book throws
    Zero,       \* bytes that fallocate() left: no message, no checksum
    Overrun     \* the bytes of a long message that fall where the checksum goes

ASSUME NumFramesAssumption == NumFrames \in Nat \ {0}
ASSUME MessagesAssumption ==
    LongestMessages \subseteq LongMessages /\ LongMessages \subseteq Messages /\ Zero \notin Messages

\* execute_order() throws for more shares than the order has.  Whether it does
\* depends on the messages that the book was given before.
ASSUME FatalAssumption == Fatal \subseteq Seq(Messages)

Unsigned == {Zero, Overrun}

\* What stands in the place of a checksum that has not been stored is not the
\* checksum of any frame that begins with 0xAA.
ASSUME UnsignedAssumption ==
    Unsigned \cap ({"0xAA"} \X (0 .. NumFrames) \X (Messages \cup {Zero, "garbage"})) = {}

VARIABLES
    frames,         \* the file as the mapping shows it (page cache)
    disk,           \* the part of it that a power failure leaves
    curr_,          \* frames handed out by reserve_frame()
    curr_seq_num,   \* of the parser
    stage,          \* next store of the running log_payload(), or "idle"
    message,        \* its argument
    logged,         \* messages that got a frame, in order
    synced,         \* frames covered by the last msync(MS_SYNC)
    phase,          \* "running", "crashed", "recovering", "recovered"; or "thrown",
                    \* "refused", "fault": the other ends of run_recovery()
    cause,          \* of the crash: "process" or "power"
    damaged,        \* frames of the file damaged by the medium
    pos,            \* curr_wal_ptr of run_recovery()
    replayed,       \* messages handed to the order book by run_recovery()
    report_         \* RecoveryReport

logVars == <<frames, disk, curr_, curr_seq_num, stage, message, logged, synced>>
crashVars == <<phase, cause, damaged>>
recoveryVars == <<pos, replayed, report_>>
vars == <<logVars, crashVars, recoveryVars>>

Frames == 0 .. NumFrames - 1

BlankFrame == [marker |-> "0x00", seq_num |-> 0, payload |-> Zero, checksum |-> Zero]

NoReport == [records_processed |-> 0, last_valid_seq |-> 0, torn_write_detected |-> FALSE]

\* Mutated form: the payload is not covered.
calculate_crc32_header_only(f) == <<f.marker, f.seq_num>>

\* utils::calculate_crc32: covers all of the frame but the checksum itself.
calculate_crc32(f) == <<f.marker, f.seq_num, f.payload>>

\* The MmapLogger constructor truncates the file (O_TRUNC) and allocates it
\* anew; a new parser counts from 0.
Init ==
    /\ frames = [i \in Frames |-> BlankFrame]
    /\ disk = [i \in Frames |-> BlankFrame]
    /\ curr_ = 0 /\ curr_seq_num = 0
    /\ stage = "idle" /\ message = Zero
    /\ logged = <<>> /\ synced = 0
    /\ phase = "running" /\ cause = "none" /\ damaged = {}
    /\ pos = 0 /\ replayed = <<>> /\ report_ = NoReport

-----------------------------------------------------------------------------
(* log_payload(), the mapping and the crash                                 *)

\* Mutated form: one frame too many is handed out.
reserve_frame_past_end(m) ==
    /\ phase = "running" /\ stage = "idle"
    /\ curr_ <= NumFrames
    /\ curr_' = curr_ + 1
    /\ message' = m
    /\ logged' = Append(logged, m)
    /\ stage' = "marker"
    /\ UNCHANGED <<frames, disk, curr_seq_num, synced, crashVars, recoveryVars>>

\* reserve_frame(); with no frame left log_payload() returns at once, which
\* changes nothing.
reserve_frame(m) ==
    /\ phase = "running" /\ stage = "idle"
    /\ curr_ < NumFrames
    /\ curr_' = curr_ + 1
    /\ message' = m
    /\ logged' = Append(logged, m)
    /\ stage' = "marker"
    /\ UNCHANGED <<frames, disk, curr_seq_num, synced, crashVars, recoveryVars>>

\* The stores of log_payload() into the frame it reserved.
store_field(at, then, frame) ==
    /\ phase = "running" /\ stage = at
    /\ frames' = [frames EXCEPT ![curr_ - 1] = frame]
    /\ stage' = then
    /\ UNCHANGED <<disk, curr_, message, logged, synced, crashVars, recoveryVars>>

reserved == frames[curr_ - 1]

store_marker ==
    /\ store_field("marker", "header", [reserved EXCEPT !.marker = "0xAA"])
    /\ UNCHANGED curr_seq_num

\* Mutated form: the counter is not advanced.
store_header_same_seq ==
    /\ store_field("header", "payload", [reserved EXCEPT !.seq_num = curr_seq_num])
    /\ UNCHANGED curr_seq_num

\* msg_type, channel_id, seq_num and timestamp.
store_header ==
    /\ store_field("header", "payload", [reserved EXCEPT !.seq_num = curr_seq_num])
    /\ curr_seq_num' = curr_seq_num + 1

\* The memcpy() of a long message runs over the checksum, stored next; the
\* longest also run over the first bytes of the next frame, whose marker
\* becomes a letter of the message.  Behind the last frame those leave the
\* mapping: the process dies of it, or another mapping is written to.
store_payload ==
    /\ phase = "running" /\ stage = "payload"
    /\ frames' = [i \in Frames |->
          IF i = curr_ - 1
          THEN [frames[i] EXCEPT !.payload = message,
                                 !.checksum = IF message \in LongMessages THEN Overrun ELSE @]
          ELSE IF i = curr_ /\ message \in LongestMessages
               THEN [frames[i] EXCEPT !.marker = "letter"]
          ELSE frames[i]]
    /\ stage' = "checksum"
    /\ \/ UNCHANGED <<phase, cause>>
       \/ /\ curr_ = NumFrames /\ message \in LongestMessages
          /\ phase' = "crashed" /\ cause' = "process"
    /\ UNCHANGED <<disk, curr_, curr_seq_num, message, logged, synced, damaged, recoveryVars>>

\* Mutated form: the checksum of the frame before the payload was copied.
store_checksum_stale ==
    /\ store_field("checksum", "idle",
           [reserved EXCEPT !.checksum = calculate_crc32([reserved EXCEPT !.payload = Zero])])
    /\ UNCHANGED curr_seq_num

store_checksum ==
    /\ store_field("checksum", "idle",
           [reserved EXCEPT !.checksum = calculate_crc32(reserved)])
    /\ UNCHANGED curr_seq_num

log_payload ==
    \/ \E m \in Messages : reserve_frame(m)
    \/ store_marker
    \/ store_header
    \/ store_payload
    \/ store_checksum

\* The kernel writes dirty pages back when it likes and in any order.
write_back(i) ==
    /\ phase = "running"
    /\ disk[i] # frames[i]
    /\ disk' = [disk EXCEPT ![i] = frames[i]]
    /\ UNCHANGED <<frames, curr_, curr_seq_num, stage, message, logged, synced,
                   crashVars, recoveryVars>>

\* Mutated form: the frame at curr_ is taken for the end of the range.
flush_to_disk_short ==
    /\ phase = "running" /\ stage = "idle"
    /\ disk' = [i \in Frames |-> IF i < curr_ - 1 THEN frames[i] ELSE disk[i]]
    /\ synced' = curr_
    /\ UNCHANGED <<frames, curr_, curr_seq_num, stage, message, logged, crashVars, recoveryVars>>

\* flush_to_disk(MS_SYNC), called by the thread that logs.  With MS_ASYNC it
\* promises nothing beyond write_back.
flush_to_disk ==
    /\ phase = "running" /\ stage = "idle"
    /\ disk' = [i \in Frames |-> IF i < curr_ THEN frames[i] ELSE disk[i]]
    /\ synced' = curr_
    /\ UNCHANGED <<frames, curr_, curr_seq_num, stage, message, logged, crashVars, recoveryVars>>

\* The process dies; the page cache survives.
crash ==
    /\ phase = "running"
    /\ phase' = "crashed" /\ cause' = "process"
    /\ UNCHANGED <<logVars, damaged, recoveryVars>>

\* The machine dies, at any time: only what reached the disk survives.  So it
\* is too when the program has been started again and its truncation of the
\* file has not reached the disk: the old log is back.
power_failure ==
    /\ phase' = "crashed" /\ cause' = "power"
    /\ frames' = [i \in Frames |-> IF i \in damaged THEN frames[i] ELSE disk[i]]
    /\ pos' = 0 /\ replayed' = <<>> /\ report_' = NoReport
    /\ UNCHANGED <<disk, curr_, curr_seq_num, stage, message, logged, synced, damaged>>

\* The medium damages one frame: other bytes under an intact marker (as the
\* crash recovery test does), or a failed block that reads as 0xFF.
damage(i) ==
    /\ phase = "crashed" /\ damaged = {}
    /\ damaged' = {i}
    /\ \/ frames' = [frames EXCEPT ![i].payload = "garbage"]
       \/ frames' = [frames EXCEPT ![i].marker = "0xFF", ![i].checksum = "0xFFFFFFFF"]
    /\ UNCHANGED <<disk, curr_, curr_seq_num, stage, message, logged, synced,
                   phase, cause, recoveryVars>>

\* The program is started again: main() constructs a new MmapLogger.
restart ==
    /\ phase \notin {"running", "recovering"}
    /\ frames' = [i \in Frames |-> BlankFrame]
    /\ disk' = [i \in Frames |-> BlankFrame]
    /\ curr_' = 0 /\ curr_seq_num' = 0
    /\ stage' = "idle" /\ message' = Zero
    /\ logged' = <<>> /\ synced' = 0
    /\ phase' = "running" /\ cause' = "none" /\ damaged' = {}
    /\ pos' = 0 /\ replayed' = <<>> /\ report_' = NoReport

-----------------------------------------------------------------------------
(* RecoveryEngine::run_recovery()                                           *)

\* Throws when the file cannot be opened or mapped, and may be called again.
run_recovery ==
    /\ phase \in {"crashed", "refused"}
    /\ phase' \in {"recovering", "refused"}
    /\ UNCHANGED <<logVars, cause, damaged, recoveryVars>>

\* The message goes to the order book.  An exception of the book leaves
\* run_recovery() before the frame is counted.
replay(f) ==
    \/ /\ Append(replayed, f.payload) \in Fatal
       /\ phase' = "thrown"
       /\ UNCHANGED recoveryVars
    \/ /\ Append(replayed, f.payload) \notin Fatal
       /\ replayed' = Append(replayed, f.payload)
       /\ report_' = [report_ EXCEPT !.records_processed = @ + 1,
                                     !.last_valid_seq = f.seq_num]
       /\ pos' = pos + 1
       /\ UNCHANGED phase

\* Mutated form: no break after a bad checksum.
scan_frame_no_break ==
    /\ phase = "recovering" /\ pos < NumFrames
    /\ LET f == frames[pos] IN
       \/ f.marker # "0xAA" /\ phase' = "recovered" /\ UNCHANGED recoveryVars
       \/ /\ f.marker = "0xAA" /\ calculate_crc32(f) # f.checksum
          /\ report_' = [report_ EXCEPT !.torn_write_detected = TRUE]
          /\ UNCHANGED <<pos, replayed, phase>>
       \/ f.marker = "0xAA" /\ calculate_crc32(f) = f.checksum /\ replay(f)
    /\ UNCHANGED <<logVars, cause, damaged>>

\* One turn of the loop over a frame of the file.
scan_frame ==
    /\ phase = "recovering" /\ pos < NumFrames
    /\ LET f == frames[pos] IN
       \/ f.marker # "0xAA" /\ phase' = "recovered" /\ UNCHANGED recoveryVars
       \/ /\ f.marker = "0xAA" /\ calculate_crc32(f) # f.checksum
          /\ report_' = [report_ EXCEPT !.torn_write_detected = TRUE]
          /\ phase' = "recovered"
          /\ UNCHANGED <<pos, replayed>>
       \/ f.marker = "0xAA" /\ calculate_crc32(f) = f.checksum /\ replay(f)
    /\ UNCHANGED <<logVars, cause, damaged>>

\* The loop has no other end than a frame that is not valid, so after a file
\* full of valid frames it reads the byte behind the mapping: that page is
\* not mapped, or the byte is no marker, or it is one and a torn write is
\* reported.  (A valid frame behind the mapping is left out.)
scan_past_end ==
    /\ phase = "recovering" /\ pos = NumFrames
    /\ \/ phase' = "fault" /\ UNCHANGED report_
       \/ phase' = "recovered" /\ UNCHANGED report_
       \/ /\ phase' = "recovered"
          /\ report_' = [report_ EXCEPT !.torn_write_detected = TRUE]
    /\ UNCHANGED <<logVars, cause, damaged, pos, replayed>>

Next ==
    \/ log_payload
    \/ \E i \in Frames : write_back(i) \/ damage(i)
    \/ flush_to_disk
    \/ crash
    \/ power_failure
    \/ restart
    \/ run_recovery
    \/ scan_frame
    \/ scan_past_end

Spec == Init /\ [][Next]_vars

\* run_recovery() is one loop in one thread: once called it keeps running.
FairSpec == Spec /\ WF_vars(scan_frame \/ scan_past_end)

-----------------------------------------------------------------------------
FrameContents ==
    [marker   : {"0x00", "0xAA", "0xFF", "letter"},
     seq_num  : 0 .. NumFrames,
     payload  : Messages \cup {Zero, "garbage"},
     checksum : Unsigned \cup {"0xFFFFFFFF"} \cup {"0xAA"} \X (0 .. NumFrames) \X Messages]

\* reserve_frame() stays inside the file, and so does recovery.
TypeOK ==
    /\ frames \in [Frames -> FrameContents] /\ disk \in [Frames -> FrameContents]
    /\ curr_ \in 0 .. NumFrames /\ curr_seq_num \in 0 .. NumFrames
    /\ stage \in {"idle", "marker", "header", "payload", "checksum"}
    /\ message \in Messages \cup {Zero}
    /\ logged \in Seq(Messages) /\ synced \in 0 .. NumFrames
    /\ phase \in {"running", "crashed", "recovering", "recovered", "thrown", "refused", "fault"}
    /\ cause \in {"none", "process", "power"} /\ damaged \subseteq Frames
    /\ pos \in 0 .. NumFrames /\ replayed \in Seq(Messages)
    /\ report_ \in [records_processed : Nat, last_valid_seq : Nat, torn_write_detected : BOOLEAN]

\* log_payload() calls that returned.
Completed == IF stage = "idle" THEN curr_ ELSE curr_ - 1

\* Where the running log_payload() is.
LoggingInStep ==
    /\ Len(logged) = curr_ /\ synced <= Completed
    /\ stage # "idle" => curr_ > 0 /\ message = logged[curr_]
    /\ curr_seq_num = IF stage \in {"marker", "header"} THEN curr_ - 1 ELSE curr_
    /\ phase = "running" => cause = "none" /\ damaged = {}
    /\ phase # "running" => cause \in {"process", "power"}

\* The frame of the i-th message, complete.
Whole(f, i) ==
    f = [marker |-> "0xAA", seq_num |-> i, payload |-> logged[i + 1],
         checksum |-> <<"0xAA", i, logged[i + 1]>>]

\* Frame i of the mapping while nothing but log_payload() has written to it.
AsStored(i) ==
    /\ i < Completed => Whole(frames[i], i)
    /\ i >= Completed => frames[i].checksum \in Unsigned
    /\ i = curr_ - 1 /\ stage \in {"header", "payload", "checksum"} => frames[i].marker = "0xAA"
    /\ i = curr_ - 1 /\ stage \in {"payload", "checksum"} => frames[i].seq_num = i
    /\ i = curr_ - 1 /\ stage = "checksum" => frames[i].payload = message
    /\ i >= curr_ \/ (i = curr_ - 1 /\ stage = "marker") => frames[i].marker \in {"0x00", "letter"}

\* Whatever else is lost or damaged, a checksum is the one stored for that
\* frame and its message, or the marker does not read 0xAA.
Signed(f, i) ==
    \/ f.checksum \in Unsigned
    \/ f.marker = "0xFF"
    \/ i < Len(logged) /\ f.checksum = <<"0xAA", i, logged[i + 1]>>

FileExplained ==
    /\ \A i \in Frames : Signed(frames[i], i) /\ Signed(disk[i], i)
    /\ \A i \in Frames : i < synced => Whole(disk[i], i)
    /\ damaged = {} /\ cause # "power" => \A i \in Frames : AsStored(i)
    /\ damaged = {} /\ cause = "power" => \A i \in Frames : i < synced => Whole(frames[i], i)

\* Where run_recovery() is.
RecoveryInStep ==
    /\ Len(replayed) = pos /\ pos <= Len(logged)
    /\ \A k \in 1 .. pos : replayed[k] = logged[k]
    /\ \A k \in 1 .. pos : SubSeq(logged, 1, k) \notin Fatal
    /\ report_.records_processed = pos /\ (pos > 0 => report_.last_valid_seq = pos - 1)
    /\ phase \in {"running", "crashed", "refused"} => pos = 0
    /\ phase # "recovered" => ~ report_.torn_write_detected
    /\ phase = "recovering" /\ damaged = {} /\ cause = "process" => pos <= Completed
    /\ phase = "recovered" /\ damaged = {} /\ cause = "process" =>
          /\ pos = Completed
          /\ pos < NumFrames =>
                (report_.torn_write_detected <=> stage \in {"header", "payload", "checksum"})
    /\ phase = "recovered" /\ damaged = {} /\ cause = "power" => pos >= synced
    /\ phase = "thrown" => pos < Len(logged) /\ SubSeq(logged, 1, pos + 1) \in Fatal

\* The invariant behind what recovery promises, between any two stores.
IInv == TypeOK /\ LoggingInStep /\ FileExplained /\ RecoveryInStep

\* Recovery replays a prefix of what was logged, in order, whatever the
\* kernel wrote back, wherever the crash fell and whichever frame the medium
\* damaged: never half a message, a damaged one or one from beyond a gap.
ReplayIsPrefix == \E n \in 0 .. Len(logged) : replayed = SubSeq(logged, 1, n)

\* The report tells the caller exactly which messages were applied: the
\* sequence number it ends with is the position of the last one replayed.
ReportNamesLastRecord ==
    /\ report_.records_processed = Len(replayed)
    /\ replayed # <<>> => report_.last_valid_seq = Len(replayed) - 1

\* With an undamaged file, every message whose log_payload() returned is
\* replayed after the process died, and every message logged before the last
\* flush_to_disk(MS_SYNC) is replayed after a power failure: all of them, or
\* all up to the first on which the book throws, which ends run_recovery()
\* there and leaves the frames behind it unread.
LoggedIsDurable ==
    phase \in {"recovered", "thrown"} /\ damaged = {} =>
        LET durable == IF cause = "process" THEN Completed ELSE synced
            n == Len(replayed)
        IN  /\ \A k \in 1 .. n : SubSeq(logged, 1, k) \notin Fatal
            /\ n < durable => phase = "thrown" /\ SubSeq(logged, 1, n + 1) \in Fatal

\* A torn write is reported only if there is one: on an undamaged file left
\* by a dead process, when the loop ended at a frame of the file, exactly when
\* the process died inside log_payload() with the frame begun.
TornMeansInterrupted ==
    phase = "recovered" /\ damaged = {} /\ cause = "process" /\ pos < NumFrames =>
        (report_.torn_write_detected <=> stage \in {"header", "payload", "checksum"})

\* run_recovery() comes to an end: it returns, throws, or dies behind the file.
RecoveryEnds == (phase = "recovering") ~> (phase # "recovering")

\* RecoveryEngine.h says that run_recovery() reconstructs the book from the
\* WAL; for that it must stay inside the file it mapped.
RecoveryStaysInFile == phase = "recovering" => pos \in Frames
=============================================================================
