------------------------ MODULE WriteAheadLogProofs --------------------------
(***************************************************************************)
(* The write-ahead log for every size of the file and every set of         *)
(* messages: what recovery replays and reports after any crash.            *)
(***************************************************************************)
EXTENDS WriteAheadLog, TLAPS

\* The file is blank when main() has constructed its MmapLogger.
LEMMA InitIInv ==
    ASSUME Init
    PROVE  IInv
<1>1. TypeOK
  BY NumFramesAssumption DEF Init, TypeOK, FrameContents, BlankFrame, NoReport, Unsigned
<1>2. LoggingInStep
  BY DEF Init, LoggingInStep, Completed
<1>3. FileExplained
  BY DEF Init, FileExplained, BlankFrame, Frames, Signed, AsStored, Completed, Unsigned
<1>4. RecoveryInStep
  BY DEF Init, RecoveryInStep, NoReport
<1> QED BY <1>1, <1>2, <1>3, <1>4 DEF IInv

\* Only the next frame is handed out; it is still blank, or holds the end of a
\* long message where its marker goes.
LEMMA ReserveIInv ==
    ASSUME IInv, NEW m \in Messages, reserve_frame(m)
    PROVE  IInv'
<1>1. /\ phase = "running" /\ stage = "idle" /\ curr_ < NumFrames /\ curr_' = curr_ + 1
      /\ message' = m /\ logged' = Append(logged, m) /\ stage' = "marker"
      /\ UNCHANGED <<frames, disk, curr_seq_num, synced, phase, cause, damaged,
                     pos, replayed, report_>>
  BY DEF reserve_frame, crashVars, recoveryVars
<1>2. logged \in Seq(Messages) /\ Len(logged) = curr_ /\ curr_ \in Nat
      /\ pos \in Nat /\ synced \in Nat
  BY NumFramesAssumption DEF IInv, TypeOK, LoggingInStep
<1>3. /\ logged' \in Seq(Messages) /\ Len(logged') = curr_ + 1 /\ logged'[curr_ + 1] = m
      /\ \A k \in 1 .. curr_ : logged'[k] = logged[k]
  BY <1>1, <1>2
<1>4. Completed' = curr_ /\ Completed = curr_
  BY <1>1, <1>2 DEF Completed
<1>5. TypeOK'
  BY <1>1, <1>2, <1>3, NumFramesAssumption DEF IInv, TypeOK
<1>6. LoggingInStep'
  BY <1>1, <1>2, <1>3, <1>4 DEF IInv, LoggingInStep
<1>7. \A i \in Frames : i < curr_ => i + 1 \in 1 .. curr_ /\ logged'[i + 1] = logged[i + 1]
  BY <1>2, <1>3 DEF Frames
<1>8. FileExplained'
  <2>1. \A i \in Frames : Signed(frames[i], i)' /\ Signed(disk[i], i)'
    BY <1>1, <1>2, <1>3, <1>7 DEF IInv, FileExplained, Signed, Frames
  <2>2. \A i \in Frames : i < synced => Whole(disk[i], i)'
    <3>1. synced <= curr_
      BY <1>4 DEF IInv, LoggingInStep
    <3> QED BY <1>1, <1>2, <1>7, <3>1 DEF IInv, FileExplained, Whole, Frames
  <2>3. \A i \in Frames : AsStored(i)'
    <3>1. \A i \in Frames : AsStored(i)
      BY <1>1 DEF IInv, FileExplained, LoggingInStep
    <3> TAKE i \in Frames
    <3>2. i < curr_ => Whole(frames[i], i)'
      BY <1>1, <1>2, <1>4, <1>7, <3>1 DEF AsStored, Whole, Frames
    <3>3. i >= curr_ => frames[i].checksum \in Unsigned /\ frames[i].marker \in {"0x00", "letter"}
      BY <1>1, <1>4, <3>1 DEF AsStored
    <3> QED BY <1>1, <1>2, <1>4, <3>2, <3>3 DEF AsStored, Frames
  <2>4. cause' = "none"
    BY <1>1 DEF IInv, LoggingInStep
  <2> QED BY <1>1, <2>1, <2>2, <2>3, <2>4 DEF FileExplained
<1>9. RecoveryInStep'
  BY <1>1, <1>2, <1>3 DEF IInv, RecoveryInStep
<1> QED BY <1>5, <1>6, <1>8, <1>9 DEF IInv

\* What the four stores of log_payload() have in common.
LEMMA StoreIInv ==
    ASSUME IInv, phase = "running", stage # "idle",
           stage' \in {"idle", "header", "payload", "checksum"},
           \/ phase' = "running" /\ cause' = cause
           \/ phase' = "crashed" /\ cause' = "process",
           frames' \in [Frames -> FrameContents],
           curr_seq_num' = IF stage' = "header" THEN curr_ - 1 ELSE curr_,
           \A i \in Frames : AsStored(i)',
           UNCHANGED <<disk, curr_, message, logged, synced, damaged, recoveryVars>>
    PROVE  IInv'
<1>1. /\ curr_ \in 1 .. NumFrames /\ Len(logged) = curr_ /\ message = logged[curr_]
      /\ cause = "none" /\ damaged = {} /\ Completed = curr_ - 1
      /\ Completed' \in {curr_ - 1, curr_}
  BY NumFramesAssumption DEF IInv, TypeOK, LoggingInStep, Completed
<1>2. TypeOK'
  BY <1>1, NumFramesAssumption DEF IInv, TypeOK, recoveryVars
<1>3. LoggingInStep'
  <2>1. synced <= Completed' /\ stage' # "marker"
    BY <1>1, NumFramesAssumption DEF IInv, TypeOK, LoggingInStep
  <2> QED BY <1>1, <2>1 DEF IInv, LoggingInStep
<1>4. FileExplained'
  <2>1. ASSUME NEW i \in Frames PROVE Signed(frames[i], i)'
    <3>1. CASE i < Completed'
      BY <1>1, <3>1 DEF AsStored, Whole, Signed, Frames
    <3>2. CASE i >= Completed'
      BY <3>2 DEF AsStored, Signed
    <3> QED BY <1>1, <3>1, <3>2 DEF Frames
  <2>2. \A i \in Frames : Signed(disk[i], i)' /\ (i < synced => Whole(disk[i], i)')
    BY DEF IInv, FileExplained, Signed, Whole
  <2> QED BY <1>1, <2>1, <2>2 DEF FileExplained
<1>5. RecoveryInStep'
  BY <1>1 DEF IInv, RecoveryInStep, recoveryVars
<1> QED BY <1>2, <1>3, <1>4, <1>5 DEF IInv

\* The state in which log_payload() stores into its frame.
LEMMA Storing ==
    ASSUME IInv, phase = "running", stage # "idle"
    PROVE  /\ curr_ \in 1 .. NumFrames /\ curr_ - 1 \in Frames /\ message = logged[curr_]
           /\ message \in Messages /\ Completed = curr_ - 1
           /\ curr_ - 1 + 1 = curr_
           /\ curr_seq_num = IF stage \in {"marker", "header"} THEN curr_ - 1 ELSE curr_
           /\ frames \in [Frames -> FrameContents]
           /\ \A i \in Frames : AsStored(i)
<1>1. /\ curr_ \in 1 .. NumFrames /\ message = logged[curr_] /\ Len(logged) = curr_
      /\ logged \in Seq(Messages) /\ frames \in [Frames -> FrameContents]
      /\ curr_seq_num = IF stage \in {"marker", "header"} THEN curr_ - 1 ELSE curr_
  BY NumFramesAssumption DEF IInv, TypeOK, LoggingInStep
<1>2. \A i \in Frames : AsStored(i)
  BY DEF IInv, LoggingInStep, FileExplained
<1>3. curr_ - 1 \in Frames /\ Completed = curr_ - 1 /\ curr_ - 1 + 1 = curr_
  BY <1>1, NumFramesAssumption DEF Frames, Completed
<1> QED BY <1>1, <1>2, <1>3

\* The marker is stored first.
LEMMA MarkerIInv ==
    ASSUME IInv, store_marker
    PROVE  IInv'
<1> DEFINE c == curr_ - 1
<1>1. /\ phase = "running" /\ stage = "marker" /\ stage' = "header"
      /\ frames' = [frames EXCEPT ![c] = [frames[c] EXCEPT !.marker = "0xAA"]]
      /\ UNCHANGED <<disk, curr_, curr_seq_num, message, logged, synced, phase, cause, damaged,
                     recoveryVars>>
  BY DEF store_marker, store_field, reserved, crashVars
<1>2. /\ curr_ \in 1 .. NumFrames /\ c \in Frames /\ Completed = c
      /\ curr_seq_num = c /\ frames \in [Frames -> FrameContents]
      /\ \A i \in Frames : AsStored(i)
  BY <1>1, Storing
<1>3. Completed' = c
  BY <1>1 DEF Completed
<1>4. /\ frames' \in [Frames -> FrameContents]
      /\ frames'[c].marker = "0xAA" /\ frames'[c].checksum = frames[c].checksum
      /\ \A i \in Frames : i # c => frames'[i] = frames[i]
  BY <1>1, <1>2 DEF FrameContents
<1>5. ASSUME NEW i \in Frames PROVE AsStored(i)'
  <2>1. CASE i = c
    BY <1>1, <1>2, <1>3, <1>4, <2>1 DEF AsStored
  <2>2. CASE i # c
    BY <1>1, <1>2, <1>3, <1>4, <2>2 DEF AsStored, Whole, Frames
  <2> QED BY <2>1, <2>2
<1> QED BY <1>1, <1>2, <1>4, <1>5, StoreIInv

\* Then the header, with the sequence number that is the frame's position.
LEMMA HeaderIInv ==
    ASSUME IInv, store_header
    PROVE  IInv'
<1> DEFINE c == curr_ - 1
<1>1. /\ phase = "running" /\ stage = "header" /\ stage' = "payload"
      /\ frames' = [frames EXCEPT ![c] = [frames[c] EXCEPT !.seq_num = curr_seq_num]]
      /\ curr_seq_num' = curr_seq_num + 1
      /\ UNCHANGED <<disk, curr_, message, logged, synced, phase, cause, damaged, recoveryVars>>
  BY DEF store_header, store_field, reserved, crashVars
<1>2. /\ curr_ \in 1 .. NumFrames /\ c \in Frames /\ Completed = c
      /\ curr_seq_num = c /\ c + 1 = curr_ /\ frames \in [Frames -> FrameContents]
      /\ \A i \in Frames : AsStored(i)
  BY <1>1, Storing
<1>3. Completed' = c /\ c \in 0 .. NumFrames
  BY <1>1, <1>2, NumFramesAssumption DEF Completed
<1>4. /\ frames' \in [Frames -> FrameContents]
      /\ frames'[c].seq_num = c /\ frames'[c].checksum = frames[c].checksum
      /\ frames'[c].marker = frames[c].marker
      /\ \A i \in Frames : i # c => frames'[i] = frames[i]
  BY <1>1, <1>2, <1>3 DEF FrameContents
<1>5. ASSUME NEW i \in Frames PROVE AsStored(i)'
  <2>1. CASE i = c
    BY <1>1, <1>2, <1>3, <1>4, <2>1 DEF AsStored
  <2>2. CASE i # c
    BY <1>1, <1>2, <1>3, <1>4, <2>2 DEF AsStored, Whole, Frames
  <2> QED BY <2>1, <2>2
<1> QED BY <1>1, <1>2, <1>4, <1>5, StoreIInv

\* Then the message, which may run into the frame behind it.
LEMMA PayloadIInv ==
    ASSUME IInv, store_payload
    PROVE  IInv'
<1> DEFINE c == curr_ - 1
<1>1. /\ phase = "running" /\ stage = "payload" /\ stage' = "checksum"
      /\ \/ phase' = "running" /\ cause' = cause
         \/ phase' = "crashed" /\ cause' = "process"
      /\ UNCHANGED <<disk, curr_, curr_seq_num, message, logged, synced, damaged, recoveryVars>>
  BY Zenon DEF store_payload
<1>2. /\ curr_ \in 1 .. NumFrames /\ c \in Frames /\ Completed = c /\ message \in Messages
      /\ curr_seq_num = curr_ /\ c + 1 = curr_ /\ frames \in [Frames -> FrameContents]
      /\ \A i \in Frames : AsStored(i)
  BY <1>1, Storing
<1>3. Completed' = c
  BY <1>1 DEF Completed
<1>4. ASSUME NEW i \in Frames
      PROVE  /\ frames'[i] \in FrameContents
             /\ i = c => /\ frames'[i].payload = message
                         /\ frames'[i].checksum \in {frames[i].checksum, Overrun}
                         /\ frames'[i].marker = frames[i].marker
                         /\ frames'[i].seq_num = frames[i].seq_num
             /\ i = curr_ => /\ frames'[i].checksum = frames[i].checksum
                             /\ frames'[i].marker \in {frames[i].marker, "letter"}
             /\ i \notin {c, curr_} => frames'[i] = frames[i]
  <2>1. frames[i] \in FrameContents
    BY <1>2
  <2>2. CASE i = c
    <3> DEFINE sum == IF message \in LongMessages THEN Overrun ELSE frames[i].checksum
    <3>1. frames'[i] = [frames[i] EXCEPT !.payload = message, !.checksum = sum]
      BY <2>2, Zenon DEF store_payload
    <3>2. sum \in {frames[i].checksum, Overrun} /\ Overrun \in Unsigned
      BY DEF Unsigned
    <3>3. i # curr_
      BY <1>2, <2>2
    <3> HIDE DEF sum
    <3>4. /\ frames'[i].payload = message /\ frames'[i].checksum = sum
          /\ frames'[i].marker = frames[i].marker /\ frames'[i].seq_num = frames[i].seq_num
      BY <2>1, <3>1 DEF FrameContents
    <3>5. frames'[i] \in FrameContents
      <4>1. sum \in Unsigned \cup {"0xFFFFFFFF"} \cup {"0xAA"} \X (0 .. NumFrames) \X Messages
        BY <2>1, <3>2 DEF FrameContents
      <4> QED BY <1>2, <2>1, <3>1, <4>1, Zenon DEF FrameContents
    <3> QED BY <2>2, <3>2, <3>3, <3>4, <3>5
  <2>3. CASE i # c
    <3>1. frames'[i] = frames[i] \/ (i = curr_ /\ frames'[i] = [frames[i] EXCEPT !.marker = "letter"])
      BY <2>3, Zenon DEF store_payload
    <3> QED BY <2>1, <2>3, <3>1 DEF FrameContents
  <2> QED BY <2>2, <2>3
<1>5. frames' \in [Frames -> FrameContents]
  <2>1. frames' = [i \in Frames |-> frames'[i]]
    BY Zenon DEF store_payload
  <2> QED BY <1>4, <2>1
<1>6. ASSUME NEW i \in Frames PROVE AsStored(i)'
  <2>1. CASE i = c
    <3>1. frames[i].checksum \in Unsigned /\ frames[i].marker = "0xAA" /\ frames[i].seq_num = i
      BY <1>1, <1>2, <2>1 DEF AsStored
    <3>2. /\ frames'[i].checksum \in Unsigned /\ frames'[i].marker = "0xAA" /\ frames'[i].seq_num = i
          /\ frames'[i].payload = message'
      BY <1>1, <1>4, <2>1, <3>1 DEF Unsigned
    <3> QED BY <1>1, <1>2, <1>3, <2>1, <3>2 DEF AsStored
  <2>2. CASE i = curr_
    <3>1. frames[i].checksum \in Unsigned /\ frames[i].marker \in {"0x00", "letter"}
      BY <1>2, <2>2 DEF AsStored
    <3>2. frames'[i].checksum \in Unsigned /\ frames'[i].marker \in {"0x00", "letter"}
      BY <1>4, <2>2, <3>1
    <3> QED BY <1>1, <1>2, <1>3, <2>2, <3>2 DEF AsStored
  <2>3. CASE i \notin {c, curr_}
    BY <1>1, <1>2, <1>3, <1>4, <2>3 DEF AsStored, Whole, Frames
  <2> QED BY <2>1, <2>2, <2>3
<1> QED BY <1>1, <1>2, <1>5, <1>6, StoreIInv

\* The checksum comes last and makes the frame whole.
LEMMA ChecksumIInv ==
    ASSUME IInv, store_checksum
    PROVE  IInv'
<1> DEFINE c == curr_ - 1
<1>1. /\ phase = "running" /\ stage = "checksum" /\ stage' = "idle"
      /\ frames' = [frames EXCEPT ![c] = [frames[c] EXCEPT !.checksum =
                        <<frames[c].marker, frames[c].seq_num, frames[c].payload>>]]
      /\ UNCHANGED <<disk, curr_, curr_seq_num, message, logged, synced, phase, cause, damaged,
                     recoveryVars>>
  BY DEF store_checksum, store_field, reserved, crashVars, calculate_crc32
<1>2. /\ curr_ \in 1 .. NumFrames /\ c \in Frames /\ Completed = c /\ message \in Messages
      /\ curr_seq_num = curr_ /\ c + 1 = curr_ /\ frames \in [Frames -> FrameContents]
      /\ message = logged[c + 1]
      /\ \A i \in Frames : AsStored(i)
  BY <1>1, Storing
<1>3. Completed' = curr_ /\ c \in 0 .. NumFrames
  BY <1>1, <1>2, NumFramesAssumption DEF Completed
<1>4. /\ frames[c].marker = "0xAA" /\ frames[c].seq_num = c /\ frames[c].payload = message
      /\ frames[c] \in FrameContents
  BY <1>1, <1>2 DEF AsStored
<1>5. /\ frames'[c] = [marker |-> "0xAA", seq_num |-> c, payload |-> message,
                        checksum |-> <<"0xAA", c, message>>]
      /\ \A i \in Frames : i # c => frames'[i] = frames[i]
  <2>1. frames'[c] = [frames[c] EXCEPT !.checksum = <<"0xAA", c, message>>]
    BY <1>1, <1>2, <1>4
  <2> QED BY <1>1, <1>2, <1>4, <2>1, Zenon DEF FrameContents
<1>6. frames' \in [Frames -> FrameContents]
  <2>1. frames'[c] \in FrameContents
    BY <1>2, <1>3, <1>5 DEF FrameContents
  <2> QED BY <1>1, <1>2, <1>5, <2>1
<1>7. ASSUME NEW i \in Frames PROVE AsStored(i)'
  <2>1. CASE i = c
    BY <1>1, <1>2, <1>3, <1>5, <2>1 DEF AsStored, Whole
  <2>2. CASE i # c
    BY <1>1, <1>2, <1>3, <1>5, <2>2 DEF AsStored, Whole, Frames
  <2> QED BY <2>1, <2>2
<1> QED BY <1>1, <1>2, <1>6, <1>7, StoreIInv

-----------------------------------------------------------------------------
\* The kernel may write a page back between any two stores.
LEMMA WriteBackIInv ==
    ASSUME IInv, NEW j \in Frames, write_back(j)
    PROVE  IInv'
<1>1. /\ phase = "running" /\ disk' = [disk EXCEPT ![j] = frames[j]]
      /\ UNCHANGED <<frames, curr_, curr_seq_num, stage, message, logged, synced,
                     phase, cause, damaged, pos, replayed, report_>>
  BY DEF write_back, crashVars, recoveryVars
<1>2. /\ frames \in [Frames -> FrameContents] /\ disk \in [Frames -> FrameContents]
      /\ cause = "none" /\ damaged = {} /\ synced <= Completed
      /\ synced \in Nat /\ Completed \in Int
  BY <1>1, NumFramesAssumption DEF IInv, TypeOK, LoggingInStep, Completed
<1>3. TypeOK'
  BY <1>1, <1>2 DEF IInv, TypeOK
<1>4. LoggingInStep' /\ RecoveryInStep'
  BY <1>1 DEF IInv, LoggingInStep, RecoveryInStep, Completed
<1>5. \A i \in Frames : disk'[i] = IF i = j THEN frames[j] ELSE disk[i]
  BY <1>1, <1>2
<1>6. FileExplained'
  <2>1. \A i \in Frames : AsStored(i)' /\ AsStored(i)
    BY <1>1, <1>2 DEF IInv, FileExplained, AsStored, Completed, Whole
  <2>2. \A i \in Frames : Signed(frames[i], i)' /\ Signed(disk[i], i)'
    BY <1>1, <1>5 DEF IInv, FileExplained, Signed
  <2>3. \A i \in Frames : i < synced => Whole(disk[i], i)'
    <3>1. \A i \in Frames : i < synced => i < Completed
      BY <1>2 DEF Frames
    <3> QED BY <1>1, <1>5, <2>1, <3>1 DEF IInv, FileExplained, Whole, AsStored
  <2> QED BY <1>1, <1>2, <2>1, <2>2, <2>3 DEF FileExplained
<1> QED BY <1>3, <1>4, <1>6 DEF IInv

\* msync(MS_SYNC) between two messages puts whole frames on the disk.
LEMMA FlushIInv ==
    ASSUME IInv, flush_to_disk
    PROVE  IInv'
<1>1. /\ phase = "running" /\ stage = "idle"
      /\ disk' = [i \in Frames |-> IF i < curr_ THEN frames[i] ELSE disk[i]]
      /\ synced' = curr_
      /\ UNCHANGED <<frames, curr_, curr_seq_num, stage, message, logged,
                     phase, cause, damaged, pos, replayed, report_>>
  BY DEF flush_to_disk, crashVars, recoveryVars
<1>2. /\ frames \in [Frames -> FrameContents] /\ disk \in [Frames -> FrameContents]
      /\ cause = "none" /\ damaged = {} /\ Completed = curr_ /\ curr_ \in 0 .. NumFrames
  BY <1>1 DEF IInv, TypeOK, LoggingInStep, Completed
<1>3. TypeOK'
  BY <1>1, <1>2 DEF IInv, TypeOK
<1>4. LoggingInStep' /\ RecoveryInStep'
  BY <1>1, <1>2, NumFramesAssumption DEF IInv, LoggingInStep, RecoveryInStep, Completed
<1>5. FileExplained'
  <2>1. \A i \in Frames : AsStored(i)' /\ AsStored(i)
    BY <1>1, <1>2 DEF IInv, FileExplained, AsStored, Completed, Whole
  <2>2. \A i \in Frames : Signed(frames[i], i)' /\ Signed(disk[i], i)'
    BY <1>1 DEF IInv, FileExplained, Signed
  <2>3. \A i \in Frames : i < curr_ => Whole(disk[i], i)'
    BY <1>1, <1>2, <2>1 DEF Whole, AsStored
  <2> QED BY <1>1, <1>2, <2>1, <2>2, <2>3 DEF FileExplained
<1> QED BY <1>3, <1>4, <1>5 DEF IInv

\* A dead process leaves the mapping.
LEMMA CrashIInv ==
    ASSUME IInv, crash
    PROVE  IInv'
<1>1. /\ phase = "running" /\ phase' = "crashed" /\ cause' = "process"
      /\ UNCHANGED <<frames, disk, curr_, curr_seq_num, stage, message, logged, synced,
                     damaged, pos, replayed, report_>>
  BY DEF crash, logVars, recoveryVars
<1>2. cause = "none" /\ damaged = {}
  BY <1>1 DEF IInv, LoggingInStep
<1>3. TypeOK'
  BY <1>1 DEF IInv, TypeOK
<1>4. LoggingInStep' /\ RecoveryInStep'
  BY <1>1 DEF IInv, LoggingInStep, RecoveryInStep, Completed
<1>5. FileExplained'
  BY <1>1, <1>2 DEF IInv, FileExplained, AsStored, Completed, Whole, Signed
<1> QED BY <1>3, <1>4, <1>5 DEF IInv

\* A power failure leaves what is on the disk.
LEMMA PowerIInv ==
    ASSUME IInv, power_failure
    PROVE  IInv'
<1>1. /\ phase' = "crashed" /\ cause' = "power"
      /\ frames' = [i \in Frames |-> IF i \in damaged THEN frames[i] ELSE disk[i]]
      /\ UNCHANGED <<disk, curr_, curr_seq_num, stage, message, logged, synced, damaged>>
      /\ pos' = 0 /\ replayed' = <<>> /\ report_' = NoReport
  BY DEF power_failure
<1>2. frames \in [Frames -> FrameContents] /\ disk \in [Frames -> FrameContents]
      /\ curr_ \in Nat /\ Len(logged) = curr_
  BY NumFramesAssumption DEF IInv, TypeOK, LoggingInStep
<1>3. \A i \in Frames : /\ frames'[i] \in {frames[i], disk[i]}
                       /\ damaged = {} => frames'[i] = disk[i]
  BY <1>1
<1>4. TypeOK'
  BY <1>1, <1>2, <1>3, NumFramesAssumption DEF IInv, TypeOK, NoReport
<1>5. LoggingInStep'
  BY <1>1 DEF IInv, LoggingInStep, Completed
<1>6. RecoveryInStep'
  BY <1>1, <1>2 DEF RecoveryInStep, NoReport
<1>7. FileExplained'
  <2>1. \A i \in Frames : Signed(frames[i], i)' /\ Signed(disk[i], i)'
    BY <1>1, <1>3 DEF IInv, FileExplained, Signed
  <2>2. \A i \in Frames : i < synced => Whole(disk[i], i)'
    BY <1>1 DEF IInv, FileExplained, Whole
  <2> QED BY <1>1, <1>3, <2>1, <2>2 DEF FileExplained, Whole
<1> QED BY <1>4, <1>5, <1>6, <1>7 DEF IInv

\* Damage leaves the checksum that was stored, or destroys the marker.
LEMMA DamageIInv ==
    ASSUME IInv, NEW j \in Frames, damage(j)
    PROVE  IInv'
<1>1. /\ phase = "crashed" /\ damaged' = {j}
      /\ UNCHANGED <<disk, curr_, curr_seq_num, stage, message, logged, synced,
                     phase, cause, pos, replayed, report_>>
      /\ \/ frames' = [frames EXCEPT ![j].payload = "garbage"]
         \/ frames' = [frames EXCEPT ![j].marker = "0xFF", ![j].checksum = "0xFFFFFFFF"]
  BY DEF damage, recoveryVars
<1>2. frames \in [Frames -> FrameContents]
  BY DEF IInv, TypeOK
<1>3. /\ \A i \in Frames : i # j => frames'[i] = frames[i]
      /\ frames'[j].marker = "0xFF" \/ frames'[j].checksum = frames[j].checksum
      /\ frames'[j].marker \in {"0xFF", frames[j].marker}
      /\ frames' \in [Frames -> FrameContents]
  BY <1>1, <1>2 DEF FrameContents
<1>4. TypeOK'
  BY <1>1, <1>3 DEF IInv, TypeOK
<1>5. LoggingInStep' /\ RecoveryInStep'
  BY <1>1 DEF IInv, LoggingInStep, RecoveryInStep, Completed
<1>6. FileExplained'
  <2>1. \A i \in Frames : Signed(frames[i], i)'
    BY <1>1, <1>3 DEF IInv, FileExplained, Signed
  <2>2. \A i \in Frames : Signed(disk[i], i)' /\ (i < synced => Whole(disk[i], i)')
    BY <1>1 DEF IInv, FileExplained, Whole, Signed
  <2> QED BY <1>1, <2>1, <2>2 DEF FileExplained
<1> QED BY <1>4, <1>5, <1>6 DEF IInv

\* main() constructs a new MmapLogger, which truncates the file.
LEMMA RestartIInv ==
    ASSUME restart
    PROVE  IInv'
<1>1. TypeOK'
  BY NumFramesAssumption DEF restart, TypeOK, FrameContents, BlankFrame, NoReport, Unsigned
<1>2. LoggingInStep'
  BY DEF restart, LoggingInStep, Completed
<1>3. FileExplained'
  BY DEF restart, FileExplained, BlankFrame, Frames, Signed, AsStored, Completed, Unsigned
<1>4. RecoveryInStep'
  BY DEF restart, RecoveryInStep, NoReport
<1> QED BY <1>1, <1>2, <1>3, <1>4 DEF IInv

-----------------------------------------------------------------------------
\* What run_recovery() leaves alone.
LEMMA FileKept ==
    ASSUME IInv, UNCHANGED <<logVars, cause, damaged>>
    PROVE  FileExplained' /\ Completed' = Completed
BY DEF IInv, FileExplained, AsStored, Whole, Signed, Completed, logVars

\* A frame that passes both tests is the frame of the message at its position.
LEMMA ValidIsLogged ==
    ASSUME IInv, pos < NumFrames,
           frames[pos].marker = "0xAA", calculate_crc32(frames[pos]) = frames[pos].checksum
    PROVE  /\ pos < Len(logged) /\ frames[pos].seq_num = pos
           /\ frames[pos].payload = logged[pos + 1]
<1> DEFINE f == frames[pos]
<1>1. pos \in Frames /\ f \in FrameContents
  BY NumFramesAssumption DEF IInv, TypeOK, Frames
<1>2. f.checksum = <<"0xAA", f.seq_num, f.payload>>
  BY DEF calculate_crc32
<1>3. f.checksum \notin Unsigned
  BY <1>1, <1>2, UnsignedAssumption DEF FrameContents
<1>4. Signed(f, pos)
  BY <1>1 DEF IInv, FileExplained
<1>5. pos < Len(logged) /\ f.checksum = <<"0xAA", pos, logged[pos + 1]>>
  BY <1>3, <1>4 DEF Signed
<1> QED BY <1>2, <1>5

\* A frame that is whole passes both tests.
LEMMA WholeIsValid ==
    ASSUME NEW i, NEW f, Whole(f, i)
    PROVE  f.marker = "0xAA" /\ calculate_crc32(f) = f.checksum
BY DEF Whole, calculate_crc32

\* What the book has been given, with the next message of the log.
LEMMA NextPrefix ==
    ASSUME IInv, pos < Len(logged)
    PROVE  Append(replayed, logged[pos + 1]) = SubSeq(logged, 1, pos + 1)
<1>1. /\ logged \in Seq(Messages) /\ replayed \in Seq(Messages)
      /\ Len(replayed) = pos /\ pos \in Nat
      /\ \A k \in 1 .. pos : replayed[k] = logged[k]
  BY NumFramesAssumption DEF IInv, TypeOK, RecoveryInStep
<1> DEFINE longer == Append(replayed, logged[pos + 1])
           prefix == SubSeq(logged, 1, pos + 1)
<1>2. logged[pos + 1] \in Messages
  BY <1>1
<1>3. longer \in Seq(Messages) /\ Len(longer) = pos + 1
      /\ \A k \in 1 .. pos + 1 : longer[k] = logged[k]
  BY <1>1, <1>2
<1>4. prefix \in Seq(Messages) /\ Len(prefix) = pos + 1
      /\ \A k \in 1 .. pos + 1 : prefix[k] = logged[k]
  BY <1>1
<1> HIDE DEF longer, prefix
<1>5. longer = prefix
  BY <1>1, <1>3, <1>4
<1> QED BY <1>5 DEF longer, prefix

\* One turn of the loop over a frame of the file.
LEMMA ScanIInv ==
    ASSUME IInv, scan_frame
    PROVE  IInv'
<1> DEFINE f == frames[pos]
           valid == f.marker = "0xAA" /\ calculate_crc32(f) = f.checksum
<1>1. /\ phase = "recovering" /\ pos < NumFrames /\ pos \in Frames
      /\ UNCHANGED <<frames, disk, curr_, curr_seq_num, stage, message, logged, synced,
                     cause, damaged>>
  BY NumFramesAssumption DEF scan_frame, logVars, IInv, TypeOK, Frames
<1>2. FileExplained' /\ Completed' = Completed
  BY FileKept DEF scan_frame
<1>3. /\ logged \in Seq(Messages) /\ replayed \in Seq(Messages) /\ Len(replayed) = pos
      /\ pos \in Nat /\ Len(logged) = curr_ /\ curr_ \in 0 .. NumFrames
      /\ synced \in Nat /\ synced <= Completed /\ NumFrames \in Nat
      /\ cause \in {"process", "power"} /\ ~ report_.torn_write_detected
      /\ stage # "idle" => curr_ > 0
  BY <1>1, NumFramesAssumption DEF IInv, TypeOK, LoggingInStep, RecoveryInStep
<1>4. report_ \in [records_processed : Nat, last_valid_seq : Nat, torn_write_detected : BOOLEAN]
  BY DEF IInv, TypeOK
<1>5. damaged = {} /\ cause = "process" => pos <= Completed
  BY <1>1 DEF IInv, RecoveryInStep
<1>6. damaged = {} /\ cause = "process" => AsStored(pos)
  BY <1>1 DEF IInv, FileExplained
<1>7. Completed \in Int /\ Completed \in {curr_, curr_ - 1}
  BY <1>3 DEF Completed
<1>8. CASE valid /\ replay(f) /\ Append(replayed, f.payload) \notin Fatal
  <2>1. /\ replayed' = Append(replayed, f.payload) /\ pos' = pos + 1 /\ phase' = phase
        /\ report_' = [report_ EXCEPT !.records_processed = @ + 1, !.last_valid_seq = f.seq_num]
    BY <1>8 DEF replay
  <2>2. pos < Len(logged) /\ f.seq_num = pos /\ f.payload = logged[pos + 1]
    BY <1>1, <1>8, ValidIsLogged
  <2>3. f.payload \in Messages
    BY <1>3, <2>2
  <2>4. /\ replayed' \in Seq(Messages) /\ Len(replayed') = pos + 1
        /\ replayed'[pos + 1] = logged[pos + 1]
        /\ \A k \in 1 .. pos : replayed'[k] = replayed[k]
    BY <1>3, <2>1, <2>2, <2>3
  <2>5. /\ report_' \in [records_processed : Nat, last_valid_seq : Nat, torn_write_detected : BOOLEAN]
        /\ report_'.records_processed = pos + 1 /\ report_'.last_valid_seq = pos
        /\ report_'.torn_write_detected = report_.torn_write_detected
    <3>1. report_.records_processed = pos
      BY DEF IInv, RecoveryInStep
    <3> DEFINE n == report_.records_processed + 1
               q == f.seq_num
    <3>2. n = pos + 1 /\ q = pos /\ n \in Nat /\ q \in Nat
      BY <1>3, <2>2, <3>1
    <3>3. report_' = [report_ EXCEPT !.records_processed = n, !.last_valid_seq = q]
      BY <2>1
    <3> HIDE DEF n, q
    <3>4. /\ report_' \in [records_processed : Nat, last_valid_seq : Nat, torn_write_detected : BOOLEAN]
          /\ report_'.records_processed = n /\ report_'.last_valid_seq = q
          /\ report_'.torn_write_detected = report_.torn_write_detected
      BY <1>4, <3>2, <3>3, Zenon
    <3> QED BY <3>2, <3>4
  <2>6. TypeOK'
    BY <1>1, <1>3, <2>1, <2>4, <2>5 DEF IInv, TypeOK
  <2>7. LoggingInStep'
    BY <1>1, <1>2, <2>1 DEF IInv, LoggingInStep
  <2>8. damaged = {} /\ cause = "process" => pos + 1 <= Completed
    <3> SUFFICES ASSUME damaged = {}, cause = "process", pos >= Completed PROVE FALSE
      BY <1>3, <1>7
    <3>1. f.checksum \in Unsigned
      BY <1>6 DEF AsStored
    <3>2. f.checksum \notin Unsigned
      <4>1. f \in FrameContents
        BY <1>1 DEF IInv, TypeOK
      <4> QED BY <1>8, <4>1, UnsignedAssumption DEF FrameContents, calculate_crc32
    <3> QED BY <3>1, <3>2
  <2>9. \A k \in 1 .. pos + 1 : replayed'[k] = logged[k]
    <3> TAKE k \in 1 .. pos + 1
    <3>1. CASE k = pos + 1
      BY <2>4, <3>1
    <3>2. CASE k # pos + 1
      BY <1>3, <2>4, <3>2 DEF IInv, RecoveryInStep
    <3> QED BY <3>1, <3>2
  <2>10. \A k \in 1 .. pos + 1 : SubSeq(logged, 1, k) \notin Fatal
    <3> TAKE k \in 1 .. pos + 1
    <3>1. CASE k = pos + 1
      BY <1>8, <2>2, <3>1, NextPrefix, Zenon
    <3>2. CASE k # pos + 1
      BY <1>3, <3>2 DEF IInv, RecoveryInStep
    <3> QED BY <3>1, <3>2
  <2>11. RecoveryInStep'
    BY <1>1, <1>2, <1>3, <2>1, <2>2, <2>4, <2>5, <2>8, <2>9, <2>10 DEF RecoveryInStep
  <2> QED BY <1>2, <2>6, <2>7, <2>11 DEF IInv
<1>9. CASE ~ valid /\ phase' = "recovered" /\ UNCHANGED <<pos, replayed>>
           /\ report_' = [report_ EXCEPT !.torn_write_detected = (f.marker = "0xAA")]
  <2>1. /\ report_' \in [records_processed : Nat, last_valid_seq : Nat, torn_write_detected : BOOLEAN]
        /\ report_'.records_processed = report_.records_processed
        /\ report_'.last_valid_seq = report_.last_valid_seq
        /\ report_'.torn_write_detected <=> f.marker = "0xAA"
    BY <1>4, <1>9, Zenon
  <2>2. TypeOK'
    BY <1>1, <1>9, <2>1 DEF IInv, TypeOK
  <2>3. LoggingInStep'
    BY <1>1, <1>2, <1>3, <1>9 DEF IInv, LoggingInStep
  <2>4. ASSUME damaged = {}, cause = "process"
        PROVE  pos = Completed /\ (f.marker = "0xAA" <=> stage \in {"header", "payload", "checksum"})
    <3>1. AsStored(pos) /\ pos <= Completed
      BY <1>5, <1>6, <2>4
    <3>2. ~ (pos < Completed)
      BY <1>9, <3>1, WholeIsValid DEF AsStored
    <3>3. pos = Completed
      BY <1>3, <1>7, <3>1, <3>2
    <3>4. stage \in {"idle", "marker", "header", "payload", "checksum"}
      BY DEF IInv, TypeOK
    <3>5. CASE stage = "idle"
      BY <1>3, <3>1, <3>3, <3>5 DEF AsStored, Completed
    <3>6. CASE stage # "idle"
      BY <1>3, <3>1, <3>3, <3>4, <3>6 DEF AsStored, Completed
    <3> QED BY <3>3, <3>5, <3>6
  <2>5. ASSUME damaged = {}, cause = "power" PROVE pos >= synced
    <3>1. pos < synced => Whole(f, pos)
      BY <1>1, <2>5 DEF IInv, FileExplained
    <3>2. ~ (pos < synced)
      BY <1>9, <3>1, WholeIsValid
    <3> QED BY <1>3, <3>2
  <2>6. RecoveryInStep'
    BY <1>1, <1>2, <1>3, <1>9, <2>1, <2>4, <2>5 DEF IInv, RecoveryInStep
  <2> QED BY <1>2, <2>2, <2>3, <2>6 DEF IInv
<1>10. CASE valid /\ replay(f) /\ Append(replayed, f.payload) \in Fatal
  <2>1. phase' = "thrown" /\ UNCHANGED <<pos, replayed, report_>>
    BY <1>10 DEF replay, recoveryVars
  <2>2. pos < Len(logged) /\ SubSeq(logged, 1, pos + 1) \in Fatal
    BY <1>1, <1>10, ValidIsLogged, NextPrefix, Zenon
  <2>3. TypeOK' /\ LoggingInStep'
    BY <1>1, <1>2, <1>3, <2>1 DEF IInv, TypeOK, LoggingInStep
  <2>4. RecoveryInStep'
    BY <1>1, <1>2, <1>3, <2>1, <2>2 DEF IInv, RecoveryInStep
  <2> QED BY <1>2, <2>3, <2>4 DEF IInv
<1>11. \/ valid /\ replay(f)
       \/ /\ ~ valid /\ phase' = "recovered" /\ UNCHANGED <<pos, replayed>>
          /\ report_' = [report_ EXCEPT !.torn_write_detected = (f.marker = "0xAA")]
  <2>1. CASE f.marker # "0xAA" /\ phase' = "recovered" /\ UNCHANGED recoveryVars
    <3>1. report_ = [report_ EXCEPT !.torn_write_detected = (f.marker = "0xAA")]
      BY <1>3, <1>4, <2>1
    <3> QED BY <2>1, <3>1 DEF recoveryVars
  <2>2. CASE /\ f.marker = "0xAA" /\ calculate_crc32(f) # f.checksum
             /\ report_' = [report_ EXCEPT !.torn_write_detected = TRUE]
             /\ phase' = "recovered" /\ UNCHANGED <<pos, replayed>>
    BY <2>2, Zenon
  <2> QED BY <2>1, <2>2 DEF scan_frame
<1> QED BY <1>8, <1>9, <1>10, <1>11

\* run_recovery() begins, or is refused the file.
LEMMA RecoverIInv ==
    ASSUME IInv, run_recovery
    PROVE  IInv'
<1>1. /\ phase \in {"crashed", "refused"} /\ phase' \in {"recovering", "refused"}
      /\ UNCHANGED <<frames, disk, curr_, curr_seq_num, stage, message, logged, synced,
                     cause, damaged, pos, replayed, report_>>
      /\ FileExplained' /\ Completed' = Completed
  BY FileKept DEF run_recovery, logVars, recoveryVars
<1>2. Completed >= 0 /\ pos = 0
  BY <1>1, NumFramesAssumption DEF IInv, TypeOK, LoggingInStep, RecoveryInStep, Completed
<1>3. TypeOK' /\ LoggingInStep'
  BY <1>1 DEF IInv, TypeOK, LoggingInStep
<1>4. RecoveryInStep'
  BY <1>1, <1>2 DEF IInv, RecoveryInStep
<1> QED BY <1>1, <1>3, <1>4 DEF IInv

\* Or reads behind a file full of valid frames.
LEMMA PastEndIInv ==
    ASSUME IInv, scan_past_end
    PROVE  IInv'
<1>1. /\ phase = "recovering" /\ pos = NumFrames
      /\ UNCHANGED <<frames, disk, curr_, curr_seq_num, stage, message, logged, synced,
                     cause, damaged, pos, replayed>>
      /\ FileExplained' /\ Completed' = Completed
  BY FileKept DEF scan_past_end, logVars
<1>2. /\ pos <= curr_ /\ curr_ <= NumFrames /\ synced <= Completed /\ synced <= pos
      /\ (damaged = {} /\ cause = "process" => pos <= Completed)
      /\ stage \in {"idle", "marker", "header", "payload", "checksum"}
      /\ curr_ \in Nat /\ pos \in Nat /\ NumFrames \in Nat
  BY <1>1, NumFramesAssumption DEF IInv, TypeOK, LoggingInStep, RecoveryInStep
<1>3. damaged = {} /\ cause = "process" => pos = Completed
  BY <1>1, <1>2 DEF Completed
<1>4. /\ report_' \in [records_processed : Nat, last_valid_seq : Nat, torn_write_detected : BOOLEAN]
      /\ report_'.records_processed = report_.records_processed
      /\ report_'.last_valid_seq = report_.last_valid_seq
      /\ phase' = "recovered" \/ (phase' = "fault" /\ report_' = report_)
  <2>1. report_ \in [records_processed : Nat, last_valid_seq : Nat, torn_write_detected : BOOLEAN]
    BY DEF IInv, TypeOK
  <2> QED BY <2>1, Zenon DEF scan_past_end
<1>5. TypeOK' /\ LoggingInStep'
  BY <1>1, <1>4 DEF IInv, TypeOK, LoggingInStep
<1>6. RecoveryInStep'
  BY <1>1, <1>2, <1>3, <1>4 DEF IInv, RecoveryInStep
<1> QED BY <1>1, <1>5, <1>6 DEF IInv

-----------------------------------------------------------------------------
\* Every store, write-back, crash, damage and turn of the loop keeps the
\* invariant.
THEOREM Invariance == Spec => []IInv
<1>1. Init => IInv
  BY InitIInv
<1>2. IInv /\ [Next]_vars => IInv'
  <2> SUFFICES ASSUME IInv, [Next]_vars PROVE IInv'
    OBVIOUS
  <2>1. CASE log_payload
    BY <2>1, ReserveIInv, MarkerIInv, HeaderIInv, PayloadIInv, ChecksumIInv DEF log_payload
  <2>2. ASSUME NEW i \in Frames, write_back(i) \/ damage(i) PROVE IInv'
    BY <2>2, WriteBackIInv, DamageIInv
  <2>3. CASE flush_to_disk
    BY <2>3, FlushIInv
  <2>4. CASE crash
    BY <2>4, CrashIInv
  <2>5. CASE power_failure \/ restart
    BY <2>5, PowerIInv, RestartIInv
  <2>6. CASE run_recovery \/ scan_past_end
    BY <2>6, RecoverIInv, PastEndIInv
  <2>7. CASE scan_frame
    BY <2>7, ScanIInv
  <2>8. CASE UNCHANGED vars
    BY <2>8 DEF vars, logVars, crashVars, recoveryVars, IInv, TypeOK, LoggingInStep, Completed,
                FileExplained, AsStored, Whole, Signed, RecoveryInStep
  <2> QED BY <2>1, <2>2, <2>3, <2>4, <2>5, <2>6, <2>7, <2>8 DEF Next
<1> QED BY <1>1, <1>2, PTL DEF Spec

\* For every file size: recovery replays a prefix of what was logged.
THEOREM PrefixReplayed == Spec => []ReplayIsPrefix
<1>1. IInv => ReplayIsPrefix
  <2> SUFFICES ASSUME IInv PROVE ReplayIsPrefix
    OBVIOUS
  <2>1. /\ logged \in Seq(Messages) /\ replayed \in Seq(Messages)
        /\ Len(replayed) <= Len(logged) /\ pos = Len(replayed)
        /\ \A k \in 1 .. pos : replayed[k] = logged[k]
    BY DEF IInv, TypeOK, RecoveryInStep
  <2>2. replayed = SubSeq(logged, 1, pos) /\ pos \in 0 .. Len(logged)
    BY <2>1
  <2> QED BY <2>2 DEF ReplayIsPrefix
<1> QED BY <1>1, Invariance, PTL

\* For every file size: the report names the last record replayed.
THEOREM ReportExact == Spec => []ReportNamesLastRecord
<1>1. IInv => ReportNamesLastRecord
  <2> SUFFICES ASSUME IInv PROVE ReportNamesLastRecord
    OBVIOUS
  <2>1. /\ replayed \in Seq(Messages) /\ Len(replayed) = pos
        /\ report_.records_processed = pos /\ (pos > 0 => report_.last_valid_seq = pos - 1)
    BY DEF IInv, TypeOK, RecoveryInStep
  <2> QED BY <2>1 DEF ReportNamesLastRecord
<1> QED BY <1>1, Invariance, PTL

\* For every file size and every book: completed calls survive the process and
\* synced ones a power failure, up to the first message the book throws on.
THEOREM Durability == Spec => []LoggedIsDurable
<1>1. IInv => LoggedIsDurable
  <2> SUFFICES ASSUME IInv, phase \in {"recovered", "thrown"}, damaged = {}
               PROVE  LoggedIsDurable
    BY DEF LoggedIsDurable
  <2> DEFINE durable == IF cause = "process" THEN Completed ELSE synced
  <2>1. Len(replayed) = pos /\ pos \in Nat /\ cause \in {"process", "power"}
    BY NumFramesAssumption DEF IInv, TypeOK, LoggingInStep, RecoveryInStep
  <2>2. \A k \in 1 .. pos : SubSeq(logged, 1, k) \notin Fatal
    BY DEF IInv, RecoveryInStep
  <2>3. phase = "recovered" => ~ (pos < durable)
    BY <2>1 DEF IInv, RecoveryInStep, TypeOK, LoggingInStep, Completed
  <2>4. phase = "thrown" => SubSeq(logged, 1, pos + 1) \in Fatal
    BY DEF IInv, RecoveryInStep
  <2> QED BY <2>1, <2>2, <2>3, <2>4 DEF LoggedIsDurable
<1> QED BY <1>1, Invariance, PTL

\* For every file size: a torn write is reported exactly when there is one.
THEOREM TornExact == Spec => []TornMeansInterrupted
<1>1. IInv => TornMeansInterrupted
  BY DEF IInv, RecoveryInStep, TornMeansInterrupted
<1> QED BY <1>1, Invariance, PTL
=============================================================================
