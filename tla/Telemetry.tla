------------------------------ MODULE Telemetry ------------------------------
(***************************************************************************)
(* The latency profile of the book thread (main.cpp): consume() records a  *)
(* measurement for each order in one of two buffers; a slow order hands    *)
(* the buffer to log_telemetry() on another thread and consume() goes on   *)
(* in the other buffer.  Nothing tells consume() when a buffer has been    *)
(* written to the file, and a hand-off that finds the queue full is lost.  *)
(*                                                                         *)
(* A measurement is the ordinal of its order.  The hand-off queue is the   *)
(* bounded FIFO that SPSCQueue is shown to implement, of capacity 2 - 1;   *)
(* next to the buffer's index each element carries the number of its slow  *)
(* order, which the code does not store.                                   *)
(***************************************************************************)
EXTENDS Integers, Sequences

CONSTANT TELEMETRY_BUFFER_SIZE

BufferSizeOK == TELEMETRY_BUFFER_SIZE \in Nat \ {0}

VARIABLES
    buffers,        \* buffers[b][i]: the measurements
    active_buf,     \* the buffer consume() records in
    tel_idx,        \* its next position
    handoff, pushed, popped,    \* the hand-off queue
    logger,         \* log_telemetry(): "pop", "write", or "closed"
    block,          \* what it has written of the buffer it popped last
    total,          \* orders measured
    slowOrders      \* the ordinals of the slow ones

handoffVars == <<handoff, pushed, popped>>
loggerVars == <<logger, block>>
vars == <<buffers, active_buf, tel_idx, handoffVars, loggerVars, total, slowOrders>>

Positions == 0 .. TELEMETRY_BUFFER_SIZE - 1

\* Value-initialised elements, and the result of a read that overlaps a store.
Nothing == 0
Torn == -1

NoHandoff == [buf |-> 0, slow |-> 0]

Queue == INSTANCE BoundedFifo WITH
             Capacity <- 1, Values <- [buf : 0 .. 1, slow : Nat], NoValue <- NoHandoff,
             queue <- handoff, accepted <- pushed, delivered <- popped

\* log_telemetry() returns at once when it cannot open its file.
Init ==
    /\ buffers = [b \in 0 .. 1 |-> [i \in Positions |-> Nothing]]
    /\ active_buf = 0 /\ tel_idx = 0
    /\ Queue!Init
    /\ logger \in {"pop", "closed"} /\ block = <<>>
    /\ total = 0 /\ slowOrders = <<>>

-----------------------------------------------------------------------------
\* Mutated form: consume() goes on in the buffer it handed over.
flip_stays == UNCHANGED active_buf

flip == active_buf' = 1 - active_buf

\* telemetry_handoff_queue.push(active_buf): the result is not looked at.
push_buffer ==
    \/ Queue!Enqueue([buf |-> active_buf, slow |-> Len(slowOrders) + 1])
    \/ Len(handoff) = 1 /\ UNCHANGED handoffVars

\* Mutated form: the position is not advanced with the store.
next_position_stuck == tel_idx

\* (tel_idx + 1) & (TELEMETRY_BUFFER_SIZE - 1)
next_position == (tel_idx + 1) % TELEMETRY_BUFFER_SIZE

\* The end of consume()'s loop, for an order that was slow or not.
record(slow) ==
    /\ total' = total + 1
    /\ buffers' = [buffers EXCEPT ![active_buf][tel_idx] = total + 1]
    /\ \/ /\ slow
          /\ push_buffer
          /\ flip
          /\ tel_idx' = 0
          /\ slowOrders' = Append(slowOrders, total + 1)
       \/ /\ ~ slow
          /\ tel_idx' = next_position
          /\ UNCHANGED <<active_buf, handoffVars, slowOrders>>
    /\ UNCHANGED loggerVars

\* while (!tel_queue.pop(buf_idx)) spins until there is a buffer.
pop_buffer ==
    /\ logger = "pop"
    /\ Queue!Dequeue
    /\ logger' = "write" /\ block' = <<>>
    /\ UNCHANGED <<buffers, active_buf, tel_idx, total, slowOrders>>

\* output_file.write() copies the whole buffer, front to back, whoever writes
\* to it meanwhile.  A load that overlaps the store of record() is torn;
\* `storing' says that the book thread may be in that store.
write_record(storing) ==
    /\ logger = "write"
    /\ LET b == popped.buf
           i == Len(block)
       IN  \/ block' = Append(block, buffers[b][i])
           \/ storing /\ b = active_buf /\ i = tel_idx /\ block' = Append(block, Torn)
    /\ logger' = IF Len(block) + 1 = TELEMETRY_BUFFER_SIZE THEN "pop" ELSE "write"
    /\ UNCHANGED <<buffers, active_buf, tel_idx, handoffVars, total, slowOrders>>

\* On its own: any order may be slow and any moment may be in a store.
Next ==
    \/ \E slow \in BOOLEAN : record(slow)
    \/ pop_buffer
    \/ \E storing \in BOOLEAN : write_record(storing)

Spec == Init /\ [][Next]_vars

-----------------------------------------------------------------------------
\* Positions stay in the buffers and hand-offs name slow orders.
TypeOK ==
    /\ buffers \in [0 .. 1 -> [Positions -> Nat]]
    /\ active_buf \in 0 .. 1 /\ tel_idx \in Positions
    /\ \A h \in {pushed, popped} : h.buf \in 0 .. 1 /\ h.slow \in 0 .. Len(slowOrders)
    /\ Len(handoff) <= 1 /\ Len(block) <= TELEMETRY_BUFFER_SIZE
    /\ logger \in {"pop", "write", "closed"}
    /\ total \in Nat /\ slowOrders \in Seq(1 .. total)

\* Buffers handed over and not yet written to the end.
Outstanding ==
    {handoff[k] : k \in DOMAIN handoff} \cup (IF logger = "write" THEN {popped} ELSE {})

\* The only thing that keeps the two threads apart is the parity of the slow
\* orders: consume() records in a buffer that is waiting for the logger, or
\* is being written by it, exactly when an odd number of slow orders came
\* after the one that handed it over.
OwnerByParity ==
    \A h \in Outstanding : h.buf = active_buf <=> (Len(slowOrders) - h.slow) % 2 = 1

\* The measurements since the slow order before the k-th, up to the k-th and
\* at most as many as a buffer holds.
Episode(k) ==
    {n \in 1 .. slowOrders[k] : /\ k > 1 => n > slowOrders[k - 1]
                                /\ n > slowOrders[k] - TELEMETRY_BUFFER_SIZE}

\* Up to the next slow order the file gets what was handed over: no torn
\* measurement, and in the complete block the slow order with all those
\* before it, back to the slow order before it or as far as a buffer goes.
HandedOverIntact ==
    popped.slow > 0 /\ popped.slow = Len(slowOrders) =>
        /\ \A i \in DOMAIN block : block[i] # Torn
        /\ Len(block) = TELEMETRY_BUFFER_SIZE =>
              Episode(popped.slow) \subseteq {block[i] : i \in DOMAIN block}
=============================================================================
