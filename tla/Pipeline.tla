------------------------------ MODULE Pipeline -------------------------------
(***************************************************************************)
(* The running program: the network thread parses blocks of ITCH messages  *)
(* (ItchParser::parse_block), writes each message to the log and then      *)
(* hands orders to the book thread through the queue; consume() in         *)
(* main.cpp applies them.  After a crash run_recovery() applies the log to *)
(* a new book.                                                             *)
(*                                                                         *)
(* The queue is the bounded FIFO that SPSCQueue is shown to implement, the *)
(* log the sequence of complete frames that WriteAheadLog is shown to      *)
(* recover.  The book is what the later messages can tell: the shares of   *)
(* each resting order.  Telemetry is the module of that name; consume() is *)
(* its book thread.                                                        *)
(***************************************************************************)
EXTENDS Integers, Sequences, SequencesExt, FiniteSets

CONSTANTS
    QueueCapacity,  \* QUEUE_SIZE - 1
    NumFrames,      \* frames in the log file
    MaxOrders,      \* slots of the order pool
    Feeds,          \* the sequences of blocks that the network may deliver
    OrderIds,
    TELEMETRY_BUFFER_SIZE

Messages(feed) == FlattenSeq(feed)

\* A block is a sequence of messages [type, id, shares].  Type "-" stands for
\* the types that parse_block() logs and skips, "unknown" for those whose
\* length in message_length_table is 0, "short" for a rest of the block that
\* is too short for its type.  As in ITCH, an order id is added once.  (A type
\* above 0x7F, a negative index into the table, is left out.)
ASSUME FeedsAssumption ==
    \A feed \in Feeds :
        /\ \A k \in DOMAIN Messages(feed) :
              Messages(feed)[k].type \in {"A", "E", "X", "-", "unknown", "short"}
        /\ \A j, k \in DOMAIN Messages(feed) :
              /\ Messages(feed)[j].type = "A" /\ Messages(feed)[k].type = "A"
              /\ Messages(feed)[j].id = Messages(feed)[k].id
              => j = k

VARIABLES
    network,        \* blocks still to arrive
    payload,        \* messages of the block not parsed yet
    parser,         \* "poll", "log", "push": where the network thread is
    wal,            \* complete frames, oldest first
    queue, accepted, delivered, \* the FIFO between the threads
    consumer,       \* "pop" or "dispatch"
    book,           \* shares of each order, 0 if it does not rest
    recovered,      \* the book built by run_recovery()
    phase,          \* "running", "crashed", "terminated"; "recovered", "aborted"
    unlogged,       \* messages that found the log full, in order
    dropped,        \* positions in wal \o unlogged of the orders that push() refused
    buffers, active_buf, tel_idx, handoff, pushed, popped, logger, block, total, slowOrders

fifoVars == <<queue, accepted, delivered>>
telemetryVars == <<buffers, active_buf, tel_idx, handoff, pushed, popped, logger, block, total, slowOrders>>
vars == <<network, payload, parser, wal, fifoVars, consumer, book, recovered, phase, dropped, unlogged,
          telemetryVars>>

NoOrder == [type |-> "none", id |-> 0, shares |-> 0]
IsOrder(m) == m.type \in {"A", "E", "X"}
Orders == {m \in UNION {ToSet(Messages(feed)) : feed \in Feeds} : IsOrder(m)}

Fifo == INSTANCE BoundedFifo WITH Capacity <- QueueCapacity, Values <- Orders, NoValue <- NoOrder
Profile == INSTANCE Telemetry

ASSUME TelemetryAssumption == Profile!BufferSizeOK

EmptyBook == [id \in OrderIds |-> 0]

Init ==
    /\ network \in Feeds
    /\ payload = <<>> /\ parser = "poll"
    /\ wal = <<>>
    /\ Fifo!Init
    /\ consumer = "pop"
    /\ book = EmptyBook /\ recovered = EmptyBook
    /\ phase = "running"
    /\ dropped = {} /\ unlogged = <<>>
    /\ Profile!Init

-----------------------------------------------------------------------------
(* What a message does to a book; throws on an execution of more shares     *)
(* than the order has.                                                      *)

Resting(b) == {id \in OrderIds : b[id] > 0}

throws(b, m) == m.type = "E" /\ b[m.id] > 0 /\ b[m.id] < m.shares

dispatch(b, m) ==
    CASE m.type = "A" -> IF Cardinality(Resting(b)) < MaxOrders
                         THEN [b EXCEPT ![m.id] = m.shares] ELSE b
      [] m.type = "E" -> IF b[m.id] = 0 THEN b ELSE [b EXCEPT ![m.id] = @ - m.shares]
      [] m.type = "X" -> [b EXCEPT ![m.id] = 0]
      [] OTHER -> b

-----------------------------------------------------------------------------
(* The network thread                                                       *)

\* poll() hands a block to parse_block().
receive ==
    /\ phase = "running" /\ parser = "poll" /\ network # <<>>
    /\ payload' = Head(network)
    /\ network' = Tail(network)
    /\ parser' = "log"
    /\ UNCHANGED <<wal, fifoVars, consumer, book, recovered, phase, dropped, unlogged, telemetryVars>>

parserRest == <<fifoVars, consumer, book, recovered, phase, dropped, network, telemetryVars>>

\* log_payload(), which does nothing when the log is full.
log_payload(m) ==
    IF Len(wal) < NumFrames
    THEN wal' = Append(wal, m) /\ UNCHANGED unlogged
    ELSE unlogged' = (IF m.type = "unknown" THEN unlogged ELSE Append(unlogged, m)) /\ UNCHANGED wal

\* Mutated form: `continue' instead of `return' at a message cut short.
parse_message_waits ==
    /\ phase = "running" /\ parser = "log"
    /\ payload # <<>> => Head(payload).type # "short"
    /\ IF payload = <<>>
       THEN parser' = "poll" /\ payload' = <<>> /\ UNCHANGED <<wal, unlogged>>
       ELSE /\ log_payload(Head(payload))
            /\ IF IsOrder(Head(payload))
               THEN parser' = "push" /\ UNCHANGED payload
               ELSE /\ payload' = IF Head(payload).type = "unknown" THEN payload ELSE Tail(payload)
                    /\ UNCHANGED parser
    /\ UNCHANGED parserRest

\* The head of the loop: return at the end of the block or at a message cut
\* short, else log the message, then go on to push() or to the next message:
\* after one of length 0 that is the same again.
parse_message ==
    /\ phase = "running" /\ parser = "log"
    /\ IF payload = <<>> \/ Head(payload).type = "short"
       THEN parser' = "poll" /\ payload' = <<>> /\ UNCHANGED <<wal, unlogged>>
       ELSE /\ log_payload(Head(payload))
            /\ IF IsOrder(Head(payload))
               THEN parser' = "push" /\ UNCHANGED payload
               ELSE /\ payload' = IF Head(payload).type = "unknown" THEN payload ELSE Tail(payload)
                    /\ UNCHANGED parser
    /\ UNCHANGED parserRest

\* queue_.push(std::move(new_order)): the result is not looked at.
push ==
    /\ phase = "running" /\ parser = "push"
    /\ \/ Fifo!Enqueue(Head(payload)) /\ UNCHANGED dropped
       \/ /\ Len(queue) = QueueCapacity
          /\ dropped' = dropped \cup {Len(wal) + Len(unlogged)}
          /\ UNCHANGED fifoVars
    /\ payload' = Tail(payload)
    /\ parser' = "log"
    /\ UNCHANGED <<wal, consumer, book, recovered, phase, unlogged, network, telemetryVars>>

-----------------------------------------------------------------------------
(* The book thread, a crash, and recovery                                   *)

\* while (!queue.pop(order)) spins until there is an order.
pop ==
    /\ phase = "running" /\ consumer = "pop"
    /\ Fifo!Dequeue
    /\ consumer' = "dispatch"
    /\ UNCHANGED <<payload, parser, wal, book, recovered, phase, dropped, unlogged, network, telemetryVars>>

\* Mutated form: an exception of the book is swallowed.
consume_ignores_exception ==
    /\ phase = "running" /\ consumer = "dispatch"
    /\ consumer' = "pop"
    /\ book' = IF throws(book, delivered) THEN [book EXCEPT ![delivered.id] = 0]
               ELSE dispatch(book, delivered)
    /\ UNCHANGED <<payload, parser, wal, fifoVars, recovered, phase, dropped, unlogged, network, telemetryVars>>

\* Mutated form: execute_order() takes the shares off before it looks at them.
consume_executes_first ==
    /\ phase = "running" /\ consumer = "dispatch"
    /\ consumer' = "pop"
    /\ \/ /\ throws(book, delivered)
          /\ phase' = "terminated"
          /\ book' = [book EXCEPT ![delivered.id] = 0]
          /\ UNCHANGED telemetryVars
       \/ /\ ~ throws(book, delivered)
          /\ book' = dispatch(book, delivered)
          /\ \E slow \in BOOLEAN : Profile!record(slow)
          /\ UNCHANGED phase
    /\ UNCHANGED <<payload, parser, wal, fifoVars, recovered, dropped, unlogged, network>>

\* Mutated form: the book thread waits until the logger has taken its buffer.
consume_waits_for_logger ==
    /\ phase = "running" /\ consumer = "dispatch" /\ handoff = <<>>
    /\ consumer' = "pop"
    /\ \/ throws(book, delivered) /\ phase' = "terminated" /\ UNCHANGED <<book, telemetryVars>>
       \/ /\ ~ throws(book, delivered)
          /\ book' = dispatch(book, delivered)
          /\ \E slow \in BOOLEAN : Profile!record(slow)
          /\ UNCHANGED phase
    /\ UNCHANGED <<payload, parser, wal, fifoVars, recovered, dropped, unlogged, network>>

\* dispatch_table[order.type](book, order), then the measurement.  No one
\* catches the exception of execute_order(), so std::terminate() ends the
\* process.
consume ==
    /\ phase = "running" /\ consumer = "dispatch"
    /\ consumer' = "pop"
    /\ \/ throws(book, delivered) /\ phase' = "terminated" /\ UNCHANGED <<book, telemetryVars>>
       \/ /\ ~ throws(book, delivered)
          /\ book' = dispatch(book, delivered)
          /\ \E slow \in BOOLEAN : Profile!record(slow)
          /\ UNCHANGED phase
    /\ UNCHANGED <<payload, parser, wal, fifoVars, recovered, dropped, unlogged, network>>

\* The telemetry thread.
log_telemetry ==
    /\ phase = "running"
    /\ Profile!pop_buffer \/ Profile!write_record(consumer = "dispatch")
    /\ UNCHANGED <<payload, parser, wal, fifoVars, consumer, book, recovered, phase,
                   dropped, unlogged, network>>

crash ==
    /\ phase = "running"
    /\ phase' = "crashed"
    /\ UNCHANGED <<payload, parser, wal, fifoVars, consumer, book, recovered, dropped, unlogged, network, telemetryVars>>

\* The book after these messages.  run_recovery() does not catch the
\* exception either: it stops there.
ReplayFrom(start, log) ==
    FoldLeft(LAMBDA r, m : IF r.stopped \/ throws(r.book, m)
                           THEN [r EXCEPT !.stopped = TRUE]
                           ELSE [r EXCEPT !.book = dispatch(r.book, m)],
             [book |-> start, stopped |-> FALSE], log)

Replay(log) == ReplayFrom(EmptyBook, log)

run_recovery ==
    /\ phase \in {"crashed", "terminated"}
    /\ phase' = IF Replay(wal).stopped THEN "aborted" ELSE "recovered"
    /\ recovered' = Replay(wal).book
    /\ UNCHANGED <<payload, parser, wal, fifoVars, consumer, book, dropped, unlogged, network, telemetryVars>>

NetworkThread == receive \/ parse_message \/ push
BookThread == pop \/ consume
Next == NetworkThread \/ BookThread \/ log_telemetry \/ crash \/ run_recovery

Spec == Init /\ [][Next]_vars

\* Both threads are pinned to a core and never block; the process may crash
\* at any time but need not.  Nothing is assumed of the telemetry thread.
FairSpec == Spec /\ WF_vars(parse_message \/ push) /\ WF_vars(BookThread)

-----------------------------------------------------------------------------
\* Orders that are parsed and not applied: in the book thread's hands, in the
\* queue, and in the network thread between log_payload() and push().
InFlight ==
    (IF consumer = "dispatch" THEN <<delivered>> ELSE <<>>)
        \o queue
        \o (IF parser = "push" THEN <<Head(payload)>> ELSE <<>>)

\* The log with what it lacks and without what the book lacks: the messages
\* that found it full are added, the orders that push() refused are voided.
Corrected ==
    LET parsed == wal \o unlogged
    IN  [k \in DOMAIN parsed |-> IF k \in dropped THEN NoOrder ELSE parsed[k]]

\* The log is ahead of the book, and by nothing but the orders in flight: at
\* every moment, so also at every crash, replaying the log leads where the two
\* threads were going.  A full log and a full queue are the only two things
\* that set them apart, each by exactly the messages it cost.
LogExplainsBook ==
    phase \in {"running", "crashed"} => ReplayFrom(book, InFlight) = Replay(Corrected)

\* What kills the live book kills recovery at the same message and with the
\* same book: one that was terminated by an execution of too many shares is
\* rebuilt as it was when it died, and the messages logged behind that one are
\* not replayed.
RecoveryStopsWhereBookDid ==
    phase = "terminated" /\ dropped = {} /\ unlogged = <<>> =>
        Replay(wal) = [book |-> book, stopped |-> TRUE]

\* parse_block() returns, whatever the block holds, unless the process ends or
\* it stands at a message of a type without a length, where it stays.
ParseBlockReturns ==
    (parser # "poll") ~>
        \/ parser = "poll" \/ phase # "running"
        \/ payload # <<>> /\ Head(payload).type = "unknown"

MostOrders == Max({Len(SelectSeq(Messages(feed), IsOrder)) : feed \in Feeds})

\* The orders that push() has accepted.
Handed == total + (IF consumer = "dispatch" THEN 1 ELSE 0) + Len(queue)

\* The n-th order that push() accepted is applied and measured, unless the
\* process ends, however many arrive behind it: the book thread never waits
\* for the network thread or for the telemetry thread, be it slow, stuck or
\* gone.
OrdersApplied ==
    \A n \in 1 .. MostOrders : (Handed >= n) ~> (total >= n \/ phase # "running")

\* With slow orders anywhere in the feed and the logger running beside both
\* other threads, a buffer is in two hands exactly after an odd number of
\* further slow orders (Telemetry!OwnerByParity).
TelemetryOwnerByParity == Profile!OwnerByParity

\* What the logger writes up to the next slow order is the profile that
\* consume() handed over, whole (Telemetry!HandedOverIntact).
TelemetryHandedOverIntact == Profile!HandedOverIntact

\* MmapLogger.h: all events are logged, which "allows for deterministic replay
\* if orderbook crashes".  So a book that has processed everything it was sent
\* and then crashed is the book that recovery rebuilds.
ReplayRebuildsBook ==
    phase = "recovered" /\ InFlight = <<>> => recovered = book
=============================================================================
