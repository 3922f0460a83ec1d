# A TLA+ model of the market data order book

This directory holds TLA+ modules for the program in `src/`, TLC
configurations that check them on small instances, and proofs checked by
TLAPS. Paths below are relative to the repository's `src/` directory.

## The system

The program follows a NASDAQ ITCH feed and keeps a limit order book.

```
 capture file / NIC
      |  RX ring (network/MulticastReceiver.h)
      v
 network thread: ItchParser::parse_block
      |  1. write-ahead log (recovery/MmapLogger)      --crash-->  RecoveryEngine
      |  2. SPSCQueue<NormalizedOrder, 4096>                             |
      v                                                                  v
 book thread: consume() -> LimitOrderBook                          a new book
      |                     (pool, lists, StaticOrderMap, HierarchicalBitset)
      |  two telemetry buffers, hand-off queue of one
      v
 telemetry thread: log_telemetry() -> profile file
```

Beside this pipeline the repository has an order entry client
(`network/OuchClient.h`) and a TCP server loop (`network/EpollReactor.h` with
`utils/MagicBuffer.h`). Nothing in the program calls the latter two yet; they
are modelled as classes, with a free choice of what their users do.

| Part | State | Operations | What is hard about it |
|---|---|---|---|
| `utils/spscqueue.h` | two indices, a copy of the other index on each side, slots | `push`, `pop` | stale copies, plain slot accesses by two threads, wrap-around |
| `utils/HierarchicalBitset.h` | three levels of 64-bit words | set, clear, best bid, best offer | summary bits must follow the words below |
| `utils/StaticOrderMap.h` | buckets with tombstones | `find`, `insert`, `operator[]`, `erase` | probe sequences across erasures and the end of the table |
| `book/LimitOrderBook.cpp` | order pool, free list, two lists per price, index, two bitsets | add, cancel, execute | five structures that must agree after any history |
| `recovery/`, `log_payload` | mapped file of frames | reserve, fill, flush, recover | crash between two stores, write-back in any order, damaged frames |
| `protocol/ItchParser.h`, `main.cpp` | position in a block, queue, log, book | parse, log, push, pop, dispatch | two threads and a crash; full queue, full log |
| `network/MulticastReceiver.h` | ring of frames with a status word | fill, poll, count | zero-copy hand-over between threads |
| `network/OuchClient.h` | connection state, unsent rest of a packet | connect, send, finish a write | partial writes, orders before the connection is up |
| `main.cpp` telemetry | two buffers, their hand-off queue | record, hand over, write out | no one says when a buffer has been written; lost hand-offs |
| `network/EpollReactor.h` | connection queue, eventfd, interest list, a buffer per descriptor | accept, signal; wait, receive, register | edges reported once, descriptors reused, a blocking read in the loop |
| `utils/MagicBuffer.h` | two heads over pages mapped twice | advance, space left, reset | wrap-around of both heads, full against empty |

## Modules

| Module | Models | Abstract specification it is compared with |
|---|---|---|
| `SPSCQueue` | `push` and `pop`, one action per access to shared memory | `BoundedFifo` |
| `HierarchicalBitset` | the bitset; a word is the set of its one bits | `PriceLevelSet` |
| `StaticOrderMap` | the hash table; a probe loop is the least offset that ends it | `OrderIndex` |
| `LimitOrderBook` | the book, built from two `HierarchicalBitset` instances and one `StaticOrderMap` instance | `PriceTimeBook` |
| `WriteAheadLog` | `log_payload`, `MmapLogger`, the kernel, crashes, `run_recovery` | |
| `Telemetry` | the end of the loop of `consume`, `log_telemetry`; uses `BoundedFifo` for the hand-off queue | |
| `Pipeline` | `parse_block`, the queue, `consume`, crash and replay, composed with `Telemetry`; uses `BoundedFifo` for the queue | |
| `RxRing` | `simulate_packets`, `poll_simulation`, the statistics counter | `BoundedFifo` |
| `OuchClient` | `connect_to_server`, `send_order`, `handle_write`, the connection | |
| `MagicBuffer` | the buffer as operators on its heads and its pages | |
| `EpollReactor` | `wait_for_connections`, `add_socket`, `run`; clients and kernel; extends `MagicBuffer` and uses `BoundedFifo` for the connection queue | |
| `MCLimitOrderBook`, `MCWriteAheadLog`, `MCPipeline` | messages, feeds and a view for TLC | |
| `XProofs` | theorems about module `X`, for eight of the modules | |

Definitions have the names of the source. A definition whose comment begins
with *Mutated form* is not part of the model: it is the definition that
follows with a plausible mistake in it, kept to see that a property fails when
the code is wrong. `PROJECT.json` pairs them with the properties and maps each
definition to its source lines.

**SPSCQueue.** A thread is in one of four places of its call: `idle`, `refresh`
(about to load the other index), `access` (about to touch the slot) and
`publish` (about to store its own index). An acquire load may return any index
stored since the one seen last. Both `push` overloads have the same steps.

**HierarchicalBitset.** A word of W bits is the set of its one bits, so that
`countl_zero` and `countr_zero` are its largest and smallest element. Level 0
has one bit per tick; a bit of a level above stands for a word of the one
below.

**StaticOrderMap.** A scan starts at `Home(id)` and goes round the table once.
`find` is the bucket it returns, as a set with at most one element; `FirstStop`
is where the loop of `insert` stops: at the first bucket that is not occupied by
another id, tombstones included.

**LimitOrderBook.** The book belongs to one thread, so each public call is one
action, with everything it does to the pool, the lists, the index and the
bitsets. Any id may come at any time, also one that rests already: the index
then leads to the newer order, and the older one stays in its queue where no
cancel or execution finds it. `PriceTimeBook` says the same of the abstract
book with the field `named`. An exception that nobody catches sets `status` to
"terminated". `AddMessages` is the set of add orders that the feed may hold.

**WriteAheadLog.** `log_payload` stores marker, header, payload and checksum
one after the other into the mapping. The kernel may copy any frame to the disk
at any time. A crash of the process leaves the mapping; a power failure, which
may come in every phase, leaves the disk. Messages of types `O` and `I` are
longer than the payload field and run over the checksum that is stored next;
those of type `I` also run over the marker of the next frame, and behind the
last frame out of the mapping, where the process dies or some other mapping is
written to. `run_recovery` may fail to open or map the file ("refused"). The
book throws on the last message of the sequences in `Fatal`, and the exception
leaves `run_recovery` ("thrown"): frames behind that message are not read. The
checksum is the tuple of what it covers: collisions do not happen. The stores
are taken in source order; for a crash of the process that assumes that the
compiler keeps it. `restart` truncates the file at once; a truncation that a
power failure undoes is the same as a power failure before the restart.

**Pipeline.** A feed is a sequence of blocks, a block a sequence of messages.
The network thread logs a message and then pushes it; `push` ignores a refusal,
as the code does. The book is reduced to the shares of the resting orders, which is
what decides how later messages act. `dropped` and `unlogged` hold the two
ways in which log and book part company: the positions of the orders that the
full queue refused, and the messages that found the log full. A message of a
type without an entry in `message_length_table` has length 0: `parse_block`
logs it again and again and never passes it. Applying an order and recording its
measurement is one step of the book thread.

**Telemetry.** A measurement is the ordinal of its order, and any order may be
slow. The logger copies a buffer element by element while the book thread goes
on; a load that overlaps a store gives `Torn`. Each hand-off carries the number
of its slow order, which the code does not store and only the properties look
at.

**RxRing.** Header and payload of a frame are separate plain stores and loads,
so a frame used by both threads would be seen torn.

**EpollReactor.** Each client's bytes are numbered, so that the pages of a
buffer show what the handler reads. epoll keeps the descriptors with an event
not yet returned (`ready`) and drops those that are no longer readable when
`epoll_wait` looks at them. `accept` may return any descriptor that is not in
use, one just closed included; one without a buffer ends in "fault", as
`fd_buffers_[fd]` is then undefined. `on_data` may read any part of what the
buffer shows it. `recv` may fail at any time on any connection; a failure, a
client that closed, and a `recv` with no space, which returns 0 while bytes are
waiting, take the same path. Each system call whose failure throws has an action
of its own (`accept_throws`, `signal_throws`, `epoll_wait_throws`,
`clear_throws`, the second disjunct of `add_socket`).

**OuchClient.** A packet is a sequence of bytes labelled with their order. The
kernel takes any number of them. `connect_to_server` sets its state before
anything can fail, so a client without a connection may be in state
`Connecting`, and `handle_write` then makes it `Connected`; its next `send`
fails. Somebody calls `handle_write` whenever the socket is writable.

## Runs

| Run | Question | Bounds, and why they are enough |
|---|---|---|
| `spsc` | race freedom, FIFO, the inductive invariant, everything pushed is popped | 4 slots, 2 values: indices wrap, the ring gets full and empty, copies lag by up to 3 |
| `bitset` | summaries, extremes, set semantics | words of 3 bits, 11 ticks: three levels, a partly used word at the first two, all 2048 sets |
| `map` | entries are found; full means full of live ids; the table is a partial function | 4 buckets, 5 ids, three in one bucket: collisions, wrap-around, tombstones everywhere. One index value is enough for the probing; that an entry is overwritten with another index is met in `book` |
| `book` | the structures agree and are price-time queues, any ids; the index does not throw | 4 slots, an index of 4 buckets and 5 ids, two pairs of which collide: pool and index fill up together, with an id left over. 2 ticks on 2-bit words and one price outside the book, both sides; an id may rest four times, the middle of a queue can leave, executions are partial, complete and excessive |
| `wal` | what recovery replays and reports; the inductive invariant | 3 frames; an order, an execution of more shares than it has, and a message of type `I` |
| `wal_full` | *expected violation*: recovery stays in the file | as above |
| `pipeline` | the log is ahead of the book; accepted orders are applied; telemetry is handed over intact | 5 feeds, queue of 3, log of 6, pool of 2: each of the three fills up in some behaviour; telemetry buffers of 2, so that they wrap and are handed over again while the logger is still writing |
| `pipeline_replay` | *expected violation*: replay rebuilds the book | queue of 1 |
| `rx_ring` | ownership, FIFO, counting, progress, the inductive invariant | 8 packets through 3 frames |
| `reactor` | no edge and no signal lost, no blocking read, streams intact; the inductive invariant | 2 connections, 3 descriptors of which one has no buffer, 4 bytes each through buffers of 3 (2 usable): descriptors are reused, buffers fill and both heads wrap |
| `reactor_data` | *expected violation*: received data is shown to the handler | as above |
| `ouch` | the byte stream is the packets in order | 3 orders of 3 bytes, every cut |

`book` explores one of the states that differ only in which slots the orders
have and in what is left over in free slots and deleted buckets, which the code
overwrites before it reads it (`LiveState` in `MCLimitOrderBook`). Deadlock
checking is off where the system really stops: a terminated process, the end of
a feed, no more clients. Messages of type `O`, which overrun the payload and
not the frame, are in no run; the proofs cover them.

Some properties describe what a user of the code has to reckon with rather than
what one would wish for. Recovery of a process that died of an excessive
execution ends with the same exception, at the same message and with the book
as it was (`RecoveryStopsWhereBookDid`, `LoggedIsDurable`); what was logged
behind that message is not read. `parse_block` returns from every block except
at a message of a type without a length, where it stays (`ParseBlockReturns`).
The telemetry file holds whole profiles only while the logger keeps up with
slow orders: after an odd number of further ones both threads are in the same
buffer (`TelemetryOwnerByParity`).

Three behaviours of the reactor and the client have no property:

* A connection pushed and signalled after `run` found the queue empty and before
  it reads the eventfd waits for the next connection, although the comment at
  `src/network/EpollReactor.h:173` speaks of all new connections. A client that
  sends without a pause keeps `run` in the loop of lines 148-170, and all others
  wait. `NoSignalForgotten` is about the signals that are still in the eventfd.
* A client whose burst fills its buffer is closed like one that hung up.
* The comments in `src/network/OuchClient.h:78` and `:90` leave half writes to
  `EpollReactor`, which registers for input only (`src/network/EpollReactor.h:82`)
  and calls nothing of `OuchClient`. With the code there is, a client in
  `PendingWrite` stays there and refuses every further order.

### The three violations

* `wal_full`: `run_recovery` (`src/recovery/RecoveryEngine.cpp:34`) loops while
  the marker is valid and never compares its pointer with the file size. After
  a file without a free frame it reads behind the mapping.
* `pipeline_replay`: `parse_block` (`src/protocol/ItchParser.h:122`) ignores the
  result of `push`, after it has logged the order. An order dropped by the full
  queue is replayed by recovery, so the recovered book is not the one that
  crashed.
* `reactor_data`: `run` (`src/network/EpollReactor.h:167`) calls `on_data` before
  `advance_write`, so that the handler is shown the buffer without the bytes
  just received. The last chunk of a burst waits there until more arrive.

## Fairness

* `SPSCQueue`: the consumer calls `pop` in an endless loop (`consume`) and a
  call of `push` runs to its end (weak fairness). A store to an atomic becomes
  visible after a finite time, so a load repeated for ever does not return an
  old index for ever (strong fairness of a refresh that sees the newest index).
  Nothing makes the producer call `push`.
* `Pipeline`: both threads are pinned to a core and never block (weak fairness
  of each thread). Nothing makes packets arrive or the process crash, and
  nothing is assumed of the telemetry thread. `OrdersApplied` is about each
  order by itself, so it does not depend on the feed coming to an end.
* `WriteAheadLog`: `run_recovery`, once called, keeps running.
* `RxRing`: writer and reader only ever spin; the statistics thread has no
  fairness.
* `EpollReactor`, `OuchClient` and the sequential structures have safety
  properties only, and need none.

## Proofs

All theorems hold for every value of the constants that satisfies the named
assumptions of the modules; these only say that sizes are positive, that ids are
natural numbers, that a marker for "no value" is not a value, that bytes in the
place of a checksum that was not stored are not the checksum, that the ticks
fit three levels of words, and that the eventfd is not one of the clients'
descriptors. That the code uses powers of two matters only for computing
remainders with a mask.

| Module | Theorems | For every |
|---|---|---|
| `SPSCQueueProofs` | `Invariance`, `RaceFreedom`, `Refinement` of `BoundedFifo` | ring size, set of values |
| `HierarchicalBitsetProofs` | `Invariance`, `Summaries`, `Refinement` of `PriceLevelSet`, `BestPrices` | word size, number of ticks |
| `StaticOrderMapProofs` | `Invariance`, `EntriesFound`, `FullOnlyThrows`, `Refinement` of `OrderIndex` | capacity, sets of ids and indices |
| `WriteAheadLogProofs` | `Invariance`, `PrefixReplayed`, `ReportExact`, `Durability`, `TornExact` | file size, sets of messages, of long ones and of those on which the book throws |
| `RxRingProofs` | `Invariance`, `Ownership`, `Counting`, `Refinement` of `BoundedFifo` | ring size, number of packets |
| `TelemetryProofs` | `Invariance`, `Ownership`, `HandOff` | buffer size, any number of orders |
| `MagicBufferProofs` | `WriteAppends`, `ReadDropsFront` | capacity |
| `EpollReactorProofs` | `Invariance`, `ReadOfEventFdReturns`, `EdgesKept`, `StreamIntact`, `SignalsKept` | buffer and queue sizes, numbers of clients, bytes, descriptors |

**SPSCQueue.** `NoDataRace` is not inductive: it says nothing of the states in
which a thread decides to go on. `IInv` adds why a stale decision is safe. The
copies lag behind the indices they are copies of (`CachesLagBehind`), so going
round the ring one meets `cached_head_`, `head_`, `cached_tail_`, `tail_` in
this order. A thread that is past its branch still has what the branch
established, because only that thread changes its own index and its copy
(`ProducerHasRoom`, `ConsumerHasElement`). Slots between `head_` and `tail_`
hold values (`SlotsWritten`). The arithmetic of the ring is in lemmas about
`Dist`, the number of increments between two indices, with no state in them.
For the refinement, a store to the slot at `tail_` is outside the contents
(`StoreIsInvisible`), publishing `tail_` appends to them (`PublishEnqueues`),
publishing `head_` removes the first (`PublishDequeues`), and every other step
leaves them alone.

**HierarchicalBitset.** Here the invariant is the type and `SummariesAgree`.
`StepAgrees` is the argument for one level: after the word below and the bit
above are stored together they agree if the caller's test of the word was
right. For the extremes, each level's search finds the largest (or smallest) bit
of its word; the three results combine because a tick is the number with those
three digits (`Lexicographic`).

**StaticOrderMap.** `EveryEntryIsFound` speaks of what `find` returns; the
invariant says why: on the way from an id's home to its entry no bucket is
empty and none holds the id (`Reached`). An insertion fills one bucket that the
scan would have stopped at, an erasure leaves a tombstone, and neither makes a
bucket empty. That a full table holds `Capacity` different ids follows by
counting: distinct buckets hold distinct ids (`LiveCount`).

**WriteAheadLog.** `IInv` says what a frame can be at any moment: complete below
`Completed`, begun as far as `stage` says, not valid beyond it (`AsStored`); on
the disk any older version, but whole up to the last flush. Whatever was lost or
damaged, a checksum belongs to its own frame and message (`Signed`), which is
why recovery replays nothing that was not logged at that position
(`RecoveryInStep`). The long messages do not break it: what they leave in the
place of the checksum is not the checksum of the frame and is overwritten
before the call returns, and the marker they run over is stored anew by the next
call.

**RxRing.** Neither thread knows the other's index. The status words mark one
stretch of the ring from the reader's frame to the writer's
(`StatusMarksStretch`), and the frames in it are complete; each thread's frame
keeps its status between the thread's two accesses to it. The refinement maps
the queue to that stretch.

**Telemetry.** The parity of the number of slow orders tells which buffer is in
use (`Parity`); the active buffer holds the measurements since the last slow
order (`RunStored`), the other one those of the episode handed over last
(`EpisodeStored`), and what the logger has copied equals the buffer as long as
no further slow order came (`BlockCopied`). Lost hand-offs do not matter to any
of them. `Pipeline` instantiates the module, and its run checks the two
properties together with the other threads.

**MagicBuffer, EpollReactor.** The two theorems about the buffer are what the
reactor needs of it: writing at the write head appends to what can be read, and
`advance_read` drops from the front. The reactor's invariant is about
ownership: a descriptor is with the acceptor, in the queue, or registered, never
in two of these places (`OneOwner`); its buffer is empty when it gets a new
owner (`UnregisteredIsFresh`); the flag of `run` stands for a signal still in
the eventfd, since nobody else reads it (`SignalHeld`); what the handler has read
it was shown, and what it was shown was received (`ReadWasShown`).

Only model-checked: all liveness properties (fairness is beyond the proof
system used here); `LimitOrderBook`, whose properties are about recursive walks
along linked lists; `OuchClient` and `Pipeline` (except its telemetry), whose
properties compare folds over sequences.

## Not modelled

* The byte-level decoding of ITCH messages. It is shared by the live path and by
  recovery, so it cancels out of every property here. `cancel_order` ignores
  the share count of a cancel message; the model does as well.
* A type byte above 0x7F, which is a negative index into `message_length_table`;
  a valid frame behind the mapping of a full log file.
* CRC collisions; the integer width of the sequence number (a file holds 2^24
  frames, the field 2^32).
* Set-up and tear-down that is a series of system calls with no state of its
  own: sockets (`TCPSocket`, all but `accept` and `connect`), the BPF filter, mapping of
  files and buffers, pinning of threads. Move operations: no object is moved
  once it is in use.
* `poll` of the RX ring on a real interface: the same loop as
  `poll_simulation`, with the kernel in the place of the writer. Opening and
  mapping the capture file of `simulate_packets`.
* `TelemetryEngine` and `TSC_Clock` read hardware counters and convert cycles to
  time; what they decide, whether an order was slow, is a free choice here.
* `ExecutionEngine`, a mock whose functions are empty; with no caller of
  `send_order`, how its packets are reused (`OuchClient.h:81`) is open.
* More than `MAX_EVENTS` descriptors ready at once; a bound on descriptors,
  which the repository does not have.
* Message layouts, benchmarks and tests.
