--------------------------- MODULE TelemetryProofs ---------------------------
(***************************************************************************)
(* The telemetry hand-off of main.cpp for every size of the buffers and    *)
(* any number of orders.                                                   *)
(***************************************************************************)
EXTENDS Telemetry, TLAPS

Handoffs == [buf : 0 .. 1, slow : Nat]

\* The last slow order, 0 before the first.
LastSlow == IF slowOrders = <<>> THEN 0 ELSE slowOrders[Len(slowOrders)]

Types ==
    /\ buffers \in [0 .. 1 -> [Positions -> Nat]]
    /\ active_buf \in 0 .. 1 /\ tel_idx \in Positions
    /\ handoff \in Seq(Handoffs) /\ pushed \in Handoffs /\ popped \in Handoffs
    /\ block \in Seq(Nat \cup {Torn})
    /\ total \in Nat /\ slowOrders \in Seq(1 .. total)

\* Every hand-off names a slow order and the buffer that was in use then.
Parity ==
    /\ active_buf = Len(slowOrders) % 2
    /\ \A k \in DOMAIN handoff :
          handoff[k].slow \in 1 .. Len(slowOrders) /\ handoff[k].buf = (handoff[k].slow - 1) % 2
    /\ popped.slow > 0 =>
          popped.slow \in 1 .. Len(slowOrders) /\ popped.buf = (popped.slow - 1) % 2
    /\ logger = "write" => popped.slow > 0

\* The position d before the next one.
Back(d) == IF tel_idx >= d THEN tel_idx - d ELSE tel_idx - d + TELEMETRY_BUFFER_SIZE

\* The measurements since the last slow order are in the active buffer, as
\* far back as it goes.
RunStored ==
    \A d \in 1 .. TELEMETRY_BUFFER_SIZE :
        d <= total - LastSlow => buffers[active_buf][Back(d)] = total + 1 - d

\* The last buffer handed over holds its episode.
EpisodeStored ==
    slowOrders # <<>> =>
        \A n \in Episode(Len(slowOrders)) :
            \E i \in Positions : buffers[1 - active_buf][i] = n

\* The block is a copy of a buffer that was not written to.
BlockCopied ==
    popped.slow > 0 /\ popped.slow = Len(slowOrders) =>
        \A i \in DOMAIN block : i - 1 \in Positions /\ block[i] = buffers[popped.buf][i - 1]

BlockFits ==
    /\ Len(block) <= TELEMETRY_BUFFER_SIZE
    /\ logger = "write" => Len(block) < TELEMETRY_BUFFER_SIZE

\* The inductive invariant behind OwnerByParity and HandedOverIntact.
IInv == Types /\ Parity /\ RunStored /\ EpisodeStored /\ BlockCopied /\ BlockFits

-----------------------------------------------------------------------------
\* The mask of consume() advances the position and wraps at the end.
LEMMA NextPosition ==
    ASSUME BufferSizeOK, tel_idx \in Positions
    PROVE  /\ next_position \in Positions
           /\ next_position = IF tel_idx + 1 = TELEMETRY_BUFFER_SIZE THEN 0 ELSE tel_idx + 1
<1>1. CASE tel_idx + 1 = TELEMETRY_BUFFER_SIZE
  <2>1. tel_idx + 1 = 1 * TELEMETRY_BUFFER_SIZE + 0
    BY <1>1 DEF BufferSizeOK
  <2>2. (tel_idx + 1) % TELEMETRY_BUFFER_SIZE = 0
    BY <1>1, <2>1 DEF BufferSizeOK
  <2> QED BY <1>1, <2>2 DEF BufferSizeOK, Positions, next_position
<1>2. CASE tel_idx + 1 # TELEMETRY_BUFFER_SIZE
  BY <1>2 DEF BufferSizeOK, Positions, next_position
<1> QED BY <1>1, <1>2

\* Looking back from the next position never leads to the next position.
LEMMA BackPositions ==
    ASSUME BufferSizeOK, tel_idx \in Positions, NEW d \in 1 .. TELEMETRY_BUFFER_SIZE
    PROVE  Back(d) \in Positions /\ (d < TELEMETRY_BUFFER_SIZE => Back(d) # tel_idx)
  BY DEF BufferSizeOK, Positions, Back

\* The two buffers take turns.
LEMMA Alternation ==
    ASSUME NEW n \in Nat
    PROVE  /\ n % 2 \in 0 .. 1 /\ (n + 1) % 2 = 1 - (n % 2)
           /\ n > 0 => (n - 1) % 2 = 1 - (n % 2)
  OBVIOUS

\* Up to the next slow order the logger reads the buffer that is not active.
LEMMA LoggerInOtherBuffer ==
    ASSUME Types, Parity, popped.slow > 0, popped.slow = Len(slowOrders)
    PROVE  popped.buf = 1 - active_buf
<1>1. Len(slowOrders) \in Nat /\ Len(slowOrders) > 0
  BY DEF Types
<1> QED BY <1>1, Alternation DEF Parity

\* Buffers start out empty, with nothing handed over.
LEMMA InitIInv == ASSUME BufferSizeOK, Init PROVE IInv
<1> USE DEF Init, Queue!Init, NoHandoff, BufferSizeOK
<1>1. Types
  BY DEF Types, Positions, Handoffs, Nothing
<1>2. Parity /\ EpisodeStored
  BY DEF Parity, EpisodeStored
<1>3. RunStored
  BY DEF RunStored, LastSlow
<1>4. BlockCopied /\ BlockFits
  BY DEF BlockCopied, BlockFits
<1> QED BY <1>1, <1>2, <1>3, <1>4 DEF IInv

\* The store of consume(), whether the order was slow or not.
LEMMA StoreFacts ==
    ASSUME BufferSizeOK, IInv, NEW slow, record(slow)
    PROVE  /\ buffers' \in [0 .. 1 -> [Positions -> Nat]]
           /\ buffers'[active_buf][tel_idx] = total + 1
           /\ buffers'[1 - active_buf] = buffers[1 - active_buf]
           /\ \A i \in Positions \ {tel_idx} : buffers'[active_buf][i] = buffers[active_buf][i]
           /\ total \in Nat /\ total' = total + 1
           /\ slowOrders \in Seq(1 .. total) /\ slowOrders \in Seq(1 .. total')
<1>1. /\ buffers \in [0 .. 1 -> [Positions -> Nat]] /\ active_buf \in 0 .. 1
      /\ tel_idx \in Positions /\ total \in Nat /\ slowOrders \in Seq(1 .. total)
  BY DEF IInv, Types
<1>2. buffers' = [buffers EXCEPT ![active_buf] = [@ EXCEPT ![tel_idx] = total + 1]]
      /\ total' = total + 1
  BY DEF record
<1>3. 1 - active_buf \in 0 .. 1 /\ 1 - active_buf # active_buf /\ total + 1 \in Nat
  BY <1>1
<1>4. slowOrders \in Seq(1 .. total')
  BY <1>1, <1>2
<1> QED BY <1>1, <1>2, <1>3, <1>4

\* An order that was not slow: the position advances.
LEMMA RecordFastIInv ==
    ASSUME BufferSizeOK, IInv, record(FALSE)
    PROVE  IInv'
<1>1. /\ tel_idx' = next_position
      /\ UNCHANGED <<active_buf, handoffVars, loggerVars, slowOrders>>
  BY DEF record
<1>2. tel_idx \in Positions /\ active_buf \in 0 .. 1
  BY DEF IInv, Types
<1>3. /\ tel_idx' \in Positions
      /\ tel_idx' = IF tel_idx + 1 = TELEMETRY_BUFFER_SIZE THEN 0 ELSE tel_idx + 1
  BY <1>1, <1>2, NextPosition
<1>4. LastSlow' = LastSlow /\ LastSlow \in 0 .. total
  BY <1>1 DEF LastSlow, IInv, Types
<1>0. /\ buffers' \in [0 .. 1 -> [Positions -> Nat]]
      /\ buffers'[active_buf][tel_idx] = total + 1
      /\ buffers'[1 - active_buf] = buffers[1 - active_buf]
      /\ \A i \in Positions \ {tel_idx} : buffers'[active_buf][i] = buffers[active_buf][i]
      /\ total \in Nat /\ total' = total + 1
      /\ slowOrders \in Seq(1 .. total) /\ slowOrders \in Seq(1 .. total')
  BY StoreFacts
<1> USE <1>0 DEF IInv, handoffVars, loggerVars
<1>5. Types'
  <2>1. slowOrders' \in Seq(1 .. total')
    BY <1>1
  <2>2. UNCHANGED <<active_buf, handoff, pushed, popped, block>> /\ total' \in Nat
    BY <1>1
  <2> QED BY <1>0, <1>3, <2>1, <2>2 DEF Types
<1>6. Parity' /\ BlockFits'
  BY <1>1 DEF Parity, BlockFits
<1>7. RunStored'
  <2> SUFFICES ASSUME NEW d \in 1 .. TELEMETRY_BUFFER_SIZE, d <= total' - LastSlow
               PROVE  buffers'[active_buf][Back(d)'] = total' + 1 - d
    BY <1>1, <1>4 DEF RunStored
  <2>1. CASE d = 1
    <3>1. Back(d)' = tel_idx
      BY <1>2, <1>3, <2>1 DEF Back, Positions, BufferSizeOK
    <3> QED BY <2>1, <3>1
  <2>2. CASE d # 1
    <3>1. d - 1 \in 1 .. TELEMETRY_BUFFER_SIZE /\ d - 1 < TELEMETRY_BUFFER_SIZE
          /\ d - 1 <= total - LastSlow
      BY <1>4, <2>2 DEF BufferSizeOK
    <3>2. Back(d)' = Back(d - 1)
      BY <1>2, <1>3, <2>2 DEF Back, Positions, BufferSizeOK
    <3>3. Back(d - 1) \in Positions \ {tel_idx}
      BY <1>2, <3>1, BackPositions
    <3>4. buffers[active_buf][Back(d - 1)] = total + 1 - (d - 1)
      BY <3>1 DEF RunStored
    <3>5. total + 1 - (d - 1) = total' + 1 - d
      BY DEF BufferSizeOK
    <3> QED BY <3>2, <3>3, <3>4, <3>5
  <2> QED BY <2>1, <2>2
<1>8. EpisodeStored'
  BY <1>1 DEF EpisodeStored, Episode
<1>9. BlockCopied'
  <2>1. popped.slow > 0 /\ popped.slow = Len(slowOrders) => popped.buf = 1 - active_buf
    BY LoggerInOtherBuffer
  <2> QED BY <1>1, <2>1 DEF BlockCopied
<1> QED BY <1>5, <1>6, <1>7, <1>8, <1>9

\* A slow order: its buffer is offered to the logger and the other one is
\* taken, also when the queue was full.
LEMMA RecordSlowIInv ==
    ASSUME BufferSizeOK, IInv, record(TRUE)
    PROVE  IInv'
<1> DEFINE L == Len(slowOrders)
           h == [buf |-> active_buf, slow |-> L + 1]
<1>1. /\ tel_idx' = 0 /\ slowOrders' = Append(slowOrders, total + 1)
      /\ active_buf' = 1 - active_buf /\ push_buffer /\ UNCHANGED loggerVars
  BY DEF record, flip
<1>2. /\ buffers' \in [0 .. 1 -> [Positions -> Nat]]
      /\ buffers'[active_buf][tel_idx] = total + 1
      /\ \A i \in Positions \ {tel_idx} : buffers'[active_buf][i] = buffers[active_buf][i]
      /\ total \in Nat /\ total' = total + 1
      /\ slowOrders \in Seq(1 .. total) /\ slowOrders \in Seq(1 .. total')
  BY StoreFacts
<1>3. /\ L \in Nat /\ Len(slowOrders') = L + 1 /\ slowOrders' # <<>>
      /\ slowOrders'[L + 1] = total + 1 /\ \A k \in 1 .. L : slowOrders'[k] = slowOrders[k]
      /\ slowOrders' \in Seq(1 .. total')
  BY <1>1, <1>2
<1>4. tel_idx \in Positions /\ active_buf \in 0 .. 1 /\ active_buf = L % 2
  BY DEF IInv, Types, Parity
<1>5. LastSlow' = total' /\ LastSlow \in 0 .. total
  BY <1>2, <1>3 DEF LastSlow
<1>6. /\ popped' = popped /\ handoff' \in Seq(Handoffs) /\ pushed' \in Handoffs
      /\ \A k \in DOMAIN handoff' :
            (k \in DOMAIN handoff /\ handoff'[k] = handoff[k]) \/ handoff'[k] = h
  <2>1. h \in Handoffs /\ handoff \in Seq(Handoffs) /\ pushed \in Handoffs
    BY <1>3, <1>4 DEF Handoffs, IInv, Types
  <2>2. CASE Queue!Enqueue(h)
    <3>1. handoff' = Append(handoff, h) /\ pushed' = h /\ popped' = popped
      BY <2>2 DEF Queue!Enqueue
    <3> HIDE DEF h
    <3> QED BY <2>1, <3>1
  <2>3. CASE UNCHANGED handoffVars
    BY <2>1, <2>3 DEF handoffVars
  <2> QED BY <1>1, <2>2, <2>3 DEF push_buffer
<1>7. Types'
  <2>1. tel_idx' \in Positions /\ active_buf' \in 0 .. 1 /\ total' \in Nat
    BY <1>1, <1>2, <1>4 DEF Positions, BufferSizeOK
  <2>2. popped' \in Handoffs /\ block' \in Seq(Nat \cup {Torn})
    BY <1>1, <1>6 DEF loggerVars, IInv, Types
  <2> QED BY <1>2, <1>3, <1>6, <2>1, <2>2 DEF Types
<1>8. Parity'
  <2>1. active_buf' = (L + 1) % 2 /\ h.slow = L + 1 /\ h.buf = (h.slow - 1) % 2
    BY <1>1, <1>3, <1>4, Alternation
  <2>2. \A k \in DOMAIN handoff' : /\ handoff'[k].slow \in 1 .. L + 1
                                   /\ handoff'[k].buf = (handoff'[k].slow - 1) % 2
    <3> HIDE DEF h
    <3>1. \A k \in DOMAIN handoff : /\ handoff[k].slow \in 1 .. L + 1
                                    /\ handoff[k].buf = (handoff[k].slow - 1) % 2
      BY <1>3 DEF IInv, Parity
    <3>2. h.slow \in 1 .. L + 1
      BY <1>3, <2>1
    <3> QED BY <1>6, <2>1, <3>1, <3>2
  <2>3. popped.slow > 0 => popped.slow \in 1 .. L + 1 /\ popped.buf = (popped.slow - 1) % 2
    BY <1>3 DEF IInv, Parity
  <2> QED BY <1>1, <1>3, <1>6, <2>1, <2>2, <2>3 DEF IInv, Parity, loggerVars
<1>9. RunStored'
  BY <1>2, <1>5 DEF RunStored
<1>10. EpisodeStored'
  <2> SUFFICES ASSUME NEW n \in Episode(Len(slowOrders))'
               PROVE  \E i \in Positions : buffers'[1 - active_buf'][i] = n
    BY DEF EpisodeStored
  <2>1. n \in 1 .. total + 1 /\ n > LastSlow /\ n > total + 1 - TELEMETRY_BUFFER_SIZE
    <3>0. L + 1 - 1 = L
      BY <1>3
    <3>1. n \in 1 .. slowOrders'[L + 1] /\ (L + 1 > 1 => n > slowOrders'[L])
          /\ n > slowOrders'[L + 1] - TELEMETRY_BUFFER_SIZE
      BY <1>3, <3>0 DEF Episode
    <3>2. CASE slowOrders = <<>>
      BY <1>2, <1>3, <3>1, <3>2 DEF LastSlow, BufferSizeOK
    <3>3. CASE slowOrders # <<>>
      <4>1. L + 1 > 1 /\ L \in 1 .. L
        BY <1>2, <1>3, <3>3
      <4>2. LastSlow = slowOrders'[L]
        BY <1>3, <3>3, <4>1 DEF LastSlow
      <4> QED BY <1>2, <1>3, <3>1, <4>1, <4>2 DEF BufferSizeOK
    <3> QED BY <3>2, <3>3
  <2>2. 1 - active_buf' = active_buf
    BY <1>1, <1>4
  <2>3. CASE n = total + 1
    BY <1>2, <1>4, <2>2, <2>3
  <2>4. CASE n # total + 1
    <3> DEFINE d == total + 1 - n
    <3>1. /\ d \in 1 .. TELEMETRY_BUFFER_SIZE /\ d < TELEMETRY_BUFFER_SIZE
          /\ d <= total - LastSlow /\ total + 1 - d = n
      BY <1>2, <1>5, <2>1, <2>4 DEF BufferSizeOK
    <3> HIDE DEF d
    <3>2. Back(d) \in Positions \ {tel_idx}
      BY <1>4, <3>1, BackPositions
    <3>3. buffers[active_buf][Back(d)] = n
      BY <3>1 DEF IInv, RunStored
    <3> QED BY <1>2, <2>2, <3>2, <3>3
  <2> QED BY <2>3, <2>4
<1>11. BlockCopied'
  <2>1. popped.slow > 0 => popped.slow # L + 1
    BY <1>3 DEF IInv, Parity
  <2> QED BY <1>3, <1>6, <2>1 DEF BlockCopied
<1>12. BlockFits'
  BY <1>1 DEF IInv, BlockFits, loggerVars
<1> QED BY <1>7, <1>8, <1>9, <1>10, <1>11, <1>12 DEF IInv

\* log_telemetry() takes the next buffer.
LEMMA PopIInv ==
    ASSUME BufferSizeOK, IInv, pop_buffer
    PROVE  IInv'
<1>1. /\ handoff # <<>> /\ handoff' = Tail(handoff) /\ popped' = Head(handoff)
      /\ logger' = "write" /\ block' = <<>>
      /\ UNCHANGED <<buffers, active_buf, tel_idx, total, slowOrders, pushed>>
  BY DEF pop_buffer, Queue!Dequeue
<1>2. handoff \in Seq(Handoffs)
  BY DEF IInv, Types
<1>3. /\ popped' = handoff[1] /\ 1 \in DOMAIN handoff /\ popped' \in Handoffs
      /\ handoff' \in Seq(Handoffs)
      /\ \A k \in DOMAIN handoff' : k + 1 \in DOMAIN handoff /\ handoff'[k] = handoff[k + 1]
  BY <1>1, <1>2
<1>4. block' \in Seq(Nat \cup {Torn}) /\ Len(block') = 0 /\ DOMAIN block' = {}
  BY <1>1
<1>5. Types'
  BY <1>1, <1>3, <1>4 DEF IInv, Types
<1>6. Parity'
  <2>1. popped'.slow \in 1 .. Len(slowOrders) /\ popped'.buf = (popped'.slow - 1) % 2
    BY <1>3 DEF IInv, Parity
  <2>2. popped'.slow > 0
    BY <2>1
  <2> QED BY <1>1, <1>3, <2>1, <2>2 DEF IInv, Parity
<1>7. RunStored' /\ EpisodeStored'
  BY <1>1 DEF IInv, RunStored, Back, LastSlow, EpisodeStored, Episode
<1>8. BlockCopied' /\ BlockFits'
  BY <1>4 DEF BlockCopied, BlockFits, BufferSizeOK
<1> QED BY <1>5, <1>6, <1>7, <1>8 DEF IInv

\* log_telemetry() copies one more measurement, perhaps a torn one.
LEMMA WriteIInv ==
    ASSUME BufferSizeOK, IInv, NEW storing, write_record(storing)
    PROVE  IInv'
<1> DEFINE b == popped.buf
           i == Len(block)
<1>1. /\ logger = "write"
      /\ logger' = IF i + 1 = TELEMETRY_BUFFER_SIZE THEN "pop" ELSE "write"
      /\ UNCHANGED <<buffers, active_buf, tel_idx, handoff, pushed, popped, total, slowOrders>>
  BY DEF write_record, handoffVars
<1>2. PICK x : block' = Append(block, x) /\ (x = buffers[b][i] \/ (x = Torn /\ b = active_buf))
  BY DEF write_record
<1>3. /\ block \in Seq(Nat \cup {Torn}) /\ i \in Positions /\ b \in 0 .. 1
      /\ buffers \in [0 .. 1 -> [Positions -> Nat]] /\ active_buf \in 0 .. 1
  BY <1>1 DEF IInv, Types, BlockFits, Handoffs, Positions, BufferSizeOK
<1>4. x \in Nat \cup {Torn}
  BY <1>2, <1>3
<1>5. /\ block' \in Seq(Nat \cup {Torn}) /\ Len(block') = i + 1 /\ DOMAIN block' = 1 .. i + 1
      /\ DOMAIN block = 1 .. i /\ i \in Nat
      /\ block'[i + 1] = x /\ \A k \in 1 .. i : block'[k] = block[k]
  <2> DEFINE S == Nat \cup {Torn}
  <2>1. block \in Seq(S) /\ x \in S
    BY <1>3, <1>4
  <2> HIDE DEF S
  <2>2. block' \in Seq(S) /\ Len(block') = i + 1 /\ DOMAIN block' = 1 .. i + 1
        /\ DOMAIN block = 1 .. i /\ i \in Nat
        /\ block'[i + 1] = x /\ \A k \in 1 .. i : block'[k] = block[k]
    BY <1>2, <2>1
  <2> QED BY <2>2 DEF S
<1>6. Types'
  BY <1>1, <1>5 DEF IInv, Types
<1>7. Parity'
  BY <1>1 DEF IInv, Parity
<1>8. RunStored' /\ EpisodeStored'
  BY <1>1 DEF IInv, RunStored, Back, LastSlow, EpisodeStored, Episode
<1>9. BlockCopied'
  <2> SUFFICES ASSUME popped.slow > 0, popped.slow = Len(slowOrders), NEW k \in 1 .. i + 1
               PROVE  k - 1 \in Positions /\ block'[k] = buffers[b][k - 1]
    BY <1>1, <1>5 DEF BlockCopied
  <2>1. b = 1 - active_buf
    BY LoggerInOtherBuffer DEF IInv
  <2>2. x = buffers[b][i]
    BY <1>2, <1>3, <2>1
  <2>3. CASE k = i + 1
    BY <1>3, <1>5, <2>2, <2>3
  <2>4. CASE k # i + 1
    <3>1. k \in 1 .. i
      BY <1>5, <2>4
    <3> QED BY <1>5, <3>1 DEF IInv, BlockCopied
  <2> QED BY <2>3, <2>4
<1>10. BlockFits'
  BY <1>1, <1>3, <1>5 DEF BlockFits, Positions, BufferSizeOK
<1> QED BY <1>6, <1>7, <1>8, <1>9, <1>10 DEF IInv

-----------------------------------------------------------------------------
\* Every step of consume() and of log_telemetry() keeps the invariant.
THEOREM Invariance == ASSUME BufferSizeOK PROVE Spec => []IInv
<1>1. IInv /\ [Next]_vars => IInv'
  <2> SUFFICES ASSUME IInv, [Next]_vars PROVE IInv'
    OBVIOUS
  <2>1. ASSUME NEW slow \in BOOLEAN, record(slow) PROVE IInv'
    BY <2>1, RecordFastIInv, RecordSlowIInv
  <2>2. CASE pop_buffer
    BY <2>2, PopIInv
  <2>3. ASSUME NEW storing \in BOOLEAN, write_record(storing) PROVE IInv'
    BY <2>3, WriteIInv
  <2>4. CASE UNCHANGED vars
    BY <2>4 DEF vars, handoffVars, loggerVars, IInv, Types, Parity, RunStored, Back, LastSlow,
                EpisodeStored, Episode, BlockCopied, BlockFits
  <2> QED BY <2>1, <2>2, <2>3, <2>4 DEF Next
<1>2. Init => IInv
  BY InitIInv
<1> QED BY <1>1, <1>2, PTL DEF Spec

\* For every size of the buffers, consume() and log_telemetry() use the same
\* buffer exactly after an odd number of further slow orders.
THEOREM Ownership == ASSUME BufferSizeOK PROVE Spec => []OwnerByParity
<1>1. IInv => OwnerByParity
  <2> SUFFICES ASSUME IInv, NEW h \in Outstanding
               PROVE  h.buf = active_buf <=> (Len(slowOrders) - h.slow) % 2 = 1
    BY DEF OwnerByParity
  <2>1. h.slow \in 1 .. Len(slowOrders) /\ h.buf = (h.slow - 1) % 2
    BY DEF Outstanding, IInv, Parity
  <2>2. Len(slowOrders) \in Nat /\ active_buf = Len(slowOrders) % 2
    <3>1. slowOrders \in Seq(1 .. total)
      BY DEF IInv, Types
    <3>2. active_buf = Len(slowOrders) % 2
      BY DEF IInv, Parity
    <3> QED BY <3>1, <3>2
  <2> QED BY <2>1, <2>2
<1> QED BY <1>1, Invariance, PTL

\* For every size of the buffers, what log_telemetry() has written before the
\* next slow order is what consume() handed over.
THEOREM HandOff == ASSUME BufferSizeOK PROVE Spec => []HandedOverIntact
<1>1. IInv => HandedOverIntact
  <2> SUFFICES ASSUME IInv, popped.slow > 0, popped.slow = Len(slowOrders)
               PROVE  /\ \A i \in DOMAIN block : block[i] # Torn
                      /\ Len(block) = TELEMETRY_BUFFER_SIZE =>
                            Episode(popped.slow) \subseteq {block[i] : i \in DOMAIN block}
    BY DEF HandedOverIntact
  <2>1. /\ buffers \in [0 .. 1 -> [Positions -> Nat]] /\ popped.buf \in 0 .. 1
        /\ DOMAIN block = 1 .. Len(block) /\ Len(block) \in Nat
    BY DEF IInv, Types, Handoffs
  <2>2. \A i \in DOMAIN block : i - 1 \in Positions /\ block[i] = buffers[popped.buf][i - 1]
    BY DEF IInv, BlockCopied
  <2>3. \A i \in DOMAIN block : block[i] # Torn
    BY <2>1, <2>2 DEF Torn
  <2>4. ASSUME Len(block) = TELEMETRY_BUFFER_SIZE, NEW n \in Episode(popped.slow)
        PROVE  \E i \in DOMAIN block : block[i] = n
    <3>1. slowOrders # <<>> /\ popped.buf = 1 - active_buf
      BY LoggerInOtherBuffer DEF IInv
    <3>2. PICK p \in Positions : buffers[popped.buf][p] = n
      BY <3>1 DEF IInv, EpisodeStored
    <3> DEFINE q == p + 1
    <3>3. q \in DOMAIN block /\ q - 1 = p
      BY <2>1, <2>4 DEF Positions, BufferSizeOK
    <3> HIDE DEF q
    <3>4. block[q] = buffers[popped.buf][p]
      BY <2>2, <3>3
    <3> QED BY <3>2, <3>3, <3>4
  <2> QED BY <2>3, <2>4
<1> QED BY <1>1, Invariance, PTL
=============================================================================
