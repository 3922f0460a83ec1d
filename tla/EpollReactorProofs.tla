------------------------- MODULE EpollReactorProofs --------------------------
(***************************************************************************)
(* The reactor's safety for any number of descriptors, clients and bytes,  *)
(* any size of the buffers and of the queue.  The buffers' part is         *)
(* MagicBufferProofs; what is added here is who owns a descriptor when.    *)
(***************************************************************************)
EXTENDS EpollReactor, MagicBufferProofs

\* What a socket that accept() has just returned looks like.
LEMMA ClosedType ==
    /\ Closed \in [state : {"open", "closed"}, peer : {"up", "gone"}, sent : Nat, inbox : Nat]
    /\ Closed.state = "closed" /\ Closed.peer = "up" /\ Closed.sent = 0 /\ Closed.inbox = 0
  BY DEF Closed

\* The eventfd is no client's descriptor, and buffers belong to descriptors.
LEMMA FdsFacts ==
    /\ \A f \in Fds : f # EventFd /\ f # NoFd
    /\ Buffered \subseteq Fds
  BY FdsAssumption DEF Buffered, NoFd

\* Before the first connection every buffer is fresh and nothing is queued.
LEMMA InitIInv == Init => IInv
<1> SUFFICES ASSUME Init PROVE IInv
  OBVIOUS
<1> USE FdsFacts, ClosedType, FreshIsEmpty, CapacityAssumption DEF Init, Queue!Init
<1>1. TypeOK
  BY DEF TypeOK, NoFd
<1>2. OneOwner /\ SignalHeld /\ NoSignalForgotten
  <2>1. OneOwner
    BY DEF OneOwner
  <2>2. SignalHeld
    BY Zenon DEF SignalHeld
  <2>3. NoSignalForgotten
    <3>1. event_count = 0
      OBVIOUS
    <3> QED BY ONLY <3>1 DEF NoSignalForgotten
  <2> QED BY <2>1, <2>2, <2>3
<1>3. UnregisteredIsFresh
  BY DEF UnregisteredIsFresh
<1>4. NoEdgeLost
  BY DEF NoEdgeLost
<1>5. HandlerReadsStream /\ ReadWasShown
  BY DEF HandlerReadsStream, ReadWasShown
<1> QED BY <1>1, <1>2, <1>3, <1>4, <1>5 DEF IInv

-----------------------------------------------------------------------------
(* The clients                                                              *)

\* The record of a socket after one more byte, field by field.
LEMMA ByteArrived ==
    ASSUME NEW r \in [state : {"open", "closed"}, peer : {"up", "gone"}, sent : Nat, inbox : Nat],
           NEW new, new = [r EXCEPT !.sent = @ + 1, !.inbox = @ + 1]
    PROVE  /\ new \in [state : {"open", "closed"}, peer : {"up", "gone"}, sent : Nat, inbox : Nat]
           /\ new.sent = r.sent + 1 /\ new.inbox = r.inbox + 1
           /\ new.state = r.state /\ new.peer = r.peer
<1>1. new.sent = r.sent + 1 /\ new.inbox = r.inbox + 1
  OBVIOUS
<1>2. new.state = r.state /\ new.peer = r.peer
  OBVIOUS
<1>3. r.sent \in Nat /\ r.inbox \in Nat /\ r.state \in {"open", "closed"} /\ r.peer \in {"up", "gone"}
  OBVIOUS
<1>4. new \in [state : {"open", "closed"}, peer : {"up", "gone"}, sent : Nat, inbox : Nat]
  <2> DEFINE mid == [r EXCEPT !.sent = @ + 1]
  <2>1. mid \in [state : {"open", "closed"}, peer : {"up", "gone"}, sent : Nat, inbox : Nat]
    BY <1>3
  <2>2. new = [mid EXCEPT !.inbox = @ + 1]
    OBVIOUS
  <2>3. mid.inbox + 1 \in Nat
    BY <2>1
  <2> HIDE DEF mid
  <2> QED BY <2>1, <2>2, <2>3
<1> QED BY <1>1, <1>2, <1>4

\* A byte that arrives changes nothing but its socket and the edge.
LEMMA SendByteIInv == ASSUME IInv, NEW f \in Fds, send_byte(f) PROVE IInv'
<1> DEFINE Sockets == [state : {"open", "closed"}, peer : {"up", "gone"},
                       sent : Nat, inbox : Nat]
           new == [socket[f] EXCEPT !.sent = @ + 1, !.inbox = @ + 1]
<1>1. socket \in [Fds -> Sockets] /\ socket[f].inbox <= socket[f].sent
  BY DEF IInv, TypeOK
<1>2. /\ new \in Sockets /\ new.sent = socket[f].sent + 1 /\ new.inbox = socket[f].inbox + 1
      /\ new.state = socket[f].state /\ new.peer = socket[f].peer
  <2>1. socket[f] \in Sockets
    BY <1>1
  <2> QED BY <2>1, ByteArrived, Zenon
<1>3. socket' = [socket EXCEPT ![f] = new]
  BY Zenon DEF send_byte
<1> HIDE DEF Sockets, new
<1>4. socket' \in [Fds -> Sockets] /\ socket'[f] = new
      /\ \A g \in Fds \ {f} : socket'[g] = socket[g]
  BY <1>1, <1>2, <1>3
<1>5. \A g \in Fds : socket'[g].state = socket[g].state /\ socket'[g].peer = socket[g].peer
  BY <1>2, <1>4
<1>6. \A g \in Fds : socket'[g].sent - socket'[g].inbox = socket[g].sent - socket[g].inbox
  <2>1. socket[f].sent \in Nat /\ socket[f].inbox \in Nat
    BY <1>1 DEF Sockets
  <2>2. socket'[f].sent - socket'[f].inbox = socket[f].sent - socket[f].inbox
    BY <1>2, <1>4, <2>1
  <2> QED BY <1>4, <2>2
<1> USE FdsFacts DEF IInv, send_byte, Notify, acceptorVars, queueVars, reactorVars, bufferVars
<1>7. TypeOK'
  <2>1. \A g \in Fds : socket'[g].inbox <= socket'[g].sent
    <3>1. socket'[f].inbox <= socket'[f].sent
      BY <1>1, <1>2, <1>4 DEF Sockets
    <3>2. \A g \in Fds \ {f} : socket'[g].inbox <= socket'[g].sent
      BY <1>4 DEF TypeOK
    <3> QED BY Zenon, <3>1, <3>2
  <2>2. ready' \subseteq interest'
    BY DEF TypeOK
  <2> QED BY Zenon, <1>4, <2>1, <2>2 DEF TypeOK, Sockets
<1>8. OneOwner' /\ SignalHeld' /\ NoSignalForgotten'
  <2>1. \A k \in DOMAIN queue : queue[k] \in Fds
    BY DEF TypeOK
  <2>2. OneOwner'
    BY <1>5, <2>1 DEF OneOwner, TypeOK
  <2>3. SignalHeld' /\ NoSignalForgotten'
    BY DEF SignalHeld, NoSignalForgotten
  <2> QED BY <2>2, <2>3
<1>9. UnregisteredIsFresh'
  <2>1. socket[f].inbox = socket[f].sent => socket'[f].inbox = socket'[f].sent
    BY <1>2, <1>4
  <2> QED BY <1>4, <1>5, <2>1 DEF UnregisteredIsFresh
<1>10. NoEdgeLost'
  <2>1. f \in interest => f \in ready'
    OBVIOUS
  <2>2. \A g \in Fds \ {f} : Readable(g)' = Readable(g)
    BY <1>4 DEF Readable
  <2> QED BY <2>1, <2>2 DEF NoEdgeLost, TypeOK
<1>11. HandlerReadsStream' /\ ReadWasShown'
  BY Zenon, <1>5, <1>6 DEF HandlerReadsStream, ReadWasShown
<1> QED BY <1>7, <1>8, <1>9, <1>10, <1>11

\* So does a hang-up.
LEMMA HangUpIInv == ASSUME IInv, NEW f \in Fds, hang_up(f) PROVE IInv'
<1> USE FdsFacts DEF IInv, hang_up, Notify, acceptorVars, queueVars, reactorVars, bufferVars
<1>1. TypeOK'
  BY Zenon DEF TypeOK
<1>2. OneOwner' /\ SignalHeld' /\ NoSignalForgotten'
  <2>1. \A g \in Fds : socket'[g].state = socket[g].state
    BY DEF TypeOK
  <2>2. \A k \in DOMAIN queue : queue[k] \in Fds
    BY DEF TypeOK
  <2>3. OneOwner'
    BY <2>1, <2>2 DEF OneOwner, TypeOK
  <2>4. SignalHeld' /\ NoSignalForgotten'
    BY DEF SignalHeld, NoSignalForgotten
  <2> QED BY <2>3, <2>4
<1>3. UnregisteredIsFresh'
  BY DEF UnregisteredIsFresh, TypeOK
<1>4. NoEdgeLost'
  BY DEF NoEdgeLost, Readable, TypeOK
<1>5. \A g \in Fds : (socket[g].sent - socket[g].inbox)' = socket[g].sent - socket[g].inbox
                     /\ socket'[g].state = socket[g].state
  BY DEF TypeOK
<1>6. HandlerReadsStream' /\ ReadWasShown'
  BY <1>5 DEF HandlerReadsStream, ReadWasShown
<1> QED BY <1>1, <1>2, <1>3, <1>4, <1>6

-----------------------------------------------------------------------------
(* wait_for_connections()                                                   *)

\* accept(): the descriptor was closed, so its buffer is empty.
LEMMA AcceptIInv == ASSUME IInv, accept PROVE IInv'
<1>1. PICK f \in Fds :
          /\ socket[f].state = "closed"
          /\ socket' = [socket EXCEPT ![f] = [Closed EXCEPT !.state = "open"]]
          /\ taken' = [taken EXCEPT ![f] = 0] /\ shown' = [shown EXCEPT ![f] = 0]
          /\ new_fd' = f
  BY Zenon DEF accept
<1>2. /\ socket' \in [Fds -> [state : {"open", "closed"}, peer : {"up", "gone"},
                              sent : Nat, inbox : Nat]]
      /\ socket'[f] = [state |-> "open", peer |-> "up", sent |-> 0, inbox |-> 0]
      /\ \A g \in Fds \ {f} : socket'[g] = socket[g]
      /\ taken' \in [Fds -> Nat] /\ shown' \in [Fds -> Nat] /\ taken'[f] = 0 /\ shown'[f] = 0
      /\ \A g \in Fds \ {f} : taken'[g] = taken[g] /\ shown'[g] = shown[g]
  BY Zenon, <1>1 DEF IInv, TypeOK, Closed
<1>3. f \notin interest /\ \A k \in DOMAIN queue : queue[k] # f
  BY <1>1, FdsFacts DEF IInv, OneOwner
<1>4. f \in Buffered => fd_buffers_[f] = Fresh
  BY <1>3 DEF IInv, UnregisteredIsFresh
<1> USE FdsFacts DEF IInv, accept, acceptorVars, queueVars, reactorVars, bufferVars
<1>5. TypeOK'
  <2>1. \A g \in Fds : socket'[g].inbox <= socket'[g].sent
    <3>1. socket'[f].inbox = 0 /\ socket'[f].sent = 0
      BY <1>2
    <3>2. \A g \in Fds \ {f} : socket'[g].inbox <= socket'[g].sent
      BY <1>2 DEF TypeOK
    <3> QED BY <3>1, <3>2
  <2> QED BY <1>1, <1>2, <2>1 DEF TypeOK
<1>6. OneOwner' /\ SignalHeld' /\ NoSignalForgotten'
  <2>1. socket'[f].state = "open" /\ \A g \in Fds \ {f} : socket'[g].state = socket[g].state
    BY <1>2
  <2>2. \A k \in DOMAIN queue : queue[k] \in Fds
    BY DEF TypeOK
  <2>3. OneOwner'
    BY <1>1, <1>3, <2>1, <2>2 DEF OneOwner, TypeOK
  <2>4. SignalHeld' /\ NoSignalForgotten'
    BY DEF SignalHeld, NoSignalForgotten
  <2> QED BY <2>3, <2>4
<1>7. UnregisteredIsFresh'
  BY <1>2, <1>4 DEF UnregisteredIsFresh
<1>8. NoEdgeLost'
  <2>1. \A g \in Fds \ {f} : Readable(g)' = Readable(g)
    BY <1>2 DEF Readable
  <2> SUFFICES ASSUME NEW g \in interest \ {EventFd}, Readable(g)'
               PROVE  g \in ready \cup events \/ (reactor = "recv" /\ fd = g)
    BY DEF NoEdgeLost
  <2>2. g \in Fds \ {f} /\ Readable(g)
    BY Zenon, <1>3, <2>1 DEF TypeOK
  <2> QED BY <2>2 DEF NoEdgeLost
<1>9. ReadWasShown'
  BY <1>2 DEF ReadWasShown
<1>10. HandlerReadsStream'
  <2> SUFFICES ASSUME NEW g \in Buffered, socket'[g].state = "open"
               PROVE  Unread(pages[g], fd_buffers_[g]) =
                        Stream(taken'[g], socket'[g].sent - socket'[g].inbox - taken'[g])
    BY DEF HandlerReadsStream
  <2>1. CASE g = f
    <3>1. Unread(pages[g], fd_buffers_[g]) = <<>>
      BY <1>4, <2>1, FreshIsEmpty DEF Unread
    <3>2. Stream(taken'[g], socket'[g].sent - socket'[g].inbox - taken'[g]) = <<>>
      BY <1>2, <2>1 DEF Stream
    <3> QED BY <3>1, <3>2
  <2>2. CASE g # f
    BY <1>2, <2>2 DEF HandlerReadsStream
  <2> QED BY <2>1, <2>2
<1> QED BY <1>5, <1>6, <1>7, <1>8, <1>9, <1>10

\* push() hands the descriptor to the queue.
LEMMA PushIInv == ASSUME IInv, push PROVE IInv'
<1> USE DEF IInv, push, Queue!Enqueue, acceptorVars, queueVars, reactorVars, bufferVars
<1>1. new_fd \in Fds /\ queue \in Seq(Fds) /\ queue' = Append(queue, new_fd)
  BY DEF OneOwner, TypeOK
<1>2. /\ queue' \in Seq(Fds) /\ DOMAIN queue' = 1 .. Len(queue) + 1
      /\ DOMAIN queue = 1 .. Len(queue) /\ Len(queue) \in Nat
      /\ queue'[Len(queue) + 1] = new_fd
      /\ \A k \in 1 .. Len(queue) : queue'[k] = queue[k]
  BY <1>1
<1>3. TypeOK'
  BY <1>2 DEF TypeOK
<1>4. OneOwner'
  BY <1>2 DEF OneOwner
<1>5. UnregisteredIsFresh' /\ SignalHeld' /\ NoSignalForgotten' /\ NoEdgeLost'
  BY DEF UnregisteredIsFresh, SignalHeld, NoSignalForgotten, NoEdgeLost, Readable
<1>6. HandlerReadsStream' /\ ReadWasShown'
  BY DEF HandlerReadsStream, ReadWasShown
<1> QED BY <1>3, <1>4, <1>5, <1>6

\* The write to the eventfd only adds a signal.
LEMMA SignalIInv == ASSUME IInv, signal PROVE IInv'
<1> USE FdsFacts DEF IInv, signal, Notify, acceptorVars, queueVars, reactorVars, bufferVars
<1>1. TypeOK' /\ OneOwner' /\ SignalHeld' /\ NoSignalForgotten'
  BY DEF TypeOK, OneOwner, SignalHeld, NoSignalForgotten
<1>2. UnregisteredIsFresh'
  BY DEF UnregisteredIsFresh
<1>3. NoEdgeLost'
  BY DEF NoEdgeLost, Readable, TypeOK
<1>4. HandlerReadsStream' /\ ReadWasShown'
  BY DEF HandlerReadsStream, ReadWasShown
<1> QED BY <1>1, <1>2, <1>3, <1>4
-----------------------------------------------------------------------------
(* run()                                                                    *)

\* epoll_wait() moves the edges that still hold to this turn's events.
LEMMA EpollWaitIInv == ASSUME IInv, epoll_wait PROVE IInv'
<1> USE FdsFacts DEF IInv, epoll_wait, acceptorVars, queueVars, bufferVars
<1>1. TypeOK'
  BY DEF TypeOK
<1>2. OneOwner'
  BY DEF OneOwner, TypeOK
<1>3. SignalHeld' /\ NoSignalForgotten'
  BY Zenon DEF SignalHeld, NoSignalForgotten, Readable
<1>4. UnregisteredIsFresh'
  BY DEF UnregisteredIsFresh
<1>5. NoEdgeLost'
  <2>1. reactor # "recv" /\ events = {}
    BY DEF OneOwner
  <2> QED BY <2>1 DEF NoEdgeLost, Readable, TypeOK
<1>6. HandlerReadsStream' /\ ReadWasShown'
  BY DEF HandlerReadsStream, ReadWasShown
<1> QED BY <1>1, <1>2, <1>3, <1>4, <1>5, <1>6

\* The loop over the events of run().
LEMMA NextEventIInv == ASSUME IInv, next_event PROVE IInv'
<1> USE FdsFacts DEF IInv, next_event, acceptorVars, queueVars, bufferVars
<1>1. TypeOK'
  BY DEF TypeOK
<1>2. OneOwner'
  BY DEF OneOwner, TypeOK
<1>3. SignalHeld' /\ NoSignalForgotten'
  BY DEF SignalHeld, NoSignalForgotten
<1>4. UnregisteredIsFresh'
  BY DEF UnregisteredIsFresh
<1>5. NoEdgeLost'
  BY DEF NoEdgeLost, Readable, TypeOK
<1>6. HandlerReadsStream' /\ ReadWasShown'
  BY DEF HandlerReadsStream, ReadWasShown
<1> QED BY <1>1, <1>2, <1>3, <1>4, <1>5, <1>6

\* A descriptor that is closed, with a fresh buffer and in nobody's hands.
LEMMA CloseIInv ==
    ASSUME IInv, NEW f \in Fds, close(f),
           f \notin events, acceptor = "push" => new_fd # f,
           \A k \in DOMAIN queue' : queue'[k] # f,
           \A k \in DOMAIN queue' : queue'[k] \in Fds /\ socket[queue'[k]].state = "open"
                                    /\ queue'[k] \notin interest,
           \A j, k \in DOMAIN queue' : queue'[j] = queue'[k] => j = k,
           acceptor = "push" => \A k \in DOMAIN queue' : queue'[k] # new_fd,
           queue' \in Seq(Fds),
           fd_buffers_' \in [Buffered -> Heads],
           f \in Buffered => fd_buffers_'[f] = Fresh,
           \A g \in Buffered \ {f} : fd_buffers_'[g] = fd_buffers_[g],
           reactor \in {"recv", "pop"},
           reactor' \in {"events", "pop"}, reactor' = "pop" => reactor = "pop",
           reactor = "recv" => fd = f,
           UNCHANGED <<acceptorVars, event_count, events, fd, has_new_connections,
                       pages, taken, shown>>
    PROVE  IInv'
<1>1. /\ socket' \in [Fds -> [state : {"open", "closed"}, peer : {"up", "gone"},
                              sent : Nat, inbox : Nat]]
      /\ socket'[f] = Closed
      /\ \A g \in Fds \ {f} : socket'[g] = socket[g]
  BY ClosedType DEF IInv, TypeOK, close
<1>2. \A g \in Fds : socket'[g].inbox <= socket'[g].sent
  <2>1. socket'[f].inbox <= socket'[f].sent
    BY <1>1, ClosedType
  <2> QED BY Zenon, <1>1, <2>1 DEF IInv, TypeOK
<1> USE FdsFacts DEF IInv, close, acceptorVars
<1>3. TypeOK'
  BY Zenon, <1>1, <1>2 DEF TypeOK
<1>4. OneOwner'
  <2>1. \A g \in Fds \ {f} : socket'[g].state = socket[g].state
    BY <1>1
  <2>2. (acceptor = "push" =>
            /\ new_fd \in Fds \ interest /\ socket[new_fd].state = "open"
            /\ \A k \in DOMAIN queue : queue[k] # new_fd)'
    BY <2>1 DEF OneOwner
  <2>3. (\A k \in DOMAIN queue : socket[queue[k]].state = "open" /\ queue[k] \notin interest)'
    BY <2>1
  <2>4. (\A g \in interest \ {EventFd} : socket[g].state = "open")'
    BY <2>1 DEF OneOwner, TypeOK
  <2>5. (/\ events \subseteq interest
         /\ reactor = "recv" => fd \in (interest \cap Fds) \ events
         /\ reactor \in {"wait", "pop", "clear"} => events = {})'
    BY DEF OneOwner
  <2> QED BY <2>2, <2>3, <2>4, <2>5 DEF OneOwner
<1>5. SignalHeld' /\ NoSignalForgotten'
  BY DEF SignalHeld, NoSignalForgotten
<1>6. UnregisteredIsFresh'
  BY <1>1, ClosedType DEF UnregisteredIsFresh
<1>7. NoEdgeLost'
  BY <1>1 DEF NoEdgeLost, Readable, TypeOK
<1>8. HandlerReadsStream' /\ ReadWasShown'
  BY <1>1, ClosedType DEF HandlerReadsStream, ReadWasShown
<1> QED BY <1>3, <1>4, <1>5, <1>6, <1>7, <1>8

\* The two branches of run() that reset the buffer and close the client.
LEMMA DisconnectIInv ==
    ASSUME IInv, reactor = "recv", fd \in Buffered, disconnect, UNCHANGED serveRest
    PROVE  IInv'
<1>1. fd \in Fds /\ fd \in interest
  BY DEF IInv, OneOwner
<1>2. close(fd) /\ reactor' = "events" /\ UNCHANGED <<pages, taken, shown>>
      /\ UNCHANGED <<acceptorVars, event_count, events, fd, has_new_connections>>
      /\ UNCHANGED queue
  BY DEF disconnect, serveRest, queueVars
<1>3. /\ fd_buffers_' \in [Buffered -> Heads]
      /\ fd_buffers_'[fd] = Fresh
      /\ \A g \in Buffered \ {fd} : fd_buffers_'[g] = fd_buffers_[g]
  BY FreshIsEmpty DEF disconnect, IInv, TypeOK
<1>4. /\ fd \notin events /\ (acceptor = "push" => new_fd # fd)
      /\ \A k \in DOMAIN queue : queue[k] # fd
  BY <1>1 DEF IInv, OneOwner
<1>5. \A k \in DOMAIN queue : queue[k] \in Fds
  BY DEF IInv, TypeOK
<1> QED BY Zenon, <1>1, <1>2, <1>3, <1>4, <1>5, CloseIInv DEF IInv, OneOwner, TypeOK

\* A part of a client's stream is a sequence.
LEMMA StreamType ==
    ASSUME NEW start \in Nat, NEW n \in Nat
    PROVE  Stream(start, n) \in Seq(Nat) /\ Len(Stream(start, n)) = n
  BY DEF Stream

\* Two adjacent parts of a client's stream make one.
LEMMA StreamContinues ==
    ASSUME NEW start \in Nat, NEW m \in Nat, NEW n \in Nat
    PROVE  Stream(start, m) \o Stream(start + m, n) = Stream(start, m + n)
<1> DEFINE s == Stream(start, m)
           t == Stream(start + m, n)
           S == Nat
<1>1. s \in Seq(S) /\ Len(s) = m /\ t \in Seq(S) /\ Len(t) = n
  BY StreamType
<1>2. \A k \in 1 .. m + n : (IF k <= m THEN s[k] ELSE t[k - m]) = start + k
  BY DEF Stream
<1> HIDE DEF s, t, S
<1>3. s \o t = [k \in 1 .. m + n |-> IF k <= m THEN s[k] ELSE t[k - m]]
  <2>1. s \o t = [k \in 1 .. Len(s) + Len(t) |-> IF k <= Len(s) THEN s[k] ELSE t[k - Len(s)]]
    BY <1>1, Concatenation, Zenon
  <2> QED BY <1>1, <2>1, Zenon
<1>4. s \o t = Stream(start, m + n)
  BY <1>2, <1>3 DEF Stream
<1> QED BY <1>4 DEF s, t

\* recv() returned n bytes that fit, the handler read some of what was there
\* before, and advance_write() adds the new ones.
LEMMA ReceivedStream ==
    ASSUME NEW b \in Heads, NEW memory \in [Offsets -> Nat], NEW start \in Nat,
           Unread(memory, b) = Stream(start, read_space_left(b)),
           NEW n \in 1 .. write_space_left(b), NEW read \in 0 .. read_space_left(b)
    PROVE  LET bytes == Stream(start + read_space_left(b), n)
               after == advance_write(advance_read(b, read), n)
           IN  /\ after \in Heads
               /\ Written(memory, b, bytes) \in [Offsets -> Nat]
               /\ Unread(Written(memory, b, bytes), after) =
                    Stream(start + read, read_space_left(b) + n - read)
<1> DEFINE r == read_space_left(b)
           b1 == advance_read(b, read)
           bytes == Stream(start + r, n)
           after == advance_write(b1, n)
           S == Nat
<1>1. /\ r \in 0 .. aligned_capacity_ - 1 /\ n \in 1 .. aligned_capacity_
      /\ read \in 0 .. aligned_capacity_ /\ write_space_left(b) \in Nat
  BY SpacesAddUp, CapacityAssumption
<1>2. b1 \in Heads /\ b1.write_head_ = b.write_head_
  BY <1>1, HeadsStay DEF advance_read, Heads
<1>3. after \in Heads
  BY <1>1, <1>2, HeadsStay
<1>4. bytes \in Seq(S) /\ Len(bytes) = n
  <2>1. start + r \in Nat /\ n \in Nat
    BY <1>1
  <2> HIDE DEF r
  <2> QED BY <2>1, StreamType
<1>5. read_space_left(b1) = r - read
  BY AdvanceReadTakes
<1>6. n <= write_space_left(b1)
  BY <1>1, <1>5, CapacityAssumption DEF write_space_left
<1>7. \A o \in Offsets : FromWriteHead(b1, o) = FromWriteHead(b, o)
  BY <1>2 DEF FromWriteHead
<1>8. Written(memory, b, bytes) = Written(memory, b1, bytes)
  BY <1>7 DEF Written
<1>9. \A o \in Offsets : FromWriteHead(b, o) \in Nat
  <2>1. b.write_head_ \in Offsets
    BY DEF Heads
  <2> QED BY <2>1, CapacityAssumption DEF FromWriteHead, Offsets
<1>10. Written(memory, b, bytes) \in [Offsets -> Nat]
  <2> SUFFICES ASSUME NEW o \in Offsets
               PROVE  (IF FromWriteHead(b, o) < Len(bytes)
                       THEN bytes[FromWriteHead(b, o) + 1] ELSE memory[o]) \in Nat
    BY DEF Written
  <2> QED BY <1>1, <1>4, <1>9
<1>11. Unread(memory, b1) = Stream(start + read, r - read)
  <2>1. Unread(memory, b1) = [k \in 1 .. r - read |-> Unread(memory, b)[k + read]]
    BY ReadDropsFront
  <2>2. \A k \in 1 .. r - read : Unread(memory, b)[k + read] = (start + read) + k
    BY <1>1 DEF Stream
  <2> QED BY <2>1, <2>2 DEF Stream
<1>12. after = advance_write(b1, Len(bytes)) /\ Len(bytes) <= write_space_left(b1)
       /\ memory \in [Offsets -> S]
  BY <1>4, <1>6
<1> HIDE DEF b1, bytes, after, S
<1>13. Unread(Written(memory, b1, bytes), after) = Unread(memory, b1) \o bytes
  <2>1. b1 \in Heads
    BY <1>2
  <2>2. memory \in [Offsets -> S] /\ bytes \in Seq(S)
    BY <1>4, <1>12
  <2>3. Len(bytes) <= write_space_left(b1)
    BY <1>12
  <2>4. Unread(Written(memory, b1, bytes), advance_write(b1, Len(bytes)))
            = Unread(memory, b1) \o bytes
    BY ONLY <2>1, <2>2, <2>3, WriteAppends, Zenon
  <2> QED BY <1>12, <2>4
<1>14. /\ r - read \in Nat /\ start + read \in Nat /\ n \in Nat
       /\ (r - read) + n = r + n - read /\ (start + read) + (r - read) = start + r
  BY <1>1
<1>15. Stream(start + read, r - read) \o Stream((start + read) + (r - read), n)
          = Stream(start + read, (r - read) + n)
  BY Zenon, <1>14, StreamContinues
<1>16. Unread(Written(memory, b, bytes), after) = Stream(start + read, r + n - read)
  BY Zenon, <1>8, <1>11, <1>13, <1>14, <1>15 DEF bytes
<1> QED BY <1>3, <1>10, <1>16 DEF b1, bytes, after

\* The branch of run() that received bytes.
LEMMA RecvBytesIInv ==
    ASSUME IInv, reactor = "recv", fd \in Buffered, NEW n \in 1 .. socket[fd].inbox,
           n <= write_space_left(fd_buffers_[fd]), recv_bytes(n), UNCHANGED serveRest
    PROVE  IInv'
<1> DEFINE b == fd_buffers_[fd]
           memory == pages[fd]
           start == taken[fd]
           from == socket[fd].sent - socket[fd].inbox
           bytes == Stream(from, n)
<1>1. /\ fd \in Fds /\ fd \in interest /\ socket[fd].state = "open"
      /\ b \in Heads /\ memory \in [Offsets -> Nat] /\ start \in Nat
      /\ socket[fd].sent \in Nat /\ socket[fd].inbox \in Nat /\ from \in Nat
  BY FdsFacts DEF IInv, OneOwner, TypeOK
<1>2. PICK read \in 0 .. read_space_left(b) :
          /\ fd_buffers_' = [fd_buffers_ EXCEPT ![fd] = advance_write(advance_read(@, read), n)]
          /\ taken' = [taken EXCEPT ![fd] = @ + read]
  BY Zenon DEF recv_bytes
<1>3. /\ pages' = [pages EXCEPT ![fd] = Written(memory, b, bytes)]
      /\ shown' = [shown EXCEPT ![fd] = from]
      /\ socket' = [socket EXCEPT ![fd].inbox = @ - n]
      /\ UNCHANGED <<interest, ready, reactor>>
  BY DEF recv_bytes
<1>4. read_space_left(b) \in Nat /\ write_space_left(b) \in Nat
  BY <1>1, SpacesAddUp
<1>5. Unread(memory, b) = Stream(start, from - start)
  BY <1>1 DEF IInv, HandlerReadsStream
<1>6. from - start = read_space_left(b)
  <2>1. DOMAIN Unread(memory, b) = 1 .. read_space_left(b)
    BY DEF Unread
  <2>2. DOMAIN Unread(memory, b) = 1 .. from - start
    BY <1>5 DEF Stream
  <2>3. from - start >= 0
    <3>1. start \in Nat /\ shown[fd] \in Nat /\ from \in Int
      BY <1>1 DEF IInv, TypeOK
    <3>2. start <= shown[fd] /\ shown[fd] <= from
      BY <1>1 DEF IInv, ReadWasShown
    <3> HIDE DEF start, from
    <3> QED BY <3>1, <3>2
  <2> QED BY <1>1, <1>4, <2>1, <2>2, <2>3
<1>7. /\ fd_buffers_'[fd] \in Heads
      /\ Written(memory, b, bytes) \in [Offsets -> Nat]
      /\ Unread(Written(memory, b, bytes), fd_buffers_'[fd]) =
            Stream(start + read, read_space_left(b) + n - read)
  <2>1. fd_buffers_'[fd] = advance_write(advance_read(b, read), n)
    BY <1>2 DEF IInv, TypeOK
  <2>2. from = start + read_space_left(b)
    BY <1>1, <1>4, <1>6
  <2>3. bytes = Stream(start + read_space_left(b), n)
    BY <2>2
  <2>4. Unread(memory, b) = Stream(start, read_space_left(b))
    BY <1>5, <1>6
  <2>5. n \in 1 .. write_space_left(b)
    BY <1>1, <1>4
  <2> HIDE DEF b, memory, start, bytes, from
  <2> QED BY <1>1, <2>1, <2>3, <2>4, <2>5, ReceivedStream
<1>8. /\ socket' \in [Fds -> [state : {"open", "closed"}, peer : {"up", "gone"},
                              sent : Nat, inbox : Nat]]
      /\ socket'[fd].inbox = socket[fd].inbox - n /\ socket'[fd].sent = socket[fd].sent
      /\ \A g \in Fds : socket'[g].state = socket[g].state
      /\ \A g \in Fds \ {fd} : socket'[g] = socket[g]
  <2> DEFINE Sockets == [state : {"open", "closed"}, peer : {"up", "gone"},
                         sent : Nat, inbox : Nat]
             new == [socket[fd] EXCEPT !.inbox = @ - n]
  <2>1. socket \in [Fds -> Sockets]
    BY DEF IInv, TypeOK
  <2>2. socket[fd] \in Sockets /\ socket[fd].inbox - n \in Nat
    BY <1>1, <2>1
  <2>3. /\ new \in Sockets /\ new.inbox = socket[fd].inbox - n
        /\ new.sent = socket[fd].sent /\ new.state = socket[fd].state
    BY <2>2
  <2>4. socket' = [socket EXCEPT ![fd] = new]
    BY <1>3
  <2> HIDE DEF Sockets, new
  <2>5. socket' \in [Fds -> Sockets] /\ socket'[fd] = new
        /\ \A g \in Fds \ {fd} : socket'[g] = socket[g]
    BY <1>1, <2>1, <2>3, <2>4
  <2>6. \A g \in Fds : socket'[g].state = socket[g].state
    BY <2>3, <2>5
  <2> QED BY <2>3, <2>5, <2>6 DEF Sockets
<1>9. /\ taken' \in [Fds -> Nat] /\ shown' \in [Fds -> Nat]
      /\ taken'[fd] = start + read /\ shown'[fd] = from
      /\ \A g \in Fds \ {fd} : taken'[g] = taken[g] /\ shown'[g] = shown[g]
  <2>0. taken \in [Fds -> Nat] /\ shown \in [Fds -> Nat]
    BY DEF IInv, TypeOK
  <2>1. from \in Nat /\ start + read \in Nat
    BY <1>1, <1>4
  <2>2. taken' = [taken EXCEPT ![fd] = start + read]
    BY <1>2
  <2> HIDE DEF start, from
  <2> QED BY <1>1, <1>3, <2>0, <2>1, <2>2
<1>10. /\ fd_buffers_' \in [Buffered -> Heads] /\ pages' \in [Buffered -> [Offsets -> Nat]]
       /\ pages'[fd] = Written(memory, b, bytes)
       /\ \A g \in Buffered \ {fd} : fd_buffers_'[g] = fd_buffers_[g] /\ pages'[g] = pages[g]
  <2>1. fd_buffers_' \in [Buffered -> Heads]
    <3>1. advance_write(advance_read(b, read), n) \in Heads
      BY <1>2, <1>7 DEF IInv, TypeOK
    <3> QED BY <1>2, <3>1 DEF IInv, TypeOK
  <2>2. pages' \in [Buffered -> [Offsets -> Nat]] /\ pages'[fd] = Written(memory, b, bytes)
    BY <1>3, <1>7 DEF IInv, TypeOK
  <2>3. \A g \in Buffered \ {fd} : fd_buffers_'[g] = fd_buffers_[g] /\ pages'[g] = pages[g]
    BY <1>2, <1>3 DEF IInv, TypeOK
  <2> QED BY <2>1, <2>2, <2>3
<1> USE FdsFacts DEF serveRest, acceptorVars, queueVars
<1>11. TypeOK'
  <2>1. \A g \in Fds : socket'[g].inbox <= socket'[g].sent
    <3>1. socket'[fd].inbox <= socket'[fd].sent
      <4>1. socket[fd].inbox \in Nat /\ socket[fd].sent \in Nat /\ socket[fd].inbox <= socket[fd].sent
        BY <1>1 DEF IInv, TypeOK
      <4>2. n \in Nat
        BY <1>1
      <4> QED BY <1>8, <4>1, <4>2
    <3>2. \A g \in Fds \ {fd} : socket'[g].inbox <= socket'[g].sent
      BY <1>8 DEF IInv, TypeOK
    <3> QED BY <3>1, <3>2
  <2> QED BY Zenon, <1>3, <1>8, <1>9, <1>10, <2>1 DEF IInv, TypeOK
<1>12. OneOwner'
  <2>1. /\ \A k \in DOMAIN queue : queue[k] \in Fds
        /\ interest \subseteq Fds \cup {EventFd}
    BY DEF IInv, TypeOK
  <2>2. \A g \in Fds : socket'[g].state = socket[g].state
    BY <1>8
  <2> QED BY <1>3, <2>1, <2>2 DEF IInv, OneOwner
<1>13. UnregisteredIsFresh'
  <2> SUFFICES ASSUME NEW g \in Fds \ interest
               PROVE  /\ g \in Buffered => fd_buffers_'[g] = Fresh
                      /\ socket'[g].state = "open" =>
                            socket'[g].inbox = socket'[g].sent /\ taken'[g] = 0 /\ shown'[g] = 0
    BY <1>3 DEF UnregisteredIsFresh
  <2>1. g # fd
    BY <1>1
  <2>2. /\ socket'[g] = socket[g] /\ taken'[g] = taken[g] /\ shown'[g] = shown[g]
        /\ g \in Buffered => fd_buffers_'[g] = fd_buffers_[g]
    BY <1>8, <1>9, <1>10, <2>1
  <2> QED BY <2>2 DEF IInv, UnregisteredIsFresh
<1>14. SignalHeld' /\ NoSignalForgotten'
  BY <1>3 DEF IInv, SignalHeld, NoSignalForgotten
<1>15. NoEdgeLost'
  BY <1>3, <1>8 DEF IInv, NoEdgeLost, Readable, TypeOK
<1>16. HandlerReadsStream'
  <2> SUFFICES ASSUME NEW g \in Buffered, socket'[g].state = "open"
               PROVE  Unread(pages'[g], fd_buffers_'[g]) =
                        Stream(taken'[g], socket'[g].sent - socket'[g].inbox - taken'[g])
    BY DEF HandlerReadsStream
  <2>1. CASE g = fd
    <3>1. socket'[fd].sent - socket'[fd].inbox - taken'[fd] = read_space_left(b) + n - read
      BY <1>1, <1>4, <1>6, <1>8, <1>9
    <3>2. taken'[fd] = start + read
      BY <1>9
    <3> HIDE DEF b, memory, start, bytes, from
    <3> QED BY <1>7, <1>10, <2>1, <3>1, <3>2
  <2>2. CASE g # fd
    <3>1. /\ socket'[g] = socket[g] /\ taken'[g] = taken[g]
          /\ pages'[g] = pages[g] /\ fd_buffers_'[g] = fd_buffers_[g]
      BY Zenon, <1>8, <1>9, <1>10, <2>2
    <3> QED BY <3>1 DEF IInv, HandlerReadsStream
  <2> QED BY <2>1, <2>2
<1>17. ReadWasShown'
  <2>1. taken'[fd] <= shown'[fd] /\ shown'[fd] <= socket'[fd].sent - socket'[fd].inbox
    BY <1>1, <1>4, <1>6, <1>8, <1>9
  <2> QED BY <1>8, <1>9, <2>1 DEF IInv, ReadWasShown
<1> QED BY <1>11, <1>12, <1>13, <1>14, <1>15, <1>16, <1>17 DEF IInv

\* All branches of the recv() loop.
LEMMA RecvIInv == ASSUME IInv, recv PROVE IInv'
<1>1. reactor = "recv" /\ UNCHANGED serveRest
  BY DEF recv
<1>2. CASE fd \in Buffered /\ receive
  <2> DEFINE space == write_space_left(fd_buffers_[fd])
             inbox == socket[fd].inbox
  <2>1. fd \in Fds /\ inbox \in Nat /\ space \in Nat
    BY <1>2, FdsFacts, SpacesAddUp DEF IInv, TypeOK
  <2>2. CASE inbox > 0 /\ space > 0 /\ recv_bytes(IF inbox < space THEN inbox ELSE space)
    <3> DEFINE n == IF inbox < space THEN inbox ELSE space
    <3>1. n \in 1 .. socket[fd].inbox /\ n <= write_space_left(fd_buffers_[fd]) /\ recv_bytes(n)
      BY <2>1, <2>2
    <3> HIDE DEF n, inbox, space
    <3> QED BY <1>1, <1>2, <3>1, RecvBytesIInv
  <2>3. CASE disconnect
    BY <1>1, <1>2, <2>3, DisconnectIInv
  <2>4. CASE inbox = 0 /\ socket[fd].peer = "up" /\ reactor' = "events"
             /\ UNCHANGED <<socket, interest, ready, bufferVars>>
    <3> USE <1>1, <2>1, <2>4, FdsFacts DEF IInv, serveRest, acceptorVars, queueVars, bufferVars
    <3>1. TypeOK' /\ SignalHeld' /\ NoSignalForgotten'
      BY DEF TypeOK, SignalHeld, NoSignalForgotten
    <3>2. OneOwner'
      BY Zenon DEF OneOwner
    <3>3. UnregisteredIsFresh'
      BY Zenon DEF UnregisteredIsFresh
    <3>4. NoEdgeLost'
      BY DEF NoEdgeLost, Readable, TypeOK
    <3>5. HandlerReadsStream' /\ ReadWasShown'
      BY Zenon DEF HandlerReadsStream, ReadWasShown
    <3> QED BY <3>1, <3>2, <3>3, <3>4, <3>5
  <2> QED BY <1>2, <2>2, <2>3, <2>4 DEF receive
<1>3. CASE UNCHANGED <<socket, interest, ready, reactor, bufferVars>>
  <2> USE <1>1, <1>3 DEF IInv, serveRest, acceptorVars, queueVars, bufferVars
  <2>1. TypeOK' /\ OneOwner' /\ SignalHeld' /\ NoSignalForgotten' /\ UnregisteredIsFresh'
    BY DEF TypeOK, OneOwner, SignalHeld, NoSignalForgotten, UnregisteredIsFresh
  <2>2. NoEdgeLost' /\ HandlerReadsStream' /\ ReadWasShown'
    BY DEF NoEdgeLost, Readable, HandlerReadsStream, ReadWasShown
  <2> QED BY <2>1, <2>2
<1> QED BY <1>2, <1>3 DEF recv

\* The pop() loop registers the connection or closes it.
LEMMA PopIInv == ASSUME IInv, pop PROVE IInv'
<1>1. CASE Queue!Dequeue /\ UNCHANGED reactor
  <2> DEFINE f == Head(queue)
  <2>1. queue \in Seq(Fds) /\ queue # <<>> /\ queue' = Tail(queue) /\ delivered' = f
    BY <1>1 DEF IInv, TypeOK, Queue!Dequeue
  <2>2. /\ f \in Fds /\ f = queue[1] /\ 1 \in DOMAIN queue /\ queue' \in Seq(Fds)
        /\ \A k \in DOMAIN queue' : k + 1 \in DOMAIN queue /\ queue'[k] = queue[k + 1] /\ k \in Nat \ {0}
    BY <2>1
  <2>3. f \notin interest /\ socket[f].state = "open" /\ (acceptor = "push" => new_fd # f)
    BY <2>2 DEF IInv, OneOwner
  <2>4. \A k \in DOMAIN queue' : queue'[k] # f
    BY <2>2 DEF IInv, OneOwner
  <2>5. /\ \A k \in DOMAIN queue' : queue'[k] \in Fds /\ socket[queue'[k]].state = "open"
                                     /\ queue'[k] \notin interest
        /\ \A j, k \in DOMAIN queue' : queue'[j] = queue'[k] => j = k
        /\ acceptor = "push" => \A k \in DOMAIN queue' : queue'[k] # new_fd
    <3>1. \A k \in DOMAIN queue : queue[k] \in Fds
      BY <2>1
    <3>2. \A k \in DOMAIN queue' : queue'[k] \in Fds /\ socket[queue'[k]].state = "open"
                                     /\ queue'[k] \notin interest
      BY <2>2, <3>1 DEF IInv, OneOwner
    <3>3. \A j, k \in DOMAIN queue' : queue'[j] = queue'[k] => j = k
      BY <2>2 DEF IInv, OneOwner
    <3>4. acceptor = "push" => \A k \in DOMAIN queue' : queue'[k] # new_fd
      BY <2>2 DEF IInv, OneOwner
    <3> QED BY <3>2, <3>3, <3>4
  <2>6. /\ UNCHANGED <<acceptorVars, event_count, events, fd, has_new_connections, bufferVars>>
        /\ reactor = "pop" /\ events = {}
    BY <1>1 DEF pop, IInv, OneOwner
  <2>7. f \in Buffered => fd_buffers_[f] = Fresh
    BY <2>2, <2>3 DEF IInv, UnregisteredIsFresh
  <2> HIDE DEF f
  <2>8. CASE close(f)
    <3>1. f \notin events /\ reactor' = "pop" /\ fd_buffers_' \in [Buffered -> Heads]
          /\ UNCHANGED <<fd_buffers_, pages, taken, shown>>
      BY <1>1, <2>6 DEF bufferVars, IInv, TypeOK
    <3> QED BY <2>2, <2>3, <2>4, <2>5, <2>6, <2>7, <2>8, <3>1, CloseIInv
  <2>9. CASE /\ interest' = interest \cup {f}
             /\ ready' = IF Readable(f) THEN ready \cup {f} ELSE ready
             /\ UNCHANGED socket
    <3> USE <1>1, <2>2, <2>3, <2>4, <2>5, <2>6, <2>9, FdsFacts DEF IInv, acceptorVars, bufferVars
    <3>1. TypeOK'
      BY Zenon DEF TypeOK
    <3>2. OneOwner'
      BY DEF OneOwner
    <3>3. SignalHeld' /\ NoSignalForgotten' /\ UnregisteredIsFresh'
      BY DEF SignalHeld, NoSignalForgotten, UnregisteredIsFresh
    <3>4. NoEdgeLost'
      BY DEF NoEdgeLost, Readable
    <3>5. HandlerReadsStream' /\ ReadWasShown'
      BY DEF HandlerReadsStream, ReadWasShown
    <3> QED BY <3>1, <3>2, <3>3, <3>4, <3>5
  <2>10. CASE UNCHANGED <<socket, interest, ready>>
    <3> USE <1>1, <2>2, <2>5, <2>6, <2>10 DEF IInv, acceptorVars, bufferVars
    <3>1. TypeOK' /\ SignalHeld' /\ NoSignalForgotten' /\ UnregisteredIsFresh'
      BY Zenon DEF TypeOK, SignalHeld, NoSignalForgotten, UnregisteredIsFresh
    <3>2. OneOwner'
      BY Zenon DEF OneOwner
    <3>3. NoEdgeLost' /\ HandlerReadsStream' /\ ReadWasShown'
      BY Zenon DEF NoEdgeLost, Readable, HandlerReadsStream, ReadWasShown
    <3> QED BY <3>1, <3>2, <3>3
  <2> QED BY <1>1, <2>1, <2>8, <2>9, <2>10 DEF pop, add_socket
<1>2. CASE reactor' = "clear" /\ UNCHANGED <<queueVars, socket, interest, ready>>
  <2> USE <1>2 DEF IInv, pop, acceptorVars, queueVars, bufferVars
  <2>1. TypeOK' /\ SignalHeld' /\ NoSignalForgotten' /\ UnregisteredIsFresh'
    BY DEF TypeOK, SignalHeld, NoSignalForgotten, UnregisteredIsFresh
  <2>2. OneOwner'
    BY Zenon DEF OneOwner
  <2>3. NoEdgeLost' /\ HandlerReadsStream' /\ ReadWasShown'
    BY DEF NoEdgeLost, Readable, HandlerReadsStream, ReadWasShown
  <2> QED BY <2>1, <2>2, <2>3
<1> QED BY <1>1, <1>2 DEF pop

\* The read of the eventfd ends the turn that looked at the queue.
LEMMA ClearIInv == ASSUME IInv, clear PROVE IInv'
<1> USE FdsFacts DEF IInv, clear, acceptorVars, queueVars, bufferVars
<1>1. TypeOK' /\ SignalHeld' /\ NoSignalForgotten' /\ UnregisteredIsFresh'
  BY DEF TypeOK, SignalHeld, NoSignalForgotten, UnregisteredIsFresh
<1>2. OneOwner'
  BY Zenon DEF OneOwner
<1>3. NoEdgeLost'
  BY Zenon DEF NoEdgeLost, Readable
<1>4. HandlerReadsStream' /\ ReadWasShown'
  BY DEF HandlerReadsStream, ReadWasShown
<1> QED BY <1>1, <1>2, <1>3, <1>4

\* An exception ends the process, and a stuttering step changes nothing.
LEMMA RestIInv ==
    ASSUME IInv,
           UNCHANGED <<clients, socket, interest, ready, event_count, acceptorVars, queueVars,
                       reactorVars, bufferVars>>
    PROVE  IInv'
<1> USE DEF IInv, acceptorVars, queueVars, reactorVars, bufferVars
<1>1. TypeOK' /\ OneOwner' /\ SignalHeld' /\ NoSignalForgotten' /\ UnregisteredIsFresh'
  BY DEF TypeOK, OneOwner, SignalHeld, NoSignalForgotten, UnregisteredIsFresh
<1>2. NoEdgeLost' /\ HandlerReadsStream' /\ ReadWasShown'
  BY DEF NoEdgeLost, Readable, HandlerReadsStream, ReadWasShown
<1> QED BY <1>1, <1>2

-----------------------------------------------------------------------------
\* The ownership of descriptors and buffers in wait_for_connections() and
\* run() is an invariant: every handler of the two threads and everything a
\* client may do keeps it.
THEOREM Invariance == Spec => []IInv
<1>1. IInv /\ [Next]_vars => IInv'
  <2> SUFFICES ASSUME IInv, [Next]_vars PROVE IInv'
    OBVIOUS
  <2>1. CASE wait_for_connections
    BY <2>1, AcceptIInv, PushIInv, SignalIInv, RestIInv
       DEF wait_for_connections, accept_throws, signal_throws, throw
  <2>2. CASE run
    BY <2>2, EpollWaitIInv, NextEventIInv, RecvIInv, PopIInv, ClearIInv, RestIInv
       DEF run, epoll_wait_throws, clear_throws, throw
  <2>3. CASE \E f \in Fds : send_byte(f) \/ hang_up(f)
    BY <2>3, SendByteIInv, HangUpIInv
  <2>4. CASE UNCHANGED vars
    BY <2>4, RestIInv DEF vars
  <2> QED BY <2>1, <2>2, <2>3, <2>4 DEF Next
<1> QED BY <1>1, InitIInv, PTL DEF Spec

\* run() reads its eventfd, blocking, only when there is a signal in it.
THEOREM ReadOfEventFdReturns == Spec => []ClearNeverBlocks
<1>1. IInv => ClearNeverBlocks
  BY DEF IInv, SignalHeld, ClearNeverBlocks
<1> QED BY <1>1, Invariance, PTL

\* The edge-triggered loop of run() never forgets a client that has bytes or
\* a hang-up waiting.
THEOREM EdgesKept == Spec => []NoEdgeLost
<1>1. IInv => NoEdgeLost
  BY DEF IInv
<1> QED BY <1>1, Invariance, PTL

\* on_data() is shown the client's stream from the first byte the handler has
\* not read, for every size of the buffer and every reuse of descriptors.
THEOREM StreamIntact == Spec => []HandlerReadsStream
<1>1. IInv => HandlerReadsStream
  BY DEF IInv
<1> QED BY <1>1, Invariance, PTL

\* The turn of run() that a signal of wait_for_connections() asks for is never
\* lost, whichever step of the reactor it falls into.
THEOREM SignalsKept == Spec => []NoSignalForgotten
<1>1. IInv => NoSignalForgotten
  BY DEF IInv
<1> QED BY <1>1, Invariance, PTL
=============================================================================
