---------------------------- MODULE EpollReactor -----------------------------
(***************************************************************************)
(* network::EpollReactor (src/network/EpollReactor.h).  One thread accepts *)
(* connections and passes their descriptors through a queue, with a write  *)
(* to an eventfd as the signal; the reactor thread waits on epoll, edge    *)
(* triggered, receives into the MagicBuffer of the descriptor and calls    *)
(* the message handler.                                                    *)
(*                                                                         *)
(* External: the clients, the kernel's sockets and epoll, and the handler, *)
(* which may read any part of what the buffer shows it.  The eventfd is    *)
(* registered with add_socket() before run().  No more descriptors are     *)
(* ready at once than MAX_EVENTS.  The queue is the bounded FIFO that      *)
(* SPSCQueue is shown to implement.                                        *)
(***************************************************************************)
EXTENDS MagicBuffer, FiniteSets

CONSTANTS
    Fds,            \* descriptors that accept() may return
    EventFd,        \* event_fd_
    MAX_CONNECTIONS, \* size of fd_buffers_, which is indexed by descriptor
    QueueCapacity,  \* of incoming_connections_
    NumClients,     \* connections made in all
    MaxBytes        \* bytes a client sends on one connection

ASSUME FdsAssumption == Fds \subseteq Nat /\ EventFd \in Nat \ Fds

VARIABLES
    clients,        \* connections still to come
    socket,         \* of each descriptor: [state, peer, sent, inbox]
    interest,       \* descriptors in the epoll interest list
    ready,          \* those with an event that epoll_wait() has not returned
    event_count,    \* counter of the eventfd
    acceptor,       \* "accept", "push" or "signal"
    new_fd,         \* descriptor in the acceptor's hands
    queue, accepted, delivered, \* incoming_connections_
    reactor,        \* "wait", "events", "recv", "pop" or "clear"
    events,         \* sockets of this turn still to be served
    fd,             \* socket being served
    has_new_connections,
    fd_buffers_,    \* the heads of each buffer
    pages,          \* the bytes in it: their positions in the client's stream
    taken,          \* bytes of this connection the handler has read
    shown,          \* bytes of it that on_data() has been shown
    status          \* "running", "terminated" by an exception, or "fault"

queueVars == <<queue, accepted, delivered>>
acceptorVars == <<acceptor, new_fd>>
reactorVars == <<reactor, events, fd, has_new_connections>>
bufferVars == <<fd_buffers_, pages, taken, shown>>
vars == <<clients, socket, interest, ready, event_count, acceptorVars, queueVars,
          reactorVars, bufferVars, status>>

NoFd == -1
Queue == INSTANCE BoundedFifo WITH Capacity <- QueueCapacity, Values <- Fds, NoValue <- NoFd

Closed == [state |-> "closed", peer |-> "up", sent |-> 0, inbox |-> 0]

\* initialize_buffers: one buffer for each descriptor below MAX_CONNECTIONS.
Buffered == {f \in Fds : f < MAX_CONNECTIONS}

Init ==
    /\ clients = NumClients
    /\ socket = [f \in Fds |-> Closed]
    /\ interest = {EventFd} /\ ready = {} /\ event_count = 0
    /\ acceptor = "accept" /\ new_fd = NoFd
    /\ Queue!Init
    /\ reactor = "wait" /\ events = {} /\ fd = NoFd /\ has_new_connections = FALSE
    /\ fd_buffers_ = [f \in Buffered |-> Fresh]
    /\ pages = [f \in Buffered |-> [o \in Offsets |-> 0]]
    /\ taken = [f \in Fds |-> 0] /\ shown = [f \in Fds |-> 0]
    /\ status = "running"

-----------------------------------------------------------------------------
(* The kernel and the clients                                               *)

\* What epoll_wait() finds when it looks at a descriptor again.
Readable(f) ==
    IF f = EventFd THEN event_count > 0
    ELSE socket[f].inbox > 0 \/ socket[f].peer # "up"

\* An event is noted for descriptors in the interest list.
Notify(f) == ready' = IF f \in interest THEN ready \cup {f} ELSE ready

\* A byte arrives; several before the next recv() make one chunk.
send_byte(f) ==
    /\ status = "running" /\ socket[f].state = "open" /\ socket[f].peer = "up"
    /\ socket[f].sent < MaxBytes
    /\ socket' = [socket EXCEPT ![f].sent = @ + 1, ![f].inbox = @ + 1]
    /\ Notify(f)
    /\ UNCHANGED <<clients, interest, event_count, acceptorVars, queueVars, reactorVars,
                   bufferVars, status>>

\* The client closes the connection or resets it: recv() returns 0 or an
\* error once it has returned the bytes that came before, and run() does the
\* same for both.
hang_up(f) ==
    /\ status = "running" /\ socket[f].state = "open" /\ socket[f].peer = "up"
    /\ socket' = [socket EXCEPT ![f].peer = "gone"]
    /\ Notify(f)
    /\ UNCHANGED <<clients, interest, event_count, acceptorVars, queueVars, reactorVars,
                   bufferVars, status>>

\* close(): the descriptor is free for the next accept(), and epoll forgets it.
close(f) ==
    /\ socket' = [socket EXCEPT ![f] = Closed]
    /\ interest' = interest \ {f}
    /\ ready' = ready \ {f}

-----------------------------------------------------------------------------
(* wait_for_connections()                                                   *)

\* accept() returns a descriptor that is not in use; which one depends on
\* those that the rest of the process holds.
accept ==
    /\ status = "running" /\ acceptor = "accept" /\ clients > 0
    /\ \E f \in Fds :
          /\ socket[f].state = "closed"
          /\ socket' = [socket EXCEPT ![f] = [Closed EXCEPT !.state = "open"]]
          /\ taken' = [taken EXCEPT ![f] = 0] /\ shown' = [shown EXCEPT ![f] = 0]
          /\ new_fd' = f
    /\ clients' = clients - 1
    /\ acceptor' = "push"
    /\ UNCHANGED <<interest, ready, event_count, queueVars, reactorVars, fd_buffers_, pages, status>>

\* while (!incoming_connections_.push(new_connection_fd)) spins while full.
push ==
    /\ status = "running" /\ acceptor = "push"
    /\ Queue!Enqueue(new_fd)
    /\ acceptor' = "signal"
    /\ UNCHANGED <<clients, socket, interest, ready, event_count, new_fd, reactorVars,
                   bufferVars, status>>

\* write(event_fd_, 1)
signal ==
    /\ status = "running" /\ acceptor = "signal"
    /\ event_count' = event_count + 1
    /\ Notify(EventFd)
    /\ acceptor' = "accept"
    /\ UNCHANGED <<clients, socket, interest, new_fd, queueVars, reactorVars, bufferVars, status>>

-----------------------------------------------------------------------------
(* run()                                                                    *)

\* Mutated form: has_new_connections is declared outside of the loop.
epoll_wait_keeps_flag ==
    /\ status = "running" /\ reactor = "wait"
    /\ \E f \in ready : Readable(f)
    /\ events' = {f \in ready : Readable(f)} \ {EventFd}
    /\ has_new_connections' = (has_new_connections \/ (EventFd \in ready /\ Readable(EventFd)))
    /\ ready' = {}
    /\ reactor' = "events"
    /\ UNCHANGED <<clients, socket, interest, event_count, acceptorVars, queueVars, fd,
                   bufferVars, status>>

\* epoll_wait() returns the events noted and still true; the others are
\* dropped.  The eventfd's only sets the flag.
epoll_wait ==
    /\ status = "running" /\ reactor = "wait"
    /\ \E f \in ready : Readable(f)
    /\ events' = {f \in ready : Readable(f)} \ {EventFd}
    /\ has_new_connections' = (EventFd \in ready /\ Readable(EventFd))
    /\ ready' = {}
    /\ reactor' = "events"
    /\ UNCHANGED <<clients, socket, interest, event_count, acceptorVars, queueVars, fd,
                   bufferVars, status>>

\* Mutated form: has_new_connections is declared inside of the loop.
next_event_resets_flag ==
    /\ status = "running" /\ reactor = "events"
    /\ \/ /\ \E f \in events : fd' = f /\ events' = events \ {f} /\ reactor' = "recv"
          /\ has_new_connections' = FALSE
       \/ /\ events = {}
          /\ reactor' = IF has_new_connections THEN "pop" ELSE "wait"
          /\ UNCHANGED <<fd, events, has_new_connections>>
    /\ UNCHANGED <<clients, socket, interest, ready, event_count, acceptorVars, queueVars,
                   bufferVars, status>>

\* The loop over the events, in any order.
next_event ==
    /\ status = "running" /\ reactor = "events"
    /\ \/ \E f \in events : fd' = f /\ events' = events \ {f} /\ reactor' = "recv"
       \/ /\ events = {}
          /\ reactor' = IF has_new_connections THEN "pop" ELSE "wait"
          /\ UNCHANGED <<fd, events>>
    /\ UNCHANGED <<clients, socket, interest, ready, event_count, acceptorVars, queueVars,
                   has_new_connections, bufferVars, status>>

serveRest == <<clients, event_count, acceptorVars, queueVars, events, fd, has_new_connections>>

\* n bytes of a client's stream, behind the first `start' ones.
Stream(start, n) == [k \in 1 .. n |-> start + k]

\* Mutated form: the socket is read once for each event.
recv_bytes_once(n) ==
    /\ fd_buffers_' = [fd_buffers_ EXCEPT ![fd] = advance_write(@, n)]
    /\ pages' = [pages EXCEPT ![fd] = Written(@, fd_buffers_[fd],
                     Stream(socket[fd].sent - socket[fd].inbox, n))]
    /\ shown' = [shown EXCEPT ![fd] = socket[fd].sent - socket[fd].inbox]
    /\ socket' = [socket EXCEPT ![fd].inbox = @ - n]
    /\ reactor' = "events"
    /\ UNCHANGED <<interest, ready, taken>>

\* recv() returned bytes: on_data(), which is shown what came before them, then
\* advance_write().
recv_bytes(n) ==
    LET from == socket[fd].sent - socket[fd].inbox
        bytes == Stream(from, n)
    IN  /\ \E read \in 0 .. read_space_left(fd_buffers_[fd]) :
              /\ fd_buffers_' = [fd_buffers_ EXCEPT
                                    ![fd] = advance_write(advance_read(@, read), n)]
              /\ taken' = [taken EXCEPT ![fd] = @ + read]
        /\ pages' = [pages EXCEPT ![fd] = Written(@, fd_buffers_[fd], bytes)]
        /\ shown' = [shown EXCEPT ![fd] = from]
        /\ socket' = [socket EXCEPT ![fd].inbox = @ - n]
        /\ UNCHANGED <<interest, ready, reactor>>

\* Mutated form: the buffer is left as it is.
disconnect_keeps_buffer ==
    /\ close(fd)
    /\ reactor' = "events"
    /\ UNCHANGED bufferVars

\* recv() failed or returned 0: the buffer is made ready for the next use of
\* the descriptor.
disconnect ==
    /\ fd_buffers_' = [fd_buffers_ EXCEPT ![fd] = Fresh]
    /\ close(fd)
    /\ reactor' = "events"
    /\ UNCHANGED <<pages, taken, shown>>

\* One turn of the recv() loop on a descriptor that has a buffer.  recv()
\* returns 0 when the client has closed and everything before it was read, and
\* for a request of no bytes; it may fail at any time.
receive ==
    LET space == write_space_left(fd_buffers_[fd])
        inbox == socket[fd].inbox
    IN  \/ inbox > 0 /\ space > 0 /\ recv_bytes(IF inbox < space THEN inbox ELSE space)
        \/ inbox = 0 /\ socket[fd].peer = "up"      \* EAGAIN
           /\ reactor' = "events"
           /\ UNCHANGED <<socket, interest, ready, bufferVars>>
        \/ disconnect

\* fd_buffers_[fd] with a descriptor beyond the vector is undefined.
recv ==
    /\ status = "running" /\ reactor = "recv"
    /\ \/ fd \in Buffered /\ receive /\ UNCHANGED status
       \/ /\ fd \notin Buffered /\ status' = "fault"
          /\ UNCHANGED <<socket, interest, ready, reactor, bufferVars>>
    /\ UNCHANGED serveRest

\* epoll_ctl(EPOLL_CTL_ADD), which reports what is already there, or fails.
add_socket(f) ==
    \/ /\ interest' = interest \cup {f}
       /\ ready' = IF Readable(f) THEN ready \cup {f} ELSE ready
       /\ UNCHANGED <<socket, status>>
    \/ /\ status' = "terminated"
       /\ UNCHANGED <<socket, interest, ready>>

\* One turn of the pop() loop.  A descriptor on which fcntl() fails is closed.
pop ==
    /\ status = "running" /\ reactor = "pop"
    /\ \/ /\ Queue!Dequeue
          /\ add_socket(delivered') \/ (close(delivered') /\ UNCHANGED status)
          /\ UNCHANGED reactor
       \/ /\ queue = <<>>
          /\ reactor' = "clear"
          /\ UNCHANGED <<queueVars, socket, interest, ready, status>>
    /\ UNCHANGED <<clients, event_count, acceptorVars, events, fd, has_new_connections, bufferVars>>

\* read(event_fd_): takes every signal there is; waits if there is none.
clear ==
    /\ status = "running" /\ reactor = "clear"
    /\ event_count > 0
    /\ event_count' = 0
    /\ reactor' = "wait"
    /\ UNCHANGED <<clients, socket, interest, ready, acceptorVars, queueVars, events, fd,
                   has_new_connections, bufferVars, status>>

\* Nobody catches an exception, on either thread.
throw ==
    /\ status = "running"
    /\ status' = "terminated"
    /\ UNCHANGED <<clients, socket, interest, ready, event_count, acceptorVars, queueVars,
                   reactorVars, bufferVars>>

\* accept() failed with anything but EAGAIN.
accept_throws == acceptor = "accept" /\ throw

\* The write to the eventfd failed.
signal_throws == acceptor = "signal" /\ throw

\* epoll_wait() failed with anything but EINTR.
epoll_wait_throws == reactor = "wait" /\ throw

\* The read of the eventfd failed.
clear_throws == reactor = "clear" /\ throw

-----------------------------------------------------------------------------
wait_for_connections == accept \/ push \/ signal \/ accept_throws \/ signal_throws
run == epoll_wait \/ next_event \/ recv \/ pop \/ clear \/ epoll_wait_throws \/ clear_throws

Next ==
    \/ wait_for_connections
    \/ run
    \/ \E f \in Fds : send_byte(f) \/ hang_up(f)

Spec == Init /\ [][Next]_vars

-----------------------------------------------------------------------------
\* The reactor reaches the read of the eventfd, which blocks, only when there
\* is a signal to take: otherwise the thread would stop serving all clients
\* until somebody connects.
ClearNeverBlocks == reactor = "clear" => event_count > 0

\* epoll reports an edge once.  A registered client with bytes or a hang-up
\* waiting is always about to be served or will be reported by epoll_wait().
NoEdgeLost ==
    \A f \in interest \ {EventFd} :
        Readable(f) => f \in ready \cup events \/ (reactor = "recv" /\ fd = f)

\* What the handler is shown is the client's stream, from the first byte it
\* has not read, in order and with nothing of the last owner of the
\* descriptor.
HandlerReadsStream ==
    \A f \in Buffered : socket[f].state = "open" =>
        Unread(pages[f], fd_buffers_[f]) =
            Stream(taken[f], socket[f].sent - socket[f].inbox - taken[f])

\* A signal in the eventfd is reported by epoll as an edge too, once.  As long
\* as it is there the next epoll_wait() reports it, or this turn of run() is
\* going to look at the queue.
NoSignalForgotten ==
    event_count > 0 => EventFd \in ready \/ (reactor # "wait" /\ has_new_connections)

TypeOK ==
    /\ socket \in [Fds -> [state : {"open", "closed"}, peer : {"up", "gone"},
                           sent : Nat, inbox : Nat]]
    /\ \A f \in Fds : socket[f].inbox <= socket[f].sent
    /\ interest \subseteq Fds \cup {EventFd} /\ ready \subseteq interest
    /\ event_count \in Nat
    /\ acceptor \in {"accept", "push", "signal"} /\ new_fd \in Fds \cup {NoFd}
    /\ queue \in Seq(Fds)
    /\ reactor \in {"wait", "events", "recv", "pop", "clear"}
    /\ events \subseteq Fds /\ fd \in Fds \cup {NoFd}
    /\ fd_buffers_ \in [Buffered -> Heads] /\ pages \in [Buffered -> [Offsets -> Nat]]
    /\ taken \in [Fds -> Nat] /\ shown \in [Fds -> Nat]

\* On its way from accept() to add_socket() a descriptor is in one place.
OneOwner ==
    /\ acceptor = "push" =>
          /\ new_fd \in Fds \ interest /\ socket[new_fd].state = "open"
          /\ \A k \in DOMAIN queue : queue[k] # new_fd
    /\ \A k \in DOMAIN queue : socket[queue[k]].state = "open" /\ queue[k] \notin interest
    /\ \A j, k \in DOMAIN queue : queue[j] = queue[k] => j = k
    /\ \A f \in interest \ {EventFd} : socket[f].state = "open"
    /\ events \subseteq interest
    /\ reactor = "recv" => fd \in (interest \cap Fds) \ events
    /\ reactor \in {"wait", "pop", "clear"} => events = {}

\* A descriptor that is not registered has an empty buffer, and nothing was
\* received on its connection.
UnregisteredIsFresh ==
    \A f \in Fds \ interest :
        /\ f \in Buffered => fd_buffers_[f] = Fresh
        /\ socket[f].state = "open" =>
              socket[f].inbox = socket[f].sent /\ taken[f] = 0 /\ shown[f] = 0

\* Nobody but the reactor takes the signals that made it look at the queue.
SignalHeld ==
    /\ has_new_connections \in BOOLEAN /\ EventFd \in interest
    /\ reactor \in {"pop", "clear"} => has_new_connections
    /\ has_new_connections /\ reactor # "wait" => event_count > 0

\* The handler reads what it was shown, and is shown what was received.
ReadWasShown ==
    \A f \in Buffered : socket[f].state = "open" =>
        taken[f] <= shown[f] /\ shown[f] <= socket[f].sent - socket[f].inbox

\* What makes the properties above invariant: a descriptor has one owner at a
\* time, its buffer is empty whenever it changes owners, and the reactor's
\* flag stands for a signal that is still in the eventfd.
IInv ==
    /\ TypeOK
    /\ OneOwner
    /\ UnregisteredIsFresh
    /\ SignalHeld
    /\ NoEdgeLost
    /\ NoSignalForgotten
    /\ HandlerReadsStream
    /\ ReadWasShown

\* run() "will ... accept market data into the MagicBuffer, which can be then
\* parsed": when it has served its events and waits for the next, it has shown
\* the handler every byte that it received.
ReceivedDataProcessed ==
    reactor = "wait" =>
        \A f \in Buffered : socket[f].state = "open" =>
            shown[f] = socket[f].sent - socket[f].inbox
=============================================================================
