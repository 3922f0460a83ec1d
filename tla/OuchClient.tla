----------------------------- MODULE OuchClient ------------------------------
(***************************************************************************)
(* network::OuchClient (src/network/OuchClient.h): orders go out over a    *)
(* non-blocking TCP connection.  The kernel may take all of a packet, some *)
(* of it or nothing; what is left is sent by handle_write() when the       *)
(* socket is writable again.                                               *)
(*                                                                         *)
(* A call of send_order() or handle_write() that throws leaves the client  *)
(* as it was; it is a step only when it takes the error from the socket.   *)
(* The caller keeps a packet unchanged until all of it is sent.            *)
(*                                                                         *)
(* handle_write() is called by whoever watches the socket.  The comments   *)
(* name EpollReactor, which registers its sockets for EPOLLIN only and     *)
(* calls nothing of this class.                                            *)
(***************************************************************************)
EXTENDS Integers, Sequences, SequencesExt

CONSTANTS
    Orders,     \* packets the caller has to send
    PacketLen,  \* OuchPacket::packet_len
    NoOrder     \* nullptr

ASSUME PacketLenAssumption == PacketLen \in Nat \ {0}
ASSUME NoOrderAssumption == NoOrder \notin Orders

VARIABLES
    state_,             \* OuchState
    pending_buffer_,    \* [order, offset]: where the unsent bytes begin
    pending_bytes_,     \* how many they are
    connection,         \* kernel: "none", "in progress", "up", "failed"
    so_error,           \* kernel: an error that the next call will report
    wire,               \* bytes the kernel has taken, in order
    submitted           \* orders that send_order() began to send

clientVars == <<state_, pending_buffer_, pending_bytes_>>
vars == <<clientVars, connection, so_error, wire, submitted>>

\* The bytes of a packet, and a part of them.
Bytes(order, offset, n) == [k \in 1 .. n |-> <<order, offset + k>>]
Packet(order) == Bytes(order, 0, PacketLen)

Init ==
    /\ state_ = "Disconnected"
    /\ pending_buffer_ = [order |-> NoOrder, offset |-> 0] /\ pending_bytes_ = 0
    /\ connection = "none" /\ so_error = FALSE
    /\ wire = <<>> /\ submitted = <<>>

\* TCPSocket::connect(): the look-up of the name may throw and connect() may
\* fail at once, which leave the socket without a connection; connect() may
\* also be done at once.
connect == connection' \in {"none", "in progress", "up"}

\* The state is set first, and stays so if connect() throws or fails.  The
\* caller tries again only on a socket without a connection.
connect_to_server ==
    /\ connection = "none"
    /\ state_' = "Connecting"
    /\ connect
    /\ UNCHANGED <<pending_buffer_, pending_bytes_, so_error, wire, submitted>>

\* The three-way handshake ends, or an established connection breaks.
connection_result ==
    /\ \/ connection = "in progress" /\ connection' \in {"up", "failed"}
       \/ connection = "up" /\ connection' = "failed"
    /\ so_error' = (connection' = "failed")
    /\ UNCHANGED <<clientVars, wire, submitted>>

\* How many of len bytes send() takes: none (EAGAIN) while the connection is
\* being set up, and any number on a connection that is up.  Without a
\* connection send() fails.
Taken(len) ==
    CASE connection = "in progress" -> {0}
      [] connection = "up" -> 0 .. len
      [] OTHER -> {}

\* Mutated form: a pending write does not hold a new order back.
send_order_during_write(order) ==
    \E n \in Taken(PacketLen) :
        /\ wire' = wire \o Bytes(order, 0, n)
        /\ submitted' = Append(submitted, order)
        /\ IF n < PacketLen
           THEN /\ state_' = "PendingWrite"
                /\ pending_buffer_' = [order |-> order, offset |-> n]
                /\ pending_bytes_' = PacketLen - n
           ELSE UNCHANGED clientVars
        /\ UNCHANGED <<connection, so_error>>

\* Refused, without a step, while a write is pending.
send_order(order) ==
    /\ state_ # "PendingWrite"
    /\ \E n \in Taken(PacketLen) :
        /\ wire' = wire \o Bytes(order, 0, n)
        /\ submitted' = Append(submitted, order)
        /\ IF n < PacketLen
           THEN /\ state_' = "PendingWrite"
                /\ pending_buffer_' = [order |-> order, offset |-> n]
                /\ pending_bytes_' = PacketLen - n
           ELSE UNCHANGED clientVars
        /\ UNCHANGED <<connection, so_error>>

\* send(), of send_order() or of handle_write(), on a connection that failed:
\* throws, and the error is taken from the socket.
send_fails ==
    /\ connection = "failed" /\ so_error
    /\ so_error' = FALSE
    /\ UNCHANGED <<clientVars, connection, wire, submitted>>

\* handle_write() in state Connecting, called when the socket is reported as
\* writable or failed.  getsockopt(SO_ERROR) clears the error it reports; a
\* connect() that failed at once left none.
finish_connect ==
    /\ state_ = "Connecting" /\ connection # "in progress"
    /\ IF so_error
       THEN so_error' = FALSE /\ UNCHANGED state_       \* throws
       ELSE state_' = "Connected" /\ UNCHANGED so_error
    /\ UNCHANGED <<pending_buffer_, pending_bytes_, connection, wire, submitted>>

\* handle_write() in state PendingWrite.
finish_write ==
    /\ state_ = "PendingWrite" /\ connection = "up"
    /\ \E n \in Taken(pending_bytes_) :
        /\ wire' = wire \o Bytes(pending_buffer_.order, pending_buffer_.offset, n)
        /\ IF n < pending_bytes_
           THEN /\ pending_buffer_' = [pending_buffer_ EXCEPT !.offset = @ + n]
                /\ pending_bytes_' = pending_bytes_ - n
                /\ UNCHANGED state_
           ELSE state_' = "Connected" /\ UNCHANGED <<pending_buffer_, pending_bytes_>>
    /\ UNCHANGED <<connection, so_error, submitted>>

\* The caller has each order once.
Caller ==
    \/ connect_to_server
    \/ \E order \in Orders \ ToSet(submitted) : send_order(order)
    \/ send_fails

handle_write == finish_connect \/ finish_write

Next == Caller \/ connection_result \/ handle_write

Spec == Init /\ [][Next]_vars

-----------------------------------------------------------------------------
Unsent ==
    IF state_ = "PendingWrite"
    THEN Bytes(pending_buffer_.order, pending_buffer_.offset, pending_bytes_)
    ELSE <<>>

\* "do not send a new order if there is a pending write in order to prevent
\* corruption": the bytes on the wire and the unsent bytes are the packets in
\* the order of the calls.  No byte is lost, repeated or put into the middle
\* of another packet, however the kernel cuts the writes, and also when
\* orders are sent before the connection is up.
BytesAccountedFor ==
    wire \o Unsent = FlattenSeq([k \in DOMAIN submitted |-> Packet(submitted[k])])
=============================================================================
