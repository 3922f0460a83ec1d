----------------------------- MODULE BoundedFifo -----------------------------
(***************************************************************************)
(* What utils::SPSCQueue promises to its two threads: a first-in-first-out *)
(* queue that holds at most Capacity elements.  A push that is refused is  *)
(* a stuttering step, since it changes nothing that either side can see.   *)
(***************************************************************************)
EXTENDS Naturals, Sequences

CONSTANTS
    Capacity,   \* most elements the queue ever holds
    Values,     \* what may be pushed
    NoValue     \* result register of a thread that has not succeeded yet

VARIABLES
    queue,      \* pushed and not yet popped, oldest first
    accepted,   \* argument of the last push that returned true
    delivered   \* result of the last pop that returned true

vars == <<queue, accepted, delivered>>

Init ==
    /\ queue = <<>>
    /\ accepted = NoValue
    /\ delivered = NoValue

Enqueue(v) ==
    /\ Len(queue) < Capacity
    /\ queue' = Append(queue, v)
    /\ accepted' = v
    /\ UNCHANGED delivered

Dequeue ==
    /\ queue # <<>>
    /\ queue' = Tail(queue)
    /\ delivered' = Head(queue)
    /\ UNCHANGED accepted

Next ==
    \/ \E v \in Values : Enqueue(v)
    \/ Dequeue

Spec == Init /\ [][Next]_vars
=============================================================================
