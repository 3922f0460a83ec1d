----------------------------- MODULE MCPipeline ------------------------------
(***************************************************************************)
(* Feeds for model checking Pipeline: orders that are filled, cancelled,   *)
(* unknown, executed for too many shares; skipped and truncated messages   *)
(* and one of a type without a length; more messages than the queue and    *)
(* the log hold.                                                           *)
(***************************************************************************)
EXTENDS Pipeline

A(id, n) == [type |-> "A", id |-> id, shares |-> n]
E(id, n) == [type |-> "E", id |-> id, shares |-> n]
X(id)    == [type |-> "X", id |-> id, shares |-> 0]
Skipped  == [type |-> "-", id |-> 0, shares |-> 0]
Unknown  == [type |-> "unknown", id |-> 0, shares |-> 0]
Short    == [type |-> "short", id |-> 0, shares |-> 0]

MCFeeds == {
    << <<A(1, 2), E(1, 1)>>, <<A(2, 1), Skipped, E(1, 1)>>, <<X(2), A(3, 1)>> >>,
    << <<A(1, 1)>>, <<X(1), A(2, 2), Short>>, <<E(2, 1), E(2, 1), A(3, 2)>> >>,
    << <<A(1, 1), A(2, 1), A(3, 1)>>, <<E(1, 1), X(3), X(2)>> >>,
    << <<Skipped, A(1, 1)>>, <<E(1, 2), A(2, 1)>>, <<X(2)>> >>,
    << <<A(1, 1), X(1), Unknown, A(2, 1)>>, <<X(2)>> >> }
=============================================================================
