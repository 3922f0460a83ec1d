--------------------------- MODULE MCWriteAheadLog ---------------------------
(***************************************************************************)
(* WriteAheadLog for model checking: an order of one share, an execution   *)
(* of two shares of it, and a message of type 'I'.  The book throws on the *)
(* execution if the order rests.                                           *)
(***************************************************************************)
EXTENDS WriteAheadLog

CONSTANTS add, execute, imbalance

MCMessages == {add, execute, imbalance}
MCLongMessages == {imbalance}

MCFatal ==
    {log \in UNION {[1 .. n -> MCMessages] : n \in 1 .. NumFrames} :
        log[Len(log)] = execute /\ \E k \in 1 .. Len(log) : log[k] = add}
=============================================================================
