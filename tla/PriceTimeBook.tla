---------------------------- MODULE PriceTimeBook ----------------------------
(***************************************************************************)
(* What book::LimitOrderBook promises: for each side and price the resting *)
(* orders in order of arrival, changed by add, cancel and execute.  It is  *)
(* the reference that MockOrderBook in tests/test_limit_order_book.cpp     *)
(* keeps, with the pool's bound and time priority made explicit.           *)
(*                                                                         *)
(* An id names one resting order, the one that was added with it last.  In *)
(* a feed that never repeats a live id every resting order is named; one   *)
(* whose id was taken over still rests and can no longer be reached.       *)
(***************************************************************************)
EXTENDS Integers, FiniteSets

CONSTANTS MaxOrders, MAX_TICKS, OrderIds, MaxShares

VARIABLES
    orders,     \* the resting orders: [place, rank, id, shares, named] records
    status      \* "running", or "terminated" by an uncaught exception

vars == <<orders, status>>

\* A place is a side and a price; the orders at it have ranks 1, 2, ... in the
\* order in which they will be matched.
Places == {"Buy", "Sell"} \X (0 .. MAX_TICKS - 1)

At(book, p) == {o \in book : o.place = p}
Named(book) == {o \in book : o.named}

Init == orders = {} /\ status = "running"

\* A new order goes behind the orders of its price and takes over its id.
Added(book, p, id, shares) ==
    {IF o.id = id THEN [o EXCEPT !.named = FALSE] ELSE o : o \in book}
    \cup {[place |-> p, rank |-> Cardinality(At(book, p)) + 1,
           id |-> id, shares |-> shares, named |-> TRUE]}

\* The orders behind one that leaves move up.
Withdrawn(book, o) ==
    {IF x.place = o.place /\ x.rank > o.rank THEN [x EXCEPT !.rank = @ - 1] ELSE x :
        x \in book \ {o}}

\* What one message can make of a book.  A new order needs a free slot; a
\* partial execution keeps the order's place, a complete one removes the
\* order, as a cancel does.
Addition(book, after) ==
    /\ Cardinality(book) < MaxOrders
    /\ \E o \in after : /\ o.place \in Places /\ o.id \in OrderIds /\ o.shares \in 1 .. MaxShares
                       /\ after = Added(book, o.place, o.id, o.shares)
Withdrawal(book, after) == \E o \in Named(book) : after = Withdrawn(book, o)
Reduction(book, after) ==
    \E o \in Named(book) : \E left \in 1 .. o.shares - 1 :
        after = (book \ {o}) \cup {[o EXCEPT !.shares = left]}

Change(book, after) ==
    /\ UNCHANGED status
    /\ Addition(book, after) \/ Withdrawal(book, after) \/ Reduction(book, after)

\* An execution of more shares than the order has ends the program.
Overexecute(book, after) ==
    /\ status' = "terminated"
    /\ \E o \in Named(book) : o.shares < MaxShares
    /\ after = book

Next ==
    /\ status = "running"
    /\ \E book \in {orders}, after \in {orders'} : Change(book, after) \/ Overexecute(book, after)

Spec == Init /\ [][Next]_vars
=============================================================================
