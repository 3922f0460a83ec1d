---------------------------- MODULE PriceLevelSet ----------------------------
(***************************************************************************)
(* What utils::HierarchicalBitset promises to the order book: it is the    *)
(* set of the price levels that hold an order, with its extremes.  The     *)
(* reference is the std::set that tests/test_hierarchical_bitset.cpp keeps.*)
(***************************************************************************)
EXTENDS Integers, FiniteSetsExt

CONSTANT MAX_TICKS
VARIABLE levels

Ticks == 0 .. MAX_TICKS - 1

\* size_t(-1): the answer for an empty side of the book.
NoLevel == -1

BestBid   == IF levels = {} THEN NoLevel ELSE Max(levels)
BestOffer == IF levels = {} THEN NoLevel ELSE Min(levels)

Init == levels = {}
Set(tick)   == levels' = levels \cup {tick}
Clear(tick) == levels' = levels \ {tick}
Next == \E tick \in Ticks : Set(tick) \/ Clear(tick)
Spec == Init /\ [][Next]_levels
=============================================================================
