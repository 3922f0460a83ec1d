-------------------------- MODULE MCLimitOrderBook ---------------------------
(***************************************************************************)
(* LimitOrderBook for model checking.                                      *)
(***************************************************************************)
EXTENDS LimitOrderBook

\* One id more than the index has buckets, and than the pool has slots.  1 and
\* 5 have the same home bucket, and so have 3 and 7, whose probing wraps.
MCOrderIds == {1, 2, 3, 5, 7}

\* Orders that meet in one queue, rest at two prices of a side or on the other
\* side, and one outside the book; the order with two shares is the one that
\* can be executed in part.
MCAddMessages ==
    {[id |-> m[1], price |-> m[2], indicator |-> m[3], shares |-> m[4]] :
        m \in {<<1, 0, "B", 2>>, <<2, 0, "B", 1>>, <<3, 1, "B", 1>>, <<5, 0, "B", 1>>,
               <<5, 1, "S", 1>>, <<7, 1, "S", 1>>, <<7, MAX_TICKS, "S", 1>>}}

\* States in which the same orders rest in the same queues and the index has
\* the same entries are explored once, whichever slots the orders have.  A slot
\* is known by its place on the lists; what is left over in a free slot is not
\* read, because add_order_impl() overwrites every field but next, nor what is
\* left over in a bucket that is not occupied.  Lists that share a slot, lose
\* one or are not linked back are kept as they are.
LiveState ==
    LET slots == ListedSlots
        placeOf(i) == CHOOSE k \in DOMAIN slots : slots[k] = i
        queue(side, t) == LET q == Queue(side, t)
                          IN  [k \in DOMAIN q |-> <<pool_[q[k]].order_reference_number,
                                                    pool_[q[k]].shares>>]
        bucket(b) == IF orders_[b].state = "Occupied"
                     THEN <<orders_[b].order_id, SideOf(orders_[b].pool_idx),
                            placeOf(IndexOf(orders_[b].pool_idx))>>
                     ELSE <<orders_[b].state>>
    IN  IF PoolPartitioned /\ QueuesDoublyLinked
        THEN <<[p \in Sides \X Ticks |-> queue(p[1], p[2])], [b \in DOMAIN orders_ |-> bucket(b)],
               bids_bitset_, asks_bitset_, status>>
        ELSE vars
=============================================================================
