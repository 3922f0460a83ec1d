--------------------------- MODULE LimitOrderBook ----------------------------
(***************************************************************************)
(* book::LimitOrderBook (src/book/LimitOrderBook.{h,cpp}): a pool of order *)
(* slots threaded into one free list and one doubly linked list for each   *)
(* side and price, an id index (StaticOrderMap) and one bitset of non-     *)
(* empty levels for each side (HierarchicalBitset).                        *)
(*                                                                         *)
(* The book is used by one thread, so each public call is one action.      *)
(***************************************************************************)
EXTENDS Integers, Sequences, FiniteSets, SequencesExt

CONSTANTS
    MaxOrders,      \* constructor argument: slots in the pool
    MAX_TICKS,      \* prices are 0 .. MAX_TICKS - 1
    ORDER_MAP_SIZE, \* buckets of the id index
    W,              \* word width of the bitsets
    SIDE_MASK,      \* 1U << 31: the bit of a tagged index that means "sell"
    NULL_INDEX,     \* 0xFFFFFFFF
    OrderIds,       \* order reference numbers in the feed
    MaxShares,      \* shares in one message are 1 .. MaxShares
    AddMessages     \* the add orders in the feed

\* The constructor throws if max_orders is 0.  LimitOrderBook.h asks for an
\* index at least twice the pool; the weaker bound is enough.
ASSUME MaxOrdersAssumption == MaxOrders \in 1 .. ORDER_MAP_SIZE

\* A pool index leaves the tag bit and NULL_INDEX free.
ASSUME TagAssumption ==
    SIDE_MASK \in Nat /\ NULL_INDEX \in Nat /\ MaxOrders <= SIDE_MASK /\ MaxOrders <= NULL_INDEX

\* Every indicator but "B" means sell; a price may lie outside the book.
ASSUME AddMessagesAssumption ==
    AddMessages \subseteq [id : OrderIds, price : Nat, shares : 1 .. MaxShares,
                           indicator : {"B", "S"}]

VARIABLES
    pool_,              \* pool_[0 .. MaxOrders - 1]
    bids_, asks_,       \* [head, tail] for each price
    orders_,            \* the buckets of the id index
    bids_bitset_, asks_bitset_,
    next_free_index_,   \* first slot of the free list
    status              \* "running", or "terminated" by an uncaught exception

buySide  == <<bids_, bids_bitset_>>
sellSide == <<asks_, asks_bitset_>>
vars == <<pool_, buySide, sellSide, orders_, next_free_index_, status>>

Slots == 0 .. MaxOrders - 1
Ticks == 0 .. MAX_TICKS - 1
Sides == {"Buy", "Sell"}

TaggedIndices == Slots \cup {SIDE_MASK + i : i \in Slots}

Bids   == INSTANCE HierarchicalBitset WITH bitset <- bids_bitset_
Asks   == INSTANCE HierarchicalBitset WITH bitset <- asks_bitset_
Orders == INSTANCE StaticOrderMap WITH
              map_ <- orders_, Capacity <- ORDER_MAP_SIZE, Indices <- TaggedIndices

Init ==
    /\ pool_ = [i \in Slots |->
                  [order_reference_number |-> 0, shares |-> 0, price |-> 0, prev |-> 0,
                   next |-> IF i = MaxOrders - 1 THEN NULL_INDEX ELSE i + 1]]
    /\ next_free_index_ = 0
    /\ bids_ = [t \in Ticks |-> [head |-> NULL_INDEX, tail |-> NULL_INDEX]]
    /\ asks_ = [t \in Ticks |-> [head |-> NULL_INDEX, tail |-> NULL_INDEX]]
    /\ Orders!Init
    /\ Bids!Init
    /\ Asks!Init
    /\ status = "running"

\* tagged_idx | new_order_idx, and the masks that take it apart.
Tag(side, idx) == IF side = "Buy" THEN idx ELSE SIDE_MASK + idx
IndexOf(tagged) == tagged % SIDE_MASK
SideOf(tagged)  == IF tagged >= SIDE_MASK THEN "Sell" ELSE "Buy"

-----------------------------------------------------------------------------
(* add_order()                                                              *)

\* Mutated form: the back pointer of the new order is not set.
add_update_pool_no_prev(order, idx, tail) ==
    [i \in Slots |->
        IF i = idx THEN [order_reference_number |-> order.id, shares |-> order.shares,
                         price |-> order.price, next |-> NULL_INDEX, prev |-> NULL_INDEX]
        ELSE IF i = tail THEN [pool_[i] EXCEPT !.next = idx]
        ELSE pool_[i]]

\* The pool after the new order took slot idx behind the level's tail.
add_update_pool(order, idx, tail) ==
    [i \in Slots |->
        IF i = idx THEN [order_reference_number |-> order.id, shares |-> order.shares,
                         price |-> order.price, next |-> NULL_INDEX, prev |-> tail]
        ELSE IF i = tail THEN [pool_[i] EXCEPT !.next = idx]
        ELSE pool_[i]]

add_update_price_level(level, idx) ==
    [head |-> IF level.head = NULL_INDEX THEN idx ELSE level.head, tail |-> idx]

\* add_order_impl<side>().  operator[] of the index may throw, after the slot
\* has been taken from the free list and before it is linked anywhere.
add_order_impl(side, order) ==
    LET idx  == next_free_index_
        tail == IF side = "Buy" THEN bids_[order.price].tail ELSE asks_[order.price].tail
    IN  /\ next_free_index_' = pool_[idx].next
        /\ \/ /\ ~ Orders!assign_throws(order.id)
              /\ Orders!assign(order.id, Tag(side, idx))
              /\ pool_' = add_update_pool(order, idx, tail)
              /\ \/ /\ side = "Buy"
                    /\ bids_' = [bids_ EXCEPT ![order.price] = add_update_price_level(@, idx)]
                    /\ Bids!set_price_level(order.price)
                    /\ UNCHANGED sellSide
                 \/ /\ side = "Sell"
                    /\ asks_' = [asks_ EXCEPT ![order.price] = add_update_price_level(@, idx)]
                    /\ Asks!set_price_level(order.price)
                    /\ UNCHANGED buySide
              /\ UNCHANGED status
           \/ /\ Orders!assign_throws(order.id)
              /\ pool_' = [pool_ EXCEPT ![idx].order_reference_number = order.id,
                                        ![idx].price = order.price,
                                        ![idx].shares = order.shares]
              /\ status' = "terminated"
              /\ UNCHANGED <<orders_, buySide, sellSide>>

\* A price outside the book, or an empty free list, drops the order.
add_order(order) ==
    /\ status = "running"
    /\ IF order.price >= MAX_TICKS \/ next_free_index_ = NULL_INDEX
       THEN UNCHANGED vars
       ELSE add_order_impl(IF order.indicator = "B" THEN "Buy" ELSE "Sell", order)

-----------------------------------------------------------------------------
(* cancel_order() and execute_order()                                       *)

\* Mutated form: the tail of the level is not moved back.
execute_update_price_level_keeps_tail(level, order, idx) ==
    [head |-> IF level.head = idx THEN order.next ELSE level.head,
     tail |-> level.tail]

execute_update_price_level(level, order, idx) ==
    [head |-> IF level.head = idx THEN order.next ELSE level.head,
     tail |-> IF level.tail = idx THEN order.prev ELSE level.tail]

\* The pool after slot idx left its list and went to the free list's front.
release_update_pool(pool, idx) ==
    [i \in Slots |->
        [pool[i] EXCEPT
            !.next = IF i = idx THEN next_free_index_
                     ELSE IF i = pool[idx].prev THEN pool[idx].next ELSE @,
            !.prev = IF i = pool[idx].next THEN pool[idx].prev ELSE @]]

\* Mutated form: the bit is cleared with every order that leaves.
leave_price_level_clears(side, order, idx) ==
    \/ /\ side = "Buy"
       /\ bids_' = [bids_ EXCEPT ![order.price] = execute_update_price_level(@, order, idx)]
       /\ Bids!clear_price_level(order.price)
       /\ UNCHANGED sellSide
    \/ /\ side = "Sell"
       /\ asks_' = [asks_ EXCEPT ![order.price] = execute_update_price_level(@, order, idx)]
       /\ Asks!clear_price_level(order.price)
       /\ UNCHANGED buySide

\* The level of the order, and its bit if no order is left at its price.
leave_price_level(side, order, idx) ==
    \/ /\ side = "Buy"
       /\ bids_' = [bids_ EXCEPT ![order.price] = execute_update_price_level(@, order, idx)]
       /\ IF bids_'[order.price].head = NULL_INDEX
          THEN Bids!clear_price_level(order.price) ELSE UNCHANGED bids_bitset_
       /\ UNCHANGED sellSide
    \/ /\ side = "Sell"
       /\ asks_' = [asks_ EXCEPT ![order.price] = execute_update_price_level(@, order, idx)]
       /\ IF asks_'[order.price].head = NULL_INDEX
          THEN Asks!clear_price_level(order.price) ELSE UNCHANGED asks_bitset_
       /\ UNCHANGED buySide

\* Mutated form: the id stays in the index.
release_keeps_id(side, pool, idx) ==
    /\ leave_price_level(side, pool[idx], idx)
    /\ pool_' = release_update_pool(pool, idx)
    /\ next_free_index_' = idx
    /\ UNCHANGED <<orders_, status>>

\* Mutated form: the slot is not given back.
release_leaks_slot(side, pool, idx) ==
    /\ leave_price_level(side, pool[idx], idx)
    /\ Orders!erase(pool[idx].order_reference_number)
    /\ pool_' = release_update_pool(pool, idx)
    /\ UNCHANGED <<next_free_index_, status>>

\* release_order_to_pool<side>(), on the pool as its caller left it.
release_order_to_pool(side, pool, idx) ==
    /\ leave_price_level(side, pool[idx], idx)
    /\ Orders!erase(pool[idx].order_reference_number)
    /\ pool_' = release_update_pool(pool, idx)
    /\ next_free_index_' = idx
    /\ UNCHANGED status

\* The whole order is withdrawn; an unknown id is ignored.
cancel_order(order_id) ==
    /\ status = "running"
    /\ \/ Orders!find(order_id) = {} /\ UNCHANGED vars
       \/ \E b \in Orders!find(order_id) :
             LET tagged == orders_[b].pool_idx
             IN  release_order_to_pool(SideOf(tagged), pool_, IndexOf(tagged))

\* execute_order() once the id is found.  Too many shares throw, and nobody
\* catches it; an order with no shares left goes back to the pool.
execute_tagged(tagged, shares) ==
    LET idx == IndexOf(tagged)
        pool == [pool_ EXCEPT ![idx].shares = @ - shares]
    IN  \/ /\ pool_[idx].shares < shares    \* throws
           /\ status' = "terminated"
           /\ UNCHANGED <<pool_, buySide, sellSide, orders_, next_free_index_>>
        \/ /\ pool_[idx].shares > shares
           /\ pool_' = pool
           /\ UNCHANGED <<buySide, sellSide, orders_, next_free_index_, status>>
        \/ /\ pool_[idx].shares = shares
           /\ release_order_to_pool(SideOf(tagged), pool, idx)

\* An unknown id is ignored.
execute_order(order_id, shares) ==
    /\ status = "running"
    /\ \/ Orders!find(order_id) = {} /\ UNCHANGED vars
       \/ \E b \in Orders!find(order_id) : execute_tagged(orders_[b].pool_idx, shares)

-----------------------------------------------------------------------------
CancelOrExecute ==
    \E id \in OrderIds : \/ cancel_order(id)
                         \/ \E n \in 1 .. MaxShares : execute_order(id, n)

\* Any message at any time: ids may be repeated while they are still live.
Next == CancelOrExecute \/ \E order \in AddMessages : add_order(order)

Spec == Init /\ [][Next]_vars

-----------------------------------------------------------------------------
Level(side, t) == IF side = "Buy" THEN bids_[t] ELSE asks_[t]

\* The slots met from slot i along the next pointers, at most n of them.
RECURSIVE Chain(_, _)
Chain(i, n) ==
    IF i = NULL_INDEX \/ n = 0 THEN <<>> ELSE <<i>> \o Chain(pool_[i].next, n - 1)

\* One more than there are slots, so that a cycle shows.
FreeList == Chain(next_free_index_, MaxOrders + 1)
Queue(side, t) == Chain(Level(side, t).head, MaxOrders + 1)

\* The slots of the free list, and then those of the queues.
ListedSlots ==
    FreeList \o FlattenSeq([t \in 1 .. MAX_TICKS |-> Queue("Buy", t - 1) \o Queue("Sell", t - 1)])

\* Every slot of the pool is on exactly one list, the free list or the queue
\* of one price, and there once: no sequence of calls leaks a slot, frees one
\* twice, links one into two queues or closes a list into a cycle.
PoolPartitioned ==
    LET listed == ListedSlots
    IN  Len(listed) = MaxOrders /\ ToSet(listed) = Slots

\* The queue of a price, read forwards from head, is read backwards from
\* tail, and holds orders of that price only.
QueuesDoublyLinked ==
    \A side \in Sides, t \in Ticks :
        LET q == Queue(side, t)
            end == Level(side, t).tail
        IN  /\ end = IF q = <<>> THEN NULL_INDEX ELSE q[Len(q)]
            /\ \A k \in DOMAIN q :
                  /\ pool_[q[k]].prev = IF k = 1 THEN NULL_INDEX ELSE q[k - 1]
                  /\ pool_[q[k]].price = t

\* get_best_bid() and get_best_offer() are the best prices at which an order
\* really rests, through any history of adds, cancels and executions.
BestPricesFollowQueues ==
    LET bidPrices == {t \in Ticks : bids_[t].head # NULL_INDEX}
        askPrices == {t \in Ticks : asks_[t].head # NULL_INDEX}
    IN  /\ Bids!get_best_bid = IF bidPrices = {} THEN -1
                               ELSE CHOOSE t \in bidPrices : \A u \in bidPrices : u <= t
        /\ Asks!get_best_offer = IF askPrices = {} THEN -1
                                 ELSE CHOOSE t \in askPrices : \A u \in askPrices : t <= u

\* Whatever ids the feed repeats, an id in the index leads to a resting order
\* with that id, on the tagged side: cancel_order() and execute_order() never
\* touch a free slot or another order.
IndexLeadsToOrder ==
    \A id \in OrderIds : \A b \in Orders!find(id) :
        LET tagged == orders_[b].pool_idx
            idx == IndexOf(tagged)
            q == Queue(SideOf(tagged), pool_[idx].price)
        IN  pool_[idx].order_reference_number = id /\ \E k \in DOMAIN q : q[k] = idx

\* "Map is full" cannot be thrown while the pool has a free slot, because
\* every live id occupies a slot: the check of next_free_index_ protects the
\* index too, and no slot is lost to an exception half-way through an add.
IndexHasRoom ==
    next_free_index_ # NULL_INDEX =>
        \A id \in OrderIds : ~ Orders!assign_throws(id)

\* The orders at a price, as a reader of the book sees them; named if a
\* cancel or an execution would find them.
OrderAt(side, t, i, k) ==
    [place |-> <<side, t>>, rank |-> k, id |-> pool_[i].order_reference_number,
     shares |-> pool_[i].shares,
     named |-> \E b \in Orders!find(pool_[i].order_reference_number) :
                  orders_[b].pool_idx = Tag(side, i)]

RestingAt(side, t) ==
    UNION {{OrderAt(side, t, q[k], k) : k \in DOMAIN q} : q \in {Queue(side, t)}}

Book == INSTANCE PriceTimeBook WITH
            orders <- UNION {RestingAt(side, t) : side \in Sides, t \in Ticks}

\* The linked lists, the index, the free list and the bitsets together behave
\* as a book of price-time queues.
ImplementsBook == Book!Spec
=============================================================================
