--------------------------- MODULE StaticOrderMap ----------------------------
(***************************************************************************)
(* utils::StaticOrderMap<Capacity> (src/utils/StaticOrderMap.h), an open-  *)
(* addressed hash table with linear probing and tombstones.  The loops of  *)
(* find() and insert() visit the buckets Probe(id, 0), Probe(id, 1), ...   *)
(* and stop at the first one that satisfies a condition, or after Capacity *)
(* buckets.                                                                *)
(***************************************************************************)
EXTENDS Integers, FiniteSets

CONSTANTS
    Capacity,   \* number of buckets; a power of two
    OrderIds,   \* the order reference numbers that occur
    Indices     \* the (tagged) pool indices that are stored

ASSUME CapacityAssumption == Capacity \in Nat \ {0}
ASSUME OrderIdsAssumption == OrderIds \subseteq Nat
ASSUME IndicesAssumption == Indices \subseteq Nat

VARIABLE map_       \* the array of buckets

Buckets == 0 .. Capacity - 1

\* mmap() hands out zeroed pages: BucketState::Empty is 0.
Init == map_ = [b \in Buckets |-> [order_id |-> 0, pool_idx |-> 0, state |-> "Empty"]]

\* order_id & (capacity_ - 1)
Home(order_id) == order_id % Capacity

\* The bucket looked at after k steps from there, from end_ back to map_.
Probe(order_id, k) ==
    IF Home(order_id) + k < Capacity THEN Home(order_id) + k ELSE Home(order_id) + k - Capacity

\* The number of steps after which the scan looks at bucket b.
Steps(order_id, b) ==
    IF Home(order_id) <= b THEN b - Home(order_id) ELSE b - Home(order_id) + Capacity

Holds(b, order_id) == map_[b].state = "Occupied" /\ map_[b].order_id = order_id

\* Mutated form: a tombstone ends the search like an empty bucket.
find_stops_at_tombstone(order_id) ==
    {b \in Buckets : /\ Holds(b, order_id)
                     /\ \A j \in 0 .. Steps(order_id, b) - 1 :
                           LET c == Probe(order_id, j)
                           IN  map_[c].state = "Occupied" /\ ~ Holds(c, order_id)}

\* The bucket find() returns, {} for nullptr: the one that holds the id, if the
\* search meets neither an empty bucket nor the id before it.
find(order_id) ==
    {b \in Buckets : /\ Holds(b, order_id)
                     /\ \A j \in 0 .. Steps(order_id, b) - 1 :
                           LET c == Probe(order_id, j)
                           IN  map_[c].state # "Empty" /\ ~ Holds(c, order_id)}

\* The first bucket of the scan at which it stops, as a set: {} if the scan
\* passes over every bucket.
FirstStop(order_id, stops(_)) ==
    {b \in Buckets : /\ stops(b)
                     /\ \A j \in 0 .. Steps(order_id, b) - 1 : ~ stops(Probe(order_id, j))}

\* Mutated form: tombstones are passed over, and so never used again.
InsertionBucket_skips_tombstones(order_id) ==
    FirstStop(order_id, LAMBDA c : map_[c].state = "Empty" \/ Holds(c, order_id))

\* The bucket insert() settles on, {} for end_: it passes only over buckets
\* occupied by other ids, so it reuses the first tombstone it meets.
InsertionBucket(order_id) ==
    FirstStop(order_id, LAMBDA c : map_[c].state # "Occupied" \/ map_[c].order_id = order_id)

\* insert(): refused, with {end_, false}, when there is no such bucket.
insert(order_id, pool_idx) ==
    \E b \in InsertionBucket(order_id) :
        map_' = [map_ EXCEPT ![b] = [order_id |-> order_id,
                                     pool_idx |-> pool_idx,
                                     state    |-> "Occupied"]]

\* map[order_id] = pool_idx: operator[] finds the id or inserts it, and the
\* caller stores through the reference it returns.
assign(order_id, pool_idx) ==
    \/ \E b \in find(order_id) : map_' = [map_ EXCEPT ![b].pool_idx = pool_idx]
    \/ find(order_id) = {} /\ insert(order_id, pool_idx)

\* operator[] throws "Map is full".
assign_throws(order_id) == find(order_id) = {} /\ InsertionBucket(order_id) = {}

\* Mutated form: the bucket is emptied, which cuts the probe sequences that
\* pass over it.
erase_to_empty(order_id) ==
    \/ \E b \in find(order_id) : map_' = [map_ EXCEPT ![b].state = "Empty"]
    \/ find(order_id) = {} /\ UNCHANGED map_

\* erase(order_id), and erase(find(order_id)) by pointer.
erase(order_id) ==
    \/ \E b \in find(order_id) : map_' = [map_ EXCEPT ![b].state = "Tombstone"]
    \/ find(order_id) = {} /\ UNCHANGED map_

Next ==
    \E id \in OrderIds :
        \/ \E idx \in Indices : assign(id, idx)
        \* As its comment says, insert() relies on the id being new.
        \/ \E idx \in Indices : find(id) = {} /\ insert(id, idx)
        \/ erase(id)

Spec == Init /\ [][Next]_map_

-----------------------------------------------------------------------------
\* Buckets hold ids and indices that were stored, in one of three states.
TypeOK ==
    map_ \in [Buckets -> [order_id : OrderIds \cup {0},
                          pool_idx : Indices \cup {0},
                          state    : {"Empty", "Occupied", "Tombstone"}]]

\* Every occupied bucket is the one find() returns for its id, whatever was
\* inserted and erased before: no entry is hidden behind a gap in its probe
\* sequence, and no id has two entries.
EveryEntryIsFound ==
    \A b \in Buckets :
        map_[b].state = "Occupied" => find(map_[b].order_id) = {b}

\* What a caller can see through find().
Lookup(order_id) ==
    IF find(order_id) = {} THEN -1 ELSE map_[CHOOSE b \in find(order_id) : TRUE].pool_idx

Entries == [id \in OrderIds |-> Lookup(id)]

Index == INSTANCE OrderIndex WITH entries <- Entries

\* Seen through find(), the table is a partial function: operator[] and
\* insert() set the entry of one id, erase() removes one, no other entry is
\* lost, revived or changed by the probing or by reuse of tombstones.
ImplementsIndex == Index!Spec

\* operator[] throws only when Capacity different ids are live: tombstones
\* never use up the table.
ThrowsOnlyWhenFull ==
    \A id \in OrderIds :
        assign_throws(id) <=>
            id \notin Index!Live /\ Cardinality(Index!Live) = Capacity
=============================================================================
