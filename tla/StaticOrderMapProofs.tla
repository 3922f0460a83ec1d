------------------------- MODULE StaticOrderMapProofs ------------------------
(***************************************************************************)
(* The hash table for every capacity and every set of order ids: find()    *)
(* reaches every entry, operator[] throws only when the table is full, and *)
(* the table implements OrderIndex.                                        *)
(***************************************************************************)
EXTENDS StaticOrderMap, FiniteSetTheorems, WellFoundedInduction, TLAPS

\* Buckets hold what was stored, and only ids that were stored are occupied.
Types == TypeOK /\ \A b \in Buckets : map_[b].state = "Occupied" => map_[b].order_id \in OrderIds

\* The scan for an id gets to bucket b: it meets no empty bucket and no entry
\* of the id on the way.
Reached(id, b) ==
    \A j \in 0 .. Steps(id, b) - 1 :
        map_[Probe(id, j)].state # "Empty" /\ ~ Holds(Probe(id, j), id)

\* The inductive invariant: EveryEntryIsFound in terms of the scan.
IInv == Types /\ \A b \in Buckets : map_[b].state = "Occupied" => Reached(map_[b].order_id, b)

\* The scan visits every bucket once.
LEMMA ProbeSteps ==
    ASSUME NEW id \in Nat
    PROVE  /\ Home(id) \in Buckets
           /\ \A k \in Buckets : Probe(id, k) \in Buckets /\ Steps(id, Probe(id, k)) = k
           /\ \A b \in Buckets : Steps(id, b) \in Buckets /\ Probe(id, Steps(id, b)) = b
<1>1. Capacity \in Nat /\ Capacity > 0
  BY CapacityAssumption
<1>2. Home(id) \in Buckets
  BY <1>1 DEF Home, Buckets
<1> HIDE DEF Home
<1> QED BY <1>1, <1>2 DEF Buckets, Probe, Steps

\* A set of numbers that is not empty has a least element.
LEMMA LeastElement ==
    ASSUME NEW S \in SUBSET Nat, S # {}
    PROVE  \E k \in S : \A j \in S : k <= j
<1> DEFINE R == OpToRel(<, Nat)
<1>1. IsWellFoundedOn(R, Nat)
  BY NatLessThanWellFounded
<1>2. \A j, k \in Nat : j < k => <<j, k>> \in R
  BY DEF OpToRel
<1> HIDE DEF R
<1>3. PICK k \in S : \A j \in S : ~ (<<j, k>> \in R)
  BY <1>1, WFMin, Zenon
<1>4. \A j \in S : ~ (j < k)
  BY <1>2, <1>3
<1> QED BY <1>4

\* What find() returns.
LEMMA FindIs ==
    ASSUME NEW id \in Nat, NEW b
    PROVE  b \in find(id) <=> b \in Buckets /\ Holds(b, id) /\ Reached(id, b)
BY DEF find, Reached

\* Where insert() puts an id.
LEMMA InsertionIs ==
    ASSUME NEW id \in Nat, NEW b
    PROVE  b \in InsertionBucket(id) <=>
              /\ b \in Buckets /\ (map_[b].state # "Occupied" \/ map_[b].order_id = id)
              /\ \A j \in 0 .. Steps(id, b) - 1 :
                    map_[Probe(id, j)].state = "Occupied" /\ map_[Probe(id, j)].order_id # id
BY DEF InsertionBucket, FirstStop

\* In a table that satisfies the invariant an id has at most one entry, and
\* find() returns it.
LEMMA FoundIsHolder ==
    ASSUME IInv, NEW id \in OrderIds
    PROVE  /\ find(id) = {b \in Buckets : Holds(b, id)}
           /\ \A b, c \in Buckets : Holds(b, id) /\ Holds(c, id) => b = c
<1>1. id \in Nat
  BY OrderIdsAssumption
<1>2. \A b \in Buckets : Holds(b, id) => Reached(id, b)
  BY DEF IInv, Holds
<1>3. \A b : b \in find(id) <=> b \in Buckets /\ Holds(b, id)
  BY <1>1, <1>2, FindIs
<1>4. ASSUME NEW b \in Buckets, NEW c \in Buckets, Holds(b, id), Holds(c, id)
      PROVE  Steps(id, b) >= Steps(id, c)
  <2>1. Reached(id, c) /\ Steps(id, b) \in Buckets /\ Steps(id, c) \in Buckets
        /\ Probe(id, Steps(id, b)) = b
    BY <1>1, <1>2, <1>4, ProbeSteps
  <2>2. Steps(id, b) \in Nat /\ Steps(id, c) \in Nat
    BY <2>1 DEF Buckets
  <2>3. ~ (Steps(id, b) \in 0 .. Steps(id, c) - 1)
    BY <1>4, <2>1 DEF Reached
  <2> QED BY <2>2, <2>3
<1>5. ASSUME NEW b \in Buckets, NEW c \in Buckets, Holds(b, id), Holds(c, id)
      PROVE  b = c
  <2>1. Steps(id, b) >= Steps(id, c) /\ Steps(id, c) >= Steps(id, b)
    BY <1>4, <1>5
  <2>2. Steps(id, b) \in Nat /\ Steps(id, c) \in Nat
    BY <1>1, ProbeSteps DEF Buckets
  <2>3. Steps(id, b) = Steps(id, c)
    BY <2>1, <2>2
  <2> QED BY <1>1, <2>3, ProbeSteps
<1> QED BY <1>3, <1>5

-----------------------------------------------------------------------------
\* A new table is empty.
LEMMA InitIInv == Init => IInv
BY DEF Init, IInv, Types, TypeOK

\* A scan that passed over a bucket passes over it after a step that changes
\* another bucket, or makes a bucket that was not empty a tombstone or the
\* entry of another id.
LEMMA OthersReached ==
    ASSUME IInv, NEW t \in Buckets, NEW c \in Buckets \ {t},
           map_[c].state = "Occupied", map_'[c] = map_[c],
           \A i \in Buckets \ {t} : map_'[i] = map_[i],
           map_'[t].state # "Empty",
           map_'[t].state = "Occupied" => map_'[t].order_id # map_[c].order_id
    PROVE  Reached(map_[c].order_id, c)'
<1>0. PICK id : id = map_[c].order_id
  OBVIOUS
<1>1. id \in Nat /\ Reached(id, c)
  BY <1>0, OrderIdsAssumption, Zenon DEF IInv, Types
<1>2. map_'[c].order_id = id
  BY <1>0
<1>3. \A j \in 0 .. Steps(id, c) - 1 : Probe(id, j) \in Buckets
  <2>1. Steps(id, c) \in Buckets
    BY <1>1, ProbeSteps
  <2>2. \A j \in 0 .. Steps(id, c) - 1 : j \in Buckets
    BY <2>1, CapacityAssumption DEF Buckets
  <2> QED BY <1>1, <2>2, ProbeSteps
<1>4. \A j \in 0 .. Steps(id, c) - 1 :
         map_'[Probe(id, j)].state # "Empty" /\ ~ Holds(Probe(id, j), id)'
  BY <1>0, <1>1, <1>3 DEF Reached, Holds
<1> QED BY <1>2, <1>4 DEF Reached

\* insert() of an id that is not in the table.
LEMMA InsertIInv ==
    ASSUME IInv, NEW id \in OrderIds, NEW idx \in Indices, find(id) = {}, insert(id, idx)
    PROVE  /\ IInv'
           /\ \E t \in Buckets :
                 /\ map_[t].state # "Occupied"
                 /\ map_' = [map_ EXCEPT ![t] = [order_id |-> id, pool_idx |-> idx,
                                                 state |-> "Occupied"]]
<1>1. PICK t \in InsertionBucket(id) :
         map_' = [map_ EXCEPT ![t] = [order_id |-> id, pool_idx |-> idx, state |-> "Occupied"]]
  BY DEF insert
<1>2. id \in Nat
  BY OrderIdsAssumption
<1>3. /\ t \in Buckets /\ (map_[t].state # "Occupied" \/ map_[t].order_id = id)
      /\ \A j \in 0 .. Steps(id, t) - 1 :
            map_[Probe(id, j)].state = "Occupied" /\ map_[Probe(id, j)].order_id # id
  BY <1>1, <1>2, InsertionIs
<1>4. map_[t].state # "Occupied"
  BY <1>3, FoundIsHolder DEF Holds
<1>5. map_ \in [Buckets -> [order_id : OrderIds \cup {0}, pool_idx : Indices \cup {0},
                            state : {"Empty", "Occupied", "Tombstone"}]]
  BY DEF IInv, Types, TypeOK
<1>6. /\ map_'[t] = [order_id |-> id, pool_idx |-> idx, state |-> "Occupied"]
      /\ \A i \in Buckets \ {t} : map_'[i] = map_[i]
      /\ map_' \in [Buckets -> [order_id : OrderIds \cup {0}, pool_idx : Indices \cup {0},
                                 state : {"Empty", "Occupied", "Tombstone"}]]
  BY <1>1, <1>3, <1>5
<1>7. Types'
  BY <1>3, <1>6 DEF IInv, Types, TypeOK
<1>8. Reached(id, t)'
  <2>1. Steps(id, t) \in Buckets /\ \A k \in Buckets : Probe(id, k) \in Buckets /\ Steps(id, Probe(id, k)) = k
    BY <1>2, <1>3, ProbeSteps
  <2>2. \A j \in 0 .. Steps(id, t) - 1 : j \in Buckets /\ j # Steps(id, t)
    BY <2>1, CapacityAssumption DEF Buckets
  <2>3. \A j \in 0 .. Steps(id, t) - 1 : Probe(id, j) \in Buckets \ {t}
    BY <2>1, <2>2
  <2>4. \A j \in 0 .. Steps(id, t) - 1 :
           map_'[Probe(id, j)].state = "Occupied" /\ map_'[Probe(id, j)].order_id # id
    BY <1>3, <1>6, <2>3
  <2> QED BY <2>4 DEF Reached, Holds, Steps, Probe, Home
<1>9. ASSUME NEW c \in Buckets, map_'[c].state = "Occupied"
      PROVE  Reached(map_[c].order_id, c)'
  <2>1. CASE c = t
    <3>1. map_'[c].order_id = id
      BY <1>6, <2>1
    <3> QED BY <1>8, <2>1, <3>1 DEF Reached, Steps, Probe, Home
  <2>2. CASE c # t
    <3>1. map_'[c] = map_[c] /\ map_[c].state = "Occupied"
      BY <1>6, <1>9, <2>2
    <3>2. map_[c].order_id # id
      BY <3>1, FoundIsHolder DEF Holds
    <3>3. Reached(map_[c].order_id, c)'
      BY <1>3, <1>6, <2>2, <3>1, <3>2, OthersReached
    <3> QED BY <3>3
  <2> QED BY <2>1, <2>2
<1>10. IInv'
  BY <1>7, <1>9 DEF IInv
<1> QED BY <1>1, <1>3, <1>4, <1>10

\* A step that changes only the index or only the state of the bucket of an
\* id, to a tombstone.
LEMMA HolderIInv ==
    ASSUME IInv, NEW id \in OrderIds, NEW t \in Buckets, Holds(t, id),
           map_' \in [Buckets -> [order_id : OrderIds \cup {0}, pool_idx : Indices \cup {0},
                                  state : {"Empty", "Occupied", "Tombstone"}]],
           map_'[t].order_id = id, map_'[t].state \in {"Occupied", "Tombstone"},
           \A i \in Buckets \ {t} : map_'[i] = map_[i]
    PROVE  IInv'
<1>1. Types'
  BY DEF IInv, Types, TypeOK
<1>2. ASSUME NEW c \in Buckets, map_'[c].state = "Occupied"
      PROVE  Reached(map_[c].order_id, c)'
  <2>1. CASE c = t
    <3>1. id \in Nat /\ Reached(id, t) /\ map_'[c].order_id = id
      BY <2>1, OrderIdsAssumption DEF IInv, Holds
    <3>2. Steps(id, t) \in Buckets /\ \A k \in Buckets : Probe(id, k) \in Buckets /\ Steps(id, Probe(id, k)) = k
      BY <3>1, ProbeSteps
    <3>3. \A j \in 0 .. Steps(id, t) - 1 : j \in Buckets /\ j # Steps(id, t)
      BY <3>2, CapacityAssumption DEF Buckets
    <3>4. \A j \in 0 .. Steps(id, t) - 1 : Probe(id, j) \in Buckets \ {t}
      BY <3>2, <3>3
    <3>5. \A j \in 0 .. Steps(id, t) - 1 :
             map_'[Probe(id, j)].state # "Empty" /\ ~ Holds(Probe(id, j), id)'
      BY <3>1, <3>4 DEF Reached, Holds
    <3> QED BY <2>1, <3>1, <3>5 DEF Reached, Steps, Probe, Home
  <2>2. CASE c # t
    <3>1. map_'[c] = map_[c] /\ map_[c].state = "Occupied" /\ c \in Buckets \ {t}
      BY <1>2, <2>2
    <3>2. map_[c].order_id # id
      BY <2>2, <3>1, FoundIsHolder DEF Holds
    <3>3. Reached(map_[c].order_id, c)'
      BY <3>1, <3>2, OthersReached
    <3> QED BY <3>3
  <2> QED BY <2>1, <2>2
<1> QED BY <1>1, <1>2 DEF IInv

\* Storing through the reference that operator[] found.
LEMMA StoreIInv ==
    ASSUME IInv, NEW id \in OrderIds, NEW idx \in Indices, NEW t \in find(id),
           map_' = [map_ EXCEPT ![t].pool_idx = idx]
    PROVE  /\ IInv' /\ t \in Buckets /\ Holds(t, id)
           /\ map_'[t].order_id = id /\ map_'[t].state = "Occupied" /\ map_'[t].pool_idx = idx
           /\ \A i \in Buckets \ {t} : map_'[i] = map_[i]
<1>1. t \in Buckets /\ Holds(t, id)
  BY FoundIsHolder
<1>2. map_ \in [Buckets -> [order_id : OrderIds \cup {0}, pool_idx : Indices \cup {0},
                            state : {"Empty", "Occupied", "Tombstone"}]]
  BY DEF IInv, Types, TypeOK
<1>3. /\ map_' \in [Buckets -> [order_id : OrderIds \cup {0}, pool_idx : Indices \cup {0},
                                 state : {"Empty", "Occupied", "Tombstone"}]]
      /\ map_'[t].order_id = id /\ map_'[t].state = "Occupied" /\ map_'[t].pool_idx = idx
      /\ \A i \in Buckets \ {t} : map_'[i] = map_[i]
  BY <1>1, <1>2 DEF Holds
<1>4. IInv'
  BY <1>1, <1>3, HolderIInv
<1> QED BY <1>1, <1>3, <1>4

\* erase() of an entry.
LEMMA EraseIInv ==
    ASSUME IInv, NEW id \in OrderIds, NEW t \in find(id),
           map_' = [map_ EXCEPT ![t].state = "Tombstone"]
    PROVE  /\ IInv' /\ t \in Buckets /\ Holds(t, id)
           /\ map_'[t].state = "Tombstone"
           /\ \A i \in Buckets \ {t} : map_'[i] = map_[i]
<1>1. t \in Buckets /\ Holds(t, id)
  BY FoundIsHolder
<1>2. map_ \in [Buckets -> [order_id : OrderIds \cup {0}, pool_idx : Indices \cup {0},
                            state : {"Empty", "Occupied", "Tombstone"}]]
  BY DEF IInv, Types, TypeOK
<1>3. /\ map_' \in [Buckets -> [order_id : OrderIds \cup {0}, pool_idx : Indices \cup {0},
                                 state : {"Empty", "Occupied", "Tombstone"}]]
      /\ map_'[t].order_id = id /\ map_'[t].state = "Tombstone"
      /\ \A i \in Buckets \ {t} : map_'[i] = map_[i]
  BY <1>1, <1>2 DEF Holds
<1>4. IInv'
  BY <1>1, <1>3, HolderIInv
<1> QED BY <1>1, <1>3, <1>4

\* Every operation of the table keeps the invariant.
LEMMA NextIInv == IInv /\ [Next]_map_ => IInv'
<1> SUFFICES ASSUME IInv, [Next]_map_ PROVE IInv'
  OBVIOUS
<1>1. ASSUME NEW id \in OrderIds, NEW idx \in Indices, assign(id, idx) PROVE IInv'
  BY <1>1, StoreIInv, InsertIInv DEF assign
<1>2. ASSUME NEW id \in OrderIds, NEW idx \in Indices, find(id) = {}, insert(id, idx) PROVE IInv'
  BY <1>2, InsertIInv
<1>3. CASE UNCHANGED map_
  <2>1. Types'
    BY <1>3 DEF IInv, Types, TypeOK
  <2>2. \A id \in OrderIds, b \in Buckets : Reached(id, b)' = Reached(id, b)
    BY <1>3 DEF Reached, Holds, Steps, Probe, Home
  <2> QED BY <1>3, <2>1, <2>2 DEF IInv, Types
<1>4. ASSUME NEW id \in OrderIds, erase(id) PROVE IInv'
  BY <1>3, <1>4, EraseIInv DEF erase
<1> QED BY <1>1, <1>2, <1>3, <1>4 DEF Next

\* The inductive invariant holds for every capacity.
THEOREM Invariance == Spec => []IInv
BY InitIInv, NextIInv, PTL DEF Spec

\* For every capacity and any history of insertions and removals, find()
\* returns each entry for its id.
THEOREM EntriesFound == Spec => []EveryEntryIsFound
<1>1. IInv => EveryEntryIsFound
  <2> SUFFICES ASSUME IInv, NEW b \in Buckets, map_[b].state = "Occupied"
               PROVE  find(map_[b].order_id) = {b}
    BY DEF EveryEntryIsFound
  <2> DEFINE id == map_[b].order_id
  <2>1. id \in OrderIds /\ Holds(b, id)
    BY DEF IInv, Types, Holds
  <2> HIDE DEF id
  <2>2. find(id) = {c \in Buckets : Holds(c, id)}
        /\ \A c \in Buckets : Holds(c, id) => c = b
    BY <2>1, FoundIsHolder
  <2>3. find(id) = {b}
    BY <2>1, <2>2
  <2> QED BY <2>3 DEF id
<1> QED BY <1>1, Invariance, PTL

-----------------------------------------------------------------------------
(* The table seen through find().                                           *)

\* What a caller sees is what the occupied buckets hold.
Agreement ==
    \A id \in OrderIds :
        /\ (\A b \in Buckets : ~ Holds(b, id)) => Entries[id] = -1
        /\ \A b \in Buckets :
              Holds(b, id) => Entries[id] = map_[b].pool_idx /\ map_[b].pool_idx \in Nat

\* The invariant gives the agreement.
LEMMA Agree == IInv => Agreement
<1> SUFFICES ASSUME IInv, NEW id \in OrderIds
             PROVE  /\ (\A b \in Buckets : ~ Holds(b, id)) => Entries[id] = -1
                    /\ \A b \in Buckets :
                          Holds(b, id) => Entries[id] = map_[b].pool_idx /\ map_[b].pool_idx \in Nat
  BY DEF Agreement
<1>1. /\ find(id) = {b \in Buckets : Holds(b, id)}
      /\ \A b, c \in Buckets : Holds(b, id) /\ Holds(c, id) => b = c
  BY FoundIsHolder
<1>2. Entries[id] = IF find(id) = {} THEN -1 ELSE map_[CHOOSE b \in find(id) : TRUE].pool_idx
  BY DEF Entries, Lookup
<1>3. ASSUME \A b \in Buckets : ~ Holds(b, id) PROVE Entries[id] = -1
  BY <1>1, <1>2, <1>3
<1>4. ASSUME NEW b \in Buckets, Holds(b, id)
      PROVE  Entries[id] = map_[b].pool_idx /\ map_[b].pool_idx \in Nat
  <2>1. find(id) = {b}
    BY <1>1, <1>4
  <2>2. (CHOOSE c \in find(id) : TRUE) = b
    BY <2>1
  <2>3. map_[b].pool_idx \in Nat
    <3>1. map_[b].pool_idx \in Indices \cup {0}
      BY DEF IInv, Types, TypeOK
    <3>2. \A i \in Indices \cup {0} : i \in Nat
      BY IndicesAssumption
    <3> QED BY <3>1, <3>2
  <2> QED BY <1>2, <2>1, <2>2, <2>3
<1> QED BY <1>3, <1>4

\* A step in a bucket of one id does not show in the entry of another.
LEMMA OthersUnchanged ==
    ASSUME Agreement, Agreement', NEW id \in OrderIds, NEW t \in Buckets,
           \A i \in Buckets \ {t} : map_'[i] = map_[i],
           map_[t].state = "Occupied" => map_[t].order_id = id,
           map_'[t].state = "Occupied" => map_'[t].order_id = id
    PROVE  /\ \A o \in OrderIds \ {id} : Entries'[o] = Entries[o]
           /\ \A x : Entries'[id] = x => Entries' = [Entries EXCEPT ![id] = x]
<1>1. ASSUME NEW o \in OrderIds \ {id} PROVE Entries'[o] = Entries[o]
  <2>1. \A b \in Buckets : Holds(b, o)' <=> Holds(b, o)
    BY DEF Holds
  <2>2. CASE \E b \in Buckets : Holds(b, o)
    <3>1. PICK b \in Buckets : Holds(b, o)
      BY <2>2
    <3>2. b # t /\ map_'[b] = map_[b] /\ Holds(b, o)'
      BY <2>1, <3>1 DEF Holds
    <3> QED BY <3>1, <3>2 DEF Agreement
  <2>3. CASE ~ \E b \in Buckets : Holds(b, o)
    BY <2>1, <2>3 DEF Agreement
  <2> QED BY <2>2, <2>3
<1>2. ASSUME NEW x, Entries'[id] = x PROVE Entries' = [Entries EXCEPT ![id] = x]
  <2>1. /\ Entries' = [o \in OrderIds |-> Entries'[o]]
        /\ Entries = [o \in OrderIds |-> Entries[o]]
    BY DEF Entries
  <2> HIDE DEF Entries
  <2> QED BY <1>1, <1>2, <2>1
<1> QED BY <1>1, <1>2

OccupiedBuckets == {b \in Buckets : map_[b].state = "Occupied"}

\* As many ids are live as buckets are occupied.
LEMMA LiveCount ==
    ASSUME IInv
    PROVE  /\ Index!Live = {id \in OrderIds : \E b \in Buckets : Holds(b, id)}
           /\ IsFiniteSet(OccupiedBuckets)
           /\ Cardinality(Index!Live) = Cardinality(OccupiedBuckets)
           /\ Cardinality(OccupiedBuckets) \in 0 .. Capacity
           /\ Cardinality(OccupiedBuckets) = Capacity <=> OccupiedBuckets = Buckets
<1>0. Agreement
  BY Agree
<1>1. Index!Live = {id \in OrderIds : \E b \in Buckets : Holds(b, id)}
  <2>1. \A id \in OrderIds : Entries[id] # -1 <=> \E b \in Buckets : Holds(b, id)
    BY <1>0 DEF Agreement
  <2> QED BY <2>1 DEF Index!Live, Index!Absent
<1>2. IsFiniteSet(Buckets) /\ Cardinality(Buckets) = Capacity
  BY CapacityAssumption, FS_Interval DEF Buckets
<1>3. /\ IsFiniteSet(OccupiedBuckets) /\ Cardinality(OccupiedBuckets) <= Cardinality(Buckets)
      /\ Cardinality(Buckets) = Cardinality(OccupiedBuckets) => Buckets = OccupiedBuckets
  BY <1>2, FS_Subset DEF OccupiedBuckets
<1>4. Cardinality(OccupiedBuckets) \in Nat
  BY <1>3, FS_CardinalityType
<1> DEFINE Ids == {id \in OrderIds : \E b \in Buckets : Holds(b, id)}
           f == [id \in Ids |-> CHOOSE b \in Buckets : Holds(b, id)]
<1>5. \A id \in Ids : f[id] \in OccupiedBuckets /\ Holds(f[id], id)
  BY DEF OccupiedBuckets, Holds
<1>6. f \in [Ids -> OccupiedBuckets]
  BY <1>5
<1>7. \A i, j \in Ids : f[i] = f[j] => i = j
  BY <1>5 DEF Holds
<1>8. \A b \in OccupiedBuckets : \E id \in Ids : f[id] = b
  <2> TAKE b \in OccupiedBuckets
  <2>1. b \in Buckets /\ map_[b].order_id \in OrderIds /\ Holds(b, map_[b].order_id)
    BY DEF OccupiedBuckets, IInv, Types, Holds
  <2>2. map_[b].order_id \in Ids
    BY <2>1
  <2>3. f[map_[b].order_id] = b
    BY <1>5, <2>1, <2>2, FoundIsHolder DEF OccupiedBuckets
  <2> QED BY <2>2, <2>3
<1> HIDE DEF f, Ids
<1>9. f \in Injection(Ids, OccupiedBuckets) /\ f \in Surjection(Ids, OccupiedBuckets)
  <2>1. DOMAIN f = Ids
    BY <1>6
  <2> QED BY <1>6, <1>7, <1>8, <2>1 DEF Injection, IsInjective, Surjection
<1>10. Cardinality(Ids) = Cardinality(OccupiedBuckets)
  BY <1>3, <1>9, FS_Injection
<1> QED BY <1>1, <1>2, <1>3, <1>4, <1>10, CapacityAssumption DEF Ids

\* For every capacity: operator[] throws for a new id exactly when as many ids
\* are live as there are buckets.
THEOREM FullOnlyThrows == Spec => []ThrowsOnlyWhenFull
<1>1. IInv => ThrowsOnlyWhenFull
  <2> SUFFICES ASSUME IInv, NEW id \in OrderIds
               PROVE  assign_throws(id) <=>
                         id \notin Index!Live /\ Cardinality(Index!Live) = Capacity
    BY DEF ThrowsOnlyWhenFull
  <2>1. id \in Nat
    BY OrderIdsAssumption
  <2>2. find(id) = {} <=> id \notin Index!Live
    BY FoundIsHolder, LiveCount
  <2>3. Cardinality(Index!Live) = Capacity <=> OccupiedBuckets = Buckets
    BY LiveCount
  <2>4. ASSUME find(id) = {}, OccupiedBuckets = Buckets PROVE InsertionBucket(id) = {}
    <3>1. \A b \in Buckets : map_[b].state = "Occupied" /\ map_[b].order_id # id
      BY <2>4, FoundIsHolder DEF OccupiedBuckets, Holds
    <3> QED BY <2>1, <3>1, InsertionIs
  <2>5. ASSUME find(id) = {}, OccupiedBuckets # Buckets PROVE InsertionBucket(id) # {}
    <3> DEFINE Free(k) == k \in Buckets /\ map_[Probe(id, k)].state # "Occupied"
    <3>1. PICK c \in Buckets : map_[c].state # "Occupied"
      BY <2>5 DEF OccupiedBuckets
    <3>2. Steps(id, c) \in Buckets /\ Free(Steps(id, c))
      BY <2>1, <3>1, ProbeSteps
    <3>3. PICK k \in Buckets : Free(k) /\ \A j \in 0 .. k - 1 : ~ Free(j)
      <4> DEFINE S == {k \in Buckets : Free(k)}
      <4>1. S \subseteq Nat /\ S # {}
        BY <3>2 DEF Buckets
      <4> HIDE DEF S
      <4>2. PICK k \in S : \A j \in S : k <= j
        BY <4>1, LeastElement
      <4>3. k \in Buckets /\ Free(k) /\ \A j \in Buckets : Free(j) => k <= j
        BY <4>2 DEF S
      <4>4. \A j \in 0 .. k - 1 : j \in Nat /\ ~ (k <= j)
        BY <4>3 DEF Buckets
      <4> QED BY <4>3, <4>4
    <3>4. Probe(id, k) \in Buckets /\ Steps(id, Probe(id, k)) = k
      BY <2>1, <3>3, ProbeSteps
    <3>5. \A j \in 0 .. k - 1 : j \in Buckets /\ Probe(id, j) \in Buckets
      <4>1. \A j \in 0 .. k - 1 : j \in Buckets
        BY <3>3, CapacityAssumption DEF Buckets
      <4> QED BY <2>1, <4>1, ProbeSteps
    <3>6. \A j \in 0 .. k - 1 :
             map_[Probe(id, j)].state = "Occupied" /\ map_[Probe(id, j)].order_id # id
      BY <2>5, <3>3, <3>5, FoundIsHolder DEF Holds
    <3>7. Probe(id, k) \in InsertionBucket(id)
      BY <2>1, <3>3, <3>4, <3>6, InsertionIs
    <3> QED BY <3>7
  <2> QED BY <2>2, <2>3, <2>4, <2>5 DEF assign_throws
<1> QED BY <1>1, Invariance, PTL

\* For every capacity the table is a partial function from ids to indices.
THEOREM Refinement == Spec => ImplementsIndex
<1>1. Init => Index!Init
  <2> SUFFICES ASSUME Init PROVE Index!Init
    OBVIOUS
  <2>1. \A id \in OrderIds : Entries[id] = -1
    BY InitIInv, Agree DEF Agreement, Init, Holds
  <2>2. Entries = [id \in OrderIds |-> Entries[id]]
    BY DEF Entries
  <2> HIDE DEF Entries
  <2> QED BY <2>1, <2>2 DEF Index!Init, Index!Absent
<1>2. IInv /\ IInv' /\ Agreement /\ Agreement' /\ [Next]_map_ => [Index!Next]_Entries
  <2> SUFFICES ASSUME IInv, IInv', Agreement, Agreement', [Next]_map_
               PROVE  [Index!Next]_Entries
    OBVIOUS
  <2>1. ASSUME NEW id \in OrderIds, NEW idx \in Indices, NEW t \in find(id),
               map_' = [map_ EXCEPT ![t].pool_idx = idx]
        PROVE  Index!Put(id, idx)
    <3>1. /\ t \in Buckets /\ Holds(t, id)
          /\ map_'[t].order_id = id /\ map_'[t].state = "Occupied" /\ map_'[t].pool_idx = idx
          /\ \A i \in Buckets \ {t} : map_'[i] = map_[i]
      <4>1. t \in Buckets /\ Holds(t, id)
        BY FoundIsHolder
      <4>2. map_ \in [Buckets -> [order_id : OrderIds \cup {0}, pool_idx : Indices \cup {0},
                                  state : {"Empty", "Occupied", "Tombstone"}]]
        BY DEF IInv, Types, TypeOK
      <4> QED BY <2>1, <4>1, <4>2 DEF Holds
    <3>2. Entries'[id] = idx
      BY <3>1 DEF Agreement, Holds
    <3>3. Entries' = [Entries EXCEPT ![id] = idx]
      BY <3>1, <3>2, OthersUnchanged DEF Holds
    <3>4. id \in Index!Live
      BY <3>1, LiveCount
    <3> QED BY <3>3, <3>4 DEF Index!Put
  <2>2. ASSUME NEW id \in OrderIds, NEW idx \in Indices, find(id) = {}, insert(id, idx)
        PROVE  Index!Put(id, idx)
    <3>1. PICK t \in Buckets :
             /\ map_[t].state # "Occupied"
             /\ map_' = [map_ EXCEPT ![t] = [order_id |-> id, pool_idx |-> idx, state |-> "Occupied"]]
      BY <2>2, InsertIInv
    <3>2. /\ map_'[t].order_id = id /\ map_'[t].state = "Occupied" /\ map_'[t].pool_idx = idx
          /\ \A i \in Buckets \ {t} : map_'[i] = map_[i]
      BY <3>1 DEF IInv, Types, TypeOK
    <3>3. Entries'[id] = idx
      BY <3>2 DEF Agreement, Holds
    <3>4. Entries' = [Entries EXCEPT ![id] = idx]
      BY <3>1, <3>2, <3>3, OthersUnchanged
    <3>5. Cardinality(Index!Live) < Capacity
      <4>1. OccupiedBuckets # Buckets
        BY <3>1 DEF OccupiedBuckets
      <4> QED BY <4>1, LiveCount, CapacityAssumption
    <3>6. Index!Cardinality(Index!Live) = Cardinality(Index!Live)
      BY DEF Index!Cardinality, Cardinality
    <3> QED BY <3>4, <3>5, <3>6 DEF Index!Put
  <2>3. ASSUME NEW id \in OrderIds, NEW t \in find(id),
               map_' = [map_ EXCEPT ![t].state = "Tombstone"]
        PROVE  Index!Remove(id)
    <3>1. /\ t \in Buckets /\ Holds(t, id) /\ map_'[t].state = "Tombstone"
          /\ \A i \in Buckets \ {t} : map_'[i] = map_[i]
      BY <2>3, EraseIInv, Zenon
    <3>2. \A b \in Buckets : ~ Holds(b, id)'
      BY <3>1, FoundIsHolder DEF Holds
    <3>3. Entries'[id] = -1
      BY <3>2 DEF Agreement
    <3>4. Entries' = [Entries EXCEPT ![id] = -1]
      BY <3>1, <3>3, OthersUnchanged DEF Holds
    <3> QED BY <3>4 DEF Index!Remove, Index!Absent
  <2>4. CASE UNCHANGED map_
    BY <2>4 DEF Entries, Lookup, find, Holds
  <2>5. ASSUME NEW id \in OrderIds, NEW idx \in Indices,
               assign(id, idx) \/ (find(id) = {} /\ insert(id, idx))
        PROVE  Index!Next
    BY <2>1, <2>2, <2>5 DEF assign, Index!Next
  <2>6. ASSUME NEW id \in OrderIds, erase(id) PROVE Index!Next \/ UNCHANGED map_
    BY <2>3, <2>6 DEF erase, Index!Next
  <2> QED BY <2>4, <2>5, <2>6 DEF Next
<1> QED BY <1>1, <1>2, Invariance, Agree, PTL DEF Spec, Index!Spec, ImplementsIndex
=============================================================================
