----------------------------- MODULE OrderIndex ------------------------------
(***************************************************************************)
(* What utils::StaticOrderMap promises to the order book: a partial        *)
(* function from order ids to (tagged) pool indices, of bounded size.      *)
(***************************************************************************)
EXTENDS Integers, FiniteSets

CONSTANTS Capacity, OrderIds, Indices
VARIABLE entries    \* entries[id] is the index of id, or Absent

Absent == -1

Live == {id \in OrderIds : entries[id] # Absent}

Init == entries = [id \in OrderIds |-> Absent]

Put(id, idx) ==
    /\ entries' = [entries EXCEPT ![id] = idx]
    /\ id \in Live \/ Cardinality(Live) < Capacity

Remove(id) == entries' = [entries EXCEPT ![id] = Absent]

Next == \E id \in OrderIds : Remove(id) \/ \E idx \in Indices : Put(id, idx)

Spec == Init /\ [][Next]_entries
=============================================================================
