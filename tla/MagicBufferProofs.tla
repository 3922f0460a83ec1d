-------------------------- MODULE MagicBufferProofs --------------------------
(***************************************************************************)
(* What the two heads of utils::MagicBuffer and the double mapping give,   *)
(* for every capacity: a write of no more than write_space_left() bytes    *)
(* goes behind the unread bytes, and a read takes from their front.        *)
(***************************************************************************)
EXTENDS MagicBuffer, SequenceTheorems, TLAPS

\* advance_write() and advance_read() leave the heads inside the first
\* mapping, for any number of bytes that is at most the capacity.
LEMMA HeadsStay ==
    ASSUME NEW b \in Heads, NEW n \in 0 .. aligned_capacity_
    PROVE  advance_write(b, n) \in Heads /\ advance_read(b, n) \in Heads
  BY CapacityAssumption DEF Heads, Offsets, advance_write, advance_read, Advance

\* read_space_left() and write_space_left() add up to all bytes but the one
\* that tells a full buffer from an empty one.
LEMMA SpacesAddUp ==
    ASSUME NEW b \in Heads
    PROVE  /\ read_space_left(b) \in 0 .. aligned_capacity_ - 1
           /\ write_space_left(b) \in 0 .. aligned_capacity_ - 1
           /\ read_space_left(b) + write_space_left(b) = aligned_capacity_ - 1
  BY CapacityAssumption DEF Heads, Offsets, read_space_left, write_space_left

\* A new or reset buffer shows no byte.
LEMMA FreshIsEmpty == Fresh \in Heads /\ read_space_left(Fresh) = 0
  BY CapacityAssumption DEF Fresh, Heads, Offsets, read_space_left

\* advance_write() by what fits adds that much to what can be read.
LEMMA AdvanceWriteAdds ==
    ASSUME NEW b \in Heads, NEW n \in 0 .. write_space_left(b)
    PROVE  read_space_left(advance_write(b, n)) = read_space_left(b) + n
  BY CapacityAssumption
     DEF Heads, Offsets, advance_write, Advance, read_space_left, write_space_left

\* advance_read() by what is there takes that much from it.
LEMMA AdvanceReadTakes ==
    ASSUME NEW b \in Heads, NEW n \in 0 .. read_space_left(b)
    PROVE  read_space_left(advance_read(b, n)) = read_space_left(b) - n
  BY CapacityAssumption DEF Heads, Offsets, advance_read, Advance, read_space_left

\* Where the k-th byte from the read head is, seen from the write head: the
\* unread bytes come last before it, the others at it and behind it.
LEMMA FromReadToWrite ==
    ASSUME NEW b \in Heads, NEW k \in 1 .. aligned_capacity_ - 1
    PROVE  /\ PageOffset(b.read_head_ + k - 1) \in Offsets
           /\ FromWriteHead(b, PageOffset(b.read_head_ + k - 1)) =
                IF k <= read_space_left(b) THEN aligned_capacity_ - read_space_left(b) + k - 1
                ELSE k - 1 - read_space_left(b)
<1>1. PICK read \in Offsets, write \in Offsets : b.read_head_ = read /\ b.write_head_ = write
  BY DEF Heads
<1>2. CASE read + k - 1 >= aligned_capacity_
  BY <1>1, <1>2, CapacityAssumption DEF PageOffset, FromWriteHead, read_space_left, Offsets
<1>3. CASE ~ (read + k - 1 >= aligned_capacity_)
  BY <1>1, <1>3, CapacityAssumption DEF PageOffset, FromWriteHead, read_space_left, Offsets
<1> QED BY <1>2, <1>3

\* Concatenation, element by element.
LEMMA Concatenation ==
    ASSUME NEW S, NEW s \in Seq(S), NEW t \in Seq(S)
    PROVE  s \o t = [k \in 1 .. Len(s) + Len(t) |-> IF k <= Len(s) THEN s[k] ELSE t[k - Len(s)]]
<1>1. s \o t \in [1 .. Len(s) + Len(t) -> S]
  BY ConcatProperties, LenProperties
<1> QED BY <1>1, ConcatProperties

\* recv() into get_write_head() of at most write_space_left() bytes, followed
\* by advance_write(): the unread bytes stay as they are and the new ones
\* follow them, also where they run over the end of the pages.
THEOREM WriteAppends ==
    ASSUME NEW S, NEW pages \in [Offsets -> S], NEW b \in Heads,
           NEW bytes \in Seq(S), Len(bytes) <= write_space_left(b)
    PROVE  Unread(Written(pages, b, bytes), advance_write(b, Len(bytes)))
               = Unread(pages, b) \o bytes
<1> DEFINE n == Len(bytes)
           r == read_space_left(b)
           new == Written(pages, b, bytes)
           b2 == advance_write(b, n)
<1>1. n \in 0 .. write_space_left(b) /\ r \in 0 .. aligned_capacity_ - 1
      /\ r + n <= aligned_capacity_ - 1
  BY SpacesAddUp, CapacityAssumption DEF write_space_left
<1>2. read_space_left(b2) = r + n
  BY <1>1, AdvanceWriteAdds
<1>3. b2.read_head_ = b.read_head_
  BY DEF advance_write, Heads
<1>4. Unread(new, b2) = [k \in 1 .. r + n |-> new[PageOffset(b.read_head_ + k - 1)]]
  BY <1>2, <1>3 DEF Unread
<1>5. ASSUME NEW k \in 1 .. r
      PROVE  new[PageOffset(b.read_head_ + k - 1)] = pages[PageOffset(b.read_head_ + k - 1)]
  <2> DEFINE o == PageOffset(b.read_head_ + k - 1)
  <2>1. o \in Offsets /\ ~ (FromWriteHead(b, o) < n)
    BY <1>1, FromReadToWrite, CapacityAssumption
  <2> HIDE DEF o
  <2>2. new[o] = pages[o]
    BY <2>1 DEF Written
  <2> QED BY <2>2 DEF o
<1>6. ASSUME NEW k \in r + 1 .. r + n
      PROVE  new[PageOffset(b.read_head_ + k - 1)] = bytes[k - r]
  <2> DEFINE o == PageOffset(b.read_head_ + k - 1)
  <2>1. o \in Offsets /\ FromWriteHead(b, o) = k - 1 - r
    BY <1>1, FromReadToWrite, CapacityAssumption
  <2>2. k - 1 - r < n /\ k - 1 - r + 1 = k - r
    BY <1>1
  <2> HIDE DEF o, r
  <2>3. new[o] = bytes[k - 1 - r + 1]
    BY <2>1, <2>2 DEF Written
  <2> QED BY <2>2, <2>3 DEF o
<1>7. ASSUME NEW k \in 1 .. r
      PROVE  pages[PageOffset(b.read_head_ + k - 1)] \in S
  BY <1>1, CapacityAssumption DEF PageOffset, Heads, Offsets
<1>8. Unread(pages, b) \in Seq(S) /\ Len(Unread(pages, b)) = r
  BY <1>1, <1>7 DEF Unread
<1>9. Unread(pages, b) \o bytes =
        [k \in 1 .. r + n |-> IF k <= r THEN Unread(pages, b)[k] ELSE bytes[k - r]]
  BY <1>8, Concatenation
<1>10. ASSUME NEW k \in 1 .. r + n
       PROVE  new[PageOffset(b.read_head_ + k - 1)] =
                IF k <= r THEN Unread(pages, b)[k] ELSE bytes[k - r]
  <2>1. CASE k <= r
    BY <1>5, <2>1, <1>1 DEF Unread
  <2>2. CASE ~ (k <= r)
    BY <1>6, <2>2, <1>1
  <2> QED BY <2>1, <2>2
<1> HIDE DEF n, r, new, b2
<1>11. [k \in 1 .. r + n |-> new[PageOffset(b.read_head_ + k - 1)]] =
       [k \in 1 .. r + n |-> IF k <= r THEN Unread(pages, b)[k] ELSE bytes[k - r]]
  BY <1>10
<1> QED BY <1>4, <1>9, <1>11 DEF n, r, new, b2

\* advance_read() of what the handler has read drops it from the front and
\* leaves the rest as it was.
THEOREM ReadDropsFront ==
    ASSUME NEW pages, NEW b \in Heads, NEW n \in 0 .. read_space_left(b)
    PROVE  Unread(pages, advance_read(b, n)) =
               [k \in 1 .. read_space_left(b) - n |-> Unread(pages, b)[k + n]]
<1> DEFINE r == read_space_left(b)
           b2 == advance_read(b, n)
<1>1. r \in 0 .. aligned_capacity_ - 1
  BY SpacesAddUp
<1>2. read_space_left(b2) = r - n
  BY AdvanceReadTakes
<1>3. ASSUME NEW k \in 1 .. r - n
      PROVE  PageOffset(b2.read_head_ + k - 1) = PageOffset(b.read_head_ + (k + n) - 1)
  BY <1>1, CapacityAssumption DEF PageOffset, Heads, Offsets, advance_read, Advance
<1>4. ASSUME NEW k \in 1 .. r - n
      PROVE  Unread(pages, b)[k + n] = pages[PageOffset(b.read_head_ + (k + n) - 1)]
  BY <1>1 DEF Unread
<1> HIDE DEF r, b2
<1>5. Unread(pages, b2) = [k \in 1 .. r - n |-> Unread(pages, b)[k + n]]
  BY <1>2, <1>3, <1>4 DEF Unread
<1> QED BY <1>5 DEF r, b2
=============================================================================
