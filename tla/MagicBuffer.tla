----------------------------- MODULE MagicBuffer -----------------------------
(***************************************************************************)
(* utils::MagicBuffer (src/utils/MagicBuffer.h): a ring of bytes whose     *)
(* pages are mapped twice, one copy behind the other, so that a read or a  *)
(* write that runs past the end continues at the start.  The buffer is its *)
(* two heads, as offsets from start_; the bytes are a function of the      *)
(* offsets into the one set of pages behind both mappings.                 *)
(***************************************************************************)
EXTENDS Integers, Sequences

CONSTANT aligned_capacity_  \* bytes; the capacity asked for, in whole pages

ASSUME CapacityAssumption == aligned_capacity_ \in Nat \ {0}

Offsets == 0 .. aligned_capacity_ - 1
Heads == [read_head_ : Offsets, write_head_ : Offsets]

\* The constructor, and reset().
Fresh == [read_head_ |-> 0, write_head_ |-> 0]

read_space_left(b) ==
    IF b.write_head_ >= b.read_head_
    THEN b.write_head_ - b.read_head_
    ELSE aligned_capacity_ - (b.read_head_ - b.write_head_)

\* One byte stays free, so that a full buffer does not look empty.
write_space_left(b) == aligned_capacity_ - 1 - read_space_left(b)

\* Mutated form: the head that reaches the second half stays there.
Advance_late(head, bytes) ==
    IF head + bytes > aligned_capacity_ THEN head + bytes - aligned_capacity_ ELSE head + bytes

\* A head that reaches second_half_start_ goes back by the capacity.
Advance(head, bytes) ==
    IF head + bytes >= aligned_capacity_ THEN head + bytes - aligned_capacity_ ELSE head + bytes

advance_write(b, bytes) == [b EXCEPT !.write_head_ = Advance(@, bytes)]
advance_read(b, bytes)  == [b EXCEPT !.read_head_ = Advance(@, bytes)]

\* The offset behind the address start_ + a, for a in either mapping.
PageOffset(a) == IF a >= aligned_capacity_ THEN a - aligned_capacity_ ELSE a

\* How far an offset is from the write head.
FromWriteHead(b, o) ==
    IF o >= b.write_head_ THEN o - b.write_head_ ELSE o + aligned_capacity_ - b.write_head_

\* The pages after the bytes were written at the write head, and what can be
\* read at the read head.
Written(pages, b, bytes) ==
    [o \in Offsets |-> IF FromWriteHead(b, o) < Len(bytes)
                       THEN bytes[FromWriteHead(b, o) + 1] ELSE pages[o]]

Unread(pages, b) ==
    [k \in 1 .. read_space_left(b) |-> pages[PageOffset(b.read_head_ + k - 1)]]
=============================================================================
