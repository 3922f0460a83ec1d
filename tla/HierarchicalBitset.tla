------------------------- MODULE HierarchicalBitset --------------------------
(***************************************************************************)
(* utils::HierarchicalBitset<MAX_TICKS> (src/utils/HierarchicalBitset.h).  *)
(* A machine word is the set of the positions of its one bits, position 0  *)
(* the least significant.  The code's word has W = 64 bits; every shift by *)
(* 6 is a division by W and every mask with 63 a remainder.                *)
(*                                                                         *)
(* The object is one variable, so that the order book can hold two of them *)
(* (INSTANCE ... WITH bitset <- bids_bitset_).                             *)
(***************************************************************************)
EXTENDS Integers, FiniteSetsExt

CONSTANTS
    W,          \* bits in a word (64)
    MAX_TICKS   \* number of price levels

ASSUME WAssumption == W \in Nat \ {0}

\* static_assert(MAX_TICKS <= 262144): three levels of W-bit words suffice.
ASSUME MaxTicksAssumption == MAX_TICKS \in 1 .. W * W * W

VARIABLE bitset     \* [first_level_, second_level_, third_level_]

Ticks == 0 .. MAX_TICKS - 1
L1_SIZE == (MAX_TICKS + W - 1) \div W
L2_SIZE == (L1_SIZE + W - 1) \div W

\* 63 - (idx & 63): lower indices sit in more significant bits.
Bit(idx) == W - 1 - (idx % W)

\* __builtin_clzll and __builtin_ctzll of a word that is not zero.
clzll(word) == W - 1 - Max(word)
ctzll(word) == Min(word)

Empty == [first_level_  |-> [i \in 0 .. L1_SIZE - 1 |-> {}],
          second_level_ |-> [i \in 0 .. L2_SIZE - 1 |-> {}],
          third_level_  |-> {}]

Init == bitset = Empty

\* Mutated form: the middle level is left out.
set_price_level_two_levels(tick_idx) ==
    LET first_level_idx == tick_idx \div W
    IN  bitset' = [bitset EXCEPT
            !.first_level_[first_level_idx] = @ \cup {Bit(tick_idx)},
            !.third_level_ = @ \cup {Bit(first_level_idx \div W)}]

\* Mutated form: the word of the tick is assigned, not or-ed.
set_price_level_overwrites(tick_idx) ==
    LET first_level_idx  == tick_idx \div W
        second_level_idx == first_level_idx \div W
    IN  bitset' = [bitset EXCEPT
            !.first_level_[first_level_idx] = {Bit(tick_idx)},
            !.second_level_[second_level_idx] = @ \cup {Bit(first_level_idx)},
            !.third_level_ = @ \cup {Bit(second_level_idx)}]

set_price_level(tick_idx) ==
    LET first_level_idx  == tick_idx \div W
        second_level_idx == first_level_idx \div W
    IN  bitset' = [bitset EXCEPT
            !.first_level_[first_level_idx] = @ \cup {Bit(tick_idx)},
            !.second_level_[second_level_idx] = @ \cup {Bit(first_level_idx)},
            !.third_level_ = @ \cup {Bit(second_level_idx)}]

clear_price_level(tick_idx) ==
    LET first_level_idx  == tick_idx \div W
        second_level_idx == first_level_idx \div W
        first  == bitset.first_level_[first_level_idx] \ {Bit(tick_idx)}
        second == bitset.second_level_[second_level_idx] \ {Bit(first_level_idx)}
    IN  bitset' = [bitset EXCEPT
            !.first_level_[first_level_idx] = first,
            !.second_level_[second_level_idx] = IF first = {} THEN second ELSE @,
            !.third_level_ = IF first = {} /\ second = {}
                             THEN @ \ {Bit(second_level_idx)} ELSE @]

\* size_t(-1)
NoLevel == -1

get_best_offer ==
    IF bitset.third_level_ = {} THEN NoLevel
    ELSE LET second_level_idx == clzll(bitset.third_level_)
             first_level_idx  == clzll(bitset.second_level_[second_level_idx])
             actual_idx == clzll(bitset.first_level_[first_level_idx + second_level_idx * W])
         IN  actual_idx + first_level_idx * W + second_level_idx * W * W

\* Mutated form: the last step finds the lowest tick of the block.
get_best_bid_lowest ==
    IF bitset.third_level_ = {} THEN NoLevel
    ELSE LET second_level_idx == W - 1 - ctzll(bitset.third_level_)
             first_level_idx  == W - 1 - ctzll(bitset.second_level_[second_level_idx])
             actual_idx == clzll(bitset.first_level_[first_level_idx + second_level_idx * W])
         IN  actual_idx + first_level_idx * W + second_level_idx * W * W

get_best_bid ==
    IF bitset.third_level_ = {} THEN NoLevel
    ELSE LET second_level_idx == W - 1 - ctzll(bitset.third_level_)
             first_level_idx  == W - 1 - ctzll(bitset.second_level_[second_level_idx])
             actual_idx == W - 1 - ctzll(bitset.first_level_[first_level_idx + second_level_idx * W])
         IN  actual_idx + first_level_idx * W + second_level_idx * W * W

Next == \E tick \in Ticks : set_price_level(tick) \/ clear_price_level(tick)

Spec == Init /\ [][Next]_bitset

-----------------------------------------------------------------------------
\* Every word of the three levels has W bits: no shift runs off a word.
TypeOK ==
    bitset \in [first_level_  : [0 .. L1_SIZE - 1 -> SUBSET (0 .. W - 1)],
                second_level_ : [0 .. L2_SIZE - 1 -> SUBSET (0 .. W - 1)],
                third_level_  : SUBSET (0 .. W - 1)]

\* The ticks whose bit is set at the lowest level.
Members == {t \in Ticks : Bit(t) \in bitset.first_level_[t \div W]}

\* A bit of an upper level is set exactly when the word it summarises is not
\* zero; otherwise get_best_bid() would search an empty word (clz and ctz of
\* 0 are undefined) or miss a level.  No bit stands for a word or tick that
\* does not exist.
SummariesAgree ==
    /\ \A i \in 0 .. L1_SIZE - 1 :
          Bit(i) \in bitset.second_level_[i \div W] <=> bitset.first_level_[i] # {}
    /\ \A j \in 0 .. L2_SIZE - 1 :
          Bit(j) \in bitset.third_level_ <=> bitset.second_level_[j] # {}
    /\ \A i \in 0 .. W * L1_SIZE - 1 :
          i >= MAX_TICKS => Bit(i) \notin bitset.first_level_[i \div W]
    /\ \A i \in 0 .. W * L2_SIZE - 1 :
          i >= L1_SIZE => Bit(i) \notin bitset.second_level_[i \div W]
    /\ \A j \in L2_SIZE .. W - 1 : Bit(j) \notin bitset.third_level_

Levels == INSTANCE PriceLevelSet WITH levels <- Members

\* set_price_level() and clear_price_level() are insertion into and removal
\* from a set of ticks, and touch no other tick.
ImplementsSet == Levels!Spec

\* The three-step searches return the extremes of that set.
BestPricesCorrect ==
    /\ get_best_bid = Levels!BestBid
    /\ get_best_offer = Levels!BestOffer
=============================================================================
