------------------------------ MODULE SPSCQueue ------------------------------
(***************************************************************************)
(* utils::SPSCQueue<T, Size> (src/utils/spscqueue.h), the lock-free ring   *)
(* between one producer thread and one consumer thread.  push() and pop()  *)
(* are split at every access to shared memory, so the two calls interleave *)
(* the way the two pinned threads really do:                               *)
(*                                                                         *)
(*   "idle"    -> call, compare with the cached index of the other side    *)
(*   "refresh" -> acquire load of the other side's index                   *)
(*   "access"  -> plain store to (load from) the slot                      *)
(*   "publish" -> release store of the own index, return true              *)
(*                                                                         *)
(* The memory orders are modelled by what they allow.  A thread always     *)
(* sees its own index exactly (the relaxed loads).  An acquire load of the *)
(* other index returns ANY value published since the one it saw last, not  *)
(* just the newest: Visible below.                                         *)
(***************************************************************************)
EXTENDS Naturals, Sequences

CONSTANTS
    Size,       \* number of slots; a power of two, see SizeAssumption
    Values,     \* elements the producer pushes
    NoValue     \* content of a slot or register that was never written

\* static_assert((Size & (Size - 1)) == 0): the code admits powers of two
\* only, for which  i & (Size - 1)  is  i % Size.  Nothing below depends on
\* more than Size being positive.
ASSUME SizeAssumption == Size \in Nat \ {0}

ASSUME NoValueAssumption == NoValue \notin Values

VARIABLES
    tail_,          \* producer_.tail_: next slot to write
    cached_head_,   \* producer_.cached_head_: the head_ the producer saw last
    head_,          \* consumer_.head_: next slot to read
    cached_tail_,   \* consumer_.cached_tail_: the tail_ the consumer saw last
    data_,          \* data_[Size]
    pushPc, input,  \* where the producer is in push(), and its argument
    popPc, output,  \* where the consumer is in pop(), and its out parameter
    accepted,       \* argument of the last push that returned true
    delivered       \* value the last successful pop returned

producerVars == <<tail_, cached_head_, pushPc, input, accepted>>
consumerVars == <<head_, cached_tail_, popPc, output, delivered>>
vars == <<producerVars, consumerVars, data_>>

Slots == 0 .. Size - 1

\* (idx + 1) & (Size - 1)
NextIdx(idx) == (idx + 1) % Size

\* Number of increments from index a to index b.
Dist(a, b) == IF a <= b THEN b - a ELSE b + Size - a

\* What an acquire load may return: any index stored since `seen' was.
Visible(seen, newest) == {i \in Slots : Dist(seen, i) <= Dist(seen, newest)}

Init ==
    /\ tail_ = 0 /\ cached_head_ = 0
    /\ head_ = 0 /\ cached_tail_ = 0
    /\ data_ = [i \in Slots |-> NoValue]
    /\ pushPc = "idle" /\ input = NoValue
    /\ popPc = "idle" /\ output = NoValue
    /\ accepted = NoValue /\ delivered = NoValue

-----------------------------------------------------------------------------
(* bool push(T& input), bool push(T&& input): run by the producer.          *)

\* Mutated form: all slots are used, so a full ring looks like an empty one.
PushCall_no_gap(v) ==
    /\ pushPc = "idle"
    /\ input' = v
    /\ pushPc' = IF cached_head_ = tail_ THEN "refresh" ELSE "access"
    /\ UNCHANGED <<tail_, cached_head_, accepted, consumerVars, data_>>

PushCall(v) ==
    /\ pushPc = "idle"
    /\ input' = v
    /\ pushPc' = IF cached_head_ = NextIdx(tail_) THEN "refresh" ELSE "access"
    /\ UNCHANGED <<tail_, cached_head_, accepted, consumerVars, data_>>

\* Mutated form: the fresh index is not compared again.
PushRefresh_no_recheck ==
    /\ pushPc = "refresh"
    /\ cached_head_' \in Visible(cached_head_, head_)
    /\ pushPc' = "access"
    /\ UNCHANGED <<tail_, input, accepted, consumerVars, data_>>

\* Returns false (to "idle") if the ring still looks full.
PushRefresh ==
    /\ pushPc = "refresh"
    /\ cached_head_' \in Visible(cached_head_, head_)
    /\ pushPc' = IF cached_head_' = NextIdx(tail_) THEN "idle" ELSE "access"
    /\ UNCHANGED <<tail_, input, accepted, consumerVars, data_>>

PushStore ==
    /\ pushPc = "access"
    /\ data_' = [data_ EXCEPT ![tail_] = input]
    /\ pushPc' = "publish"
    /\ UNCHANGED <<tail_, cached_head_, input, accepted, consumerVars>>

PushPublish ==
    /\ pushPc = "publish"
    /\ tail_' = NextIdx(tail_)
    /\ accepted' = input
    /\ pushPc' = "idle"
    /\ UNCHANGED <<cached_head_, input, consumerVars, data_>>

-----------------------------------------------------------------------------
(* bool pop(T& output): run by the consumer.                                *)

PopCall ==
    /\ popPc = "idle"
    /\ popPc' = IF head_ = cached_tail_ THEN "refresh" ELSE "access"
    /\ UNCHANGED <<head_, cached_tail_, output, delivered, producerVars, data_>>

\* Mutated form: the fresh index is not compared again.
PopRefresh_no_recheck ==
    /\ popPc = "refresh"
    /\ cached_tail_' \in Visible(cached_tail_, tail_)
    /\ popPc' = "access"
    /\ UNCHANGED <<head_, output, delivered, producerVars, data_>>

\* Mutated form: the fresh index is not kept.
PopRefresh_unsaved ==
    /\ popPc = "refresh"
    /\ popPc' = "idle"
    /\ UNCHANGED <<cached_tail_, head_, output, delivered, producerVars, data_>>

\* Returns false (to "idle") if the ring still looks empty.
PopRefresh ==
    /\ popPc = "refresh"
    /\ cached_tail_' \in Visible(cached_tail_, tail_)
    /\ popPc' = IF head_ = cached_tail_' THEN "idle" ELSE "access"
    /\ UNCHANGED <<head_, output, delivered, producerVars, data_>>

PopLoad ==
    /\ popPc = "access"
    /\ output' = data_[head_]
    /\ popPc' = "publish"
    /\ UNCHANGED <<head_, cached_tail_, delivered, producerVars, data_>>

PopPublish ==
    /\ popPc = "publish"
    /\ head_' = NextIdx(head_)
    /\ delivered' = output
    /\ popPc' = "idle"
    /\ UNCHANGED <<cached_tail_, output, producerVars, data_>>

-----------------------------------------------------------------------------
Push == (\E v \in Values : PushCall(v)) \/ PushRefresh \/ PushStore \/ PushPublish
Pop  == PopCall \/ PopRefresh \/ PopLoad \/ PopPublish
Next == Push \/ Pop

Spec == Init /\ [][Next]_vars

\* The consumer spins on pop() for ever (consume() in main.cpp) and a push()
\* that was called runs to its return.  An atomic store becomes visible to
\* the other thread after a finite time, so a load that is repeated for ever
\* does not return a stale index for ever.
Fairness ==
    /\ WF_vars(Pop)
    /\ WF_vars(PushRefresh \/ PushStore \/ PushPublish)
    /\ SF_vars(PopRefresh /\ cached_tail_' = tail_)

FairSpec == Spec /\ Fairness

-----------------------------------------------------------------------------
PcValues == {"idle", "refresh", "access", "publish"}

\* Indices stay inside the ring and slots hold elements or nothing.
TypeOK ==
    /\ tail_ \in Slots /\ cached_head_ \in Slots
    /\ head_ \in Slots /\ cached_tail_ \in Slots
    /\ data_ \in [Slots -> Values \cup {NoValue}]
    /\ pushPc \in PcValues /\ popPc \in PcValues
    /\ input \in Values \cup {NoValue}
    /\ output \in Values \cup {NoValue}
    /\ accepted \in Values \cup {NoValue}
    /\ delivered \in Values \cup {NoValue}

\* The elements in the ring: the slots from head_ up to, not including, tail_.
Contents == [k \in 1 .. Dist(head_, tail_) |-> data_[(head_ + k - 1) % Size]]

\* The plain accesses to data_ in push() and pop() never touch the same slot
\* at the same time: spscqueue.h:23 and :55 are not a data race.
NoDataRace ==
    ~ (pushPc = "access" /\ popPc = "access" /\ tail_ = head_)

\* What makes the caches safe to use when they are stale.  The producer's
\* copy of head_ never runs ahead of head_, and the consumer's copy of tail_
\* never runs ahead of tail_: a stale copy can only make a thread believe
\* there is LESS room, or fewer elements, than there is.
CachesLagBehind ==
    /\ Dist(cached_head_, head_) <= Dist(cached_head_, tail_)
    /\ Dist(head_, cached_tail_) <= Dist(head_, tail_)

\* Each thread holds what it established at its branches until it returns.
ProducerHasRoom ==
    /\ pushPc = "refresh" => NextIdx(tail_) = cached_head_
    /\ pushPc \in {"access", "publish"} => NextIdx(tail_) # cached_head_
    /\ pushPc # "idle" => input \in Values
    /\ pushPc = "publish" => data_[tail_] = input

ConsumerHasElement ==
    /\ popPc = "refresh" => head_ = cached_tail_
    /\ popPc \in {"access", "publish"} => head_ # cached_tail_
    /\ popPc = "publish" => output = data_[head_]

SlotsWritten ==
    \A i \in Slots : Dist(head_, i) < Dist(head_, tail_) => data_[i] \in Values

\* The inductive invariant behind NoDataRace and the refinement.
IInv ==
    /\ TypeOK
    /\ CachesLagBehind
    /\ ProducerHasRoom
    /\ ConsumerHasElement
    /\ SlotsWritten

\* push() and pop() together implement a bounded FIFO queue: no element is
\* lost, duplicated, reordered, overwritten or read before it is complete,
\* and one slot always stays free.
Fifo == INSTANCE BoundedFifo WITH
            Capacity <- Size - 1,
            queue <- Contents

ImplementsFifo == Fifo!Spec

\* Everything pushed is eventually returned by a pop() of the spinning
\* consumer, although each refresh may see an old tail_.
EventuallyDelivered ==
    \A v \in Values :
        (\E k \in DOMAIN Contents : Contents[k] = v) ~> (delivered = v)
=============================================================================
