--------------------------- MODULE SPSCQueueProofs ---------------------------
(***************************************************************************)
(* Proofs about SPSCQueue for every Size and every set of Values: the      *)
(* inductive invariant, the absence of data races on the slots, and the    *)
(* refinement of BoundedFifo.                                              *)
(***************************************************************************)
EXTENDS SPSCQueue, SequenceTheorems, TLAPS

\* idx + k wraps around at most once, so its remainder is a subtraction.
LEMMA Wrap ==
    ASSUME NEW i \in Slots, NEW k \in 0 .. Size
    PROVE  (i + k) % Size = IF i + k < Size THEN i + k ELSE i + k - Size
<1>1. Size \in Nat /\ Size > 0  BY SizeAssumption
<1>2. CASE i + k < Size  BY <1>1, <1>2 DEF Slots
<1>3. CASE i + k >= Size
  <2>1. i + k - Size \in 0 .. Size - 1  BY <1>1, <1>3 DEF Slots
  <2>2. i + k = 1 * Size + (i + k - Size)  BY <1>1 DEF Slots
  <2> QED  BY <1>1, <2>1, <2>2, <1>3 DEF Slots
<1> QED  BY <1>1, <1>2, <1>3 DEF Slots

\* (idx + 1) & (Size - 1) is again a slot, and is the increment with wrap.
LEMMA NextIdxWraps ==
    ASSUME NEW i \in Slots
    PROVE  /\ NextIdx(i) \in Slots
           /\ NextIdx(i) = IF i + 1 = Size THEN 0 ELSE i + 1
<1>1. Size \in Nat /\ Size > 0  BY SizeAssumption
<1>2. 1 \in 0 .. Size  BY <1>1
<1>3. NextIdx(i) = IF i + 1 < Size THEN i + 1 ELSE i + 1 - Size
  BY <1>2, Wrap DEF NextIdx
<1> QED  BY <1>1, <1>3 DEF Slots

\* Two slots are less than once round the ring apart.
LEMMA DistBounds ==
    ASSUME NEW a \in Slots, NEW b \in Slots
    PROVE  Dist(a, b) \in 0 .. Size - 1 /\ (Dist(a, b) = 0 <=> a = b)
BY SizeAssumption DEF Slots, Dist

\* Advancing the far end of a stretch of slots by one makes it one longer.
LEMMA DistGrows ==
    ASSUME NEW a \in Slots, NEW b \in Slots, NextIdx(b) # a
    PROVE  Dist(a, NextIdx(b)) = Dist(a, b) + 1
BY SizeAssumption, NextIdxWraps DEF Slots, Dist

\* Advancing the near end makes it one shorter.
LEMMA DistShrinks ==
    ASSUME NEW a \in Slots, NEW b \in Slots, a # b
    PROVE  Dist(NextIdx(a), b) = Dist(a, b) - 1
BY SizeAssumption, NextIdxWraps DEF Slots, Dist

\* An index that lies between `seen' and `newest' leaves `newest' between
\* itself and `far': refreshing a cached index keeps the order of indices.
LEMMA DistRefresh ==
    ASSUME NEW seen \in Slots, NEW newest \in Slots, NEW far \in Slots, NEW i \in Slots,
           Dist(seen, newest) <= Dist(seen, far),
           Dist(seen, i) <= Dist(seen, newest)
    PROVE  Dist(i, newest) <= Dist(i, far)
BY SizeAssumption DEF Slots, Dist

\* If m lies strictly between `from' and `to', so does m + 1 or it is `to'.
LEMMA DistStep ==
    ASSUME NEW from \in Slots, NEW m \in Slots, NEW to \in Slots, m # to,
           Dist(from, m) <= Dist(from, to)
    PROVE  Dist(from, NextIdx(m)) <= Dist(from, to)
BY SizeAssumption, NextIdxWraps DEF Slots, Dist

\* While the producer has a free slot by its stale cache, it really has one;
\* while the consumer has an element by its stale cache, it really has one.
LEMMA StaleIsSafe ==
    ASSUME IInv
    PROVE  /\ pushPc \in {"access", "publish"} => NextIdx(tail_) # head_
           /\ popPc \in {"access", "publish"} => head_ # tail_
<1> USE DEF IInv, TypeOK
<1>1. ASSUME pushPc \in {"access", "publish"}, NextIdx(tail_) = head_  PROVE FALSE
  <2>1. NextIdx(tail_) # cached_head_  BY <1>1 DEF ProducerHasRoom
  <2>2. Dist(cached_head_, NextIdx(tail_)) = Dist(cached_head_, tail_) + 1
    BY <2>1, DistGrows
  <2>3. Dist(cached_head_, tail_) \in Nat  BY DistBounds, SizeAssumption
  <2> QED  BY <1>1, <2>2, <2>3 DEF CachesLagBehind
<1>2. ASSUME popPc \in {"access", "publish"}, head_ = tail_  PROVE FALSE
  <2>1. Dist(head_, cached_tail_) <= 0
    BY <1>2, DistBounds DEF CachesLagBehind
  <2>2. Dist(head_, cached_tail_) \in Nat /\ Dist(head_, cached_tail_) # 0
    BY <1>2, DistBounds, SizeAssumption DEF ConsumerHasElement
  <2> QED  BY <2>1, <2>2
<1> QED  BY <1>1, <1>2

-----------------------------------------------------------------------------
\* The constructor establishes the invariant.
LEMMA InitIInv == Init => IInv
<1> SUFFICES ASSUME Init PROVE IInv  OBVIOUS
<1>1. 0 \in Slots  BY SizeAssumption DEF Slots
<1>2. TypeOK  BY <1>1 DEF Init, TypeOK, PcValues
<1>3. \A i \in Slots : ~ (Dist(0, i) < Dist(0, 0))
  BY SizeAssumption DEF Dist, Slots
<1> QED
  BY <1>1, <1>2, <1>3 DEF Init, IInv, CachesLagBehind, ProducerHasRoom,
     ConsumerHasElement, SlotsWritten, Dist

\* Every step of push() and pop() preserves the inductive invariant: one
\* case per step of either call.
LEMMA NextIInv == IInv /\ [Next]_vars => IInv'
<1> SUFFICES ASSUME IInv, [Next]_vars PROVE IInv'  OBVIOUS
<1> USE DEF PcValues
<1>0. Size \in Nat /\ Size > 0  BY SizeAssumption
<1>t. TypeOK /\ CachesLagBehind /\ ProducerHasRoom /\ ConsumerHasElement /\ SlotsWritten
  BY DEF IInv
<1>n. /\ NextIdx(tail_) \in Slots
      /\ NextIdx(tail_) = IF tail_ + 1 = Size THEN 0 ELSE tail_ + 1
      /\ NextIdx(head_) \in Slots
      /\ NextIdx(head_) = IF head_ + 1 = Size THEN 0 ELSE head_ + 1
  BY <1>t, NextIdxWraps DEF TypeOK
<1>1. ASSUME NEW v \in Values, PushCall(v) PROVE IInv'
  <2>1. UNCHANGED <<tail_, cached_head_, head_, cached_tail_, data_, popPc, output, accepted, delivered>>
    BY <1>1 DEF PushCall, consumerVars
  <2>2. NextIdx(tail_)' = NextIdx(tail_)  BY <2>1 DEF NextIdx
  <2>3. TypeOK'  BY <1>t, <1>1, <2>1 DEF TypeOK, PushCall
  <2>4. ProducerHasRoom'  BY <1>1, <2>1, <2>2 DEF PushCall, ProducerHasRoom
  <2>5. CachesLagBehind' /\ ConsumerHasElement' /\ SlotsWritten'
    BY <1>t, <2>1 DEF CachesLagBehind, ConsumerHasElement, SlotsWritten, Dist
  <2> QED  BY <2>3, <2>4, <2>5 DEF IInv
<1>2. CASE PushRefresh
  <2>1. UNCHANGED <<tail_, head_, cached_tail_, data_, input, popPc, output, accepted, delivered>>
    BY <1>2 DEF PushRefresh, consumerVars
  <2>2. NextIdx(tail_)' = NextIdx(tail_)  BY <2>1 DEF NextIdx
  <2>3. cached_head_' \in Slots /\ Dist(cached_head_, cached_head_') <= Dist(cached_head_, head_)
    BY <1>2 DEF PushRefresh, Visible
  <2>4. TypeOK'  BY <1>t, <1>2, <2>1, <2>3 DEF TypeOK, PushRefresh
  <2>5. input \in Values
    BY <1>t, <1>2 DEF ProducerHasRoom, PushRefresh
  <2>6. ProducerHasRoom'  BY <1>2, <2>1, <2>2, <2>5 DEF PushRefresh, ProducerHasRoom
  <2>7. CachesLagBehind'
    <3>1. Dist(cached_head_', head_) <= Dist(cached_head_', tail_)
      BY <1>t, <2>3, DistRefresh DEF CachesLagBehind, TypeOK
    <3> QED  BY <1>t, <2>1, <3>1 DEF CachesLagBehind, Dist
  <2>8. ConsumerHasElement' /\ SlotsWritten'
    BY <1>t, <2>1 DEF ConsumerHasElement, SlotsWritten, Dist
  <2> QED  BY <2>4, <2>6, <2>7, <2>8 DEF IInv
<1>3. CASE PushStore
  <2>1. UNCHANGED <<tail_, cached_head_, head_, cached_tail_, input, popPc, output, accepted, delivered>>
    BY <1>3 DEF PushStore, consumerVars
  <2>2. NextIdx(tail_)' = NextIdx(tail_)  BY <2>1 DEF NextIdx
  <2>3. input \in Values /\ pushPc = "access" /\ pushPc' = "publish" /\ NextIdx(tail_) # cached_head_
    BY <1>t, <1>3 DEF ProducerHasRoom, PushStore
  <2>4. data_' = [data_ EXCEPT ![tail_] = input]  BY <1>3 DEF PushStore
  <2>5. TypeOK'  BY <1>t, <2>1, <2>3, <2>4 DEF TypeOK
  <2>6. ProducerHasRoom'
    BY <1>t, <2>1, <2>2, <2>3, <2>4 DEF ProducerHasRoom, TypeOK
  <2>7. CachesLagBehind'  BY <1>t, <2>1 DEF CachesLagBehind, Dist
  <2>8. ConsumerHasElement'
    <3>1. popPc = "publish" => data_'[head_] = data_[head_]
      BY <1>t, <2>4, StaleIsSafe DEF TypeOK
    <3> QED  BY <1>t, <2>1, <3>1 DEF ConsumerHasElement
  <2>9. SlotsWritten'
    BY <1>t, <2>1, <2>3, <2>4 DEF SlotsWritten, Dist, TypeOK
  <2> QED  BY <2>5, <2>6, <2>7, <2>8, <2>9 DEF IInv
<1>4. CASE PushPublish
  <2>1. UNCHANGED <<cached_head_, head_, cached_tail_, data_, input, popPc, output, delivered>>
    BY <1>4 DEF PushPublish, consumerVars
  <2>2. /\ pushPc = "publish" /\ pushPc' = "idle" /\ input \in Values
        /\ data_[tail_] = input /\ NextIdx(tail_) # cached_head_
        /\ tail_' = NextIdx(tail_) /\ accepted' = input
    BY <1>t, <1>4 DEF ProducerHasRoom, PushPublish
  <2>3. NextIdx(tail_) # head_  BY <2>2, StaleIsSafe
  <2>4. TypeOK'  BY <1>t, <1>n, <2>1, <2>2 DEF TypeOK
  <2>5. ProducerHasRoom'  BY <2>2 DEF ProducerHasRoom
  <2>6. ConsumerHasElement'  BY <1>t, <2>1 DEF ConsumerHasElement
  <2>7. /\ Dist(cached_head_, tail_') = Dist(cached_head_, tail_) + 1
        /\ Dist(head_, tail_') = Dist(head_, tail_) + 1
    BY <1>t, <2>2, <2>3, DistGrows DEF TypeOK
  <2>8. CachesLagBehind'
    <3>1. /\ Dist(cached_head_, head_) <= Dist(cached_head_, tail_')
          /\ Dist(head_, cached_tail_) <= Dist(head_, tail_')
      BY <1>0, <1>t, <2>7, DistBounds DEF TypeOK, CachesLagBehind
    <3> QED  BY <2>1, <3>1 DEF CachesLagBehind, Dist
  <2>9. SlotsWritten'
    <3>1. ASSUME NEW i \in Slots, Dist(head_, i) < Dist(head_, tail_')
          PROVE  data_[i] \in Values
      <4>1. CASE Dist(head_, i) < Dist(head_, tail_)
        BY <1>t, <4>1 DEF SlotsWritten
      <4>2. CASE Dist(head_, i) = Dist(head_, tail_)
        <5>1. i = tail_  BY <1>0, <1>t, <4>2 DEF TypeOK, Dist, Slots
        <5> QED  BY <2>2, <5>1
      <4> QED  BY <1>0, <1>t, <2>7, <3>1, <4>1, <4>2, DistBounds DEF TypeOK
    <3> QED  BY <2>1, <3>1 DEF SlotsWritten, Dist
  <2> QED  BY <2>4, <2>5, <2>6, <2>8, <2>9 DEF IInv
<1>5. CASE PopCall
  <2>1. UNCHANGED <<tail_, cached_head_, head_, cached_tail_, data_, pushPc, input, output, accepted, delivered>>
    BY <1>5 DEF PopCall, producerVars
  <2>2. NextIdx(tail_)' = NextIdx(tail_)  BY <2>1 DEF NextIdx
  <2>3. TypeOK'  BY <1>t, <1>5, <2>1 DEF TypeOK, PopCall
  <2>4. ConsumerHasElement'  BY <1>5, <2>1 DEF PopCall, ConsumerHasElement
  <2>5. CachesLagBehind' /\ ProducerHasRoom' /\ SlotsWritten'
    BY <1>t, <2>1, <2>2 DEF CachesLagBehind, ProducerHasRoom, SlotsWritten, Dist
  <2> QED  BY <2>3, <2>4, <2>5 DEF IInv
<1>6. CASE PopRefresh
  <2>1. UNCHANGED <<tail_, cached_head_, head_, data_, pushPc, input, output, accepted, delivered>>
    BY <1>6 DEF PopRefresh, producerVars
  <2>2. NextIdx(tail_)' = NextIdx(tail_)  BY <2>1 DEF NextIdx
  <2>3. cached_tail_ = head_  BY <1>t, <1>6 DEF ConsumerHasElement, PopRefresh
  <2>4. cached_tail_' \in Slots /\ Dist(head_, cached_tail_') <= Dist(head_, tail_)
    BY <1>6, <2>3 DEF PopRefresh, Visible
  <2>5. TypeOK'  BY <1>t, <1>6, <2>1, <2>4 DEF TypeOK, PopRefresh
  <2>6. ConsumerHasElement'  BY <1>6, <2>1 DEF PopRefresh, ConsumerHasElement
  <2>7. CachesLagBehind'  BY <1>t, <2>1, <2>4 DEF CachesLagBehind, Dist
  <2>8. ProducerHasRoom' /\ SlotsWritten'
    BY <1>t, <2>1, <2>2 DEF ProducerHasRoom, SlotsWritten, Dist
  <2> QED  BY <2>5, <2>6, <2>7, <2>8 DEF IInv
<1>7. CASE PopLoad
  <2>1. UNCHANGED <<tail_, cached_head_, head_, cached_tail_, data_, pushPc, input, accepted, delivered>>
    BY <1>7 DEF PopLoad, producerVars
  <2>2. NextIdx(tail_)' = NextIdx(tail_)  BY <2>1 DEF NextIdx
  <2>3. TypeOK'  BY <1>t, <1>7, <2>1 DEF TypeOK, PopLoad
  <2>4. ConsumerHasElement'
    BY <1>t, <1>7, <2>1 DEF PopLoad, ConsumerHasElement
  <2>5. CachesLagBehind' /\ ProducerHasRoom' /\ SlotsWritten'
    BY <1>t, <2>1, <2>2 DEF CachesLagBehind, ProducerHasRoom, SlotsWritten, Dist
  <2> QED  BY <2>3, <2>4, <2>5 DEF IInv
<1>8. CASE PopPublish
  <2>1. UNCHANGED <<tail_, cached_head_, cached_tail_, data_, pushPc, input, output, accepted>>
    BY <1>8 DEF PopPublish, producerVars
  <2>2. popPc = "publish" /\ popPc' = "idle" /\ head_' = NextIdx(head_) /\ delivered' = output
    BY <1>8 DEF PopPublish
  <2>3. head_ # tail_ /\ head_ # cached_tail_
    BY <1>t, <2>2, StaleIsSafe DEF ConsumerHasElement
  <2>4. TypeOK'  BY <1>t, <1>n, <2>1, <2>2 DEF TypeOK
  <2>5. ConsumerHasElement'  BY <2>2 DEF ConsumerHasElement
  <2>6. NextIdx(tail_)' = NextIdx(tail_)  BY <2>1 DEF NextIdx
  <2>7. ProducerHasRoom'  BY <1>t, <2>1, <2>6 DEF ProducerHasRoom
  <2>8. /\ Dist(head_', cached_tail_) = Dist(head_, cached_tail_) - 1
        /\ Dist(head_', tail_) = Dist(head_, tail_) - 1
    BY <1>t, <2>2, <2>3, DistShrinks DEF TypeOK
  <2>9. CachesLagBehind'
    <3>1. Dist(cached_head_, head_') <= Dist(cached_head_, tail_)
      BY <1>t, <2>2, <2>3, DistStep DEF TypeOK, CachesLagBehind
    <3>2. Dist(head_', cached_tail_) <= Dist(head_', tail_)
      BY <1>0, <1>t, <2>8, DistBounds DEF TypeOK, CachesLagBehind
    <3> QED  BY <2>1, <3>1, <3>2 DEF CachesLagBehind, Dist
  <2>10. SlotsWritten'
    <3>1. ASSUME NEW i \in Slots, Dist(head_', i) < Dist(head_', tail_)
          PROVE  data_[i] \in Values
      <4>1. Dist(head_, i) < Dist(head_, tail_)
        BY <1>0, <1>t, <1>n, <2>2, <2>3, <3>1 DEF TypeOK, Dist, Slots
      <4> QED  BY <1>t, <4>1 DEF SlotsWritten
    <3> QED  BY <2>1, <3>1 DEF SlotsWritten, Dist
  <2> QED  BY <2>4, <2>5, <2>7, <2>9, <2>10 DEF IInv
<1>9. CASE UNCHANGED vars
  <2>1. UNCHANGED <<tail_, cached_head_, head_, cached_tail_, data_, pushPc, input, popPc, output, accepted, delivered>>
    BY <1>9 DEF vars, producerVars, consumerVars
  <2>2. NextIdx(tail_)' = NextIdx(tail_)  BY <2>1 DEF NextIdx
  <2> QED
    BY <1>t, <2>1, <2>2 DEF IInv, TypeOK, CachesLagBehind, ProducerHasRoom,
       ConsumerHasElement, SlotsWritten, Dist
<1> QED  BY <1>1, <1>2, <1>3, <1>4, <1>5, <1>6, <1>7, <1>8, <1>9 DEF Next, Push, Pop

\* The inductive invariant holds in every reachable state, for every Size.
\* Its first conjunct is the type invariant TypeOK.
THEOREM Invariance == Spec => []IInv
BY InitIInv, NextIInv, PTL DEF Spec

\* push() and pop() never access the same slot at the same time: a producer
\* about to store and a consumer about to load are at different indices.
THEOREM RaceFreedom == Spec => []NoDataRace
<1>1. ASSUME IInv PROVE NoDataRace
  BY <1>1, StaleIsSafe DEF NoDataRace
<1> QED  BY <1>1, Invariance, PTL

-----------------------------------------------------------------------------
(* Sequences given element by element.                                      *)

\* A sequence is an Append, if it is one longer and agrees below.
LEMMA IsAppend ==
    ASSUME NEW S, NEW s \in Seq(S), NEW x \in S, NEW t \in Seq(S),
           Len(t) = Len(s) + 1,
           \A k \in 1 .. Len(s) : t[k] = s[k],
           t[Len(s) + 1] = x
    PROVE  t = Append(s, x)
<1>1. Len(s) \in Nat  OBVIOUS
<1>2. \A k \in 1 .. Len(t) : t[k] = Append(s, x)[k]
  <2>1. \A k \in 1 .. Len(t) : k \in 1 .. Len(s) \/ k = Len(s) + 1  BY <1>1
  <2> QED  BY <2>1, AppendProperties
<1> QED  BY <1>2, AppendProperties, SeqEqual

\* A sequence is a Tail, if it is one shorter and agrees one place on.
LEMMA IsTail ==
    ASSUME NEW S, NEW s \in Seq(S), s # <<>>, NEW t \in Seq(S),
           Len(t) = Len(s) - 1,
           \A k \in 1 .. Len(s) - 1 : t[k] = s[k + 1]
    PROVE  t = Tail(s)
<1>1. \A k \in 1 .. Len(t) : t[k] = Tail(s)[k]  BY HeadTailProperties
<1> QED  BY <1>1, HeadTailProperties, SeqEqual

-----------------------------------------------------------------------------
(* The refinement of BoundedFifo.                                           *)

\* The slot that holds the k-th element, without the remainder.
LEMMA ContentsAt ==
    ASSUME IInv, NEW k \in 1 .. Dist(head_, tail_)
    PROVE  /\ (head_ + k - 1) % Size \in Slots
           /\ (head_ + k - 1) % Size =
                  IF head_ + k - 1 < Size THEN head_ + k - 1 ELSE head_ + k - 1 - Size
           /\ (head_ + k - 1) % Size # tail_
           /\ Contents[k] = data_[(head_ + k - 1) % Size]
           /\ Contents[k] \in Values
<1> DEFINE i == (head_ + k - 1) % Size
<1>1. head_ \in Slots /\ tail_ \in Slots /\ Dist(head_, tail_) \in 0 .. Size - 1
  BY DistBounds DEF IInv, TypeOK
<1>2. k - 1 \in 0 .. Size /\ k \in Nat /\ Size \in Nat  BY <1>1, SizeAssumption
<1>3. head_ + (k - 1) = head_ + k - 1  BY <1>1, <1>2 DEF Slots
<1>4. i = IF head_ + k - 1 < Size THEN head_ + k - 1 ELSE head_ + k - 1 - Size
  BY <1>1, <1>2, <1>3, Wrap
<1> HIDE DEF i
<1>5. i \in Slots /\ Dist(head_, i) = k - 1
  BY <1>1, <1>2, <1>4 DEF Slots, Dist
<1>6. i # tail_  BY <1>1, <1>2, <1>5
<1>7. Contents[k] = data_[i]  BY DEF Contents, i
<1>8. data_[i] \in Values
  BY <1>1, <1>2, <1>5 DEF IInv, SlotsWritten
<1> QED  BY <1>4, <1>5, <1>6, <1>7, <1>8 DEF i

\* The contents are values, one for each slot between head_ and tail_.
LEMMA ContentsType ==
    ASSUME IInv
    PROVE  /\ Contents \in Seq(Values)
           /\ Len(Contents) = Dist(head_, tail_)
           /\ Dist(head_, tail_) \in 0 .. Size - 1
           /\ DOMAIN Contents = 1 .. Dist(head_, tail_)
<1>1. Dist(head_, tail_) \in 0 .. Size - 1  BY DistBounds DEF IInv, TypeOK
<1>2. Dist(head_, tail_) \in Nat  BY <1>1, SizeAssumption
<1>3. Contents \in [1 .. Dist(head_, tail_) -> Values]
  <2>1. \A k \in 1 .. Dist(head_, tail_) : data_[(head_ + k - 1) % Size] \in Values
    BY ContentsAt
  <2> QED  BY <2>1 DEF Contents
<1> QED  BY <1>1, <1>2, <1>3

\* Storing an element in its slot does not show until tail_ is published.
LEMMA StoreIsInvisible ==
    ASSUME IInv, PushStore
    PROVE  Contents' = Contents
<1>1. head_' = head_ /\ tail_' = tail_ /\ data_' = [data_ EXCEPT ![tail_] = input]
  BY DEF PushStore, consumerVars
<1>2. \A k \in 1 .. Dist(head_, tail_) :
        data_'[(head_ + k - 1) % Size] = data_[(head_ + k - 1) % Size]
  BY <1>1, ContentsAt DEF IInv, TypeOK
<1>3. Dist(head_, tail_)' = Dist(head_, tail_)  BY <1>1 DEF Dist
<1>4. Contents' = [k \in 1 .. Dist(head_, tail_) |-> data_'[(head_ + k - 1) % Size]]
  BY <1>1, <1>3 DEF Contents
<1> QED  BY <1>2, <1>4 DEF Contents

\* Publishing tail_ appends the pushed element, and there was room for it.
LEMMA PublishEnqueues ==
    ASSUME IInv, PushPublish
    PROVE  Fifo!Enqueue(input) /\ input \in Values
<1> DEFINE n == Dist(head_, tail_)
<1>0. Size \in Nat /\ Size > 0  BY SizeAssumption
<1>1. /\ head_' = head_ /\ data_' = data_ /\ tail_' = NextIdx(tail_)
      /\ accepted' = input /\ delivered' = delivered
      /\ data_[tail_] = input /\ input \in Values
  BY DEF PushPublish, consumerVars, IInv, ProducerHasRoom
<1>2. NextIdx(tail_) # head_ /\ head_ \in Slots /\ tail_ \in Slots
  BY StaleIsSafe DEF PushPublish, IInv, TypeOK
<1>3. Dist(head_, NextIdx(tail_)) = n + 1  BY <1>2, DistGrows
<1>4. NextIdx(tail_) \in Slots  BY <1>2, NextIdxWraps
<1>5. n + 1 <= Size - 1 /\ n \in Nat /\ n < Size - 1
  BY <1>0, <1>2, <1>3, <1>4, DistBounds
<1>6. Contents \in Seq(Values) /\ Len(Contents) = n  BY ContentsType
<1>7. (head_ + (n + 1) - 1) % Size = tail_
  <2>1. n \in 0 .. Size /\ head_ + n = head_ + (n + 1) - 1
    BY <1>0, <1>2, <1>5 DEF Slots
  <2>2. (head_ + n) % Size = IF head_ + n < Size THEN head_ + n ELSE head_ + n - Size
    BY <1>2, <2>1, Wrap
  <2>3. (head_ + n) % Size = tail_  BY <1>0, <1>2, <2>2 DEF Slots, Dist
  <2> QED  BY <2>1, <2>3
<1>8. Contents' = [k \in 1 .. n + 1 |-> data_[(head_ + k - 1) % Size]]
  <2>1. Dist(head_, tail_)' = n + 1  BY <1>1, <1>3 DEF Dist
  <2> QED  BY <1>1, <2>1 DEF Contents
<1>9. Contents' = Append(Contents, input)
  <2> DEFINE c == [k \in 1 .. n + 1 |-> data_[(head_ + k - 1) % Size]]
  <2>1. \A k \in 1 .. n : c[k] = Contents[k]
    BY <1>5 DEF Contents
  <2>2. c[n + 1] = input  BY <1>1, <1>5, <1>7
  <2>3. \A k \in 1 .. n + 1 : c[k] \in Values
    <3>1. \A k \in 1 .. n : Contents[k] \in Values  BY <1>6
    <3>2. \A k \in 1 .. n + 1 : k \in 1 .. n \/ k = n + 1  BY <1>5
    <3> HIDE DEF c, n
    <3> QED  BY <1>1, <2>1, <2>2, <3>1, <3>2
  <2>4. c \in [1 .. n + 1 -> Values]  BY <2>3
  <2> HIDE DEF n, c
  <2>5. c \in Seq(Values) /\ Len(c) = n + 1  BY <1>5, <2>4
  <2>6. c = Append(Contents, input)  BY <1>1, <1>6, <2>1, <2>2, <2>5, IsAppend
  <2> QED  BY <1>8, <2>6 DEF c
<1> QED  BY <1>1, <1>5, <1>6, <1>9 DEF Fifo!Enqueue

\* Publishing head_ removes the oldest element, and that is what pop() gave.
LEMMA PublishDequeues ==
    ASSUME IInv, PopPublish
    PROVE  Fifo!Dequeue
<1> DEFINE n == Dist(head_, tail_)
<1>0. Size \in Nat /\ Size > 0  BY SizeAssumption
<1>1. /\ tail_' = tail_ /\ data_' = data_ /\ head_' = NextIdx(head_)
      /\ accepted' = accepted /\ delivered' = output /\ output = data_[head_]
  BY DEF PopPublish, producerVars, IInv, ConsumerHasElement
<1>2. head_ # tail_ /\ head_ \in Slots /\ tail_ \in Slots
  BY StaleIsSafe DEF PopPublish, IInv, TypeOK
<1>3. Dist(NextIdx(head_), tail_) = n - 1  BY <1>2, DistShrinks
<1>4. n \in 1 .. Size - 1  BY <1>0, <1>2, DistBounds
<1>5. Contents \in Seq(Values) /\ Len(Contents) = n  BY ContentsType
<1>6. Contents # <<>>  BY <1>4, <1>5
<1>7. Head(Contents) = output
  <2>1. Contents[1] = data_[(head_ + 1 - 1) % Size]  BY <1>0, <1>4, ContentsAt
  <2>2. 0 \in 0 .. Size /\ head_ + 0 = head_ + 1 - 1 /\ head_ + 0 = head_ /\ head_ < Size
    BY <1>0, <1>2 DEF Slots
  <2>3. (head_ + 1 - 1) % Size = head_
    BY <1>2, <2>2, Wrap
  <2> QED  BY <1>1, <1>5, <1>6, <2>1, <2>3
<1>8. Contents' = [k \in 1 .. n - 1 |-> data_[(NextIdx(head_) + k - 1) % Size]]
  <2>1. Dist(head_, tail_)' = n - 1  BY <1>1, <1>3 DEF Dist
  <2> QED  BY <1>1, <2>1 DEF Contents
<1> DEFINE c == [k \in 1 .. n - 1 |-> data_[(NextIdx(head_) + k - 1) % Size]]
<1>9. \A k \in 1 .. n - 1 : c[k] = Contents[k + 1]
  <2> SUFFICES ASSUME NEW k \in 1 .. n - 1
               PROVE  (NextIdx(head_) + k - 1) % Size = (head_ + (k + 1) - 1) % Size
    <3>1. \A k \in 1 .. n - 1 : k + 1 \in 1 .. n  BY <1>4
    <3> QED  BY <3>1 DEF Contents
  <2>1. /\ k \in Nat /\ k - 1 \in 0 .. Size /\ k \in 0 .. Size /\ n < Size
        /\ NextIdx(head_) \in Slots
        /\ NextIdx(head_) = IF head_ + 1 = Size THEN 0 ELSE head_ + 1
    BY <1>0, <1>2, <1>4, NextIdxWraps
  <2>2. /\ NextIdx(head_) + (k - 1) = NextIdx(head_) + k - 1
        /\ head_ + k = head_ + (k + 1) - 1
    BY <1>2, <2>1 DEF Slots
  <2>3. (NextIdx(head_) + (k - 1)) % Size =
            IF NextIdx(head_) + (k - 1) < Size
            THEN NextIdx(head_) + (k - 1) ELSE NextIdx(head_) + (k - 1) - Size
    BY <2>1, Wrap
  <2>4. (head_ + k) % Size = IF head_ + k < Size THEN head_ + k ELSE head_ + k - Size
    BY <1>2, <2>1, Wrap
  <2>5. (NextIdx(head_) + (k - 1)) % Size = (head_ + k) % Size
    BY <1>0, <1>2, <2>1, <2>3, <2>4 DEF Slots
  <2> QED  BY <2>2, <2>5
<1>10. Contents' = Tail(Contents)
  <2>1. \A k \in 1 .. n - 1 : c[k] \in Values
    <3>1. \A k \in 1 .. n - 1 : k + 1 \in 1 .. n  BY <1>4
    <3>2. \A k \in 1 .. n : Contents[k] \in Values  BY <1>5
    <3> QED  BY <1>9, <3>1, <3>2
  <2>2. c \in [1 .. n - 1 -> Values]  BY <2>1
  <2> HIDE DEF n, c
  <2>3. c \in Seq(Values) /\ Len(c) = n - 1  BY <1>4, <2>2
  <2>4. c = Tail(Contents)  BY <1>5, <1>6, <1>9, <2>3, IsTail
  <2> QED  BY <1>8, <2>4 DEF c
<1> QED  BY <1>1, <1>6, <1>7, <1>10 DEF Fifo!Dequeue

\* The ring implements the bounded FIFO queue of capacity Size - 1: every
\* step of push() or pop() is an Enqueue, a Dequeue or changes nothing that
\* the other side can see.
THEOREM Refinement == Spec => ImplementsFifo
<1>1. Init => Fifo!Init
  <2> SUFFICES ASSUME Init PROVE Contents = <<>>
    BY DEF Init, Fifo!Init
  <2>1. Contents = [k \in 1 .. 0 |-> data_[(head_ + k - 1) % Size]]
    BY DEF Init, Contents, Dist
  <2> QED  BY <2>1
<1>2. IInv /\ [Next]_vars => [Fifo!Next]_(Fifo!vars)
  <2> SUFFICES ASSUME IInv, [Next]_vars PROVE [Fifo!Next]_(Fifo!vars)  OBVIOUS
  <2> USE DEF Fifo!vars
  <2>1. ASSUME UNCHANGED <<head_, tail_, data_, accepted, delivered>>
        PROVE  UNCHANGED Fifo!vars
    BY <2>1 DEF Contents, Dist
  <2>2. CASE \E v \in Values : PushCall(v)
    BY <2>1, <2>2 DEF PushCall, consumerVars
  <2>3. CASE PushRefresh  BY <2>1, <2>3 DEF PushRefresh, consumerVars
  <2>4. CASE PushStore
    BY <2>4, StoreIsInvisible DEF PushStore, consumerVars
  <2>5. CASE PushPublish  BY <2>5, PublishEnqueues DEF Fifo!Next
  <2>6. CASE PopCall  BY <2>1, <2>6 DEF PopCall, producerVars
  <2>7. CASE PopRefresh  BY <2>1, <2>7 DEF PopRefresh, producerVars
  <2>8. CASE PopLoad  BY <2>1, <2>8 DEF PopLoad, producerVars
  <2>9. CASE PopPublish  BY <2>9, PublishDequeues DEF Fifo!Next
  <2>10. CASE UNCHANGED vars
    BY <2>1, <2>10 DEF vars, producerVars, consumerVars
  <2> QED
    BY <2>2, <2>3, <2>4, <2>5, <2>6, <2>7, <2>8, <2>9, <2>10 DEF Next, Push, Pop
<1> QED  BY <1>1, <1>2, Invariance, PTL DEF Spec, Fifo!Spec, ImplementsFifo
=============================================================================
