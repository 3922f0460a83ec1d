----------------------- MODULE HierarchicalBitsetProofs ----------------------
(***************************************************************************)
(* The bitset for every word size and every number of price levels that    *)
(* the static_assert admits (the code's 64 and 100000 among them): the     *)
(* three levels agree, the bitset is a set of ticks, and the two searches  *)
(* return its extremes.                                                    *)
(***************************************************************************)
EXTENDS HierarchicalBitset, WellFoundedInduction, TLAPS

\* The inductive invariant: SummariesAgree needs the words to have W bits.
IInv == TypeOK /\ SummariesAgree

-----------------------------------------------------------------------------
(* The arithmetic of word and bit indices.                                  *)

\* Quotient and remainder by W, for the shifts and masks of the code.
LEMMA DivMod ==
    ASSUME NEW n \in Nat
    PROVE  n \div W \in Nat /\ n % W \in 0 .. W - 1 /\ n = W * (n \div W) + (n % W)
BY WAssumption

\* Products with W keep the order.
LEMMA TimesW ==
    ASSUME NEW a \in Nat, NEW b \in Nat, a < b
    PROVE  W * a + W <= W * b
<1>1. PICK d \in Nat : b = a + 1 + d
  <2>1. b - a - 1 \in Nat /\ b = a + 1 + (b - a - 1)
    OBVIOUS
  <2> QED BY <2>1
<1>2. W * b = W * a + W + W * d
  BY <1>1, WAssumption
<1>3. W * d \in Nat /\ W * a \in Nat
  BY WAssumption
<1> QED BY <1>2, <1>3, WAssumption

\* Quotient and remainder are determined by n = W * q + r.
LEMMA Unique ==
    ASSUME NEW q \in Nat, NEW r \in 0 .. W - 1
    PROVE  W * q + r \in Nat /\ (W * q + r) \div W = q /\ (W * q + r) % W = r
<1> DEFINE n == W * q + r
<1>1. n \in Nat /\ W * q \in Nat
  BY WAssumption
<1> HIDE DEF n
<1>2. PICK p \in Nat : p = n \div W
  BY <1>1, DivMod
<1>3. n % W \in 0 .. W - 1 /\ n = W * p + (n % W) /\ W * p \in Nat
  BY <1>1, <1>2, DivMod, WAssumption
<1>4. ~ (p < q)
  BY <1>1, <1>3, TimesW, WAssumption DEF n
<1>5. ~ (q < p)
  BY <1>1, <1>3, TimesW, WAssumption DEF n
<1>6. p = q
  BY <1>4, <1>5
<1> QED BY <1>1, <1>2, <1>3, <1>6, WAssumption DEF n

\* A smaller word index means a smaller index.
LEMMA SmallerWord ==
    ASSUME NEW m \in Nat, NEW n \in Nat, m \div W < n \div W
    PROVE  m < n
<1>1. PICK p \in Nat, q \in Nat : p = m \div W /\ q = n \div W
  BY DivMod
<1>2. m = W * p + (m % W) /\ n = W * q + (n % W) /\ m % W \in 0 .. W - 1 /\ n % W \in 0 .. W - 1
  BY <1>1, DivMod
<1>3. W * p + W <= W * q /\ W * p \in Nat /\ W * q \in Nat
  BY <1>1, TimesW, WAssumption
<1> QED BY <1>2, <1>3, WAssumption

\* Bits of one word stand for different indices.
LEMMA BitIs ==
    ASSUME NEW n \in Nat
    PROVE  /\ Bit(n) \in 0 .. W - 1
           /\ \A m \in Nat : m \div W = n \div W /\ Bit(m) = Bit(n) => m = n
           /\ n < W => Bit(n) = W - 1 - n /\ n \div W = 0
<1>1. Bit(n) \in 0 .. W - 1
  BY DivMod, WAssumption DEF Bit
<1>2. ASSUME NEW m \in Nat, m \div W = n \div W, Bit(m) = Bit(n) PROVE m = n
  <2>1. m % W = n % W
    BY <1>2, DivMod, WAssumption DEF Bit
  <2> QED BY <1>2, <2>1, DivMod
<1>3. ASSUME n < W PROVE Bit(n) = W - 1 - n /\ n \div W = 0
  <2>1. n \in 0 .. W - 1 /\ W * 0 + n = n
    BY <1>3, WAssumption
  <2>2. n % W = n /\ n \div W = 0
    BY <2>1, Unique
  <2> QED BY <2>2 DEF Bit
<1> QED BY <1>1, <1>2, <1>3

\* A word of the next level for every index: the sizes of the arrays suffice.
LEMMA Rounded ==
    ASSUME NEW s \in Nat, NEW n \in Nat, n < s
    PROVE  /\ (s + W - 1) \div W \in Nat
           /\ n \div W \in 0 .. (s + W - 1) \div W - 1
<1>1. s + W - 1 \in Nat /\ n \div W \in Nat /\ (s + W - 1) \div W \in Nat
  BY DivMod, WAssumption
<1>2. n + W \in Nat /\ n + W <= s + W - 1
  BY WAssumption
<1>3. PICK q \in Nat : q = n \div W
  BY <1>1
<1>4. n + W = W * (q + 1) + (n % W)
  <2>1. n = W * q + (n % W) /\ n % W \in 0 .. W - 1
    BY <1>3, DivMod
  <2>2. W * (q + 1) = W * q + W /\ W * q \in Nat
    BY WAssumption
  <2> QED BY <2>1, <2>2, WAssumption
<1>5. (n + W) \div W = q + 1
  BY <1>4, DivMod, Unique
<1>6. ~ ((s + W - 1) \div W < (n + W) \div W)
  BY <1>1, <1>2, SmallerWord
<1> QED BY <1>1, <1>3, <1>5, <1>6

\* The arrays: word indices of ticks and of words are in range, and the top
\* word has a bit for every word of the middle level.
LEMMA Sizes ==
    /\ L1_SIZE \in Nat /\ L2_SIZE \in Nat /\ L2_SIZE <= W
    /\ \A t \in Ticks : t \in Nat /\ t \div W \in 0 .. L1_SIZE - 1
    /\ \A i \in 0 .. L1_SIZE - 1 : i \in Nat /\ i \div W \in 0 .. L2_SIZE - 1
<1>1. MAX_TICKS \in Nat /\ MAX_TICKS > 0 /\ MAX_TICKS <= W * W * W
  BY MaxTicksAssumption, WAssumption
<1>2. L1_SIZE \in Nat
  BY <1>1, Rounded DEF L1_SIZE
<1>3. \A t \in Ticks : t \in Nat /\ t \div W \in 0 .. L1_SIZE - 1
  BY <1>1, Rounded DEF Ticks, L1_SIZE
<1>4. L2_SIZE \in Nat
  BY <1>2, DivMod, WAssumption DEF L2_SIZE
<1>5. \A i \in 0 .. L1_SIZE - 1 : i \in Nat /\ i \div W \in 0 .. L2_SIZE - 1
  BY <1>2, Rounded DEF L2_SIZE
<1>6. \A s \in Nat, b \in Nat : s <= W * b => (s + W - 1) \div W <= b
  <2> SUFFICES ASSUME NEW s \in Nat, NEW b \in Nat, s <= W * b
               PROVE  (s + W - 1) \div W <= b
    OBVIOUS
  <2>1. s + W - 1 \in Nat /\ W * b \in Nat
    BY WAssumption
  <2>2. W * b + (W - 1) \in Nat /\ (W * b + (W - 1)) \div W = b /\ s + W - 1 <= W * b + (W - 1)
    BY <2>1, Unique, WAssumption
  <2>3. ~ ((W * b + (W - 1)) \div W < (s + W - 1) \div W)
    BY <2>1, <2>2, SmallerWord
  <2> QED BY <2>1, <2>2, <2>3, DivMod
<1>7. L1_SIZE <= W * W
  <2>1. W * W \in Nat /\ W * W * W = W * (W * W)
    BY WAssumption
  <2> QED BY <1>1, <1>6, <2>1 DEF L1_SIZE
<1>8. L2_SIZE <= W
  BY <1>2, <1>6, <1>7, WAssumption DEF L2_SIZE
<1> QED BY <1>2, <1>3, <1>4, <1>5, <1>8

\* The word of an index below W * n is one of n words.
LEMMA WordOf ==
    ASSUME NEW n \in Nat, NEW i \in 0 .. W * n - 1
    PROVE  i \in Nat /\ i \div W \in 0 .. n - 1
<1>1. i \in Nat /\ W * n \in Nat /\ i < W * n
  BY WAssumption
<1>2. PICK q \in Nat : q = i \div W /\ i = W * q + (i % W) /\ i % W \in 0 .. W - 1
  BY <1>1, DivMod
<1>3. W * q \in Nat
  BY WAssumption
<1>4. ~ (n <= q)
  <2>1. n < q => W * n + W <= W * q
    BY TimesW
  <2> QED BY <1>1, <1>2, <1>3, <2>1, WAssumption
<1> QED BY <1>1, <1>2, <1>4

-----------------------------------------------------------------------------
(* The inductive invariant.                                                 *)

Words == SUBSET (0 .. W - 1)

\* The step that stores words u, v and w.
Store(f, s, u, v, w) ==
    bitset' = [bitset EXCEPT !.first_level_[f] = u, !.second_level_[s] = v, !.third_level_ = w]

\* A step changes one word of each level; bits of indices that exist stay in
\* a word.
LEMMA Stored ==
    ASSUME TypeOK, NEW f \in 0 .. L1_SIZE - 1, NEW s \in 0 .. L2_SIZE - 1,
           NEW u \in Words, NEW v \in Words, NEW w \in Words,
           Store(f, s, u, v, w)
    PROVE  /\ TypeOK'
           /\ bitset'.first_level_[f] = u /\ bitset'.second_level_[s] = v /\ bitset'.third_level_ = w
           /\ \A i \in 0 .. L1_SIZE - 1 : i # f => bitset'.first_level_[i] = bitset.first_level_[i]
           /\ \A j \in 0 .. L2_SIZE - 1 : j # s => bitset'.second_level_[j] = bitset.second_level_[j]
BY DEF TypeOK, Words, Store

\* A new bitset is empty.
LEMMA InitIInv == Init => IInv
<1> SUFFICES ASSUME Init PROVE IInv
  OBVIOUS
<1>1. /\ bitset.first_level_ = [i \in 0 .. L1_SIZE - 1 |-> {}]
      /\ bitset.second_level_ = [i \in 0 .. L2_SIZE - 1 |-> {}]
      /\ bitset.third_level_ = {}
  BY DEF Init, Empty
<1>2. TypeOK
  BY DEF Init, Empty, TypeOK
<1>3. \A i \in 0 .. L1_SIZE - 1 : i \div W \in 0 .. L2_SIZE - 1
  BY Sizes
<1>4. /\ \A i \in 0 .. W * L1_SIZE - 1 : i \div W \in 0 .. L1_SIZE - 1
      /\ \A i \in 0 .. W * L2_SIZE - 1 : i \div W \in 0 .. L2_SIZE - 1
  BY Sizes, WordOf
<1> QED BY <1>1, <1>2, <1>3, <1>4 DEF IInv, SummariesAgree

\* The words a step of tick t looks at.
LEMMA WordsOf ==
    ASSUME TypeOK, NEW t \in Ticks
    PROVE  \E f \in 0 .. L1_SIZE - 1, s \in 0 .. L2_SIZE - 1 :
              /\ f = t \div W /\ s = f \div W
              /\ t \in Nat /\ f \in Nat /\ s \in Nat
              /\ bitset.first_level_[f] \in Words /\ bitset.second_level_[s] \in Words
              /\ bitset.third_level_ \in Words
              /\ {Bit(t), Bit(f), Bit(s)} \in Words
<1>1. PICK f \in 0 .. L1_SIZE - 1 : f = t \div W /\ f \in Nat /\ t \in Nat
  BY Sizes
<1>2. PICK s \in 0 .. L2_SIZE - 1 : s = f \div W /\ s \in Nat
  BY Sizes
<1>3. {Bit(t), Bit(f), Bit(s)} \in Words
  BY <1>1, <1>2, BitIs DEF Words
<1>4. bitset.first_level_[f] \in Words /\ bitset.second_level_[s] \in Words
      /\ bitset.third_level_ \in Words
  BY DEF TypeOK, Words
<1> QED BY <1>1, <1>2, <1>3, <1>4

\* The five conjuncts of SummariesAgree after a step at word f of the first
\* and word s of the second level.
LEMMA StepAgrees ==
    ASSUME IInv, NEW t \in Ticks, NEW f \in 0 .. L1_SIZE - 1, NEW s \in 0 .. L2_SIZE - 1,
           f = t \div W, s = f \div W, NEW u \in Words, NEW v \in Words, NEW w \in Words,
           Store(f, s, u, v, w),
           \A b \in 0 .. W - 1 : b # Bit(t) => (b \in u <=> b \in bitset.first_level_[f]),
           \A b \in 0 .. W - 1 : b # Bit(f) => (b \in v <=> b \in bitset.second_level_[s]),
           \A b \in 0 .. W - 1 : b # Bit(s) => (b \in w <=> b \in bitset.third_level_),
           Bit(f) \in v <=> u # {}, Bit(s) \in w <=> v # {}
    PROVE  IInv' /\ \A x \in Ticks \ {t} : x \in Members' <=> x \in Members
<1>1. /\ TypeOK'
      /\ bitset'.first_level_[f] = u /\ bitset'.second_level_[s] = v /\ bitset'.third_level_ = w
      /\ \A i \in 0 .. L1_SIZE - 1 : i # f => bitset'.first_level_[i] = bitset.first_level_[i]
      /\ \A j \in 0 .. L2_SIZE - 1 : j # s => bitset'.second_level_[j] = bitset.second_level_[j]
  BY Stored DEF IInv
<1>2. t \in Nat /\ f \in Nat /\ s \in Nat
  BY Sizes
<1>3. \A i \in 0 .. L1_SIZE - 1 : Bit(i) \in bitset'.second_level_[i \div W] <=> bitset'.first_level_[i] # {}
  <2> TAKE i \in 0 .. L1_SIZE - 1
  <2>1. i \in Nat /\ i \div W \in 0 .. L2_SIZE - 1 /\ Bit(i) \in 0 .. W - 1
    BY Sizes, BitIs
  <2>2. Bit(i) \in bitset.second_level_[i \div W] <=> bitset.first_level_[i] # {}
    BY DEF IInv, SummariesAgree
  <2>3. CASE i = f
    BY <1>1, <2>3
  <2>4. CASE i # f /\ i \div W # s
    BY <1>1, <2>1, <2>2, <2>4
  <2>5. CASE i # f /\ i \div W = s
    <3>1. Bit(i) # Bit(f)
      BY <1>2, <2>1, <2>5, BitIs
    <3> QED BY <1>1, <2>1, <2>2, <2>5, <3>1
  <2> QED BY <2>3, <2>4, <2>5
<1>4. \A j \in 0 .. L2_SIZE - 1 : Bit(j) \in bitset'.third_level_ <=> bitset'.second_level_[j] # {}
  <2> TAKE j \in 0 .. L2_SIZE - 1
  <2>1. j \in Nat /\ j < W /\ s < W
    BY Sizes, WAssumption
  <2>2. Bit(j) \in bitset.third_level_ <=> bitset.second_level_[j] # {}
    BY DEF IInv, SummariesAgree
  <2>3. CASE j = s
    BY <1>1, <2>3
  <2>4. CASE j # s
    <3>1. Bit(j) \in 0 .. W - 1 /\ Bit(j) # Bit(s)
      BY <1>2, <2>1, <2>4, BitIs
    <3> QED BY <1>1, <2>2, <2>4, <3>1
  <2> QED BY <2>3, <2>4
<1>5. \A i \in 0 .. W * L1_SIZE - 1 : i >= MAX_TICKS => Bit(i) \notin bitset'.first_level_[i \div W]
  <2> TAKE i \in 0 .. W * L1_SIZE - 1
  <2> HAVE i >= MAX_TICKS
  <2>1. i \in Nat /\ i \div W \in 0 .. L1_SIZE - 1 /\ i # t
    BY Sizes, WordOf, MaxTicksAssumption, WAssumption DEF Ticks
  <2>2. Bit(i) \notin bitset.first_level_[i \div W] /\ Bit(i) \in 0 .. W - 1
    BY <2>1, BitIs DEF IInv, SummariesAgree
  <2>3. i \div W = f => Bit(i) # Bit(t)
    BY <1>2, <2>1, BitIs
  <2> QED BY <1>1, <2>1, <2>2, <2>3
<1>6. \A i \in 0 .. W * L2_SIZE - 1 : i >= L1_SIZE => Bit(i) \notin bitset'.second_level_[i \div W]
  <2> TAKE i \in 0 .. W * L2_SIZE - 1
  <2> HAVE i >= L1_SIZE
  <2>1. i \in Nat /\ i \div W \in 0 .. L2_SIZE - 1 /\ i # f
    <3>1. i \in Nat /\ i \div W \in 0 .. L2_SIZE - 1
      BY Sizes, WordOf
    <3> QED BY <3>1, Sizes
  <2>2. Bit(i) \notin bitset.second_level_[i \div W] /\ Bit(i) \in 0 .. W - 1
    BY <2>1, BitIs DEF IInv, SummariesAgree
  <2>3. i \div W = s => Bit(i) # Bit(f)
    BY <1>2, <2>1, BitIs
  <2> QED BY <1>1, <2>1, <2>2, <2>3
<1>7. \A j \in L2_SIZE .. W - 1 : Bit(j) \notin bitset'.third_level_
  <2> TAKE j \in L2_SIZE .. W - 1
  <2>1. j \in Nat /\ j < W /\ s < W /\ j # s
    BY Sizes, WAssumption
  <2>2. Bit(j) \notin bitset.third_level_
    BY DEF IInv, SummariesAgree
  <2>3. Bit(j) \in 0 .. W - 1 /\ Bit(j) # Bit(s)
    BY <1>2, <2>1, BitIs
  <2> QED BY <1>1, <2>2, <2>3
<1>8. ASSUME NEW x \in Ticks \ {t} PROVE x \in Members' <=> x \in Members
  <2>1. x \in Nat /\ x \div W \in 0 .. L1_SIZE - 1 /\ Bit(x) \in 0 .. W - 1
    BY Sizes, BitIs
  <2>2. x \div W = f => Bit(x) # Bit(t)
    BY <1>2, <2>1, BitIs
  <2>3. Bit(x) \in bitset'.first_level_[x \div W] <=> Bit(x) \in bitset.first_level_[x \div W]
    BY <1>1, <2>1, <2>2
  <2> QED BY <2>3 DEF Members
<1>9. SummariesAgree'
  BY <1>3, <1>4, <1>5, <1>6, <1>7 DEF SummariesAgree, Bit
<1> QED BY <1>1, <1>8, <1>9 DEF IInv

\* set_price_level().
LEMMA SetIInv ==
    ASSUME IInv, NEW t \in Ticks, set_price_level(t)
    PROVE  IInv' /\ Members' = Members \cup {t}
<1>1. PICK f \in 0 .. L1_SIZE - 1, s \in 0 .. L2_SIZE - 1 :
              /\ f = t \div W /\ s = f \div W
              /\ t \in Nat /\ f \in Nat /\ s \in Nat
              /\ bitset.first_level_[f] \in Words /\ bitset.second_level_[s] \in Words
              /\ bitset.third_level_ \in Words
              /\ {Bit(t), Bit(f), Bit(s)} \in Words
  BY WordsOf DEF IInv
<1>2. PICK u \in Words, v \in Words, w \in Words :
         /\ u = bitset.first_level_[f] \cup {Bit(t)}
         /\ v = bitset.second_level_[s] \cup {Bit(f)}
         /\ w = bitset.third_level_ \cup {Bit(s)}
  BY <1>1 DEF Words
<1>3. Store(f, s, u, v, w)
  BY <1>1, <1>2 DEF set_price_level, Store, IInv, TypeOK
<1>4. /\ \A b \in 0 .. W - 1 : b # Bit(t) => (b \in u <=> b \in bitset.first_level_[f])
      /\ \A b \in 0 .. W - 1 : b # Bit(f) => (b \in v <=> b \in bitset.second_level_[s])
      /\ \A b \in 0 .. W - 1 : b # Bit(s) => (b \in w <=> b \in bitset.third_level_)
  BY <1>2
<1>5. (Bit(f) \in v <=> u # {}) /\ (Bit(s) \in w <=> v # {})
  BY <1>2
<1>6. IInv' /\ \A x \in Ticks \ {t} : x \in Members' <=> x \in Members
  <2>1. f = t \div W /\ s = f \div W
    BY <1>1
  <2> QED BY <1>3, <1>4, <1>5, <2>1, StepAgrees
<1>7. t \in Members'
  <2>1. bitset'.first_level_[f] = u
    BY <1>1, <1>3, Stored DEF IInv
  <2> QED BY <1>1, <1>2, <2>1 DEF Members, Bit
<1> QED BY <1>6, <1>7 DEF Members

\* clear_price_level().
LEMMA ClearIInv ==
    ASSUME IInv, NEW t \in Ticks, clear_price_level(t)
    PROVE  IInv' /\ Members' = Members \ {t}
<1>1. PICK f \in 0 .. L1_SIZE - 1, s \in 0 .. L2_SIZE - 1 :
              /\ f = t \div W /\ s = f \div W
              /\ t \in Nat /\ f \in Nat /\ s \in Nat
              /\ bitset.first_level_[f] \in Words /\ bitset.second_level_[s] \in Words
              /\ bitset.third_level_ \in Words
              /\ {Bit(t), Bit(f), Bit(s)} \in Words
  BY WordsOf DEF IInv
<1>2. PICK u \in Words, v \in Words, w \in Words :
         /\ u = bitset.first_level_[f] \ {Bit(t)}
         /\ v = IF u = {} THEN bitset.second_level_[s] \ {Bit(f)} ELSE bitset.second_level_[s]
         /\ w = IF u = {} /\ v = {} THEN bitset.third_level_ \ {Bit(s)} ELSE bitset.third_level_
  BY <1>1 DEF Words
<1>3. Store(f, s, u, v, w)
  BY <1>1, <1>2 DEF clear_price_level, Store, IInv, TypeOK
<1>4. /\ Bit(f) \in bitset.second_level_[s] <=> bitset.first_level_[f] # {}
      /\ Bit(s) \in bitset.third_level_ <=> bitset.second_level_[s] # {}
  BY <1>1 DEF IInv, SummariesAgree
<1>5. (Bit(f) \in v <=> u # {}) /\ (Bit(s) \in w <=> v # {})
  BY <1>2, <1>4
<1>6. /\ \A b \in 0 .. W - 1 : b # Bit(t) => (b \in u <=> b \in bitset.first_level_[f])
      /\ \A b \in 0 .. W - 1 : b # Bit(f) => (b \in v <=> b \in bitset.second_level_[s])
      /\ \A b \in 0 .. W - 1 : b # Bit(s) => (b \in w <=> b \in bitset.third_level_)
  BY <1>2
<1>7. IInv' /\ \A x \in Ticks \ {t} : x \in Members' <=> x \in Members
  <2>1. f = t \div W /\ s = f \div W
    BY <1>1
  <2> QED BY <1>3, <1>5, <1>6, <2>1, StepAgrees
<1>8. t \notin Members'
  <2>1. bitset'.first_level_[f] = u
    BY <1>1, <1>3, Stored DEF IInv
  <2> QED BY <1>1, <1>2, <2>1 DEF Members, Bit
<1> QED BY <1>7, <1>8 DEF Members

\* The inductive invariant holds for every word size and number of ticks.
THEOREM Invariance == Spec => []IInv
<1>1. IInv /\ UNCHANGED bitset => IInv'
  BY DEF IInv, TypeOK, SummariesAgree, Bit
<1>2. IInv /\ [Next]_bitset => IInv'
  BY <1>1, SetIInv, ClearIInv DEF Next
<1> QED BY <1>2, InitIInv, PTL DEF Spec

\* For every size the summary words agree with the words they summarise.
THEOREM Summaries == Spec => []SummariesAgree
BY Invariance, PTL DEF IInv

\* For every size the bitset is a set of ticks.
THEOREM Refinement == Spec => ImplementsSet
<1>1. Init => Levels!Init
  <2> SUFFICES ASSUME Init PROVE Members = {}
    BY DEF Levels!Init
  <2>1. bitset.first_level_ = [i \in 0 .. L1_SIZE - 1 |-> {}]
    BY DEF Init, Empty
  <2> QED BY <2>1, Sizes DEF Members
<1>2. IInv /\ [Next]_bitset => [Levels!Next]_Members
  <2>1. Ticks = Levels!Ticks
    BY DEF Ticks, Levels!Ticks
  <2>2. UNCHANGED bitset => UNCHANGED Members
    BY DEF Members, Bit
  <2> QED BY <2>1, <2>2, SetIInv, ClearIInv DEF Next, Levels!Next, Levels!Set, Levels!Clear
<1> QED BY <1>1, <1>2, Invariance, PTL DEF Spec, Levels!Spec, ImplementsSet

-----------------------------------------------------------------------------
(* The searches.  A position p of a word stands for the p-th index of the   *)
(* word, whose bit is W - 1 - p.                                            *)

\* A set of numbers that is not empty has a least element.
LEMMA LeastElement ==
    ASSUME NEW S \in SUBSET Nat, S # {}
    PROVE  \E k \in S : \A j \in S : k <= j
<1> DEFINE R == OpToRel(<, Nat)
<1>1. IsWellFoundedOn(R, Nat)
  BY NatLessThanWellFounded
<1>2. \A j, k \in Nat : j < k => <<j, k>> \in R
  BY DEF OpToRel
<1> HIDE DEF R
<1>3. PICK k \in S : \A j \in S : ~ (<<j, k>> \in R)
  BY <1>1, WFMin
<1>4. \A j \in S : ~ (j < k)
  BY <1>2, <1>3
<1> QED BY <1>4

\* The bit scans return the last and the first position of a word.
LEMMA Scans ==
    ASSUME NEW w \in Words, w # {}
    PROVE  /\ W - 1 - ctzll(w) \in 0 .. W - 1 /\ W - 1 - (W - 1 - ctzll(w)) \in w
           /\ \A p \in 0 .. W - 1 : W - 1 - p \in w => p <= W - 1 - ctzll(w)
           /\ clzll(w) \in 0 .. W - 1 /\ W - 1 - clzll(w) \in w
           /\ \A p \in 0 .. W - 1 : W - 1 - p \in w => p >= clzll(w)
<1>1. w \subseteq Nat /\ \A y \in w : y \in 0 .. W - 1
  BY WAssumption DEF Words
<1>2. \E x \in w : \A y \in w : x <= y
  BY <1>1, LeastElement
<1>3. Min(w) \in w /\ \A y \in w : Min(w) <= y
  BY <1>2 DEF Min
<1>4. \E x \in w : \A y \in w : x >= y
  <2> DEFINE S == {W - 1 - y : y \in w}
  <2>1. S \in SUBSET Nat /\ S # {}
    <3>1. \A y \in w : W - 1 - y \in Nat
      BY <1>1, WAssumption
    <3> QED BY <3>1
  <2>2. \A y \in w : W - 1 - y \in S
    OBVIOUS
  <2>3. \A k \in S : \E y \in w : k = W - 1 - y
    OBVIOUS
  <2> HIDE DEF S
  <2>4. PICK k \in S : \A j \in S : k <= j
    BY <2>1, LeastElement
  <2>5. PICK x \in w : k = W - 1 - x
    BY <2>3
  <2>6. \A y \in w : W - 1 - x <= W - 1 - y
    BY <2>2, <2>4, <2>5
  <2> QED BY <1>1, <2>6, WAssumption
<1>5. Max(w) \in w /\ \A y \in w : Max(w) >= y
  BY <1>4 DEF Max
<1>6. PICK lo \in w, hi \in w : /\ lo = Min(w) /\ hi = Max(w)
                              /\ \A y \in w : lo <= y /\ hi >= y
  BY <1>3, <1>5
<1>7. lo \in 0 .. W - 1 /\ hi \in 0 .. W - 1
  BY <1>1
<1>8. ctzll(w) = lo /\ clzll(w) = W - 1 - hi
  BY <1>6 DEF ctzll, clzll
<1>9. W - 1 - (W - 1 - lo) = lo /\ W - 1 - (W - 1 - hi) = hi
  BY <1>7, WAssumption
<1> HIDE DEF ctzll, clzll
<1> QED BY <1>6, <1>7, <1>8, <1>9, WAssumption

\* The index of position p of word q.
LEMMA At ==
    ASSUME NEW q \in Nat, NEW p \in 0 .. W - 1
    PROVE  W * q + p \in Nat /\ (W * q + p) \div W = q /\ Bit(W * q + p) = W - 1 - p
BY Unique DEF Bit

\* An index below n words of which the word exists.
LEMMA Below ==
    ASSUME NEW n \in Nat, NEW q \in 0 .. n - 1, NEW p \in 0 .. W - 1
    PROVE  W * q + p \in 0 .. W * n - 1
<1>1. W * q + W <= W * n /\ W * q \in Nat /\ W * n \in Nat
  BY TimesW, WAssumption
<1> QED BY <1>1, WAssumption

\* A bit of the top level leads to a word that is not zero ...
LEMMA DownTop ==
    ASSUME IInv, NEW a \in 0 .. W - 1, W - 1 - a \in bitset.third_level_
    PROVE  a \in 0 .. L2_SIZE - 1 /\ bitset.second_level_[a] \in Words \ {{}}
<1>1. a \in Nat /\ a < W
  BY WAssumption
<1>2. Bit(a) = W - 1 - a
  BY <1>1, BitIs
<1>3. a \notin L2_SIZE .. W - 1
  BY <1>2 DEF IInv, SummariesAgree
<1>4. a \in 0 .. L2_SIZE - 1
  BY <1>1, <1>3, Sizes, WAssumption
<1> QED BY <1>2, <1>4 DEF IInv, SummariesAgree, TypeOK, Words

\* ... and so does a bit of the middle level ...
LEMMA DownMiddle ==
    ASSUME IInv, NEW a \in 0 .. L2_SIZE - 1, NEW b \in 0 .. W - 1,
           W - 1 - b \in bitset.second_level_[a]
    PROVE  W * a + b \in 0 .. L1_SIZE - 1 /\ bitset.first_level_[W * a + b] \in Words \ {{}}
<1>1. PICK i \in Nat : i = W * a + b /\ i \div W = a /\ Bit(i) = W - 1 - b
  BY At, Sizes
<1>2. i \in 0 .. W * L2_SIZE - 1
  BY <1>1, Below, Sizes
<1>3. ~ (i >= L1_SIZE)
  BY <1>1, <1>2 DEF IInv, SummariesAgree
<1>4. i \in 0 .. L1_SIZE - 1
  BY <1>3, Sizes
<1>5. bitset.first_level_[i] # {} /\ bitset.first_level_[i] \in Words
  BY <1>1, <1>4 DEF IInv, SummariesAgree, TypeOK, Words
<1> QED BY <1>1, <1>4, <1>5

\* ... to a tick that is set.
LEMMA DownBottom ==
    ASSUME IInv, NEW i \in 0 .. L1_SIZE - 1, NEW c \in 0 .. W - 1,
           W - 1 - c \in bitset.first_level_[i]
    PROVE  W * i + c \in Members
<1>1. PICK t \in Nat : t = W * i + c /\ t \div W = i /\ Bit(t) = W - 1 - c
  BY At, Sizes
<1>2. t \in 0 .. W * L1_SIZE - 1
  BY <1>1, Below, Sizes
<1>3. ~ (t >= MAX_TICKS)
  BY <1>1, <1>2 DEF IInv, SummariesAgree
<1>4. t \in Ticks
  BY <1>3, MaxTicksAssumption, WAssumption DEF Ticks
<1> QED BY <1>1, <1>4 DEF Members

\* A tick that is set shows at the three levels.
LEMMA Up ==
    ASSUME IInv, NEW t \in Members
    PROVE  \E a \in 0 .. L2_SIZE - 1, i \in 0 .. L1_SIZE - 1, b \in 0 .. W - 1, c \in 0 .. W - 1 :
              /\ i = W * a + b /\ t = W * i + c
              /\ a \in 0 .. W - 1 /\ W - 1 - a \in bitset.third_level_
              /\ W - 1 - b \in bitset.second_level_[a]
              /\ W - 1 - c \in bitset.first_level_[i]
<1>1. PICK i \in 0 .. L1_SIZE - 1 : i = t \div W /\ t \in Nat /\ i \in Nat
  BY Sizes DEF Members
<1>2. PICK a \in 0 .. L2_SIZE - 1 : a = i \div W /\ a \in Nat
  BY Sizes
<1>3. PICK b \in 0 .. W - 1 : b = i % W /\ i = W * a + b
  BY <1>1, <1>2, DivMod
<1>4. PICK c \in 0 .. W - 1 : c = t % W /\ t = W * i + c
  BY <1>1, DivMod
<1>5. Bit(t) = W - 1 - c /\ Bit(i) = W - 1 - b
  BY <1>3, <1>4 DEF Bit
<1>6. a < W /\ Bit(a) = W - 1 - a
  BY <1>2, Sizes, BitIs, WAssumption
<1>7. W - 1 - c \in bitset.first_level_[i]
  BY <1>1, <1>5 DEF Members
<1>8. W - 1 - b \in bitset.second_level_[a]
  BY <1>2, <1>5, <1>7 DEF IInv, SummariesAgree
<1>9. W - 1 - a \in bitset.third_level_
  BY <1>6, <1>8 DEF IInv, SummariesAgree
<1>10. a \in 0 .. W - 1
  BY <1>2, <1>6, WAssumption
<1> QED BY <1>3, <1>4, <1>7, <1>8, <1>9, <1>10

\* The order of two indices is that of their words, then of their positions.
LEMMA Lexicographic ==
    ASSUME NEW q \in Nat, NEW r \in Nat, NEW x \in 0 .. W - 1, NEW y \in 0 .. W - 1,
           q < r \/ (q = r /\ x <= y)
    PROVE  W * q + x <= W * r + y /\ (q < r => W * q + x < W * r + y)
<1>1. W * q \in Nat /\ W * r \in Nat
  BY WAssumption
<1>2. q < r => W * q + W <= W * r
  BY TimesW
<1> QED BY <1>1, <1>2, WAssumption

\* Where the code adds up the three positions.
LEMMA Sum3 ==
    ASSUME NEW a \in Nat, NEW b \in Nat, NEW c \in Nat
    PROVE  b + a * W = W * a + b /\ c + b * W + a * W * W = W * (W * a + b) + c
BY WAssumption

\* get_best_bid() returns the last tick of the set.
LEMMA BidIs ==
    ASSUME IInv, bitset.third_level_ # {}
    PROVE  get_best_bid \in Members /\ \A t \in Members : t <= get_best_bid
<1>1. bitset.third_level_ \in Words
  BY DEF IInv, TypeOK, Words
<1>2. PICK a \in 0 .. W - 1 :
         /\ a = W - 1 - ctzll(bitset.third_level_) /\ W - 1 - a \in bitset.third_level_
         /\ \A p \in 0 .. W - 1 : W - 1 - p \in bitset.third_level_ => p <= a
  BY <1>1, Scans
<1>3. a \in 0 .. L2_SIZE - 1 /\ bitset.second_level_[a] \in Words /\ bitset.second_level_[a] # {}
  BY <1>2, DownTop
<1>4. PICK b \in 0 .. W - 1 :
         /\ b = W - 1 - ctzll(bitset.second_level_[a]) /\ W - 1 - b \in bitset.second_level_[a]
         /\ \A p \in 0 .. W - 1 : W - 1 - p \in bitset.second_level_[a] => p <= b
  BY <1>3, Scans
<1>5. PICK i \in 0 .. L1_SIZE - 1 :
         i = W * a + b /\ bitset.first_level_[i] \in Words /\ bitset.first_level_[i] # {}
  BY <1>3, <1>4, DownMiddle
<1>6. PICK c \in 0 .. W - 1 :
         /\ c = W - 1 - ctzll(bitset.first_level_[i]) /\ W - 1 - c \in bitset.first_level_[i]
         /\ \A p \in 0 .. W - 1 : W - 1 - p \in bitset.first_level_[i] => p <= c
  BY <1>5, Scans
<1>7. a \in Nat /\ b \in Nat /\ c \in Nat /\ i \in Nat
  BY <1>3, <1>4, <1>5, <1>6, Sizes, WAssumption
<1>8. get_best_bid = W * i + c
  <2>1. b + a * W = i /\ c + b * W + a * W * W = W * i + c
    BY <1>5, <1>7, Sum3
  <2> HIDE DEF ctzll
  <2> QED BY <1>2, <1>4, <1>6, <2>1 DEF get_best_bid
<1>9. W * i + c \in Members
  BY <1>6, DownBottom
<1>10. ASSUME NEW t \in Members PROVE t <= W * i + c
  <2>1. PICK d \in 0 .. L2_SIZE - 1, j \in 0 .. L1_SIZE - 1, e \in 0 .. W - 1, g \in 0 .. W - 1 :
              /\ j = W * d + e /\ t = W * j + g
              /\ d \in 0 .. W - 1 /\ W - 1 - d \in bitset.third_level_
              /\ W - 1 - e \in bitset.second_level_[d]
              /\ W - 1 - g \in bitset.first_level_[j]
    BY Up
  <2>2. d \in Nat /\ j \in Nat /\ e \in Nat /\ g \in Nat
    BY Sizes, WAssumption
  <2>3. d <= a
    BY <1>2, <2>1
  <2>4. d < a \/ (d = a /\ e <= b)
    BY <1>4, <1>7, <2>1, <2>2, <2>3
  <2>5. j <= i
    BY <1>5, <1>7, <2>1, <2>2, <2>4, Lexicographic
  <2>6. j < i \/ (j = i /\ g <= c)
    BY <1>6, <1>7, <2>1, <2>2, <2>5
  <2> QED BY <1>7, <2>1, <2>2, <2>6, Lexicographic
<1> QED BY <1>8, <1>9, <1>10

\* get_best_offer() returns the first tick of the set.
LEMMA OfferIs ==
    ASSUME IInv, bitset.third_level_ # {}
    PROVE  get_best_offer \in Members /\ \A t \in Members : get_best_offer <= t
<1>1. bitset.third_level_ \in Words
  BY DEF IInv, TypeOK, Words
<1>2. PICK a \in 0 .. W - 1 :
         /\ a = clzll(bitset.third_level_) /\ W - 1 - a \in bitset.third_level_
         /\ \A p \in 0 .. W - 1 : W - 1 - p \in bitset.third_level_ => p >= a
  BY <1>1, Scans
<1>3. a \in 0 .. L2_SIZE - 1 /\ bitset.second_level_[a] \in Words /\ bitset.second_level_[a] # {}
  BY <1>2, DownTop
<1>4. PICK b \in 0 .. W - 1 :
         /\ b = clzll(bitset.second_level_[a]) /\ W - 1 - b \in bitset.second_level_[a]
         /\ \A p \in 0 .. W - 1 : W - 1 - p \in bitset.second_level_[a] => p >= b
  BY <1>3, Scans
<1>5. PICK i \in 0 .. L1_SIZE - 1 :
         i = W * a + b /\ bitset.first_level_[i] \in Words /\ bitset.first_level_[i] # {}
  BY <1>3, <1>4, DownMiddle
<1>6. PICK c \in 0 .. W - 1 :
         /\ c = clzll(bitset.first_level_[i]) /\ W - 1 - c \in bitset.first_level_[i]
         /\ \A p \in 0 .. W - 1 : W - 1 - p \in bitset.first_level_[i] => p >= c
  BY <1>5, Scans
<1>7. a \in Nat /\ b \in Nat /\ c \in Nat /\ i \in Nat
  BY <1>3, <1>4, <1>5, <1>6, Sizes, WAssumption
<1>8. get_best_offer = W * i + c
  <2>1. b + a * W = i /\ c + b * W + a * W * W = W * i + c
    BY <1>5, <1>7, Sum3
  <2> HIDE DEF clzll
  <2> QED BY <1>2, <1>4, <1>6, <2>1 DEF get_best_offer
<1>9. W * i + c \in Members
  BY <1>6, DownBottom
<1>10. ASSUME NEW t \in Members PROVE W * i + c <= t
  <2>1. PICK d \in 0 .. L2_SIZE - 1, j \in 0 .. L1_SIZE - 1, e \in 0 .. W - 1, g \in 0 .. W - 1 :
              /\ j = W * d + e /\ t = W * j + g
              /\ d \in 0 .. W - 1 /\ W - 1 - d \in bitset.third_level_
              /\ W - 1 - e \in bitset.second_level_[d]
              /\ W - 1 - g \in bitset.first_level_[j]
    BY Up
  <2>2. d \in Nat /\ j \in Nat /\ e \in Nat /\ g \in Nat
    BY Sizes, WAssumption
  <2>3. d >= a
    BY <1>2, <2>1
  <2>4. a < d \/ (a = d /\ b <= e)
    BY <1>4, <1>7, <2>1, <2>2, <2>3
  <2>5. i <= j
    BY <1>5, <1>7, <2>1, <2>2, <2>4, Lexicographic
  <2>6. i < j \/ (i = j /\ c <= g)
    BY <1>6, <1>7, <2>1, <2>2, <2>5
  <2> QED BY <1>7, <2>1, <2>2, <2>6, Lexicographic
<1> QED BY <1>8, <1>9, <1>10

\* For every size the best bid and the best offer are the extremes of the set.
THEOREM BestPrices == Spec => []BestPricesCorrect
<1>1. IInv => BestPricesCorrect
  <2> SUFFICES ASSUME IInv PROVE BestPricesCorrect
    OBVIOUS
  <2>1. Members \subseteq Int
    BY Sizes DEF Members
  <2>2. CASE bitset.third_level_ = {}
    <3>1. Members = {}
      BY <2>2, Up
    <3> QED BY <2>2, <3>1 DEF BestPricesCorrect, get_best_bid, get_best_offer, NoLevel,
                              Levels!BestBid, Levels!BestOffer, Levels!NoLevel
  <2>3. CASE bitset.third_level_ # {}
    <3>1. PICK x \in Members : x = get_best_bid /\ \A t \in Members : x >= t
      BY <2>1, <2>3, BidIs
    <3>2. PICK y \in Members : y = get_best_offer /\ \A t \in Members : y <= t
      BY <2>1, <2>3, OfferIs
    <3>3. Levels!Max(Members) = x
      <4>1. \A z \in Members : (\A t \in Members : z >= t) <=> z = x
        BY <2>1, <3>1
      <4> QED BY <4>1 DEF Levels!Max
    <3>4. Levels!Min(Members) = y
      <4>1. \A z \in Members : (\A t \in Members : z <= t) <=> z = y
        BY <2>1, <3>2
      <4> QED BY <4>1 DEF Levels!Min
    <3> QED BY <3>1, <3>2, <3>3, <3>4 DEF BestPricesCorrect, Levels!BestBid, Levels!BestOffer
  <2> QED BY <2>2, <2>3
<1> QED BY <1>1, Invariance, PTL
=============================================================================
