----------------------------- MODULE RingsProofs -----------------------------
(***************************************************************************)
(* Proofs about the rings of the two hosts: about SampleRing, for every    *)
(* capacity, every alignment, every length of the slices and every bound   *)
(* of the indices, and about WebAudioOutput, for every number of slots,    *)
(* every period of the indices that they divide and every bound.           *)
(***************************************************************************)
EXTENDS SampleRing, WebAudioOutput, SequenceTheorems, FiniteSetTheorems, TLAPS

\* Masking an index leaves the remainder of its division by the capacity.
LEMMA DivisionOfIndex ==
    ASSUME NEW i \in Nat
    PROVE  /\ i = Capacity * (i \div Capacity) + (i % Capacity)
           /\ i \div Capacity \in Nat
           /\ Slot(i) \in 0 .. Capacity - 1
BY CapacityAssumption, SMT DEF Slot

\* A larger quotient means an index at least a capacity further on.
LEMMA NextMultiple ==
    ASSUME NEW p \in Nat, NEW q \in Nat, p > q
    PROVE  Capacity * p >= Capacity * q + Capacity
<1>1. PICK d \in Nat : p = q + 1 + d
  BY SMT
<1>2. Capacity * p = Capacity * q + Capacity + Capacity * d
  BY <1>1, CapacityAssumption, SMT
<1>3. Capacity * d >= 0
  BY CapacityAssumption, SMT
<1> QED
  BY <1>2, <1>3, CapacityAssumption, SMT

(***************************************************************************)
(* Two absolute indices less than the capacity apart have different slots. *)
(* The masking of push_slice, produce and consume rests on it.             *)
(***************************************************************************)
LEMMA DistinctSlots ==
    ASSUME NEW i \in Nat, NEW j \in Nat, i < j, j - i < Capacity
    PROVE  Slot(i) # Slot(j)
<1> SUFFICES ASSUME i % Capacity = j % Capacity PROVE FALSE
  BY DEF Slot
<1>1. j - i = Capacity * (j \div Capacity) - Capacity * (i \div Capacity)
  BY DivisionOfIndex, CapacityAssumption, SMT
<1>2. CASE j \div Capacity > i \div Capacity
  BY <1>1, <1>2, NextMultiple, DivisionOfIndex, CapacityAssumption, SMT
<1>3. CASE j \div Capacity = i \div Capacity
  BY <1>1, <1>3, DivisionOfIndex, CapacityAssumption, SMT
<1>4. CASE j \div Capacity < i \div Capacity
  BY <1>1, <1>4, NextMultiple, DivisionOfIndex, CapacityAssumption, SMT
<1> QED
  BY <1>2, <1>3, <1>4, DivisionOfIndex

(***************************************************************************)
(* What the two counts may be, whatever was asked for: rounding down to    *)
(* whole frames never exceeds what is free or what is published.           *)
(***************************************************************************)
LEMMA AlignedIsLess ==
    ASSUME NEW count \in Nat, NEW alignment \in Nat \ {0}
    PROVE  Aligned(count, alignment) \in 0 .. count
<1>1. count % alignment \in Nat /\ count % alignment <= count
  BY SMT
<1> QED
  BY <1>1, SMT DEF Aligned

\* A push fits into what is free, whatever slice it is given.
LEMMA PushCountFits ==
    ASSUME TypeOK, IndicesInv, NEW n \in PushSizes
    PROVE  /\ PushCount(n) \in Nat
           /\ writeIndex + PushCount(n) <= readIndex + Capacity
<1> DEFINE m == MinOf(n, Available)
<1>1. Available = Capacity - (writeIndex - readIndex)
  BY CapacityAssumption, SMT
     DEF TypeOK, IndicesInv, Available, RingLen, SaturatingSub
<1>2. m \in Nat /\ m <= Available
  BY <1>1, SizesAssumption, CapacityAssumption, SMT
     DEF MinOf, TypeOK, IndicesInv
<1>3. PushCount(n) \in 0 .. m
  BY <1>2, SizesAssumption, AlignedIsLess DEF PushCount
<1> QED
  BY <1>1, <1>2, <1>3, CapacityAssumption, SMT DEF TypeOK

\* A consume takes no more than what was published when it looked.
LEMMA PopCountFits ==
    ASSUME TypeOK, IndicesInv, NEW n \in PopSizes
    PROVE  /\ PopCount(n) \in Nat
           /\ readIndex + PopCount(n) <= writeIndex
<1> DEFINE m == MinOf(n, RingLen)
<1>1. RingLen = writeIndex - readIndex
  BY SMT DEF TypeOK, IndicesInv, RingLen, SaturatingSub
<1>2. m \in Nat /\ m <= RingLen
  BY <1>1, SizesAssumption, SMT DEF MinOf, TypeOK, IndicesInv
<1>3. PopCount(n) \in 0 .. m
  BY <1>2, SizesAssumption, AlignedIsLess DEF PopCount
<1> QED
  BY <1>1, <1>2, <1>3, SMT DEF TypeOK
-----------------------------------------------------------------------------
(***************************************************************************)
(* Type correctness needs the room of the present call, not only types:    *)
(* the invariant of the counts is proved together with it.                 *)
(***************************************************************************)
Inv == TypeOK /\ RingInv

\* sample_ring makes an empty ring, in which nothing is being copied.
LEMMA InitInv == Init => Inv
<1> SUFFICES ASSUME Init PROVE Inv
  OBVIOUS
<1>1. TypeOK
  BY CapacityAssumption, SMT DEF Init, TypeOK
<1>2. RingInv
  BY CapacityAssumption, SMT
     DEF Init, RingInv, IndicesInv, ProducerInv, ConsumerInv, SlotsInv,
         CopiesAreIntact
<1> QED
  BY <1>1, <1>2 DEF Inv

\* Every step of either thread keeps indices and counts natural numbers.
LEMMA TypeStep ==
    ASSUME Inv, [Next]_vars
    PROVE  TypeOK'
<1> USE DEF Inv
<1>1. ASSUME NEW n \in PushSizes, BeginPush(n) PROVE TypeOK'
  BY <1>1, PushCountFits, SMT DEF BeginPush, TypeOK, RingInv, cVars
<1>2. CASE WriteSlot
  <2>1. writeIndex + pOffset \in Nat
    BY SMT DEF TypeOK
  <2>2. Slot(writeIndex + pOffset) \in 0 .. Capacity - 1
    BY <2>1, DivisionOfIndex
  <2> QED
    BY <1>2, <2>1, <2>2, SMT DEF WriteSlot, TypeOK, cVars
<1>3. CASE FinishPush
  BY <1>3, SMT DEF FinishPush, TypeOK, cVars
<1>4. ASSUME NEW n \in PopSizes, BeginConsume(n) PROVE TypeOK'
  BY <1>4, PopCountFits, SMT DEF BeginConsume, TypeOK, RingInv, pVars
<1>5. CASE ReadSlot
  <2>1. readIndex + Len(cOut) \in Nat
    BY SMT DEF TypeOK
  <2>2. Slot(readIndex + Len(cOut)) \in 0 .. Capacity - 1
    BY <2>1, DivisionOfIndex
  <2>3. slots[Slot(readIndex + Len(cOut))] \in Nat
    BY <2>2 DEF TypeOK
  <2> QED
    BY <1>5, <2>3, SMT DEF ReadSlot, TypeOK, pVars
<1>6. CASE FinishConsume
  BY <1>6, SMT DEF FinishConsume, TypeOK, pVars
<1>7. CASE BeginDiscard
  BY <1>7, SMT DEF BeginDiscard, TypeOK, pVars
<1>8. CASE FinishDiscard
  BY <1>8, SMT DEF FinishDiscard, TypeOK, pVars
<1>9. CASE UNCHANGED vars
  BY <1>9 DEF vars, pVars, cVars, TypeOK
<1> QED
  BY <1>1, <1>2, <1>3, <1>4, <1>5, <1>6, <1>7, <1>8, <1>9 DEF Next

(***************************************************************************)
(* The producer's steps keep RingInv.  The one that matters is WriteSlot:  *)
(* the slot it overwrites is none of those between the indices.            *)
(***************************************************************************)
LEMMA ProducerStep ==
    ASSUME Inv, TypeOK',
           (\E n \in PushSizes : BeginPush(n)) \/ WriteSlot \/ FinishPush
    PROVE  RingInv'
<1> USE DEF Inv, RingInv
<1>1. ASSUME NEW n \in PushSizes, BeginPush(n) PROVE RingInv'
  <2>1. PushCount(n) \in Nat /\ writeIndex + PushCount(n) <= readIndex + Capacity
    BY PushCountFits
  <2>2. (IndicesInv /\ ProducerInv /\ ConsumerInv /\ CopiesAreIntact)'
    BY <1>1, <2>1, SMT DEF BeginPush, cVars, TypeOK, IndicesInv, ProducerInv,
                           ConsumerInv, CopiesAreIntact
  <2>3. SlotsInv'
    BY <1>1, SMT DEF BeginPush, SlotsInv, TypeOK, Slot
  <2> QED
    BY <2>2, <2>3
<1>2. CASE WriteSlot
  <2> DEFINE w == writeIndex + pOffset
  <2>1. w \in Nat /\ Slot(w) \in 0 .. Capacity - 1 /\ w < readIndex + Capacity
    BY <1>2, DivisionOfIndex, CapacityAssumption, SMT
       DEF WriteSlot, TypeOK, ProducerInv
  <2>2. (IndicesInv /\ ProducerInv /\ ConsumerInv /\ CopiesAreIntact)'
    BY <1>2, SMT DEF WriteSlot, cVars, TypeOK, IndicesInv, ProducerInv,
                     ConsumerInv, CopiesAreIntact
  <2>3. SlotsInv'
    <3> SUFFICES ASSUME NEW i \in readIndex .. w
                 PROVE  slots'[Slot(i)] = i
      BY <1>2, SMT DEF WriteSlot, SlotsInv, TypeOK, Slot
    <3>1. CASE i = w
      <4>1. slots' = [slots EXCEPT ![Slot(w)] = w] /\ DOMAIN slots = 0 .. Capacity - 1
        BY <1>2, Zenon DEF WriteSlot, TypeOK
      <4> QED
        BY <2>1, <3>1, <4>1, Zenon
    <3>2. CASE i < w
      <4>1. i \in Nat /\ Slot(i) # Slot(w)
        BY <3>2, <2>1, DistinctSlots, CapacityAssumption, SMT DEF TypeOK
      <4>2. slots[Slot(i)] = i
        BY <3>2, SMT DEF SlotsInv, TypeOK
      <4>3. Slot(i) \in 0 .. Capacity - 1
        BY <4>1, DivisionOfIndex
      <4> QED
        BY <1>2, <4>1, <4>2, <4>3 DEF WriteSlot, TypeOK
    <3> QED
      BY <3>1, <3>2, <2>1, SMT DEF TypeOK
  <2> QED
    BY <2>2, <2>3
<1>3. CASE FinishPush
  <2>1. (IndicesInv /\ ProducerInv /\ ConsumerInv /\ CopiesAreIntact)'
    BY <1>3, CapacityAssumption, SMT
       DEF FinishPush, cVars, TypeOK, IndicesInv, ProducerInv, ConsumerInv,
           CopiesAreIntact
  <2>2. SlotsInv'
    BY <1>3, SMT DEF FinishPush, SlotsInv, TypeOK, Slot
  <2> QED
    BY <2>1, <2>2
<1> QED
  BY <1>1, <1>2, <1>3

(***************************************************************************)
(* The consumer's steps keep RingInv: what ReadSlot copies is the sample   *)
(* that belongs there, and an index only ever moves up to the other.       *)
(***************************************************************************)
LEMMA ConsumerStep ==
    ASSUME Inv, TypeOK',
           \/ \E n \in PopSizes : BeginConsume(n)
           \/ ReadSlot \/ FinishConsume \/ BeginDiscard \/ FinishDiscard
    PROVE  RingInv'
<1> USE DEF Inv, RingInv
<1>1. ASSUME NEW n \in PopSizes, BeginConsume(n) PROVE RingInv'
  <2>1. PopCount(n) \in Nat /\ readIndex + PopCount(n) <= writeIndex
    BY PopCountFits
  <2>2. (IndicesInv /\ ProducerInv /\ ConsumerInv /\ CopiesAreIntact)'
    BY <1>1, <2>1, SMT DEF BeginConsume, pVars, TypeOK, IndicesInv,
                           ProducerInv, ConsumerInv, CopiesAreIntact
  <2>3. SlotsInv'
    BY <1>1, SMT DEF BeginConsume, pVars, SlotsInv, TypeOK, Slot
  <2> QED
    BY <2>2, <2>3
<1>2. CASE ReadSlot
  <2> DEFINE r == readIndex + Len(cOut)
  <2>1. slots[Slot(r)] = r
    BY <1>2, SMT DEF ReadSlot, TypeOK, SlotsInv, ConsumerInv, IndicesInv
  <2>2. cOut' = Append(cOut, r)
    BY <1>2, <2>1 DEF ReadSlot
  <2>3. Len(cOut') = Len(cOut) + 1
    BY <2>2, SMT DEF TypeOK
  <2>4. CopiesAreIntact'
    <3>1. cPc = "read" /\ readIndex' = readIndex
      BY <1>2 DEF ReadSlot
    <3>2. SUFFICES ASSUME NEW k \in 1 .. Len(cOut) + 1
                   PROVE  cOut'[k] = readIndex + k - 1
      BY <2>3, <3>1, Zenon DEF CopiesAreIntact
    <3>3. CASE k <= Len(cOut)
      <4>1. cOut'[k] = cOut[k]
        BY <2>2, <3>3, SMT DEF TypeOK
      <4> QED
        BY <3>1, <3>3, <4>1, SMT DEF TypeOK, CopiesAreIntact
    <3>4. CASE k = Len(cOut) + 1
      BY <2>2, <3>4, SMT DEF TypeOK
    <3> QED
      <4>1. Len(cOut) \in Nat
        BY SMT DEF TypeOK
      <4>2. k <= Len(cOut) \/ k = Len(cOut) + 1
        BY <3>2, <4>1, SMT
      <4> QED
        BY <4>2, <3>3, <3>4
  <2>5. (IndicesInv /\ ProducerInv)'
    BY <1>2 DEF ReadSlot, pVars, IndicesInv, ProducerInv
  <2>6. ConsumerInv'
    <3>1. /\ cPc = "read" /\ cPc' = "read" /\ Len(cOut) < cCount
          /\ UNCHANGED <<readIndex, writeIndex, cCount>>
      BY <1>2 DEF ReadSlot
    <3> QED
      BY <3>1, <2>3, SMT DEF TypeOK, ConsumerInv
  <2>7. SlotsInv'
    BY <1>2, SMT DEF ReadSlot, pVars, SlotsInv, TypeOK, Slot
  <2> QED
    BY <2>4, <2>5, <2>6, <2>7
<1>3. CASE FinishConsume
  <2>1. (IndicesInv /\ ProducerInv /\ ConsumerInv /\ CopiesAreIntact)'
    BY <1>3, CapacityAssumption, SMT
       DEF FinishConsume, pVars, TypeOK, IndicesInv, ProducerInv, ConsumerInv,
           CopiesAreIntact
  <2>2. SlotsInv'
    BY <1>3, SMT DEF FinishConsume, pVars, SlotsInv, TypeOK, Slot
  <2> QED
    BY <2>1, <2>2
<1>4. CASE BeginDiscard
  <2>1. (IndicesInv /\ ProducerInv /\ ConsumerInv /\ CopiesAreIntact)'
    BY <1>4, SMT DEF BeginDiscard, pVars, TypeOK, IndicesInv, ProducerInv,
                     ConsumerInv, CopiesAreIntact
  <2>2. SlotsInv'
    BY <1>4, SMT DEF BeginDiscard, pVars, SlotsInv, TypeOK, Slot
  <2> QED
    BY <2>1, <2>2
<1>5. CASE FinishDiscard
  <2>1. (IndicesInv /\ ProducerInv /\ ConsumerInv /\ CopiesAreIntact)'
    BY <1>5, CapacityAssumption, SMT
       DEF FinishDiscard, pVars, TypeOK, IndicesInv, ProducerInv, ConsumerInv,
           CopiesAreIntact
  <2>2. SlotsInv'
    BY <1>5, SMT DEF FinishDiscard, pVars, SlotsInv, TypeOK, Slot, ConsumerInv
  <2> QED
    BY <2>1, <2>2
<1> QED
  BY <1>1, <1>2, <1>3, <1>4, <1>5

\* No step of the producer, the consumer or a discard breaks the invariant.
LEMMA InvIsInductive == Inv /\ [Next]_vars => Inv'
<1> SUFFICES ASSUME Inv, [Next]_vars PROVE Inv'
  OBVIOUS
<1>1. TypeOK'
  BY TypeStep
<1>2. CASE UNCHANGED vars
  BY <1>2 DEF Inv, vars, pVars, cVars, TypeOK, RingInv, IndicesInv,
              ProducerInv, ConsumerInv, SlotsInv, CopiesAreIntact, Slot
<1> QED
  BY <1>1, <1>2, ProducerStep, ConsumerStep DEF Next, Inv

-----------------------------------------------------------------------------
\* The invariant holds in every behaviour of the two threads on the ring.
THEOREM InvariantHolds == Spec => []Inv
<1>1. Init => Inv
  BY InitInv
<1>2. Inv /\ [Next]_vars => Inv'
  BY InvIsInductive
<1> QED
  BY <1>1, <1>2, PTL DEF Spec

\* Type correctness: every index, count and copied sample is a natural.
THEOREM TypeCorrect == Spec => []TypeOK
BY InvariantHolds, PTL DEF Inv

(***************************************************************************)
(* The slots from the read index up to what the producer has written hold  *)
(* the samples that belong there, and no index overtakes the other: push,  *)
(* produce, consume and discard_buffered keep it with any interleaving.    *)
(***************************************************************************)
THEOREM RingIsConsistent == Spec => []RingInv
BY InvariantHolds, PTL DEF Inv

\* What consume has copied in the middle of a call is the published samples.
THEOREM ConsumedSamplesAreIntact == Spec => []CopiesAreIntact
<1>1. Inv => CopiesAreIntact
  BY DEF Inv, RingInv
<1> QED
  BY <1>1, InvariantHolds, PTL

(***************************************************************************)
(* The two SAFETY comments of the unsafe blocks hold: produce writes only  *)
(* unpublished slots and consume reads only published ones.                *)
(***************************************************************************)
THEOREM NoSlotIsShared == Spec => []NoDataRace
<1>1. Inv => NoDataRace
  <2> SUFFICES ASSUME Inv PROVE NoDataRace
    OBVIOUS
  <2> USE DEF Inv, RingInv
  <2>1. ASSUME NEW i \in ToWrite, NEW j \in Published
        PROVE  Slot(i) # Slot(j)
    <3>1. i \in Nat /\ j \in Nat /\ j < i /\ i - j < Capacity
      BY CapacityAssumption, SMT
         DEF ToWrite, Published, TypeOK, IndicesInv, ProducerInv
    <3> QED
      BY <3>1, DistinctSlots
  <2>2. ToRead \subseteq Published
    BY SMT DEF ToRead, Published, TypeOK, IndicesInv, ConsumerInv
  <2> QED
    BY <2>1, <2>2 DEF NoDataRace
<1> QED
  BY <1>1, InvariantHolds, PTL
-----------------------------------------------------------------------------
\* Dividing leaves one remainder.
LEMMA Remainder ==
    ASSUME NEW p \in Nat \ {0}, NEW q \in Nat, NEW r \in Nat,
           NEW u \in Nat, NEW v \in Nat, u < p, v < p, p * q + u = p * r + v
    PROVE  u = v
<1>1. ASSUME NEW a \in Nat, NEW b \in Nat, NEW x \in Nat, NEW y \in Nat,
             x < p, y < p, p * a + x = p * b + y, a > b
      PROVE  FALSE
  <2>1. PICK d \in Nat : a = b + 1 + d
    BY <1>1, SMT
  <2>2. p * a = p * b + p + p * d
    BY <2>1, SMT
  <2>3. p * d \in Nat /\ p * a \in Nat /\ p * b \in Nat
    BY <1>1, SMT
  <2> DEFINE P == p * a
             Q == p * b
             R == p * d
  <2>4. P = Q + p + R /\ P + x = Q + y /\ P \in Nat /\ Q \in Nat /\ R \in Nat
    BY <1>1, <2>2, <2>3
  <2> HIDE DEF P, Q, R
  <2> QED
    BY <1>1, <2>4, SMT
<1>2. ~(q > r) /\ ~(r > q)
  BY <1>1
<1>3. q = r
  BY <1>2, SMT
<1> QED
  BY <1>3, SMT

\* A number of samples that makes up whole frames of the consumer's stream.
WholeFrames(n) == \E q \in Nat : n = PopAlignment * q

\* Nothing is a whole number of frames, and so is what two of them make up.
LEMMA FramesAdd ==
    /\ WholeFrames(0)
    /\ \A m, n \in Nat : WholeFrames(m) /\ WholeFrames(n) => WholeFrames(m + n)
<1>1. WholeFrames(0)
  <2>1. 0 = PopAlignment * 0
    BY SizesAssumption, SMT
  <2> QED
    BY <2>1 DEF WholeFrames
<1>2. ASSUME NEW m \in Nat, NEW n \in Nat, WholeFrames(m), WholeFrames(n)
      PROVE  WholeFrames(m + n)
  <2>1. PICK a \in Nat : m = PopAlignment * a
    BY <1>2 DEF WholeFrames
  <2>2. PICK b \in Nat : n = PopAlignment * b
    BY <1>2 DEF WholeFrames
  <2>3. a + b \in Nat /\ m + n = PopAlignment * (a + b)
    BY <2>1, <2>2, SizesAssumption, SMT
  <2> QED
    BY <2>3 DEF WholeFrames
<1> QED
  BY <1>1, <1>2

\* Rounding down leaves whole frames.
LEMMA AlignedIsWhole ==
    ASSUME NEW count \in Nat
    PROVE  WholeFrames(Aligned(count, PopAlignment))
<1> DEFINE p == PopAlignment
           q == count \div p
<1>1. q \in Nat /\ count = p * q + (count % p)
  BY SizesAssumption, SMT
<1>2. p * q \in Nat /\ count % p \in Nat
  BY <1>1, SizesAssumption, SMT
<1>3. Aligned(count, p) = p * q
  <2> DEFINE x == p * q
             y == count % p
  <2>1. count = x + y /\ x \in Nat /\ y \in Nat
    BY <1>1, <1>2
  <2> HIDE DEF x, y
  <2>2. count - y = x
    BY <2>1, SMT
  <2> QED
    BY <2>2 DEF x, y, Aligned
<1> QED
  BY <1>1, <1>3 DEF WholeFrames

\* Behind whole frames each sample has the channel of its place.
LEMMA ChannelOfPlace ==
    ASSUME NEW n \in Nat, WholeFrames(n), NEW k \in Nat
    PROVE  (n + k) % PopAlignment = k % PopAlignment
<1> DEFINE p == PopAlignment
           a == (n + k) \div p
           b == k \div p
           u == (n + k) % p
           v == k % p
<1>1. p \in Nat \ {0}
  BY SizesAssumption
<1>2. PICK q \in Nat : n = p * q
  BY DEF WholeFrames
<1>3. /\ a \in Nat /\ u \in Nat /\ u < p /\ n + k = p * a + u
      /\ b \in Nat /\ v \in Nat /\ v < p /\ k = p * b + v
  BY <1>1, SMT
<1>4. p * (q + b) = n + p * b /\ q + b \in Nat /\ p * b \in Nat
  BY <1>1, <1>2, <1>3, SMT
<1>5. p * a + u = p * (q + b) + v
  <2> DEFINE x == p * a
             y == p * b
             z == p * (q + b)
  <2>1. n + k = x + u /\ k = y + v /\ z = n + y /\ y \in Nat /\ x \in Nat
    BY <1>1, <1>3, <1>4
  <2> HIDE DEF x, y, z, u, v
  <2>2. u \in Nat /\ v \in Nat
    BY <1>3
  <2>3. x + u = z + v
    BY <2>1, <2>2, SMT
  <2> QED
    BY <2>3 DEF x, z
<1> HIDE DEF a, b, u, v, p
<1>6. u = v
  BY <1>1, <1>3, <1>4, <1>5, Remainder
<1> QED
  BY <1>6 DEF u, v, p

(***************************************************************************)
(* Why channels never rotate: the consumer's index only moves by whole     *)
(* frames, or up to the index of a producer that publishes nothing else.   *)
(***************************************************************************)
FramesInv ==
    /\ WholeFrames(readIndex)
    /\ cPc = "read" => WholeFrames(cCount)
    /\ MayDiscard => WholeFrames(writeIndex) /\ WholeFrames(pCount)
    /\ cPc = "discard" => MayDiscard /\ WholeFrames(cCount)

ChannelInv == FramesInv /\ ChannelsKeepTheirPlace

\* The counts of both sides are whole frames where they have to be.
LEMMA CountsAreWhole ==
    ASSUME TypeOK, IndicesInv
    PROVE  /\ \A n \in PopSizes : WholeFrames(PopCount(n))
           /\ MayDiscard => \A n \in PushSizes : WholeFrames(PushCount(n))
<1>1. ASSUME NEW n \in PopSizes PROVE WholeFrames(PopCount(n))
  <2>1. MinOf(n, RingLen) \in Nat
    BY SizesAssumption, SMT
       DEF TypeOK, IndicesInv, RingLen, SaturatingSub, MinOf
  <2> QED
    BY <2>1, AlignedIsWhole DEF PopCount
<1>2. ASSUME MayDiscard, NEW n \in PushSizes PROVE WholeFrames(PushCount(n))
  <2>1. MinOf(n, Available) \in Nat
    BY SizesAssumption, CapacityAssumption, SMT
       DEF TypeOK, IndicesInv, RingLen, Available, SaturatingSub, MinOf
  <2> QED
    BY <1>2, <2>1, AlignedIsWhole, FramesAssumption DEF PushCount
<1> QED
  BY <1>1, <1>2

\* Each step moves an index by whole frames, if it moves one.
LEMMA FramesStep ==
    ASSUME Inv, FramesInv, [Next]_vars
    PROVE  FramesInv'
<1> USE DEF Inv
<1>0. /\ readIndex \in Nat /\ writeIndex \in Nat /\ pCount \in Nat /\ cCount \in Nat
      /\ "idle" # "read" /\ "idle" # "discard" /\ "read" # "discard"
      /\ IndicesInv
  BY SMT DEF TypeOK, RingInv
<1>1. ASSUME NEW n \in PushSizes, BeginPush(n) PROVE FramesInv'
  BY <1>0, <1>1, CountsAreWhole DEF BeginPush, cVars, FramesInv, WholeFrames
<1>2. CASE WriteSlot \/ UNCHANGED vars
  BY <1>2, Zenon DEF WriteSlot, vars, pVars, cVars, FramesInv, WholeFrames
<1>3. CASE FinishPush
  BY <1>0, <1>3, FramesAdd, Zenon DEF FinishPush, cVars, FramesInv
<1>4. ASSUME NEW n \in PopSizes, BeginConsume(n) PROVE FramesInv'
  BY <1>0, <1>4, CountsAreWhole, Zenon DEF BeginConsume, pVars, FramesInv, WholeFrames
<1>5. CASE ReadSlot
  BY <1>5, Zenon DEF ReadSlot, pVars, FramesInv, WholeFrames
<1>6. CASE FinishConsume
  <2>1. /\ cPc = "read" /\ cPc' = "idle" /\ readIndex' = readIndex + cCount
        /\ UNCHANGED <<writeIndex, pCount>>
    BY <1>6, Zenon DEF FinishConsume, pVars
  <2>2. WholeFrames(readIndex')
    BY <1>0, <2>1, FramesAdd, Zenon DEF FramesInv
  <2> QED
    BY <1>0, <2>1, <2>2, Zenon DEF FramesInv, WholeFrames
<1>7. CASE BeginDiscard
  BY <1>0, <1>7, Zenon DEF BeginDiscard, pVars, FramesInv, WholeFrames
<1>8. CASE FinishDiscard
  BY <1>0, <1>8, Zenon DEF FinishDiscard, pVars, FramesInv, WholeFrames
<1> QED
  BY <1>1, <1>2, <1>3, <1>4, <1>5, <1>6, <1>7, <1>8 DEF Next

\* What a finished call hands over are consecutive samples behind whole frames.
LEMMA ChannelStep ==
    ASSUME Inv, FramesInv, ChannelsKeepTheirPlace, [Next]_vars
    PROVE  ChannelsKeepTheirPlace'
<1>1. CASE UNCHANGED taken
  BY <1>1 DEF ChannelsKeepTheirPlace
<1>2. CASE FinishConsume
  <2>1. taken' = cOut /\ cPc = "read" /\ readIndex \in Nat /\ cOut \in Seq(Nat)
    BY <1>2 DEF FinishConsume, Inv, TypeOK
  <2> SUFFICES ASSUME NEW k \in 1 .. Len(cOut)
               PROVE  cOut[k] % PopAlignment = (k - 1) % PopAlignment
    BY <2>1 DEF ChannelsKeepTheirPlace
  <2>2. cOut[k] = readIndex + k - 1
    BY <2>1 DEF Inv, RingInv, CopiesAreIntact
  <2>3. k - 1 \in Nat /\ cOut[k] = readIndex + (k - 1)
    BY <2>1, <2>2, SMT
  <2> QED
    BY <2>1, <2>3, ChannelOfPlace DEF FramesInv
<1>3. UNCHANGED taken \/ FinishConsume
  BY Zenon DEF Next, vars, BeginPush, WriteSlot, FinishPush, BeginConsume,
     ReadSlot, BeginDiscard, FinishDiscard
<1> QED
  BY <1>1, <1>2, <1>3

(***************************************************************************)
(* Channels never rotate: for every number of channels and every capacity, *)
(* whether or not frames fit into it evenly, the sample at a place of what *)
(* pop_slice_aligned or consume hands over belongs to the channel of that  *)
(* place.                                                                  *)
(***************************************************************************)
THEOREM ChannelsNeverRotate == Spec => []ChannelsKeepTheirPlace
<1>1. Init => ChannelInv
  <2> SUFFICES ASSUME Init PROVE ChannelInv
    OBVIOUS
  <2>1. /\ readIndex = 0 /\ writeIndex = 0 /\ pCount = 0
        /\ cPc # "read" /\ cPc # "discard" /\ Len(taken) = 0
    BY SMT DEF Init
  <2> QED
    BY <2>1, FramesAdd, SMT DEF ChannelInv, FramesInv, ChannelsKeepTheirPlace
<1>2. Inv /\ ChannelInv /\ [Next]_vars => ChannelInv'
  BY FramesStep, ChannelStep DEF ChannelInv
<1>3. ChannelInv => ChannelsKeepTheirPlace
  BY DEF ChannelInv
<1> QED
  BY <1>1, <1>2, <1>3, InvariantHolds, PTL DEF Spec
-----------------------------------------------------------------------------
(***************************************************************************)
(* SampleRing implements SampleQueue, for every value of the constants.    *)
(* Under Inv the queue that the slots represent is the run of indices      *)
(* between the two atomics, so a step is known by what it does to these    *)
(* two.                                                                    *)
(***************************************************************************)
\* The samples from r up to and not including w, in order.
Run(r, w) == [k \in 1 .. w - r |-> r + k - 1]

\* A run is a sequence of as many samples as its ends are apart.
LEMMA RunIsSeq ==
    ASSUME NEW r \in Nat, NEW w \in Nat, r <= w
    PROVE  /\ Run(r, w) \in Seq(Nat)
           /\ Len(Run(r, w)) = w - r
           /\ \A k \in 1 .. w - r : Run(r, w)[k] = r + k - 1
<1>1. Run(r, w) \in [1 .. w - r -> Nat] /\ w - r \in Nat
  BY SMT DEF Run
<1>2. Run(r, w) \in Seq(Nat)
  BY <1>1, SeqDef, SMT
<1>3. Len(Run(r, w)) = w - r
  BY <1>1, <1>2, LenProperties, SMT
<1> QED
  BY <1>2, <1>3, SMT DEF Run

\* A push appends a run that starts where the queue ends.
LEMMA RunConcat ==
    ASSUME NEW r \in Nat, NEW w \in Nat, NEW v \in Nat, r <= w, w <= v
    PROVE  Run(r, w) \o Run(w, v) = Run(r, v)
<1> DEFINE s == Run(r, w)
           t == Run(w, v)
           u == Run(r, v)
<1>1. s \in Seq(Nat) /\ Len(s) = w - r /\ \A k \in 1 .. w - r : s[k] = r + k - 1
  BY RunIsSeq
<1>2. t \in Seq(Nat) /\ Len(t) = v - w /\ \A k \in 1 .. v - w : t[k] = w + k - 1
  BY RunIsSeq
<1>3. u \in Seq(Nat) /\ Len(u) = v - r /\ \A k \in 1 .. v - r : u[k] = r + k - 1
  <2>1. r <= v
    BY SMT
  <2> QED
    BY <2>1, RunIsSeq
<1> HIDE DEF s, t, u
<1>4. /\ s \o t \in Seq(Nat)
      /\ Len(s \o t) = Len(s) + Len(t)
      /\ \A k \in 1 .. Len(s) + Len(t) :
            (s \o t)[k] = IF k <= Len(s) THEN s[k] ELSE t[k - Len(s)]
  BY <1>1, <1>2, ConcatProperties
<1>5. Len(s \o t) = Len(u)
  BY <1>1, <1>2, <1>3, <1>4, SMT
<1>6. ASSUME NEW k \in 1 .. Len(s \o t) PROVE (s \o t)[k] = u[k]
  <2>0. k \in 1 .. v - r
    BY <1>3, <1>5
  <2>1. CASE k <= w - r
    BY <1>1, <1>2, <1>3, <1>4, <2>0, <2>1, SMT
  <2>2. CASE k > w - r
    <3>1. k - (w - r) \in 1 .. v - w
      BY <2>0, <2>2, SMT
    <3>2. t[k - (w - r)] = w + (k - (w - r)) - 1
      BY <1>2, <3>1
    <3>3. (s \o t)[k] = t[k - (w - r)]
      <4>1. Len(s) = w - r /\ k \in 1 .. Len(s) + Len(t)
        BY <1>1, <1>4
      <4>2. ~(k <= Len(s))
        BY <2>0, <2>2, <4>1, SMT
      <4> QED
        BY <1>4, <4>1, <4>2, Zenon
    <3>4. u[k] = r + k - 1
      BY <1>3, <2>0
    <3>5. w + (k - (w - r)) - 1 = r + k - 1
      BY <2>0, SMT
    <3> QED
      BY <3>2, <3>3, <3>4, <3>5
  <2> QED
    BY <2>0, <2>1, <2>2, SMT
<1>7. s \o t = u
  BY <1>3, <1>4, <1>5, <1>6, SeqEqual
<1> QED
  BY <1>7 DEF s, t, u

\* A part of a run is a run: the taken samples and what they leave behind.
LEMMA RunSubSeq ==
    ASSUME NEW r \in Nat, NEW w \in Nat, NEW a \in Nat, NEW b \in Nat,
           r <= a, a <= b, b <= w
    PROVE  SubSeq(Run(r, w), a - r + 1, b - r) = Run(a, b)
<1> DEFINE s == SubSeq(Run(r, w), a - r + 1, b - r)
<1>0. r <= w /\ \A k \in 1 .. w - r : Run(r, w)[k] = r + k - 1
  <2>1. r <= w
    BY SMT
  <2> QED
    BY <2>1, RunIsSeq
<1>1. \A i \in a - r + 1 .. b - r : Run(r, w)[i] \in Nat
  BY <1>0, SMT
<1>2. /\ s \in Seq(Nat)
      /\ Len(s) = b - a
      /\ \A i \in 1 .. b - a : s[i] = Run(r, w)[a - r + i]
  <2>1. a - r + 1 \in Int /\ b - r \in Int
    BY SMT
  <2>2. /\ s \in Seq(Nat)
        /\ Len(s) = IF a - r + 1 <= b - r THEN b - r - (a - r + 1) + 1 ELSE 0
        /\ \A i \in 1 .. b - r - (a - r + 1) + 1 :
              s[i] = Run(r, w)[a - r + 1 + i - 1]
    BY <1>1, <2>1, SubSeqProperties
  <2>3. /\ b - r - (a - r + 1) + 1 = b - a
        /\ \A i \in Int : a - r + 1 + i - 1 = a - r + i
    BY SMT
  <2> QED
    BY <2>2, <2>3, SMT
<1>3. /\ Run(a, b) \in Seq(Nat)
      /\ Len(Run(a, b)) = b - a
      /\ \A i \in 1 .. b - a : Run(a, b)[i] = a + i - 1
  BY RunIsSeq
<1>4. \A i \in 1 .. b - a : s[i] = Run(a, b)[i]
  <2> TAKE i \in 1 .. b - a
  <2>1. a - r + i \in 1 .. w - r
    BY SMT
  <2>2. s[i] = r + (a - r + i) - 1
    BY <1>0, <1>2, <2>1
  <2> QED
    BY <1>3, <2>2, SMT
<1> HIDE DEF s
<1>5. s = Run(a, b)
  <2>1. \A i \in 1 .. Len(s) : s[i] = Run(a, b)[i]
    BY <1>2, <1>4
  <2> QED
    BY <1>2, <1>3, <2>1, SeqEqual
<1> QED
  BY <1>5 DEF s

\* The first n samples of a run, and those behind them, are runs.
Splits(r, w, n) ==
    /\ SubSeq(Run(r, w), 1, n) = Run(r, r + n)
    /\ SubSeq(Run(r, w), n + 1, w - r) = Run(r + n, w)

\* Consuming or discarding n samples of a run leaves the run behind them.
LEMMA RunSplits ==
    ASSUME NEW r \in Nat, NEW w \in Nat, NEW n \in Nat, r + n <= w
    PROVE  Splits(r, w, n)
<1>1. /\ r + n \in Nat /\ r <= r + n
      /\ r - r + 1 = 1 /\ (r + n) - r = n /\ (r + n) - r + 1 = n + 1
      /\ r <= r /\ w <= w
  BY SMT
<1>2. SubSeq(Run(r, w), r - r + 1, (r + n) - r) = Run(r, r + n)
  BY <1>1, RunSubSeq
<1>3. SubSeq(Run(r, w), (r + n) - r + 1, w - r) = Run(r + n, w)
  BY <1>1, RunSubSeq
<1> QED
  BY <1>1, <1>2, <1>3 DEF Splits
-----------------------------------------------------------------------------
\* A place in the queue is an index that a slot is known for.
LEMMA IndexOfPlace ==
    ASSUME NEW r \in Nat, NEW w \in Nat, NEW o \in Nat, NEW k \in 1 .. w - r
    PROVE  r + k - 1 \in r .. w + o - 1
BY SMT

\* Between the indices the slots hold the run of samples that belongs there.
LEMMA ContentsAreRun ==
    ASSUME Inv
    PROVE  Contents = Run(readIndex, writeIndex)
<1>1. \A k \in 1 .. writeIndex - readIndex :
          slots[Slot(readIndex + k - 1)] = readIndex + k - 1
  BY SMT DEF Inv, TypeOK, RingInv, SlotsInv, IndicesInv
<1> QED
  BY <1>1 DEF Contents, Run

\* Every step is a push, a take, a drop, or leaves the queue as it is.
LEMMA StepSimulation ==
    ASSUME Inv, Inv', [Next]_vars
    PROVE  [Queue!Next]_Queue!vars
<1>1. /\ readIndex \in Nat /\ writeIndex \in Nat /\ readIndex <= writeIndex
      /\ readIndex' \in Nat /\ writeIndex' \in Nat /\ readIndex' <= writeIndex'
  BY DEF Inv, TypeOK, RingInv, IndicesInv
<1>2. /\ Contents = Run(readIndex, writeIndex)
      /\ Contents' = Run(readIndex', writeIndex')
      /\ Len(Contents) = writeIndex - readIndex
  <2>1. Contents = Run(readIndex, writeIndex)
    BY ContentsAreRun
  <2>2. Contents' = Run(readIndex', writeIndex')
    <3>1. ASSUME NEW k \in 1 .. writeIndex' - readIndex'
          PROVE  slots'[Slot(readIndex' + k - 1)] = readIndex' + k - 1
      <4>1. pOffset' \in Nat
        BY SMT DEF Inv, TypeOK
      <4>2. readIndex' + k - 1 \in readIndex' .. writeIndex' + pOffset' - 1
        BY <1>1, <4>1, IndexOfPlace
      <4> QED
        BY <4>2 DEF Inv, RingInv, SlotsInv, Slot
    <3> QED
      BY <3>1 DEF Contents, Run
  <2> QED
    BY <2>1, <2>2, <1>1, RunIsSeq
<1>3. ASSUME UNCHANGED <<readIndex, writeIndex, taken>>
      PROVE  UNCHANGED Queue!vars
  BY <1>2, <1>3 DEF Queue!vars
<1>4. CASE FinishPush
  <2>1. /\ pCount \in 0 .. Capacity
        /\ writeIndex' = writeIndex + pCount
        /\ readIndex' = readIndex /\ taken' = taken
        /\ Len(Contents) + pCount <= Capacity
    BY <1>1, <1>2, <1>4, CapacityAssumption, SMT
       DEF FinishPush, cVars, Inv, TypeOK, RingInv, ProducerInv, IndicesInv
  <2>2. [i \in 1 .. pCount |-> writeIndex + i - 1] =
            Run(writeIndex, writeIndex + pCount)
    BY <1>1, <2>1, SMT DEF Run
  <2>3. Contents' = Contents \o [i \in 1 .. pCount |-> writeIndex + i - 1]
    <3>1. writeIndex + pCount \in Nat /\ writeIndex <= writeIndex + pCount
      BY <1>1, <2>1, SMT
    <3>2. Run(readIndex, writeIndex) \o Run(writeIndex, writeIndex + pCount) =
              Run(readIndex, writeIndex + pCount)
      BY <1>1, <3>1, RunConcat
    <3> QED
      BY <1>2, <2>1, <2>2, <3>2
  <2>4. Queue!Push(pCount)
    BY <2>1, <2>3 DEF Queue!Push
  <2> QED
    BY <2>1, <2>4 DEF Queue!Next
<1>5. CASE FinishConsume
  <2>1. /\ cCount \in 0 .. Capacity /\ cCount <= Len(Contents)
        /\ readIndex' = readIndex + cCount
        /\ writeIndex' = writeIndex /\ taken' = cOut
        /\ cOut \in Seq(Nat) /\ Len(cOut) = cCount
        /\ \A k \in 1 .. Len(cOut) : cOut[k] = readIndex + k - 1
    BY <1>1, <1>2, <1>5, CapacityAssumption, SMT
       DEF FinishConsume, pVars, Inv, TypeOK, RingInv, ConsumerInv, IndicesInv,
           CopiesAreIntact
  <2>2. cOut = Run(readIndex, readIndex + cCount)
    <3>1. /\ Run(readIndex, readIndex + cCount) \in Seq(Nat)
          /\ Len(Run(readIndex, readIndex + cCount)) = cCount
          /\ \A k \in 1 .. cCount :
                Run(readIndex, readIndex + cCount)[k] = readIndex + k - 1
      <4>1. /\ readIndex + cCount \in Nat /\ readIndex <= readIndex + cCount
            /\ (readIndex + cCount) - readIndex = cCount
        BY <1>1, <2>1, SMT
      <4>2. /\ Run(readIndex, readIndex + cCount) \in Seq(Nat)
            /\ Len(Run(readIndex, readIndex + cCount)) =
                  (readIndex + cCount) - readIndex
            /\ \A k \in 1 .. (readIndex + cCount) - readIndex :
                  Run(readIndex, readIndex + cCount)[k] = readIndex + k - 1
        BY <1>1, <4>1, RunIsSeq
      <4> QED
        BY <4>1, <4>2
    <3> QED
      BY <2>1, <3>1, SeqEqual
  <2>3. cCount \in Nat /\ readIndex + cCount <= writeIndex
    BY <1>1, <1>2, <2>1, CapacityAssumption, SMT
  <2>4. /\ SubSeq(Contents, 1, cCount) = Run(readIndex, readIndex + cCount)
        /\ SubSeq(Contents, cCount + 1, Len(Contents)) =
              Run(readIndex + cCount, writeIndex)
    <3>1. Splits(readIndex, writeIndex, cCount)
      BY <1>1, <2>3, RunSplits
    <3> QED
      BY <1>2, <3>1 DEF Splits
  <2>5. Queue!Take(cCount)
    BY <1>2, <2>1, <2>2, <2>4 DEF Queue!Take
  <2> QED
    BY <2>1, <2>5 DEF Queue!Next
<1>6. CASE FinishDiscard
  <2> DEFINE n == cCount - readIndex
  <2>1. /\ n \in 0 .. Capacity /\ n <= Len(Contents)
        /\ readIndex' = readIndex + n
        /\ writeIndex' = writeIndex /\ taken' = taken
    BY <1>1, <1>2, <1>6, CapacityAssumption, SMT
       DEF FinishDiscard, pVars, Inv, TypeOK, RingInv, ConsumerInv, IndicesInv
  <2>2. SubSeq(Contents, n + 1, Len(Contents)) = Run(readIndex + n, writeIndex)
    <3>1. n \in Nat /\ readIndex + n <= writeIndex
      BY <1>1, <1>2, <2>1, CapacityAssumption, SMT
    <3> HIDE DEF n
    <3>2. Splits(readIndex, writeIndex, n)
      BY <1>1, <3>1, RunSplits
    <3> QED
      BY <1>2, <3>2 DEF Splits
  <2>3. Queue!Drop(n)
    BY <1>2, <2>1, <2>2 DEF Queue!Drop
  <2> QED
    BY <2>1, <2>3 DEF Queue!Next
<1>7. CASE \/ \E n \in PushSizes : BeginPush(n)
           \/ WriteSlot
           \/ \E n \in PopSizes : BeginConsume(n)
           \/ ReadSlot
           \/ BeginDiscard
  BY <1>3, <1>7 DEF BeginPush, WriteSlot, BeginConsume, ReadSlot, BeginDiscard
<1>8. CASE UNCHANGED vars
  BY <1>3, <1>8 DEF vars
<1> QED
  BY <1>4, <1>5, <1>6, <1>7, <1>8 DEF Next

(***************************************************************************)
(* The ring that push_slice, produce, consume and discard_buffered share   *)
(* without a lock is a bounded FIFO queue of samples: nothing is lost,     *)
(* repeated or reordered between the two threads.                          *)
(***************************************************************************)
THEOREM RingIsAQueue == Spec => IsAQueue
<1>1. Init => Queue!Init
  <2> SUFFICES ASSUME Init PROVE Queue!Init
    OBVIOUS
  <2>1. Contents = <<>>
    <3>1. readIndex = 0 /\ writeIndex = 0
      BY DEF Init
    <3>2. Contents \in Seq({}) /\ Len(Contents) = 0
      BY <3>1, SMT DEF Contents
    <3> QED
      BY <3>2, EmptySeq, SMT
  <2> QED
    BY <2>1 DEF Init, Queue!Init
<1>2. Inv /\ Inv' /\ [Next]_vars => [Queue!Next]_Queue!vars
  BY StepSimulation
<1> QED
  BY <1>1, <1>2, InvariantHolds, PTL DEF Spec, IsAQueue, Queue!Spec

-----------------------------------------------------------------------------
(***************************************************************************)
(* The ring from the worklet to its page: the parts of its invariant.      *)
(*                                                                         *)
(* Which loop serves, in every step of the page.                           *)
(***************************************************************************)
ActiveInv == /\ active <=> listening # {}
             /\ closed => ~active
             /\ ~built => active /\ mpc # "idle" /\ posting = <<>> /\ outer = <<>>

\* A listener that starts a loop gets no call before the loop waits, and
\* its message is not yet under way.
PostingInv ==
    /\ posting # <<>> => /\ Len(posting) = 1
                         /\ active
                         /\ mpc \in {"drain", "decode", "deliver", "turn",
                                     "arm", "return"}
                         /\ mpc = "deliver" => drain.todo = {}
    /\ outer # <<>> => posting # <<>> /\ Len(outer) = 1

LoopsInv ==
    /\ waiting \cup woken \subseteq 1 .. generation
    /\ waiting \cap woken = {}
    /\ waiting \subseteq IF active THEN {generation} ELSE {}
    /\ drain.loop \in 0 .. generation
    /\ mpc \notin {"idle", "return"} => drain.loop \notin waiting \cup woken
    /\ mpc # "idle" /\ drain.loop = Starting =>
            /\ waiting = {}
            /\ active
            /\ mpc \in {"drain", "decode", "deliver", "call"}
            /\ built => posting # <<>>
    /\ mpc = "call" /\ built => drain.loop # Starting
    /\ ~active => /\ \A g \in woken : g < generation
                  /\ mpc # "idle" => drain.loop < generation
    /\ outer # <<>> => /\ Head(outer).loop \in 1 .. generation - 1
                       /\ Head(outer).loop \notin waiting \cup woken

ServedInv ==
    active => \/ generation \in waiting \cup woken
              \/ mpc \notin {"idle", "return"} /\ drain.loop = generation
              \/ mpc # "idle" /\ drain.loop = Starting

LoopInv == ActiveInv /\ PostingInv /\ LoopsInv /\ ServedInv

(***************************************************************************)
(* Which subscriptions entries and messages may be of.                     *)
(***************************************************************************)
MadeFor(e) == \A k \in Kinds : e.of[k] <= collecting[k].id

EntriesInv == /\ MadeFor(batch) /\ MadeFor(drain.entry)
              /\ \A s \in 0 .. Slots - 1 : MadeFor(entries[s])
              /\ outer # <<>> => MadeFor(Head(outer).entry)
              /\ ppc \in {"write", "store"} =>
                    \A k \in Kinds : batch.of[k] = collecting[k].id

KnownInv ==
    \A k \in Kinds : /\ collecting[k].id <= subscription[k]
                     /\ collecting[k].id < subscription[k] => got[k] = early[k]

QueuedInv ==
    \A i \in 1 .. Len(port) :
        /\ port[i].id <= subscription[port[i].kind]
        /\ port[i].id >= collecting[port[i].kind].id
        /\ port[i].on => port[i].id > collecting[port[i].kind].id

OrderInv ==
    \A i, j \in 1 .. Len(port) :
        i < j /\ port[i].kind = port[j].kind =>
            /\ port[i].id <= port[j].id
            /\ port[j].on => port[i].id < port[j].id

\* What a listener that is being added has yet to post.
NewestInv ==
    posting # <<>> =>
        LET m == Head(posting)
        IN  /\ m.on /\ listening = {m.kind} /\ m.id = subscription[m.kind]
            /\ collecting[m.kind].id < m.id
            /\ \A i \in 1 .. Len(port) :
                  port[i].kind = m.kind => port[i].id < m.id

PortInv == KnownInv /\ QueuedInv /\ OrderInv /\ NewestInv

SubscriptionInv == EntriesInv /\ PortInv

\* A drain hands over what was made for the listeners there are, and to
\* those that came while it did so what was made for earlier ones.
HandsOk(d) ==
    /\ \A k \in d.todo \cap listening :
          k \in d.late \/ d.entry.of[k] = subscription[k]
    /\ \A k \in d.late : d.entry.of[k] < subscription[k]

HandsInv == /\ mpc \in {"deliver", "call"} => HandsOk(drain)
            /\ outer # <<>> => HandsOk(Head(outer))

(***************************************************************************)
(* The ring, until a drain has moved the read index back.                  *)
(***************************************************************************)
Writing == ppc \in {"write", "store"}

NumbersInv ==
    /\ batch.number = finished + Ahead(ringWrite) + (IF Writing THEN 1 ELSE 0)
    /\ Ahead(ringWrite) <= Slots
    /\ Writing => Ahead(ringWrite) < Slots
    /\ \A i \in InRing : entries[i % Slots].number = finished + 1 + Ahead(i)
    /\ ppc = "store" => entries[ringWrite % Slots] = batch

Held(d) ==
    /\ d.entry.number <= finished + 1
    /\ d.entry.number = finished + 1 =>
          /\ d.at = ringRead /\ ringRead # ringWrite
          /\ d.entry = entries[ringRead % Slots]
    /\ d.entry.number = finished => ringRead = (d.at + 1) % Period

Outdated(e) == \A k \in listening : e.of[k] < subscription[k]

DrainInv ==
    /\ mpc \in {"decode", "deliver", "call"} => Held(drain)
    /\ outer # <<>> => Held(Head(outer))
    /\ mpc = "decode" => drain.entry.number = finished + 1
    /\ mpc \in {"deliver", "call"} /\ drain.entry.number # finished + 1 =>
          Outdated(drain.entry)

\* A batch that is being written tells all that was dropped.
ToldInv == Writing => batch.drops = drops

PageRingInv == NumbersInv /\ DrainInv

(***************************************************************************)
(* The whole.  ToldInv lets StoreWriteIndex turn what the worklet has yet  *)
(* to tell into what the page has yet to read.                             *)
(***************************************************************************)
WebInv == /\ WebTypeOK /\ LoopInv /\ SubscriptionInv /\ HandsInv /\ ToldInv
          /\ ~rewound => PageRingInv
          /\ RecordsAreAccountedFor
-----------------------------------------------------------------------------
\* An index of the ring has a slot, and one that follows it.
LEMMA IndexHasASlot ==
    ASSUME NEW i \in 0 .. Period - 1
    PROVE  /\ i % Slots \in 0 .. Slots - 1
           /\ (i + 1) % Period \in 0 .. Period - 1
BY PeriodAssumption, SMT

\* A sequence of one element.
LEMMA OneIsASequence ==
    ASSUME NEW S, NEW x \in S
    PROVE  <<x>> \in Seq(S)
OBVIOUS

\* Identifiers of entries are numbers as well.
LEMMA EntryIsTyped ==
    ASSUME NEW e \in Entries, NEW k \in Kinds
    PROVE  /\ e.of[k] \in Nat /\ e.records[k] \in Nat /\ e.drops[k] \in Nat
           /\ e.number \in Nat
BY DEF Entries, Counts

\* The variables have their types when the processor is made.
LEMMA WebTypeInit == WebInit => WebTypeOK
<1> SUFFICES ASSUME WebInit PROVE WebTypeOK
  OBVIOUS
<1> USE DEF WebInit
<1>1. Zero \in Counts
  BY DEF Zero, Counts
<1>2. NoEntry \in Entries
  BY <1>1, SMT DEF NoEntry, Entries
<1>3. NoDrain \in Drains
  BY <1>2, PeriodAssumption, SMT DEF NoDrain, Drains, Starting
<1>4. subscription \in Counts
  BY SMT DEF Counts
<1>5. collecting \in [Kinds -> [on : BOOLEAN, id : Nat]]
  BY <1>4, SMT DEF Counts
<1>6. WorkletOK
  <2>1. blocks \in 0 .. MaxBlocks /\ ringRead \in 0 .. Period - 1
                                  /\ ringWrite \in 0 .. Period - 1
    BY BoundsAssumption, PeriodAssumption, SMT
  <2> QED
    BY <1>1, <1>2, <1>5, <2>1 DEF WorkletOK
<1>7. LoopsOK
  BY DEF LoopsOK
<1>8. PageOK
  <2>1. listening \subseteq Kinds
    BY DEF Kinds
  <2>2. mpc \in {"idle", "drain"} /\ built \in BOOLEAN
    OBVIOUS
  <2>3. /\ outer \in Seq(Drains) /\ port \in Seq(Messages)
        /\ posting \in Seq(Messages)
    OBVIOUS
  <2>4. drain \in Drains /\ got \in Counts /\ early \in Counts
    BY <1>1, <1>3
  <2>5. closed \in BOOLEAN /\ finished \in Nat /\ rewound \in BOOLEAN
    OBVIOUS
  <2> HIDE DEF WebInit
  <2> QED
    BY <1>4, <2>1, <2>2, <2>3, <2>4, <2>5 DEF PageOK
<1> QED
  BY <1>6, <1>7, <1>8 DEF WebTypeOK

\* Publishing keeps the types.
LEMMA PublishTypes ==
    ASSUME WebTypeOK, NEW some \in SUBSET Kinds, Publish(some)
    PROVE  WebTypeOK'
<1> USE DEF WebTypeOK
<1> DEFINE new == [k \in Kinds |-> IF k \in some /\ collecting[k].on
                                   THEN 1 ELSE 0]
           ids == [k \in Kinds |-> collecting[k].id]
<1>1. new \in Counts
  BY SMT DEF Counts
<1>2. ids \in Counts
  BY SMT DEF Counts, WorkletOK
<1>3. /\ made' = [k \in Kinds |-> made[k] + new[k]]
      /\ \/ drops' = [k \in Kinds |-> drops[k] + new[k]] /\ UNCHANGED <<ppc, batch>>
         \/ /\ batch' = [number |-> batch.number + 1, of |-> ids,
                         records |-> new, drops |-> drops]
            /\ ppc' = "write" /\ UNCHANGED drops
      /\ blocks' \in {blocks, blocks + 1} /\ blocks' <= MaxBlocks
      /\ UNCHANGED <<ring, wake, collecting, port, loops, listeners, page>>
  BY DEF Publish
<1> HIDE DEF new, ids
<1>4. made' \in Counts
  BY <1>1, <1>3, SMT DEF Counts, WorkletOK
<1>5. drops' \in Counts /\ batch' \in Entries /\ ppc' \in {ppc, "write"}
  <2>1. drops \in Counts /\ batch \in Entries /\ batch.number \in Nat
    BY DEF WorkletOK, Entries
  <2>2. CASE drops' = [k \in Kinds |-> drops[k] + new[k]] /\ UNCHANGED <<ppc, batch>>
    BY <1>1, <2>1, <2>2, SMT DEF Counts
  <2>3. CASE /\ batch' = [number |-> batch.number + 1, of |-> ids,
                          records |-> new, drops |-> drops]
             /\ ppc' = "write" /\ UNCHANGED drops
    BY <1>1, <1>2, <2>1, <2>3, SMT DEF Entries
  <2> QED
    BY <1>3, <2>2, <2>3
<1>6. blocks' \in 0 .. MaxBlocks
  BY <1>3, BoundsAssumption, SMT DEF WorkletOK
<1>7. WorkletOK'
  BY <1>3, <1>4, <1>5, <1>6 DEF WorkletOK, ring
<1>8. LoopsOK' /\ PageOK'
  BY <1>3 DEF LoopsOK, PageOK, loops, listeners, page
<1> QED
  BY <1>7, <1>8

\* The other steps of the worklet keep the types.
LEMMA WorkletTypes ==
    ASSUME WebTypeOK,
           WriteEntry \/ StoreWriteIndex \/ AddWake \/ Notify \/ TakeMessage
    PROVE  WebTypeOK'
<1> USE DEF WebTypeOK, ring, worklet, loops, listeners, page
<1>1. CASE WriteEntry
  <2>1. entries' \in [0 .. Slots - 1 -> Entries]
    <3>1. ringWrite % Slots \in 0 .. Slots - 1
      BY IndexHasASlot DEF WorkletOK
    <3> QED
      BY <1>1, <3>1 DEF WriteEntry, WorkletOK
  <2>2. WorkletOK'
    BY <1>1, <2>1 DEF WriteEntry, WorkletOK
  <2> QED
    BY <1>1, <2>2 DEF WriteEntry, LoopsOK, PageOK
<1>2. CASE StoreWriteIndex
  <2>1. WorkletOK'
    BY <1>2, IndexHasASlot DEF StoreWriteIndex, WorkletOK
  <2> QED
    BY <1>2, <2>1 DEF StoreWriteIndex, LoopsOK, PageOK
<1>3. CASE AddWake
  <2>1. WorkletOK' /\ PageOK'
    BY <1>3 DEF AddWake, WorkletOK, PageOK
  <2>2. LoopsOK'
    BY <1>3, SMT DEF AddWake, LoopsOK
  <2> QED
    BY <2>1, <2>2
<1>4. CASE Notify
  <2>1. WorkletOK'
    BY <1>4 DEF Notify, WorkletOK, Zero, Counts
  <2>2. LoopsOK' /\ PageOK'
    BY <1>4 DEF Notify, LoopsOK, PageOK
  <2> QED
    BY <2>1, <2>2
<1>5. CASE TakeMessage
  <2> DEFINE m == Head(port)
  <2>1. m \in Messages /\ Tail(port) \in Seq(Messages)
    BY <1>5 DEF TakeMessage, PageOK
  <2>2. m.kind \in Kinds /\ m.on \in BOOLEAN /\ m.id \in Nat
    BY <2>1 DEF Messages
  <2>3. /\ collecting' = [collecting EXCEPT ![m.kind] = [on |-> m.on, id |-> m.id]]
        /\ drops' = [drops EXCEPT ![m.kind] = 0]
        /\ made' = [made EXCEPT ![m.kind] = 0]
    BY <1>5 DEF TakeMessage, SetSubscription
  <2> HIDE DEF m
  <2>4. /\ collecting' \in [Kinds -> [on : BOOLEAN, id : Nat]]
        /\ drops' \in Counts /\ made' \in Counts
    BY <2>2, <2>3 DEF WorkletOK, Counts
  <2>5. WorkletOK'
    BY <1>5, <2>4 DEF TakeMessage, WorkletOK
  <2>6. LoopsOK' /\ PageOK'
    BY <1>5, <2>1 DEF TakeMessage, LoopsOK, PageOK
  <2> QED
    BY <2>5, <2>6
<1> QED
  BY <1>1, <1>2, <1>3, <1>4, <1>5

\* Steps of a drain keep the types.
LEMMA DrainTypes ==
    ASSUME WebTypeOK, DrainStep
    PROVE  WebTypeOK'
<1> USE DEF WebTypeOK, ring, worklet, loops, listeners, page
<1>1. UNCHANGED <<entries, ringWrite, wake, worklet, port, loops, listeners,
                  outer, posting>>
  BY DEF DrainStep, TakeEntry, Decode, ListenerReturns, FinishEntry, Deliver
<1>2. LoopsOK'
  BY <1>1 DEF LoopsOK
<1>3. drain.entry \in Entries /\ drain.at \in 0 .. Period - 1 /\ drain.todo \in SUBSET Kinds
  BY DEF PageOK, Drains
<1>4. CASE TakeEntry
  <2>1. entries[ringRead % Slots] \in Entries
    BY IndexHasASlot DEF WorkletOK
  <2>2. drain' \in Drains
    BY <1>4, <2>1 DEF TakeEntry, Drains, PageOK, WorkletOK
  <2>3. WorkletOK'
    BY <1>4 DEF TakeEntry, WorkletOK
  <2>4. PageOK'
    BY <1>4, <2>2 DEF TakeEntry, PageOK
  <2> QED
    BY <1>2, <2>3, <2>4
<1>5. CASE Decode
  <2>1. PICK t \in SUBSET Kinds :
            drain' = [drain EXCEPT !.todo = t, !.visiting = {}, !.late = {}]
    BY <1>5 DEF Decode, PageOK
  <2>2. drain' \in Drains
    BY <2>1 DEF Drains, PageOK
  <2>3. WorkletOK'
    BY <1>5 DEF Decode, WorkletOK
  <2>4. PageOK'
    BY <1>5, <2>2 DEF Decode, PageOK
  <2> QED
    BY <1>2, <2>3, <2>4
<1>6. CASE ListenerReturns
  BY <1>2, <1>6 DEF ListenerReturns, WorkletOK, PageOK
<1>7. CASE FinishEntry
  <2>1. (drain.at + 1) % Period \in 0 .. Period - 1 /\ drain.entry.number \in Nat
    BY <1>3, IndexHasASlot DEF Entries
  <2>2. WorkletOK'
    BY <1>7, <2>1 DEF FinishEntry, WorkletOK
  <2>3. PageOK'
    BY <1>7, <2>1 DEF FinishEntry, PageOK
  <2> QED
    BY <1>2, <2>2, <2>3
<1>8. ASSUME NEW k \in Kinds, Deliver(k) PROVE WebTypeOK'
  <2>1. /\ drain' = [drain EXCEPT !.todo = drain.todo \ {k}, !.visiting = {k}]
        /\ mpc' \in {mpc, "call"}
    BY <1>8 DEF Deliver
  <2>2. drain' \in Drains
    BY <1>3, <2>1 DEF Drains, PageOK
  <2>3. /\ got[k] \in Nat /\ early[k] \in Nat
        /\ drain.entry.records[k] + drain.entry.drops[k] \in Nat
    <3>1. drain.entry.records[k] \in Nat /\ drain.entry.drops[k] \in Nat
      BY <1>3, EntryIsTyped
    <3>2. drain.entry.records[k] + drain.entry.drops[k] \in Nat
      BY <3>1, SMT
    <3> QED
      BY <3>2 DEF Counts, PageOK
  <2>4. /\ \/ got' = got
           \/ got' = [got EXCEPT ![k] = @ + (drain.entry.records[k] + drain.entry.drops[k])]
        /\ \/ early' = early
           \/ early' = [early EXCEPT ![k] = @ + (drain.entry.records[k] + drain.entry.drops[k])]
    BY <1>8 DEF Deliver
  <2>5. got' \in Counts /\ early' \in Counts
    <3>1. ASSUME NEW n \in Nat
          PROVE  /\ [got EXCEPT ![k] = n] \in Counts
                 /\ [early EXCEPT ![k] = n] \in Counts
      BY DEF Counts, PageOK
    <3>2. /\ got[k] + (drain.entry.records[k] + drain.entry.drops[k]) \in Nat
          /\ early[k] + (drain.entry.records[k] + drain.entry.drops[k]) \in Nat
      BY <2>3, SMT
    <3>3. got \in Counts /\ early \in Counts
      BY DEF PageOK
    <3> QED
      BY <2>4, <3>1, <3>2, <3>3
  <2>6. WorkletOK'
    BY <1>8 DEF Deliver, WorkletOK
  <2>7. PageOK'
    BY <1>8, <2>1, <2>2, <2>5 DEF Deliver, PageOK
  <2> QED
    BY <1>2, <2>6, <2>7
<1> QED
  BY <1>4, <1>5, <1>6, <1>7, <1>8 DEF DrainStep

\* The page between two drains.
LEMMA NoDrainIsTyped == NoDrain \in Drains
<1>1. Zero \in Counts
  BY DEF Zero, Counts
<1>2. NoEntry \in Entries
  BY <1>1, SMT DEF NoEntry, Entries
<1> QED
  BY <1>2, PeriodAssumption, SMT DEF NoDrain, Drains, Starting

\* A listener that joins a drain changes what it has to do, not its entry.
LEMMA JoinedIs ==
    ASSUME WebTypeOK, NEW k \in Kinds
    PROVE  /\ Joined(k) \in Drains
           /\ Joined(k).loop = drain.loop
           /\ Joined(k).at = drain.at
           /\ Joined(k).entry = drain.entry
           /\ \/ /\ Joined(k).todo = drain.todo \cup {k}
                 /\ Joined(k).late = drain.late \cup {k}
              \/ k \notin drain.todo /\ Joined(k) = drain
<1>1. drain \in Drains
  BY DEF WebTypeOK, PageOK
<1>2. CASE k \in drain.todo \cup drain.visiting
  <2>1. Joined(k) = [drain EXCEPT !.todo = @ \cup {k}, !.late = @ \cup {k}]
    BY <1>2 DEF Joined
  <2>2. drain.todo \cup {k} \in SUBSET Kinds /\ drain.late \cup {k} \in SUBSET Kinds
    BY <1>1 DEF Drains
  <2>3. Joined(k) \in Drains
    BY <1>1, <2>1, <2>2 DEF Drains
  <2>4. /\ Joined(k).loop = drain.loop /\ Joined(k).at = drain.at
        /\ Joined(k).entry = drain.entry
    BY <1>1, <2>1 DEF Drains
  <2>5. /\ Joined(k).todo = drain.todo \cup {k}
        /\ Joined(k).late = drain.late \cup {k}
    BY <1>1, <2>1 DEF Drains
  <2> QED
    BY <2>3, <2>4, <2>5
<1>3. CASE k \notin drain.todo \cup drain.visiting
  <2>1. Joined(k) = drain
    BY <1>3 DEF Joined
  <2> QED
    BY <1>1, <1>3, <2>1
<1> QED
  BY <1>2, <1>3

\* Steps of a loop keep the types.
LEMMA LoopTypes ==
    ASSUME WebTypeOK, LoopStep
    PROVE  WebTypeOK'
<1> USE DEF WebTypeOK, ring, worklet, loops, listeners, page
<1>1. WorkletOK'
  BY DEF LoopStep, EndDrain, Turn, Arm, Return, Resume, WorkletOK
<1>2. drain.loop \in Nat
  BY DEF PageOK, Drains
<1>3. CASE EndDrain
  <2>1. generation' \in Nat /\ UNCHANGED <<wake, active, waiting, woken>>
    BY <1>3, SMT DEF EndDrain, LoopsOK
  <2>2. drain' = drain \/ drain' = [drain EXCEPT !.loop = generation']
    BY <1>3 DEF EndDrain
  <2>3. drain' \in Drains /\ mpc' \in {"turn", "arm"}
    BY <1>3, <2>1, <2>2 DEF EndDrain, PageOK, Drains
  <2>4. LoopsOK'
    BY <2>1 DEF LoopsOK
  <2>5. PageOK'
    BY <1>3, <2>3 DEF EndDrain, PageOK
  <2> QED
    BY <1>1, <2>4, <2>5
<1>4. CASE Turn
  <2>1. drain' = drain \/ drain' = [drain EXCEPT !.expected = wake]
    BY <1>4 DEF Turn
  <2>2. drain' \in Drains /\ mpc' \in {"drain", "return"}
    BY <1>4, <2>1 DEF Turn, LoopsOK, PageOK, Drains
  <2>3. LoopsOK'
    BY <1>4 DEF Turn, LoopsOK
  <2>4. PageOK'
    BY <1>4, <2>2 DEF Turn, PageOK
  <2> QED
    BY <1>1, <2>3, <2>4
<1>5. CASE Arm
  <2>1. waiting' \subseteq Nat /\ mpc' \in {"return", "turn"}
    BY <1>2, <1>5 DEF Arm, WaitAsync, LoopsOK
  <2>2. LoopsOK'
    BY <1>5, <2>1 DEF Arm, LoopsOK
  <2>3. PageOK'
    BY <1>5, <2>1 DEF Arm, PageOK
  <2> QED
    BY <1>1, <2>2, <2>3
<1>6. CASE Return
  <2>1. outer # <<>> => Head(outer) \in Drains
    BY DEF PageOK
  <2>2. drain' \in Drains /\ outer' \in Seq(Drains) /\ mpc' \in {"idle", "call"}
    <3>1. drain \in Drains /\ outer \in Seq(Drains) /\ <<>> \in Seq(Drains)
      BY DEF PageOK
    <3> QED
      BY <1>6, <2>1, <3>1, NoDrainIsTyped DEF Return
  <2>3. port' \in Seq(Messages) /\ posting' \in Seq(Messages)
    BY <1>6 DEF Return, PageOK
  <2>4. LoopsOK'
    BY <1>6 DEF Return, LoopsOK
  <2>5. PageOK'
    BY <1>6, <2>2, <2>3 DEF Return, PageOK
  <2> QED
    BY <1>1, <2>4, <2>5
<1>7. ASSUME NEW g \in woken, Resume(g) PROVE WebTypeOK'
  <2>1. drain' \in Drains
    BY <1>7 DEF Resume, LoopsOK, PageOK, Drains
  <2>2. LoopsOK'
    BY <1>7 DEF Resume, LoopsOK
  <2>3. PageOK'
    BY <1>7, <2>1 DEF Resume, PageOK
  <2> QED
    BY <1>1, <2>2, <2>3
<1> QED
  BY <1>3, <1>4, <1>5, <1>6, <1>7 DEF LoopStep

\* What the page posts about a kind.
LEMMA MessageIsTyped ==
    ASSUME WebTypeOK, NEW k \in Kinds, NEW on \in BOOLEAN
    PROVE  /\ Message(k, on) \in Messages
           /\ [Message(k, on) EXCEPT !.id = @ + 1] =
                 [kind |-> k, on |-> on, id |-> subscription[k] + 1]
           /\ [Message(k, on) EXCEPT !.id = @ + 1] \in Messages
<1>1. subscription[k] \in Nat
  BY DEF WebTypeOK, PageOK, Counts
<1>2. [Message(k, on) EXCEPT !.id = @ + 1] =
                 [kind |-> k, on |-> on, id |-> subscription[k] + 1]
  BY DEF Message
<1> QED
  BY <1>1, <1>2 DEF Message, Messages

\* Calls of the program keep the types.
LEMMA CallTypes ==
    ASSUME WebTypeOK,
           (\E k \in Kinds : Subscribe(k) \/ Unsubscribe(k)) \/ Close
    PROVE  WebTypeOK'
<1> USE DEF WebTypeOK, ring, worklet, loops, listeners, page
<1>1. WorkletOK'
  BY DEF Subscribe, Unsubscribe, Close, WorkletOK
<1>2. ASSUME NEW k \in Kinds, Subscribe(k) PROVE WebTypeOK'
  <2> DEFINE m == [Message(k, TRUE) EXCEPT !.id = @ + 1]
  <2>1. m \in Messages
    BY MessageIsTyped
  <2>2. \/ /\ port' = Append(port, m) /\ drain' = Joined(k)
           /\ UNCHANGED <<mpc, outer, posting, active>>
        \/ /\ active' = TRUE /\ mpc' = "drain" /\ drain' = NoDrain
           /\ outer' \in {<<Joined(k)>>, <<>>}
           /\ posting' = <<m>> /\ UNCHANGED port
    BY <1>2 DEF Subscribe
  <2> HIDE DEF m
  <2>3. port' \in Seq(Messages) /\ posting' \in Seq(Messages)
    <3>1. port \in Seq(Messages) /\ posting \in Seq(Messages)
      BY DEF PageOK
    <3>2. <<m>> \in Seq(Messages) /\ Append(port, m) \in Seq(Messages)
      BY <2>1, <3>1, OneIsASequence, AppendProperties
    <3> QED
      BY <2>2, <3>1, <3>2
  <2>4. drain' \in Drains /\ outer' \in Seq(Drains)
    <3>1. outer \in Seq(Drains) /\ <<>> \in Seq(Drains)
      BY DEF PageOK
    <3>2. Joined(k) \in Drains
      BY JoinedIs
    <3>3. <<Joined(k)>> \in Seq(Drains)
      BY <3>2, OneIsASequence
    <3> QED
      BY <2>2, <3>1, <3>2, <3>3, NoDrainIsTyped
  <2>5. subscription' \in Counts /\ got' \in Counts /\ early' \in Counts
    <3>1. /\ subscription' = [subscription EXCEPT ![k] = subscription[k] + 1]
          /\ got' = [got EXCEPT ![k] = 0] /\ early' = [early EXCEPT ![k] = 0]
      BY <1>2 DEF Subscribe
    <3>2. subscription \in Counts /\ got \in Counts /\ early \in Counts
      BY DEF PageOK
    <3>3. subscription[k] + 1 \in Nat
      BY <3>2, SMT DEF Counts
    <3> QED
      BY <3>1, <3>2, <3>3 DEF Counts
  <2>6. listening' \subseteq Kinds
    BY <1>2 DEF Subscribe, PageOK
  <2>7. mpc' \in {mpc, "drain"}
    BY <2>2
  <2>8. LoopsOK'
    BY <1>2, <2>2 DEF Subscribe, LoopsOK
  <2>9. PageOK'
    BY <1>2, <2>3, <2>4, <2>5, <2>6, <2>7 DEF Subscribe, PageOK
  <2> QED
    BY <1>1, <2>8, <2>9
<1>3. StopDrain => LoopsOK'
  <2> SUFFICES ASSUME StopDrain PROVE LoopsOK'
    OBVIOUS
  <2>1. wake + 1 \in Nat /\ generation + 1 \in Nat
    BY SMT DEF LoopsOK
  <2> QED
    BY <2>1 DEF StopDrain, LoopsOK
<1>4. ASSUME NEW k \in Kinds, Unsubscribe(k) PROVE WebTypeOK'
  <2>1. port' \in Seq(Messages)
    <3>1. Message(k, FALSE) \in Messages
      BY MessageIsTyped
    <3>2. port \in Seq(Messages) /\ port' = Append(port, Message(k, FALSE))
      BY <1>4 DEF Unsubscribe, PageOK
    <3> QED
      BY <3>1, <3>2, AppendProperties
  <2>2. LoopsOK'
    BY <1>3, <1>4 DEF Unsubscribe, LoopsOK
  <2>3. PageOK'
    BY <1>4, <2>1 DEF Unsubscribe, PageOK
  <2> QED
    BY <1>1, <2>2, <2>3
<1>5. CASE Close
  <2>1. Farewell("delegate") \in Seq(Messages) /\ Farewell("print") \in Seq(Messages)
    <3>1. ASSUME NEW k \in Kinds PROVE Farewell(k) \in Seq(Messages)
      <4>1. Message(k, FALSE) \in Messages
        BY MessageIsTyped
      <4>2. <<Message(k, FALSE)>> \in Seq(Messages)
        BY <4>1, OneIsASequence
      <4>3. CASE k \in listening
        BY <4>2, <4>3 DEF Farewell
      <4>4. CASE k \notin listening
        <5>1. Farewell(k) = <<>>
          BY <4>4 DEF Farewell
        <5> QED
          BY <5>1
      <4> QED
        BY <4>3, <4>4
    <3> QED
      BY <3>1 DEF Kinds
  <2>2. port' \in Seq(Messages)
    BY <1>5, <2>1 DEF Close, PageOK
  <2>3. LoopsOK'
    BY <1>3, <1>5 DEF Close, LoopsOK
  <2>4. PageOK'
    BY <1>5, <2>2 DEF Close, PageOK
  <2> QED
    BY <1>1, <2>3, <2>4
<1> QED
  BY <1>2, <1>4, <1>5

\* Every step keeps the types.
LEMMA WebTypeStep ==
    ASSUME WebTypeOK, [WebNext]_webVars
    PROVE  WebTypeOK'
<1>1. CASE UNCHANGED webVars
  BY <1>1 DEF WebTypeOK, WorkletOK, LoopsOK, PageOK, webVars, ring, worklet,
              loops, listeners, page
<1>2. CASE WebNext
  BY <1>2, PublishTypes, WorkletTypes, DrainTypes, LoopTypes, CallTypes
     DEF WebNext, WorkletStep
<1> QED
  BY <1>1, <1>2
-----------------------------------------------------------------------------
\* What the invariant of the loops speaks of.
loopVars == <<active, generation, waiting, woken, listening, closed, built,
              mpc, drain, outer, posting>>

\* When the processor is made, at most its constructor starts a loop.
LEMMA LoopInit == WebInit => LoopInv
<1> SUFFICES ASSUME WebInit PROVE LoopInv
  OBVIOUS
<1>1. /\ active = (listening # {}) /\ built = ~active /\ closed = FALSE
      /\ mpc = IF active THEN "drain" ELSE "idle"
      /\ drain.loop = 0 /\ outer = <<>> /\ posting = <<>>
      /\ generation = 0 /\ waiting = {} /\ woken = {}
  BY DEF WebInit, NoDrain, Starting
<1>2. ActiveInv
  BY <1>1 DEF ActiveInv
<1>3. PostingInv
  BY <1>1 DEF PostingInv
<1>4. LoopsInv
  <2>1. \/ active /\ ~built /\ mpc = "drain"
        \/ ~active /\ built /\ mpc = "idle"
    BY <1>1
  <2>2. drain.loop \in 0 .. generation
    BY <1>1, SMT
  <2> HIDE DEF WebInit
  <2> QED
    BY <1>1, <2>1, <2>2 DEF LoopsInv, Starting
<1>5. ServedInv
  BY <1>1 DEF ServedInv, Starting
<1> QED
  BY <1>2, <1>3, <1>4, <1>5 DEF LoopInv

\* Steps of no concern to the loops keep their invariant.
LEMMA LoopUnchanged ==
    ASSUME LoopInv, UNCHANGED loopVars
    PROVE  LoopInv'
BY DEF LoopInv, ActiveInv, PostingInv, LoopsInv, ServedInv, loopVars

\* A wake-up only moves loops from those that wait to those to be resumed.
LEMMA LoopNotify ==
    ASSUME WebTypeOK, LoopInv, Notify
    PROVE  LoopInv'
<1>1. /\ woken' = woken \cup waiting /\ waiting' = {}
      /\ UNCHANGED <<active, generation, listening, closed, built, mpc, drain,
                     outer, posting>>
  BY DEF Notify, page, listeners
<1>2. ActiveInv'
  BY <1>1 DEF LoopInv, ActiveInv
<1>3. PostingInv'
  BY <1>1 DEF LoopInv, PostingInv
<1>4. LoopsInv'
  BY <1>1, SMT DEF LoopInv, LoopsInv
<1>5. ServedInv'
  BY <1>1 DEF LoopInv, ServedInv
<1> QED
  BY <1>2, <1>3, <1>4, <1>5 DEF LoopInv

\* Nothing is for a listener whose subscription the worklet cannot know yet.
LEMMA NothingForTheNewest ==
    ASSUME WebTypeOK, SubscriptionInv, posting # <<>>
    PROVE  /\ \E k \in Kinds : listening = {k}
           /\ \A k \in listening : /\ collecting[k].id < subscription[k]
                                   /\ drain.entry.of[k] < subscription[k]
<1> DEFINE m == Head(posting)
<1>1. m \in Messages /\ m.kind \in Kinds
  <2>1. posting \in Seq(Messages)
    BY DEF WebTypeOK, PageOK
  <2>2. m \in Messages
    BY <2>1
  <2> QED
    BY <2>2 DEF Messages
<1>2. /\ listening = {m.kind} /\ m.id = subscription[m.kind]
      /\ collecting[m.kind].id < m.id
  BY DEF SubscriptionInv, PortInv, NewestInv
<1>3. drain.entry.of[m.kind] <= collecting[m.kind].id
  BY <1>1 DEF SubscriptionInv, EntriesInv, MadeFor
<1> HIDE DEF m
<1>4. /\ drain.entry.of[m.kind] \in Nat
      /\ collecting[m.kind].id \in Nat /\ subscription[m.kind] \in Nat
  <2>1. drain.entry.of \in Counts
    BY DEF WebTypeOK, PageOK, Drains, Entries
  <2> QED
    BY <1>1, <2>1 DEF WebTypeOK, WorkletOK, PageOK, Counts
<1>5. drain.entry.of[m.kind] < subscription[m.kind]
  BY <1>2, <1>3, <1>4, SMT
<1> QED
  BY <1>1, <1>2, <1>5

\* A drain starts no loop and calls nobody whose message is to be posted.
LEMMA LoopDrainStep ==
    ASSUME WebTypeOK, LoopInv, SubscriptionInv, DrainStep
    PROVE  LoopInv'
<1>1. /\ UNCHANGED <<active, generation, waiting, woken, listening, closed,
                     built, outer, posting>>
      /\ mpc \in {"drain", "decode", "deliver", "call"}
      /\ mpc' \in {"drain", "decode", "deliver", "call"}
  BY DEF DrainStep, TakeEntry, Decode, ListenerReturns, FinishEntry, Deliver,
         loops, listeners
<1>2. drain \in Drains
  BY DEF WebTypeOK, PageOK
<1>3. drain'.loop = drain.loop
  BY <1>2 DEF DrainStep, TakeEntry, Decode, ListenerReturns, FinishEntry,
              Deliver, Drains
<1>4. posting # <<>> => /\ mpc' # "call"
                        /\ mpc' = "deliver" => drain'.todo = {}
  <2> SUFFICES ASSUME posting # <<>>
               PROVE  mpc' # "call" /\ (mpc' = "deliver" => drain'.todo = {})
    OBVIOUS
  <2>1. mpc # "call" /\ (mpc = "deliver" => drain.todo = {})
    BY DEF LoopInv, PostingInv
  <2>2. CASE TakeEntry
    BY <2>2 DEF TakeEntry
  <2>3. CASE Decode
    <3> DEFINE t == {k \in listening :
                       /\ drain.entry.of[k] = subscription[k]
                       /\ drain.entry.records[k] + drain.entry.drops[k] > 0}
    <3>1. \A k \in listening : drain.entry.of[k] # subscription[k]
      <4> SUFFICES ASSUME NEW k \in listening
                   PROVE  drain.entry.of[k] # subscription[k]
        OBVIOUS
      <4>1. drain.entry.of[k] < subscription[k]
        BY NothingForTheNewest
      <4>2. drain.entry.of[k] \in Nat /\ subscription[k] \in Nat
        BY DEF WebTypeOK, PageOK, Drains, Entries, Counts
      <4> QED
        BY <4>1, <4>2, SMT
    <3>2. t = {}
      BY <3>1
    <3>3. /\ drain' = [drain EXCEPT !.todo = t, !.visiting = {}, !.late = {}]
          /\ mpc' = "deliver"
      BY <2>3 DEF Decode
    <3> HIDE DEF t
    <3> QED
      BY <1>2, <3>2, <3>3 DEF Drains
  <2>4. CASE ListenerReturns
    BY <2>1, <2>4 DEF ListenerReturns
  <2>5. CASE FinishEntry
    BY <2>5 DEF FinishEntry
  <2>6. ASSUME NEW k \in Kinds, Deliver(k) PROVE FALSE
    BY <2>1, <2>6 DEF Deliver
  <2> QED
    BY <2>2, <2>3, <2>4, <2>5, <2>6 DEF DrainStep
<1>5. ActiveInv'
  BY <1>1 DEF LoopInv, ActiveInv
<1>6. PostingInv'
  BY <1>1, <1>4 DEF LoopInv, PostingInv
<1>7. LoopsInv'
  <2>1. mpc' = "call" => posting = <<>>
    BY <1>4
  <2> QED
    BY <1>1, <1>3, <2>1, SMT DEF LoopInv, LoopsInv, Starting
<1>8. ServedInv'
  BY <1>1, <1>3 DEF LoopInv, ServedInv
<1> QED
  BY <1>5, <1>6, <1>7, <1>8 DEF LoopInv

\* A loop begins, goes round, waits or ends.
LEMMA LoopStepKeepsLoops ==
    ASSUME WebTypeOK, LoopInv, LoopStep
    PROVE  LoopInv'
<1> USE DEF loops, listeners, Starting
<1>1. generation \in Nat /\ drain.loop \in Nat
  BY DEF WebTypeOK, LoopsOK, PageOK, Drains
<1>2. drain \in Drains /\ outer \in Seq(Drains)
  BY DEF WebTypeOK, PageOK
<1>3. CASE EndDrain
  <2>1. /\ mpc = "drain"
        /\ UNCHANGED <<active, waiting, woken, listening, closed, built, outer,
                       posting>>
    BY <1>3 DEF EndDrain
  <2>2. CASE drain.loop = 0
    <3>1. /\ generation' = generation + 1 /\ mpc' = "turn"
          /\ drain'.loop = generation + 1 /\ drain'.todo = drain.todo
      BY <1>2, <1>3, <2>2 DEF EndDrain, Drains
    <3>2. ActiveInv'
      BY <2>1, <3>1 DEF LoopInv, ActiveInv
    <3>3. PostingInv'
      BY <2>1, <3>1 DEF LoopInv, PostingInv
    <3>4. LoopsInv'
      BY <1>1, <2>1, <2>2, <3>1, SMT DEF LoopInv, LoopsInv
    <3>5. ServedInv'
      BY <3>1 DEF ServedInv
    <3> QED
      BY <3>2, <3>3, <3>4, <3>5 DEF LoopInv
  <2>3. CASE drain.loop # 0
    <3>1. mpc' = "arm" /\ UNCHANGED <<generation, drain>>
      BY <1>3, <2>3 DEF EndDrain
    <3>2. ActiveInv'
      BY <2>1, <3>1 DEF LoopInv, ActiveInv
    <3>3. PostingInv'
      BY <2>1, <3>1 DEF LoopInv, PostingInv
    <3>4. LoopsInv'
      BY <1>1, <2>1, <2>3, <3>1 DEF LoopInv, LoopsInv
    <3>5. ServedInv'
      BY <2>1, <2>3, <3>1 DEF LoopInv, ServedInv
    <3> QED
      BY <3>2, <3>3, <3>4, <3>5 DEF LoopInv
  <2> QED
    BY <2>2, <2>3
<1>4. CASE Turn
  <2>1. /\ mpc = "turn" /\ mpc' \in {"drain", "return"}
        /\ UNCHANGED <<active, generation, waiting, woken, listening, closed,
                       built, outer, posting>>
    BY <1>4 DEF Turn
  <2>2. drain'.loop = drain.loop /\ drain'.todo = drain.todo
    BY <1>2, <1>4 DEF Turn, Drains
  <2>3. mpc' = "return" => closed \/ drain.loop # generation
    BY <1>4 DEF Turn, Ended
  <2>4. drain.loop # 0
    BY <2>1 DEF LoopInv, LoopsInv
  <2>5. ActiveInv'
    BY <2>1 DEF LoopInv, ActiveInv
  <2>6. PostingInv'
    BY <2>1, <2>2 DEF LoopInv, PostingInv
  <2>7. LoopsInv'
    BY <1>1, <2>1, <2>2, <2>4 DEF LoopInv, LoopsInv
  <2>8. ServedInv'
    BY <2>1, <2>2, <2>3, <2>4 DEF LoopInv, ServedInv, ActiveInv
  <2> QED
    BY <2>5, <2>6, <2>7, <2>8 DEF LoopInv
<1>5. CASE Arm
  <2>1. /\ mpc = "arm" /\ mpc' \in {"turn", "return"}
        /\ UNCHANGED <<active, generation, woken, listening, closed,
                       built, outer, posting, drain>>
    BY <1>5 DEF Arm, WaitAsync
  <2>2. drain.loop # 0
    BY <2>1 DEF LoopInv, LoopsInv
  <2>3. \/ Ended /\ mpc' = "return" /\ waiting' = waiting
        \/ ~Ended /\ mpc' = "return" /\ waiting' = waiting \cup {drain.loop}
        \/ ~Ended /\ mpc' = "turn" /\ waiting' = waiting
    BY <1>5 DEF Arm, WaitAsync
  <2>4. ~Ended => active /\ drain.loop = generation
    <3>1. ~active => drain.loop < generation
      BY <2>1 DEF LoopInv, LoopsInv
    <3> QED
      BY <1>1, <3>1, SMT DEF Ended
  <2>5. ActiveInv'
    BY <2>1 DEF LoopInv, ActiveInv
  <2>6. PostingInv'
    BY <2>1 DEF LoopInv, PostingInv
  <2>7. LoopsInv'
    BY <1>1, <2>1, <2>2, <2>3, <2>4, SMT DEF LoopInv, LoopsInv
  <2>8. ServedInv'
    BY <2>1, <2>2, <2>3, <2>4 DEF LoopInv, ServedInv, ActiveInv, Ended
  <2> QED
    BY <2>5, <2>6, <2>7, <2>8 DEF LoopInv
<1>6. CASE Return
  <2>1. /\ mpc = "return" /\ posting' = <<>> /\ built' = TRUE
        /\ UNCHANGED <<active, generation, waiting, woken, listening, closed>>
    BY <1>6 DEF Return
  <2>2. active => generation \in waiting \cup woken
    BY <2>1 DEF LoopInv, LoopsInv, ServedInv
  <2>3. CASE outer = <<>>
    <3>1. mpc' = "idle" /\ drain' = NoDrain /\ outer' = <<>>
      BY <1>6, <2>3 DEF Return
    <3>2. drain'.loop = 0
      BY <3>1 DEF NoDrain
    <3>3. ActiveInv' /\ PostingInv' /\ ServedInv'
      BY <2>1, <2>2, <3>1 DEF LoopInv, ActiveInv, PostingInv, ServedInv
    <3>4. LoopsInv'
      BY <1>1, <2>1, <3>1, <3>2, SMT DEF LoopInv, LoopsInv
    <3> QED
      BY <3>3, <3>4 DEF LoopInv
  <2>4. CASE outer # <<>>
    <3>1. mpc' = "call" /\ drain' = Head(outer) /\ outer' = <<>>
      BY <1>6, <2>4 DEF Return
    <3>2. ActiveInv' /\ PostingInv' /\ ServedInv'
      BY <2>1, <2>2, <3>1 DEF LoopInv, ActiveInv, PostingInv, ServedInv
    <3>3. /\ Head(outer).loop \in 1 .. generation - 1
          /\ Head(outer).loop \notin waiting \cup woken
      BY <2>4 DEF LoopInv, LoopsInv
    <3>4. LoopsInv'
      BY <1>1, <2>1, <3>1, <3>3, SMT DEF LoopInv, LoopsInv
    <3> QED
      BY <3>2, <3>4 DEF LoopInv
  <2> QED
    BY <2>3, <2>4
<1>7. ASSUME NEW g \in woken, Resume(g) PROVE LoopInv'
  <2>1. /\ mpc = "idle" /\ mpc' = "turn" /\ woken' = woken \ {g}
        /\ drain'.loop = g
        /\ UNCHANGED <<active, generation, waiting, listening, closed,
                       built, outer, posting>>
    BY <1>2, <1>7 DEF Resume, Drains
  <2>2. posting = <<>> /\ outer = <<>>
    BY <2>1 DEF LoopInv, PostingInv
  <2>3. g \in 1 .. generation
    BY DEF LoopInv, LoopsInv
  <2>4. ActiveInv'
    BY <2>1 DEF LoopInv, ActiveInv
  <2>5. PostingInv'
    BY <2>1, <2>2 DEF LoopInv, PostingInv
  <2>6. LoopsInv'
    BY <1>1, <2>1, <2>2, <2>3, SMT DEF LoopInv, LoopsInv
  <2>7. ServedInv'
    BY <2>1, <2>3, SMT DEF LoopInv, ServedInv
  <2> QED
    BY <2>4, <2>5, <2>6, <2>7 DEF LoopInv
<1> QED
  BY <1>3, <1>4, <1>5, <1>6, <1>7 DEF LoopStep

\* A program can only act when no start of a loop is under way.
LEMMA ActingIsOutside ==
    ASSUME LoopInv, Acting
    PROVE  /\ posting = <<>> /\ outer = <<>> /\ built
           /\ mpc = "call" => drain.loop # Starting
BY DEF LoopInv, PostingInv, LoopsInv, Acting

\* stopExecutionOutputDrain leaves no loop waiting.
LEMMA LoopStop ==
    ASSUME WebTypeOK, LoopInv, Acting, active, StopDrain,
           listening' = {}, closed' \in BOOLEAN,
           UNCHANGED <<built, mpc, drain, outer, posting>>
    PROVE  LoopInv'
<1> USE DEF Starting
<1>1. generation \in Nat /\ drain.loop \in Nat
  BY DEF WebTypeOK, LoopsOK, PageOK, Drains
<1>2. /\ ~active' /\ generation' = generation + 1
      /\ woken' = woken \cup waiting /\ waiting' = {}
  BY DEF StopDrain
<1>3. /\ posting = <<>> /\ outer = <<>> /\ built
      /\ mpc = "call" => drain.loop # Starting
      /\ mpc \in {"idle", "call"}
  BY ActingIsOutside DEF Acting
<1>4. ActiveInv' /\ PostingInv' /\ ServedInv'
  BY <1>2, <1>3 DEF ActiveInv, PostingInv, ServedInv
<1>5. LoopsInv'
  BY <1>1, <1>2, <1>3, SMT DEF LoopInv, LoopsInv
<1> QED
  BY <1>4, <1>5 DEF LoopInv

\* The first listener starts a loop, within a drain or between two.
LEMMA LoopSubscribe ==
    ASSUME WebTypeOK, LoopInv, NEW k \in Kinds, Subscribe(k)
    PROVE  LoopInv'
<1> USE DEF Starting
<1>1. generation \in Nat /\ drain.loop \in Nat
  BY DEF WebTypeOK, LoopsOK, PageOK, Drains
<1>2. /\ posting = <<>> /\ outer = <<>> /\ built
      /\ mpc = "call" => drain.loop # Starting
      /\ mpc \in {"idle", "call"} /\ ~closed
  BY ActingIsOutside DEF Acting, Subscribe
<1>3. /\ listening' # {}
      /\ UNCHANGED <<generation, waiting, woken, closed, built>>
  BY DEF Subscribe
<1>4. CASE active
  <2>1. /\ UNCHANGED <<mpc, outer, posting, active>>
        /\ drain' = Joined(k)
    BY <1>4 DEF Subscribe
  <2>2. drain'.loop = drain.loop
    BY <2>1, JoinedIs
  <2>3. ActiveInv' /\ PostingInv' /\ ServedInv'
    BY <1>2, <1>3, <1>4, <2>1, <2>2 DEF LoopInv, ActiveInv, PostingInv, ServedInv
  <2>4. LoopsInv'
    BY <1>2, <1>3, <2>1, <2>2 DEF LoopInv, LoopsInv
  <2> QED
    BY <2>3, <2>4 DEF LoopInv
<1>5. CASE ~active
  <2>1. /\ active' /\ mpc' = "drain" /\ drain' = NoDrain
        /\ outer' = IF mpc = "call" THEN <<Joined(k)>> ELSE <<>>
        /\ Len(posting') = 1 /\ posting' # <<>>
    BY <1>5 DEF Subscribe
  <2>2. drain'.loop = 0
    BY <2>1 DEF NoDrain
  <2>3. waiting = {} /\ \A g \in woken : g < generation
    BY <1>5 DEF LoopInv, LoopsInv
  <2>4. outer' # <<>> => /\ mpc = "call" /\ Head(outer').loop = drain.loop
                         /\ Len(outer') = 1
    BY <2>1, JoinedIs
  <2>5. mpc = "call" => drain.loop \in 1 .. generation - 1
    BY <1>1, <1>2, <1>5, SMT DEF LoopInv, LoopsInv
  <2>6. mpc = "call" => drain.loop \notin waiting \cup woken
    BY DEF LoopInv, LoopsInv
  <2>7. ActiveInv' /\ PostingInv' /\ ServedInv'
    BY <1>2, <1>3, <2>1, <2>2, <2>4 DEF ActiveInv, PostingInv, ServedInv
  <2>8. LoopsInv'
    <3>1. outer' # <<>> => /\ Head(outer').loop \in 1 .. generation' - 1
                           /\ Head(outer').loop \notin waiting' \cup woken'
      BY <1>3, <2>4, <2>5, <2>6
    <3>2. 0 \notin waiting \cup woken
      BY SMT DEF LoopInv, LoopsInv
    <3>3. 0 \in 0 .. generation
      BY <1>1, SMT
    <3> QED
      BY <1>2, <1>3, <2>1, <2>2, <2>3, <3>1, <3>2, <3>3 DEF LoopInv, LoopsInv
  <2> QED
    BY <2>7, <2>8 DEF LoopInv
<1> QED
  BY <1>4, <1>5

\* Whatever the program calls, one loop serves or none has to.
LEMMA LoopCall ==
    ASSUME WebTypeOK, LoopInv,
           (\E k \in Kinds : Subscribe(k) \/ Unsubscribe(k)) \/ Close
    PROVE  LoopInv'
<1> USE DEF loops, listeners, page
<1>1. ASSUME NEW k \in Kinds, Unsubscribe(k) PROVE LoopInv'
  <2>1. /\ Acting /\ listening' = listening \ {k} /\ listening # {}
        /\ UNCHANGED <<closed, built, mpc, drain, outer, posting>>
    BY <1>1 DEF Unsubscribe
  <2>2. CASE listening' = {}
    <3>1. active /\ closed' \in BOOLEAN /\ StopDrain
      BY <1>1, <2>1, <2>2 DEF Unsubscribe, LoopInv, ActiveInv, WebTypeOK, PageOK
    <3> QED
      BY <2>1, <2>2, <3>1, LoopStop
  <2>3. CASE listening' # {}
    <3>1. UNCHANGED <<active, generation, waiting, woken>>
      BY <1>1, <2>3 DEF Unsubscribe
    <3> QED
      BY <2>1, <2>3, <3>1
         DEF LoopInv, ActiveInv, PostingInv, LoopsInv, ServedInv
  <2> QED
    BY <2>2, <2>3
<1>2. CASE Close
  <2>1. /\ Acting /\ listening' = {} /\ closed' = TRUE
        /\ UNCHANGED <<built, mpc, drain, outer, posting>>
    BY <1>2 DEF Close
  <2>2. CASE active
    BY <1>2, <2>1, <2>2, LoopStop DEF Close
  <2>3. CASE ~active
    <3>1. UNCHANGED <<active, generation, waiting, woken>>
      BY <1>2, <2>3 DEF Close
    <3> QED
      BY <2>1, <2>3, <3>1
         DEF LoopInv, ActiveInv, PostingInv, LoopsInv, ServedInv
  <2> QED
    BY <2>2, <2>3
<1> QED
  BY <1>1, <1>2, LoopSubscribe

\* Every step keeps the loops in order.
LEMMA LoopNext ==
    ASSUME WebTypeOK, LoopInv, SubscriptionInv, [WebNext]_webVars
    PROVE  LoopInv'
<1>1. ASSUME NEW some \in SUBSET Kinds, Publish(some) PROVE LoopInv'
  BY <1>1, LoopUnchanged DEF Publish, loopVars, loops, listeners, page
<1>2. CASE WriteEntry \/ StoreWriteIndex \/ AddWake \/ TakeMessage
  BY <1>2, LoopUnchanged
     DEF WriteEntry, StoreWriteIndex, AddWake, TakeMessage, loopVars, loops,
         listeners, page
<1>3. CASE UNCHANGED webVars
  BY <1>3, LoopUnchanged DEF webVars, loopVars, loops, listeners, page
<1> QED
  BY <1>1, <1>2, <1>3, LoopNotify, LoopDrainStep, LoopStepKeepsLoops, LoopCall
     DEF WebNext, WorkletStep
-----------------------------------------------------------------------------
\* A print listener of the constructor is known from the beginning.
LEMMA SubscriptionInit == WebInit => SubscriptionInv
<1> SUFFICES ASSUME WebInit PROVE SubscriptionInv
  OBVIOUS
<1>1. /\ port = <<>> /\ posting = <<>> /\ outer = <<>> /\ ppc = "idle"
      /\ got = Zero /\ early = Zero
      /\ batch = NoEntry /\ drain.entry = NoEntry
      /\ entries = [s \in 0 .. Slots - 1 |-> NoEntry]
      /\ subscription = [k \in Kinds |-> IF k \in listening THEN 1 ELSE 0]
      /\ \A k \in Kinds : collecting[k].id = subscription[k]
  BY DEF WebInit, NoDrain
<1>2. \A k \in Kinds : /\ NoEntry.of[k] = 0 /\ Zero[k] = 0
                       /\ collecting[k].id \in {0, 1}
  BY <1>1 DEF NoEntry, Zero
<1>3. MadeFor(NoEntry)
  BY <1>2, SMT DEF MadeFor
<1>4. EntriesInv
  BY <1>1, <1>3 DEF EntriesInv, MadeFor
<1>5. PortInv
  BY <1>1, <1>2, SMT DEF PortInv, KnownInv, QueuedInv, OrderInv, NewestInv
<1> QED
  BY <1>4, <1>5 DEF SubscriptionInv

\* The identifiers are numbers.
LEMMA IdsAreTyped ==
    ASSUME WebTypeOK
    PROVE  /\ \A k \in Kinds : /\ collecting[k].id \in Nat
                               /\ subscription[k] \in Nat
                               /\ got[k] \in Nat /\ early[k] \in Nat
           /\ \A i \in 1 .. Len(port) : /\ port[i] \in Messages
                                        /\ port[i].kind \in Kinds
                                        /\ port[i].id \in Nat
           /\ Len(port) \in Nat
           /\ posting # <<>> => /\ Head(posting) \in Messages
                                /\ Head(posting).kind \in Kinds
                                /\ Head(posting).id \in Nat
<1>1. \A k \in Kinds : /\ collecting[k].id \in Nat
                       /\ subscription[k] \in Nat
                               /\ got[k] \in Nat /\ early[k] \in Nat
  BY DEF WebTypeOK, WorkletOK, PageOK, Counts
<1>2. port \in Seq(Messages) /\ posting \in Seq(Messages)
  BY DEF WebTypeOK, PageOK
<1>3. \A i \in 1 .. Len(port) : port[i] \in Messages
  BY <1>2
<1>4. posting # <<>> => Head(posting) \in Messages
  BY <1>2
<1>5. Len(port) \in Nat
  BY <1>2
<1>6. \A m \in Messages : m.kind \in Kinds /\ m.id \in Nat
  BY DEF Messages
<1> QED
  BY <1>1, <1>3, <1>4, <1>5, <1>6

\* Entries are entries wherever they are.
LEMMA HeldEntriesAreTyped ==
    ASSUME WebTypeOK
    PROVE  /\ batch \in Entries /\ drain.entry \in Entries
           /\ \A s \in 0 .. Slots - 1 : entries[s] \in Entries
           /\ outer # <<>> => Head(outer).entry \in Entries
<1>1. drain \in Drains /\ outer \in Seq(Drains)
  BY DEF WebTypeOK, PageOK
<1>2. outer # <<>> => Head(outer) \in Drains
  BY <1>1
<1> QED
  BY <1>1, <1>2 DEF WebTypeOK, WorkletOK, Drains

(***************************************************************************)
(* Entries are of subscriptions that the worklet has been told of.         *)
(***************************************************************************)
LEMMA EntriesWorklet ==
    ASSUME WebTypeOK, EntriesInv,
           \/ \E some \in SUBSET Kinds : Publish(some)
           \/ WriteEntry \/ StoreWriteIndex \/ AddWake \/ Notify
    PROVE  EntriesInv'
<1> USE DEF EntriesInv, MadeFor, ring, worklet, page, loops, listeners
<1>1. ASSUME NEW some \in SUBSET Kinds, Publish(some) PROVE EntriesInv'
  <2>1. /\ ppc = "idle"
        /\ UNCHANGED <<entries, collecting, drain, outer>>
    BY <1>1 DEF Publish
  <2>2. \/ UNCHANGED <<ppc, batch>>
        \/ \A k \in Kinds : batch'.of[k] = collecting[k].id
    BY <1>1 DEF Publish
  <2>3. \A k \in Kinds : collecting[k].id \in Nat
    BY IdsAreTyped
  <2>4. MadeFor(batch)'
    BY <2>1, <2>2, <2>3, SMT
  <2> QED
    BY <2>1, <2>2, <2>4
<1>2. CASE WriteEntry
  <2>1. /\ ppc = "write" /\ ppc' = "store"
        /\ entries' = [entries EXCEPT ![ringWrite % Slots] = batch]
        /\ UNCHANGED <<batch, collecting, drain, outer>>
    BY <1>2 DEF WriteEntry
  <2>2. entries \in [0 .. Slots - 1 -> Entries]
    BY DEF WebTypeOK, WorkletOK
  <2>3. \A s \in 0 .. Slots - 1 : entries'[s] \in {entries[s], batch}
    BY <2>1, <2>2
  <2> QED
    BY <2>1, <2>3
<1>3. CASE StoreWriteIndex
  BY <1>3 DEF StoreWriteIndex
<1>4. CASE AddWake
  BY <1>4 DEF AddWake
<1>5. CASE Notify
  BY <1>5 DEF Notify
<1> QED
  BY <1>1, <1>2, <1>3, <1>4, <1>5

\* The subscriptions of a kind are told to the worklet in their order.
LEMMA TakeMessageTells ==
    ASSUME WebTypeOK, PortInv, TakeMessage
    PROVE  /\ \A k \in Kinds : collecting[k].id <= collecting'[k].id
           /\ \A k \in Kinds : k # Head(port).kind =>
                                  collecting'[k] = collecting[k]
           /\ collecting'[Head(port).kind] =
                [on |-> Head(port).on, id |-> Head(port).id]
           /\ Head(port).kind \in Kinds
           /\ Head(port) = port[1] /\ 1 \in 1 .. Len(port)
<1>1. port # <<>> /\ port \in Seq(Messages)
  BY DEF TakeMessage, WebTypeOK, PageOK
<1>2. Head(port) = port[1] /\ 1 \in 1 .. Len(port)
  BY <1>1, SMT
<1>3. /\ port[1].kind \in Kinds /\ port[1].id \in Nat
      /\ port[1].id >= collecting[port[1].kind].id
  BY <1>2, IdsAreTyped DEF PortInv, QueuedInv
<1>4. collecting' = [collecting EXCEPT ![port[1].kind] =
                        [on |-> port[1].on, id |-> port[1].id]]
  BY <1>2 DEF TakeMessage, SetSubscription
<1>5. collecting \in [Kinds -> [on : BOOLEAN, id : Nat]]
  BY DEF WebTypeOK, WorkletOK
<1>6. \A k \in Kinds : collecting[k].id <= collecting'[k].id
  <2> SUFFICES ASSUME NEW k \in Kinds
               PROVE  collecting[k].id <= collecting'[k].id
    OBVIOUS
  <2>1. CASE k = port[1].kind
    BY <1>3, <1>4, <1>5, <2>1, SMT
  <2>2. CASE k # port[1].kind
    <3>1. collecting'[k] = collecting[k] /\ collecting[k].id \in Nat
      BY <1>4, <1>5, <2>2, IdsAreTyped
    <3> QED
      BY <3>1, SMT
  <2> QED
    BY <2>1, <2>2
<1> QED
  BY <1>2, <1>3, <1>4, <1>5, <1>6

\* What has been written stays of subscriptions the worklet knew.
LEMMA EntriesTakeMessage ==
    ASSUME WebTypeOK, SubscriptionInv, TakeMessage
    PROVE  EntriesInv'
<1>1. \A k \in Kinds : /\ collecting[k].id \in Nat /\ collecting'[k].id \in Nat
                       /\ collecting[k].id <= collecting'[k].id
  <2>1. WebTypeOK'
    BY WorkletTypes
  <2>2. \A k \in Kinds : collecting'[k].id \in Nat
    BY <2>1 DEF WebTypeOK, WorkletOK
  <2> QED
    BY <2>2, IdsAreTyped, TakeMessageTells DEF SubscriptionInv
<1>2. ASSUME NEW e \in Entries, MadeFor(e)
      PROVE  \A k \in Kinds : e.of[k] <= collecting'[k].id
  <2> SUFFICES ASSUME NEW k \in Kinds PROVE e.of[k] <= collecting'[k].id
    OBVIOUS
  <2>1. e.of[k] \in Nat /\ e.of[k] <= collecting[k].id
    BY <1>2, EntryIsTyped DEF MadeFor
  <2> QED
    BY <1>1, <2>1, SMT
<1>3. /\ ppc = "idle" /\ UNCHANGED <<ppc, batch, entries, drain, outer>>
  BY DEF TakeMessage, ring, page
<1> QED
  BY <1>2, <1>3, HeldEntriesAreTyped DEF SubscriptionInv, EntriesInv, MadeFor

\* The page takes its entries from the ring.
LEMMA EntriesPage ==
    ASSUME WebTypeOK, EntriesInv,
           DrainStep \/ LoopStep
    PROVE  EntriesInv'
<1> USE DEF EntriesInv, MadeFor, ring, worklet, page, loops, listeners
<1>1. UNCHANGED <<entries, batch, collecting, ppc>>
  BY DEF DrainStep, LoopStep, TakeEntry, Decode, ListenerReturns, FinishEntry,
         Deliver, EndDrain, Turn, Arm, Return, Resume
<1>2. drain \in Drains
  BY DEF WebTypeOK, PageOK
<1>3. CASE TakeEntry
  <2>1. ringRead % Slots \in 0 .. Slots - 1
    BY IndexHasASlot DEF WebTypeOK, WorkletOK
  <2>2. drain'.entry = entries[ringRead % Slots] /\ outer' = outer
    BY <1>2, <1>3 DEF TakeEntry, Drains
  <2> QED
    BY <1>1, <2>1, <2>2
<1>4. CASE Decode \/ ListenerReturns \/ FinishEntry \/ \E k \in Kinds : Deliver(k)
  <2>1. drain'.entry = drain.entry /\ outer' = outer
    BY <1>2, <1>4 DEF Decode, ListenerReturns, FinishEntry, Deliver, Drains
  <2> QED
    BY <1>1, <2>1
<1>5. CASE EndDrain \/ Turn \/ Arm \/ \E g \in woken : Resume(g)
  <2>1. drain'.entry = drain.entry /\ outer' = outer
    BY <1>2, <1>5 DEF EndDrain, Turn, Arm, Resume, Drains
  <2> QED
    BY <1>1, <2>1
<1>6. CASE Return
  <2>1. \/ outer = <<>> /\ drain' = NoDrain /\ outer' = <<>>
        \/ outer # <<>> /\ drain' = Head(outer) /\ outer' = <<>>
    BY <1>6 DEF Return
  <2>2. MadeFor(NoEntry)
    <3>1. \A k \in Kinds : NoEntry.of[k] = 0 /\ collecting[k].id \in Nat
      BY IdsAreTyped DEF NoEntry, Zero
    <3> QED
      BY <3>1, SMT
  <2>3. NoDrain.entry = NoEntry
    BY DEF NoDrain
  <2> QED
    BY <1>1, <2>1, <2>2, <2>3
<1> QED
  BY <1>3, <1>4, <1>5, <1>6 DEF DrainStep, LoopStep

\* A call sets aside at most the drain it was made in.
LEMMA EntriesCall ==
    ASSUME WebTypeOK, LoopInv, EntriesInv,
           (\E k \in Kinds : Subscribe(k) \/ Unsubscribe(k)) \/ Close
    PROVE  EntriesInv'
<1> USE DEF EntriesInv, MadeFor, ring, worklet, page, loops, listeners
<1>1. UNCHANGED <<entries, batch, collecting, ppc>>
  BY DEF Subscribe, Unsubscribe, Close
<1>2. \/ UNCHANGED <<drain, outer>>
      \/ \E k \in Kinds :
            \/ drain' = Joined(k) /\ outer' = outer
            \/ /\ drain' = NoDrain
               /\ outer' = <<>> \/ outer' = <<Joined(k)>>
  BY DEF Subscribe, Unsubscribe, Close
<1>3. MadeFor(NoEntry)
  <2>1. \A k \in Kinds : NoEntry.of[k] = 0 /\ collecting[k].id \in Nat
    BY IdsAreTyped DEF NoEntry, Zero
  <2> QED
    BY <2>1, SMT
<1>4. NoDrain.entry = NoEntry
  BY DEF NoDrain
<1>5. \A k \in Kinds : /\ Joined(k).entry = drain.entry
                       /\ outer' = <<Joined(k)>> => Head(outer') = Joined(k)
  BY JoinedIs
<1> QED
  BY <1>1, <1>2, <1>3, <1>4, <1>5

\* What the invariant of the subscriptions speaks of.
portVars == <<collecting, subscription, got, early, port, posting, listening>>

\* Steps of no concern to the subscriptions keep their invariant.
LEMMA PortUnchanged ==
    ASSUME PortInv, UNCHANGED portVars
    PROVE  PortInv'
BY DEF PortInv, KnownInv, QueuedInv, OrderInv, NewestInv, portVars

\* The messages left keep their order, and what they tell is still to come.
LEMMA PortTakeMessage ==
    ASSUME WebTypeOK, PortInv, TakeMessage
    PROVE  PortInv'
<1> USE DEF PortInv
<1>1. /\ port # <<>> /\ port \in Seq(Messages) /\ port' = Tail(port)
      /\ UNCHANGED <<subscription, got, early, posting, listening>>
  BY DEF TakeMessage, WebTypeOK, PageOK, listeners, page
<1>2. /\ Len(port') = Len(port) - 1 /\ Len(port) \in Nat /\ Len(port) >= 1
      /\ \A i \in 1 .. Len(port') : /\ i + 1 \in 1 .. Len(port)
                                    /\ port'[i] = port[i + 1]
  BY <1>1, SMT
<1> DEFINE h == port[1]
<1>3. /\ h.kind \in Kinds /\ h.id \in Nat
      /\ h.id <= subscription[h.kind]
      /\ h.id >= collecting[h.kind].id
      /\ h.on => h.id > collecting[h.kind].id
  BY TakeMessageTells, IdsAreTyped DEF QueuedInv
<1>4. /\ \A k \in Kinds : collecting[k].id <= collecting'[k].id
      /\ \A k \in Kinds : k # h.kind => collecting'[k] = collecting[k]
      /\ collecting'[h.kind].id = h.id
  BY TakeMessageTells
<1>5. \A k \in Kinds : /\ collecting[k].id \in Nat /\ collecting'[k].id \in Nat
                       /\ subscription[k] \in Nat
  BY <1>3, <1>4, IdsAreTyped
<1> HIDE DEF h
<1>6. KnownInv'
  <2> SUFFICES ASSUME NEW k \in Kinds
               PROVE  /\ collecting'[k].id <= subscription[k]
                      /\ collecting'[k].id < subscription[k] => got[k] = early[k]
    BY <1>1 DEF KnownInv
  <2>1. collecting'[k].id <= subscription[k]
    BY <1>3, <1>4 DEF KnownInv
  <2>2. collecting'[k].id < subscription[k] => collecting[k].id < subscription[k]
    BY <1>4, <1>5, SMT
  <2> QED
    BY <2>1, <2>2 DEF KnownInv
<1>7. QueuedInv'
  <2> SUFFICES ASSUME NEW i \in 1 .. Len(port')
               PROVE  /\ port'[i].id <= subscription[port'[i].kind]
                      /\ port'[i].id >= collecting'[port'[i].kind].id
                      /\ port'[i].on => port'[i].id > collecting'[port'[i].kind].id
    BY <1>1 DEF QueuedInv
  <2> DEFINE m == port[i + 1]
  <2>1. i + 1 \in 1 .. Len(port) /\ port'[i] = m
    BY <1>2
  <2>2. /\ m.id <= subscription[m.kind] /\ m.kind \in Kinds /\ m.id \in Nat
        /\ m.id >= collecting[m.kind].id
        /\ m.on => m.id > collecting[m.kind].id
    BY <2>1, IdsAreTyped DEF QueuedInv
  <2>3. m.kind = h.kind => h.id <= m.id /\ (m.on => h.id < m.id)
    <3>1. 1 < i + 1 /\ 1 \in 1 .. Len(port)
      BY <1>2, SMT
    <3> QED
      BY <2>1, <3>1 DEF OrderInv, h
  <2> HIDE DEF m
  <2>4. CASE m.kind = h.kind
    BY <1>3, <1>4, <2>1, <2>2, <2>3, <2>4, SMT
  <2>5. CASE m.kind # h.kind
    BY <1>4, <2>1, <2>2, <2>5
  <2> QED
    BY <2>4, <2>5
<1>8. OrderInv'
  <2> SUFFICES ASSUME NEW i \in 1 .. Len(port'), NEW j \in 1 .. Len(port'),
                      i < j, port'[i].kind = port'[j].kind
               PROVE  /\ port'[i].id <= port'[j].id
                      /\ port'[j].on => port'[i].id < port'[j].id
    BY DEF OrderInv
  <2>1. i + 1 < j + 1
    BY <1>2, SMT
  <2> QED
    BY <1>2, <2>1 DEF OrderInv
<1>9. NewestInv'
  <2> SUFFICES ASSUME posting # <<>>
               PROVE  LET m == Head(posting)
                      IN  /\ m.on /\ listening = {m.kind}
                          /\ m.id = subscription[m.kind]
                          /\ collecting'[m.kind].id < m.id
                          /\ \A i \in 1 .. Len(port') :
                                port'[i].kind = m.kind => port'[i].id < m.id
    BY <1>1 DEF NewestInv
  <2> DEFINE m == Head(posting)
  <2>1. /\ m.on /\ listening = {m.kind} /\ m.id = subscription[m.kind]
        /\ collecting[m.kind].id < m.id /\ m.kind \in Kinds
        /\ \A i \in 1 .. Len(port) : port[i].kind = m.kind => port[i].id < m.id
    BY IdsAreTyped DEF NewestInv
  <2> HIDE DEF m
  <2>2. \A i \in 1 .. Len(port') : port'[i].kind = m.kind => port'[i].id < m.id
    BY <1>2, <2>1
  <2>3. collecting'[m.kind].id < m.id
    <3>1. CASE m.kind = h.kind
      <4>1. 1 \in 1 .. Len(port)
        BY <1>2, SMT
      <4> QED
        BY <1>4, <2>1, <3>1, <4>1 DEF h
    <3>2. CASE m.kind # h.kind
      BY <1>4, <2>1, <3>2
    <3> QED
      BY <3>1, <3>2
  <2> QED
    BY <2>1, <2>2, <2>3 DEF m
<1> QED
  BY <1>6, <1>7, <1>8, <1>9

\* Listeners get what is of their subscription, which the worklet knows then.
LEMMA PortDrain ==
    ASSUME WebTypeOK, SubscriptionInv, HandsInv, DrainStep
    PROVE  PortInv'
<1>1. UNCHANGED <<collecting, subscription, port, posting, listening>>
  BY DEF DrainStep, TakeEntry, Decode, ListenerReturns, FinishEntry, Deliver,
         worklet, listeners
<1>2. CASE TakeEntry \/ Decode \/ ListenerReturns \/ FinishEntry
  <2>1. got' = got /\ early' = early
    BY <1>2 DEF TakeEntry, Decode, ListenerReturns, FinishEntry
  <2> QED
    BY <1>1, <2>1, PortUnchanged DEF portVars, SubscriptionInv
<1>3. ASSUME NEW k \in Kinds, Deliver(k) PROVE PortInv'
  <2>1. KnownInv'
    <3> SUFFICES ASSUME NEW j \in Kinds, collecting[j].id < subscription[j]
                 PROVE  got'[j] = early'[j]
      BY <1>1 DEF SubscriptionInv, PortInv, KnownInv
    <3>1. got[j] = early[j] /\ got \in [Kinds -> Nat] /\ early \in [Kinds -> Nat]
      BY DEF SubscriptionInv, PortInv, KnownInv, WebTypeOK, PageOK, Counts
    <3>2. drain.entry.of[j] # subscription[j]
      <4>1. drain.entry.of[j] <= collecting[j].id
        BY DEF SubscriptionInv, EntriesInv, MadeFor
      <4>2. /\ drain.entry.of[j] \in Nat /\ collecting[j].id \in Nat
            /\ subscription[j] \in Nat
        BY HeldEntriesAreTyped, EntryIsTyped, IdsAreTyped
      <4> QED
        BY <4>1, <4>2, SMT
    <3>3. j = k /\ k \in listening => k \in drain.late
      BY <1>3, <3>2 DEF Deliver, HandsInv, HandsOk
    <3>4. CASE j = k /\ k \in listening
      BY <1>3, <3>1, <3>3, <3>4 DEF Deliver
    <3>5. CASE ~(j = k /\ k \in listening)
      <4>1. got'[j] = got[j] /\ early'[j] = early[j]
        BY <1>3, <3>1, <3>5 DEF Deliver
      <4> QED
        BY <3>1, <4>1
    <3> QED
      BY <3>4, <3>5
  <2> QED
    BY <1>1, <2>1
       DEF SubscriptionInv, PortInv, QueuedInv, OrderInv, NewestInv
<1> QED
  BY <1>2, <1>3 DEF DrainStep

\* A message may follow those that are under way.
LEMMA PortAppend ==
    ASSUME WebTypeOK, QueuedInv, OrderInv, NEW m \in Messages,
           port' = Append(port, m),
           \A i \in 1 .. Len(port) : port[i].kind = m.kind =>
              port[i].id <= m.id /\ (m.on => port[i].id < m.id)
    PROVE  /\ OrderInv'
           /\ Len(port') = Len(port) + 1
           /\ \A i \in 1 .. Len(port') :
                \/ i \in 1 .. Len(port) /\ port'[i] = port[i]
                \/ i = Len(port') /\ port'[i] = m
<1>1. port \in Seq(Messages) /\ Len(port) \in Nat
  BY DEF WebTypeOK, PageOK
<1>2. /\ Len(port') = Len(port) + 1
      /\ \A i \in 1 .. Len(port') :
           \/ i \in 1 .. Len(port) /\ port'[i] = port[i]
           \/ i = Len(port') /\ port'[i] = m
  BY <1>1, SMT
<1>3. OrderInv'
  <2> SUFFICES ASSUME NEW i \in 1 .. Len(port'), NEW j \in 1 .. Len(port'),
                      i < j, port'[i].kind = port'[j].kind
               PROVE  /\ port'[i].id <= port'[j].id
                      /\ port'[j].on => port'[i].id < port'[j].id
    BY DEF OrderInv
  <2>1. i \in 1 .. Len(port) /\ port'[i] = port[i]
    BY <1>1, <1>2, SMT
  <2> QED
    BY <1>2, <2>1 DEF OrderInv
<1> QED
  BY <1>2, <1>3

\* Posting one message appends it.
LEMMA ConcatOne ==
    ASSUME NEW S, NEW s \in Seq(S), NEW x \in S
    PROVE  s \o <<x>> = Append(s, x)
<1>1. <<x>> \in Seq(S) /\ Len(<<x>>) = 1 /\ <<x>>[1] = x
  BY OneIsASequence
<1>2. /\ s \o <<x>> \in Seq(S) /\ Len(s \o <<x>>) = Len(s) + 1
      /\ \A i \in 1 .. Len(s) + 1 :
            (s \o <<x>>)[i] = IF i <= Len(s) THEN s[i] ELSE <<x>>[i - Len(s)]
  BY <1>1, ConcatProperties
<1>3. /\ Append(s, x) \in Seq(S) /\ Len(Append(s, x)) = Len(s) + 1
      /\ \A i \in 1 .. Len(s) : Append(s, x)[i] = s[i]
      /\ Append(s, x)[Len(s) + 1] = x
  BY AppendProperties
<1>4. ASSUME NEW i \in 1 .. Len(s) + 1
      PROVE  (s \o <<x>>)[i] = Append(s, x)[i]
  <2>1. Len(s) \in Nat
    OBVIOUS
  <2>2. CASE i <= Len(s)
    BY <1>2, <1>3, <2>1, <2>2, SMT
  <2>3. CASE i = Len(s) + 1
    <3>1. ~(i <= Len(s)) /\ i - Len(s) = 1
      BY <2>1, <2>3, SMT
    <3> QED
      BY <1>1, <1>2, <1>3, <2>3, <3>1
  <2>4. i <= Len(s) \/ i = Len(s) + 1
    BY <2>1, SMT
  <2> QED
    BY <2>2, <2>3, <2>4
<1> QED
  BY <1>2, <1>3, <1>4, SeqEqual

\* A new message that is as new as a subscription of its kind may be posted.
LEMMA PortPost ==
    ASSUME WebTypeOK, KnownInv, QueuedInv, OrderInv, NEW m \in Messages,
           port' = Append(port, m),
           UNCHANGED collecting, listening' \in SUBSET Kinds,
           \A k \in Kinds : /\ subscription'[k] \in Nat
                            /\ subscription[k] <= subscription'[k],
           m.id = subscription'[m.kind],
           \A i \in 1 .. Len(port) : port[i].kind = m.kind /\ m.on =>
              port[i].id < m.id,
           m.on => collecting[m.kind].id < m.id
    PROVE  QueuedInv' /\ OrderInv'
<1>1. m.kind \in Kinds /\ m.id \in Nat
  BY DEF Messages
<1>2. \A i \in 1 .. Len(port) :
         /\ port[i].id <= subscription'[port[i].kind]
         /\ port[i].kind \in Kinds /\ port[i].id \in Nat
  <2> SUFFICES ASSUME NEW i \in 1 .. Len(port)
               PROVE  /\ port[i].id <= subscription'[port[i].kind]
                      /\ port[i].kind \in Kinds /\ port[i].id \in Nat
    OBVIOUS
  <2>1. port[i].kind \in Kinds /\ port[i].id \in Nat
    BY IdsAreTyped
  <2>2. port[i].id <= subscription[port[i].kind]
    BY DEF QueuedInv
  <2>3. /\ subscription[port[i].kind] \in Nat /\ subscription'[port[i].kind] \in Nat
        /\ subscription[port[i].kind] <= subscription'[port[i].kind]
    BY <2>1, IdsAreTyped
  <2> QED
    BY <2>1, <2>2, <2>3, SMT
<1>3. \A i \in 1 .. Len(port) : port[i].kind = m.kind =>
         port[i].id <= m.id /\ (m.on => port[i].id < m.id)
  BY <1>2
<1>4. /\ OrderInv'
      /\ Len(port') = Len(port) + 1
      /\ \A i \in 1 .. Len(port') :
           \/ i \in 1 .. Len(port) /\ port'[i] = port[i]
           \/ i = Len(port') /\ port'[i] = m
  BY <1>3, PortAppend
<1>5. collecting[m.kind].id <= m.id
  <2>1. /\ collecting[m.kind].id \in Nat /\ subscription[m.kind] \in Nat
        /\ subscription'[m.kind] \in Nat
        /\ collecting[m.kind].id <= subscription[m.kind]
        /\ subscription[m.kind] <= subscription'[m.kind]
    BY <1>1, IdsAreTyped DEF KnownInv
  <2> QED
    BY <2>1, SMT
<1>6. /\ m.id <= subscription'[m.kind] /\ m.id >= collecting[m.kind].id
      /\ m.on => m.id > collecting[m.kind].id
  <2>1. m.id <= m.id
    BY <1>1, SMT
  <2>2. /\ collecting[m.kind].id <= m.id <=> m.id >= collecting[m.kind].id
        /\ collecting[m.kind].id < m.id <=> m.id > collecting[m.kind].id
    BY <1>1, IdsAreTyped, SMT
  <2> QED
    BY <1>5, <2>1, <2>2
<1>7. QueuedInv'
  <2> SUFFICES ASSUME NEW i \in 1 .. Len(port')
               PROVE  /\ port'[i].id <= subscription'[port'[i].kind]
                      /\ port'[i].id >= collecting[port'[i].kind].id
                      /\ port'[i].on =>
                            port'[i].id > collecting[port'[i].kind].id
    BY DEF QueuedInv
  <2>1. CASE i \in 1 .. Len(port) /\ port'[i] = port[i]
    BY <1>2, <2>1 DEF QueuedInv
  <2>2. CASE port'[i] = m
    BY <1>6, <2>2
  <2> QED
    BY <1>4, <2>1, <2>2
<1> QED
  BY <1>4, <1>7

\* The listener that started the loop posts its message.
LEMMA PortReturn ==
    ASSUME WebTypeOK, LoopInv, PortInv, Return
    PROVE  PortInv'
<1>1. /\ port' = port \o posting /\ posting' = <<>>
      /\ UNCHANGED <<collecting, subscription, got, early, listening>>
  BY DEF Return, worklet
<1>2. port \in Seq(Messages) /\ posting \in Seq(Messages)
  BY DEF WebTypeOK, PageOK
<1>3. KnownInv' /\ NewestInv'
  BY <1>1 DEF PortInv, KnownInv, NewestInv
<1>4. QueuedInv' /\ OrderInv'
  <2>1. CASE posting = <<>>
    <3>1. port' = port
      BY <1>1, <1>2, <2>1
    <3> QED
      BY <1>1, <3>1 DEF PortInv, QueuedInv, OrderInv
  <2>2. CASE posting # <<>>
    <3> DEFINE m == Head(posting)
    <3>1. Len(posting) = 1
      BY <2>2 DEF LoopInv, PostingInv
    <3>2. m \in Messages /\ posting = <<m>>
      BY <1>2, <2>2, <3>1
    <3>3. port' = Append(port, m)
      BY <1>1, <1>2, <3>2, ConcatOne
    <3>4. /\ m.id = subscription[m.kind] /\ collecting[m.kind].id < m.id
          /\ \A i \in 1 .. Len(port) : port[i].kind = m.kind => port[i].id < m.id
      BY <2>2 DEF PortInv, NewestInv
    <3>5. \A k \in Kinds : /\ subscription'[k] \in Nat
                           /\ subscription[k] <= subscription'[k]
      <4>1. \A k \in Kinds : subscription[k] \in Nat
        BY IdsAreTyped
      <4> QED
        BY <1>1, <4>1, SMT
    <3>6. listening' \in SUBSET Kinds
      BY <1>1 DEF WebTypeOK, PageOK
    <3> HIDE DEF m
    <3> QED
      BY <1>1, <3>2, <3>3, <3>4, <3>5, <3>6, PortPost DEF PortInv
  <2> QED
    BY <2>1, <2>2
<1> QED
  BY <1>3, <1>4 DEF PortInv

\* The listener is the newest of its kind, and the only one if the loop has
\* to be started for it.
LEMMA PortSubscribe ==
    ASSUME WebTypeOK, LoopInv, PortInv, NEW k \in Kinds, Subscribe(k)
    PROVE  PortInv'
<1> DEFINE m == [kind |-> k, on |-> TRUE, id |-> subscription[k] + 1]
<1>1. m \in Messages /\ m = [Message(k, TRUE) EXCEPT !.id = @ + 1]
  BY MessageIsTyped
<1>2. m.kind = k /\ m.on /\ m.id = subscription[k] + 1
  OBVIOUS
<1>3. /\ listening' = listening \cup {k}
      /\ subscription' = [subscription EXCEPT ![k] = subscription[k] + 1]
      /\ got' = [got EXCEPT ![k] = 0] /\ early' = [early EXCEPT ![k] = 0]
      /\ UNCHANGED collecting
      /\ \/ active /\ port' = Append(port, m) /\ posting' = posting
         \/ ~active /\ port' = port /\ posting' = <<m>>
      /\ Acting
  BY <1>1 DEF Subscribe, worklet
<1> HIDE DEF m
<1>4. /\ subscription \in [Kinds -> Nat]
      /\ got \in [Kinds -> Nat] /\ early \in [Kinds -> Nat]
  BY DEF WebTypeOK, PageOK, Counts
<1>5. /\ \A j \in Kinds : /\ subscription'[j] \in Nat
                          /\ subscription[j] <= subscription'[j]
                          /\ j # k => subscription'[j] = subscription[j]
      /\ subscription'[k] = subscription[k] + 1
  BY <1>3, <1>4, SMT
<1>6. \A i \in 1 .. Len(port) : port[i].kind = k => port[i].id < m.id
  <2> SUFFICES ASSUME NEW i \in 1 .. Len(port), port[i].kind = k
               PROVE  port[i].id < m.id
    OBVIOUS
  <2>1. port[i].id <= subscription[k] /\ port[i].id \in Nat /\ subscription[k] \in Nat
    BY IdsAreTyped DEF PortInv, QueuedInv
  <2> QED
    BY <1>2, <2>1, SMT
<1>7. collecting[k].id < m.id
  <2>1. /\ collecting[k].id <= subscription[k] /\ collecting[k].id \in Nat
        /\ subscription[k] \in Nat
    BY IdsAreTyped DEF PortInv, KnownInv
  <2> QED
    BY <1>2, <2>1, SMT
<1>8. KnownInv'
  <2> SUFFICES ASSUME NEW j \in Kinds
               PROVE  /\ collecting[j].id <= subscription'[j]
                      /\ collecting[j].id < subscription'[j] =>
                            got'[j] = early'[j]
    BY <1>3 DEF KnownInv
  <2>1. /\ collecting[j].id <= subscription[j]
        /\ collecting[j].id < subscription[j] => got[j] = early[j]
        /\ collecting[j].id \in Nat /\ subscription[j] \in Nat
    BY IdsAreTyped DEF PortInv, KnownInv
  <2>2. CASE j = k
    <3>1. got'[j] = 0 /\ early'[j] = 0
      BY <1>3, <1>4, <2>2
    <3>2. collecting[j].id <= subscription'[j]
      <4>1. subscription'[j] \in Nat /\ subscription[j] <= subscription'[j]
        BY <1>5
      <4> QED
        BY <2>1, <4>1, SMT
    <3> QED
      BY <3>1, <3>2
  <2>3. CASE j # k
    <3>1. /\ got'[j] = got[j] /\ early'[j] = early[j]
          /\ subscription'[j] = subscription[j]
      BY <1>3, <1>4, <1>5, <2>3
    <3> QED
      BY <2>1, <3>1
  <2> QED
    BY <2>2, <2>3
<1>9. CASE active
  <2>1. port' = Append(port, m) /\ posting' = posting /\ posting = <<>>
    BY <1>3, <1>9, ActingIsOutside
  <2>2. listening' \in SUBSET Kinds
    BY <1>3 DEF WebTypeOK, PageOK
  <2>3. QueuedInv' /\ OrderInv'
    <3>1. m.id = subscription'[m.kind]
      BY <1>2, <1>5
    <3>2. KnownInv /\ QueuedInv /\ OrderInv /\ UNCHANGED collecting
      BY <1>3 DEF PortInv
    <3> QED
      BY <1>1, <1>2, <1>5, <1>6, <1>7, <2>1, <2>2, <3>1, <3>2, PortPost
  <2>4. NewestInv'
    BY <2>1 DEF NewestInv
  <2> QED
    BY <1>8, <2>3, <2>4 DEF PortInv
<1>10. CASE ~active
  <2>1. port' = port /\ posting' = <<m>>
    BY <1>3, <1>10
  <2>2. listening' = {k}
    BY <1>3, <1>10 DEF LoopInv, ActiveInv
  <2>3. OrderInv'
    BY <2>1 DEF PortInv, OrderInv
  <2>4. QueuedInv'
    <3> SUFFICES ASSUME NEW i \in 1 .. Len(port)
                 PROVE  /\ port[i].id <= subscription'[port[i].kind]
                        /\ port[i].id >= collecting[port[i].kind].id
                        /\ port[i].on => port[i].id > collecting[port[i].kind].id
      BY <1>3, <2>1 DEF QueuedInv
    <3>1. /\ port[i].kind \in Kinds /\ port[i].id \in Nat
          /\ port[i].id <= subscription[port[i].kind]
          /\ port[i].id >= collecting[port[i].kind].id
          /\ port[i].on => port[i].id > collecting[port[i].kind].id
      BY IdsAreTyped DEF PortInv, QueuedInv
    <3>2. port[i].id <= subscription'[port[i].kind]
      <4>1. /\ subscription'[port[i].kind] \in Nat
            /\ subscription[port[i].kind] \in Nat
            /\ subscription[port[i].kind] <= subscription'[port[i].kind]
        BY <1>4, <1>5, <3>1
      <4> QED
        BY <3>1, <4>1, SMT
    <3> QED
      BY <3>1, <3>2
  <2>5. NewestInv'
    <3>1. Head(posting') = m
      BY <2>1
    <3>2. /\ \A i \in 1 .. Len(port') : port'[i].kind = k => port'[i].id < m.id
          /\ collecting'[k].id < m.id /\ m.id = subscription'[k]
      BY <1>2, <1>3, <1>5, <1>6, <1>7, <2>1
    <3> QED
      BY <1>2, <2>2, <3>1, <3>2 DEF NewestInv
  <2> QED
    BY <1>8, <2>3, <2>4, <2>5 DEF PortInv
<1> QED
  BY <1>9, <1>10

\* Messages that listeners have left follow the others of their kinds.
LEMMA PortLeave ==
    ASSUME WebTypeOK, LoopInv, PortInv, Acting,
           \A i \in 1 .. Len(port') :
              \/ i \in 1 .. Len(port) /\ port'[i] = port[i]
              \/ i > Len(port) /\ \E k \in Kinds : port'[i] = Message(k, FALSE),
           UNCHANGED <<collecting, subscription, got, early, posting>>
    PROVE  PortInv'
<1>1. posting' = <<>> /\ Len(port) \in Nat
  BY ActingIsOutside, IdsAreTyped
<1>2. \A i \in 1 .. Len(port') :
         /\ port'[i].kind \in Kinds
         /\ port'[i].id \in Nat /\ subscription[port'[i].kind] \in Nat
         /\ port'[i].id <= subscription[port'[i].kind]
         /\ i > Len(port) => /\ port'[i].id = subscription[port'[i].kind]
                             /\ port'[i].on = FALSE
  <2> SUFFICES ASSUME NEW i \in 1 .. Len(port')
               PROVE  /\ port'[i].kind \in Kinds
                      /\ port'[i].id \in Nat
                      /\ subscription[port'[i].kind] \in Nat
                      /\ port'[i].id <= subscription[port'[i].kind]
                      /\ i > Len(port) =>
                            /\ port'[i].id = subscription[port'[i].kind]
                            /\ port'[i].on = FALSE
    OBVIOUS
  <2>1. CASE i \in 1 .. Len(port) /\ port'[i] = port[i]
    <3>1. ~(i > Len(port))
      BY <1>1, <2>1, SMT
    <3> QED
      BY <2>1, <3>1, IdsAreTyped DEF PortInv, QueuedInv
  <2>2. ASSUME NEW k \in Kinds, port'[i] = Message(k, FALSE)
        PROVE  /\ port'[i].kind \in Kinds
               /\ port'[i].id \in Nat /\ subscription[port'[i].kind] \in Nat
               /\ port'[i].id <= subscription[port'[i].kind]
               /\ port'[i].id = subscription[port'[i].kind]
               /\ port'[i].on = FALSE
    <3>1. /\ port'[i].kind = k /\ port'[i].id = subscription[k]
          /\ port'[i].on = FALSE
      BY <2>2 DEF Message
    <3>2. subscription[k] \in Nat
      BY IdsAreTyped
    <3> QED
      BY <3>1, <3>2, SMT
  <2> QED
    BY <2>1, <2>2
<1>3. QueuedInv'
  <2> SUFFICES ASSUME NEW i \in 1 .. Len(port')
               PROVE  /\ port'[i].id <= subscription[port'[i].kind]
                      /\ port'[i].id >= collecting[port'[i].kind].id
                      /\ port'[i].on =>
                            port'[i].id > collecting[port'[i].kind].id
    BY DEF QueuedInv
  <2>1. CASE i \in 1 .. Len(port) /\ port'[i] = port[i]
    BY <2>1 DEF PortInv, QueuedInv
  <2>2. CASE i > Len(port)
    <3>1. /\ port'[i].id = subscription[port'[i].kind] /\ port'[i].on = FALSE
          /\ port'[i].kind \in Kinds
      BY <1>2, <2>2
    <3>2. /\ collecting[port'[i].kind].id <= subscription[port'[i].kind]
          /\ collecting[port'[i].kind].id \in Nat
          /\ subscription[port'[i].kind] \in Nat
      BY <3>1, IdsAreTyped DEF PortInv, KnownInv
    <3> QED
      BY <3>1, <3>2, SMT
  <2> QED
    BY <2>1, <2>2
<1>4. OrderInv'
  <2> SUFFICES ASSUME NEW i \in 1 .. Len(port'), NEW j \in 1 .. Len(port'),
                      i < j, port'[i].kind = port'[j].kind
               PROVE  /\ port'[i].id <= port'[j].id
                      /\ port'[j].on => port'[i].id < port'[j].id
    BY DEF OrderInv
  <2>1. CASE j \in 1 .. Len(port) /\ port'[j] = port[j]
    <3>1. i \in 1 .. Len(port) /\ ~(i > Len(port))
      BY <1>1, <2>1, SMT
    <3>2. port'[i] = port[i]
      BY <3>1
    <3> QED
      BY <2>1, <3>1, <3>2 DEF PortInv, OrderInv
  <2>2. CASE j > Len(port)
    BY <1>2, <2>2
  <2> QED
    BY <2>1, <2>2
<1>5. KnownInv' /\ NewestInv'
  BY <1>1 DEF PortInv, KnownInv, NewestInv
<1> QED
  BY <1>3, <1>4, <1>5 DEF PortInv

\* What unsubscribing or closing posts.
LEMMA FarewellIsTyped ==
    ASSUME WebTypeOK, NEW k \in Kinds
    PROVE  /\ Farewell(k) \in Seq(Messages) /\ Len(Farewell(k)) \in Nat
           /\ \A i \in 1 .. Len(Farewell(k)) :
                 Farewell(k)[i] = Message(k, FALSE)
<1>1. Message(k, FALSE) \in Messages
  BY MessageIsTyped
<1>2. CASE k \in listening
  <2>1. Farewell(k) = <<Message(k, FALSE)>>
    BY <1>2 DEF Farewell
  <2>2. Farewell(k) \in Seq(Messages)
    BY <1>1, <2>1, OneIsASequence
  <2>3. Len(Farewell(k)) = 1 /\ Farewell(k)[1] = Message(k, FALSE)
    BY <2>1
  <2>4. 1 \in Nat /\ \A i \in 1 .. 1 : i = 1
    BY SMT
  <2> QED
    BY <2>2, <2>3, <2>4
<1>3. CASE k \notin listening
  <2>1. Farewell(k) = <<>>
    BY <1>3 DEF Farewell
  <2>2. Farewell(k) \in Seq(Messages) /\ Len(Farewell(k)) = 0
    BY <2>1, EmptySeq
  <2>3. 0 \in Nat /\ 1 .. 0 = {}
    BY SMT
  <2> QED
    BY <2>2, <2>3
<1> QED
  BY <1>2, <1>3

\* Closing leaves what is under way where it is.
LEMMA CloseFollows ==
    ASSUME WebTypeOK, Close
    PROVE  \A i \in 1 .. Len(port') :
              \/ i \in 1 .. Len(port) /\ port'[i] = port[i]
              \/ i > Len(port) /\ \E k \in Kinds : port'[i] = Message(k, FALSE)
<1> DEFINE d == Farewell("delegate")
           p == Farewell("print")
           q == port \o d
<1>1. port \in Seq(Messages) /\ Len(port) \in Nat
  BY DEF WebTypeOK, PageOK
<1>2. /\ d \in Seq(Messages) /\ p \in Seq(Messages)
      /\ Len(d) \in Nat /\ Len(p) \in Nat
      /\ \A i \in 1 .. Len(d) : \E k \in Kinds : d[i] = Message(k, FALSE)
      /\ \A i \in 1 .. Len(p) : \E k \in Kinds : p[i] = Message(k, FALSE)
  <2>1. "delegate" \in Kinds /\ "print" \in Kinds
    BY DEF Kinds
  <2> QED
    BY <2>1, FarewellIsTyped
<1>3. port' = q \o p
  BY DEF Close
<1> HIDE DEF d, p
<1>4. /\ q \in Seq(Messages) /\ Len(q) = Len(port) + Len(d)
      /\ \A i \in 1 .. Len(port) + Len(d) :
            q[i] = IF i <= Len(port) THEN port[i] ELSE d[i - Len(port)]
  BY <1>1, <1>2, ConcatProperties
<1> HIDE DEF q
<1>5. /\ Len(port') = Len(q) + Len(p)
      /\ \A i \in 1 .. Len(q) + Len(p) :
            port'[i] = IF i <= Len(q) THEN q[i] ELSE p[i - Len(q)]
  <2>1. q \in Seq(Messages) /\ p \in Seq(Messages)
    BY <1>2, <1>4
  <2>2. /\ Len(q \o p) = Len(q) + Len(p)
        /\ \A i \in 1 .. Len(q) + Len(p) :
              (q \o p)[i] = IF i <= Len(q) THEN q[i] ELSE p[i - Len(q)]
    BY <2>1, ConcatProperties
  <2> QED
    BY <1>3, <2>2, Zenon
<1> SUFFICES ASSUME NEW i \in 1 .. Len(port')
             PROVE  \/ i \in 1 .. Len(port) /\ port'[i] = port[i]
                    \/ /\ i > Len(port)
                       /\ \E k \in Kinds : port'[i] = Message(k, FALSE)
  OBVIOUS
<1>6. i \in Nat /\ i >= 1 /\ i <= Len(q) + Len(p) /\ Len(q) \in Nat
  BY <1>1, <1>2, <1>4, <1>5, SMT
<1>7. CASE i <= Len(port)
  <2>1. /\ i \in 1 .. Len(port) /\ i \in 1 .. Len(port) + Len(d) /\ i <= Len(q)
        /\ i \in 1 .. Len(q) + Len(p)
    BY <1>1, <1>2, <1>4, <1>6, <1>7, SMT
  <2> QED
    BY <1>4, <1>5, <1>7, <2>1
<1>8. CASE i > Len(port) /\ i <= Len(q)
  <2>1. /\ i \in 1 .. Len(port) + Len(d) /\ i \in 1 .. Len(q) + Len(p)
        /\ i - Len(port) \in 1 .. Len(d) /\ ~(i <= Len(port))
    BY <1>1, <1>2, <1>4, <1>6, <1>8, SMT
  <2>2. port'[i] = d[i - Len(port)]
    BY <1>4, <1>5, <1>8, <2>1
  <2> QED
    BY <1>2, <1>8, <2>1, <2>2
<1>9. CASE i > Len(q)
  <2>1. /\ i > Len(port) /\ i \in 1 .. Len(q) + Len(p)
        /\ i - Len(q) \in 1 .. Len(p) /\ ~(i <= Len(q))
    BY <1>1, <1>2, <1>4, <1>6, <1>9, SMT
  <2>2. port'[i] = p[i - Len(q)]
    BY <1>5, <2>1
  <2> QED
    BY <1>2, <2>1, <2>2
<1>10. i <= Len(port) \/ (i > Len(port) /\ i <= Len(q)) \/ i > Len(q)
  BY <1>1, <1>6, SMT
<1> QED
  BY <1>7, <1>8, <1>9, <1>10

\* Subscriptions and their ends are posted in their order.
LEMMA PortCall ==
    ASSUME WebTypeOK, LoopInv, PortInv,
           (\E k \in Kinds : Subscribe(k) \/ Unsubscribe(k)) \/ Close
    PROVE  PortInv'
<1>1. ASSUME NEW k \in Kinds, Unsubscribe(k) PROVE PortInv'
  <2>1. /\ Acting /\ port' = Append(port, Message(k, FALSE))
        /\ UNCHANGED <<collecting, subscription, got, early, posting>>
    BY <1>1 DEF Unsubscribe, worklet, page
  <2>2. port \in Seq(Messages) /\ Len(port) \in Nat
    BY DEF WebTypeOK, PageOK
  <2>3. Message(k, FALSE) \in Messages
    BY MessageIsTyped
  <2>4. /\ Len(port') = Len(port) + 1
        /\ \A i \in 1 .. Len(port) : port'[i] = port[i]
        /\ port'[Len(port) + 1] = Message(k, FALSE)
    <3> DEFINE m == Message(k, FALSE)
               q == Append(port, m)
    <3>1. m \in Messages /\ port' = q
      BY <2>1, <2>3
    <3> HIDE DEF m
    <3>2. /\ Len(q) = Len(port) + 1
          /\ \A i \in 1 .. Len(port) : q[i] = port[i]
          /\ q[Len(port) + 1] = m
      BY <2>2, <3>1, AppendProperties
    <3> HIDE DEF q
    <3>3. /\ Len(port') = Len(port) + 1
          /\ \A i \in 1 .. Len(port) : port'[i] = port[i]
          /\ port'[Len(port) + 1] = m
      BY <3>1, <3>2, Zenon
    <3> QED
      BY <3>3 DEF m
  <2>5. \A i \in 1 .. Len(port') :
              \/ i \in 1 .. Len(port) /\ port'[i] = port[i]
              \/ i > Len(port) /\ \E j \in Kinds : port'[i] = Message(j, FALSE)
    <3> SUFFICES ASSUME NEW i \in 1 .. Len(port')
                 PROVE  \/ i \in 1 .. Len(port) /\ port'[i] = port[i]
                        \/ /\ i > Len(port)
                           /\ \E j \in Kinds : port'[i] = Message(j, FALSE)
      OBVIOUS
    <3>1. i \in 1 .. Len(port) \/ (i = Len(port) + 1 /\ i > Len(port))
      BY <2>2, <2>4, SMT
    <3> QED
      BY <2>4, <3>1
  <2> QED
    BY <2>1, <2>5, PortLeave
<1>2. CASE Close
  <2>1. /\ Acting
        /\ UNCHANGED <<collecting, subscription, got, early, posting>>
    BY <1>2 DEF Close, worklet, page
  <2> QED
    BY <1>2, <2>1, CloseFollows, PortLeave
<1> QED
  BY <1>1, <1>2, PortSubscribe

\* Every step keeps entries and messages of the subscriptions they are of.
LEMMA SubscriptionNext ==
    ASSUME WebTypeOK, LoopInv, SubscriptionInv, HandsInv, [WebNext]_webVars
    PROVE  SubscriptionInv'
<1> USE DEF worklet, listeners, page
<1>1. ASSUME NEW some \in SUBSET Kinds, Publish(some) PROVE SubscriptionInv'
  <2>1. UNCHANGED portVars
    BY <1>1 DEF Publish, portVars
  <2> QED
    BY <1>1, <2>1, EntriesWorklet, PortUnchanged DEF SubscriptionInv
<1>2. CASE WriteEntry \/ StoreWriteIndex \/ AddWake \/ Notify
  <2>1. UNCHANGED portVars
    BY <1>2 DEF WriteEntry, StoreWriteIndex, AddWake, Notify, portVars
  <2> QED
    BY <1>2, <2>1, EntriesWorklet, PortUnchanged DEF SubscriptionInv
<1>3. CASE TakeMessage
  BY <1>3, EntriesTakeMessage, PortTakeMessage DEF SubscriptionInv
<1>4. CASE DrainStep
  BY <1>4, EntriesPage, PortDrain DEF SubscriptionInv
<1>5. CASE LoopStep
  <2>1. EntriesInv'
    BY <1>5, EntriesPage DEF SubscriptionInv
  <2>2. CASE EndDrain \/ Turn \/ Arm \/ \E g \in woken : Resume(g)
    <3>1. UNCHANGED portVars
      BY <2>2 DEF EndDrain, Turn, Arm, Resume, portVars
    <3> QED
      BY <2>1, <3>1, PortUnchanged DEF SubscriptionInv
  <2> QED
    BY <1>5, <2>1, <2>2, PortReturn DEF LoopStep, SubscriptionInv
<1>6. CASE (\E k \in Kinds : Subscribe(k) \/ Unsubscribe(k)) \/ Close
  BY <1>6, EntriesCall, PortCall DEF SubscriptionInv
<1>7. CASE UNCHANGED webVars
  BY <1>7, PortUnchanged
     DEF webVars, ring, portVars, SubscriptionInv, EntriesInv, MadeFor
<1> QED
  BY <1>1, <1>2, <1>3, <1>4, <1>5, <1>6, <1>7 DEF WebNext, WorkletStep

\* Nothing of an earlier subscription gets into a drain's hands, and what is
\* there is known to be of one when a listener comes.
LEMMA HandsStep ==
    ASSUME WebTypeOK, LoopInv, SubscriptionInv, HandsInv, [WebNext]_webVars
    PROVE  HandsInv'
<1> USE DEF HandsInv
<1> DEFINE same == UNCHANGED <<mpc, drain, outer, listening, subscription>>
<1>1. drain \in Drains /\ (outer # <<>> => Head(outer) \in Drains)
  BY DEF WebTypeOK, PageOK
<1>2. CASE same
  BY <1>2 DEF HandsOk
<1>3. ASSUME NEW some \in SUBSET Kinds, Publish(some) PROVE same
  BY <1>3 DEF Publish, listeners, page
<1>4. CASE WriteEntry \/ StoreWriteIndex \/ AddWake \/ Notify \/ TakeMessage
  <2>1. same
    BY <1>4 DEF WriteEntry, StoreWriteIndex, AddWake, Notify, TakeMessage,
                listeners, page
  <2> QED
    BY <1>2, <2>1
<1>5. CASE DrainStep
  <2>1. UNCHANGED <<outer, listening, subscription>>
    BY <1>5 DEF DrainStep, TakeEntry, Decode, ListenerReturns, FinishEntry,
                Deliver, listeners
  <2>2. outer' # <<>> => HandsOk(Head(outer))'
    BY <2>1 DEF HandsOk
  <2>3. CASE TakeEntry \/ FinishEntry
    BY <2>2, <2>3 DEF TakeEntry, FinishEntry
  <2>4. CASE Decode
    <3> DEFINE t == {k \in listening :
                       /\ drain.entry.of[k] = subscription[k]
                       /\ drain.entry.records[k] + drain.entry.drops[k] > 0}
    <3>1. drain' = [drain EXCEPT !.todo = t, !.visiting = {}, !.late = {}]
      BY <2>4 DEF Decode
    <3>2. \A k \in t : drain.entry.of[k] = subscription[k]
      OBVIOUS
    <3> HIDE DEF t
    <3>3. drain'.todo = t /\ drain'.late = {} /\ drain'.entry = drain.entry
      BY <1>1, <3>1 DEF Drains
    <3>4. HandsOk(drain)'
      BY <2>1, <3>2, <3>3 DEF HandsOk
    <3> QED
      BY <2>2, <3>4
  <2>5. CASE ListenerReturns
    <3>1. mpc = "call" /\ drain' = drain
      BY <2>5 DEF ListenerReturns
    <3> QED
      BY <2>1, <2>2, <3>1 DEF HandsOk
  <2>6. ASSUME NEW j \in Kinds, Deliver(j) PROVE HandsInv'
    <3>1. /\ mpc = "deliver"
          /\ drain' = [drain EXCEPT !.todo = drain.todo \ {j}, !.visiting = {j}]
      BY <2>6 DEF Deliver
    <3>2. /\ drain'.todo \subseteq drain.todo
          /\ drain'.late = drain.late /\ drain'.entry = drain.entry
      BY <1>1, <3>1 DEF Drains
    <3>3. HandsOk(drain)'
      BY <2>1, <3>1, <3>2 DEF HandsOk
    <3> QED
      BY <2>2, <3>3
  <2> QED
    BY <1>5, <2>3, <2>4, <2>5, <2>6 DEF DrainStep
<1>6. CASE LoopStep
  <2>1. UNCHANGED <<listening, subscription>>
    BY <1>6 DEF LoopStep, EndDrain, Turn, Arm, Return, Resume, listeners
  <2>2. CASE EndDrain \/ Turn \/ Arm \/ \E g \in woken : Resume(g)
    <3>1. mpc' \notin {"deliver", "call"} /\ outer' = outer
      BY <2>2 DEF EndDrain, Turn, Arm, WaitAsync, Resume
    <3> QED
      BY <2>1, <3>1 DEF HandsOk
  <2>3. CASE Return
    <3>1. /\ outer' = <<>>
          /\ \/ mpc' = "idle"
             \/ outer # <<>> /\ drain' = Head(outer)
      BY <2>3 DEF Return
    <3> QED
      BY <2>1, <3>1 DEF HandsOk
  <2> QED
    BY <1>6, <2>2, <2>3 DEF LoopStep
<1>7. CASE Close \/ \E k \in Kinds : Unsubscribe(k)
  <2>1. /\ listening' \subseteq listening
        /\ UNCHANGED <<mpc, drain, outer, subscription>>
    BY <1>7 DEF Close, Unsubscribe, page
  <2> QED
    BY <2>1 DEF HandsOk
<1>8. ASSUME NEW j \in Kinds, Subscribe(j) PROVE HandsInv'
  <2> DEFINE d == Joined(j)
  <2>1. /\ Acting /\ j \notin listening /\ listening' = listening \cup {j}
        /\ subscription' = [subscription EXCEPT ![j] = @ + 1]
        /\ \/ drain' = d /\ mpc' = mpc /\ outer' = outer
           \/ /\ mpc' = "drain"
              /\ outer' = IF mpc = "call" THEN <<d>> ELSE <<>>
    BY <1>8 DEF Subscribe
  <2>2. outer = <<>>
    BY <2>1, ActingIsOutside
  <2>3. /\ subscription'[j] = subscription[j] + 1
        /\ \A k \in Kinds \ {j} : subscription'[k] = subscription[k]
    BY <2>1 DEF WebTypeOK, PageOK, Counts
  <2>4. mpc = "call" =>
           /\ \A k \in d.todo \cap listening' :
                 k \in d.late \/ d.entry.of[k] = subscription'[k]
           /\ \A k \in d.late : d.entry.of[k] < subscription'[k]
    <3> SUFFICES ASSUME mpc = "call"
                 PROVE  /\ \A k \in d.todo \cap listening' :
                              k \in d.late \/ d.entry.of[k] = subscription'[k]
                        /\ \A k \in d.late : d.entry.of[k] < subscription'[k]
      OBVIOUS
    <3>1. /\ d.entry = drain.entry
          /\ \/ d.todo = drain.todo \cup {j} /\ d.late = drain.late \cup {j}
             \/ j \notin drain.todo /\ d = drain
      BY JoinedIs
    <3>2. /\ drain.todo \subseteq Kinds /\ drain.late \subseteq Kinds
          /\ HandsOk(drain)
      BY <1>1 DEF Drains
    <3>3. drain.entry.of[j] < subscription[j] + 1
      <4>1. /\ drain.entry.of[j] <= collecting[j].id
            /\ collecting[j].id <= subscription[j]
        BY DEF SubscriptionInv, EntriesInv, MadeFor, PortInv, KnownInv
      <4>2. /\ drain.entry.of[j] \in Nat /\ collecting[j].id \in Nat
            /\ subscription[j] \in Nat
        BY HeldEntriesAreTyped, EntryIsTyped, IdsAreTyped
      <4> QED
        BY <4>1, <4>2, SMT
    <3> HIDE DEF d
    <3>4. \A k \in d.todo \cap listening' :
             k \in d.late \/ d.entry.of[k] = subscription'[k]
      BY <2>1, <2>3, <3>1, <3>2 DEF HandsOk
    <3>5. \A k \in d.late : d.entry.of[k] < subscription'[k]
      BY <2>3, <3>1, <3>2, <3>3 DEF HandsOk
    <3> QED
      BY <3>4, <3>5
  <2> HIDE DEF d
  <2>5. HandsOk(drain)' \/ mpc' \notin {"deliver", "call"}
    BY <2>1, <2>4 DEF Acting, HandsOk
  <2>6. outer' # <<>> => HandsOk(Head(outer))'
    BY <2>1, <2>2, <2>4 DEF HandsOk
  <2> QED
    BY <2>5, <2>6
<1>9. CASE UNCHANGED webVars
  BY <1>2, <1>9 DEF webVars, listeners, page
<1> QED
  BY <1>2, <1>3, <1>4, <1>5, <1>6, <1>7, <1>8, <1>9 DEF WebNext, WorkletStep
-----------------------------------------------------------------------------
\* The arithmetic of the indices, which wrap.
Indices == 0 .. Period - 1

\* The distance of two indices, and the index after one.
LEMMA IndexDistance ==
    ASSUME NEW i \in Indices, NEW j \in Indices
    PROVE  /\ (i - j) % Period = IF i >= j THEN i - j ELSE i - j + Period
           /\ (i + 1) % Period = IF i = Period - 1 THEN 0 ELSE i + 1
<1>1. Period \in Nat /\ Period > 0 /\ i \in 0 .. Period - 1 /\ j \in 0 .. Period - 1
  BY PeriodAssumption, SMT DEF Indices
<1>2. CASE i >= j
  BY <1>1, <1>2, SMT
<1>3. CASE i < j
  BY <1>1, <1>3, SMT
<1>4. (i + 1) % Period = IF i = Period - 1 THEN 0 ELSE i + 1
  BY <1>1, SMT
<1> QED
  BY <1>1, <1>2, <1>3, <1>4, SMT

\* No multiple of Slots other than zero is less than Slots from zero.
LEMMA SmallMultiple ==
    ASSUME NEW z \in Int, Slots * z < Slots, Slots * z > 0 - Slots
    PROVE  Slots * z = 0
<1>1. Slots \in Nat /\ Slots > 0
  BY PeriodAssumption, SMT
<1>2. CASE z > 0
  <2>1. PICK d \in Nat : z = 1 + d
    BY <1>2, SMT
  <2>2. Slots * z = Slots + Slots * d /\ Slots * d >= 0
    BY <1>1, <2>1, SMT
  <2> QED
    BY <1>1, <2>2, SMT
<1>3. CASE z < 0
  <2>1. PICK d \in Nat : z = 0 - 1 - d
    <3>1. 0 - z - 1 \in Nat /\ z = 0 - 1 - (0 - z - 1)
      BY <1>3, SMT
    <3> QED
      BY <3>1
  <2>2. Slots * z = 0 - Slots - Slots * d /\ Slots * d >= 0
    BY <1>1, <2>1, SMT
  <2> QED
    BY <1>1, <2>2, SMT
<1>4. CASE z = 0
  BY <1>1, <1>4, SMT
<1> QED
  BY <1>2, <1>3, <1>4, SMT

\* Entries of the ring less than Slots apart have slots of their own, though
\* the counters wrap.
LEMMA SlotsOfTheirOwn ==
    ASSUME NEW i \in Indices, NEW j \in Indices, NEW r \in Indices,
           (i - r) % Period < (j - r) % Period,
           (j - r) % Period < ((i - r) % Period) + Slots
    PROVE  i % Slots # j % Slots
<1> SUFFICES ASSUME i % Slots = j % Slots PROVE FALSE
  OBVIOUS
<1>1. /\ Slots \in Nat /\ Slots > 0 /\ Period \in Nat
      /\ i \in Nat /\ j \in Nat /\ r \in Nat
  BY PeriodAssumption, SMT DEF Indices
<1> DEFINE p == Period \div Slots
           a == i \div Slots
           b == j \div Slots
           d == ((j - r) % Period) - ((i - r) % Period)
<1>2. p \in Int /\ Period = Slots * p
  BY <1>1, PeriodAssumption, SMT
<1>3. /\ a \in Int /\ b \in Int
      /\ i = Slots * a + (i % Slots) /\ j = Slots * b + (j % Slots)
      /\ i % Slots \in Int
  BY <1>1, SMT
<1>4. /\ (i - r) % Period = IF i >= r THEN i - r ELSE i - r + Period
      /\ (j - r) % Period = IF j >= r THEN j - r ELSE j - r + Period
  BY IndexDistance
<1>5. /\ d \in {j - i, j - i + Period, j - i - Period}
      /\ d > 0 /\ d < Slots
  BY <1>1, <1>4, SMT
<1> HIDE DEF p, a, b, d
<1>6. j - i = Slots * b - Slots * a
  BY <1>1, <1>3, SMT
<1>7. PICK z \in Int : d = Slots * z
  <2>1. /\ Slots * (b - a) = Slots * b - Slots * a
        /\ Slots * (b - a + p) = Slots * b - Slots * a + Slots * p
        /\ Slots * (b - a - p) = Slots * b - Slots * a - Slots * p
        /\ b - a \in Int /\ b - a + p \in Int /\ b - a - p \in Int
    BY <1>1, <1>2, <1>3, SMT
  <2>2. CASE d = j - i
    BY <1>6, <2>1, <2>2
  <2>3. CASE d = j - i + Period
    BY <1>2, <1>6, <2>1, <2>3
  <2>4. CASE d = j - i - Period
    BY <1>2, <1>6, <2>1, <2>4
  <2> QED
    BY <1>5, <2>2, <2>3, <2>4
<1> QED
  BY <1>1, <1>5, <1>7, SmallMultiple, SMT
-----------------------------------------------------------------------------
\* How far ahead the indices are.
LEMMA AheadIs ==
    ASSUME WebTypeOK
    PROVE  /\ ringRead \in Indices /\ ringWrite \in Indices
           /\ \A i \in Indices :
                /\ Ahead(i) = IF i >= ringRead THEN i - ringRead
                              ELSE i - ringRead + Period
                /\ Ahead(i) \in Indices
           /\ Ahead(ringRead) = 0
           /\ ringRead # ringWrite <=> Ahead(ringWrite) > 0
<1>1. ringRead \in Indices /\ ringWrite \in Indices
  BY DEF WebTypeOK, WorkletOK, Indices
<1>2. ASSUME NEW i \in Indices
      PROVE  /\ Ahead(i) = IF i >= ringRead THEN i - ringRead
                           ELSE i - ringRead + Period
             /\ Ahead(i) \in Indices
  <2>1. Ahead(i) = IF i >= ringRead THEN i - ringRead
                   ELSE i - ringRead + Period
    BY <1>1, IndexDistance DEF Ahead
  <2> QED
    BY <1>1, <2>1, PeriodAssumption, SMT DEF Indices
<1>3. Ahead(ringRead) = 0 /\ (ringRead # ringWrite <=> Ahead(ringWrite) > 0)
  <2>1. /\ Ahead(ringRead) = IF ringRead >= ringRead THEN ringRead - ringRead
                             ELSE ringRead - ringRead + Period
        /\ Ahead(ringWrite) = IF ringWrite >= ringRead THEN ringWrite - ringRead
                              ELSE ringWrite - ringRead + Period
    BY <1>1, <1>2
  <2> QED
    BY <1>1, <2>1, PeriodAssumption, SMT DEF Indices
<1> QED
  BY <1>1, <1>2, <1>3

\* The slot that is written is of none of the entries in the ring.
LEMMA WritesBesideTheRing ==
    ASSUME WebTypeOK, Ahead(ringWrite) < Slots, NEW i \in InRing
    PROVE  ringWrite % Slots # i % Slots
<1>1. i \in Indices /\ Ahead(i) < Ahead(ringWrite)
  BY DEF InRing, Indices
<1>2. /\ ringRead \in Indices /\ ringWrite \in Indices
      /\ Ahead(i) \in Nat /\ Ahead(ringWrite) \in Nat /\ Slots \in Nat
  BY <1>1, AheadIs, PeriodAssumption, SMT DEF Indices
<1>3. Ahead(ringWrite) < Ahead(i) + Slots
  BY <1>2, SMT
<1> QED
  BY <1>1, <1>2, <1>3, SlotsOfTheirOwn DEF Ahead

\* The next entry is in the ring.
LEMMA NextIsInRing ==
    ASSUME WebTypeOK, ringRead # ringWrite
    PROVE  ringRead \in InRing
<1>1. /\ ringRead \in Indices /\ Ahead(ringRead) = 0 /\ Ahead(ringWrite) > 0
  BY AheadIs
<1> QED
  BY <1>1, SMT DEF InRing, Indices

\* Storing the write index puts one entry at the end of the ring.
LEMMA RingGrows ==
    ASSUME WebTypeOK, Ahead(ringWrite) < Slots,
           ringRead' = ringRead, ringWrite' = (ringWrite + 1) % Period
    PROVE  /\ \A i \in Indices : Ahead(i)' = Ahead(i)
           /\ Ahead(ringWrite)' = Ahead(ringWrite) + 1
           /\ ringRead # ringWrite'
           /\ ringWrite \notin InRing
           /\ InRing' = InRing \cup {ringWrite}
<1>1. /\ ringRead \in Indices /\ ringWrite \in Indices
      /\ Ahead(ringWrite) = IF ringWrite >= ringRead THEN ringWrite - ringRead
                            ELSE ringWrite - ringRead + Period
      /\ Ahead(ringWrite) \in Indices
  BY AheadIs
<1>2. \A i \in Indices : Ahead(i)' = Ahead(i)
  BY DEF Ahead
<1>3. ringWrite' = IF ringWrite = Period - 1 THEN 0 ELSE ringWrite + 1
  BY <1>1, IndexDistance
<1>4. ringWrite' \in Indices
  BY <1>1, <1>3, PeriodAssumption, SMT DEF Indices
<1>5. Ahead(ringWrite)' = IF ringWrite' >= ringRead THEN ringWrite' - ringRead
                          ELSE ringWrite' - ringRead + Period
  BY <1>1, <1>4, IndexDistance DEF Ahead
<1>6. Ahead(ringWrite)' = Ahead(ringWrite) + 1 /\ ringRead # ringWrite'
  <2> DEFINE x == Ahead(ringWrite)
             y == Ahead(ringWrite)'
  <2>1. x = Ahead(ringWrite) /\ y = Ahead(ringWrite)'
    OBVIOUS
  <2> HIDE DEF x, y
  <2>2. y = x + 1 /\ ringRead # ringWrite'
    BY <1>1, <1>3, <1>5, <2>1, PeriodAssumption, SMT DEF Indices
  <2> QED
    BY <2>1, <2>2
<1>7. \A i \in Indices : Ahead(i) \in Int /\ (Ahead(i) = Ahead(ringWrite) => i = ringWrite)
  <2> SUFFICES ASSUME NEW i \in Indices
               PROVE  /\ Ahead(i) \in Int
                      /\ Ahead(i) = Ahead(ringWrite) => i = ringWrite
    OBVIOUS
  <2>1. /\ Ahead(i) = IF i >= ringRead THEN i - ringRead
                      ELSE i - ringRead + Period
        /\ Ahead(i) \in Indices
    BY AheadIs
  <2> QED
    BY <1>1, <2>1, PeriodAssumption, SMT DEF Indices
<1>8. \A i \in Indices : Ahead(i) < Ahead(ringWrite) + 1
                          <=> (Ahead(i) < Ahead(ringWrite) \/ i = ringWrite)
  <2>1. Ahead(ringWrite) \in Int
    BY <1>1, <1>7
  <2> QED
    BY <1>7, <2>1, SMT
<1>9. /\ InRing = {i \in Indices : Ahead(i) < Ahead(ringWrite)}
      /\ InRing' = {i \in Indices : Ahead(i) < Ahead(ringWrite) + 1}
  BY <1>2, <1>6 DEF InRing, Indices
<1>10. ~(Ahead(ringWrite) < Ahead(ringWrite))
  BY <1>1, SMT DEF Indices
<1> QED
  BY <1>1, <1>2, <1>6, <1>8, <1>9, <1>10

\* Finishing the next entry takes it from the front of the ring.
LEMMA RingShrinks ==
    ASSUME WebTypeOK, ringRead # ringWrite,
           ringRead' = (ringRead + 1) % Period, ringWrite' = ringWrite
    PROVE  /\ \A i \in InRing' : Ahead(i)' = Ahead(i) - 1
           /\ Ahead(ringWrite)' = Ahead(ringWrite) - 1
           /\ InRing' = InRing \ {ringRead}
<1>1. /\ ringRead \in Indices /\ ringWrite \in Indices
      /\ Ahead(ringRead) = 0 /\ Ahead(ringWrite) > 0
  BY AheadIs
<1>2. ringRead' = IF ringRead = Period - 1 THEN 0 ELSE ringRead + 1
  BY <1>1, IndexDistance
<1>3. ringRead' \in Indices
  BY <1>1, <1>2, PeriodAssumption, SMT DEF Indices
<1>4. ASSUME NEW i \in Indices
      PROVE  /\ Ahead(i) \in Nat
             /\ Ahead(i)' = IF i = ringRead THEN Period - 1 ELSE Ahead(i) - 1
  <2>1. Ahead(i) = IF i >= ringRead THEN i - ringRead
                   ELSE i - ringRead + Period
    BY AheadIs
  <2>2. Ahead(i)' = IF i >= ringRead' THEN i - ringRead'
                    ELSE i - ringRead' + Period
    BY <1>3, IndexDistance DEF Ahead
  <2> DEFINE x == Ahead(i)
             y == Ahead(i)'
  <2>3. x = Ahead(i) /\ y = Ahead(i)'
    OBVIOUS
  <2> HIDE DEF x, y
  <2>4. x \in Nat /\ y = IF i = ringRead THEN Period - 1 ELSE x - 1
    BY <1>1, <1>2, <2>1, <2>2, <2>3, PeriodAssumption, SMT DEF Indices
  <2> QED
    BY <2>3, <2>4
<1>5. Ahead(ringWrite)' = Ahead(ringWrite) - 1
  <2>1. (Ahead(ringWrite))' = (ringWrite - ringRead') % Period
    BY DEF Ahead
  <2> DEFINE n(i) == (i - ringRead') % Period
  <2>2. n(ringWrite) = Ahead(ringWrite) - 1
    BY <1>1, <1>4 DEF Ahead
  <2> QED
    BY <2>1, <2>2
<1>6. /\ InRing = {i \in Indices : Ahead(i) < Ahead(ringWrite)}
      /\ InRing' = {i \in Indices : Ahead(i)' < Ahead(ringWrite) - 1}
  BY <1>5 DEF InRing, Indices
<1>7. Ahead(ringWrite) \in Nat /\ Ahead(ringWrite) <= Period - 1
  <2>1. Ahead(ringWrite) \in Indices
    BY AheadIs
  <2> QED
    BY <2>1, SMT DEF Indices
<1>8. \A i \in Indices : Ahead(i)' < Ahead(ringWrite) - 1
                          <=> (Ahead(i) < Ahead(ringWrite) /\ i # ringRead)
  <2> SUFFICES ASSUME NEW i \in Indices
               PROVE  Ahead(i)' < Ahead(ringWrite) - 1
                        <=> (Ahead(i) < Ahead(ringWrite) /\ i # ringRead)
    OBVIOUS
  <2>1. /\ Ahead(i) \in Nat
        /\ Ahead(i)' = IF i = ringRead THEN Period - 1 ELSE Ahead(i) - 1
    BY <1>4
  <2> DEFINE x == Ahead(i)
             y == Ahead(i)'
             w == Ahead(ringWrite)
  <2>2. /\ x \in Nat /\ y = IF i = ringRead THEN Period - 1 ELSE x - 1
        /\ w \in Nat /\ w <= Period - 1
    BY <1>7, <2>1
  <2> HIDE DEF x, y, w
  <2>3. y < w - 1 <=> (x < w /\ i # ringRead)
    BY <2>2, PeriodAssumption, SMT
  <2> QED
    BY <2>3 DEF x, y, w
<1> QED
  BY <1>4, <1>5, <1>6, <1>8
-----------------------------------------------------------------------------
\* The numbers of entries, and the indices.
LEMMA NumbersAreTyped ==
    ASSUME WebTypeOK
    PROVE  /\ finished \in Nat /\ batch.number \in Nat
           /\ drain.entry.number \in Nat /\ drain.at \in Indices
           /\ outer # <<>> => /\ Head(outer).entry.number \in Nat
                              /\ Head(outer).at \in Indices
           /\ \A i \in Indices : /\ i % Slots \in 0 .. Slots - 1
                                 /\ entries[i % Slots] \in Entries
                                 /\ entries[i % Slots].number \in Nat
           /\ \A i \in Indices : Ahead(i) \in Nat
           /\ InRing \subseteq Indices /\ Slots \in Nat
<1>1. /\ batch \in Entries /\ drain.entry \in Entries
      /\ \A s \in 0 .. Slots - 1 : entries[s] \in Entries
      /\ outer # <<>> => Head(outer).entry \in Entries
  BY HeldEntriesAreTyped
<1>2. \A e \in Entries : e.number \in Nat
  BY DEF Entries
<1>3. \A i \in Indices : i % Slots \in 0 .. Slots - 1
  BY IndexHasASlot DEF Indices
<1>4. drain \in Drains /\ outer \in Seq(Drains)
  BY DEF WebTypeOK, PageOK
<1>5. outer # <<>> => Head(outer) \in Drains
  BY <1>4
<1>6. \A d \in Drains : d.at \in Indices
  BY DEF Drains, Indices
<1>7. \A i \in Indices : Ahead(i) \in Nat
  <2> SUFFICES ASSUME NEW i \in Indices PROVE Ahead(i) \in Nat
    OBVIOUS
  <2>1. Ahead(i) \in Indices
    BY AheadIs
  <2> QED
    BY <2>1, SMT DEF Indices
<1>8. finished \in Nat /\ InRing \subseteq Indices /\ Slots \in Nat
  BY PeriodAssumption DEF WebTypeOK, PageOK, InRing, Indices
<1> QED
  BY <1>1, <1>2, <1>3, <1>4, <1>5, <1>6, <1>7, <1>8

\* Nothing that is of no concern to the numbers in the ring changes them.
LEMMA NumbersUnchanged ==
    ASSUME NumbersInv, UNCHANGED <<ring, batch, finished>>,
           ppc' = ppc \/ (~Writing /\ ~Writing')
    PROVE  NumbersInv'
<1>1. Writing' = Writing /\ (ppc' = "store" => ppc = "store")
  BY DEF Writing
<1> QED
  BY <1>1 DEF NumbersInv, InRing, Ahead, ring

\* A batch is numbered after what is in the ring.
LEMMA NumbersPublish ==
    ASSUME WebTypeOK, NumbersInv, NEW some \in SUBSET Kinds, Publish(some)
    PROVE  NumbersInv'
<1>1. ppc = "idle" /\ UNCHANGED <<ring, finished>>
  BY DEF Publish, page
<1>2. CASE UNCHANGED <<ppc, batch>>
  BY <1>1, <1>2, NumbersUnchanged
<1>3. CASE ~Full /\ ppc' = "write" /\ batch'.number = batch.number + 1
  <2>1. Ahead(ringWrite) < Slots
    <3>1. Ahead(ringWrite) \in Nat /\ Slots \in Nat
      BY AheadIs, NumbersAreTyped
    <3> QED
      BY <1>3, <3>1, SMT DEF Full
  <2>2. batch.number = finished + Ahead(ringWrite)
    <3>1. ~Writing /\ Ahead(ringWrite) \in Nat /\ finished \in Nat
      BY <1>1, AheadIs, NumbersAreTyped DEF Writing
    <3> QED
      BY <3>1, SMT DEF NumbersInv
  <2>3. Writing' /\ ppc' # "store"
    BY <1>3 DEF Writing
  <2>4. /\ Ahead(ringWrite)' = Ahead(ringWrite) /\ InRing' = InRing
        /\ \A i \in InRing : Ahead(i)' = Ahead(i)
    BY <1>1 DEF Ahead, InRing, ring
  <2>5. batch'.number = finished + Ahead(ringWrite) + 1
    BY <1>3, <2>2
  <2> QED
    BY <1>1, <2>1, <2>3, <2>4, <2>5 DEF NumbersInv, ring
<1>4. UNCHANGED <<ppc, batch>> \/
      (~Full /\ ppc' = "write" /\ batch'.number = batch.number + 1)
  BY DEF Publish
<1> QED
  BY <1>2, <1>3, <1>4

\* The batch gets into a slot of its own.
LEMMA NumbersWrite ==
    ASSUME WebTypeOK, NumbersInv, WriteEntry
    PROVE  NumbersInv'
<1>1. /\ ppc = "write" /\ ppc' = "store"
      /\ entries' = [entries EXCEPT ![ringWrite % Slots] = batch]
      /\ UNCHANGED <<ringRead, ringWrite, batch, finished>>
  BY DEF WriteEntry, page
<1>2. Writing /\ Writing' /\ Ahead(ringWrite) < Slots
  BY <1>1 DEF Writing, NumbersInv
<1>3. /\ Ahead(ringWrite)' = Ahead(ringWrite) /\ InRing' = InRing
      /\ \A i \in InRing : Ahead(i)' = Ahead(i)
  BY <1>1 DEF Ahead, InRing
<1>4. ringWrite % Slots \in 0 .. Slots - 1 /\ entries \in [0 .. Slots - 1 -> Entries]
  BY AheadIs, NumbersAreTyped DEF WebTypeOK, WorkletOK
<1>5. entries'[ringWrite % Slots] = batch
  BY <1>1, <1>4
<1>6. \A i \in InRing : entries'[i % Slots] = entries[i % Slots]
  BY <1>1, <1>2, <1>4, WritesBesideTheRing, NumbersAreTyped
<1> QED
  BY <1>1, <1>2, <1>3, <1>5, <1>6 DEF NumbersInv

\* The batch becomes the last entry in the ring.
LEMMA NumbersStore ==
    ASSUME WebTypeOK, NumbersInv, StoreWriteIndex
    PROVE  NumbersInv'
<1>1. /\ ppc = "store" /\ ppc' = "wake"
      /\ ringWrite' = (ringWrite + 1) % Period
      /\ UNCHANGED <<entries, ringRead, batch, finished>>
  BY DEF StoreWriteIndex, page
<1>2. Writing /\ ~Writing' /\ Ahead(ringWrite) < Slots
  BY <1>1 DEF Writing, NumbersInv
<1>3. /\ \A i \in Indices : Ahead(i)' = Ahead(i)
      /\ Ahead(ringWrite)' = Ahead(ringWrite) + 1
      /\ InRing' = InRing \cup {ringWrite}
  BY <1>1, <1>2, RingGrows
<1>4. /\ ringWrite \in Indices /\ InRing \subseteq Indices
      /\ Ahead(ringWrite) \in Nat /\ finished \in Nat /\ Slots \in Nat
  BY AheadIs, NumbersAreTyped
<1>5. batch.number = finished + Ahead(ringWrite) + 1
  BY <1>2 DEF NumbersInv
<1>6. \A i \in InRing' : entries[i % Slots].number = finished + 1 + Ahead(i)
  <2>1. entries[ringWrite % Slots].number = finished + 1 + Ahead(ringWrite)
    <3>1. entries[ringWrite % Slots] = batch
      BY <1>1 DEF NumbersInv
    <3> QED
      BY <1>4, <1>5, <3>1, SMT
  <2> QED
    BY <1>3, <2>1 DEF NumbersInv
<1>7. \A i \in InRing' : entries'[i % Slots].number = finished' + 1 + Ahead(i)'
  BY <1>1, <1>3, <1>4, <1>6
<1>8. /\ batch'.number = finished' + Ahead(ringWrite)' + 0
      /\ Ahead(ringWrite)' <= Slots
  <2> DEFINE x == Ahead(ringWrite)
             y == Ahead(ringWrite)'
  <2>1. /\ x \in Nat /\ y = x + 1 /\ x < Slots
        /\ batch.number = finished + x + 1
    BY <1>2, <1>3, <1>4, <1>5
  <2> HIDE DEF x, y
  <2>2. batch.number = finished + y + 0 /\ y <= Slots
    BY <1>4, <2>1, SMT
  <2> QED
    BY <1>1, <2>2 DEF y
<1> QED
  BY <1>1, <1>2, <1>7, <1>8 DEF NumbersInv

\* Until a drain moves the read index back, an entry that is finished is the
\* next one or the one that the listener's drain has finished already.
LEMMA FinishesTheNext ==
    ASSUME WebTypeOK, DrainInv, FinishEntry, ~rewound'
    PROVE  \/ /\ drain.entry.number = finished + 1 /\ finished' = finished + 1
              /\ drain.at = ringRead /\ ringRead # ringWrite
              /\ ringRead' = (ringRead + 1) % Period
           \/ /\ drain.entry.number = finished /\ finished' = finished
              /\ ringRead' = ringRead
<1>1. /\ mpc = "deliver" /\ ringRead' = (drain.at + 1) % Period
      /\ finished' = drain.entry.number
      /\ ~(finished > drain.entry.number)
  BY DEF FinishEntry
<1>2. Held(drain)
  BY <1>1 DEF DrainInv
<1>3. drain.entry.number \in {finished, finished + 1}
  <2>1. drain.entry.number <= finished + 1
    BY <1>2 DEF Held
  <2> QED
    BY <1>1, <2>1, NumbersAreTyped, SMT
<1> QED
  BY <1>1, <1>2, <1>3 DEF Held

\* The first entry leaves the ring, once.
LEMMA NumbersFinish ==
    ASSUME WebTypeOK, NumbersInv, DrainInv, FinishEntry, ~rewound'
    PROVE  NumbersInv'
<1>1. UNCHANGED <<entries, ringWrite, batch, ppc>>
  BY DEF FinishEntry, worklet
<1>2. CASE ringRead' = ringRead /\ finished' = finished
  BY <1>1, <1>2, NumbersUnchanged DEF ring
<1>3. CASE /\ finished' = finished + 1
           /\ ringRead # ringWrite
           /\ ringRead' = (ringRead + 1) % Period
  <2>1. /\ \A i \in InRing' : Ahead(i)' = Ahead(i) - 1
        /\ Ahead(ringWrite)' = Ahead(ringWrite) - 1
        /\ InRing' = InRing \ {ringRead}
    BY <1>1, <1>3, RingShrinks
  <2>2. Writing' = Writing
    BY <1>1 DEF Writing
  <2>3. /\ Ahead(ringWrite) \in Nat /\ finished \in Nat /\ Slots \in Nat
        /\ \A i \in InRing : Ahead(i) \in Nat
    BY AheadIs, NumbersAreTyped
  <2>4. /\ batch.number = finished' + Ahead(ringWrite)' + (IF Writing THEN 1 ELSE 0)
        /\ Ahead(ringWrite)' <= Slots
        /\ Writing => Ahead(ringWrite)' < Slots
    <3> DEFINE x == Ahead(ringWrite)
               y == Ahead(ringWrite)'
               n == IF Writing THEN 1 ELSE 0
    <3>1. /\ x \in Nat /\ y = x - 1 /\ x <= Slots /\ (Writing => x < Slots)
          /\ batch.number = finished + x + n
          /\ finished' = finished + 1 /\ n \in Nat
      BY <1>3, <2>1, <2>3 DEF NumbersInv
    <3> HIDE DEF x, y, n
    <3>2. batch.number = finished' + y + n /\ y <= Slots /\ (Writing => y < Slots)
      BY <2>3, <3>1, SMT
    <3> QED
      BY <3>2 DEF y, n
  <2>5. ASSUME NEW i \in InRing'
        PROVE  entries'[i % Slots].number = finished' + 1 + Ahead(i)'
    <3> DEFINE x == Ahead(i)
               y == Ahead(i)'
    <3>1. /\ x \in Nat /\ y = x - 1 /\ finished' = finished + 1
          /\ entries[i % Slots].number = finished + 1 + x
      BY <1>3, <2>1, <2>3 DEF NumbersInv
    <3> HIDE DEF x, y
    <3>2. entries[i % Slots].number = finished' + 1 + y
      BY <2>3, <3>1, SMT
    <3> QED
      BY <1>1, <3>2 DEF y
  <2> QED
    BY <1>1, <2>2, <2>4, <2>5 DEF NumbersInv
<1> QED
  BY <1>2, <1>3, FinishesTheNext

\* The numbers of the entries in the ring follow that of the last finished.
LEMMA NumbersStep ==
    ASSUME WebTypeOK, NumbersInv, DrainInv, [WebNext]_webVars, ~rewound'
    PROVE  NumbersInv'
<1> USE DEF ring, worklet, page, loops, listeners
<1>1. CASE AddWake \/ Notify \/ TakeMessage
  <2>1. UNCHANGED <<ring, batch, finished>> /\ ~Writing /\ ~Writing'
    BY <1>1 DEF AddWake, Notify, TakeMessage, Writing
  <2> QED
    BY <2>1, NumbersUnchanged
<1>2. CASE TakeEntry \/ Decode \/ ListenerReturns \/ \E k \in Kinds : Deliver(k)
  <2>1. UNCHANGED <<ring, batch, finished, ppc>>
    BY <1>2 DEF TakeEntry, Decode, ListenerReturns, Deliver
  <2> QED
    BY <2>1, NumbersUnchanged
<1>3. CASE LoopStep
  <2>1. UNCHANGED <<ring, batch, finished, ppc>>
    BY <1>3 DEF LoopStep, EndDrain, Turn, Arm, Return, Resume
  <2> QED
    BY <2>1, NumbersUnchanged
<1>4. CASE (\E k \in Kinds : Subscribe(k) \/ Unsubscribe(k)) \/ Close
  <2>1. UNCHANGED <<ring, batch, finished, ppc>>
    BY <1>4 DEF Subscribe, Unsubscribe, Close
  <2> QED
    BY <2>1, NumbersUnchanged
<1>5. CASE UNCHANGED webVars
  BY <1>5, NumbersUnchanged DEF webVars
<1> HIDE DEF ring, worklet, page, loops, listeners
<1> QED
  BY <1>1, <1>2, <1>3, <1>4, <1>5, NumbersPublish, NumbersWrite, NumbersStore,
     NumbersFinish DEF WebNext, WorkletStep, DrainStep
-----------------------------------------------------------------------------
\* A drain within a drain outdates what the outer one has in its hands.
LEMMA OuterIsOutdated ==
    ASSUME WebTypeOK, LoopInv, SubscriptionInv, outer # <<>>
    PROVE  Outdated(Head(outer).entry)
<1>1. posting # <<>>
  BY DEF LoopInv, PostingInv
<1>2. MadeFor(Head(outer).entry) /\ Head(outer).entry \in Entries
  BY HeldEntriesAreTyped DEF SubscriptionInv, EntriesInv
<1>3. listening \subseteq Kinds
  BY DEF WebTypeOK, PageOK
<1> SUFFICES ASSUME NEW k \in listening
             PROVE  Head(outer).entry.of[k] < subscription[k]
  BY DEF Outdated
<1>4. /\ Head(outer).entry.of[k] <= collecting[k].id
      /\ Head(outer).entry.of[k] \in Nat
  BY <1>2, <1>3, EntryIsTyped DEF MadeFor
<1>5. /\ collecting[k].id < subscription[k]
      /\ collecting[k].id \in Nat /\ subscription[k] \in Nat
  BY <1>1, <1>3, NothingForTheNewest, IdsAreTyped
<1> QED
  BY <1>4, <1>5, SMT

\* What a drain's grip on its entry speaks of.
LEMMA HeldUnchanged ==
    ASSUME WebTypeOK, NEW d, Held(d),
           UNCHANGED <<finished, ringRead>>,
           ringRead # ringWrite =>
              /\ ringRead # ringWrite'
              /\ entries'[ringRead % Slots] = entries[ringRead % Slots]
    PROVE  /\ d.entry.number <= finished' + 1
           /\ d.entry.number = finished' + 1 =>
                 /\ d.at = ringRead' /\ ringRead' # ringWrite'
                 /\ d.entry = entries'[ringRead' % Slots]
           /\ d.entry.number = finished' => ringRead' = (d.at + 1) % Period
BY DEF Held

\* Steps beside the entry that is held keep the invariant of the drains.
LEMMA DrainUnchanged ==
    ASSUME WebTypeOK, DrainInv,
           UNCHANGED <<finished, ringRead>>,
           ringRead # ringWrite =>
              /\ ringRead # ringWrite'
              /\ entries'[ringRead % Slots] = entries[ringRead % Slots],
           UNCHANGED <<mpc, drain, outer, listening, subscription>>
    PROVE  DrainInv'
<1>1. mpc' \in {"decode", "deliver", "call"} => Held(drain)'
  BY HeldUnchanged DEF DrainInv, Held
<1>2. outer' # <<>> => Held(Head(outer))'
  BY HeldUnchanged DEF DrainInv, Held
<1> QED
  BY <1>1, <1>2 DEF DrainInv, Outdated

\* The worklet does not touch what a drain holds.
LEMMA DrainWorklet ==
    ASSUME WebTypeOK, NumbersInv, DrainInv,
           \/ \E some \in SUBSET Kinds : Publish(some)
           \/ WriteEntry \/ StoreWriteIndex \/ AddWake \/ Notify \/ TakeMessage
    PROVE  DrainInv'
<1> USE DEF ring, worklet, page, loops, listeners
<1>1. UNCHANGED <<finished, ringRead, mpc, drain, outer, listening, subscription>>
  BY DEF Publish, WriteEntry, StoreWriteIndex, AddWake, Notify, TakeMessage
<1>2. CASE \/ \E some \in SUBSET Kinds : Publish(some)
           \/ AddWake \/ Notify \/ TakeMessage
  <2>1. UNCHANGED <<entries, ringWrite>>
    BY <1>2 DEF Publish, AddWake, Notify, TakeMessage
  <2> QED
    BY <1>1, <2>1, DrainUnchanged
<1>3. CASE WriteEntry
  <2>1. /\ entries' = [entries EXCEPT ![ringWrite % Slots] = batch]
        /\ ringWrite' = ringWrite /\ Writing
    BY <1>3 DEF WriteEntry, Writing
  <2>2. Ahead(ringWrite) < Slots
    BY <2>1 DEF NumbersInv
  <2>3. ringRead # ringWrite => ringWrite % Slots # ringRead % Slots
    BY <2>2, NextIsInRing, WritesBesideTheRing
  <2>4. ringRead % Slots \in 0 .. Slots - 1 /\ entries \in [0 .. Slots - 1 -> Entries]
    BY AheadIs, NumbersAreTyped DEF WebTypeOK, WorkletOK
  <2>5. ringRead # ringWrite => entries'[ringRead % Slots] = entries[ringRead % Slots]
    BY <2>1, <2>3, <2>4
  <2> QED
    BY <1>1, <2>1, <2>5, DrainUnchanged
<1>4. CASE StoreWriteIndex
  <2>1. /\ Writing /\ UNCHANGED <<entries, ringRead>>
        /\ ringWrite' = (ringWrite + 1) % Period
    BY <1>4 DEF StoreWriteIndex, Writing
  <2>2. Ahead(ringWrite) < Slots
    BY <2>1 DEF NumbersInv
  <2>3. ringRead # ringWrite'
    BY <2>1, <2>2, RingGrows
  <2> QED
    BY <1>1, <2>1, <2>3, DrainUnchanged
<1> QED
  BY <1>2, <1>3, <1>4

\* A drain that finishes its entry leaves the outer one with an old one.
LEMMA DrainFinish ==
    ASSUME WebTypeOK, DrainInv, FinishEntry, ~rewound'
    PROVE  DrainInv'
<1>1. mpc' = "drain" /\ UNCHANGED <<entries, ringWrite, drain, outer>>
  BY DEF FinishEntry
<1>2. outer # <<>> => Held(Head(outer))'
  <2> SUFFICES ASSUME outer # <<>> PROVE Held(Head(outer))'
    OBVIOUS
  <2> DEFINE o == Head(outer)
  <2>1. Held(o) /\ o.entry.number \in Nat /\ finished \in Nat /\ o.at \in Indices
    BY NumbersAreTyped DEF DrainInv
  <2> HIDE DEF o
  <2>2. CASE ringRead' = ringRead /\ finished' = finished
    <3>1. /\ o.entry.number <= finished' + 1
          /\ o.entry.number = finished' + 1 =>
                /\ o.at = ringRead' /\ ringRead' # ringWrite'
                /\ o.entry = entries'[ringRead' % Slots]
          /\ o.entry.number = finished' => ringRead' = (o.at + 1) % Period
      BY <1>1, <2>1, <2>2, HeldUnchanged
    <3> QED
      BY <1>1, <3>1 DEF Held, o
  <2>3. CASE /\ finished' = finished + 1
             /\ ringRead' = (ringRead + 1) % Period
    <3>1. /\ o.entry.number <= finished' + 1
          /\ o.entry.number # finished' + 1
      <4>1. o.entry.number <= finished + 1
        BY <2>1 DEF Held
      <4> QED
        BY <2>1, <2>3, <4>1, SMT
    <3>2. o.entry.number = finished' => ringRead' = (o.at + 1) % Period
      BY <2>1, <2>3 DEF Held
    <3> QED
      BY <1>1, <3>1, <3>2 DEF Held, o
  <2> QED
    BY <2>2, <2>3, FinishesTheNext
<1> QED
  BY <1>1, <1>2 DEF DrainInv

\* Handing over an entry does not let go of it.
LEMMA DrainDelivers ==
    ASSUME WebTypeOK, NumbersInv, DrainInv,
           TakeEntry \/ Decode \/ ListenerReturns \/ \E k \in Kinds : Deliver(k)
    PROVE  DrainInv'
<1> USE DEF ring, worklet, page, loops, listeners
<1>1. UNCHANGED <<entries, ringRead, ringWrite, finished, outer, listening,
                  subscription>>
  BY DEF TakeEntry, Decode, ListenerReturns, Deliver
<1>2. drain \in Drains
  BY DEF WebTypeOK, PageOK
<1>3. outer' # <<>> => Held(Head(outer))'
  BY <1>1 DEF DrainInv, Held
<1>4. CASE TakeEntry
  <2>1. /\ ringRead # ringWrite /\ mpc' = "decode" /\ drain'.at = ringRead
        /\ drain'.entry = entries[ringRead % Slots]
    BY <1>2, <1>4 DEF TakeEntry, Drains
  <2>2. drain'.entry.number = finished + 1
    <3>1. entries[ringRead % Slots].number = finished + 1 + Ahead(ringRead)
      BY <2>1, NextIsInRing DEF NumbersInv
    <3>2. finished + 1 + 0 = finished + 1
      BY NumbersAreTyped, SMT
    <3> QED
      BY <2>1, <3>1, <3>2, AheadIs
  <2>3. finished + 1 <= finished + 1 /\ finished + 1 # finished
    BY NumbersAreTyped, SMT
  <2>4. Held(drain)'
    BY <1>1, <2>1, <2>2, <2>3 DEF Held
  <2> QED
    BY <1>1, <1>3, <2>1, <2>2, <2>4 DEF DrainInv
<1>5. CASE Decode \/ ListenerReturns \/ \E k \in Kinds : Deliver(k)
  <2>1. /\ mpc \in {"decode", "deliver", "call"}
        /\ mpc' \in {"deliver", "call"}
        /\ drain'.entry = drain.entry /\ drain'.at = drain.at
    BY <1>2, <1>5 DEF Decode, ListenerReturns, Deliver, Drains
  <2>2. Held(drain)'
    BY <1>1, <2>1 DEF DrainInv, Held
  <2>3. drain.entry.number # finished + 1 => Outdated(drain.entry)
    BY <2>1 DEF DrainInv
  <2> QED
    BY <1>1, <1>3, <2>1, <2>2, <2>3 DEF DrainInv, Outdated
<1> QED
  BY <1>4, <1>5

\* A loop that returns to a listener gives it its drain back.
LEMMA DrainLoop ==
    ASSUME WebTypeOK, LoopInv, SubscriptionInv, DrainInv, LoopStep
    PROVE  DrainInv'
<1> USE DEF ring, worklet, page, loops, listeners
<1>1. UNCHANGED <<entries, ringRead, ringWrite, finished, listening,
                  subscription>>
  BY DEF LoopStep, EndDrain, Turn, Arm, Return, Resume
<1>2. CASE EndDrain \/ Turn \/ Arm \/ \E g \in woken : Resume(g)
  <2>1. outer' = outer /\ mpc' \notin {"decode", "deliver", "call"}
    BY <1>2 DEF EndDrain, Turn, Arm, WaitAsync, Resume
  <2> QED
    BY <1>1, <2>1 DEF DrainInv, Held
<1>3. CASE Return
  <2>1. CASE outer = <<>>
    BY <1>3, <2>1 DEF Return, DrainInv
  <2>2. CASE outer # <<>>
    <3>1. mpc' = "call" /\ drain' = Head(outer) /\ outer' = <<>>
      BY <1>3, <2>2 DEF Return
    <3>2. Held(Head(outer)) /\ Outdated(Head(outer).entry)
      BY <2>2, OuterIsOutdated DEF DrainInv
    <3> QED
      BY <1>1, <3>1, <3>2 DEF DrainInv, Held, Outdated
  <2> QED
    BY <2>1, <2>2
<1> QED
  BY <1>2, <1>3 DEF LoopStep

\* What is outdated stays so, whoever comes or leaves.
LEMMA OutdatedCall ==
    ASSUME WebTypeOK, SubscriptionInv, NEW e \in Entries, MadeFor(e),
           Outdated(e),
           (\E k \in Kinds : Subscribe(k) \/ Unsubscribe(k)) \/ Close
    PROVE  \A j \in listening' : e.of[j] < subscription'[j]
<1>1. ASSUME NEW k \in Kinds, Subscribe(k)
      PROVE  \A j \in listening' : e.of[j] < subscription'[j]
  <2>1. /\ listening' = listening \cup {k}
        /\ subscription' = [subscription EXCEPT ![k] = subscription[k] + 1]
        /\ k \notin listening
    BY <1>1 DEF Subscribe
  <2>2. subscription \in [Kinds -> Nat] /\ listening \subseteq Kinds
    BY DEF WebTypeOK, PageOK, Counts
  <2>3. e.of[k] < subscription'[k]
    <3>1. /\ e.of[k] <= collecting[k].id /\ collecting[k].id <= subscription[k]
          /\ e.of[k] \in Nat /\ collecting[k].id \in Nat
          /\ subscription[k] \in Nat
      BY EntryIsTyped, IdsAreTyped DEF MadeFor, SubscriptionInv, PortInv, KnownInv
    <3>2. subscription'[k] = subscription[k] + 1
      BY <2>1, <2>2
    <3> QED
      BY <3>1, <3>2, SMT
  <2>4. \A j \in listening : subscription'[j] = subscription[j]
    BY <2>1, <2>2
  <2> QED
    BY <2>1, <2>3, <2>4 DEF Outdated
<1>2. CASE (\E k \in Kinds : Unsubscribe(k)) \/ Close
  <2>1. listening' \subseteq listening /\ UNCHANGED subscription
    BY <1>2 DEF Unsubscribe, Close
  <2> QED
    BY <2>1 DEF Outdated
<1> QED
  BY <1>1, <1>2

\* A drain begun in a call leaves the outer one as it was.
LEMMA DrainCall ==
    ASSUME WebTypeOK, LoopInv, SubscriptionInv, DrainInv,
           (\E k \in Kinds : Subscribe(k) \/ Unsubscribe(k)) \/ Close
    PROVE  DrainInv'
<1> USE DEF ring, worklet, page, loops, listeners
<1>1. /\ UNCHANGED <<entries, ringRead, ringWrite, finished>>
      /\ mpc \in {"idle", "call"} /\ outer = <<>>
  BY ActingIsOutside DEF Subscribe, Unsubscribe, Close, Acting
<1>2. mpc = "call" /\ drain.entry.number # finished + 1 =>
         \A j \in listening' : drain.entry.of[j] < subscription'[j]
  <2> SUFFICES ASSUME mpc = "call", drain.entry.number # finished + 1
               PROVE  \A j \in listening' : drain.entry.of[j] < subscription'[j]
    OBVIOUS
  <2>1. Outdated(drain.entry) /\ MadeFor(drain.entry) /\ drain.entry \in Entries
    BY HeldEntriesAreTyped DEF DrainInv, SubscriptionInv, EntriesInv
  <2> QED
    BY <2>1, OutdatedCall
<1>3. mpc = "call" => Held(drain)
  BY DEF DrainInv
<1>4. CASE /\ UNCHANGED <<mpc, outer>>
           /\ drain' = drain \/ \E k \in Kinds : drain' = Joined(k)
  <2>1. drain'.entry = drain.entry /\ drain'.at = drain.at
    BY <1>4, JoinedIs
  <2> QED
    BY <1>1, <1>2, <1>3, <1>4, <2>1 DEF DrainInv, Held, Outdated
<1>5. CASE /\ mpc' = "drain"
           /\ \E k \in Kinds :
                 outer' = IF mpc = "call" THEN <<Joined(k)>> ELSE <<>>
  <2>1. outer' # <<>> => /\ mpc = "call"
                         /\ Head(outer').entry = drain.entry
                         /\ Head(outer').at = drain.at
    BY <1>5, JoinedIs
  <2>2. outer' # <<>> => Held(Head(outer))'
    BY <1>1, <1>3, <2>1 DEF Held
  <2> QED
    BY <1>5, <2>2 DEF DrainInv
<1>6. \/ /\ UNCHANGED <<mpc, outer>>
         /\ drain' = drain \/ \E k \in Kinds : drain' = Joined(k)
      \/ /\ mpc' = "drain"
         /\ \E k \in Kinds :
               outer' = IF mpc = "call" THEN <<Joined(k)>> ELSE <<>>
  BY DEF Subscribe, Unsubscribe, Close
<1> QED
  BY <1>4, <1>5, <1>6

\* Every step keeps the drains in step with the ring.
LEMMA DrainsStep ==
    ASSUME WebTypeOK, LoopInv, SubscriptionInv, NumbersInv, DrainInv,
           [WebNext]_webVars, ~rewound'
    PROVE  DrainInv'
<1>1. CASE UNCHANGED webVars
  BY <1>1, DrainUnchanged DEF webVars, ring, worklet, page, loops, listeners
<1> QED
  BY <1>1, DrainWorklet, DrainDelivers, DrainFinish, DrainLoop, DrainCall
     DEF WebNext, WorkletStep, DrainStep

\* What the worklet writes is in no drain's hands.
LEMMA HeldIsIntact ==
    ASSUME WebTypeOK, ~rewound => PageRingInv
    PROVE  EntriesAreIntact
<1> SUFFICES ASSUME mpc = "decode", NumbersInv, DrainInv
             PROVE  /\ drain.entry.number = finished + 1
                    /\ drain.entry = entries[drain.at % Slots]
                    /\ ppc = "write" => ringWrite % Slots # drain.at % Slots
  BY DEF EntriesAreIntact, PageRingInv
<1>1. drain.entry.number = finished + 1 /\ Held(drain)
  BY DEF DrainInv
<1>2. /\ drain.at = ringRead /\ ringRead # ringWrite
      /\ drain.entry = entries[ringRead % Slots]
  BY <1>1 DEF Held
<1>3. ppc = "write" => Ahead(ringWrite) < Slots
  BY DEF NumbersInv, Writing
<1> QED
  BY <1>1, <1>2, <1>3, NextIsInRing, WritesBesideTheRing

\* The ring is empty at first.
LEMMA PageRingInit == WebInit => PageRingInv
<1> SUFFICES ASSUME WebInit PROVE PageRingInv
  OBVIOUS
<1>1. /\ ringRead = 0 /\ ringWrite = 0 /\ ppc = "idle" /\ finished = 0
      /\ batch.number = 0 /\ outer = <<>> /\ mpc \in {"idle", "drain"}
  BY DEF WebInit, NoEntry
<1>2. WebTypeOK
  BY WebTypeInit
<1>3. Ahead(ringWrite) = 0
  BY <1>1, <1>2, AheadIs
<1>4. InRing = {}
  <2>1. \A i \in Indices : Ahead(i) \in Nat
    BY <1>2, NumbersAreTyped
  <2>2. \A i \in Indices : ~(Ahead(i) < Ahead(ringWrite))
    BY <1>3, <2>1, SMT
  <2> QED
    BY <2>2 DEF InRing, Indices
<1>5. NumbersInv
  <2>1. 0 <= Slots /\ 0 = 0 + 0 + 0
    BY PeriodAssumption, SMT
  <2> QED
    BY <1>1, <1>3, <1>4, <2>1 DEF NumbersInv, Writing
<1>6. DrainInv
  BY <1>1 DEF DrainInv
<1> QED
  BY <1>5, <1>6 DEF PageRingInv
-----------------------------------------------------------------------------
(***************************************************************************)
(* Counting.  Rows(S, f) has, for every element of S, as many places as f  *)
(* says: its cardinality is the sum of f over S.                           *)
(***************************************************************************)
Row(i, n) == {i} \X (1 .. n)
Rows(S, f) == UNION {Row(i, f[i]) : i \in S}

\* A row has as many places as its number says.
LEMMA RowIsFinite ==
    ASSUME NEW i, NEW n \in Nat
    PROVE  IsFiniteSet(Row(i, n)) /\ Cardinality(Row(i, n)) = n
<1>1. IsFiniteSet({i}) /\ Cardinality({i}) = 1
  BY FS_Singleton
<1>2. IsFiniteSet(1 .. n) /\ Cardinality(1 .. n) = n
  <2>1. 1 \in Int /\ n \in Int /\ (IF 1 > n THEN 0 ELSE n - 1 + 1) = n
    BY SMT
  <2> QED
    BY <2>1, FS_Interval
<1>3. /\ IsFiniteSet({i} \X (1 .. n))
      /\ Cardinality({i} \X (1 .. n)) = Cardinality({i}) * Cardinality(1 .. n)
  <2> DEFINE S == {i}
             T == 1 .. n
  <2> HIDE DEF S, T
  <2>1. IsFiniteSet(S) /\ IsFiniteSet(T)
    BY <1>1, <1>2 DEF S, T
  <2>2. /\ IsFiniteSet(S \X T)
        /\ Cardinality(S \X T) = Cardinality(S) * Cardinality(T)
    BY <2>1, FS_Product, Zenon
  <2> QED
    BY <2>2, Zenon DEF S, T
<1>4. Cardinality({i} \X (1 .. n)) = 1 * n
  BY <1>1, <1>2, <1>3, Zenon
<1>5. 1 * n = n
  BY SMT
<1> QED
  BY <1>3, <1>4, <1>5, Zenon DEF Row

\* There are finitely many places in finitely many rows.
LEMMA RowsAreFinite ==
    ASSUME NEW S, IsFiniteSet(S), NEW f, \A i \in S : f[i] \in Nat
    PROVE  IsFiniteSet(Rows(S, f)) /\ Cardinality(Rows(S, f)) \in Nat
<1> DEFINE T == {Row(i, f[i]) : i \in S}
           g == [i \in S |-> Row(i, f[i])]
<1>1. g \in Surjection(S, T)
  BY DEF Surjection
<1> HIDE DEF g
<1>2. IsFiniteSet(T)
  BY <1>1, FS_Surjection
<1>3. \A t \in T : IsFiniteSet(t)
  BY RowIsFinite
<1>4. IsFiniteSet(UNION T)
  <2> HIDE DEF T
  <2> QED
    BY <1>2, <1>3, FS_UNION
<1> QED
  BY <1>4, FS_CardinalityType DEF Rows

\* One element more counts for what f says of it.
LEMMA RowsAdd ==
    ASSUME NEW S, IsFiniteSet(S), NEW f, NEW x, x \notin S,
           \A i \in S \cup {x} : f[i] \in Nat
    PROVE  Cardinality(Rows(S \cup {x}, f)) = Cardinality(Rows(S, f)) + f[x]
<1> DEFINE A == Rows(S, f)
           B == Row(x, f[x])
<1>1. Rows(S \cup {x}, f) = A \cup B
  BY DEF Rows
<1>2. A \cap B = {}
  BY DEF Rows, Row
<1>3. IsFiniteSet(A) /\ Cardinality(A) \in Nat
  BY RowsAreFinite
<1>4. IsFiniteSet(B) /\ Cardinality(B) = f[x]
  BY RowIsFinite
<1> HIDE DEF A, B
<1>5. /\ Cardinality(A \cup B)
            = Cardinality(A) + Cardinality(B) - Cardinality(A \cap B)
      /\ Cardinality(A \cap B) = 0
  BY <1>2, <1>3, <1>4, FS_Union, FS_EmptySet
<1>6. f[x] \in Nat
  OBVIOUS
<1>7. Cardinality(A \cup B) = Cardinality(A) + f[x]
  BY <1>3, <1>4, <1>5, <1>6, SMT
<1> QED
  BY <1>1, <1>7 DEF A

\* Only the numbers of the rows count.
LEMMA RowsAreEqual ==
    ASSUME NEW S, NEW f, NEW g, \A i \in S : f[i] = g[i]
    PROVE  Rows(S, f) = Rows(S, g)
BY DEF Rows

\* Rows without places add up to nothing.
LEMMA NoRows ==
    ASSUME NEW S, NEW f, \A i \in S : f[i] = 0
    PROVE  Cardinality(Rows(S, f)) = 0
<1>1. \A i \in S : Row(i, f[i]) = {}
  <2>1. 1 .. 0 = {}
    BY SMT
  <2> QED
    BY <2>1 DEF Row
<1>2. Rows(S, f) = {}
  BY <1>1 DEF Rows
<1> QED
  BY <1>2, FS_EmptySet

\* What the listeners of k have yet to get of the entry at an index.
LeftAt(k, i) == Left(k, entries[i % Slots])

\* Before and after a step, what is unread is the sum over the ring.
LEMMA UnreadIsTheirSum ==
    ASSUME NEW k
    PROVE  /\ Unread(k) = Cardinality(Rows(InRing, [i \in Indices |-> LeftAt(k, i)]))
           /\ Unread(k)' = Cardinality(Rows(InRing', [i \in Indices |-> LeftAt(k, i)']))
<1>1. InRing \subseteq Indices /\ InRing' \subseteq Indices
  BY DEF InRing, Indices
<1>2. {{i} \X (1 .. Left(k, entries[i % Slots])) : i \in InRing}
        = {Row(i, [j \in Indices |-> LeftAt(k, j)][i]) : i \in InRing}
  BY <1>1 DEF Row, LeftAt
<1>3. {{i} \X (1 .. Left(k, entries[i % Slots])') : i \in InRing'}
        = {Row(i, [j \in Indices |-> LeftAt(k, j)'][i]) : i \in InRing'}
  BY <1>1 DEF Row, LeftAt
<1> QED
  BY <1>2, <1>3 DEF Unread, Rows

\* What is left of an entry, and what is unread, is a number.
LEMMA LeftIsTyped ==
    ASSUME WebTypeOK, NEW k \in Kinds
    PROVE  /\ \A i \in Indices : LeftAt(k, i) \in Nat
           /\ IsFiniteSet(InRing) /\ InRing \subseteq Indices
           /\ Unread(k) \in Nat
<1>1. IsFiniteSet(Indices)
  <2>1. 0 \in Int /\ Period - 1 \in Int
    BY PeriodAssumption, SMT
  <2> QED
    BY <2>1, FS_Interval DEF Indices
<1>2. InRing \in SUBSET Indices
  BY NumbersAreTyped
<1>3. IsFiniteSet(InRing)
  BY <1>1, <1>2, FS_Subset
<1>4. ASSUME NEW i \in Indices PROVE LeftAt(k, i) \in Nat
  <2>1. entries[i % Slots] \in Entries
    BY NumbersAreTyped
  <2>2. /\ entries[i % Slots].records[k] + entries[i % Slots].drops[k] \in Nat
        /\ 0 \in Nat
    <3>1. /\ entries[i % Slots].records[k] \in Nat
          /\ entries[i % Slots].drops[k] \in Nat
      BY <2>1, EntryIsTyped
    <3> QED
      BY <3>1, SMT
  <2> QED
    BY <2>2 DEF LeftAt, Left
<1> DEFINE f == [i \in Indices |-> LeftAt(k, i)]
<1>5. Unread(k) = Cardinality(Rows(InRing, f))
  BY UnreadIsTheirSum
<1>6. \A i \in InRing : f[i] \in Nat
  BY <1>2, <1>4
<1> HIDE DEF f
<1>7. Cardinality(Rows(InRing, f)) \in Nat
  BY <1>3, <1>6, RowsAreFinite
<1> QED
  BY <1>2, <1>3, <1>4, <1>5, <1>7

\* The same entries with as much left in each.
LEMMA UnreadStays ==
    ASSUME NEW k,
           InRing' = InRing,
           \A i \in InRing : LeftAt(k, i)' = LeftAt(k, i)
    PROVE  Unread(k)' = Unread(k)
<1> DEFINE f == [i \in Indices |-> LeftAt(k, i)]
           g == [i \in Indices |-> LeftAt(k, i)']
<1>1. /\ Unread(k) = Cardinality(Rows(InRing, f))
      /\ Unread(k)' = Cardinality(Rows(InRing, g))
  BY UnreadIsTheirSum
<1>2. \A i \in InRing : f[i] = g[i]
  BY DEF InRing, Indices
<1> HIDE DEF f, g
<1> QED
  BY <1>1, <1>2, RowsAreEqual

\* An entry more.
LEMMA UnreadGrows ==
    ASSUME WebTypeOK, NEW k \in Kinds, NEW x \in Indices, x \notin InRing,
           InRing' = InRing \cup {x},
           \A i \in InRing : LeftAt(k, i)' = LeftAt(k, i),
           LeftAt(k, x)' \in Nat
    PROVE  Unread(k)' = Unread(k) + LeftAt(k, x)'
<1> DEFINE f == [i \in Indices |-> LeftAt(k, i)]
           g == [i \in Indices |-> LeftAt(k, i)']
<1>1. /\ Unread(k) = Cardinality(Rows(InRing, f))
      /\ Unread(k)' = Cardinality(Rows(InRing \cup {x}, g))
  BY UnreadIsTheirSum
<1>2. /\ \A i \in InRing : f[i] = g[i]
      /\ \A i \in InRing \cup {x} : g[i] \in Nat
      /\ g[x] = LeftAt(k, x)'
  BY LeftIsTyped
<1> HIDE DEF f, g
<1>3. Rows(InRing, f) = Rows(InRing, g)
  BY <1>2, RowsAreEqual
<1>4. Cardinality(Rows(InRing \cup {x}, g)) = Cardinality(Rows(InRing, g)) + g[x]
  BY <1>2, LeftIsTyped, RowsAdd
<1> QED
  BY <1>1, <1>2, <1>3, <1>4

\* One entry less, or one of which less is left; y is what is left of it.
LEMMA UnreadShrinks ==
    ASSUME WebTypeOK, NEW k \in Kinds, NEW x \in InRing,
           \A i \in InRing \ {x} : LeftAt(k, i)' = LeftAt(k, i),
           \/ InRing' = InRing \ {x}
           \/ InRing' = InRing /\ LeftAt(k, x)' = 0
    PROVE  Unread(k) = Unread(k)' + LeftAt(k, x)
<1> DEFINE f == [i \in Indices |-> LeftAt(k, i)]
           g == [i \in Indices |-> LeftAt(k, i)']
           S == InRing \ {x}
<1>1. /\ Unread(k) = Cardinality(Rows(InRing, f))
      /\ Unread(k)' = Cardinality(Rows(InRing', g))
  BY UnreadIsTheirSum
<1>2. /\ \A i \in S : f[i] = g[i]
      /\ \A i \in InRing : f[i] \in Nat
      /\ f[x] = LeftAt(k, x)
      /\ g[x] = LeftAt(k, x)'
  BY LeftIsTyped
<1> HIDE DEF f, g
<1>3. IsFiniteSet(S) /\ x \notin S /\ InRing = S \cup {x}
  <2>1. IsFiniteSet(InRing)
    BY LeftIsTyped
  <2>2. IsFiniteSet(S)
    BY <2>1, FS_RemoveElement, Zenon
  <2>3. x \notin S /\ InRing = S \cup {x}
    OBVIOUS
  <2> QED
    BY <2>2, <2>3, Zenon
<1> HIDE DEF S
<1>4. Rows(S, f) = Rows(S, g)
  BY <1>2, RowsAreEqual
<1>5. Cardinality(Rows(InRing, f)) = Cardinality(Rows(S, f)) + f[x]
  <2>1. \A i \in S \cup {x} : f[i] \in Nat
    BY <1>2, <1>3
  <2>2. Cardinality(Rows(S \cup {x}, f)) = Cardinality(Rows(S, f)) + f[x]
    BY <1>3, <2>1, RowsAdd
  <2> QED
    BY <1>3, <2>2, Zenon
<1>6. CASE InRing' = InRing \ {x}
  BY <1>1, <1>2, <1>4, <1>5, <1>6 DEF S
<1>7. CASE InRing' = InRing /\ LeftAt(k, x)' = 0
  <2>1. \A i \in S \cup {x} : g[i] \in Nat
    BY <1>2, <1>3, <1>7
  <2>2. Cardinality(Rows(InRing, g)) = Cardinality(Rows(S, g)) + 0
    <3>1. g[x] = 0
      BY <1>2, <1>7
    <3>2. Cardinality(Rows(S \cup {x}, g)) = Cardinality(Rows(S, g)) + g[x]
      BY <1>3, <2>1, RowsAdd
    <3> QED
      BY <1>3, <3>1, <3>2
  <2>3. Cardinality(Rows(S, g)) \in Nat
    BY <1>3, <2>1, RowsAreFinite
  <2>4. Cardinality(Rows(InRing, g)) = Cardinality(Rows(S, g))
    BY <2>2, <2>3, SMT
  <2> QED
    BY <1>1, <1>2, <1>4, <1>5, <1>7, <2>4
<1> QED
  BY <1>6, <1>7

\* Entries of which nothing is left are not unread.
LEMMA NothingUnread ==
    ASSUME NEW k, \A i \in InRing' : LeftAt(k, i)' = 0
    PROVE  Unread(k)' = 0
<1> DEFINE g == [i \in Indices |-> LeftAt(k, i)']
<1>1. Unread(k)' = Cardinality(Rows(InRing', g))
  BY UnreadIsTheirSum
<1>2. \A i \in InRing' : g[i] = 0
  BY DEF InRing, Indices
<1> HIDE DEF g
<1> QED
  BY <1>1, <1>2, NoRows
-----------------------------------------------------------------------------
\* The account of a kind, of which RecordsAreAccountedFor speaks.
Accounted(k) == made[k] + early[k] = got[k] + Unread(k) + Untold(k)

\* What the account of a kind speaks of, as long as nothing is delivered.
LEMMA UnreadUnchanged ==
    ASSUME NEW k, UNCHANGED <<entries, ringRead, ringWrite>>,
           subscription'[k] = subscription[k],
           \/ /\ mpc' = mpc /\ drain'.entry = drain.entry
              /\ k \in drain'.todo <=> k \in drain.todo
           \/ mpc \notin {"deliver", "call"} /\ mpc' \notin {"deliver", "call"}
    PROVE  Unread(k)' = Unread(k)
<1>1. InRing' = InRing
  BY DEF InRing, Ahead
<1>2. \A e : Delivered(k, e)' <=> Delivered(k, e)
  BY DEF Delivered
<1>3. \A i \in InRing : LeftAt(k, i)' = LeftAt(k, i)
  BY <1>2 DEF LeftAt, Left
<1> QED
  BY <1>1, <1>3, UnreadStays

\* Everything in an account is a number.
LEMMA CountsAreTyped ==
    ASSUME WebTypeOK, NEW k \in Kinds
    PROVE  /\ made[k] \in Nat /\ got[k] \in Nat /\ early[k] \in Nat
           /\ drops[k] \in Nat
           /\ batch.records[k] \in Nat /\ batch.drops[k] \in Nat
           /\ Unread(k) \in Nat /\ Untold(k) \in Nat
<1>1. /\ made[k] \in Nat /\ got[k] \in Nat /\ early[k] \in Nat
      /\ drops[k] \in Nat
      /\ batch.records[k] \in Nat /\ batch.drops[k] \in Nat
  BY HeldEntriesAreTyped, EntryIsTyped DEF WebTypeOK, WorkletOK, PageOK, Counts
<1>2. drops[k] + batch.records[k] \in Nat /\ 0 \in Nat
  BY <1>1, SMT
<1>3. Untold(k) \in {drops[k], drops[k] + batch.records[k], 0}
  BY DEF Untold, WebTypeOK, WorkletOK
<1> QED
  BY <1>1, <1>2, <1>3, LeftIsTyped

\* What is not yet in the ring, by the step at which the worklet is.
LEMMA UntoldIs ==
    ASSUME NEW k
    PROVE  /\ ppc = "idle" => Untold(k) = drops[k]
           /\ Writing => Untold(k) = drops[k] + batch.records[k]
           /\ ppc \in {"wake", "notify"} => Untold(k) = 0
           /\ ppc' = "idle" => Untold(k)' = drops'[k]
           /\ Writing' => Untold(k)' = drops'[k] + batch'.records[k]
           /\ ppc' \in {"wake", "notify"} => Untold(k)' = 0
BY DEF Untold, Writing

\* A record that is made is told with the batch, or dropped and counted.
LEMMA AccountPublish ==
    ASSUME WebTypeOK, NEW k \in Kinds, Accounted(k),
           NEW some \in SUBSET Kinds, Publish(some)
    PROVE  Accounted(k)'
<1> DEFINE new == [j \in Kinds |-> IF j \in some /\ collecting[j].on
                                   THEN 1 ELSE 0]
<1>1. new[k] \in Nat
  BY SMT
<1>2. /\ ppc = "idle" /\ made' = [j \in Kinds |-> made[j] + new[j]]
      /\ \/ drops' = [j \in Kinds |-> drops[j] + new[j]] /\ ppc' = ppc
         \/ batch'.records = new /\ ppc' = "write" /\ drops' = drops
      /\ UNCHANGED <<ring, listeners, page>>
  BY DEF Publish
<1> HIDE DEF new
<1>3. Unread(k)' = Unread(k)
  BY <1>2, UnreadUnchanged DEF ring, listeners, page
<1>4. made'[k] = made[k] + new[k] /\ got' = got /\ early' = early
  BY <1>2 DEF page
<1>5. Untold(k)' = Untold(k) + new[k]
  <2>1. Untold(k) = drops[k]
    BY <1>2, UntoldIs
  <2>2. CASE drops' = [j \in Kinds |-> drops[j] + new[j]] /\ ppc' = ppc
    BY <1>2, <2>1, <2>2, UntoldIs
  <2>3. CASE batch'.records = new /\ ppc' = "write" /\ drops' = drops
    BY <2>1, <2>3, UntoldIs DEF Writing
  <2> QED
    BY <1>2, <2>2, <2>3
<1>6. /\ made[k] \in Nat /\ got[k] \in Nat /\ early[k] \in Nat
      /\ Unread(k) \in Nat /\ Untold(k) \in Nat
      /\ made[k] + early[k] = got[k] + Unread(k) + Untold(k)
  BY CountsAreTyped DEF Accounted
<1>7. made[k] + new[k] + early[k] = got[k] + Unread(k) + (Untold(k) + new[k])
  BY <1>1, <1>6, SMT
<1> QED
  BY <1>3, <1>4, <1>5, <1>7 DEF Accounted

\* Writing an entry leaves what is in the ring alone.
LEMMA AccountWrite ==
    ASSUME WebTypeOK, NumbersInv, NEW k \in Kinds, Accounted(k), WriteEntry
    PROVE  Accounted(k)'
<1>1. /\ ppc = "write" /\ ppc' = "store"
      /\ entries' = [entries EXCEPT ![ringWrite % Slots] = batch]
      /\ UNCHANGED <<ringRead, ringWrite, batch, drops, made, listeners, page>>
  BY DEF WriteEntry
<1>2. Ahead(ringWrite) < Slots
  BY <1>1 DEF NumbersInv, Writing
<1>3. InRing' = InRing
  BY <1>1 DEF InRing, Ahead
<1>4. ASSUME NEW i \in InRing PROVE LeftAt(k, i)' = LeftAt(k, i)
  <2>1. entries'[i % Slots] = entries[i % Slots]
    <3>1. i % Slots \in 0 .. Slots - 1 /\ entries \in [0 .. Slots - 1 -> Entries]
      BY NumbersAreTyped DEF WebTypeOK, WorkletOK
    <3>2. ringWrite % Slots # i % Slots
      BY <1>2, WritesBesideTheRing
    <3> QED
      BY <1>1, <3>1, <3>2
  <2> QED
    BY <1>1, <2>1 DEF LeftAt, Left, Delivered, listeners, page
<1>5. Unread(k)' = Unread(k)
  BY <1>3, <1>4, UnreadStays
<1>6. Untold(k)' = Untold(k)
  BY <1>1, UntoldIs DEF Writing
<1> QED
  BY <1>1, <1>5, <1>6 DEF Accounted, page

\* What is written becomes what is unread.
LEMMA AccountStore ==
    ASSUME WebTypeOK, EntriesInv, NumbersInv, DrainInv, ToldInv,
           NEW k \in Kinds, Current(k), Accounted(k), StoreWriteIndex
    PROVE  Accounted(k)'
<1>1. /\ ppc = "store" /\ ppc' = "wake" /\ Writing
      /\ ringWrite' = (ringWrite + 1) % Period
      /\ UNCHANGED <<entries, ringRead, batch, drops, made, listeners, page>>
  BY DEF StoreWriteIndex, Writing
<1>2. Ahead(ringWrite) < Slots /\ batch.number = finished + Ahead(ringWrite) + 1
  BY <1>1 DEF NumbersInv
<1>3. /\ ringWrite \notin InRing /\ ringWrite \in Indices
      /\ InRing' = InRing \cup {ringWrite}
  BY <1>1, <1>2, RingGrows, AheadIs
<1>4. \A e : Delivered(k, e)' <=> Delivered(k, e)
  BY <1>1 DEF Delivered, page
<1>5. \A i \in InRing : LeftAt(k, i)' = LeftAt(k, i)
  BY <1>1, <1>4 DEF LeftAt, Left, listeners
<1>6. ~Delivered(k, batch)
  <2> SUFFICES ASSUME mpc \in {"deliver", "call"}
               PROVE  batch.number # drain.entry.number
    BY DEF Delivered
  <2>1. Held(drain)
    BY DEF DrainInv
  <2>2. /\ drain.entry.number <= finished + 1
        /\ drain.entry.number = finished + 1 => Ahead(ringWrite) > 0
    BY <2>1, AheadIs DEF Held
  <2>3. /\ Ahead(ringWrite) \in Nat /\ finished \in Nat
        /\ drain.entry.number \in Nat
    BY AheadIs, NumbersAreTyped
  <2> QED
    BY <1>2, <2>2, <2>3, SMT
<1>7. PICK x \in Indices : x = ringWrite
  BY <1>3
<1>8. LeftAt(k, x)' = batch.records[k] + batch.drops[k]
  <2>1. entries'[x % Slots] = batch
    BY <1>1, <1>7 DEF NumbersInv
  <2>2. batch.of[k] = subscription'[k]
    BY <1>1 DEF EntriesInv, Current, listeners
  <2>3. ~(/\ mpc' \in {"deliver", "call"} /\ k \notin drain'.todo
          /\ batch.number = drain'.entry.number)
    BY <1>1, <1>6 DEF Delivered, page
  <2> QED
    BY <2>1, <2>2, <2>3 DEF LeftAt, Left, Delivered
<1>9. /\ made[k] \in Nat /\ got[k] \in Nat /\ early[k] \in Nat
      /\ Unread(k) \in Nat
      /\ batch.records[k] \in Nat /\ batch.drops[k] \in Nat
      /\ made[k] + early[k] =
            got[k] + Unread(k) + (batch.drops[k] + batch.records[k])
  BY <1>1, CountsAreTyped, UntoldIs DEF Accounted, ToldInv
<1>10. Unread(k)' = Unread(k) + (batch.records[k] + batch.drops[k])
  <2>1. batch.records[k] + batch.drops[k] \in Nat
    BY <1>9, SMT
  <2> QED
    BY <1>3, <1>5, <1>7, <1>8, <2>1, UnreadGrows
<1>11. Untold(k)' = 0
  BY <1>1, UntoldIs
<1>12. made[k] + early[k] =
          got[k] + (Unread(k) + (batch.records[k] + batch.drops[k])) + 0
  BY <1>9, SMT
<1> QED
  BY <1>1, <1>10, <1>11, <1>12 DEF Accounted, page

\* The worklet's other steps.
LEMMA AccountWorklet ==
    ASSUME WebTypeOK, NEW k \in Kinds, Accounted(k), AddWake \/ Notify
    PROVE  Accounted(k)'
<1>1. /\ UNCHANGED <<ring, made, listeners, page>>
      /\ ppc \in {"wake", "notify"}
      /\ \/ ppc' = "notify"
         \/ ppc' = "idle" /\ drops' = Zero
  BY DEF AddWake, Notify
<1>2. Unread(k)' = Unread(k)
  BY <1>1, UnreadUnchanged DEF ring, listeners, page
<1>3. Untold(k) = 0 /\ Untold(k)' = 0
  <2>1. Zero[k] = 0
    BY DEF Zero
  <2> QED
    BY <1>1, <2>1, UntoldIs
<1> QED
  BY <1>1, <1>2, <1>3 DEF Accounted, page

\* A subscription that the worklet is told of begins with nothing.
LEMMA AccountTakeMessage ==
    ASSUME WebTypeOK, EntriesInv, PortInv, NEW k \in Kinds,
           Current(k) => Accounted(k), Current(k)', TakeMessage
    PROVE  Accounted(k)'
<1> DEFINE m == Head(port)
<1>1. /\ ppc = "idle" /\ ppc' = "idle"
      /\ drops' = [drops EXCEPT ![m.kind] = 0]
      /\ made' = [made EXCEPT ![m.kind] = 0]
      /\ UNCHANGED <<ring, listeners, page>>
  BY DEF TakeMessage, SetSubscription
<1>2. /\ \A j \in Kinds : j # m.kind => collecting'[j] = collecting[j]
      /\ collecting'[m.kind] = [on |-> m.on, id |-> m.id]
      /\ m = port[1] /\ 1 \in 1 .. Len(port)
  BY TakeMessageTells
<1>3. drops \in [Kinds -> Nat] /\ made \in [Kinds -> Nat]
  BY DEF WebTypeOK, WorkletOK, Counts
<1>4. Unread(k)' = Unread(k) /\ got' = got /\ early' = early
  BY <1>1, UnreadUnchanged DEF ring, listeners, page
<1> HIDE DEF m
<1>5. CASE k # m.kind
  <2>1. collecting'[k] = collecting[k] /\ drops'[k] = drops[k] /\ made'[k] = made[k]
    BY <1>1, <1>2, <1>3, <1>5
  <2>2. Accounted(k)
    BY <1>1, <2>1 DEF Current, listeners
  <2>3. Untold(k)' = Untold(k)
    BY <1>1, <2>1, UntoldIs
  <2> QED
    BY <1>4, <2>1, <2>2, <2>3 DEF Accounted
<1>6. CASE k = m.kind
  <2>1. m.on /\ m.id = subscription[k]
    BY <1>1, <1>2, <1>6 DEF Current, listeners
  <2>2. collecting[k].id < subscription[k]
    <3>1. m.id > collecting[k].id
      BY <1>2, <1>6, <2>1 DEF PortInv, QueuedInv
    <3> QED
      BY <2>1, <3>1, IdsAreTyped, SMT
  <2>3. got[k] = early[k] /\ got[k] \in Nat
    BY <2>2, IdsAreTyped DEF PortInv, KnownInv
  <2>4. Unread(k)' = 0
    <3>1. ASSUME NEW i \in InRing' PROVE LeftAt(k, i)' = 0
      <4>1. i \in Indices
        BY DEF InRing, Indices
      <4>2. entries[i % Slots].of[k] # subscription[k]
        <5>1. i % Slots \in 0 .. Slots - 1 /\ entries[i % Slots] \in Entries
          BY <4>1, NumbersAreTyped
        <5>2. /\ entries[i % Slots].of[k] <= collecting[k].id
              /\ entries[i % Slots].of[k] \in Nat
          BY <5>1, EntryIsTyped DEF EntriesInv, MadeFor
        <5> QED
          BY <2>2, <5>2, IdsAreTyped, SMT
      <4> QED
        BY <1>1, <4>2 DEF LeftAt, Left, ring, listeners
    <3> QED
      BY <3>1, NothingUnread
  <2>5. made'[k] = 0 /\ Untold(k)' = 0
    BY <1>1, <1>3, <1>6, UntoldIs
  <2>6. 0 + got[k] = got[k] + 0 + 0
    BY <2>3, SMT
  <2> QED
    BY <1>4, <2>3, <2>4, <2>5, <2>6 DEF Accounted
<1> QED
  BY <1>5, <1>6

\* The entry with the number after the last finished one is the next one.
LEMMA OnlyTheNext ==
    ASSUME WebTypeOK, NumbersInv, NEW i \in InRing
    PROVE  /\ entries[i % Slots].number # finished
           /\ entries[i % Slots].number = finished + 1 => i = ringRead
<1>1. /\ i \in Indices /\ ringRead \in Indices /\ Ahead(i) \in Nat
      /\ finished \in Nat
      /\ Ahead(i) = IF i >= ringRead THEN i - ringRead ELSE i - ringRead + Period
  BY NumbersAreTyped, AheadIs
<1>2. entries[i % Slots].number = finished + 1 + Ahead(i)
  BY DEF NumbersInv
<1>3. Ahead(i) = 0 => i = ringRead
  BY <1>1, PeriodAssumption, SMT DEF Indices
<1> QED
  BY <1>1, <1>2, <1>3, SMT

\* What is decoded is the entry at the read index.
LEMMA DecodedIsNext ==
    ASSUME NEW d, Held(d), d.entry.number = finished + 1
    PROVE  /\ ringRead # ringWrite /\ d.at = ringRead
           /\ d.entry = entries[ringRead % Slots]
BY DEF Held

\* Decoding leaves out nothing that the present listeners are to get.
LEMMA AccountDecode ==
    ASSUME WebTypeOK, NumbersInv, DrainInv,
           NEW k \in Kinds, Current(k), Accounted(k), Decode
    PROVE  Accounted(k)'
<1> DEFINE t == {j \in listening :
                    /\ drain.entry.of[j] = subscription[j]
                    /\ drain.entry.records[j] + drain.entry.drops[j] > 0}
<1>1. /\ mpc = "decode" /\ mpc' = "deliver"
      /\ drain' = [drain EXCEPT !.todo = t, !.visiting = {}, !.late = {}]
      /\ UNCHANGED <<ring, worklet, listeners, got, early>>
  BY DEF Decode
<1>2. drain \in Drains
  BY DEF WebTypeOK, PageOK
<1>3. drain'.entry = drain.entry /\ drain'.todo = t
  BY <1>1, <1>2 DEF Drains
<1>4. drain.entry.number = finished + 1 /\ Held(drain)
  BY <1>1 DEF DrainInv
<1>5. ringRead # ringWrite /\ drain.entry = entries[ringRead % Slots]
  BY <1>4, DecodedIsNext
<1>6. k \notin t => \/ drain.entry.of[k] # subscription[k]
                    \/ drain.entry.records[k] + drain.entry.drops[k] = 0
  <2>1. /\ k \in listening
        /\ drain.entry.records[k] \in Nat /\ drain.entry.drops[k] \in Nat
    BY HeldEntriesAreTyped, EntryIsTyped DEF Current
  <2> QED
    BY <2>1, SMT
<1> HIDE DEF t
<1>7. ASSUME NEW i \in InRing PROVE LeftAt(k, i)' = LeftAt(k, i)
  <2>1. \A e : ~Delivered(k, e)
    BY <1>1 DEF Delivered
  <2>2. CASE k \notin t /\ entries[i % Slots].number = drain.entry.number
    <3>1. entries[i % Slots] = drain.entry
      BY <1>4, <1>5, <2>2, OnlyTheNext
    <3> QED
      BY <1>1, <1>6, <2>1, <2>2, <3>1 DEF LeftAt, Left, ring, listeners
  <2>3. CASE k \in t \/ entries[i % Slots].number # drain.entry.number
    BY <1>1, <1>3, <2>1, <2>3 DEF LeftAt, Left, Delivered, ring, listeners
  <2> QED
    BY <2>2, <2>3
<1>8. InRing' = InRing
  BY <1>1 DEF InRing, Ahead, ring
<1>9. Unread(k)' = Unread(k)
  BY <1>7, <1>8, UnreadStays
<1>10. Untold(k)' = Untold(k)
  BY <1>1 DEF Untold, worklet
<1> QED
  BY <1>1, <1>9, <1>10 DEF Accounted, worklet

\* What is handed over to those it was made for is no longer unread.
LEMMA AccountHandOver ==
    ASSUME WebTypeOK, NumbersInv, DrainInv, NEW k \in Kinds, Current(k),
           Accounted(k), Deliver(k), k \notin drain.late,
           drain.entry.of[k] = subscription[k],
           \A i \in InRing : entries[i % Slots].number # drain.entry.number =>
              LeftAt(k, i)' = LeftAt(k, i)
    PROVE  Accounted(k)'
<1> DEFINE n == drain.entry.records[k] + drain.entry.drops[k]
<1>1. /\ mpc = "deliver" /\ k \in drain.todo
      /\ drain' = [drain EXCEPT !.todo = drain.todo \ {k}, !.visiting = {k}]
      /\ UNCHANGED <<ring, worklet, listeners>>
      /\ mpc' \in {"deliver", "call"}
  BY DEF Deliver
<1>2. drain \in Drains /\ got \in [Kinds -> Nat]
  BY DEF WebTypeOK, PageOK, Counts
<1>3. drain'.entry = drain.entry /\ drain'.todo = drain.todo \ {k}
  BY <1>1, <1>2 DEF Drains
<1>4. InRing' = InRing /\ Untold(k)' = Untold(k) /\ made' = made
  BY <1>1 DEF InRing, Ahead, Untold, ring, worklet
<1>5. got'[k] = got[k] + n /\ early' = early
  BY <1>2 DEF Deliver, Current
<1>6. \A e : ~Delivered(k, e)
  BY <1>1 DEF Delivered
<1>7. drain.entry.number = finished + 1
  <2> SUFFICES ASSUME drain.entry.number # finished + 1 PROVE FALSE
    OBVIOUS
  <2>1. drain.entry.of[k] < subscription[k]
    BY <1>1 DEF DrainInv, Current, Outdated
  <2> QED
    BY <2>1, IdsAreTyped, SMT
<1>8. ringRead # ringWrite /\ drain.entry = entries[ringRead % Slots]
  BY <1>1, <1>7, DecodedIsNext DEF DrainInv
<1>9. PICK x \in InRing : x = ringRead
  BY <1>8, NextIsInRing
<1>10. \A i \in InRing \ {x} : LeftAt(k, i)' = LeftAt(k, i)
  BY <1>7, <1>9, OnlyTheNext
<1>11. LeftAt(k, x)' = 0
  BY <1>1, <1>3, <1>8, <1>9 DEF LeftAt, Left, Delivered, ring, listeners
<1>12. LeftAt(k, x) = n
  BY <1>6, <1>8, <1>9 DEF LeftAt, Left
<1>13. Unread(k) = Unread(k)' + n
  BY <1>4, <1>10, <1>11, <1>12, UnreadShrinks
<1>14. /\ made[k] \in Nat /\ early[k] \in Nat /\ got[k] \in Nat
       /\ Untold(k) \in Nat
       /\ drain.entry.records[k] \in Nat /\ drain.entry.drops[k] \in Nat
       /\ made[k] + early[k] = got[k] + Unread(k) + Untold(k)
  BY CountsAreTyped, HeldEntriesAreTyped, EntryIsTyped DEF Accounted
<1>15. Unread(k)' \in Nat
  <2>1. ASSUME NEW i \in InRing PROVE LeftAt(k, i)' \in Nat
    <3>1. CASE i = x
      BY <1>11, <3>1
    <3>2. CASE i # x
      BY <1>10, <3>2, LeftIsTyped
    <3> QED
      BY <3>1, <3>2
  <2> DEFINE g == [i \in Indices |-> LeftAt(k, i)']
  <2>2. Unread(k)' = Cardinality(Rows(InRing, g))
    BY <1>4, UnreadIsTheirSum
  <2>3. \A i \in InRing : g[i] \in Nat
    BY <2>1, LeftIsTyped
  <2> HIDE DEF g
  <2> QED
    BY <2>2, <2>3, RowsAreFinite, LeftIsTyped
<1>16. made[k] + early[k] = got'[k] + Unread(k)' + Untold(k)
  <2> DEFINE u == Unread(k)
             v == Unread(k)'
  <2>1. u = v + n /\ v \in Nat /\ n \in Nat
    BY <1>13, <1>14, <1>15, SMT
  <2>2. made[k] + early[k] = got[k] + u + Untold(k)
    BY <1>14
  <2> HIDE DEF u, v, n
  <2>3. made[k] + early[k] = got'[k] + v + Untold(k)
    BY <1>5, <1>14, <2>1, <2>2, SMT
  <2> QED
    BY <2>3 DEF v
<1> QED
  BY <1>4, <1>5, <1>16 DEF Accounted

\* What a listener that came late is handed over was nobody's any more.
LEMMA AccountLate ==
    ASSUME WebTypeOK, NumbersInv, DrainInv, NEW k \in Kinds, Current(k),
           Accounted(k), Deliver(k), k \in drain.late,
           drain.entry.of[k] < subscription[k],
           \A i \in InRing : entries[i % Slots].number # drain.entry.number =>
              LeftAt(k, i)' = LeftAt(k, i)
    PROVE  Accounted(k)'
<1> DEFINE n == drain.entry.records[k] + drain.entry.drops[k]
<1>1. /\ mpc = "deliver" /\ UNCHANGED <<ring, worklet, listeners>>
      /\ got' = [got EXCEPT ![k] = got[k] + n]
      /\ early' = [early EXCEPT ![k] = early[k] + n]
  BY DEF Deliver, Current
<1>2. got'[k] = got[k] + n /\ early'[k] = early[k] + n
  BY <1>1 DEF WebTypeOK, PageOK, Counts
<1>3. InRing' = InRing /\ Untold(k)' = Untold(k) /\ made' = made
  BY <1>1 DEF InRing, Ahead, Untold, ring, worklet
<1>4. drain.entry.of[k] # subscription[k]
  BY IdsAreTyped, HeldEntriesAreTyped, EntryIsTyped, SMT
<1>5. ASSUME NEW i \in InRing, entries[i % Slots].number = drain.entry.number
      PROVE  LeftAt(k, i)' = LeftAt(k, i)
  <2>1. drain.entry.number = finished + 1
    <3>1. drain.entry.number <= finished + 1
      BY <1>1 DEF DrainInv, Held
    <3>2. entries[i % Slots].number = finished + 1 + Ahead(i)
      BY DEF NumbersInv
    <3>3. drain.entry.number \in Nat /\ finished \in Nat /\ Ahead(i) \in Nat
      BY NumbersAreTyped
    <3> QED
      BY <1>5, <3>1, <3>2, <3>3, SMT
  <2>2. drain.entry = entries[ringRead % Slots]
    BY <1>1, <2>1, DecodedIsNext DEF DrainInv
  <2>3. entries[i % Slots].of[k] # subscription[k]
    BY <1>4, <1>5, <2>1, <2>2, OnlyTheNext
  <2> QED
    BY <1>1, <2>3 DEF LeftAt, Left, ring, listeners
<1>6. Unread(k)' = Unread(k)
  BY <1>3, <1>5, UnreadStays
<1>7. /\ made[k] \in Nat /\ early[k] \in Nat /\ got[k] \in Nat
      /\ Unread(k) \in Nat /\ Untold(k) \in Nat /\ n \in Nat
      /\ made[k] + early[k] = got[k] + Unread(k) + Untold(k)
  <2>1. drain.entry.records[k] \in Nat /\ drain.entry.drops[k] \in Nat
    BY HeldEntriesAreTyped, EntryIsTyped
  <2>2. n \in Nat
    BY <2>1, SMT
  <2> QED
    BY <2>2, CountsAreTyped DEF Accounted
<1> HIDE DEF n
<1>8. made[k] + (early[k] + n) = (got[k] + n) + Unread(k) + Untold(k)
  BY <1>7, SMT
<1> QED
  BY <1>2, <1>3, <1>6, <1>8 DEF Accounted

\* Handing over keeps the accounts, whomever the records are of.
LEMMA AccountDeliver ==
    ASSUME WebTypeOK, HandsInv, NumbersInv, DrainInv, NEW k \in Kinds,
           Current(k), Accounted(k), NEW j \in Kinds, Deliver(j)
    PROVE  Accounted(k)'
<1>1. /\ mpc = "deliver" /\ j \in drain.todo
      /\ drain' = [drain EXCEPT !.todo = drain.todo \ {j}, !.visiting = {j}]
      /\ UNCHANGED <<ring, worklet, listeners>>
      /\ mpc' \in {"deliver", "call"}
  BY DEF Deliver
<1>2. /\ drain \in Drains
      /\ got \in [Kinds -> Nat] /\ early \in [Kinds -> Nat]
  BY DEF WebTypeOK, PageOK, Counts
<1>3. drain'.entry = drain.entry /\ drain'.todo = drain.todo \ {j}
  BY <1>1, <1>2 DEF Drains
<1>4. CASE j # k
  <2>1. got'[k] = got[k] /\ early'[k] = early[k]
    BY <1>2, <1>4 DEF Deliver
  <2>2. \A i \in InRing : LeftAt(k, i)' = LeftAt(k, i)
    BY <1>1, <1>3, <1>4 DEF LeftAt, Left, Delivered, ring, listeners
  <2>3. InRing' = InRing /\ Untold(k)' = Untold(k) /\ made' = made
    BY <1>1 DEF InRing, Ahead, Untold, ring, worklet
  <2> QED
    BY <2>1, <2>2, <2>3, UnreadStays DEF Accounted
<1>5. CASE j = k
  <2>1. \A e : ~Delivered(k, e)
    BY <1>1, <1>5 DEF Delivered
  <2>2. ASSUME NEW i \in InRing, entries[i % Slots].number # drain.entry.number
        PROVE  LeftAt(k, i)' = LeftAt(k, i)
    BY <1>1, <1>3, <2>1, <2>2 DEF LeftAt, Left, Delivered, ring, listeners
  <2>3. \/ k \in drain.late /\ drain.entry.of[k] < subscription[k]
        \/ k \notin drain.late /\ drain.entry.of[k] = subscription[k]
    BY <1>1, <1>5 DEF HandsInv, HandsOk, Current
  <2> QED
    BY <1>5, <2>2, <2>3, AccountHandOver, AccountLate
<1> QED
  BY <1>4, <1>5

\* Nothing of an entry that is finished is left.
LEMMA AccountFinish ==
    ASSUME WebTypeOK, NumbersInv, DrainInv, NEW k \in Kinds, Accounted(k),
           FinishEntry, ~rewound'
    PROVE  Accounted(k)'
<1>1. /\ mpc = "deliver" /\ mpc' = "drain" /\ drain.todo = {}
      /\ UNCHANGED <<entries, ringWrite, worklet, listeners, got, early>>
  BY DEF FinishEntry
<1>2. Untold(k)' = Untold(k) /\ made' = made
  BY <1>1 DEF Untold, worklet
<1>3. ASSUME NEW i \in InRing, entries[i % Slots].number # drain.entry.number
      PROVE  LeftAt(k, i)' = LeftAt(k, i)
  BY <1>1, <1>3 DEF LeftAt, Left, Delivered, listeners
<1>4. CASE drain.entry.number = finished /\ ringRead' = ringRead
  <2>1. InRing' = InRing
    BY <1>1, <1>4 DEF InRing, Ahead
  <2>2. Unread(k)' = Unread(k)
    BY <1>3, <1>4, <2>1, OnlyTheNext, UnreadStays
  <2> QED
    BY <1>1, <1>2, <2>2 DEF Accounted
<1>5. CASE /\ drain.entry.number = finished + 1 /\ ringRead # ringWrite
           /\ ringRead' = (ringRead + 1) % Period
  <2>1. PICK x \in InRing : x = ringRead
    BY <1>5, NextIsInRing
  <2>2. InRing' = InRing \ {x}
    BY <1>1, <1>5, <2>1, RingShrinks
  <2>3. \A i \in InRing \ {x} : LeftAt(k, i)' = LeftAt(k, i)
    BY <1>3, <1>5, <2>1, OnlyTheNext
  <2>4. LeftAt(k, x) = 0
    <3>1. entries[x % Slots] = drain.entry
      BY <1>1, <1>5, <2>1, DecodedIsNext DEF DrainInv
    <3> QED
      BY <1>1, <3>1 DEF LeftAt, Left, Delivered
  <2>5. Unread(k) = Unread(k)' + 0
    BY <2>2, <2>3, <2>4, UnreadShrinks
  <2>6. Unread(k)' \in Nat
    <3> DEFINE g == [i \in Indices |-> LeftAt(k, i)']
               S == InRing \ {x}
    <3>1. Unread(k)' = Cardinality(Rows(S, g))
      BY <2>2, UnreadIsTheirSum
    <3>2. \A i \in S : g[i] \in Nat
      BY <2>3, LeftIsTyped
    <3>3. IsFiniteSet(S)
      BY LeftIsTyped, FS_RemoveElement
    <3> HIDE DEF g, S
    <3> QED
      BY <3>1, <3>2, <3>3, RowsAreFinite
  <2>7. Unread(k)' + 0 = Unread(k)'
    BY <2>6, SMT
  <2> QED
    BY <1>1, <1>2, <2>5, <2>7 DEF Accounted
<1> QED
  BY <1>4, <1>5, FinishesTheNext

\* Neither taking an entry, nor a listener's return, nor a loop hands over.
LEMMA AccountQuiet ==
    ASSUME WebTypeOK, LoopInv, SubscriptionInv, NEW k \in Kinds, Current(k),
           Accounted(k), TakeEntry \/ ListenerReturns \/ LoopStep
    PROVE  Accounted(k)'
<1>1. UNCHANGED <<entries, ringRead, ringWrite, worklet, listening, subscription,
                  got, early>>
  BY DEF TakeEntry, ListenerReturns, LoopStep, EndDrain, Turn, Arm, Return,
         Resume, ring, listeners
<1>2. Untold(k)' = Untold(k) /\ made' = made
  BY <1>1 DEF Untold, worklet
<1>3. CASE TakeEntry \/ EndDrain \/ Turn \/ Arm \/ \E g \in woken : Resume(g)
  <2>1. mpc \notin {"deliver", "call"} /\ mpc' \notin {"deliver", "call"}
    BY <1>3 DEF TakeEntry, EndDrain, Turn, Arm, WaitAsync, Resume
  <2> QED
    BY <1>1, <1>2, <2>1, UnreadUnchanged DEF Accounted
<1>4. CASE ListenerReturns
  <2>1. \A e : Delivered(k, e)' <=> Delivered(k, e)
    BY <1>4 DEF ListenerReturns, Delivered
  <2>2. InRing' = InRing
    BY <1>1 DEF InRing, Ahead
  <2>3. \A i \in InRing : LeftAt(k, i)' = LeftAt(k, i)
    BY <1>1, <2>1 DEF LeftAt, Left
  <2> QED
    BY <1>1, <1>2, <2>2, <2>3, UnreadStays DEF Accounted
<1>5. CASE Return
  <2>1. outer = <<>>
    <3> SUFFICES ASSUME outer # <<>> PROVE FALSE
      OBVIOUS
    <3>1. posting # <<>>
      BY DEF LoopInv, PostingInv
    <3>2. collecting[k].id < subscription[k]
      BY <3>1, NothingForTheNewest DEF Current
    <3> QED
      BY <3>2, IdsAreTyped, SMT DEF Current
  <2>2. mpc \notin {"deliver", "call"} /\ mpc' \notin {"deliver", "call"}
    BY <1>5, <2>1 DEF Return
  <2> QED
    BY <1>1, <1>2, <2>2, UnreadUnchanged DEF Accounted
<1> QED
  BY <1>3, <1>4, <1>5 DEF LoopStep

\* Who comes has no account yet, who leaves has none any more, and the
\* others' accounts stay.
LEMMA AccountCall ==
    ASSUME WebTypeOK, LoopInv, SubscriptionInv, NEW k \in Kinds,
           Current(k) => Accounted(k), Current(k)',
           (\E j \in Kinds : Subscribe(j) \/ Unsubscribe(j)) \/ Close
    PROVE  Accounted(k)'
<1>1. /\ UNCHANGED <<ring, worklet>>
      /\ Untold(k)' = Untold(k) /\ made' = made /\ collecting' = collecting
  BY DEF Subscribe, Unsubscribe, Close, Untold, worklet
<1>2. ASSUME NEW j \in Kinds, Subscribe(j) PROVE Accounted(k)'
  <2>1. /\ listening' = listening \cup {j}
        /\ subscription' = [subscription EXCEPT ![j] = subscription[j] + 1]
        /\ got' = [got EXCEPT ![j] = 0] /\ early' = [early EXCEPT ![j] = 0]
        /\ active => mpc' = mpc /\ drain' = Joined(j)
    BY <1>2 DEF Subscribe
  <2>2. /\ subscription \in [Kinds -> Nat]
        /\ got \in [Kinds -> Nat] /\ early \in [Kinds -> Nat]
    BY DEF WebTypeOK, PageOK, Counts
  <2>3. k # j
    <3> SUFFICES ASSUME k = j PROVE FALSE
      OBVIOUS
    <3>1. subscription'[k] = subscription[k] + 1
      BY <2>1, <2>2
    <3>2. collecting[k].id <= subscription[k]
      BY DEF SubscriptionInv, PortInv, KnownInv
    <3>3. collecting[k].id = subscription'[k]
      BY <1>1 DEF Current
    <3> QED
      BY <3>1, <3>2, <3>3, IdsAreTyped, SMT
  <2>4. /\ k \in listening /\ subscription'[k] = subscription[k]
        /\ got'[k] = got[k] /\ early'[k] = early[k]
    BY <2>1, <2>2, <2>3 DEF Current
  <2>5. Current(k)
    BY <1>1, <2>4 DEF Current
  <2>6. /\ mpc' = mpc /\ drain'.entry = drain.entry
        /\ k \in drain'.todo <=> k \in drain.todo
    BY <2>1, <2>3, <2>4, JoinedIs DEF LoopInv, ActiveInv
  <2>7. Unread(k)' = Unread(k)
    BY <1>1, <2>4, <2>6, UnreadUnchanged DEF ring
  <2> QED
    BY <1>1, <2>4, <2>5, <2>7 DEF Accounted
<1>3. CASE (\E j \in Kinds : Unsubscribe(j)) \/ Close
  <2>1. /\ listening' \subseteq listening
        /\ UNCHANGED <<subscription, mpc, drain, got, early>>
    BY <1>3 DEF Unsubscribe, Close, page
  <2>2. Current(k)
    BY <1>1, <2>1 DEF Current
  <2>3. Unread(k)' = Unread(k)
    BY <1>1, <2>1, UnreadUnchanged DEF ring
  <2> QED
    BY <1>1, <2>1, <2>2, <2>3 DEF Accounted
<1> QED
  BY <1>2, <1>3
-----------------------------------------------------------------------------
\* A batch tells all that was dropped before.
LEMMA WrittenIsTold ==
    ASSUME ToldInv, [WebNext]_webVars
    PROVE  ToldInv'
<1> USE DEF ToldInv, Writing, ring, worklet, page, loops, listeners
<1>1. ASSUME NEW some \in SUBSET Kinds, Publish(some) PROVE ToldInv'
  <2>1. CASE UNCHANGED <<ppc, batch>>
    BY <1>1, <2>1 DEF Publish
  <2>2. CASE batch'.drops = drops /\ drops' = drops
    BY <2>2
  <2> QED
    BY <1>1, <2>1, <2>2 DEF Publish
<1>2. CASE WorkletStep
  BY <1>1, <1>2
     DEF WorkletStep, WriteEntry, StoreWriteIndex, AddWake, Notify, TakeMessage
<1>3. CASE DrainStep \/ LoopStep
  <2>1. UNCHANGED worklet
    BY <1>3 DEF DrainStep, LoopStep, TakeEntry, Decode, ListenerReturns, FinishEntry,
              Deliver, EndDrain, Turn, Arm, Return, Resume
  <2> QED
    BY <2>1
<1>4. CASE (\E k \in Kinds : Subscribe(k) \/ Unsubscribe(k)) \/ Close
  BY <1>4 DEF Subscribe, Unsubscribe, Close
<1>5. CASE UNCHANGED webVars
  BY <1>5 DEF webVars
<1> QED
  BY <1>1, <1>2, <1>3, <1>4, <1>5 DEF WebNext

\* Every step keeps the accounts of the listeners there are.
LEMMA RecordsStep ==
    ASSUME WebInv, [WebNext]_webVars
    PROVE  RecordsAreAccountedFor'
<1> SUFFICES ASSUME NEW k \in Kinds, Current(k)', ~rewound'
             PROVE  Accounted(k)'
  BY DEF RecordsAreAccountedFor, Accounted
<1>1. /\ WebTypeOK /\ LoopInv /\ SubscriptionInv /\ HandsInv /\ ToldInv
      /\ EntriesInv /\ PortInv
  BY DEF WebInv, SubscriptionInv
<1>2. ~rewound
  BY DEF WebNext, WorkletStep, DrainStep, LoopStep, Publish, WriteEntry,
         StoreWriteIndex, AddWake, Notify, TakeMessage, TakeEntry, Decode,
         ListenerReturns, FinishEntry, Deliver, EndDrain, Turn, Arm, Return,
         Resume, Subscribe, Unsubscribe, Close, webVars, page
<1>3. NumbersInv /\ DrainInv /\ (Current(k) => Accounted(k))
  BY <1>2 DEF WebInv, PageRingInv, RecordsAreAccountedFor, Accounted
<1>4. CASE \/ \E some \in SUBSET Kinds : Publish(some)
           \/ WriteEntry \/ StoreWriteIndex \/ AddWake \/ Notify
  <2>1. UNCHANGED <<collecting, listening, subscription>>
    BY <1>4 DEF Publish, WriteEntry, StoreWriteIndex, AddWake, Notify, listeners
  <2>2. Current(k)
    BY <2>1 DEF Current
  <2> QED
    BY <1>1, <1>3, <1>4, <2>2, AccountPublish, AccountWrite, AccountStore,
       AccountWorklet
<1>5. CASE TakeMessage
  BY <1>1, <1>3, <1>5, AccountTakeMessage
<1>6. CASE DrainStep \/ LoopStep
  <2>1. UNCHANGED <<collecting, listening, subscription>>
    BY <1>6 DEF DrainStep, LoopStep, TakeEntry, Decode, ListenerReturns,
                FinishEntry, Deliver, EndDrain, Turn, Arm, Return, Resume,
                worklet, listeners
  <2>2. Current(k)
    BY <2>1 DEF Current
  <2> QED
    BY <1>1, <1>3, <1>6, <2>2, AccountDecode, AccountDeliver, AccountFinish,
       AccountQuiet DEF DrainStep
<1>7. CASE (\E j \in Kinds : Subscribe(j) \/ Unsubscribe(j)) \/ Close
  BY <1>1, <1>3, <1>7, AccountCall
<1>8. CASE UNCHANGED webVars
  <2>1. Current(k)
    BY <1>8 DEF Current, webVars, worklet, listeners
  <2>2. Unread(k)' = Unread(k)
    BY <1>8, UnreadUnchanged DEF webVars, ring, listeners, page
  <2>3. Untold(k)' = Untold(k)
    BY <1>8 DEF Untold, webVars, worklet
  <2> QED
    BY <1>3, <1>8, <2>1, <2>2, <2>3 DEF Accounted, webVars, worklet, page
<1> QED
  BY <1>4, <1>5, <1>6, <1>7, <1>8 DEF WebNext, WorkletStep

\* Nothing has been made yet.
LEMMA RecordsInit == WebInit => RecordsAreAccountedFor
<1> SUFFICES ASSUME WebInit, NEW k \in Kinds PROVE Accounted(k)
  BY DEF RecordsAreAccountedFor, Accounted
<1>1. /\ made = Zero /\ got = Zero /\ early = Zero
      /\ drops = Zero /\ ppc = "idle"
      /\ ringRead = 0 /\ ringWrite = 0
  BY DEF WebInit
<1>2. WebTypeOK /\ Zero[k] = 0
  BY WebTypeInit DEF Zero
<1>3. InRing = {}
  <2>1. Ahead(ringWrite) = 0 /\ \A i \in Indices : Ahead(i) \in Nat
    BY <1>1, <1>2, AheadIs, NumbersAreTyped
  <2>2. \A i \in Indices : ~(Ahead(i) < Ahead(ringWrite))
    BY <2>1, SMT
  <2> QED
    BY <2>2 DEF InRing, Indices
<1>4. Unread(k) = 0
  <2> DEFINE f == [i \in Indices |-> LeftAt(k, i)]
  <2>1. Unread(k) = Cardinality(Rows(InRing, f))
    BY UnreadIsTheirSum
  <2> HIDE DEF f
  <2> QED
    BY <1>3, <2>1, NoRows
<1>5. Untold(k) = 0
  BY <1>1, <1>2, UntoldIs
<1>6. 0 + 0 = 0 + 0 + 0
  BY SMT
<1> QED
  BY <1>1, <1>2, <1>4, <1>5, <1>6 DEF Accounted

\* The invariant holds when the processor is made.
LEMMA WebInvInit == WebInit => WebInv
<1>1. WebInit => ToldInv
  BY DEF WebInit, ToldInv, Writing
<1>2. WebInit => HandsInv
  BY DEF WebInit, HandsInv
<1> QED
  BY <1>1, <1>2, WebTypeInit, LoopInit, SubscriptionInit, PageRingInit, RecordsInit
     DEF WebInv

\* No step of the worklet, the page or its program breaks the invariant.
LEMMA WebInvStep == WebInv /\ [WebNext]_webVars => WebInv'
<1> SUFFICES ASSUME WebInv, [WebNext]_webVars PROVE WebInv'
  OBVIOUS
<1>1. /\ WebTypeOK /\ LoopInv /\ SubscriptionInv /\ HandsInv /\ ToldInv
      /\ ~rewound => NumbersInv /\ DrainInv
  BY DEF WebInv, PageRingInv
<1>2. WebTypeOK' /\ LoopInv' /\ SubscriptionInv' /\ HandsInv' /\ ToldInv'
  BY <1>1, WebTypeStep, LoopNext, SubscriptionNext, HandsStep, WrittenIsTold
<1>3. ~rewound' => ~rewound
  BY DEF WebNext, WorkletStep, DrainStep, LoopStep, Publish, WriteEntry,
         StoreWriteIndex, AddWake, Notify, TakeMessage, TakeEntry, Decode,
         ListenerReturns, FinishEntry, Deliver, EndDrain, Turn, Arm, Return,
         Resume, Subscribe, Unsubscribe, Close, webVars, page
<1>4. ~rewound' => PageRingInv'
  BY <1>1, <1>3, NumbersStep, DrainsStep DEF PageRingInv
<1> QED
  BY <1>2, <1>4, RecordsStep DEF WebInv
-----------------------------------------------------------------------------
\* The invariant holds whatever the program of the page does and when.
THEOREM WebInvariantHolds == WebSpec => []WebInv
BY WebInvInit, WebInvStep, PTL DEF WebSpec

\* Type correctness of the ring, the port, the loops and the drains.
THEOREM WebTypeCorrect == WebSpec => []WebTypeOK
<1>1. WebInv => WebTypeOK
  BY DEF WebInv
<1> QED
  BY <1>1, WebInvariantHolds, PTL

(***************************************************************************)
(* drainExecutionOutputRing decodes the next entry, in place, as the       *)
(* worklet wrote it, and writeExecutionOutputRing never writes to the slot *)
(* meanwhile, though the indices wrap and a listener may subscribe,        *)
(* unsubscribe or close in the middle of a drain; until a drain within a   *)
(* drain has made the outer one move the read index back.                  *)
(***************************************************************************)
THEOREM EntriesStayIntact == WebSpec => []EntriesAreIntact
<1>1. WebInv => EntriesAreIntact
  BY HeldIsIntact DEF WebInv
<1> QED
  BY <1>1, WebInvariantHolds, PTL

(***************************************************************************)
(* A listener gets, or is told of, every record that was made since the    *)
(* worklet has known of its subscription, once, and of an earlier one at   *)
(* most what notifyListeners was handing over when it came:                *)
(* publishExecutionOutput, the subscription messages and                   *)
(* consumeExecutionOutput keep the account in every interleaving, for      *)
(* every number of slots and however often the ring is full, until a drain *)
(* within a drain has moved the read index back.                           *)
(***************************************************************************)
THEOREM RecordsStayAccountedFor == WebSpec => []RecordsAreAccountedFor
<1>1. WebInv => RecordsAreAccountedFor
  BY DEF WebInv
<1> QED
  BY <1>1, WebInvariantHolds, PTL

(***************************************************************************)
(* Between two tasks of the page exactly one loop waits, or is about to be *)
(* resumed, when there are listeners, and none is left waiting when there  *)
(* are none: startExecutionOutputDrain and stopExecutionOutputDrain keep   *)
(* it although they are called from within a drain that a loop is in.      *)
(***************************************************************************)
THEOREM OneLoopAlwaysServes == WebSpec => []OneLoopServes
<1>1. WebInv => OneLoopServes
  BY DEF WebInv, LoopInv, ActiveInv, LoopsInv, ServedInv, OneLoopServes
<1> QED
  BY <1>1, WebInvariantHolds, PTL
=============================================================================
