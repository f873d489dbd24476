----------------------------- MODULE SampleRing -----------------------------
(***************************************************************************)
(* The single-producer single-consumer ring of onda_cpal, through which    *)
(* the render thread and the device callbacks exchange interleaved         *)
(* samples without a lock.  Two rings exist: the output ring (the render   *)
(* thread pushes any number of samples, the callback takes whole frames)   *)
(* and the input ring (the callback produces whole frames, the render      *)
(* thread takes whole frames and may discard what is buffered).            *)
(*                                                                         *)
(* A step is one access to memory that the other thread can see: the load  *)
(* of the other side's index, the access to one slot, the store of one's   *)
(* own index.  A sample is the number of samples accepted before it, so    *)
(* the sample with absolute index i is i itself.                           *)
(***************************************************************************)
EXTENDS Integers, Sequences

CONSTANTS
    Capacity,       \* SampleRing::capacity, after rounding up
    PushAlignment,  \* 1 for push_slice, the channel count for produce
    PopAlignment,   \* the channel count given to consume
    PushSizes,      \* lengths of the slices the producer offers
    PopSizes,       \* numbers of samples the consumer asks for
    MayDiscard,     \* whether the consumer calls discard_buffered
    MaxIndex        \* bound of the two indices, usize::MAX in the code

ASSUME CapacityAssumption == Capacity \in Nat /\ Capacity >= 2

\* SampleRing::new rounds up; it is what makes index & mask a remainder.
ASSUME PowerOfTwoAssumption == \E k \in 1 .. Capacity : Capacity = 2 ^ k

ASSUME SizesAssumption ==
    /\ PushSizes \subseteq Nat
    /\ PopSizes \subseteq Nat
    /\ PushAlignment \in Nat \ {0}
    /\ PopAlignment \in Nat \ {0}
    /\ MaxIndex \in Nat
    /\ MayDiscard \in BOOLEAN

\* Only the input ring is discarded; its producer is the device callback, and
\* both of its sides count in the frames of the same stream.
ASSUME FramesAssumption == MayDiscard => PushAlignment = PopAlignment

VARIABLES
    slots,       \* the cells, each holding the sample last written to it
    readIndex,   \* read_index, stored by the consumer only
    writeIndex,  \* write_index, stored by the producer only
    pPc,         \* where the producer is: "idle" or "write"
    pCount,      \* the count it computed
    pOffset,     \* how many of them it has written
    cPc,         \* where the consumer is: "idle", "read" or "discard"
    cCount,      \* the count it computed; the index it loaded in "discard"
    cOut,        \* the samples it has read in this call
    taken        \* the samples its last completed call handed over

pVars == <<pPc, pCount, pOffset>>
cVars == <<cPc, cCount, cOut>>
vars == <<slots, readIndex, writeIndex, pVars, cVars, taken>>

\* index & mask, the capacity being a power of two.
Slot(i) == i % Capacity

SaturatingSub(a, b) == IF a > b THEN a - b ELSE 0

MinOf(a, b) == IF a < b THEN a ELSE b

\* count -= count % alignment.max(1)
Aligned(count, alignment) == count - (count % alignment)

\* len(), as each of the two threads sees it.
RingLen == SaturatingSub(writeIndex, readIndex)

\* Wrong variant: a full ring takes one sample more.
AvailableOneMore == SaturatingSub(Capacity + 1, RingLen)

Available == SaturatingSub(Capacity, RingLen)

Init == /\ slots = [s \in 0 .. Capacity - 1 |-> 0]
        /\ readIndex = 0
        /\ writeIndex = 0
        /\ pPc = "idle" /\ pCount = 0 /\ pOffset = 0
        /\ cPc = "idle" /\ cCount = 0 /\ cOut = <<>>
        /\ taken = <<>>
-----------------------------------------------------------------------------
(* The producer: push_slice and produce.                                   *)

PushCount(n) == Aligned(MinOf(n, Available), PushAlignment)

\* Both loads; the producer's own index cannot change before it is used.
BeginPush(n) == /\ pPc = "idle"
                /\ writeIndex + PushCount(n) <= MaxIndex
                /\ pPc' = "write"
                /\ pCount' = PushCount(n)
                /\ pOffset' = 0
                /\ UNCHANGED <<slots, readIndex, writeIndex, cVars, taken>>

WriteSlot == /\ pPc = "write"
             /\ pOffset < pCount
             /\ slots' = [slots EXCEPT ![Slot(writeIndex + pOffset)] =
                                            writeIndex + pOffset]
             /\ pOffset' = pOffset + 1
             /\ UNCHANGED <<readIndex, writeIndex, pPc, pCount, cVars, taken>>

\* The release store that publishes; a call that wrote nothing stores nothing.
FinishPush == /\ pPc = "write"
              /\ pOffset = pCount
              /\ writeIndex' = writeIndex + pCount
              /\ pPc' = "idle"
              /\ pCount' = 0
              /\ pOffset' = 0
              /\ UNCHANGED <<slots, readIndex, cVars, taken>>
-----------------------------------------------------------------------------
(* The consumer: consume, pop_slice_aligned and discard_buffered.          *)

\* Wrong variant: a part of a frame may be consumed.
PopCountUnaligned(n) == MinOf(n, RingLen)

PopCount(n) == Aligned(MinOf(n, RingLen), PopAlignment)

BeginConsume(n) == /\ cPc = "idle"
                   /\ cPc' = "read"
                   /\ cCount' = PopCount(n)
                   /\ cOut' = <<>>
                   /\ UNCHANGED <<slots, readIndex, writeIndex, pVars, taken>>

ReadSlot == /\ cPc = "read"
            /\ Len(cOut) < cCount
            /\ cOut' = Append(cOut, slots[Slot(readIndex + Len(cOut))])
            /\ UNCHANGED <<slots, readIndex, writeIndex, pVars, cPc, cCount,
                           taken>>

FinishConsume == /\ cPc = "read"
                 /\ Len(cOut) = cCount
                 /\ readIndex' = readIndex + cCount
                 /\ taken' = cOut
                 /\ cPc' = "idle"
                 /\ cCount' = 0
                 /\ cOut' = <<>>
                 /\ UNCHANGED <<slots, writeIndex, pVars>>

\* discard_buffered loads the producer's index ...
BeginDiscard == /\ MayDiscard
                /\ cPc = "idle"
                /\ cPc' = "discard"
                /\ cCount' = writeIndex
                /\ UNCHANGED <<slots, readIndex, writeIndex, pVars, cOut,
                               taken>>

\* Wrong variant: discarding rewinds the consumer's index.
FinishDiscardRewinds == /\ cPc = "discard"
                        /\ readIndex' = 0
                        /\ cPc' = "idle"
                        /\ cCount' = 0
                        /\ UNCHANGED <<slots, writeIndex, pVars, cOut, taken>>

\* ... and makes it its own.
FinishDiscard == /\ cPc = "discard"
                 /\ readIndex' = cCount
                 /\ cPc' = "idle"
                 /\ cCount' = 0
                 /\ UNCHANGED <<slots, writeIndex, pVars, cOut, taken>>
-----------------------------------------------------------------------------
Next == \/ \E n \in PushSizes : BeginPush(n)
        \/ WriteSlot
        \/ FinishPush
        \/ \E n \in PopSizes : BeginConsume(n)
        \/ ReadSlot
        \/ FinishConsume
        \/ BeginDiscard
        \/ FinishDiscard

Spec == Init /\ [][Next]_vars
-----------------------------------------------------------------------------
TypeOK ==
    /\ slots \in [0 .. Capacity - 1 -> Nat]
    /\ readIndex \in Nat
    /\ writeIndex \in Nat
    /\ pPc \in {"idle", "write"}
    /\ pCount \in Nat
    /\ pOffset \in 0 .. pCount
    /\ cPc \in {"idle", "read", "discard"}
    /\ cCount \in Nat
    /\ cOut \in Seq(Nat)
    /\ taken \in Seq(Nat)

\* The absolute indices the producer has still to write in this call ...
ToWrite == {writeIndex + o : o \in pOffset .. pCount - 1}

\* ... those whose samples are published and not yet consumed ...
Published == readIndex .. writeIndex - 1

\* ... and those the consumer has still to read in this call.
ToRead == IF cPc = "read"
          THEN {readIndex + o : o \in Len(cOut) .. cCount - 1} ELSE {}

(***************************************************************************)
(* The two SAFETY comments that justify the unsafe blocks: the producer    *)
(* only writes unpublished slots, the consumer only reads published ones.  *)
(* Together they rule out a data race on a slot: no slot the producer is   *)
(* about to write is one that holds a sample the consumer may still read,  *)
(* whichever index values the two loaded and when.                         *)
(***************************************************************************)
NoDataRace == /\ \A i \in ToWrite, j \in Published : Slot(i) # Slot(j)
              /\ ToRead \subseteq Published

(***************************************************************************)
(* What consume has copied out in the middle of a call is the published    *)
(* samples in order: none torn, skipped, repeated or overwritten by a      *)
(* producer that runs concurrently with the copy.                          *)
(***************************************************************************)
CopiesAreIntact ==
    cPc = "read" => \A k \in 1 .. Len(cOut) : cOut[k] = readIndex + k - 1

(***************************************************************************)
(* Channels never rotate: the sample at offset k of a consumer's buffer    *)
(* belongs to channel k % channels of the stream, although push_slice may  *)
(* publish a part of a frame and discard_buffered jumps to wherever the    *)
(* producer is.                                                            *)
(***************************************************************************)
ChannelsKeepTheirPlace ==
    \A k \in 1 .. Len(taken) :
        taken[k] % PopAlignment = (k - 1) % PopAlignment

(***************************************************************************)
(* Why all this holds, as an invariant that every step preserves by        *)
(* itself: neither index overtakes the other by more than the capacity,    *)
(* what a call computed from a stale index stays within what is free or    *)
(* published, and each slot between the indices, or already written beyond *)
(* them, holds the sample that belongs there.                              *)
(***************************************************************************)
IndicesInv == readIndex <= writeIndex /\ writeIndex <= readIndex + Capacity

ProducerInv == /\ pPc = "idle" => pCount = 0
               /\ writeIndex + pCount <= readIndex + Capacity

ConsumerInv == /\ cPc = "read" => /\ Len(cOut) <= cCount
                                  /\ readIndex + cCount <= writeIndex
               /\ cPc = "discard" => cCount \in readIndex .. writeIndex

SlotsInv ==
    \A i \in readIndex .. writeIndex + pOffset - 1 : slots[Slot(i)] = i

RingInv == IndicesInv /\ ProducerInv /\ ConsumerInv /\ SlotsInv /\ CopiesAreIntact

\* The queue that the slots and the indices represent.
Contents == [k \in 1 .. writeIndex - readIndex |-> slots[Slot(readIndex + k - 1)]]

Queue == INSTANCE SampleQueue
            WITH accepted <- writeIndex, queue <- Contents, taken <- taken

(***************************************************************************)
(* The ring implements the bounded FIFO queue: pushes, takes and discards  *)
(* take effect at one store each, in spite of the steps in between.        *)
(***************************************************************************)
IsAQueue == Queue!Spec
=============================================================================
