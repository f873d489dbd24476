------------------------- MODULE OutputWorkerProofs -------------------------
(***************************************************************************)
(* Proofs about OutputWorker, for every number of packets, every capacity  *)
(* of the transport and any number of clients, with and without a control  *)
(* server.                                                                 *)
(***************************************************************************)
EXTENDS OutputWorker, SequenceTheorems, FunctionTheorems,
        FiniteSetTheorems, TLAPS

\* A subscription is only ever asked for, or given up, by a client that has
\* been accepted.
HandlerInv ==
    hpc \in {"top", "flush", "lastFlush", "read", "subscribing",
             "unsubscribing"} \cup Answers => client \in 1 .. MaxClients

\* Packets carry something: the worker's hand is empty exactly when it holds
\* no packet, so that a packet cannot disappear in it.
PoolInv ==
    /\ PacketsAreConserved
    /\ rpc = "send" => rHand # NoBatch
    /\ ready \in Seq(Batches \ {NoBatch})

Inv == TypeOK /\ HandlerInv /\ PoolInv

\* The start: all packets in the pool, at most a start-up print on its way.
LEMMA InitInv == Init => Inv
<1> SUFFICES ASSUME Init PROVE Inv
  OBVIOUS
<1>1. NoBatch \in Batches /\ StartupPrint \in Batches
  BY OutputWorkerAssumption, SMT DEF NoBatch, StartupPrint, Batches
<1>2. transport \in Seq(Batches) /\ Len(transport) \in 0 .. 1
  <2>1. CASE transport = <<>>
    BY <2>1, SMT
  <2>2. CASE transport = <<StartupPrint>>
    BY <2>2, <1>1, SMT
  <2> QED
    BY <2>1, <2>2 DEF Init
<1>3. TypeOK
  <2>1. {error, stopping, enabled, wrote, matched} \subseteq BOOLEAN
    BY DEF Init
  <2>2. /\ free \in Nat /\ ready \in Seq(Batches)
        /\ rHand \in Batches /\ wHand \in Batches
        /\ control \in Seq(Commands)
    BY <1>1, OutputWorkerAssumption, SMT DEF Init
  <2>3. /\ lossD \in Nat /\ lossP \in Nat
        /\ {records, produced, seen, told, spoiled, unheard} \subseteq Nat
        /\ orphans \subseteq 1 .. MaxClients
    BY <1>2, SMT DEF Init
  <2>4. rSub \in 0 .. MaxClients /\ client \in 0 .. MaxClients
    BY OutputWorkerAssumption, SMT DEF Init
  <2>5. Len(transport) <= Transport
    BY <1>2, OutputWorkerAssumption, SMT
  <2>6. /\ rpc = "commands" /\ wpc = "run" /\ hpc \in {"accept", "print"}
    BY DEF Init
  <2> QED
    BY <1>2, <2>1, <2>2, <2>3, <2>4, <2>5, <2>6 DEF TypeOK
<1>4. HandlerInv /\ PoolInv
  BY OutputWorkerAssumption, SMT
     DEF Init, HandlerInv, PoolInv, PacketsAreConserved, Answers
<1> QED
  BY <1>3, <1>4 DEF Inv

\* What RecordLoss and the flushes add are natural numbers.
LEMMA BatchCounts ==
    /\ NoBatch \in Batches
    /\ \A b \in Batches :
          b.d \in Nat /\ b.p \in Nat /\ b.sub \in 0 .. MaxClients
BY OutputWorkerAssumption, SMT DEF Batches, NoBatch

\* Where the prints of a queue are.
PrintPlaces(s) == {i \in DOMAIN s : s[i].p = 1}

\* The prints in a queue are counted by a natural number.
LEMMA PrintsAreCounted ==
    ASSUME NEW s \in Seq(Batches)
    PROVE  IsFiniteSet(PrintPlaces(s)) /\ PrintsIn(s) \in Nat
<1>1. Len(s) \in Nat /\ DOMAIN s = 1 .. Len(s)
  BY SMT
<1>2. IsFiniteSet(1 .. Len(s))
  BY <1>1, FS_Interval, SMT
<1>3. PrintPlaces(s) \in SUBSET (1 .. Len(s))
  BY <1>1 DEF PrintPlaces
<1>4. IsFiniteSet(PrintPlaces(s))
  BY <1>2, <1>3, FS_Subset
<1> QED
  BY <1>4, FS_CardinalityType DEF PrintsIn, PrintPlaces

\* No step of the render thread breaks a type or loses a packet.
LEMMA RenderStepInv ==
    ASSUME Inv, RenderStep
    PROVE  Inv'
<1>1. /\ rHand.d \in Nat /\ rHand.p \in Nat /\ NoBatch \in Batches
      /\ lossD \in Nat /\ lossP \in Nat
      /\ rSub \in 0 .. MaxClients /\ 0 \in 0 .. MaxClients
  BY BatchCounts, OutputWorkerAssumption, SMT DEF Inv, TypeOK
<1>2. \A c \in Commands : c.sub \in 0 .. MaxClients
  BY OutputWorkerAssumption, SMT DEF Commands
<1>3. lossD + rHand.d \in Nat /\ lossP + rHand.p \in Nat
  BY <1>1, SMT
<1>4. CASE HandleSubscription
  <2>0. /\ Head(control) \in Commands /\ Tail(control) \in Seq(Commands)
    <3>1. control \in Seq(Commands)
      BY DEF Inv, TypeOK
    <3> QED
      BY <1>4, <3>1, SMT DEF HandleSubscription
  <2>1. Head(control).sub \in 0 .. MaxClients
    BY <2>0, <1>2
  <2>2. rSub' \in 0 .. MaxClients /\ lossD' \in Nat
    <3>1. /\ rSub' = rSub \/ rSub' = Head(control).sub \/ rSub' = 0
          /\ lossD' = lossD \/ lossD' = 0
      BY <1>4, Zenon DEF HandleSubscription
    <3>2. 0 \in Nat
      BY SMT
    <3> QED
      BY <1>1, <2>1, <3>1, <3>2, Zenon
  <2>3. /\ control' \in Seq(Commands)
        /\ UNCHANGED <<poolVars, transport, lossP, error, rpc, wpc,
                       consumerVars, stopping, history>>
    BY <1>4, <2>0, Zenon DEF HandleSubscription
  <2>4. TypeOK'
    BY <2>2, <2>3 DEF Inv, TypeOK, poolVars, consumerVars, history, goneVars
  <2>5. HandlerInv' /\ PoolInv'
    BY <2>3 DEF Inv, HandlerInv, PoolInv, PacketsAreConserved, poolVars,
                consumerVars
  <2> QED
    BY <2>4, <2>5, Zenon DEF Inv
<1> USE OutputWorkerAssumption DEF Inv, TypeOK, HandlerInv, PoolInv,
                                   PacketsAreConserved, goneVars
<1>5. ASSUME NEW d \in 0 .. 1, NEW p \in 0 .. 1, Render(d, p)
      PROVE  Inv'
  <2>1. rHand' \in Batches
    BY <1>5, SMT DEF Render, Batches
  <2>2. records' \in Nat /\ produced' \in Nat
    <3>1. records \in Nat /\ produced \in Nat
      OBVIOUS
    <3> QED
      BY <1>5, <3>1, SMT DEF Render
  <2> QED
    BY <1>5, <2>1, <2>2, SMT DEF Render, lossVars, consumerVars
<1>6. CASE PublishError
  <2>1. spoiled' \in Nat /\ rHand' \in Batches
    <3>1. spoiled' = spoiled + rHand.p /\ rHand' = NoBatch
      BY <1>6, Zenon DEF PublishError
    <3>2. spoiled \in Nat
      OBVIOUS
    <3> HIDE DEF Inv, TypeOK, PoolInv, PacketsAreConserved
    <3> QED
      BY <1>1, <3>1, <3>2, SMT
  <2>2. /\ rpc # "send" /\ rpc' = "join" /\ stopping' = TRUE
        /\ UNCHANGED <<free, ready, wHand, transport, lossD, lossP, error,
                       rSub, wpc, control, hpc, client, enabled, wrote,
                       matched, records, produced, seen, told, unheard,
                       orphans>>
    BY <1>6, Zenon DEF PublishError, lossVars, consumerVars
  <2> QED
    BY <2>1, <2>2
<1>7. CASE PublishEmpty
  BY <1>7, SMT DEF PublishEmpty, poolVars, lossVars, consumerVars, history
<1>8. CASE PublishTake
  BY <1>8, SMT DEF PublishTake, lossVars, consumerVars, history
<1>9. CASE PublishDrop
  <2>1. lossD' \in Nat /\ lossP' \in Nat /\ rHand' \in Batches
    <3>1. /\ lossD' = lossD + rHand.d \/ lossD' = lossD
          /\ lossP' = lossP + rHand.p /\ rHand' = NoBatch
      BY <1>9, Zenon DEF PublishDrop, RecordLoss
    <3> HIDE DEF Inv, TypeOK, PoolInv, PacketsAreConserved
    <3> QED
      BY <1>1, <1>3, <3>1
  <2>2. /\ rpc # "send" /\ rpc' = "rendered"
        /\ UNCHANGED <<free, ready, wHand, transport, error, rSub, wpc,
                       control, hpc, client, enabled, wrote, matched,
                       stopping, records, produced, seen, told, spoiled,
                       unheard, orphans>>
    BY <1>9, Zenon DEF PublishDrop, consumerVars
  <2> QED
    BY <2>1, <2>2
<1>10. CASE PublishSend
  <2>1. Len(ready) < PacketCount
    BY <1>10, SMT DEF PublishSend
  <2>2. /\ ready' = Append(ready, rHand) /\ rHand' = NoBatch
        /\ rpc' = "rendered" /\ rHand # NoBatch
        /\ UNCHANGED <<stopping, spoiled>>
    BY <1>10, <2>1 DEF PublishSend
  <2>3. /\ ready' \in Seq(Batches \ {NoBatch})
        /\ Len(ready') = Len(ready) + 1
    BY <2>2, SMT
  <2>4. ready' \in Seq(Batches)
    BY <2>2, SMT
  <2> QED
    BY <1>10, <2>2, <2>3, <2>4, <1>1, SMT
       DEF PublishSend, lossVars, consumerVars
<1>11. CASE RenderFailed
  BY <1>11, SMT DEF RenderFailed, poolVars, lossVars, consumerVars, history
<1>12. CASE NextBlock
  BY <1>12, SMT DEF NextBlock, poolVars, lossVars, consumerVars, history
<1>13. CASE JoinWorker
  BY <1>13, SMT DEF JoinWorker, poolVars, lossVars, consumerVars, history
<1> QED
  BY <1>4, <1>5, <1>6, <1>7, <1>8, <1>9, <1>10, <1>11, <1>12, <1>13
     DEF RenderStep

\* A packet that the worker takes is in its hand.
LEMMA TakenPacket ==
    ASSUME Inv, TakePacket
    PROVE  /\ wHand' \in Batches
           /\ ready' \in Seq(Batches) /\ ready' \in Seq(Batches \ {NoBatch})
           /\ PacketsAreConserved'
<1>1. /\ wHand' = Head(ready) /\ ready' = Tail(ready)
      /\ wHand = NoBatch /\ ready # <<>>
      /\ free' = free /\ rpc' = rpc
  BY DEF TakePacket, renderVars
<1>2. /\ ready \in Seq(Batches \ {NoBatch}) /\ free \in Nat
      /\ ready \in Seq(Batches)
  BY DEF Inv, TypeOK, PoolInv
<1>3. /\ wHand' \in Batches /\ wHand' # NoBatch
      /\ ready' \in Seq(Batches \ {NoBatch})
      /\ Len(ready') = Len(ready) - 1 /\ Len(ready) \in Nat
  BY <1>1, <1>2, SMT
<1>4. ready' \in Seq(Batches)
  BY <1>1, <1>2, SMT
<1>5. PacketsAreConserved'
  <2> DEFINE inSend == IF rpc = "send" THEN 1 ELSE 0
  <2>1. PacketsAreConserved
    BY DEF Inv, PoolInv
  <2>2. inSend \in Nat
    BY SMT
  <2>3. free + Len(ready) + inSend + 0 = PacketCount
    BY <2>1, <1>1 DEF PacketsAreConserved
  <2>4. PacketsAreConserved'
            <=> free + Len(ready') + inSend + 1 = PacketCount
    BY <1>1, <1>3 DEF PacketsAreConserved
  <2> HIDE DEF inSend
  <2> QED
    BY <1>2, <1>3, <2>2, <2>3, <2>4, SMT
<1> QED
  BY <1>3, <1>4, <1>5

\* A packet that leaves the worker's hand is in the pool.
LEMMA ReturnedPacket ==
    ASSUME Inv, wHand # NoBatch, wHand' = NoBatch, free' = free + 1,
           UNCHANGED <<ready, rpc>>
    PROVE  free' \in Nat /\ PacketsAreConserved'
<1> DEFINE inSend == IF rpc = "send" THEN 1 ELSE 0
<1>1. PacketsAreConserved /\ free \in Nat /\ ready \in Seq(Batches)
  BY DEF Inv, PoolInv, TypeOK
<1>2. Len(ready) \in Nat /\ inSend \in Nat
  BY <1>1, SMT
<1>3. free + Len(ready) + inSend + 1 = PacketCount
  BY <1>1 DEF PacketsAreConserved
<1>4. PacketsAreConserved'
          <=> (free + 1) + Len(ready) + inSend + 0 = PacketCount
  BY DEF PacketsAreConserved
<1> HIDE DEF inSend
<1> QED
  BY <1>1, <1>2, <1>3, <1>4, SMT

\* The worker returns every packet it took, decoded or not.
LEMMA WorkerStepInv ==
    ASSUME Inv, WorkerStep
    PROVE  Inv'
<1>1. /\ wHand.d \in Nat /\ wHand.p \in Nat /\ NoBatch \in Batches
      /\ lossD \in Nat /\ lossP \in Nat
      /\ spoiled \in Nat /\ unheard \in Nat
  BY BatchCounts DEF Inv, TypeOK
<1>2. /\ lossD + wHand.d \in Nat /\ lossP + wHand.p \in Nat
      /\ spoiled + wHand.p \in Nat /\ unheard + wHand.p \in Nat
  BY <1>1, SMT
<1> USE OutputWorkerAssumption DEF Inv, TypeOK, HandlerInv, PoolInv, goneVars
<1>3. CASE TakePacket
  BY <1>3, TakenPacket, SMT
     DEF TakePacket, renderVars, lossVars, consumerVars, history
<1>4. CASE PublishDecoded
  <2>1. /\ lossD' = lossD + wHand.d \/ lossD' = lossD
        /\ lossP' = lossP + wHand.p \/ lossP' = lossP
        /\ unheard' = unheard + wHand.p \/ unheard' = unheard
    BY <1>4, Zenon DEF PublishDecoded, RecordLoss, lossVars
  <2>2. lossD' \in Nat /\ lossP' \in Nat /\ unheard' \in Nat
    BY <1>1, <1>2, <2>1
  <2>3. \/ transport' = transport
        \/ transport' = Append(transport, wHand) /\ Len(transport) < Transport
    BY <1>4 DEF PublishDecoded
  <2>4. transport' \in Seq(Batches) /\ Len(transport') <= Transport
    <3>1. CASE transport' = transport
      BY <3>1
    <3>2. CASE /\ transport' = Append(transport, wHand)
               /\ Len(transport) < Transport
      <4>1. /\ transport' \in Seq(Batches)
            /\ Len(transport') = Len(transport) + 1 /\ Len(transport) \in Nat
        BY <3>2, SMT
      <4> QED
        BY <3>2, <4>1, SMT
    <3> QED
      BY <2>3, <3>1, <3>2
  <2>5. free' \in Nat /\ PacketsAreConserved'
    BY <1>4, ReturnedPacket DEF PublishDecoded, renderVars
  <2> QED
    BY <1>4, <1>1, <2>2, <2>4, <2>5, SMT
       DEF PublishDecoded, renderVars, consumerVars
<1>5. CASE DecodeFails
  <2>1. free' \in Nat /\ PacketsAreConserved'
    BY <1>5, ReturnedPacket DEF DecodeFails, renderVars
  <2> QED
    BY <1>5, <1>1, <1>2, <2>1, SMT
       DEF DecodeFails, renderVars, lossVars, consumerVars
<1>6. CASE WorkerExits
  BY <1>6, SMT DEF WorkerExits, poolVars, renderVars, lossVars, consumerVars,
                   history, PacketsAreConserved
<1> QED
  BY <1>3, <1>4, <1>5, <1>6 DEF WorkerStep

\* What a flush takes from the transport or puts into the control channel.
LEMMA FlushTypes ==
    ASSUME Inv, transport # <<>>
    PROVE  /\ Head(transport) \in Batches
           /\ Tail(transport) \in Seq(Batches)
           /\ Len(Tail(transport)) <= Transport
           /\ Head(transport).p \in Nat
<1>1. /\ Head(transport) \in Batches
      /\ Tail(transport) \in Seq(Batches)
      /\ Len(Tail(transport)) <= Transport
  BY OutputWorkerAssumption, SMT DEF Inv, TypeOK
<1> QED
  BY <1>1, BatchCounts

\* A handler's command has the number of its client.
LEMMA CommandSent ==
    ASSUME Inv, NEW on \in BOOLEAN, client \in 1 .. MaxClients
    PROVE  Append(control, [enabled |-> on, sub |-> client]) \in Seq(Commands)
<1>1. [enabled |-> on, sub |-> client] \in Commands
  BY DEF Commands
<1>2. control \in Seq(Commands)
  BY DEF Inv, TypeOK
<1> QED
  BY <1>1, <1>2, SMT

\* The guard sends a disable when a subscribed client goes away.
LEMMA DropGuardTypes ==
    ASSUME Inv, NEW held, DropGuard(held), client \in 1 .. MaxClients
    PROVE  control' \in Seq(Commands)
<1>1. \/ control' = control
      \/ control' = Append(control, [enabled |-> FALSE, sub |-> client])
  BY Zenon DEF DropGuard
<1>2. control \in Seq(Commands)
  BY DEF Inv, TypeOK
<1>3. Append(control, [enabled |-> FALSE, sub |-> client]) \in Seq(Commands)
  BY CommandSent
<1> QED
  BY <1>1, <1>2, <1>3, Zenon

\* What the consumer of the transport can change: it holds no packet.
ConsumerInv ==
    /\ transport \in Seq(Batches) /\ Len(transport) <= Transport
    /\ control \in Seq(Commands)
    /\ lossD \in Nat /\ lossP \in Nat
    /\ seen \in Nat /\ told \in Nat /\ spoiled \in Nat /\ unheard \in Nat
    /\ orphans \subseteq 1 .. MaxClients
    /\ enabled \in BOOLEAN /\ wrote \in BOOLEAN /\ matched \in BOOLEAN
    /\ hpc \in {"accept", "top", "flush", "lastFlush", "read", "subscribing",
                "unsubscribing", "print", "done", "flushed", "ended",
                "printed"} \cup Answers
    /\ client \in 0 .. MaxClients
    /\ HandlerInv

\* What it leaves to the render thread, the worker and the main thread.
producerVars == <<poolVars, error, renderVars, wpc, stopping, records,
                  produced>>

\* A flush, a request of a client or a printed batch that keeps its own types
\* keeps the invariant.
LEMMA ConsumerFrame ==
    ASSUME Inv, UNCHANGED producerVars, ConsumerInv'
    PROVE  Inv'
<1>1. PoolInv'
  BY DEF Inv, PoolInv, PacketsAreConserved, producerVars, poolVars, renderVars
<1>2. TypeOK'
  BY DEF Inv, TypeOK, ConsumerInv, producerVars, poolVars, renderVars
<1> QED
  BY <1>1, <1>2 DEF Inv, ConsumerInv

\* The consumer's part of the invariant.
LEMMA ConsumerInvHolds == Inv => ConsumerInv
BY DEF Inv, TypeOK, ConsumerInv

\* The server's thread ends with what its transport still holds.
LEMMA EndServerInv ==
    ASSUME Inv, NEW end \in {"done", "ended"}, EndServer(end)
    PROVE  Inv'
<1>1. UNCHANGED producerVars
  BY Zenon DEF EndServer, producerVars
<1>2. ConsumerInv
  BY ConsumerInvHolds
<1>3. transport' \in Seq(Batches) /\ Len(transport') <= Transport
  <2>1. transport' = <<>>
    BY DEF EndServer
  <2> QED
    BY <2>1, OutputWorkerAssumption, SMT
<1>4. unheard' \in Nat
  <2>1. PrintsIn(transport) \in Nat /\ unheard \in Nat
    BY <1>2, PrintsAreCounted DEF ConsumerInv
  <2>2. unheard' = unheard + PrintsIn(transport)
    BY DEF EndServer
  <2> QED
    BY <2>1, <2>2, SMT
<1>5. ConsumerInv'
  <2>1. /\ hpc' \in {"done", "ended"}
        /\ UNCHANGED <<control, lossD, lossP, seen, told, spoiled, orphans,
                       enabled, wrote, matched, client>>
    BY Zenon DEF EndServer, lossVars
  <2> QED
    BY <1>2, <1>3, <1>4, <2>1 DEF ConsumerInv, HandlerInv, Answers
<1> QED
  BY <1>1, <1>5, ConsumerFrame

\* Whatever client it serves, the control server keeps the types of the
\* counters and of the commands it sends.
LEMMA ServerStepInv ==
    ASSUME Inv, ServerStep
    PROVE  Inv'
<1>1. UNCHANGED producerVars
  BY Zenon
     DEF ServerStep, Accept, ServerStops, EndServer, StartFlush, FlushBatch,
         FlushFails, FlushEnd, FlushEndFails, ReadTimeout, ClientLeaves,
         ReadSubscription, Answered, Respond, RespondFails, producerVars,
         history
<1>2. ConsumerInv
  BY ConsumerInvHolds
<1>3. told + lossP \in Nat /\ spoiled + lossP \in Nat
  BY <1>2, SMT DEF ConsumerInv
<1>4. ASSUME transport # <<>>
      PROVE  /\ seen + Head(transport).p \in Nat
             /\ spoiled + Head(transport).p + lossP \in Nat
             /\ Tail(transport) \in Seq(Batches)
             /\ Len(Tail(transport)) <= Transport
  <2>1. Head(transport).p \in Nat
    BY <1>4, FlushTypes
  <2>2. /\ seen + Head(transport).p \in Nat
        /\ spoiled + Head(transport).p + lossP \in Nat
    BY <1>2, <2>1, SMT DEF ConsumerInv
  <2> QED
    BY <1>4, <2>2, FlushTypes
<1>5. Flushing \/ hpc = "read" \/ hpc \in Answers => client \in 1 .. MaxClients
  BY <1>2 DEF Flushing, ConsumerInv, HandlerInv
<1>6. ASSUME NEW held, DropGuard(held),
             Flushing \/ hpc = "read" \/ hpc \in Answers
      PROVE  control' \in Seq(Commands)
  BY <1>5, <1>6, DropGuardTypes
<1> USE DEF ConsumerInv, HandlerInv, Answers, goneVars
<1>7. CASE Accept
  <2>1. client' \in 1 .. MaxClients /\ client' \in 0 .. MaxClients
    BY <1>7, <1>2, OutputWorkerAssumption, SMT DEF Accept
  <2> QED
    BY <1>7, <1>1, <1>2, <2>1, ConsumerFrame DEF Accept, lossVars
<1>8. CASE ServerStops
  BY <1>8, EndServerInv, Zenon DEF ServerStops
<1>9. CASE StartFlush
  BY <1>9, <1>1, <1>2, ConsumerFrame DEF StartFlush, lossVars, history
<1>10. CASE FlushBatch
  <2>1. matched' \in BOOLEAN /\ wrote' \in BOOLEAN
    BY <1>10, Zenon DEF FlushBatch
  <2>2. (lossD' = 0 \/ lossD' = lossD) /\ lossP' = 0
    BY <1>10, Zenon DEF FlushBatch
  <2> QED
    BY <1>10, <1>1, <1>2, <1>3, <1>4, <2>1, <2>2, ConsumerFrame DEF FlushBatch
<1>11. CASE FlushFails
  <2>1. /\ lossD' = 0 \/ lossD' = lossD
        /\ lossP' = 0 /\ enabled' = FALSE /\ hpc' = "accept"
        /\ Flushing /\ DropGuard(enabled) /\ transport # <<>>
        /\ transport' = Tail(transport)
        /\ spoiled' = spoiled + Head(transport).p + lossP
        /\ wrote' = FALSE /\ matched' = FALSE
        /\ UNCHANGED <<client, seen, told, goneVars>>
    BY <1>11, Zenon DEF FlushFails, FlushReturns
  <2>2. control' \in Seq(Commands)
    BY <1>6, <2>1, Zenon
  <2>3. /\ transport' \in Seq(Batches) /\ Len(transport') <= Transport
        /\ lossD' \in Nat /\ lossP' \in Nat /\ spoiled' \in Nat
    BY <1>2, <1>4, <2>1
  <2>4. ConsumerInv'
    BY <1>2, <2>1, <2>2, <2>3
  <2> QED
    BY <1>1, <2>4, ConsumerFrame
<1>12. CASE FlushEnd
  <2>1. /\ lossD' = 0 \/ lossD' = lossD
        /\ \/ lossP' = 0 /\ told' = told + lossP
           \/ lossP' = lossP /\ told' = told
        /\ wrote' = FALSE /\ matched' = FALSE
        /\ UNCHANGED <<transport, client, seen, spoiled, goneVars>>
    BY <1>12, Zenon DEF FlushEnd, FlushReturns
  <2>2. enabled' \in BOOLEAN
    BY <1>12, <1>2, Zenon DEF FlushEnd
  <2>3. /\ hpc' = "read" \/ hpc' = "flushed"
        /\ control' = control \/ DropGuard(enabled)
        /\ Flushing
    BY <1>12, Zenon DEF FlushEnd
  <2>4. control' \in Seq(Commands) /\ client \in 1 .. MaxClients
    BY <1>2, <1>5, <1>6, <2>3
  <2>5. lossD' \in Nat /\ lossP' \in Nat /\ told' \in Nat
    BY <1>2, <1>3, <2>1
  <2>6. ConsumerInv'
    BY <1>2, <2>1, <2>2, <2>3, <2>4, <2>5
  <2> QED
    BY <1>1, <2>6, ConsumerFrame
<1>13. CASE FlushEndFails
  <2>1. /\ lossD' = 0 \/ lossD' = lossD
        /\ \/ lossP' = 0 /\ spoiled' = spoiled + lossP
           \/ lossP' = lossP /\ spoiled' = spoiled
        /\ enabled' = FALSE /\ hpc' = "accept" /\ Flushing
        /\ DropGuard(enabled) /\ wrote' = FALSE /\ matched' = FALSE
        /\ UNCHANGED <<transport, client, seen, told, goneVars>>
    BY <1>13, Zenon DEF FlushEndFails, FlushReturns
  <2>2. control' \in Seq(Commands)
    BY <1>6, <2>1, Zenon
  <2>3. lossD' \in Nat /\ lossP' \in Nat /\ spoiled' \in Nat
    BY <1>2, <1>3, <2>1
  <2>4. ConsumerInv'
    BY <1>2, <2>1, <2>2, <2>3
  <2> QED
    BY <1>1, <2>4, ConsumerFrame
<1>14. CASE ReadTimeout
  BY <1>14, <1>1, <1>2, ConsumerFrame DEF ReadTimeout, lossVars, history
<1>15. CASE ClientLeaves
  BY <1>15, <1>1, <1>2, <1>6, ConsumerFrame DEF ClientLeaves, lossVars, history
<1>16. ASSUME NEW on \in BOOLEAN, ReadSubscription(on)
       PROVE  Inv'
  <2>1. control' \in Seq(Commands)
    BY <1>16, <1>2, <1>5, CommandSent DEF ReadSubscription
  <2>2. hpc' \in {"refused", "subscribing", "unsubscribing"}
    BY <1>16, Zenon DEF ReadSubscription
  <2> QED
    BY <1>16, <1>1, <1>2, <1>5, <2>1, <2>2, ConsumerFrame
       DEF ReadSubscription, lossVars, history
<1>17. CASE Answered
  <2>1. control' \in Seq(Commands)
    <3>1. control' = control \/ control' = <<>>
      BY <1>17, Zenon DEF Answered
    <3>2. <<>> \in Seq(Commands)
      BY SMT
    <3> QED
      BY <1>2, <3>1, <3>2, Zenon
  <2>2. hpc \in {"subscribing", "unsubscribing"} /\ hpc' \in Answers
    BY <1>17 DEF Answered
  <2> QED
    BY <1>17, <1>1, <1>2, <2>1, <2>2, ConsumerFrame
       DEF Answered, lossVars, history
<1>18. CASE Respond
  <2>1. enabled' \in BOOLEAN
    <3>1. \/ enabled' = enabled
          \/ enabled' = (hpc = "subscribed")
      BY <1>18, Zenon DEF Respond, EnabledByAnswer
    <3> QED
      BY <1>2, <3>1
  <2> QED
    BY <1>18, <1>1, <1>2, <2>1, ConsumerFrame DEF Respond, lossVars, history
<1>19. CASE RespondFails
  <2>1. /\ hpc \in Answers /\ enabled' = FALSE /\ hpc' = "accept"
        /\ DropGuard(enabled) \/ DropGuard(EnabledByAnswer)
        /\ orphans' = orphans \/ orphans' = orphans \cup {client}
        /\ UNCHANGED <<transport, lossD, lossP, client, wrote, matched, seen,
                       told, spoiled, unheard>>
    BY <1>19, Zenon DEF RespondFails, lossVars
  <2>2. control' \in Seq(Commands)
    BY <1>6, <2>1, Zenon
  <2>3. orphans' \subseteq 1 .. MaxClients
    BY <1>2, <1>5, <2>1
  <2>4. ConsumerInv'
    BY <1>2, <2>1, <2>2, <2>3
  <2> QED
    BY <1>1, <2>4, ConsumerFrame
<1> QED
  BY <1>7, <1>8, <1>9, <1>10, <1>11, <1>12, <1>13, <1>14, <1>15, <1>16, <1>17,
     <1>18, <1>19 DEF ServerStep

\* The printer only takes batches and counts.
LEMMA PrinterStepInv ==
    ASSUME Inv, PrinterStep
    PROVE  Inv'
<1>1. /\ lossP \in Nat /\ seen \in Nat /\ told \in Nat
  BY DEF Inv, TypeOK
<1>2. told + lossP \in Nat /\ 0 \in Nat
  BY <1>1, SMT
<1>3. ConsumerInv
  BY ConsumerInvHolds
<1> USE DEF ConsumerInv, HandlerInv, producerVars, Answers, goneVars
<1>4. CASE PrintBatch
  <2>1. /\ Head(transport).p \in Nat
        /\ Tail(transport) \in Seq(Batches)
        /\ Len(Tail(transport)) <= Transport
    BY <1>4, FlushTypes DEF PrintBatch
  <2>2. seen + Head(transport).p \in Nat
    BY <1>1, <2>1, SMT
  <2>3. UNCHANGED producerVars
    BY <1>4, Zenon DEF PrintBatch
  <2>4. ConsumerInv'
    BY <1>3, <1>4, <2>1, <2>2
       DEF PrintBatch, consumerVars, history, lossVars
  <2> QED
    BY <2>3, <2>4, ConsumerFrame
<1>5. CASE PrintEnd
  <2>1. UNCHANGED producerVars
    BY <1>5, Zenon DEF PrintEnd
  <2>2. ConsumerInv'
    BY <1>2, <1>3, <1>5 DEF PrintEnd, consumerVars, history, lossVars
  <2> QED
    BY <2>1, <2>2, ConsumerFrame
<1> QED
  BY <1>4, <1>5 DEF PrinterStep

\* No step of any thread breaks the invariant.
LEMMA InvIsInductive == Inv /\ [Next]_vars => Inv'
<1> SUFFICES ASSUME Inv, [Next]_vars PROVE Inv'
  OBVIOUS
<1>1. CASE Stop
  BY <1>1 DEF Stop, Inv, TypeOK, HandlerInv, PoolInv, PacketsAreConserved,
              poolVars, lossVars, renderVars, consumerVars, history, goneVars
<1>2. CASE UNCHANGED vars
  BY <1>2 DEF vars, Inv, TypeOK, HandlerInv, PoolInv, PacketsAreConserved,
              poolVars, lossVars, renderVars, consumerVars, history, goneVars
<1>3. CASE AcceptFails
  BY <1>3, EndServerInv, Zenon DEF AcceptFails
<1> QED
  BY <1>1, <1>2, <1>3, RenderStepInv, WorkerStepInv, ServerStepInv,
     PrinterStepInv DEF Next
-----------------------------------------------------------------------------
\* The invariant holds in every behaviour of the three threads.
THEOREM InvariantHolds == Spec => []Inv
BY InitInv, InvIsInductive, PTL DEF Spec

\* Type correctness: a command names a client that was accepted, a batch on
\* the transport has room there, no counter leaves the natural numbers.
THEOREM TypeCorrect == Spec => []TypeOK
BY InvariantHolds, PTL DEF Inv

(***************************************************************************)
(* "Exactly PACKET_COUNT packets exist in total": no interleaving of       *)
(* publish, the worker's decoding, its errors and the end of the run loses *)
(* or duplicates a packet.                                                 *)
(***************************************************************************)
THEOREM PacketsStayInThePool == Spec => []PacketsAreConserved
<1>1. Inv => PacketsAreConserved
  BY DEF Inv, PoolInv
<1> QED
  BY <1>1, InvariantHolds, PTL

(***************************************************************************)
(* "A packet removed from the free pool always leaves room in the ready    *)
(* queue": try_send of publish never finds the queue full, so the branch   *)
(* of PublishSend that stops the run is not taken.                         *)
(***************************************************************************)
ReadyHasRoom == rpc = "send" => Len(ready) < PacketCount

\* publish never finds the ready channel full.
THEOREM PublishFindsRoom == Spec => []ReadyHasRoom
<1>1. Inv => ReadyHasRoom
  BY OutputWorkerAssumption, SMT
     DEF Inv, TypeOK, PoolInv, PacketsAreConserved, ReadyHasRoom
<1> QED
  BY <1>1, InvariantHolds, PTL
-----------------------------------------------------------------------------
(***************************************************************************)
(* Proofs about the delegate subscriptions of OutputWorker, for any number *)
(* of clients that come and go.                                            *)
(***************************************************************************)
Waiting == {"subscribing", "unsubscribing"}

Ask(on) == [enabled |-> on, sub |-> client]

LastCommand == control[Len(control)]

\* A handler that holds a subscription has nothing on its way but the
\* request it waits for; what it asked for last is handled last.
ServedInv ==
    /\ enabled => hpc \in {"top", "flush", "lastFlush", "read"}
                            \cup Waiting \cup Answers
    /\ enabled /\ hpc \notin Waiting =>
            control = <<>> /\ (hpc = "unsubscribed" \/ rSub = client)
    /\ hpc = "subscribed" => control = <<>> /\ rSub = client
    /\ enabled /\ hpc = "subscribing" =>
            rSub = client /\ (control = <<>> \/ control = <<Ask(TRUE)>>)
    /\ enabled /\ hpc = "unsubscribing" =>
            \/ control = <<>>
            \/ control = <<Ask(FALSE)>> /\ rSub = client
    /\ hpc = "subscribing" =>
            IF control = <<>> THEN rSub = client ELSE LastCommand = Ask(TRUE)

\* The request that was sent last is the last to be handled.
LEMMA LastOfAppend ==
    ASSUME NEW s \in Seq(Commands), NEW c \in Commands
    PROVE  /\ Append(s, c) \in Seq(Commands)
           /\ Append(s, c) # <<>>
           /\ Append(s, c)[Len(Append(s, c))] = c
BY AppendProperties

\* Handling a command leaves the last one last, until it is the one.
LEMMA LastOfTail ==
    ASSUME NEW s \in Seq(Commands), s # <<>>
    PROVE  IF Tail(s) = <<>> THEN Head(s) = s[Len(s)]
           ELSE Tail(s)[Len(Tail(s))] = s[Len(s)]
<1>1. /\ Tail(s) \in Seq(Commands)
      /\ Len(Tail(s)) = Len(s) - 1
      /\ \A i \in 1 .. Len(Tail(s)) : Tail(s)[i] = s[i + 1]
      /\ Len(s) \in Nat
  BY HeadTailProperties, LenProperties
<1>2. CASE Tail(s) = <<>>
  <2>1. Len(s) = 1
    BY <1>1, <1>2, EmptySeq, SMT
  <2>2. Head(s) = s[1]
    BY SMT
  <2> QED
    BY <1>2, <2>1, <2>2
<1>3. CASE Tail(s) # <<>>
  <2>1. Len(Tail(s)) \in Nat \ {0}
    BY <1>1, <1>3, EmptySeq
  <2>2. Tail(s)[Len(Tail(s))] = s[Len(Tail(s)) + 1]
    BY <1>1, <2>1, SMT
  <2>3. Len(Tail(s)) + 1 = Len(s)
    BY <1>1, SMT
  <2> QED
    BY <1>3, <2>2, <2>3
<1> QED
  BY <1>2, <1>3

\* A command that is alone in the channel.
LEMMA OnlyCommand ==
    ASSUME NEW c \in Commands
    PROVE  /\ Head(<<c>>) = c /\ Tail(<<c>>) = <<>> /\ <<c>> # <<>>
           /\ Append(<<>>, c) = <<c>>
BY SMT

\* Whoever leaves the channel, the subscription and the handler alone keeps
\* the invariant.
LEMMA ServedFrame ==
    ASSUME ServedInv, UNCHANGED <<control, rSub, client, enabled, hpc>>
    PROVE  ServedInv'
BY DEF ServedInv, Ask, LastCommand, Waiting, Answers

\* A handler without a subscription has nothing to keep, unless it asks.
LEMMA NotEnabled ==
    ASSUME enabled' = FALSE, hpc' \notin {"subscribing", "subscribed"}
    PROVE  ServedInv'
BY DEF ServedInv

\* The render thread handles the commands in their order.
LEMMA HandlingKeepsServedInv ==
    ASSUME TypeOK, ServedInv, HandleSubscription
    PROVE  ServedInv'
<1> DEFINE c == Head(control)
<1>1. /\ control # <<>> /\ control' = Tail(control)
      /\ UNCHANGED <<client, enabled, hpc>>
      /\ c.enabled => rSub' = c.sub
  BY Zenon DEF HandleSubscription, consumerVars
<1>2. control \in Seq(Commands)
  BY DEF TypeOK
<1>3. /\ Ask(TRUE).enabled = TRUE /\ Ask(TRUE).sub = client
      /\ UNCHANGED <<Ask(TRUE), Ask(FALSE)>>
  BY <1>1 DEF Ask
<1>4. IF control' = <<>> THEN c = LastCommand ELSE LastCommand' = LastCommand
  BY <1>1, <1>2, LastOfTail DEF LastCommand
<1>5. hpc = "subscribing" =>
          IF control' = <<>> THEN rSub' = client ELSE LastCommand' = Ask(TRUE)
  BY <1>1, <1>3, <1>4 DEF ServedInv
<1>6. ASSUME enabled, hpc = "subscribing"
      PROVE  control' = <<>>
  <2>1. control = <<Ask(TRUE)>>
    BY <1>1, <1>6 DEF ServedInv
  <2> QED
    BY <1>1, <2>1, SMT
<1>7. ASSUME enabled, hpc = "unsubscribing"
      PROVE  control' = <<>>
  <2>1. control = <<Ask(FALSE)>>
    BY <1>1, <1>7 DEF ServedInv
  <2> QED
    BY <1>1, <2>1, SMT
<1>8. (enabled => hpc \in Waiting) /\ hpc # "subscribed"
  BY <1>1 DEF ServedInv
<1> HIDE DEF c
<1> QED
  BY <1>1, <1>3, <1>5, <1>6, <1>7, <1>8 DEF ServedInv, Waiting

\* A handler asks when nothing of its own is on its way, and waits.
LEMMA AskingKeepsServedInv ==
    ASSUME Inv, ServedInv, NEW on \in BOOLEAN, ReadSubscription(on)
    PROVE  ServedInv'
<1>1. /\ hpc = "read" /\ UNCHANGED <<rSub, client, enabled>>
      /\ rpc = "exited" => hpc' = "refused" /\ control' = control
      /\ rpc # "exited" =>
            /\ hpc' = IF on THEN "subscribing" ELSE "unsubscribing"
            /\ control' = Append(control, Ask(on))
  BY DEF ReadSubscription, renderVars, Ask
<1>2. client \in 1 .. MaxClients /\ control \in Seq(Commands)
  BY <1>1 DEF Inv, TypeOK, HandlerInv
<1>3. Ask(on) \in Commands
  BY <1>2 DEF Ask, Commands
<1>4. enabled => control = <<>> /\ rSub = client
  BY <1>1 DEF ServedInv, Waiting
<1>5. CASE rpc = "exited"
  BY <1>1, <1>4, <1>5 DEF ServedInv, Waiting, Answers
<1>6. CASE rpc # "exited"
  <2>1. control' # <<>> /\ LastCommand' = Ask(on)
    BY <1>1, <1>2, <1>3, <1>6, LastOfAppend DEF LastCommand
  <2>2. enabled => control' = <<Ask(on)>>
    BY <1>1, <1>3, <1>4, <1>6, OnlyCommand
  <2>3. UNCHANGED <<Ask(TRUE), Ask(FALSE)>>
    BY <1>1 DEF Ask
  <2>4. CASE on = TRUE
    BY <1>1, <1>4, <1>6, <2>1, <2>2, <2>3, <2>4 DEF ServedInv, Waiting
  <2>5. CASE on = FALSE
    BY <1>1, <1>4, <1>6, <2>1, <2>2, <2>3, <2>5 DEF ServedInv, Waiting
  <2> QED
    BY <2>4, <2>5
<1> QED
  BY <1>5, <1>6

\* An answer says what has been handled, and an error that the run is over.
LEMMA AnswerKeepsServedInv ==
    ASSUME ServedInv, Answered
    PROVE  ServedInv'
<1>1. /\ hpc \in Waiting /\ UNCHANGED <<rSub, client, enabled>>
      /\ control' = <<>>
      /\ \/ control = <<>> /\ hpc = "subscribing" /\ hpc' = "subscribed"
         \/ control = <<>> /\ hpc = "unsubscribing" /\ hpc' = "unsubscribed"
         \/ control # <<>> /\ hpc' = "refused"
  BY DEF Answered, renderVars, Waiting
<1>2. enabled /\ hpc' # "unsubscribed" => rSub = client
  BY <1>1 DEF ServedInv, Waiting
<1>3. hpc' = "subscribed" => rSub = client
  BY <1>1 DEF ServedInv, Waiting
<1> QED
  BY <1>1, <1>2, <1>3 DEF ServedInv, Waiting, Answers

\* The guard of a client learns what its answer said.
LEMMA RespondKeepsServedInv ==
    ASSUME ServedInv, Respond
    PROVE  ServedInv'
<1>1. /\ hpc \in Answers /\ hpc' = "top" /\ UNCHANGED <<rSub, client, control>>
      /\ \/ hpc = "refused" /\ enabled' = enabled
         \/ hpc = "subscribed" /\ enabled' = TRUE
         \/ hpc = "unsubscribed" /\ enabled' = FALSE
  BY DEF Respond, renderVars, Answers, EnabledByAnswer
<1>2. enabled' => control = <<>> /\ rSub = client
  BY <1>1 DEF ServedInv, Waiting
<1> QED
  BY <1>1, <1>2 DEF ServedInv, Waiting, Answers

\* Of the control server's steps, those that matter are a request, its
\* answer, and the end of a connection.
LEMMA ServerKeepsServedInv ==
    ASSUME Inv, ServedInv, ServerStep
    PROVE  ServedInv'
<1>1. CASE Accept
  BY <1>1, NotEnabled DEF Accept
<1>2. CASE ServerStops
  <2>1. /\ hpc \in {"accept", "flushed"} /\ hpc' \in {"done", "ended"}
        /\ UNCHANGED <<control, rSub, client, enabled>>
    BY <1>2, Zenon DEF ServerStops, EndServer, renderVars
  <2> QED
    BY <2>1 DEF ServedInv, Waiting, Answers
<1>3. CASE StartFlush
  <2>1. /\ hpc = "top" /\ hpc' \in {"flush", "lastFlush"}
        /\ UNCHANGED <<control, rSub, client, enabled>>
    BY <1>3, Zenon DEF StartFlush, renderVars
  <2> QED
    BY <2>1 DEF ServedInv, Waiting, Answers
<1>4. CASE FlushBatch
  BY <1>4, ServedFrame DEF FlushBatch, renderVars
<1>5. CASE FlushFails \/ FlushEndFails \/ ClientLeaves \/ RespondFails
  <2>1. enabled' = FALSE /\ hpc' = "accept"
    BY <1>5, Zenon DEF FlushFails, FlushEndFails, ClientLeaves, RespondFails
  <2> QED
    BY <2>1, NotEnabled
<1>6. CASE FlushEnd
  <2>1. CASE hpc = "flush"
    <3>1. /\ hpc' = "read"
          /\ UNCHANGED <<control, rSub, client, enabled>>
      BY <1>6, <2>1, Zenon DEF FlushEnd, renderVars
    <3> QED
      BY <2>1, <3>1 DEF ServedInv, Waiting, Answers
  <2>2. CASE hpc # "flush"
    <3>1. enabled' = FALSE /\ hpc' = "flushed"
      BY <1>6, <2>2, Zenon DEF FlushEnd
    <3> QED
      BY <3>1, NotEnabled
  <2> QED
    BY <2>1, <2>2
<1>7. CASE ReadTimeout
  <2>1. /\ hpc = "read" /\ hpc' = "top"
        /\ UNCHANGED <<control, rSub, client, enabled>>
    BY <1>7 DEF ReadTimeout, renderVars
  <2> QED
    BY <2>1 DEF ServedInv, Waiting, Answers
<1>8. CASE \E on \in BOOLEAN : ReadSubscription(on)
  BY <1>8, AskingKeepsServedInv
<1>9. CASE Answered
  BY <1>9, AnswerKeepsServedInv
<1>10. CASE Respond
  BY <1>10, RespondKeepsServedInv
<1> QED
  BY <1>1, <1>2, <1>3, <1>4, <1>5, <1>6, <1>7, <1>8, <1>9, <1>10
     DEF ServerStep

\* The steps of the other threads leave subscriptions alone.
LEMMA OthersLeaveSubscriptions ==
    ASSUME \/ RenderStep /\ ~HandleSubscription
           \/ WorkerStep \/ PrintBatch \/ Stop \/ UNCHANGED vars
    PROVE  /\ UNCHANGED <<control, rSub, client, enabled, hpc, orphans>>
           /\ rpc = "exited" => rpc' = "exited"
<1>1. CASE RenderStep /\ ~HandleSubscription
  BY <1>1, Zenon
     DEF RenderStep, Render, PublishError, PublishEmpty, PublishTake,
         PublishDrop, PublishSend, RenderFailed, NextBlock, JoinWorker,
         renderVars, consumerVars, history, goneVars
<1>2. CASE WorkerStep
  BY <1>2, Zenon
     DEF WorkerStep, TakePacket, PublishDecoded, DecodeFails, WorkerExits,
         renderVars, consumerVars, history, goneVars
<1>3. CASE PrintBatch \/ Stop \/ UNCHANGED vars
  BY <1>3, Zenon DEF PrintBatch, Stop, vars, renderVars, consumerVars, history, goneVars
<1> QED
  BY <1>1, <1>2, <1>3

\* No interleaving of the threads with a client breaks it.
LEMMA ServedInvHolds == Spec => []ServedInv
<1>1. Init => ServedInv
  BY DEF Init, ServedInv
<1>2. Inv /\ ServedInv /\ [Next]_vars => ServedInv'
  <2> SUFFICES ASSUME Inv, ServedInv, [Next]_vars PROVE ServedInv'
    OBVIOUS
  <2>1. CASE HandleSubscription
    BY <2>1, HandlingKeepsServedInv DEF Inv
  <2>2. CASE \/ RenderStep /\ ~HandleSubscription
             \/ WorkerStep \/ PrintBatch \/ Stop \/ UNCHANGED vars
    BY <2>2, OthersLeaveSubscriptions, ServedFrame
  <2>3. CASE ServerStep
    BY <2>3, ServerKeepsServedInv
  <2>4. CASE PrintEnd
    <3>1. /\ hpc = "print" /\ hpc' = "printed"
          /\ UNCHANGED <<control, rSub, client, enabled>>
      BY <2>4 DEF PrintEnd, renderVars
    <3> QED
      BY <3>1 DEF ServedInv, Waiting, Answers
  <2>5. CASE AcceptFails
    <3>1. /\ hpc = "accept" /\ hpc' = "done"
          /\ UNCHANGED <<control, rSub, client, enabled>>
      BY <2>5 DEF AcceptFails, EndServer, renderVars
    <3> QED
      BY <3>1 DEF ServedInv, Waiting, Answers
  <2> QED
    BY <2>1, <2>2, <2>3, <2>4, <2>5 DEF Next, PrinterStep
<1> QED
  BY <1>1, <1>2, InvariantHolds, PTL DEF Spec
-----------------------------------------------------------------------------
(***************************************************************************)
(* A client that was told it is subscribed is the one the render thread    *)
(* collects delegates for, however many clients were subscribed before it  *)
(* and left without a word: the handler's requests and the disable of its  *)
(* drop guard are handled in the order in which they were sent.            *)
(***************************************************************************)
THEOREM SubscribersAreServed == Spec => []SubscriberIsServed
<1>1. ServedInv => SubscriberIsServed
  BY DEF ServedInv, SubscriberIsServed, Waiting
<1> QED
  BY <1>1, ServedInvHolds, PTL
-----------------------------------------------------------------------------
(* Whom the render thread collects for.                                    *)

ElementsOf(s) == {s[i] : i \in DOMAIN s}

\* The command that ends the collection for a client.
Disable(k) == [enabled |-> FALSE, sub |-> k]

\* An enable is only on its way while its client waits for the answer; a
\* client that gives its subscription up waits until its disable is handled.
OwnerInv ==
    /\ rSub # 0 /\ rpc # "exited" =>
            \/ rSub = client /\ (enabled \/ hpc \in {"subscribing", "subscribed"})
            \/ Disable(rSub) \in ElementsOf(control)
            \/ rSub \in orphans
    /\ \A c \in ElementsOf(control) :
            c.enabled => hpc = "subscribing" /\ c.sub = client
    /\ hpc = "unsubscribing" /\ rSub = client /\ rpc # "exited" =>
            Disable(client) \in ElementsOf(control)
    /\ hpc = "unsubscribed" /\ rpc # "exited" => rSub # client

\* A command that is sent is added to those on their way.
LEMMA ElementsOfAppend ==
    ASSUME NEW S, NEW s \in Seq(S), NEW c \in S
    PROVE  ElementsOf(Append(s, c)) = ElementsOf(s) \cup {c}
<1>1. /\ Len(s) \in Nat /\ DOMAIN s = 1 .. Len(s)
      /\ DOMAIN Append(s, c) = 1 .. Len(s) + 1
      /\ \A i \in 1 .. Len(s) : Append(s, c)[i] = s[i]
      /\ Append(s, c)[Len(s) + 1] = c
  BY SMT
<1>2. \A i \in 1 .. Len(s) + 1 : i \in 1 .. Len(s) \/ i = Len(s) + 1
  BY <1>1, SMT
<1>3. /\ \A i \in 1 .. Len(s) : i \in 1 .. Len(s) + 1
      /\ Len(s) + 1 \in 1 .. Len(s) + 1
  BY <1>1, SMT
<1> QED
  BY <1>1, <1>2, <1>3, Zenon DEF ElementsOf

\* A command that is handled is taken from those on their way.
LEMMA ElementsOfTail ==
    ASSUME NEW S, NEW s \in Seq(S), s # <<>>
    PROVE  ElementsOf(s) = {Head(s)} \cup ElementsOf(Tail(s))
<1>1. /\ Len(s) \in Nat \ {0} /\ DOMAIN s = 1 .. Len(s)
      /\ DOMAIN Tail(s) = 1 .. Len(s) - 1
      /\ \A i \in 1 .. Len(s) - 1 : Tail(s)[i] = s[i + 1]
      /\ Head(s) = s[1]
  BY SMT
<1>2. \A i \in 1 .. Len(s) :
          i = 1 \/ (i - 1 \in 1 .. Len(s) - 1 /\ (i - 1) + 1 = i)
  BY <1>1, SMT
<1>3. /\ \A i \in 1 .. Len(s) - 1 : i + 1 \in 1 .. Len(s)
      /\ 1 \in 1 .. Len(s)
  BY <1>1, SMT
<1>4. ElementsOf(s) \subseteq {Head(s)} \cup ElementsOf(Tail(s))
  <2> SUFFICES ASSUME NEW i \in 1 .. Len(s)
               PROVE  s[i] \in {Head(s)} \cup ElementsOf(Tail(s))
    BY <1>1 DEF ElementsOf
  <2>1. CASE i = 1
    BY <1>1, <2>1
  <2>2. CASE i # 1
    <3>1. i - 1 \in DOMAIN Tail(s) /\ Tail(s)[i - 1] = s[i]
      BY <1>1, <1>2, <2>2, SMT
    <3> QED
      BY <3>1, Zenon DEF ElementsOf
  <2> QED
    BY <2>1, <2>2
<1>5. {Head(s)} \cup ElementsOf(Tail(s)) \subseteq ElementsOf(s)
  BY <1>1, <1>3, Zenon DEF ElementsOf
<1> QED
  BY <1>4, <1>5

\* Nothing is on its way in an empty channel.
LEMMA NoElements == ElementsOf(<<>>) = {}
BY SMT DEF ElementsOf

\* What is said of the sequence of commands and what is said of its elements.
LEMMA OwnerOfCollection == OwnerInv => CollectionHasAnOwner
BY Zenon DEF OwnerInv, CollectionHasAnOwner, ElementsOf, Disable

\* Whoever leaves the channel, the subscription and the handler alone keeps
\* the invariant: a render thread that has ended does not begin again.
LEMMA OwnerFrame ==
    ASSUME OwnerInv, UNCHANGED <<control, rSub, client, enabled, hpc, orphans>>,
           rpc = "exited" => rpc' = "exited"
    PROVE  OwnerInv'
BY DEF OwnerInv, ElementsOf, Disable

\* Handling an enable makes the client that waits for it the owner, handling
\* a disable of the owner leaves no collection, a stale one changes nothing.
LEMMA HandlingKeepsOwner ==
    ASSUME Inv, OwnerInv, HandleSubscription
    PROVE  OwnerInv'
<1> DEFINE c == Head(control)
<1>1. /\ control # <<>> /\ control' = Tail(control)
      /\ rpc = "commands" /\ rpc' = "commands"
      /\ UNCHANGED <<client, enabled, hpc, orphans>>
      /\ IF ~c.enabled /\ rSub # c.sub THEN rSub' = rSub
         ELSE rSub' = IF c.enabled THEN c.sub ELSE 0
  BY Zenon DEF HandleSubscription, consumerVars, history, goneVars
<1>2. ElementsOf(control) = {c} \cup ElementsOf(control')
  BY <1>1, ElementsOfTail DEF Inv, TypeOK
<1>3. c.enabled => hpc = "subscribing" /\ c.sub = client
  BY <1>2 DEF OwnerInv
<1>4. \A k : Disable(k).enabled = FALSE /\ Disable(k).sub = k
             /\ Disable(k)' = Disable(k)
  BY DEF Disable
<1>5. CASE c.enabled
  <2>1. rSub' = client' /\ hpc' = "subscribing"
    BY <1>1, <1>3, <1>5
  <2> QED
    BY <1>1, <1>2, <2>1 DEF OwnerInv
<1>6. CASE ~c.enabled /\ rSub # c.sub
  <2>1. rSub' = rSub /\ Disable(rSub) # c
    BY <1>1, <1>4, <1>6
  <2>2. rSub = client => Disable(client) # c
    BY <1>4, <1>6
  <2> HIDE DEF c
  <2> QED
    BY <1>1, <1>2, <1>4, <2>1, <2>2 DEF OwnerInv
<1>7. CASE ~c.enabled /\ rSub = c.sub
  <2>1. rSub' = 0
    BY <1>1, <1>7
  <2>2. hpc \in {"unsubscribing", "unsubscribed"} => client # 0
    BY OutputWorkerAssumption, SMT DEF Inv, HandlerInv, Answers
  <2> QED
    BY <1>1, <1>2, <1>4, <2>1, <2>2 DEF OwnerInv
<1> QED
  BY <1>5, <1>6, <1>7

\* A request is sent after all that is on its way, and waited for.
LEMMA AskingKeepsOwner ==
    ASSUME Inv, OwnerInv, NEW on \in BOOLEAN, ReadSubscription(on)
    PROVE  OwnerInv'
<1>1. /\ hpc = "read" /\ UNCHANGED <<rpc, rSub, client, enabled, orphans>>
      /\ rpc = "exited" => hpc' = "refused" /\ control' = control
      /\ rpc # "exited" =>
            /\ hpc' = IF on THEN "subscribing" ELSE "unsubscribing"
            /\ control' = Append(control, Ask(on))
  BY DEF ReadSubscription, renderVars, Ask, history, goneVars
<1>2. client \in 1 .. MaxClients /\ control \in Seq(Commands)
  BY <1>1 DEF Inv, TypeOK, HandlerInv
<1>3. Ask(on) \in Commands /\ Ask(on).enabled = on /\ Ask(on).sub = client
  BY <1>2 DEF Ask, Commands
<1>4. \A k : Disable(k)' = Disable(k)
  BY DEF Disable
<1>5. CASE rpc = "exited"
  BY <1>1, <1>5 DEF OwnerInv
<1>6. CASE rpc # "exited"
  <2>1. ElementsOf(control') = ElementsOf(control) \cup {Ask(on)}
    BY <1>1, <1>2, <1>3, <1>6, ElementsOfAppend
  <2>2. \A c \in ElementsOf(control) : ~c.enabled
    BY <1>1 DEF OwnerInv
  <2>3. \A c \in ElementsOf(control') :
            c.enabled => hpc' = "subscribing" /\ c.sub = client'
    BY <1>1, <1>3, <1>6, <2>1, <2>2
  <2>4. ~on => Ask(on) = Disable(client)
    BY DEF Ask, Disable
  <2>5. rSub # 0 => (rSub = client /\ enabled)
                     \/ Disable(rSub) \in ElementsOf(control)
                     \/ rSub \in orphans
    BY <1>1, <1>6 DEF OwnerInv
  <2> QED
    BY <1>1, <1>4, <1>6, <2>1, <2>3, <2>4, <2>5 DEF OwnerInv
<1> QED
  BY <1>5, <1>6

\* An answer that a subscription is given up comes after the render thread
\* has stopped collecting for it.
LEMMA AnswerKeepsOwner ==
    ASSUME ServedInv, OwnerInv, Answered
    PROVE  OwnerInv'
<1>1. /\ hpc \in Waiting
      /\ UNCHANGED <<rpc, rSub, client, enabled, orphans>>
      /\ control' = <<>>
      /\ \/ control = <<>> /\ hpc = "subscribing" /\ hpc' = "subscribed"
         \/ control = <<>> /\ hpc = "unsubscribing" /\ hpc' = "unsubscribed"
         \/ rpc = "exited" /\ hpc' = "refused"
  BY DEF Answered, renderVars, Waiting, history, goneVars
<1>2. ElementsOf(control') = {}
  BY <1>1, NoElements
<1>3. CASE rpc = "exited"
  BY <1>1, <1>2, <1>3 DEF OwnerInv
<1>4. CASE control = <<>> /\ hpc = "subscribing" /\ hpc' = "subscribed"
  <2>1. rSub = client
    BY <1>4 DEF ServedInv
  <2> QED
    BY <1>1, <1>2, <2>1, <1>4 DEF OwnerInv
<1>5. CASE control = <<>> /\ hpc = "unsubscribing" /\ hpc' = "unsubscribed"
  <2>1. ElementsOf(control) = {}
    BY <1>5, NoElements
  <2>2. rpc # "exited" => rSub # client /\ (rSub = 0 \/ rSub \in orphans)
    BY <1>5, <2>1 DEF OwnerInv
  <2> QED
    BY <1>1, <1>2, <1>5, <2>2 DEF OwnerInv
<1> QED
  BY <1>1, <1>3, <1>4, <1>5

\* Telling the guard is the moment from which it owes the disable.
LEMMA RespondKeepsOwner ==
    ASSUME ServedInv, OwnerInv, Respond
    PROVE  OwnerInv'
<1>1. /\ hpc \in Answers /\ hpc' = "top"
      /\ UNCHANGED <<rpc, rSub, client, control, orphans>>
      /\ \/ hpc = "refused" /\ enabled' = enabled
         \/ hpc = "subscribed" /\ enabled' = TRUE
         \/ hpc = "unsubscribed" /\ enabled' = FALSE
  BY DEF Respond, renderVars, Answers, EnabledByAnswer, history, goneVars
<1>2. /\ \A c \in ElementsOf(control) : ~c.enabled
      /\ \A k : Disable(k)' = Disable(k)
      /\ ElementsOf(control') = ElementsOf(control)
  BY <1>1 DEF OwnerInv, Disable, Answers
<1>3. rSub # 0 /\ rpc # "exited" =>
          \/ rSub = client /\ enabled'
          \/ Disable(rSub) \in ElementsOf(control)
          \/ rSub \in orphans
  BY <1>1 DEF OwnerInv
<1> QED
  BY <1>1, <1>2, <1>3 DEF OwnerInv

\* A handler that ends without a subscription, or whose guard sends the
\* disable, leaves no collection behind but that of an orphan.
LEMMA LeavingKeepsOwner ==
    ASSUME Inv, OwnerInv, NEW held, DropGuard(held), enabled' = FALSE,
           hpc \in {"flush", "lastFlush", "read"} \cup Answers,
           hpc' \in {"accept", "flushed"},
           UNCHANGED <<rpc, rSub, client>>, orphans \subseteq orphans',
           rSub = client /\ rpc # "exited"
               /\ (enabled \/ hpc = "subscribed")
               => held \/ client \in orphans'
    PROVE  OwnerInv'
<1>1. client \in 1 .. MaxClients /\ control \in Seq(Commands)
  BY DEF Inv, TypeOK, HandlerInv, Answers
<1>2. /\ Disable(client) \in Commands /\ Disable(client).enabled = FALSE
      /\ \A k : Disable(k)' = Disable(k)
  BY <1>1 DEF Disable, Commands
<1>3. control' = IF held /\ rpc # "exited"
                 THEN Append(control, Disable(client)) ELSE control
  BY DEF DropGuard, Disable
<1>4. \A c \in ElementsOf(control) : ~c.enabled
  BY DEF OwnerInv, Answers
<1>5. rSub # 0 /\ rpc # "exited" =>
          \/ rSub = client /\ (held \/ client \in orphans')
          \/ Disable(rSub) \in ElementsOf(control)
          \/ rSub \in orphans'
  BY DEF OwnerInv, Answers
<1>6. CASE held /\ rpc # "exited"
  <2>1. ElementsOf(control') = ElementsOf(control) \cup {Disable(client)}
    BY <1>1, <1>2, <1>3, <1>6, ElementsOfAppend
  <2> QED
    BY <1>2, <1>4, <1>5, <1>6, <2>1 DEF OwnerInv
<1>7. CASE ~(held /\ rpc # "exited")
  <2>1. ElementsOf(control') = ElementsOf(control)
    BY <1>3, <1>7
  <2> QED
    BY <1>2, <1>4, <1>5, <1>7, <2>1 DEF OwnerInv
<1> QED
  BY <1>6, <1>7

\* A connection that breaks while its client is told: either the guard sends
\* the disable, or the client is an orphan.
LEMMA RespondFailsKeepsOwner ==
    ASSUME Inv, OwnerInv, RespondFails
    PROVE  OwnerInv'
<1>1. /\ hpc \in Answers /\ enabled' = FALSE /\ hpc' = "accept"
      /\ UNCHANGED <<rpc, rSub, client>> /\ orphans \subseteq orphans'
  BY Zenon DEF RespondFails, renderVars
<1>2. CASE /\ DropGuard(enabled)
           /\ orphans' = IF hpc = "subscribed" /\ ~enabled
                         THEN orphans \cup {client} ELSE orphans
  BY <1>1, <1>2, LeavingKeepsOwner
<1>3. CASE DropGuard(EnabledByAnswer) /\ UNCHANGED orphans
  <2>1. rSub = client /\ rpc # "exited" /\ (enabled \/ hpc = "subscribed")
            => EnabledByAnswer
    BY <1>1 DEF OwnerInv, EnabledByAnswer, Answers
  <2> QED
    BY <1>1, <1>3, <2>1, LeavingKeepsOwner
<1> QED
  BY <1>2, <1>3, Zenon DEF RespondFails

\* Where else the handler is, it neither waits nor changes its subscription.
LEMMA MovingKeepsOwner ==
    ASSUME OwnerInv,
           UNCHANGED <<control, rpc, rSub, client, enabled, orphans>>,
           hpc \notin Waiting \cup Answers, hpc' \notin Waiting \cup Answers
    PROVE  OwnerInv'
BY DEF OwnerInv, Waiting, Answers, ElementsOf, Disable

\* The control server, one step of a handler after the other.
LEMMA ServerKeepsOwner ==
    ASSUME Inv, ServedInv, OwnerInv, ServerStep
    PROVE  OwnerInv'
<1>1. CASE Accept
  <2>1. /\ hpc = "accept" /\ hpc' = "top" /\ enabled' = FALSE
        /\ UNCHANGED <<control, rpc, rSub, orphans>>
    BY <1>1 DEF Accept, renderVars, goneVars
  <2>2. ~enabled
    BY <2>1 DEF ServedInv, Waiting, Answers
  <2>3. \A k : Disable(k)' = Disable(k)
    BY DEF Disable
  <2>4. ElementsOf(control') = ElementsOf(control)
    BY <2>1
  <2> QED
    BY <2>1, <2>2, <2>3, <2>4 DEF OwnerInv
<1>2. CASE ServerStops \/ StartFlush \/ ReadTimeout
  <2>1. /\ hpc \in {"accept", "flushed", "top", "read"}
        /\ hpc' \in {"done", "ended", "top", "flush", "lastFlush"}
        /\ UNCHANGED <<control, rpc, rSub, client, enabled, orphans>>
    BY <1>2, Zenon
       DEF ServerStops, EndServer, StartFlush, ReadTimeout, renderVars,
           history, goneVars
  <2> QED
    BY <2>1, MovingKeepsOwner DEF Waiting, Answers
<1>3. CASE FlushBatch
  BY <1>3, OwnerFrame DEF FlushBatch, renderVars, goneVars
<1>4. CASE FlushFails \/ FlushEndFails \/ ClientLeaves
  <2>1. /\ hpc \in {"flush", "lastFlush", "read"} /\ hpc' = "accept"
        /\ DropGuard(enabled) /\ enabled' = FALSE
        /\ UNCHANGED <<rpc, rSub, client, orphans>>
    BY <1>4, Zenon
       DEF FlushFails, FlushEndFails, ClientLeaves, Flushing, renderVars,
           history, goneVars
  <2> QED
    BY <2>1, LeavingKeepsOwner
<1>5. CASE FlushEnd
  <2>1. CASE hpc = "flush"
    <3>1. /\ hpc' = "read"
          /\ UNCHANGED <<control, rpc, rSub, client, enabled, orphans>>
      BY <1>5, <2>1, Zenon DEF FlushEnd, renderVars, goneVars
    <3> QED
      BY <2>1, <3>1, MovingKeepsOwner DEF Waiting, Answers
  <2>2. CASE hpc # "flush"
    <3>1. /\ hpc = "lastFlush" /\ hpc' = "flushed" /\ enabled' = FALSE
          /\ DropGuard(enabled) /\ UNCHANGED <<rpc, rSub, client, orphans>>
      BY <1>5, <2>2, Zenon DEF FlushEnd, Flushing, renderVars, goneVars
    <3> QED
      BY <3>1, LeavingKeepsOwner
  <2> QED
    BY <2>1, <2>2
<1>6. CASE \E on \in BOOLEAN : ReadSubscription(on)
  BY <1>6, AskingKeepsOwner
<1>7. CASE Answered
  BY <1>7, AnswerKeepsOwner
<1>8. CASE Respond
  BY <1>8, RespondKeepsOwner
<1>9. CASE RespondFails
  BY <1>9, RespondFailsKeepsOwner
<1> QED
  BY <1>1, <1>2, <1>3, <1>4, <1>5, <1>6, <1>7, <1>8, <1>9 DEF ServerStep

(***************************************************************************)
(* The guard of handle_run_control_client and the stale test of            *)
(* SetDelegateCollection: the render thread does not go on collecting for  *)
(* a client that is gone, however the commands of successive clients       *)
(* overlap with the blocks and the ends of their connections; the one      *)
(* exception is a client whose connection broke between the answer to its  *)
(* first subscription and the guard's knowing of it.                       *)
(***************************************************************************)
THEOREM CollectionEnds == Spec => []CollectionHasAnOwner
<1>1. Init => OwnerInv
  BY NoElements DEF Init, OwnerInv
<1>2. Inv /\ ServedInv /\ OwnerInv /\ [Next]_vars => OwnerInv'
  <2> SUFFICES ASSUME Inv, ServedInv, OwnerInv, [Next]_vars PROVE OwnerInv'
    OBVIOUS
  <2>1. CASE HandleSubscription
    BY <2>1, HandlingKeepsOwner
  <2>2. CASE \/ RenderStep /\ ~HandleSubscription
             \/ WorkerStep \/ PrintBatch \/ Stop \/ UNCHANGED vars
    BY <2>2, OthersLeaveSubscriptions, OwnerFrame
  <2>3. CASE ServerStep
    BY <2>3, ServerKeepsOwner
  <2>4. CASE PrintEnd
    <3>1. /\ hpc = "print" /\ hpc' = "printed"
          /\ UNCHANGED <<control, rpc, rSub, client, enabled, orphans>>
      BY <2>4 DEF PrintEnd, renderVars, goneVars
    <3> QED
      BY <3>1, MovingKeepsOwner DEF Waiting, Answers
  <2>5. CASE AcceptFails
    <3>1. /\ hpc = "accept" /\ hpc' = "done"
          /\ UNCHANGED <<control, rpc, rSub, client, enabled, orphans>>
      BY <2>5 DEF AcceptFails, EndServer, renderVars
    <3> QED
      BY <3>1, MovingKeepsOwner DEF Waiting, Answers
  <2> QED
    BY <2>1, <2>2, <2>3, <2>4, <2>5 DEF Next, PrinterStep
<1> QED
  BY <1>1, <1>2, OwnerOfCollection, InvariantHolds, ServedInvHolds, PTL
     DEF Spec

(***************************************************************************)
(* Both directions: collection follows the subscriptions of the handler.   *)
(***************************************************************************)
THEOREM CollectionFollowsItsClient == Spec => []CollectionFollowsTheClient
<1>1. SubscriberIsServed /\ CollectionHasAnOwner => CollectionFollowsTheClient
  BY DEF CollectionFollowsTheClient
<1> QED
  BY <1>1, SubscribersAreServed, CollectionEnds, PTL
-----------------------------------------------------------------------------
(* Where the prints are.                                                   *)

\* What the loops of the threads leave behind: a hand that is empty outside a
\* block's publication, a worker that ends with nothing, a printer that ends
\* with the last count.
EmptyInv ==
    /\ rpc \in {"commands", "rendered", "join", "exited"} => rHand = NoBatch
    /\ wpc = "exited" =>
            rpc \in {"join", "exited"} /\ ready = <<>> /\ wHand = NoBatch
    /\ rpc = "exited" => wpc = "exited"
    /\ hpc = "printed" => rpc = "exited" /\ transport = <<>> /\ lossP = 0

\* An empty queue holds no print.
LEMMA PrintsOfNothing == PrintsIn(<<>>) = 0
<1>1. PrintPlaces(<<>>) = {}
  BY SMT DEF PrintPlaces
<1> QED
  BY <1>1, FS_EmptySet DEF PrintsIn, PrintPlaces

\* A batch that is sent adds its print.
LEMMA PrintsOfAppend ==
    ASSUME NEW s \in Seq(Batches), NEW b \in Batches
    PROVE  PrintsIn(Append(s, b)) = PrintsIn(s) + b.p
<1> DEFINE t == Append(s, b)
           n == Len(s) + 1
<1>1. /\ Len(s) \in Nat /\ DOMAIN s = 1 .. Len(s) /\ DOMAIN t = 1 .. n
      /\ t[n] = b /\ \A i \in 1 .. Len(s) : t[i] = s[i]
  BY SMT
<1>2. /\ n \in 1 .. n /\ n \notin 1 .. Len(s)
      /\ \A i : i \in 1 .. n <=> i \in 1 .. Len(s) \/ i = n
  BY <1>1, SMT
<1>3. b.p \in {0, 1}
  BY SMT DEF Batches
<1>4. IsFiniteSet(PrintPlaces(s)) /\ n \notin PrintPlaces(s)
  BY <1>1, <1>2, PrintsAreCounted DEF PrintPlaces
<1> HIDE DEF t, n
<1>5. CASE b.p = 0
  <2>1. \A i : i \in PrintPlaces(t) <=> i \in PrintPlaces(s)
    <3>1. t[n].p # 1
      BY <1>1, <1>5
    <3> QED
      BY <1>1, <1>2, <3>1, Zenon DEF PrintPlaces
  <2>2. PrintsIn(t) = PrintsIn(s) /\ PrintsIn(s) \in Nat
    <3>1. PrintPlaces(t) = PrintPlaces(s)
      BY <2>1
    <3> QED
      BY <3>1, PrintsAreCounted DEF PrintsIn, PrintPlaces
  <2> QED
    BY <1>5, <2>2, SMT DEF t
<1>6. CASE b.p = 1
  <2>1. PrintPlaces(t) = PrintPlaces(s) \cup {n}
    BY <1>1, <1>2, <1>6, Zenon DEF PrintPlaces
  <2>2. Cardinality(PrintPlaces(t)) = Cardinality(PrintPlaces(s)) + 1
    BY <1>4, <2>1, FS_AddElement, Zenon
  <2>3. PrintsIn(t) = PrintsIn(s) + 1
    BY <2>2 DEF PrintsIn, PrintPlaces
  <2> QED
    BY <1>6, <2>3 DEF t
<1> QED
  BY <1>3, <1>5, <1>6

\* A batch that is received takes its print with it.
LEMMA PrintsOfTail ==
    ASSUME NEW s \in Seq(Batches), s # <<>>
    PROVE  PrintsIn(s) = Head(s).p + PrintsIn(Tail(s))
<1> DEFINE t == Tail(s)
           f == [i \in PrintPlaces(t) |-> i + 1]
<1>1. /\ Len(s) \in Nat \ {0} /\ DOMAIN s = 1 .. Len(s)
      /\ t \in Seq(Batches) /\ DOMAIN t = 1 .. Len(s) - 1
      /\ \A i \in 1 .. Len(s) - 1 : t[i] = s[i + 1]
      /\ Head(s) = s[1] /\ s[1] \in Batches
  BY SMT
<1>2. PrintsIn(s) \in Nat /\ PrintsIn(t) \in Nat
  BY <1>1, PrintsAreCounted
<1>3. /\ IsFiniteSet(PrintPlaces(s)) /\ IsFiniteSet(PrintPlaces(t))
      /\ Head(s).p \in {0, 1}
  <2>1. Head(s).p \in {0, 1}
    BY <1>1, SMT DEF Batches
  <2> QED
    BY <1>1, <2>1, PrintsAreCounted
<1> HIDE DEF t
<1>4. f \in Bijection(PrintPlaces(t), PrintPlaces(s) \ {1})
  <2>1. ASSUME NEW i \in PrintPlaces(t)
        PROVE  i \in Nat /\ i + 1 \in PrintPlaces(s) \ {1}
    <3>1. i \in 1 .. Len(s) - 1 /\ t[i].p = 1 /\ t[i] = s[i + 1]
      BY <1>1 DEF PrintPlaces
    <3>2. i \in Nat /\ i + 1 \in 1 .. Len(s) /\ i + 1 # 1
      BY <1>1, <3>1, SMT
    <3> QED
      BY <1>1, <3>1, <3>2 DEF PrintPlaces
  <2>2. f \in [PrintPlaces(t) -> PrintPlaces(s) \ {1}]
    BY <2>1
  <2>3. \A i, j \in PrintPlaces(t) : f[i] = f[j] => i = j
    BY <2>1, SMT
  <2>4. ASSUME NEW j \in PrintPlaces(s) \ {1}
        PROVE  \E i \in PrintPlaces(t) : f[i] = j
    <3>1. j \in 1 .. Len(s) /\ j # 1 /\ s[j].p = 1
      BY <1>1 DEF PrintPlaces
    <3>2. j - 1 \in 1 .. Len(s) - 1 /\ (j - 1) + 1 = j
      BY <1>1, <3>1, SMT
    <3>3. j - 1 \in PrintPlaces(t)
      BY <1>1, <3>1, <3>2 DEF PrintPlaces
    <3>4. f[j - 1] = j
      BY <3>2, <3>3
    <3> QED
      BY <3>3, <3>4
  <2> HIDE DEF f
  <2> QED
    BY <2>2, <2>3, <2>4, Fun_IsBij
<1>5. Cardinality(PrintPlaces(s) \ {1}) = PrintsIn(t)
  <2>1. ExistsBijection(PrintPlaces(t), PrintPlaces(s) \ {1})
    BY <1>4, Fun_ExistsBij
  <2> QED
    BY <1>3, <2>1, FS_Bijection DEF PrintsIn, PrintPlaces
<1>6. Cardinality(PrintPlaces(s) \ {1})
          = IF 1 \in PrintPlaces(s) THEN PrintsIn(s) - 1 ELSE PrintsIn(s)
  BY <1>3, FS_RemoveElement DEF PrintsIn, PrintPlaces
<1>7. 1 \in PrintPlaces(s) <=> Head(s).p = 1
  BY <1>1, SMT DEF PrintPlaces
<1> QED
  BY <1>2, <1>3, <1>5, <1>6, <1>7, SMT DEF t

\* What the equation adds up.
accountVars == <<produced, seen, told, lossP, spoiled, unheard, ready,
                 transport, rHand, wHand>>

AccountTypes ==
    /\ produced \in Nat /\ seen \in Nat /\ told \in Nat
    /\ lossP \in Nat /\ spoiled \in Nat /\ unheard \in Nat
    /\ PrintsIn(ready) \in Nat /\ PrintsIn(transport) \in Nat
    /\ rHand.p \in Nat /\ wHand.p \in Nat /\ NoBatch.p = 0

LEMMA AccountIsTyped == Inv => AccountTypes
BY PrintsAreCounted, BatchCounts
   DEF Inv, TypeOK, AccountTypes, NoBatch

\* Whoever touches none of its terms keeps the account.
LEMMA AccountFrame ==
    ASSUME PrintsAddUp, UNCHANGED accountVars
    PROVE  PrintsAddUp'
BY DEF PrintsAddUp, accountVars

\* A block's prints are in the hand until they are published, dropped or
\* lost.
LEMMA RenderKeepsAccount ==
    ASSUME Inv, EmptyInv, PrintsAddUp, RenderStep
    PROVE  PrintsAddUp'
<1>1. AccountTypes
  BY AccountIsTyped
<1>2. CASE \/ HandleSubscription \/ PublishEmpty \/ PublishTake
           \/ RenderFailed \/ NextBlock \/ JoinWorker
  <2>1. UNCHANGED accountVars
    BY <1>2, Zenon
       DEF HandleSubscription, PublishEmpty, PublishTake, RenderFailed,
           NextBlock, JoinWorker, poolVars, lossVars, history, goneVars, accountVars
  <2> QED
    BY <2>1, AccountFrame
<1>3. ASSUME NEW d \in 0 .. 1, NEW p \in 0 .. 1, Render(d, p)
      PROVE  PrintsAddUp'
  <2>1. /\ rHand = NoBatch
        /\ produced' = produced + p /\ rHand'.p = p
        /\ UNCHANGED <<seen, told, lossP, spoiled, ready, transport, wHand, unheard>>
    BY <1>3 DEF Render, EmptyInv, lossVars, goneVars
  <2> QED
    BY <1>1, <2>1, SMT DEF AccountTypes, PrintsAddUp
<1>4. CASE PublishError
  <2>1. /\ rHand' = NoBatch /\ spoiled' = spoiled + rHand.p
        /\ UNCHANGED <<produced, seen, told, lossP, ready, transport, wHand, unheard>>
    BY <1>4 DEF PublishError, lossVars, goneVars
  <2> QED
    BY <1>1, <2>1, SMT DEF AccountTypes, PrintsAddUp
<1>5. CASE PublishDrop
  <2>1. /\ rHand' = NoBatch /\ lossP' = lossP + rHand.p
        /\ UNCHANGED <<produced, seen, told, spoiled, ready, transport, wHand, unheard>>
    BY <1>5, Zenon DEF PublishDrop, RecordLoss, goneVars
  <2> QED
    BY <1>1, <2>1, SMT DEF AccountTypes, PrintsAddUp
<1>6. CASE PublishSend
  <2>1. /\ rHand' = NoBatch
        /\ \/ ready' = Append(ready, rHand) /\ spoiled' = spoiled
           \/ ready' = ready /\ spoiled' = spoiled + rHand.p
        /\ UNCHANGED <<produced, seen, told, lossP, transport, wHand, unheard>>
    BY <1>6, Zenon DEF PublishSend, lossVars, goneVars
  <2>2. PrintsIn(Append(ready, rHand)) = PrintsIn(ready) + rHand.p
    BY PrintsOfAppend DEF Inv, TypeOK
  <2>3. /\ rHand'.p = 0
        /\ \/ /\ PrintsIn(ready') = PrintsIn(ready) + rHand.p
              /\ spoiled' = spoiled
           \/ /\ PrintsIn(ready') = PrintsIn(ready)
              /\ spoiled' = spoiled + rHand.p
        /\ PrintsIn(transport') = PrintsIn(transport)
        /\ UNCHANGED <<produced, seen, told, lossP, wHand, unheard>>
    BY <1>1, <2>1, <2>2, Zenon DEF AccountTypes
  <2> QED
    BY <1>1, <2>3, SMT DEF AccountTypes, PrintsAddUp
<1> QED
  BY <1>2, <1>3, <1>4, <1>5, <1>6 DEF RenderStep

\* The worker hands a packet's print on, counts it, or loses it to an error;
\* what it does not carry holds none.
LEMMA WorkerKeepsAccount ==
    ASSUME Inv, PrintsAddUp, WorkerStep
    PROVE  PrintsAddUp'
<1>1. AccountTypes
  BY AccountIsTyped
<1>2. CASE TakePacket
  <2>1. /\ wHand = NoBatch /\ wHand' = Head(ready) /\ ready' = Tail(ready)
        /\ UNCHANGED <<produced, seen, told, lossP, spoiled, transport, rHand, unheard>>
    BY <1>2 DEF TakePacket, lossVars, history, goneVars
  <2>2. PrintsIn(ready) = Head(ready).p + PrintsIn(Tail(ready))
    BY <1>2, PrintsOfTail DEF TakePacket, Inv, TypeOK
  <2>3. wHand'.p \in Nat /\ PrintsIn(ready') \in Nat
    BY <1>2, TakenPacket, BatchCounts, PrintsAreCounted
  <2>4. /\ wHand.p = 0 /\ PrintsIn(ready) = wHand'.p + PrintsIn(ready')
        /\ PrintsIn(transport') = PrintsIn(transport)
        /\ UNCHANGED <<produced, seen, told, lossP, spoiled, rHand, unheard>>
    BY <1>1, <2>1, <2>2, Zenon DEF AccountTypes
  <2> QED
    BY <1>1, <2>3, <2>4, SMT DEF AccountTypes, PrintsAddUp
<1>3. CASE PublishDecoded
  <2>1. /\ wHand' = NoBatch
        /\ \/ /\ wHand.p = 0 /\ transport' = transport
              /\ lossP' = lossP /\ unheard' = unheard
           \/ /\ transport' = Append(transport, wHand)
              /\ lossP' = lossP /\ unheard' = unheard
           \/ /\ transport' = transport /\ unheard' = unheard
              /\ lossP' = lossP + wHand.p
           \/ /\ transport' = transport /\ lossP' = lossP
              /\ unheard' = unheard + wHand.p
        /\ UNCHANGED <<produced, seen, told, spoiled, ready, rHand>>
    BY <1>3, Zenon DEF PublishDecoded, Carried, RecordLoss, lossVars
  <2>2. PrintsIn(Append(transport, wHand)) = PrintsIn(transport) + wHand.p
    BY PrintsOfAppend DEF Inv, TypeOK
  <2>3. /\ wHand'.p = 0
        /\ \/ /\ wHand.p = 0 /\ lossP' = lossP /\ unheard' = unheard
              /\ PrintsIn(transport') = PrintsIn(transport)
           \/ /\ PrintsIn(transport') = PrintsIn(transport) + wHand.p
              /\ lossP' = lossP /\ unheard' = unheard
           \/ /\ PrintsIn(transport') = PrintsIn(transport)
              /\ lossP' = lossP + wHand.p /\ unheard' = unheard
           \/ /\ PrintsIn(transport') = PrintsIn(transport)
              /\ lossP' = lossP /\ unheard' = unheard + wHand.p
        /\ PrintsIn(ready') = PrintsIn(ready)
        /\ UNCHANGED <<produced, seen, told, spoiled, rHand>>
    BY <1>1, <2>1, <2>2, Zenon DEF AccountTypes
  <2> QED
    BY <1>1, <2>3, SMT DEF AccountTypes, PrintsAddUp
<1>4. CASE DecodeFails
  <2>1. /\ wHand' = NoBatch /\ spoiled' = spoiled + wHand.p
        /\ UNCHANGED <<produced, seen, told, lossP, ready, transport, rHand, unheard>>
    BY <1>4 DEF DecodeFails, lossVars, goneVars
  <2> QED
    BY <1>1, <2>1, SMT DEF AccountTypes, PrintsAddUp
<1>5. CASE WorkerExits
  BY <1>5, AccountFrame
     DEF WorkerExits, poolVars, lossVars, history, goneVars, accountVars
<1> QED
  BY <1>2, <1>3, <1>4, <1>5 DEF WorkerStep

\* A server that ends takes what is on its transport with it.
LEMMA EndServerKeepsAccount ==
    ASSUME Inv, PrintsAddUp, NEW end \in {"done", "ended"}, EndServer(end)
    PROVE  PrintsAddUp'
<1>1. AccountTypes
  BY AccountIsTyped
<1>2. /\ transport' = <<>>
      /\ unheard' = unheard + PrintsIn(transport)
      /\ UNCHANGED <<produced, seen, told, lossP, spoiled, ready, rHand, wHand>>
  BY Zenon DEF EndServer, poolVars, lossVars
<1>3. /\ PrintsIn(transport') = 0 /\ PrintsIn(ready') = PrintsIn(ready)
      /\ unheard' = unheard + PrintsIn(transport)
      /\ UNCHANGED <<produced, seen, told, lossP, spoiled, rHand, wHand>>
  BY <1>2, PrintsOfNothing, Zenon
<1> QED
  BY <1>1, <1>3, SMT DEF AccountTypes, PrintsAddUp

\* A consumer tells what it takes from the transport and from the counter,
\* or loses both with its connection.
LEMMA ConsumerKeepsAccount ==
    ASSUME Inv, PrintsAddUp, ServerStep \/ PrinterStep
    PROVE  PrintsAddUp'
<1>1. AccountTypes
  BY AccountIsTyped
<1>2. CASE \/ Accept \/ StartFlush \/ ReadTimeout
           \/ ClientLeaves \/ Answered \/ Respond \/ RespondFails
           \/ \E on \in BOOLEAN : ReadSubscription(on)
  <2>1. UNCHANGED accountVars
    BY <1>2, Zenon
       DEF Accept, StartFlush, ReadTimeout, ClientLeaves,
           Answered, Respond, RespondFails, ReadSubscription, poolVars,
           lossVars, history, goneVars, accountVars
  <2> QED
    BY <2>1, AccountFrame
<1>3. ASSUME transport # <<>>, transport' = Tail(transport)
      PROVE  \E p, n \in Nat :
                /\ p = Head(transport).p
                /\ n = PrintsIn(transport')
                /\ PrintsIn(transport) = p + n
  BY <1>3, FlushTypes, PrintsOfTail, PrintsAreCounted DEF Inv, TypeOK
<1>4. CASE FlushBatch \/ PrintBatch
  <2>1. /\ transport # <<>> /\ transport' = Tail(transport)
        /\ seen' = seen + Head(transport).p
        /\ told' = told + lossP /\ lossP' = 0
        /\ UNCHANGED <<produced, spoiled, ready, rHand, wHand, unheard>>
    BY <1>4, Zenon DEF FlushBatch, PrintBatch, poolVars, goneVars
  <2>2. PICK p, n \in Nat :
           /\ p = Head(transport).p
           /\ n = PrintsIn(transport')
           /\ PrintsIn(transport) = p + n
    BY <1>3, <2>1
  <2>3. /\ seen' = seen + p /\ told' = told + lossP /\ lossP' = 0
        /\ PrintsIn(ready') = PrintsIn(ready)
        /\ PrintsIn(transport') = n /\ PrintsIn(transport) = p + n
        /\ UNCHANGED <<produced, spoiled, rHand, wHand, unheard>>
    BY <2>1, <2>2, Zenon
  <2> QED
    BY <1>1, <2>3, SMT DEF AccountTypes, PrintsAddUp
<1>5. CASE FlushFails
  <2>1. /\ transport # <<>> /\ transport' = Tail(transport)
        /\ spoiled' = spoiled + Head(transport).p + lossP /\ lossP' = 0
        /\ UNCHANGED <<produced, seen, told, ready, rHand, wHand, unheard>>
    BY <1>5, Zenon DEF FlushFails, poolVars, goneVars
  <2>2. PICK p, n \in Nat :
           /\ p = Head(transport).p
           /\ n = PrintsIn(transport')
           /\ PrintsIn(transport) = p + n
    BY <1>3, <2>1
  <2>3. /\ spoiled' = spoiled + p + lossP /\ lossP' = 0
        /\ PrintsIn(ready') = PrintsIn(ready)
        /\ PrintsIn(transport') = n /\ PrintsIn(transport) = p + n
        /\ UNCHANGED <<produced, seen, told, rHand, wHand, unheard>>
    BY <2>1, <2>2, Zenon
  <2> QED
    BY <1>1, <2>3, SMT DEF AccountTypes, PrintsAddUp
<1>6. CASE FlushEnd \/ FlushEndFails \/ PrintEnd
  <2>1. /\ \/ UNCHANGED <<lossP, told, spoiled>>
           \/ lossP' = 0 /\ told' = told + lossP /\ UNCHANGED spoiled
           \/ lossP' = 0 /\ spoiled' = spoiled + lossP /\ UNCHANGED told
        /\ UNCHANGED <<produced, seen, ready, transport, rHand, wHand, unheard>>
    BY <1>6, Zenon DEF FlushEnd, FlushEndFails, PrintEnd, poolVars, goneVars
  <2> QED
    BY <1>1, <2>1, SMT DEF AccountTypes, PrintsAddUp
<1>7. CASE ServerStops
  BY <1>7, EndServerKeepsAccount DEF ServerStops
<1> QED
  BY <1>2, <1>4, <1>5, <1>6, <1>7 DEF ServerStep, PrinterStep

\* Only a server that has ended leaves a print uncounted.
GoneInv == unheard # 0 => ServerGone

LEMMA GoneInvIsInductive == GoneInv /\ [Next]_vars => GoneInv'
<1> SUFFICES ASSUME GoneInv, [Next]_vars PROVE GoneInv'
  OBVIOUS
<1> USE DEF GoneInv, ServerGone
<1>1. CASE \/ RenderStep \/ TakePacket \/ DecodeFails \/ WorkerExits
           \/ PrintBatch \/ Stop \/ UNCHANGED vars
  <2>1. UNCHANGED <<hpc, unheard>>
    BY <1>1, Zenon
       DEF RenderStep, HandleSubscription, Render, PublishError, PublishEmpty,
           PublishTake, PublishDrop, PublishSend, RenderFailed, NextBlock,
           JoinWorker, TakePacket, DecodeFails, WorkerExits, PrintBatch, Stop,
           vars, consumerVars, history, goneVars
  <2> QED
    BY <2>1
<1>2. CASE PublishDecoded
  <2>1. UNCHANGED hpc /\ (UNCHANGED unheard \/ ServerGone)
    BY <1>2, Zenon DEF PublishDecoded, consumerVars
  <2> QED
    BY <2>1
<1>3. CASE \/ Accept \/ StartFlush \/ FlushBatch \/ FlushFails \/ FlushEnd
           \/ FlushEndFails \/ ReadTimeout \/ ClientLeaves
           \/ (\E on \in BOOLEAN : ReadSubscription(on))
           \/ Answered \/ Respond \/ RespondFails \/ PrintEnd
  <2>1. /\ UNCHANGED unheard
        /\ hpc \in {"accept", "top", "flush", "lastFlush", "read", "print",
                    "subscribing", "unsubscribing"} \cup Answers
    BY <1>3, Zenon
       DEF Accept, StartFlush, FlushBatch, FlushFails, FlushEnd, Flushing,
           FlushEndFails, ReadTimeout, ClientLeaves, ReadSubscription,
           Answered, Respond, RespondFails, PrintEnd, history, goneVars
  <2>2. unheard = 0
    BY <2>1 DEF Answers
  <2> QED
    BY <2>1, <2>2
<1>4. CASE ServerStops \/ AcceptFails
  <2>1. hpc' \in {"done", "ended"}
    BY <1>4, Zenon DEF ServerStops, AcceptFails, EndServer
  <2> QED
    BY <2>1
<1> QED
  BY <1>1, <1>2, <1>3, <1>4 DEF Next, WorkerStep, ServerStep, PrinterStep

\* The loops of the threads leave nothing behind.
LEMMA EmptyInvIsInductive == EmptyInv /\ [Next]_vars => EmptyInv'
<1> SUFFICES ASSUME EmptyInv, [Next]_vars PROVE EmptyInv'
  OBVIOUS
<1> USE DEF EmptyInv, poolVars, lossVars, renderVars, consumerVars, history
<1>1. CASE HandleSubscription
  <2>1. UNCHANGED <<rpc, rHand, wpc, ready, wHand, hpc, transport, lossP>>
    BY <1>1, Zenon DEF HandleSubscription
  <2> QED
    BY <2>1
<1>2. ASSUME NEW d \in 0 .. 1, NEW p \in 0 .. 1, Render(d, p)
      PROVE  EmptyInv'
  BY <1>2 DEF Render
<1>3. CASE PublishError \/ PublishEmpty \/ PublishTake
  BY <1>3 DEF PublishError, PublishEmpty, PublishTake
<1>4. CASE PublishDrop
  <2>1. /\ rpc = "publish" /\ rpc' = "rendered" /\ rHand' = NoBatch
        /\ UNCHANGED <<wpc, ready, wHand, hpc, transport>>
    BY <1>4, Zenon DEF PublishDrop
  <2> QED
    BY <2>1
<1>5. CASE PublishSend
  <2>1. /\ rpc = "send" /\ rpc' \in {"rendered", "join"} /\ rHand' = NoBatch
        /\ UNCHANGED <<wpc, wHand, hpc, transport>>
    BY <1>5, Zenon DEF PublishSend
  <2> QED
    BY <2>1
<1>6. CASE RenderFailed \/ NextBlock \/ JoinWorker
  <2>1. /\ \/ rpc \in {"commands", "rendered"} /\ rpc' = "join"
           \/ rpc \in {"commands", "rendered"} /\ rpc' = "commands"
           \/ rpc = "join" /\ rpc' = "exited" /\ wpc = "exited"
        /\ UNCHANGED <<rHand, wpc, ready, wHand, hpc, transport, lossP>>
    BY <1>6, Zenon DEF RenderFailed, NextBlock, JoinWorker
  <2> QED
    BY <2>1
<1>7. CASE TakePacket
  BY <1>7 DEF TakePacket
<1>8. CASE PublishDecoded
  <2>1. /\ wHand # NoBatch
        /\ UNCHANGED <<rpc, rHand, wpc, hpc>>
    BY <1>8, Zenon DEF PublishDecoded
  <2> QED
    BY <2>1
<1>9. CASE DecodeFails \/ WorkerExits
  BY <1>9 DEF DecodeFails, WorkerExits
<1>10. CASE ServerStep \/ AcceptFails
  <2>1. /\ hpc' # "printed"
        /\ UNCHANGED <<rpc, rHand, wpc, ready, wHand>>
    BY <1>10, Zenon
       DEF ServerStep, Accept, ServerStops, AcceptFails, EndServer,
           StartFlush, FlushBatch, Flushing, FlushFails, FlushEnd,
           FlushEndFails, ReadTimeout, ClientLeaves, ReadSubscription,
           Answered, Respond, RespondFails
  <2> QED
    BY <2>1
<1>11. CASE PrintBatch
  BY <1>11 DEF PrintBatch
<1>12. CASE PrintEnd
  BY <1>12 DEF PrintEnd
<1>13. CASE Stop \/ UNCHANGED vars
  BY <1>13 DEF Stop, vars
<1> QED
  BY <1>1, <1>2, <1>3, <1>4, <1>5, <1>6, <1>7, <1>8, <1>9, <1>10, <1>11,
     <1>12, <1>13 DEF Next, RenderStep, WorkerStep, PrinterStep

(***************************************************************************)
(* The overflow counters of output_worker.rs against the swaps of its      *)
(* consumers: no print disappears and none is counted twice, for every     *)
(* size of the pool and of the transport, except for those publish_decoded *)
(* has no control server for any more; and spawn_run_print_stdout returns  *)
(* only when each print was written, reported or lost to an error.         *)
(***************************************************************************)
THEOREM PrintsAreNotLost == Spec => []NoPrintIsForgotten
<1> DEFINE Account == PrintsAddUp /\ GoneInv /\ EmptyInv
<1>1. Init => Account
  <2> SUFFICES ASSUME Init PROVE Account
    OBVIOUS
  <2>1. EmptyInv /\ GoneInv
    BY DEF Init, EmptyInv, GoneInv
  <2>2. PrintsIn(transport) = Len(transport)
    <3>1. CASE transport = <<>>
      BY <3>1, PrintsOfNothing, SMT
    <3>2. CASE transport = <<StartupPrint>>
      <4>1. StartupPrint \in Batches /\ StartupPrint.p = 1
        BY OutputWorkerAssumption, SMT DEF StartupPrint, Batches
      <4>2. <<>> \in Seq(Batches) /\ Append(<<>>, StartupPrint) = transport
        BY <3>2, <4>1, SMT
      <4>3. PrintsIn(transport) = 0 + 1
        BY <4>1, <4>2, PrintsOfNothing, PrintsOfAppend
      <4> QED
        BY <3>2, <4>3, SMT
    <3> QED
      BY <3>1, <3>2 DEF Init
  <2>3. Len(transport) \in Nat /\ PrintsIn(ready) = 0
    BY InitInv, PrintsOfNothing, SMT DEF Init, Inv, TypeOK
  <2>4. /\ produced = PrintsIn(transport) /\ PrintsIn(transport) \in Nat
        /\ seen = 0 /\ told = 0 /\ lossP = 0 /\ spoiled = 0
        /\ unheard = 0
        /\ rHand.p = 0 /\ wHand.p = 0
    BY <2>2, <2>3 DEF Init, NoBatch
  <2>5. PrintsAddUp
    BY <2>3, <2>4, SMT DEF PrintsAddUp
  <2> QED
    BY <2>1, <2>5
<1>2. Inv /\ Account /\ [Next]_vars => Account'
  <2> SUFFICES ASSUME Inv, Account, [Next]_vars PROVE PrintsAddUp'
    BY EmptyInvIsInductive, GoneInvIsInductive
  <2>1. CASE Stop \/ UNCHANGED vars
    BY <2>1, AccountFrame
       DEF Stop, vars, poolVars, lossVars, history, goneVars, accountVars
  <2>2. CASE AcceptFails
    BY <2>2, EndServerKeepsAccount DEF AcceptFails
  <2> QED
    BY <2>1, <2>2, RenderKeepsAccount, WorkerKeepsAccount,
       ConsumerKeepsAccount DEF Next
<1>3. Inv /\ Account => NoPrintIsForgotten
  <2> SUFFICES ASSUME Inv, Account, hpc = "printed"
               PROVE  produced = seen + told + spoiled
    BY DEF NoPrintIsForgotten, PrinterMissesNothing, PrintsAreAccountedFor,
           GoneInv
  <2>0. unheard = 0
    BY DEF GoneInv, ServerGone
  <2>1. /\ ready = <<>> /\ transport = <<>> /\ lossP = 0
        /\ rHand = NoBatch /\ wHand = NoBatch
    BY DEF EmptyInv
  <2>2. /\ PrintsIn(ready) = 0 /\ PrintsIn(transport) = 0
        /\ rHand.p = 0 /\ wHand.p = 0
    BY <2>1, PrintsOfNothing DEF NoBatch
  <2> QED
    BY <2>0, <2>1, <2>2, AccountIsTyped, SMT
       DEF AccountTypes, PrintsAddUp
<1> QED
  BY <1>1, <1>2, <1>3, InvariantHolds, PTL DEF Spec
=============================================================================
