---------------------------- MODULE OutputWorker ----------------------------
(***************************************************************************)
(* How the delegates and prints of a running program leave the render      *)
(* thread: a fixed pool of packets, the output worker that decodes them, a *)
(* bounded transport, and at its end either the control server, which      *)
(* serves one client at a time (ControlJson), or the thread that prints to *)
(* standard output.  A full pool or a full transport drops a batch and     *)
(* counts what it held.                                                    *)
(*                                                                         *)
(* A batch is what one block produced: d delegate occurrences and p        *)
(* prints, and the delegate subscription it was collected under (0: none). *)
(* The overflow counters of a batch take the path of its drop counters and *)
(* are not told apart from them; record contents and their text are left   *)
(* out.                                                                    *)
(***************************************************************************)
EXTENDS Integers, Sequences, FiniteSets

CONSTANTS
    ControlJson,  \* launch.control_json
    PacketCount,  \* PACKET_COUNT
    Transport,    \* DELEGATE_NOTIFICATION_CAPACITY, PRINT_...
    MaxRecords,   \* bound of the delegates and prints of a behaviour
    MaxClients    \* bound of the control clients in a behaviour

ASSUME OutputWorkerAssumption ==
    /\ ControlJson \in BOOLEAN
    /\ PacketCount \in Nat \ {0}
    /\ Transport \in Nat \ {0}
    /\ MaxRecords \in Nat
    /\ MaxClients \in Nat

VARIABLES
    free,       \* packets in the free pool
    ready,      \* packets on their way to the worker
    rHand,      \* the packet the render thread is sending, or NoBatch
    wHand,      \* the packet the worker is decoding, or NoBatch
    transport,  \* decoded batches on their way to the consumer
    lossD,      \* dropped_delegates
    lossP,      \* dropped_prints, or dropped_occurrences of standard output
    error,      \* the worker failed to decode a packet
    rpc, rSub,  \* render thread: place, delegate_subscription_id
    wpc,        \* worker: "run" or "exited"
    control,    \* SetDelegateCollection commands: [enabled, sub]
    hpc,        \* consumer: where the control server or printer is; the
                \* printer ends in "printed", the server in "done", or in
                \* "ended" when a client was connected at the stop
    client,     \* subscription id of the present or last client
    enabled,    \* delegate_subscription.enabled of its handler
    wrote,      \* wrote_batch and ...
    matched,    \* ... wrote_matching_delegate_batch of the present flush
    stopping,   \* stop_flag
    records,    \* history: delegates and prints produced
    produced,   \* history: prints produced
    seen,       \* history: prints the consumer received
    told,       \* history: prints reported to it as dropped
    spoiled,    \* history: prints lost to a decode or socket error
    unheard,    \* history: prints nobody counts, the server having ended
    orphans     \* history: clients that were not told they are subscribed

poolVars == <<free, ready, rHand, wHand>>
lossVars == <<lossD, lossP>>
renderVars == <<rpc, rSub>>
consumerVars == <<hpc, client, enabled, wrote, matched>>
goneVars == <<unheard, orphans>>
history == <<records, produced, seen, told, spoiled, goneVars>>
vars == <<poolVars, transport, lossVars, error, renderVars, wpc, control,
          consumerVars, stopping, history>>

Batches == [sub : 0 .. MaxClients, d : 0 .. 1, p : 0 .. 1]
NoBatch == [sub |-> 0, d |-> 0, p |-> 0]
\* Constructing the instance may print; publish_run_output_batch puts that
\* on the transport before there is a worker.
StartupPrint == [sub |-> 0, d |-> 0, p |-> 1]

Commands == [enabled : BOOLEAN, sub : 1 .. MaxClients]

Init == /\ free = PacketCount /\ ready = <<>>
        /\ rHand = NoBatch /\ wHand = NoBatch
        /\ transport \in {<<>>, <<StartupPrint>>}
        /\ lossD = 0 /\ lossP = 0 /\ error = FALSE
        /\ rpc = "commands" /\ rSub = 0 /\ wpc = "run" /\ control = <<>>
        /\ hpc = (IF ControlJson THEN "accept" ELSE "print")
        /\ client = 0 /\ enabled = FALSE /\ wrote = FALSE /\ matched = FALSE
        /\ stopping = FALSE
        /\ records = 0 /\ produced = Len(transport)
        /\ seen = 0 /\ told = 0 /\ spoiled = 0
        /\ unheard = 0 /\ orphans = {}

PrintsIn(s) == Cardinality({i \in DOMAIN s : s[i].p = 1})

\* record_transport_loss, for delegates (when there is a control server
\* to tell) and for prints.
RecordLoss(b) == /\ lossD' = IF ControlJson THEN lossD + b.d ELSE lossD
                 /\ lossP' = lossP + b.p
-----------------------------------------------------------------------------
(* The render thread.                                                      *)

\* SetDelegateCollection: a disable of another subscription is stale.
HandleSubscription ==
    LET c == Head(control)
        stale == ~c.enabled /\ rSub # c.sub
    IN  /\ rpc = "commands"
        /\ control # <<>>
        /\ control' = Tail(control)
        /\ IF stale
           THEN UNCHANGED <<rSub, lossD>>
           ELSE /\ rSub' = IF c.enabled THEN c.sub ELSE 0
                /\ lossD' = 0
        /\ UNCHANGED <<poolVars, transport, lossP, error, rpc, wpc,
                       consumerVars, stopping, history>>

\* The channel is found empty and a block runs; its delegates are collected
\* for a subscriber only.
Render(d, p) ==
    /\ rpc = "commands"
    /\ control = <<>>
    /\ records + d + p <= MaxRecords
    /\ d = 1 => rSub # 0
    /\ records' = records + d + p
    /\ produced' = produced + p
    /\ rHand' = [sub |-> rSub, d |-> d, p |-> p]
    /\ rpc' = "publish"
    /\ UNCHANGED <<free, ready, wHand, transport, lossVars, error, rSub, wpc,
                   control, consumerVars, stopping, seen, told, spoiled,
                   goneVars>>

\* OutputWorker::publish finds the worker's error: the run stops.
PublishError == /\ rpc = "publish"
                /\ error
                /\ rHand' = NoBatch
                /\ spoiled' = spoiled + rHand.p
                /\ stopping' = TRUE
                /\ rpc' = "join"
                /\ UNCHANGED <<free, ready, wHand, transport, lossVars, error,
                               rSub, wpc, control, consumerVars, records,
                               produced, seen, told, goneVars>>

\* A block without output publishes nothing.
PublishEmpty == /\ rpc = "publish"
                /\ ~error
                /\ rHand = NoBatch
                /\ rpc' = "rendered"
                /\ UNCHANGED <<poolVars, transport, lossVars, error, rSub, wpc,
                               control, consumerVars, stopping, history>>

\* It takes a packet from the pool ...
PublishTake == /\ rpc = "publish"
               /\ ~error
               /\ rHand # NoBatch
               /\ free > 0
               /\ free' = free - 1
               /\ rpc' = "send"
               /\ UNCHANGED <<ready, rHand, wHand, transport, lossVars, error,
                              rSub, wpc, control, consumerVars, stopping,
                              history>>

\* ... or, when there is none, counts the loss and discards.
PublishDrop == /\ rpc = "publish"
               /\ ~error
               /\ rHand # NoBatch
               /\ free = 0
               /\ RecordLoss(rHand)
               /\ rHand' = NoBatch
               /\ rpc' = "rendered"
               /\ UNCHANGED <<free, ready, wHand, transport, error, rSub, wpc,
                              control, consumerVars, stopping, records,
                              produced, seen, told, spoiled, goneVars>>

\* try_send of the packet; "a packet removed from the free pool always
\* leaves room in the ready queue", so a full queue would stop the run.
PublishSend == /\ rpc = "send"
               /\ IF Len(ready) < PacketCount
                  THEN /\ ready' = Append(ready, rHand)
                       /\ rpc' = "rendered"
                       /\ UNCHANGED <<stopping, spoiled>>
                  ELSE /\ stopping' = TRUE
                       /\ rpc' = "join"
                       /\ spoiled' = spoiled + rHand.p
                       /\ UNCHANGED ready
               /\ rHand' = NoBatch
               /\ UNCHANGED <<free, wHand, transport, lossVars, error, rSub,
                              wpc, control, consumerVars, records, produced,
                              seen, told, goneVars>>

\* The block failed to execute: its output was published, the run stops.
RenderFailed == /\ rpc = "rendered"
                /\ stopping' = TRUE
                /\ rpc' = "join"
                /\ UNCHANGED <<poolVars, transport, lossVars, error, rSub, wpc,
                               control, consumerVars, history>>

\* The head of the loop; the thread that leaves it drops its ends of the
\* channels and joins the worker.
NextBlock == /\ rpc = "rendered" \/ (rpc = "commands" /\ control = <<>>)
             /\ IF stopping THEN rpc' = "join" ELSE rpc' = "commands"
             /\ UNCHANGED <<poolVars, transport, lossVars, error, rSub, wpc,
                            control, consumerVars, stopping, history>>

JoinWorker == /\ rpc = "join"
              /\ wpc = "exited"
              /\ rpc' = "exited"
              /\ UNCHANGED <<poolVars, transport, lossVars, error, rSub, wpc,
                             control, consumerVars, stopping, history>>

RenderStep == \/ HandleSubscription
              \/ \E d, p \in 0 .. 1 : Render(d, p)
              \/ PublishError \/ PublishEmpty \/ PublishTake
              \/ PublishDrop \/ PublishSend
              \/ RenderFailed \/ NextBlock \/ JoinWorker
-----------------------------------------------------------------------------
(* The output worker.                                                      *)

TakePacket == /\ wpc = "run"
              /\ wHand = NoBatch
              /\ ready # <<>>
              /\ wHand' = Head(ready)
              /\ ready' = Tail(ready)
              /\ UNCHANGED <<free, rHand, transport, lossVars, error,
                             renderVars, wpc, control, consumerVars, stopping,
                             history>>

\* publish_decoded: without a control server only prints are transported.
Carried(b) == ControlJson \/ b.p # 0

\* Wrong variant: a full transport drops without counting.
PublishDecodedSilently ==
    /\ wHand # NoBatch
    /\ transport' = IF Carried(wHand) /\ Len(transport) < Transport
                    THEN Append(transport, wHand) ELSE transport
    /\ wHand' = NoBatch
    /\ free' = free + 1
    /\ UNCHANGED <<ready, rHand, lossVars, error, renderVars, wpc, control,
                   consumerVars, stopping, records, produced, seen, told,
                   spoiled, goneVars>>

\* The receiver is gone with the thread of the control server.
ServerGone == hpc \in {"done", "ended"}

\* Only a full transport is counted as a loss, not one without a receiver.
PublishDecoded ==
    /\ wHand # NoBatch
    /\ \/ /\ ~Carried(wHand)
          /\ UNCHANGED <<transport, lossVars, unheard>>
       \/ /\ Carried(wHand) /\ ServerGone
          /\ unheard' = unheard + wHand.p
          /\ UNCHANGED <<transport, lossVars>>
       \/ /\ Carried(wHand) /\ ~ServerGone /\ Len(transport) < Transport
          /\ transport' = Append(transport, wHand)
          /\ UNCHANGED <<lossVars, unheard>>
       \/ /\ Carried(wHand) /\ ~ServerGone /\ Len(transport) >= Transport
          /\ RecordLoss(wHand)
          /\ UNCHANGED <<transport, unheard>>
    /\ wHand' = NoBatch
    /\ free' = free + 1
    /\ UNCHANGED <<ready, rHand, error, renderVars, wpc, control, consumerVars,
                   stopping, records, produced, seen, told, spoiled, orphans>>

\* Wrong variant: the error path keeps the packet.
DecodeFailsLeaks ==
    /\ wHand # NoBatch
    /\ error' = TRUE
    /\ spoiled' = spoiled + wHand.p
    /\ wHand' = NoBatch
    /\ UNCHANGED <<free, ready, rHand, transport, lossVars, renderVars, wpc,
                   control, consumerVars, stopping, records, produced, seen,
                   told, goneVars>>

DecodeFails == /\ wHand # NoBatch
               /\ error' = TRUE
               /\ spoiled' = spoiled + wHand.p
               /\ wHand' = NoBatch
               /\ free' = free + 1
               /\ UNCHANGED <<ready, rHand, transport, lossVars, renderVars,
                              wpc, control, consumerVars, stopping, records,
                              produced, seen, told, goneVars>>

\* Wrong variants: the worker leaves packets in its queue, ...
WorkerExitsEarly ==
    /\ wpc = "run"
    /\ wHand = NoBatch
    /\ rpc = "join"
    /\ wpc' = "exited"
    /\ UNCHANGED <<poolVars, transport, lossVars, error, renderVars, control,
                   consumerVars, stopping, history>>

\* ... or it is joined before the queue's sender is dropped.
WorkerExitsLate ==
    /\ wpc = "run"
    /\ wHand = NoBatch /\ ready = <<>>
    /\ rpc = "exited"
    /\ wpc' = "exited"
    /\ UNCHANGED <<poolVars, transport, lossVars, error, renderVars, control,
                   consumerVars, stopping, history>>

WorkerExits == /\ wpc = "run"
               /\ wHand = NoBatch /\ ready = <<>>
               /\ rpc = "join"
               /\ wpc' = "exited"
               /\ UNCHANGED <<poolVars, transport, lossVars, error, renderVars,
                              control, consumerVars, stopping, history>>

WorkerStep == TakePacket \/ PublishDecoded \/ DecodeFails \/ WorkerExits
-----------------------------------------------------------------------------
(* The control server: spawn_run_control_server and the part of            *)
(* handle_run_control_client that concerns output.                         *)

Accept == /\ hpc = "accept"
          /\ ~stopping
          /\ client < MaxClients
          /\ client' = client + 1
          /\ enabled' = FALSE
          /\ hpc' = "top"
          /\ UNCHANGED <<poolVars, transport, lossVars, error, renderVars, wpc,
                         control, wrote, matched, stopping, records, produced,
                         seen, told, spoiled, goneVars>>

\* The thread ends, and with it the receiver and what it still holds.
EndServer(end) ==
    /\ hpc' = end
    /\ transport' = <<>>
    /\ unheard' = unheard + PrintsIn(transport)
    /\ UNCHANGED <<poolVars, lossVars, error, renderVars, wpc, control, client,
                   enabled, wrote, matched, stopping, records, produced, seen,
                   told, spoiled, orphans>>

ServerStops == \/ hpc = "accept" /\ stopping /\ EndServer("done")
               \/ hpc = "flushed" /\ EndServer("ended")

\* listener.accept fails: the thread ends although the run goes on.
AcceptFails == hpc = "accept" /\ ~stopping /\ EndServer("done")

\* The head of the handler's loop; a last flush follows the stop.
StartFlush == /\ hpc = "top"
              /\ hpc' = IF stopping THEN "lastFlush" ELSE "flush"
              /\ UNCHANGED <<poolVars, transport, lossVars, error, renderVars,
                             wpc, control, client, enabled, wrote, matched,
                             stopping, history>>

Flushing == hpc \in {"flush", "lastFlush"}

\* Its locals end with the call.
FlushReturns == wrote' = FALSE /\ matched' = FALSE

\* write_pending_output_batches: one batch, with the counters so far.
FlushBatch ==
    LET b == Head(transport)
        match == enabled /\ b.sub = client
    IN  /\ Flushing
        /\ transport # <<>>
        /\ transport' = Tail(transport)
        /\ wrote' = TRUE
        /\ matched' = (matched \/ match)
        /\ seen' = seen + b.p
        /\ told' = told + lossP
        /\ lossP' = 0
        /\ IF match
           THEN lossD' = 0 ELSE UNCHANGED lossD
        /\ UNCHANGED <<poolVars, error, renderVars, wpc, control, hpc, client,
                       enabled, stopping, records, produced, spoiled,
                       goneVars>>

\* Wrong variant: a client that goes away leaves its subscription behind.
DropGuardForgotten(held) == UNCHANGED control

\* The guard's drop: a client that goes away is disabled if the guard knows
\* that it is subscribed (held).  A send to a render thread that has exited
\* goes nowhere.
DropGuard(held) ==
    control' = IF held /\ rpc # "exited"
               THEN Append(control, [enabled |-> FALSE, sub |-> client])
               ELSE control

\* The socket is broken: the batch and the counters taken are gone.
FlushFails == LET b == Head(transport)
                  match == enabled /\ b.sub = client
              IN  /\ Flushing
                  /\ transport # <<>>
                  /\ b.p + lossP > 0 \/ (match /\ b.d + lossD > 0)
                  /\ transport' = Tail(transport)
                  /\ spoiled' = spoiled + b.p + lossP
                  /\ lossP' = 0
                  /\ lossD' = IF match THEN 0 ELSE lossD
                  /\ DropGuard(enabled)
                  /\ enabled' = FALSE
                  /\ hpc' = "accept"
                  /\ FlushReturns
                  /\ UNCHANGED <<poolVars, error, renderVars, wpc, client,
                                 stopping, records, produced, seen, told,
                                 goneVars>>

\* Wrong variant: a count is only ever reported with a batch.
FlushEndForgets ==
    /\ Flushing
    /\ transport = <<>>
    /\ hpc' = IF hpc = "flush" THEN "read" ELSE "flushed"
    /\ enabled' = IF hpc = "flush" THEN enabled ELSE FALSE
    /\ IF hpc = "flush" THEN UNCHANGED control ELSE DropGuard(enabled)
    /\ FlushReturns
    /\ UNCHANGED <<poolVars, transport, lossVars, error, renderVars, wpc,
                   client, stopping, history>>

\* No batch is left: the counters that no batch carried.
FlushEnd == /\ Flushing
            /\ transport = <<>>
            /\ IF enabled /\ ~matched
               THEN lossD' = 0 ELSE UNCHANGED lossD
            /\ IF ~wrote
               THEN lossP' = 0 /\ told' = told + lossP
               ELSE UNCHANGED <<lossP, told>>
            /\ hpc' = IF hpc = "flush" THEN "read" ELSE "flushed"
            /\ enabled' = IF hpc = "flush" THEN enabled ELSE FALSE
            /\ IF hpc = "flush" THEN UNCHANGED control ELSE DropGuard(enabled)
            /\ FlushReturns
            /\ UNCHANGED <<poolVars, transport, error, renderVars, wpc, client,
                           stopping, records, produced, seen, spoiled,
                           goneVars>>

\* The socket is broken when one of these two notifications is written.
FlushEndFails ==
    LET delegates == enabled /\ ~matched
    IN  /\ Flushing
        /\ transport = <<>>
        /\ \/ /\ delegates /\ lossD > 0
              /\ UNCHANGED <<lossP, spoiled>>
           \/ /\ ~wrote /\ lossP > 0
              /\ lossP' = 0 /\ spoiled' = spoiled + lossP
        /\ lossD' = IF delegates THEN 0 ELSE lossD
        /\ DropGuard(enabled)
        /\ enabled' = FALSE
        /\ hpc' = "accept"
        /\ FlushReturns
        /\ UNCHANGED <<poolVars, transport, error, renderVars, wpc, client,
                       stopping, records, produced, seen, told, goneVars>>

ReadTimeout == /\ hpc = "read"
               /\ hpc' = "top"
               /\ UNCHANGED <<poolVars, transport, lossVars, error, renderVars,
                              wpc, control, client, enabled, wrote, matched,
                              stopping, history>>

ClientLeaves == /\ hpc = "read"
                /\ DropGuard(enabled)
                /\ enabled' = FALSE
                /\ hpc' = "accept"
                /\ UNCHANGED <<poolVars, transport, lossVars, error,
                               renderVars, wpc, client, wrote, matched,
                               stopping, history>>

\* subscribeDelegates and unsubscribeDelegates, sent with an id, wait for the
\* render thread, which answers a command when it takes it from the channel.
ReadSubscription(on) ==
    /\ hpc = "read"
    /\ hpc' = IF rpc = "exited" THEN "refused"
              ELSE IF on THEN "subscribing" ELSE "unsubscribing"
    /\ control' = IF rpc = "exited" THEN control
                  ELSE Append(control, [enabled |-> on, sub |-> client])
    /\ UNCHANGED <<poolVars, transport, lossVars, error, renderVars, wpc,
                   client, enabled, wrote, matched, stopping, history>>

\* Wrong variant: the client is answered before the command is handled.
AnsweredAtOnce ==
    /\ hpc \in {"subscribing", "unsubscribing"}
    /\ hpc' = IF hpc = "subscribing" THEN "subscribed" ELSE "unsubscribed"
    /\ UNCHANGED <<poolVars, transport, lossVars, error, renderVars, wpc,
                   control, client, enabled, wrote, matched, stopping,
                   history>>

\* The command was answered, or dropped with the channel (an error).
Answered == /\ hpc \in {"subscribing", "unsubscribing"}
            /\ \/ /\ control = <<>>
                  /\ hpc' = IF hpc = "subscribing"
                            THEN "subscribed" ELSE "unsubscribed"
                  /\ UNCHANGED control
               \/ /\ control # <<>> /\ rpc = "exited"
                  /\ control' = <<>>
                  /\ hpc' = "refused"
            /\ UNCHANGED <<poolVars, transport, lossVars, error, renderVars,
                           wpc, client, enabled, wrote, matched, stopping,
                           history>>

Answers == {"subscribed", "unsubscribed", "refused"}

\* delegate_subscription.enabled once the answer has been looked at.
EnabledByAnswer == IF hpc = "refused" THEN enabled ELSE hpc = "subscribed"

\* Replies to earlier binds are written before the guard learns the answer,
\* the response afterwards.
Respond == /\ hpc \in Answers
           /\ enabled' = EnabledByAnswer
           /\ hpc' = "top"
           /\ UNCHANGED <<poolVars, transport, lossVars, error, renderVars,
                          wpc, control, client, wrote, matched, stopping,
                          history>>

\* The socket is broken at one of them, and the guard drops as it is: after
\* write_buffer_replies it does not know of a new subscription.
RespondFails ==
    /\ hpc \in Answers
    /\ \/ /\ DropGuard(enabled)
          /\ orphans' = IF hpc = "subscribed" /\ ~enabled
                        THEN orphans \cup {client} ELSE orphans
       \/ /\ DropGuard(EnabledByAnswer)
          /\ UNCHANGED orphans
    /\ enabled' = FALSE
    /\ hpc' = "accept"
    /\ UNCHANGED <<poolVars, transport, lossVars, error, renderVars, wpc,
                   client, wrote, matched, stopping, records, produced, seen,
                   told, spoiled, unheard>>

ServerStep == \/ Accept \/ ServerStops \/ StartFlush \/ FlushBatch
              \/ FlushFails \/ FlushEnd \/ FlushEndFails
              \/ ReadTimeout \/ ClientLeaves
              \/ \E on \in BOOLEAN : ReadSubscription(on)
              \/ Answered \/ Respond \/ RespondFails
-----------------------------------------------------------------------------
(* spawn_run_print_stdout: the printer of a run without a control server.  *)

PrintBatch == /\ hpc = "print"
              /\ transport # <<>>
              /\ transport' = Tail(transport)
              /\ seen' = seen + Head(transport).p
              /\ told' = told + lossP
              /\ lossP' = 0
              /\ UNCHANGED <<poolVars, lossD, error, renderVars, wpc, control,
                             consumerVars, stopping, records, produced,
                             spoiled, goneVars>>

\* Every sender is gone: the last counters, then the end.
PrintEnd == /\ hpc = "print"
            /\ transport = <<>>
            /\ rpc = "exited"
            /\ told' = told + lossP
            /\ lossP' = 0
            /\ hpc' = "printed"
            /\ UNCHANGED <<poolVars, transport, lossD, error, renderVars, wpc,
                           control, client, enabled, wrote, matched, stopping,
                           records, produced, seen, spoiled, goneVars>>

PrinterStep == PrintBatch \/ PrintEnd
-----------------------------------------------------------------------------
\* The main thread: the duration is over, a signal or an audio error.
Stop == /\ ~stopping
        /\ stopping' = TRUE
        /\ UNCHANGED <<poolVars, transport, lossVars, error, renderVars, wpc,
                       control, consumerVars, history>>

Terminated == rpc = "exited" /\ hpc \in {"done", "ended", "printed"}

Next == \/ RenderStep \/ WorkerStep \/ ServerStep \/ PrinterStep
        \/ AcceptFails \/ Stop
        \/ (Terminated /\ UNCHANGED vars)

\* Every thread is scheduled.
Fairness == /\ WF_vars(RenderStep)
            /\ WF_vars(WorkerStep)
            /\ WF_vars(ServerStep)
            /\ WF_vars(PrinterStep)

Spec == Init /\ [][Next]_vars /\ Fairness
-----------------------------------------------------------------------------
TypeOK ==
    /\ free \in Nat
    /\ ready \in Seq(Batches) /\ transport \in Seq(Batches)
    /\ rHand \in Batches /\ wHand \in Batches
    /\ Len(transport) <= Transport
    /\ lossD \in Nat /\ lossP \in Nat
    /\ {error, stopping, enabled, wrote, matched} \subseteq BOOLEAN
    /\ rpc \in {"commands", "publish", "send", "rendered", "join", "exited"}
    /\ rSub \in 0 .. MaxClients /\ client \in 0 .. MaxClients
    /\ wpc \in {"run", "exited"}
    /\ control \in Seq(Commands)
    /\ hpc \in {"accept", "top", "flush", "lastFlush", "read", "subscribing",
                "unsubscribing", "print", "done", "flushed", "ended",
                "printed"} \cup Answers
    /\ {records, produced, seen, told, spoiled, unheard} \subseteq Nat
    /\ orphans \subseteq 1 .. MaxClients

(***************************************************************************)
(* "Exactly PACKET_COUNT packets exist in total", wherever they are: in    *)
(* the pool, in the ready queue, or in the hands of one of the threads.    *)
(***************************************************************************)
PacketsAreConserved ==
    free + Len(ready) + (IF rpc = "send" THEN 1 ELSE 0)
         + (IF wHand # NoBatch THEN 1 ELSE 0) = PacketCount

(***************************************************************************)
(* "Saturation drops output with explicit occurrence counters": at every   *)
(* moment each print that was produced is delivered, reported as dropped,  *)
(* counted as dropped, on its way, or lost to an error that ends the run   *)
(* or the connection.  No race of a swap with an increment loses one, and  *)
(* none is counted twice.  What is on the transport when the thread of the *)
(* control server ends, or comes there afterwards, is the one loss that    *)
(* nothing counts.                                                         *)
(***************************************************************************)
PrintsAddUp ==
    produced = seen + told + lossP + spoiled + unheard
                 + PrintsIn(ready) + PrintsIn(transport) + rHand.p + wHand.p

PrintsAreAccountedFor == PrintsAddUp /\ (unheard # 0 => ServerGone)

\* The printer outlives the worker, which empties its queue before it exits.
PrinterMissesNothing == hpc = "printed" => produced = seen + told + spoiled

(***************************************************************************)
(* With either consumer each print is at every moment delivered, reported  *)
(* or counted as dropped, on its way, or lost to an error; while a control *)
(* server runs there is no other loss, and a run without one ends with     *)
(* every print on standard output or reported as dropped.                  *)
(***************************************************************************)
NoPrintIsForgotten == PrintsAreAccountedFor /\ PrinterMissesNothing

\* A client that was told it is subscribed is the one delegates are
\* collected for, whatever clients left before it: their unsubscription is
\* handled before the answer is given.
SubscriberIsServed ==
    enabled /\ hpc \notin {"unsubscribing", "unsubscribed"} => rSub = client

\* Collection is not left on for nobody: the render thread collects for a
\* subscribed or subscribing client, a command that ends the collection is
\* on its way, or (orphans) the connection of a new subscriber broke after
\* the render thread had answered and before the handler's guard knew.
CollectionHasAnOwner ==
    rSub # 0 /\ rpc # "exited" =>
        \/ rSub = client /\ (enabled \/ hpc \in {"subscribing", "subscribed"})
        \/ \E i \in DOMAIN control : control[i] = [enabled |-> FALSE, sub |-> rSub]
        \/ rSub \in orphans

(***************************************************************************)
(* The render thread's subscription follows that of the handler, through   *)
(* answers, drop guards and clients that come and go: a subscriber is      *)
(* collected for, and nobody else is for longer than a command's way,      *)
(* except a client that never learned of its subscription (orphans).       *)
(***************************************************************************)
CollectionFollowsTheClient == SubscriberIsServed /\ CollectionHasAnOwner

(***************************************************************************)
(* The name of a test of the guard: "delegate_collection_is_disabled_until *)
(* _explicitly_subscribed".  For a client that has no subscription and     *)
(* waits for no answer, with no command on its way, nothing is collected.  *)
(***************************************************************************)
CollectionIsDisabledUntilSubscribed ==
    hpc = "read" /\ ~enabled /\ control = <<>> /\ rpc # "exited" => rSub = 0

(***************************************************************************)
(* The comment at the handler's last flush: "Flush once after the stop     *)
(* transition so a connected control consumer sees terminal output".  When *)
(* the run has ended with a client connected, no batch came after the last *)
(* flush and nothing is left in the counters.                              *)
(***************************************************************************)
TerminalOutputIsSeen ==
    rpc = "exited" /\ hpc = "ended" => unheard = 0 /\ lossP = 0

(***************************************************************************)
(* Stopping ends every thread: the render thread gets its worker back, the *)
(* server is not left waiting for the answer to a subscription.            *)
(***************************************************************************)
StopEndsThreads == stopping ~> Terminated

(***************************************************************************)
(* A loss is not kept from a connected client for ever: it is told, even   *)
(* when no later batch comes that could carry the count.                   *)
(***************************************************************************)
LossesAreReported ==
    lossP > 0 ~> (lossP = 0 \/ hpc \in {"accept", "done", "flushed", "ended"})
=============================================================================
