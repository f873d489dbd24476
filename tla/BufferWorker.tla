---------------------------- MODULE BufferWorker ----------------------------
(***************************************************************************)
(* Binding and clearing sample buffers of a running program: the handler   *)
(* of the control client, the render thread that commits at block          *)
(* boundaries, and the one loader thread that decodes files and frees what *)
(* was replaced.  Four channels join them: the control channel, the        *)
(* bounded request queue, the completion slot and the reclaim channel; the *)
(* answer to a command travels on a one-shot channel of its own.           *)
(*                                                                         *)
(* A command is the number of its place in the client's input.  The        *)
(* storage a bind loads is named by the command too, 0 being no storage.   *)
(* What the render loop does besides (audio, MIDI, parameters) is in other *)
(* modules; a client that goes away is replaced by the next one, whose     *)
(* handler starts with nothing pending.                                    *)
(***************************************************************************)
EXTENDS Integers, Sequences, FiniteSets

CONSTANTS
    Buffers,      \* names of the program's buffers
    LoadQueue,    \* LOAD_QUEUE_CAPACITY
    Batch,        \* MAX_CONTROL_COMMANDS_PER_RENDER_BLOCK
    MaxCommands   \* bound of the commands sent in a behaviour

ASSUME BufferWorkerAssumption ==
    {LoadQueue, Batch, MaxCommands} \subseteq Nat \ {0}

VARIABLES
    cmds,      \* the commands sent so far: [op, buffer]
    control,   \* the control channel
    answers,   \* the one-shot reply channels: a result or "none"
    hpc,       \* where the handler is
    index,     \* its place in the scan of write_buffer_replies
    pending,   \* pending_buffer_replies
    acks,      \* responses written to the socket, in order: <<id, result>>
    rpc,       \* where the render thread is
    handled,   \* commands it has handled in this iteration
    revisions, \* BufferWorker::revisions
    bound,     \* RunSession::buffer_bindings
    instance,  \* the storage the active instance has descriptors of
    requests,  \* the request queue: [id, revision]
    wpc,       \* where the loader thread is
    item,      \* the request it works on: [id, revision, ok]
    completed, \* the completion slot
    reclaim,   \* the reclaim channel, each thing to drop on its own
    freed,     \* storage that has been dropped
    stopping,  \* the stop flag
    newest     \* history: the last command handled for each buffer

handlerVars == <<hpc, index, pending, acks>>
clientVars == <<cmds, handlerVars>>
renderVars == <<rpc, handled, revisions, bound, instance, newest>>
loaderVars == <<wpc, item>>
channelVars == <<requests, completed, reclaim>>
vars == <<clientVars, control, answers, renderVars, loaderVars, channelVars,
          freed, stopping>>

Ids == 1 .. MaxCommands
Results == {"applied", "superseded", "error", "cleared"}
NoItem == [id |-> 0, revision |-> 0, ok |-> FALSE]

BufferOf(id) == cmds[id].buffer

Init == /\ cmds = <<>> /\ control = <<>>
        /\ answers = [i \in Ids |-> "none"]
        /\ hpc = "top" /\ index = 1
        /\ pending = <<>> /\ acks = <<>>
        /\ rpc = "commands" /\ handled = 0
        /\ revisions = [b \in Buffers |-> 0]
        /\ bound = [b \in Buffers |-> 0] /\ instance = {}
        /\ requests = <<>> /\ completed = <<>> /\ reclaim = <<>>
        /\ wpc = "idle" /\ item = NoItem
        /\ freed = {} /\ stopping = FALSE
        /\ newest = [b \in Buffers |-> 0]

RemoveIndex(s, i) == SubSeq(s, 1, i - 1) \o SubSeq(s, i + 1, Len(s))

Storage(id) == IF id = 0 THEN <<>> ELSE <<[storage |-> id, refs |-> {}]>>

\* Wrong variant: the storage drops before the instance that refers to it.
RetiredStorageFirst(refs, id) ==
    Storage(id) \o <<[storage |-> 0, refs |-> refs]>>

\* RetiredRunBuffer: the instance drops first, then the storage.
Retired(refs, id) == <<[storage |-> 0, refs |-> refs]>> \o Storage(id)
-----------------------------------------------------------------------------
(* The handler: handle_run_control_client and write_buffer_replies.        *)

StartLoop == /\ hpc = "top"
             /\ hpc' = IF stopping THEN "done" ELSE "scan"
             /\ UNCHANGED <<cmds, index, pending, acks, control, answers,
                            renderVars, loaderVars, channelVars, freed,
                            stopping>>

\* Whether the sender of a reply that was never sent is gone: no queue, and
\* no thread, holds it any more.
Holders == {control[i] : i \in DOMAIN control}
             \cup {requests[i].id : i \in DOMAIN requests}
             \cup {completed[i].id : i \in DOMAIN completed}
             \cup {item.id}
Disconnected(id) == answers[id] = "none" /\ id \notin Holders

\* Wrong variant: a closed reply channel is taken for an empty one.
ReceivedIgnoringClosed(id) == answers[id]

\* try_recv: what the handler finds in the reply channel of a command.
Received(id) == IF Disconnected(id) THEN "error" ELSE answers[id]

Scanning == hpc \in {"scan", "scanThenRespond"}

ScanStep == /\ Scanning
            /\ index <= Len(pending)
            /\ LET id == pending[index]
                   result == Received(id)
               IN  IF result = "none"
                   THEN /\ index' = index + 1
                        /\ UNCHANGED <<pending, acks>>
                   ELSE /\ pending' = RemoveIndex(pending, index)
                        /\ acks' = Append(acks, <<id, result>>)
                        /\ UNCHANGED index
            /\ UNCHANGED <<cmds, hpc, control, answers, renderVars, loaderVars,
                           channelVars, freed, stopping>>

\* Wrong variant: the next scan goes on where this one ended.
ScanEndKeepsIndex ==
    /\ Scanning
    /\ index > Len(pending)
    /\ hpc' = IF hpc = "scan" THEN "read" ELSE "respond"
    /\ UNCHANGED <<cmds, index, pending, acks, control, answers, renderVars,
                   loaderVars, channelVars, freed, stopping>>

ScanEnd == /\ Scanning
           /\ index > Len(pending)
           /\ index' = 1
           /\ hpc' = IF hpc = "scan" THEN "read" ELSE "respond"
           /\ UNCHANGED <<cmds, pending, acks, control, answers, renderVars,
                          loaderVars, channelVars, freed, stopping>>

\* No complete request within the read timeout.
ReadTimeout == /\ hpc = "read"
               /\ hpc' = "top"
               /\ UNCHANGED <<cmds, index, pending, acks, control,
                              answers, renderVars, loaderVars, channelVars,
                              freed, stopping>>

\* The client closes its socket; the server accepts another one.
ClientLeaves == /\ hpc = "read"
                /\ hpc' = "top"
                /\ pending' = <<>>
                /\ acks' = <<>>
                /\ UNCHANGED <<cmds, index, control, answers,
                               renderVars, loaderVars, channelVars, freed,
                               stopping>>

\* bindBufferWav: submitted, answered later; a closed channel is answered.
ReadBind(b) ==
    LET id == Len(cmds) + 1
    IN  /\ hpc = "read"
        /\ Len(cmds) < MaxCommands
        /\ cmds' = Append(cmds, [op |-> "bind", buffer |-> b])
        /\ IF rpc = "exited"
           THEN /\ acks' = Append(acks, <<id, "error">>)
                /\ UNCHANGED <<control, pending>>
           ELSE /\ control' = Append(control, id)
                /\ pending' = Append(pending, id)
                /\ UNCHANGED acks
        /\ hpc' = "top"
        /\ UNCHANGED <<index, answers, renderVars, loaderVars,
                       channelVars, freed, stopping>>

\* clearBuffer: run_control_response sends the command and waits.
ReadClear(b) ==
    /\ hpc = "read"
    /\ Len(cmds) < MaxCommands
    /\ cmds' = Append(cmds, [op |-> "clear", buffer |-> b])
    /\ control' = IF rpc = "exited" THEN control
                  ELSE Append(control, Len(cmds) + 1)
    /\ hpc' = "wait"
    /\ UNCHANGED <<index, pending, acks, answers, renderVars,
                   loaderVars, channelVars, freed, stopping>>

\* Wrong variant: the response overtakes the buffer replies.
ClearAnsweredAtOnce ==
    /\ hpc = "wait"
    /\ Received(Len(cmds)) # "none"
    /\ hpc' = "respond"
    /\ UNCHANGED <<cmds, index, pending, acks, control, answers, renderVars,
                   loaderVars, channelVars, freed, stopping>>

\* The reply is there, or its sender is gone; first the buffer replies.
ClearAnswered == /\ hpc = "wait"
                 /\ Received(Len(cmds)) # "none"
                 /\ hpc' = "scanThenRespond"
                 /\ UNCHANGED <<cmds, index, pending, acks, control, answers,
                                renderVars, loaderVars, channelVars, freed,
                                stopping>>

Respond == /\ hpc = "respond"
           /\ acks' = Append(acks, <<Len(cmds), Received(Len(cmds))>>)
           /\ hpc' = "top"
           /\ UNCHANGED <<cmds, index, pending, control, answers,
                          renderVars, loaderVars, channelVars, freed, stopping>>

HandlerStep == \/ StartLoop \/ ScanStep \/ ScanEnd \/ ReadTimeout
               \/ ClientLeaves
               \/ \E b \in Buffers : ReadBind(b) \/ ReadClear(b)
               \/ ClearAnswered \/ Respond
-----------------------------------------------------------------------------
(* The render thread.                                                      *)

TakeCommand(op) == /\ rpc = "commands"
                   /\ handled < Batch
                   /\ control # <<>>
                   /\ cmds[Head(control)].op = op
                   /\ control' = Tail(control)
                   /\ handled' = handled + 1
                   /\ newest' = [newest EXCEPT ![BufferOf(Head(control))] =
                                                    Head(control)]

\* Wrong variant: loads on their way stay valid.
InvalidateNothing(b) == UNCHANGED revisions

Invalidate(b) == revisions' = [revisions EXCEPT ![b] = @ + 1]

\* BufferWorker::load.  A full queue, or a loader that is gone, is an error.
HandleBind ==
    LET id == Head(control)
        b == BufferOf(id)
    IN  /\ TakeCommand("bind")
        /\ Invalidate(b)
        /\ IF Len(requests) < LoadQueue /\ wpc # "exited"
           THEN /\ requests' = Append(requests,
                                  [id |-> id, revision |-> revisions'[b]])
                /\ UNCHANGED answers
           ELSE /\ answers' = [answers EXCEPT ![id] = "error"]
                /\ UNCHANGED requests
        /\ UNCHANGED <<clientVars, rpc, bound, instance, loaderVars, completed,
                       reclaim, freed, stopping>>

\* replace_prepared_buffer builds an instance before it replaces anything.
Replace(b, id) ==
    /\ bound' = [bound EXCEPT ![b] = id]
    /\ instance' = {bound'[c] : c \in Buffers} \ {0}

\* Wrong variant: the storage is reclaimed before the rebuild can fail.
HandleClearReclaimsFirst(built, published) ==
    LET id == Head(control)
        b == BufferOf(id)
    IN  /\ TakeCommand("clear")
        /\ Invalidate(b)
        /\ reclaim' = reclaim \o Retired(instance, bound[b])
        /\ IF built THEN Replace(b, 0) ELSE UNCHANGED <<bound, instance>>
        /\ answers' = [answers EXCEPT ![id] =
                          IF built /\ published THEN "cleared" ELSE "error"]
        /\ UNCHANGED <<clientVars, rpc, requests, completed, loaderVars, freed,
                       stopping>>

\* ClearBuffer.  built: the new instance could be made; published: the
\* output worker took the prints of its construction.
HandleClear(built, published) ==
    LET id == Head(control)
        b == BufferOf(id)
    IN  /\ TakeCommand("clear")
        /\ Invalidate(b)
        /\ IF built
           THEN /\ Replace(b, 0)
                /\ reclaim' = reclaim \o Retired(instance, bound[b])
           ELSE UNCHANGED <<bound, instance, reclaim>>
        /\ answers' = [answers EXCEPT ![id] =
                          IF built /\ published THEN "cleared" ELSE "error"]
        /\ UNCHANGED <<clientVars, rpc, requests, completed, loaderVars, freed,
                       stopping>>

NoMoreCommands == /\ rpc = "commands"
                  /\ handled = Batch \/ control = <<>>
                  /\ rpc' = "poll"
                  /\ UNCHANGED <<clientVars, control, answers, handled,
                                 revisions, bound, instance, newest,
                                 loaderVars, channelVars, freed, stopping>>

\* Wrong variant: whatever was loaded is committed.
IsCurrentAlways(loaded) == TRUE

IsCurrent(loaded) == revisions[BufferOf(loaded.id)] = loaded.revision

\* poll, and the commit of what it returned.
Commit(built, published) ==
    LET loaded == Head(completed)
        b == BufferOf(loaded.id)
        replaced == IsCurrent(loaded) /\ loaded.ok /\ built
    IN  /\ rpc = "poll"
        /\ completed # <<>>
        /\ completed' = Tail(completed)
        /\ IF replaced
           THEN /\ Replace(b, loaded.id)
                /\ reclaim' = reclaim \o Retired(instance, bound[b])
           ELSE /\ reclaim' = reclaim \o Storage(IF loaded.ok THEN loaded.id ELSE 0)
                /\ UNCHANGED <<bound, instance>>
        /\ answers' = [answers EXCEPT ![loaded.id] =
                          CASE ~IsCurrent(loaded) -> "superseded"
                            [] replaced /\ published -> "applied"
                            [] OTHER -> "error"]
        /\ rpc' = "end"
        /\ UNCHANGED <<clientVars, control, handled, revisions, newest,
                       requests, loaderVars, freed, stopping>>

NothingLoaded == /\ rpc = "poll"
                 /\ completed = <<>>
                 /\ rpc' = "end"
                 /\ UNCHANGED <<clientVars, control, answers, handled,
                                revisions, bound, instance, newest,
                                loaderVars, channelVars, freed, stopping>>

\* The rest of the iteration, then the test of the stop flag.  A thread that
\* exits drops its ends of the channels, with the replies in them.
EndIteration == /\ rpc = "end"
                /\ handled' = 0
                /\ IF stopping
                   THEN /\ rpc' = "exited"
                        /\ control' = <<>>
                        /\ completed' = <<>>
                        /\ freed' = freed \cup {completed[i].id :
                                       i \in {k \in DOMAIN completed :
                                                   completed[k].ok}}
                   ELSE /\ rpc' = "commands"
                        /\ UNCHANGED <<control, completed, freed>>
                /\ UNCHANGED <<clientVars, answers, revisions, bound, instance,
                               newest, requests, reclaim, loaderVars, stopping>>

RenderStep == \/ HandleBind
              \/ \E built, published \in BOOLEAN :
                    HandleClear(built, published) \/ Commit(built, published)
              \/ NoMoreCommands \/ NothingLoaded \/ EndIteration
-----------------------------------------------------------------------------
(* The loader thread.                                                      *)

DropOne == /\ wpc = "idle"
           /\ reclaim # <<>>
           /\ reclaim' = Tail(reclaim)
           /\ freed' = freed \cup ({Head(reclaim).storage} \ {0})
           /\ UNCHANGED <<clientVars, control, answers, renderVars, loaderVars,
                          requests, completed, stopping>>

\* Nothing more to drop: recv_timeout.
AwaitRequest == /\ wpc = "idle"
                /\ reclaim = <<>>
                /\ wpc' = "receive"
                /\ UNCHANGED <<clientVars, control, answers, renderVars, item,
                               channelVars, freed, stopping>>

\* It returns a request; whether the file loads is up to the disk ...
TakeRequest(ok) == /\ wpc = "receive"
                   /\ requests # <<>>
                   /\ requests' = Tail(requests)
                   /\ item' = [id |-> Head(requests).id,
                               revision |-> Head(requests).revision,
                               ok |-> ok]
                   /\ wpc' = "send"
                   /\ UNCHANGED <<clientVars, control, answers, renderVars,
                                  completed, reclaim, freed, stopping>>

\* ... or none within its timeout.
NoRequest == /\ wpc = "receive"
             /\ requests = <<>>
             /\ rpc # "exited"
             /\ wpc' = "idle"
             /\ UNCHANGED <<clientVars, control, answers, renderVars, item,
                            channelVars, freed, stopping>>

\* The thread ends: its ends of the channels drop with what is in them.
Reclaimed == {reclaim[i].storage : i \in DOMAIN reclaim} \ {0}

ExitLoader(dropped) == /\ wpc' = "exited"
                       /\ requests' = <<>>
                       /\ reclaim' = <<>>
                       /\ freed' = freed \cup Reclaimed \cup dropped

\* A send on the completion slot waits for room ...
SendLoaded == /\ wpc = "send"
              /\ rpc # "exited"
              /\ completed = <<>>
              /\ completed' = <<item>>
              /\ item' = NoItem
              /\ wpc' = "idle"
              /\ UNCHANGED <<clientVars, control, answers, renderVars, requests,
                             reclaim, freed, stopping>>

\* ... or finds nobody there.
SendFails == /\ wpc = "send"
             /\ rpc = "exited"
             /\ ExitLoader(IF item.ok THEN {item.id} ELSE {})
             /\ item' = NoItem
             /\ UNCHANGED <<clientVars, control, answers, renderVars, completed,
                            stopping>>

\* recv_timeout finds the queue empty and its sender gone.
LoaderExits == /\ wpc = "receive"
               /\ rpc = "exited"
               /\ requests = <<>>
               /\ ExitLoader({})
               /\ UNCHANGED <<clientVars, control, answers, renderVars, item,
                              completed, stopping>>

LoaderStep == \/ DropOne
              \/ \E ok \in BOOLEAN : TakeRequest(ok)
              \/ AwaitRequest \/ NoRequest
              \/ SendLoaded \/ SendFails \/ LoaderExits
-----------------------------------------------------------------------------
Stop == /\ ~stopping
        /\ stopping' = TRUE
        /\ UNCHANGED <<clientVars, control, answers, renderVars, loaderVars,
                       channelVars, freed>>

Terminated == hpc = "done" /\ rpc = "exited" /\ wpc = "exited"

Next == HandlerStep \/ RenderStep \/ LoaderStep \/ Stop
          \/ (Terminated /\ UNCHANGED vars)

\* The three threads run; a disk read and a block both end.
Fairness == /\ WF_vars(HandlerStep)
            /\ WF_vars(RenderStep)
            /\ WF_vars(LoaderStep)

Spec == Init /\ [][Next]_vars /\ Fairness
-----------------------------------------------------------------------------
Items == [id : 0 .. MaxCommands, revision : 0 .. MaxCommands, ok : BOOLEAN]

CommandsOK == /\ cmds \in Seq([op : {"bind", "clear"}, buffer : Buffers])
              /\ Len(cmds) <= MaxCommands

HandlerOK == /\ hpc \in {"top", "scan", "read", "wait", "scanThenRespond",
                        "respond", "done"}
             /\ index \in Nat \ {0}
             /\ pending \in Seq(DOMAIN cmds)
             /\ acks \in Seq((DOMAIN cmds) \X Results)

RenderOK == /\ rpc \in {"commands", "poll", "end", "exited"}
            /\ handled \in 0 .. Batch
            /\ revisions \in [Buffers -> 0 .. MaxCommands]
            /\ bound \in [Buffers -> {0} \cup DOMAIN cmds]
            /\ instance \subseteq DOMAIN cmds
            /\ newest \in [Buffers -> {0} \cup DOMAIN cmds]

LoaderOK == /\ wpc \in {"idle", "receive", "send", "exited"}
            /\ item \in Items

QueuesOK == /\ control \in Seq(DOMAIN cmds)
            /\ answers \in [Ids -> Results \cup {"none"}]
            /\ requests \in Seq([id : DOMAIN cmds, revision : 1 .. MaxCommands])
            /\ Len(requests) <= LoadQueue
            /\ completed \in Seq(Items) /\ Len(completed) <= 1
            /\ reclaim \in Seq([storage : {0} \cup DOMAIN cmds,
                                refs : SUBSET Ids])
            /\ freed \subseteq DOMAIN cmds

TypeOK == /\ CommandsOK /\ HandlerOK /\ RenderOK /\ LoaderOK /\ QueuesOK
          /\ stopping \in BOOLEAN

(***************************************************************************)
(* "Revisions make bind/clear ordering independent of I/O completion": a   *)
(* binding only ever changes to what the last command handled for that     *)
(* buffer asked for.  A slow load that a newer bind or clear has overtaken *)
(* never takes effect, not even when the newer bind fails or was refused.  *)
(***************************************************************************)
OnlyTheNewestCommandBinds ==
    [][\A b \in Buffers : bound'[b] # bound[b] =>
          bound'[b] = IF cmds[newest'[b]].op = "bind" THEN newest'[b] ELSE 0]_vars

(***************************************************************************)
(* What a reply says is so: "applied" and "cleared" remain the state of    *)
(* the buffer until a newer command for it is handled, and "cancelled" is  *)
(* only said when there is a newer one.  Errors promise nothing.           *)
(***************************************************************************)
AnswersAreTruthful ==
    \A id \in DOMAIN cmds :
        \/ newest[BufferOf(id)] > id
        \/ CASE answers[id] = "applied" -> bound[BufferOf(id)] = id
             [] answers[id] = "cleared" -> bound[BufferOf(id)] = 0
             [] answers[id] = "superseded" -> FALSE
             [] OTHER -> TRUE

(***************************************************************************)
(* The handler publishes the buffer replies before the response of a       *)
(* command, "so a later clear cannot be overwritten in client state by the *)
(* delayed bind acknowledgement": once a client has read that its buffer   *)
(* is cleared, it reads of no older bind that was applied.                 *)
(***************************************************************************)
AcknowledgedClearStays ==
    \A i, j \in DOMAIN acks :
        (i < j /\ acks[i][2] = "cleared" /\ acks[j][2] = "applied"
               /\ BufferOf(acks[i][1]) = BufferOf(acks[j][1]))
            => acks[j][1] > acks[i][1]

\* Everything that owns loaded storage: the loader, the completion slot,
\* the session and the reclaim channel.
Owners(id) ==
    {<<"loader", 0>> : x \in {y \in {item} : y.id = id /\ y.ok}}
      \cup {<<"slot", i>> : i \in {k \in DOMAIN completed :
                                    completed[k].id = id /\ completed[k].ok}}
      \cup {<<"bound", b>> : b \in {c \in Buffers : bound[c] = id}}
      \cup {<<"reclaim", i>> : i \in {k \in DOMAIN reclaim :
                                       reclaim[k].storage = id}}
      \cup {<<"freed", 0>> : x \in freed \cap {id}}

\* Storage has one owner from the load to the drop.
StorageHasOneOwner == \A id \in Ids : Cardinality(Owners(id)) <= 1

\* Nothing that was dropped has a descriptor in the active instance, or in
\* one retired by the replacement of any buffer.
NoDanglingDescriptor ==
    \A id \in freed : /\ id \notin instance
                      /\ \A i \in DOMAIN reclaim : id \notin reclaim[i].refs

(***************************************************************************)
(* "The instance drops first, before the sample storage its descriptors    *)
(* may reference": storage is never bound twice, dropped twice, dropped    *)
(* while it is bound or on its way to be, nor before the last instance     *)
(* that has a descriptor of it, whatever fails in between.                 *)
(***************************************************************************)
StorageIsSafe == StorageHasOneOwner /\ NoDanglingDescriptor

(***************************************************************************)
(* Every bind a connected client sent is answered, however loads, clears   *)
(* and a full queue interleave; only a stopped run ends without answering. *)
(***************************************************************************)
BindsAreAnswered ==
    \A id \in Ids : (\E i \in DOMAIN pending : pending[i] = id)
                      ~> (hpc = "done" \/ ~\E i \in DOMAIN pending : pending[i] = id)

(***************************************************************************)
(* Stopping the run ends all three threads: the handler is not left        *)
(* waiting for the answer to a clear, nor the loader for room in the       *)
(* completion slot.                                                        *)
(***************************************************************************)
StopEndsThreads == stopping ~> Terminated
=============================================================================
