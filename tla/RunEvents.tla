----------------------------- MODULE RunEvents -----------------------------
(***************************************************************************)
(* How events reach a running program in time: MIDI messages of a device,  *)
(* through a bounded queue that its callback never waits for, and events   *)
(* that a control client triggers.  The render thread turns time stamps    *)
(* into frames, keeps the events that are not due, and hands those that    *)
(* are to the block it renders.  What the queue cannot hold is lost; the   *)
(* render thread is told, throws away what is on its way, and releases     *)
(* the notes it knows to be active.                                        *)
(*                                                                         *)
(* Time is counted in frames.  The frames of pending events and of the     *)
(* anchor of the timeline are kept relative to rendered_frame.             *)
(***************************************************************************)
EXTENDS Integers, Sequences, SequencesExt, FiniteSetsExt

CONSTANTS
    Keys,              \* the (channel, key) pairs of the device
    NoKey,             \* in the place of a key in a client's event
    MidiNames,         \* midi_event_names, those of them modelled
    QueueCapacity,     \* MIDI_INPUT_CAPACITY
    PendingLimit,      \* MAX_PENDING_EVENTS - 16 * 128
    MessagesPerBlock,  \* MAX_MIDI_MESSAGES_PER_RENDER_BLOCK
    BlockLen,          \* launch.block_samples
    MaxTime,           \* bound of the clock
    MaxDrift,          \* bound of the drift of the device's clock
    MaxPresses,        \* bound of the keys pressed in a behaviour
    MaxTriggers,       \* bound of the events clients trigger
    MaxRequests        \* bound of their play and pause requests

ASSUME RunEventsAssumption ==
    /\ IsFiniteSet(Keys) /\ NoKey \notin Keys
    /\ MidiNames \subseteq {"note_on", "note_off"}
    /\ {QueueCapacity, PendingLimit, MessagesPerBlock, BlockLen}
            \subseteq Nat \ {0}
    /\ {MaxTime, MaxDrift, MaxPresses, MaxTriggers, MaxRequests} \subseteq Nat

VARIABLES
    clock,          \* Instant::now()
    held, presses,  \* the device: keys that are down; how many were pressed
    device,         \* "connected", "lost", "closed" by the manager, or
                    \* "deaf": there again, but not through the connection
    stamp,          \* the last time stamp of this connection, or NoStamp
    full,           \* the callback's try_send failed; it is about to say so
    queue,          \* midi_tx, midi_rx: [name, key, time]
    resetWanted,    \* midi_overflowed or midi_reset_requested: two flags
                    \* that are read together and cleared together
    control,        \* commands on their way: [op, id, time]
    wait,           \* what the control client's handler waits for
    triggers, requests,             \* how many of each a client has sent
    rpc,            \* where the render thread is
    playRequested, playing,
    pending,        \* pending_run_events, in the order of (frame, sequence)
    anchor,         \* MidiTimeline::anchor: {} or {[time, frame]}
    polled,         \* messages taken for this block
    active,         \* active_midi_notes
    sounding,       \* the program: notes that physical MIDI turned on
    stopping,       \* stop_flag
    status,         \* history: what became of each trigger; "ran" when it
                    \* was due, or while nothing plays, "instant" while
                    \* something does (it has no MIDI name), or "answered"
                    \* otherwise (refused, cancelled, failed, reply lost)
    kept,           \* history: triggers, and keys of messages, that were
                    \* pending when the timeline was reset
    owed,           \* history: keys let go while playing, not pressed since
    cut             \* history: keys that were down when the device went,
                    \* until that is noticed or they are pressed again

deviceVars == <<held, presses, device, stamp, full, owed, cut>>
clientVars == <<wait, triggers, requests>>
playVars == <<playRequested, playing>>
eventVars == <<pending, anchor, kept>>
noteVars == <<active, sounding>>
vars == <<clock, deviceVars, queue, resetWanted, control, clientVars, rpc,
          playVars, eventVars, polled, noteVars, stopping, status>>

NoStamp == -1

TriggerIds == 1 .. MaxTriggers

Messages == [name : {"note_on", "note_off"}, key : Keys, time : 0 .. MaxTime]

\* A client's event has its number and no key, a message a key and number 0.
Events == [frame : Nat, name : {"note_on", "note_off", "trigger"},
           key : Keys \cup {NoKey}, id : 0 .. MaxTriggers]

Init == /\ clock = 0
        /\ held = {} /\ presses = 0 /\ device = "connected"
        /\ stamp = NoStamp /\ full = FALSE
        /\ owed = {} /\ cut = {}
        /\ queue = <<>> /\ resetWanted = FALSE
        /\ control = <<>> /\ wait = "none" /\ triggers = 0 /\ requests = 0
        /\ rpc = "head" /\ playRequested = TRUE /\ playing = TRUE
        /\ pending = <<>> /\ anchor = {} /\ kept = {} /\ polled = 0
        /\ active = {} /\ sounding = {} /\ stopping = FALSE
        /\ status = [i \in TriggerIds |-> "unsent"]

Running == rpc # "exited"
-----------------------------------------------------------------------------
(* The device: the callback of midir and MidiInputManager::poll.  What it  *)
(* does once the render thread has gone matters to nobody.                 *)

Tick == /\ Running
        /\ clock < MaxTime
        /\ clock' = clock + 1
        /\ UNCHANGED <<deviceVars, queue, resetWanted, control, clientVars,
                       rpc, playVars, eventVars, polled, noteVars, stopping,
                       status>>

\* InputCallbackState::timestamp: a connection's first message is stamped
\* with the clock, later ones by the device's own clock, which need not keep
\* the same time but does not go back.
Stamps == IF stamp = NoStamp THEN {clock}
          ELSE {t \in stamp .. MaxTime :
                  t \in clock - MaxDrift .. clock + MaxDrift}

\* Wrong variant: a message that finds the queue full is lost silently.
EnqueueSilently(name, k, t) ==
    LET m == [name |-> name, key |-> k, time |-> t]
    IN  IF Len(queue) < QueueCapacity
        THEN queue' = Append(queue, m) /\ UNCHANGED full
        ELSE UNCHANGED <<queue, full>>

\* enqueue_message, up to the store that reports a full queue.
Enqueue(name, k, t) ==
    LET m == [name |-> name, key |-> k, time |-> t]
    IN  IF Len(queue) < QueueCapacity
        THEN queue' = Append(queue, m) /\ UNCHANGED full
        ELSE full' = TRUE /\ UNCHANGED queue

Press(k) == /\ Running /\ device = "connected" /\ ~full
            /\ k \notin held /\ presses < MaxPresses
            /\ \E t \in Stamps : Enqueue("note_on", k, t) /\ stamp' = t
            /\ held' = held \cup {k}
            /\ presses' = presses + 1
            /\ owed' = owed \ {k}
            /\ cut' = cut \ {k}
            /\ UNCHANGED <<clock, device, resetWanted, control, clientVars,
                           rpc, playVars, eventVars, polled, noteVars,
                           stopping, status>>

Release(k) == /\ Running /\ device = "connected" /\ ~full
              /\ k \in held
              /\ \E t \in Stamps : Enqueue("note_off", k, t) /\ stamp' = t
              /\ held' = held \ {k}
              /\ owed' = IF playing THEN owed \cup {k} ELSE owed
              /\ UNCHANGED <<clock, presses, device, cut, resetWanted,
                             control, clientVars, rpc, playVars, eventVars,
                             polled, noteVars, stopping, status>>

ReportFull == /\ full
              /\ full' = FALSE
              /\ resetWanted' = TRUE
              /\ UNCHANGED <<clock, held, presses, device, stamp, owed, cut,
                             queue, control, clientVars, rpc, playVars,
                             eventVars, polled, noteVars, stopping, status>>

Unplug == /\ Running /\ device \in {"connected", "deaf"} /\ ~full
          /\ device' = "lost"
          /\ held' = {}
          /\ cut' = cut \cup held
          /\ owed' = IF playing THEN owed \cup held ELSE owed
          /\ UNCHANGED <<clock, presses, stamp, full, queue, resetWanted,
                         control, clientVars, rpc, playVars, eventVars, polled,
                         noteVars, stopping, status>>

\* The device is back, with the same id, before the manager has looked for
\* it: the manager keeps the connection it has and asks for nothing.  It
\* depends on the system whether that connection still gets messages.
Replug == /\ Running /\ device = "lost"
          /\ device' \in {"connected", "deaf"}
          /\ UNCHANGED <<clock, held, presses, stamp, full, owed, cut, queue,
                         resetWanted, control, clientVars, rpc, playVars,
                         eventVars, polled, noteVars, stopping, status>>

\* MidiInputManager::poll, about once a second: when the id is not listed,
\* it closes the connection and asks for a reset ...
CloseConnection == /\ device = "lost"
                   /\ device' = "closed"
                   /\ resetWanted' = TRUE
                   /\ cut' = {}
                   /\ UNCHANGED <<clock, held, presses, stamp, full, owed,
                                  queue, control, clientVars, rpc, playVars,
                                  eventVars, polled, noteVars, stopping,
                                  status>>

\* ... and connects to the device when it is there again.
Reconnect == /\ Running /\ device = "closed" /\ presses < MaxPresses
             /\ device' = "connected"
             /\ stamp' = NoStamp
             /\ UNCHANGED <<clock, held, presses, full, owed, cut, queue,
                            resetWanted, control, clientVars, rpc, playVars,
                            eventVars, polled, noteVars, stopping, status>>

DeviceStep == \/ \E k \in Keys : Press(k) \/ Release(k)
              \/ ReportFull \/ Unplug \/ Replug \/ CloseConnection
              \/ Reconnect
-----------------------------------------------------------------------------
(* The handler of the control client.                                      *)

\* triggerEvent: with a request id it waits for the answer.
SendTrigger(waits) ==
    LET i == triggers + 1
    IN  /\ Running /\ wait = "none" /\ triggers < MaxTriggers
        /\ triggers' = i
        /\ control' = Append(control,
                             [op |-> "trigger", id |-> i, time |-> clock])
        /\ status' = [status EXCEPT ![i] = "sent"]
        /\ wait' = IF waits THEN "trigger" ELSE "none"
        /\ UNCHANGED <<clock, deviceVars, queue, resetWanted, requests, rpc,
                       playVars, eventVars, polled, noteVars, stopping>>

\* play and pause, which always wait for their answer.
SendRequest(op) ==
    /\ Running /\ wait = "none" /\ requests < MaxRequests
    /\ requests' = requests + 1
    /\ control' = Append(control, [op |-> op, id |-> 0, time |-> clock])
    /\ wait' = "request"
    /\ UNCHANGED <<clock, deviceVars, queue, resetWanted, triggers, rpc,
                   playVars, eventVars, polled, noteVars, stopping, status>>

Open == {"unsent", "sent", "pending"}

\* The reply arrives, or its sender was dropped.
Answered == /\ \/ wait = "trigger" /\ status[triggers] \notin Open
               \/ wait = "request" /\ control = <<>>
            /\ wait' = "none"
            /\ UNCHANGED <<clock, deviceVars, queue, resetWanted, control,
                           triggers, requests, rpc, playVars, eventVars,
                           polled, noteVars, stopping, status>>

ClientStep == \/ \E waits \in BOOLEAN : SendTrigger(waits)
              \/ \E op \in {"play", "pause"} : SendRequest(op)
              \/ Answered
-----------------------------------------------------------------------------
(* Operators of the render thread.                                         *)

\* MidiTimeline::frame_at: the anchor it works with, and the frame.
AnchorFor(time, a) == IF \E x \in a : time >= x.time
                      THEN a ELSE {[time |-> time, frame |-> 0]}

FrameAt(time, a) == LET x == CHOOSE x \in AnchorFor(time, a) : TRUE
                    IN  Max({0, x.frame + (time - x.time)})

\* Wrong variant: a sort by frames that puts later events first.
InsertionUnstable(events, frame) ==
    Cardinality({i \in DOMAIN events : events[i].frame < frame})

\* Sorting by (frame, sequence): behind those that are not later.
Insertion(events, frame) ==
    Cardinality({i \in DOMAIN events : events[i].frame <= frame})

\* New events of one frame get the next sequence numbers.
Scheduled(events, frame, new) ==
    LET n == Insertion(events, frame)
    IN  SubSeq(events, 1, n) \o new \o SubSeq(events, n + 1, Len(events))

\* Vec::retain: what is at these places, in the order it has.
Retained(events, places) ==
    [k \in 1 .. Cardinality(places) |->
        events[CHOOSE i \in places :
                    Cardinality({j \in places : j <= i}) = k]]

\* Wrong variant: one event too many is accepted.
FullOfEventsLate == Len(pending) > PendingLimit

\* The rest of the vector's room is left to the release of notes.
FullOfEvents == Len(pending) >= PendingLimit

PendingIds == {pending[i].id : i \in DOMAIN pending} \ {0}

\* MidiTimeline::reset; what is pending keeps the frame it has.
ResetTimeline(events) ==
    /\ anchor' = {}
    /\ kept' = kept \cup ({events[i].id : i \in DOMAIN events} \ {0})
                    \cup ({events[i].key : i \in DOMAIN events} \ {NoKey})

Settled(ids, s) ==
    [i \in TriggerIds |-> IF i \in ids THEN s ELSE status[i]]

\* Wrong variant: the reply is sent and the event stays.
CancelPendingKeeps == /\ status' = Settled(PendingIds, "answered")
                      /\ UNCHANGED pending

\* cancel_pending_run_events
CancelPending == /\ status' = Settled(PendingIds, "answered")
                 /\ pending' = <<>>

\* The notes that are on after a sequence of events, S being on before.
NotesAfter(S, events) ==
    {k \in Keys :
        LET own == {i \in DOMAIN events : events[i].key = k}
        IN  IF own = {} THEN k \in S
            ELSE events[Max(own)].name = "note_on"}
-----------------------------------------------------------------------------
(* The render thread, from the head of its loop.                           *)

\* The thread drops all it owns, replies that were not sent with it.
Exit == /\ rpc = "exit" \/ (rpc = "head" /\ stopping)
        /\ rpc' = "exited"
        /\ control' = <<>> /\ queue' = <<>> /\ pending' = <<>>
        /\ anchor' = {} /\ active' = {} /\ sounding' = {}
        /\ status' = Settled({i \in 1 .. triggers : status[i] \in Open},
                             "answered")
        /\ UNCHANGED <<clock, deviceVars, resetWanted, clientVars, playVars,
                       kept, polled, stopping>>

Head_ == /\ rpc = "head" /\ ~stopping
         /\ rpc' = "commands"
         /\ UNCHANGED <<clock, deviceVars, queue, resetWanted, control,
                        clientVars, playVars, eventVars, polled, noteVars,
                        stopping, status>>

Receive(op) == /\ rpc = "commands"
               /\ control # <<>>
               /\ Head(control).op = op
               /\ control' = Tail(control)

HandlePause == /\ Receive("pause")
               /\ playRequested' = FALSE
               /\ playing' = FALSE
               /\ CancelPending
               /\ anchor' = {}
               /\ UNCHANGED <<clock, deviceVars, queue, resetWanted,
                              clientVars, rpc, kept, polled, noteVars,
                              stopping>>

\* restart rebuilds the instance; when it, or the publication of its
\* output, fails, nothing plays.
HandlePlay(ok) == /\ Receive("play")
                  /\ playRequested' = TRUE
                  /\ playing' = ok
                  /\ ResetTimeline(pending)
                  /\ sounding' \in (IF ok THEN {{}} ELSE {sounding, {}})
                  /\ UNCHANGED <<clock, deviceVars, queue, resetWanted,
                                 clientVars, rpc, pending, polled, active,
                                 stopping, status>>

\* A command clears a buffer, or a load that has completed is committed: a
\* new binding rebuilds the instance as well.
Rebind(ok) == /\ rpc = "commands"
              /\ playing' = IF ok THEN playRequested ELSE playing
              /\ sounding' \in (IF ok THEN {{}} ELSE {sounding, {}})
              /\ UNCHANGED <<clock, deviceVars, queue, resetWanted, control,
                             clientVars, rpc, playRequested, eventVars, polled,
                             active, stopping, status>>

\* An event with a MIDI name waits for its frame, unless too many do.
HandleTimedTrigger ==
    LET c == Head(control)
        e == [frame |-> FrameAt(c.time, anchor), name |-> "trigger",
              key |-> NoKey, id |-> c.id]
        fits == ~FullOfEvents
    IN  /\ Receive("trigger")
        /\ playing
        /\ anchor' = AnchorFor(c.time, anchor)
        /\ pending' = IF fits THEN Scheduled(pending, e.frame, <<e>>)
                            ELSE pending
        /\ status' = [status EXCEPT ![c.id] =
                          IF fits THEN "pending" ELSE "answered"]
        /\ UNCHANGED <<clock, deviceVars, queue, resetWanted, clientVars, rpc,
                       playVars, kept, polled, noteVars, stopping>>

\* Any other event, and every event while nothing plays, runs at once.
HandleTriggerNow ==
    /\ Receive("trigger")
    /\ status' = [status EXCEPT ![Head(control).id] =
                      IF playing THEN "instant" ELSE "ran"]
    /\ UNCHANGED <<clock, deviceVars, queue, resetWanted, clientVars, rpc,
                   playVars, eventVars, polled, noteVars, stopping>>

\* The channel is empty.
EndCommands == /\ rpc = "commands"
               /\ control = <<>>
               /\ rpc' = IF playing THEN "ahead" ELSE "drain"
               /\ UNCHANGED <<clock, deviceVars, queue, resetWanted, control,
                              clientVars, playVars, eventVars, polled,
                              noteVars, stopping, status>>

\* Nothing plays: the queue is emptied, ...
IdleDrain == /\ rpc = "drain"
             /\ queue' = <<>>
             /\ rpc' = "idle"
             /\ UNCHANGED <<clock, deviceVars, resetWanted, control,
                            clientVars, playVars, eventVars, polled, noteVars,
                            stopping, status>>

\* ... then the flags are cleared and everything is forgotten.
IdleReset == /\ rpc = "idle"
             /\ resetWanted' = FALSE
             /\ CancelPending
             /\ anchor' = {}
             /\ active' = {}
             /\ rpc' = "head"
             /\ UNCHANGED <<clock, deviceVars, queue, control, clientVars,
                            playVars, kept, polled, sounding, stopping>>

\* The ring holds enough.
Ahead == /\ rpc = "ahead"
         /\ rpc' = "head"
         /\ UNCHANGED <<clock, deviceVars, queue, resetWanted, control,
                        clientVars, playVars, eventVars, polled, noteVars,
                        stopping, status>>

\* It does not, and the flags are read and cleared.
StartBlock == /\ rpc = "ahead"
              /\ resetWanted' = FALSE
              /\ rpc' = IF resetWanted THEN "recover" ELSE "take"
              /\ UNCHANGED <<clock, deviceVars, queue, control, clientVars,
                             playVars, eventVars, polled, noteVars, stopping,
                             status>>

NoteOffs == LET key == SetToSeq(active)
            IN  [i \in DOMAIN key |->
                    [frame |-> 0, name |-> "note_off",
                     key |-> key[i], id |-> 0]]

\* pending_run_events.retain: what the device sent is thrown away.
Own == Retained(pending, {i \in DOMAIN pending : pending[i].id # 0})

\* Wrong variant: the notes count as released when it is decided.
RecoverForgetsNotes ==
    /\ rpc = "recover"
    /\ queue' = <<>>
    /\ ResetTimeline(Own)
    /\ pending' = Own
    /\ active' = {}
    /\ rpc' = "take"
    /\ UNCHANGED <<clock, deviceVars, resetWanted, control, clientVars,
                   playVars, polled, sounding, stopping, status>>

\* Messages on their way are thrown away and active notes released; the
\* clock is read once, so that their frame is the first of the block and
\* anchors the new timeline.
Recover ==
    LET releases == "note_off" \in MidiNames /\ active # {}
    IN  /\ rpc = "recover"
        /\ queue' = <<>>
        /\ kept' = kept \cup PendingIds
        /\ anchor' = IF releases THEN {[time |-> clock, frame |-> 0]} ELSE {}
        /\ pending' = IF releases THEN Scheduled(Own, 0, NoteOffs) ELSE Own
        /\ active' = IF "note_off" \in MidiNames THEN active ELSE {}
        /\ rpc' = "take"
        /\ UNCHANGED <<clock, deviceVars, resetWanted, control, clientVars,
                       playVars, polled, sounding, stopping, status>>

\* A message of the queue that the program has an event for is scheduled;
\* one that does not fit is lost like one the queue has no room for.
TakeMessage ==
    LET m == Head(queue)
        e == [frame |-> FrameAt(m.time, anchor), name |-> m.name,
              key |-> m.key, id |-> 0]
        wanted == m.name \in MidiNames
    IN  /\ rpc = "take"
        /\ queue # <<>> /\ polled < MessagesPerBlock
        /\ queue' = Tail(queue)
        /\ IF wanted /\ FullOfEvents
           THEN resetWanted' = TRUE /\ rpc' = "block" /\ polled' = 0
           ELSE UNCHANGED <<resetWanted, rpc>> /\ polled' = polled + 1
        /\ IF wanted /\ ~FullOfEvents
           THEN /\ anchor' = AnchorFor(m.time, anchor)
                /\ pending' = Scheduled(pending, e.frame, <<e>>)
           ELSE UNCHANGED <<anchor, pending>>
        /\ UNCHANGED <<clock, deviceVars, control, clientVars, playVars, kept,
                       noteVars, stopping, status>>

EndTake == /\ rpc = "take"
           /\ queue = <<>> \/ polled = MessagesPerBlock
           /\ rpc' = "block"
           /\ polled' = 0
           /\ UNCHANGED <<clock, deviceVars, queue, resetWanted, control,
                          clientVars, playVars, eventVars, noteVars, stopping,
                          status>>

\* partition_point: those whose frame lies in the block.
DueCount == Cardinality({i \in DOMAIN pending : pending[i].frame < BlockLen})
Due == SubSeq(pending, 1, DueCount)
NotDue == SubSeq(pending, DueCount + 1, Len(pending))
DueIds == {Due[i].id : i \in DOMAIN Due} \ {0}

\* Wrong variant: rendered_frame stands still.
RenderBlockInPlace ==
    /\ rpc = "block"
    /\ sounding' = NotesAfter(sounding, Due)
    /\ active' = NotesAfter(active, Due)
    /\ status' = Settled(DueIds, "ran")
    /\ pending' = NotDue
    /\ rpc' = "head"
    /\ UNCHANGED <<clock, deviceVars, queue, resetWanted, control, clientVars,
                   playVars, anchor, kept, polled, stopping>>

\* rendered_frame advances.  Time stamps are at most MaxTime, so that an
\* anchor further back than that gives the same frames.
RenderBlock ==
    /\ rpc = "block"
    /\ sounding' = NotesAfter(sounding, Due)
    /\ active' = NotesAfter(active, Due)
    /\ status' = Settled(DueIds, "ran")
    /\ pending' = [i \in DOMAIN NotDue |->
                      [NotDue[i] EXCEPT !.frame = @ - BlockLen]]
    /\ anchor' = {[x EXCEPT !.frame = Max({@ - BlockLen, -MaxTime})] :
                      x \in anchor}
    /\ rpc' = "head"
    /\ UNCHANGED <<clock, deviceVars, queue, resetWanted, control, clientVars,
                   playVars, kept, polled, stopping>>

\* The block fails, after some of its events, or its output cannot be
\* published: everything that was due is answered with the error.
BlockFails == /\ rpc = "block"
              /\ \E n \in 0 .. Len(Due) :
                    sounding' = NotesAfter(sounding, SubSeq(Due, 1, n))
              /\ status' = Settled(DueIds, "answered")
              /\ pending' = NotDue
              /\ stopping' = TRUE
              /\ rpc' = "exit"
              /\ UNCHANGED <<clock, deviceVars, queue, resetWanted, control,
                             clientVars, playVars, anchor, kept, polled,
                             active>>

RenderStep == \/ Exit \/ Head_ \/ HandlePause
              \/ HandleTimedTrigger \/ HandleTriggerNow
              \/ \E ok \in BOOLEAN : \/ HandlePlay(ok) \/ Rebind(ok)
              \/ EndCommands \/ IdleDrain \/ IdleReset \/ Ahead
              \/ StartBlock \/ Recover \/ TakeMessage \/ EndTake
              \/ RenderBlock \/ BlockFails
-----------------------------------------------------------------------------
Stop == /\ ~stopping
        /\ stopping' = TRUE
        /\ UNCHANGED <<clock, deviceVars, queue, resetWanted, control,
                       clientVars, rpc, playVars, eventVars, polled, noteVars,
                       status>>

Next == \/ Tick \/ DeviceStep \/ ClientStep \/ RenderStep \/ Stop
        \/ (~Running /\ UNCHANGED vars)

\* The threads are scheduled; the audio device takes samples, so that the
\* ring does not stay full; the manager is polled.
Fairness == /\ WF_vars(RenderStep)
            /\ SF_vars(StartBlock)
            /\ WF_vars(ReportFull)
            /\ WF_vars(CloseConnection)
            /\ WF_vars(Answered)

Spec == Init /\ [][Next]_vars /\ Fairness
-----------------------------------------------------------------------------
Commands == [op : {"trigger"}, id : TriggerIds, time : 0 .. MaxTime]
      \cup [op : {"play", "pause"}, id : {0}, time : 0 .. MaxTime]

Anchors == {{}} \cup {{x} : x \in [time : 0 .. MaxTime, frame : -MaxTime .. 0]}

DeviceOK == /\ clock \in 0 .. MaxTime
            /\ held \subseteq Keys /\ owed \subseteq Keys
            /\ cut \subseteq Keys
            /\ presses \in 0 .. MaxPresses /\ stamp \in NoStamp .. MaxTime
            /\ device \in {"connected", "lost", "closed", "deaf"}
            /\ full \in BOOLEAN /\ resetWanted \in BOOLEAN
            /\ queue \in Seq(Messages) /\ Len(queue) <= QueueCapacity

ClientOK == /\ control \in Seq(Commands)
            /\ wait \in {"none", "trigger", "request"}
            /\ triggers \in 0 .. MaxTriggers /\ requests \in Nat
            /\ status \in [TriggerIds -> Open \cup {"ran", "instant",
                                                   "answered"}]

RenderOK == /\ rpc \in {"head", "commands", "drain", "idle", "ahead",
                        "recover", "take", "block", "exit", "exited"}
            /\ playRequested \in BOOLEAN /\ playing \in BOOLEAN
            /\ pending \in Seq(Events) /\ anchor \in Anchors
            /\ kept \subseteq TriggerIds \cup Keys
            /\ polled \in 0 .. MessagesPerBlock
            /\ active \subseteq Keys /\ sounding \subseteq Keys
            /\ stopping \in BOOLEAN

TypeOK == DeviceOK /\ ClientOK /\ RenderOK

(***************************************************************************)
(* A recovery can release every note: whatever sounds because of the       *)
(* device is in active_midi_notes, although messages in the queue and      *)
(* pending events are thrown away, and although that set is emptied while  *)
(* nothing plays.  (A program without a note_off event is left alone.)     *)
(***************************************************************************)
SoundingNotesAreKnown ==
    "note_off" \in MidiNames /\ playing /\ Running /\ rpc # "exit"
        => sounding \subseteq active

(***************************************************************************)
(* The events with a MIDI name that a client triggers run in the order in  *)
(* which it sent them, wherever the time stamps of the device move the     *)
(* anchor, and also when they run because nothing plays any more, unless   *)
(* the timeline was reset while the earlier one was pending.  (Any other   *)
(* event is not ordered with them: while something plays it runs at once,  *)
(* ahead of all that are pending.)  What is pending is in the order of     *)
(* frames, so that partition_point finds what is due.                      *)
(***************************************************************************)
TriggersRunInOrder ==
    /\ \A i \in 1 .. Len(pending) - 1 :
          pending[i].frame <= pending[i + 1].frame
    /\ \A i, j \in TriggerIds :
          i < j /\ status[j] = "ran" /\ status[i] = "pending" => i \in kept
    /\ \A p, q \in DOMAIN pending :
          p < q /\ pending[q].id # 0 /\ pending[q].id < pending[p].id
              => pending[q].id \in kept

(***************************************************************************)
(* An event is pending exactly as long as it is unanswered: one that was   *)
(* answered as cancelled or failed does not run later, and none is         *)
(* dropped or run twice.  "Leave room for note-off recovery for every MIDI *)
(* channel and key": pending events never outgrow the vector allocated for *)
(* them, however clients and the device fill it.                           *)
(***************************************************************************)
PendingEventsAreOpen ==
    /\ Len(pending) <= PendingLimit + Cardinality(Keys)
    /\ PendingIds = {i \in TriggerIds : status[i] = "pending"}
    /\ \A i, j \in DOMAIN pending :
            pending[i].id = pending[j].id /\ pending[i].id # 0 => i = j

\* Keys whose device went, with the keys down, and came back unnoticed.
Unnoticed == IF device \in {"connected", "deaf"} THEN cut ELSE {}

(***************************************************************************)
(* No note hangs: a key that is let go while playing, or whose device is   *)
(* unplugged and does not come back before the manager looks for it, falls *)
(* silent, although its note-off may find the queue full, be thrown away   *)
(* by a recovery, or come when too many events are pending.  Two cases are *)
(* excepted.  Playing again while a message of the key is pending resets   *)
(* the timeline.  And a device that is unplugged with the key down and is  *)
(* back, under the id it had, before the manager has polled: nothing       *)
(* releases the note then, until the key is pressed and let go again.      *)
(***************************************************************************)
ReleasedKeysFallSilent ==
    "note_off" \in MidiNames =>
        \A k \in Keys :
            k \in owed /\ k \in sounding
                ~> \/ k \notin sounding \/ k \notin owed
                   \/ k \in kept \/ k \in Unnoticed
                   \/ ~playing \/ ~Running

(***************************************************************************)
(* The handler that waits for the answer to an event, without a timeout,   *)
(* gets one: the event becomes due, is cancelled, or loses its reply.      *)
(***************************************************************************)
ClientsAreAnswered == (wait # "none") ~> (wait = "none")
=============================================================================
