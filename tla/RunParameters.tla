--------------------------- MODULE RunParameters ---------------------------
(***************************************************************************)
(* The parameters of a running program.  A control client sets them at any *)
(* rate; the render thread keeps the last value of each until it has to    *)
(* act on it, and the run session lets continuous parameters move to their *)
(* targets over a number of samples, a block at a time.  In between        *)
(* parameters are read, reset and used by events, the duration of ramps    *)
(* changes, and the instance that holds the values is built anew when      *)
(* playback starts or a buffer is replaced.                                *)
(*                                                                         *)
(* Values are integers in the place of floats: the value in the middle of  *)
(* a ramp is any one between its ends.  A parameter that is not Smoothed   *)
(* is a wide integer, which refuses values that are not finite.            *)
(***************************************************************************)
EXTENDS Integers, Sequences

CONSTANTS
    Params,      \* the elements of the program's parameters
    Smoothed,    \* those that are continuous
    Values,      \* what they are set to
    Infinite,    \* the values among them that are not finite
    Default,     \* their default
    Durations,   \* the durations of ramps a client asks for, in samples
    None,        \* no value, or a duration that is not valid
    Block,       \* block_size
    Batch,       \* MAX_CONTROL_COMMANDS_PER_RENDER_BLOCK
    MaxCommands  \* bound on the commands of a behaviour

ASSUME ParametersAssumption ==
    /\ Smoothed \subseteq Params
    /\ Values \subseteq Int /\ Infinite \subseteq Values
    /\ Default \in Values \ Infinite
    /\ Durations \subseteq Nat /\ Durations # {}
    /\ None \notin Int
    /\ Block \in Nat \ {0} /\ Batch \in Nat \ {0}
    /\ MaxCommands \in Nat

VARIABLES
    commands,       \* control_rx
    sent,           \* how many commands there have been
    wait,           \* the reply the handler waits for: "none", "queued", or
                    \* "pending" with a coalesced update
    pc,             \* the render thread: "commands", "poll" or "block"
    handled,        \* commands handled in this turn
    pending,        \* pending_param_updates: a value or None
    loads,          \* buffers that are being loaded
    playRequested, playing,
    session,        \* the RunSession
    last            \* history: the last value of the commands handled

client == <<commands, sent, wait>>
play == <<playRequested, playing>>
vars == <<client, pc, handled, pending, loads, play, session, last>>

NoUpdates == [p \in Params |-> None]

(***************************************************************************)
(* The run session: what is reported (param_values), what the program      *)
(* reads (the instance), and the ramps of ParamSmoothing.                  *)
(***************************************************************************)

\* smoothing_samples: a ramp within one block is none.
SmoothingSamples(duration) == IF duration > Block THEN duration ELSE 0

\* A session after settle: every ramp is at its target.
Settled(values, instance, samples, target) ==
    [values |-> values, instance |-> instance, samples |-> samples,
     started |-> FALSE,
     ramp |-> [p \in Smoothed |->
                  [current |-> target[p], start |-> target[p],
                   target |-> target[p], elapsed |-> samples,
                   active |-> FALSE]]]

Targets(s) == [p \in Smoothed |-> s.ramp[p].target]

Defaults == [p \in Params |-> Default]

NewSession(duration) ==
    Settled(NoUpdates, Defaults, SmoothingSamples(duration), Defaults)

\* param_info
Reported(s) ==
    [p \in Params |-> IF s.values[p] = None THEN Default ELSE s.values[p]]

\* set_param refuses a value before it changes anything.
Accepts(p, v) == p \in Smoothed \/ v \notin Infinite

\* set_target writes through instead of starting a ramp.
WritesThrough(s, p, v) ==
    \/ p \notin Smoothed
    \/ s.samples = 0 \/ ~s.started
    \/ v \in Infinite \/ s.ramp[p].current \in Infinite

\* Wrong variant: a value that is written through leaves the ramp's target.
SetTargetKeepsRamp(s, p, v) ==
    LET r == s.ramp[p] IN
    IF WritesThrough(s, p, v) THEN r
    ELSE IF v = r.target THEN r
    ELSE [current |-> r.current, start |-> r.current, target |-> v,
          elapsed |-> IF v = r.current THEN s.samples ELSE 0, active |-> TRUE]

\* ParamSmoothing::set_target
SetTarget(s, p, v) ==
    LET r == s.ramp[p] IN
    IF WritesThrough(s, p, v)
    THEN [r EXCEPT !.current = v, !.target = v, !.elapsed = s.samples]
    ELSE IF v = r.target THEN r
    ELSE [current |-> r.current, start |-> r.current, target |-> v,
          elapsed |-> IF v = r.current THEN s.samples ELSE 0, active |-> TRUE]

\* flush_pending_param_updates: set_param for each update that is pending,
\* in the order of a hash map, which makes no difference.
Accepted(u) == {p \in Params : u[p] # None /\ Accepts(p, u[p])}

SetParams(s, u) ==
    [values |-> [p \in Params |-> IF p \in Accepted(u) THEN u[p]
                                  ELSE s.values[p]],
     instance |-> [p \in Params |->
                      IF p \in Accepted(u) /\ WritesThrough(s, p, u[p])
                      THEN u[p] ELSE s.instance[p]],
     samples |-> s.samples, started |-> s.started,
     ramp |-> [p \in Smoothed |-> IF p \in Accepted(u)
                                  THEN SetTarget(s, p, u[p]) ELSE s.ramp[p]]]

\* reset_params
ResetParams(s) == Settled(NoUpdates, Defaults, s.samples, Defaults)

\* Wrong variant: what has elapsed is kept.
RetimedKeepsElapsed(s, n, r) == [r EXCEPT !.start = r.current]

\* ParamSmoothing::set_duration, for a ramp that is active: it starts again
\* from where it is, or ends at once.
Retimed(s, n, r) ==
    IF n = 0
    THEN [r EXCEPT !.current = r.target, !.start = r.target, !.elapsed = 0,
                   !.active = FALSE]
    ELSE [r EXCEPT !.start = r.current,
                   !.elapsed = IF r.elapsed = s.samples THEN n ELSE 0]

Moving(s) == {p \in Smoothed : s.ramp[p].active}

SetDuration(s, n) ==
    IF n = s.samples THEN s
    ELSE [values |-> s.values,
          instance |-> [p \in Params |-> IF n = 0 /\ p \in Moving(s)
                                         THEN s.ramp[p].target
                                         ELSE s.instance[p]],
          samples |-> n, started |-> s.started,
          ramp |-> [p \in Smoothed |-> IF p \in Moving(s)
                                       THEN Retimed(s, n, s.ramp[p])
                                       ELSE s.ramp[p]]]

\* restart and replace_prepared_buffer, when the new instance can be built:
\* it starts with the targets.
Rebuilt(s) == Settled(s.values, Reported(s), s.samples, Targets(s))

\* begin_block, with the value v[p] of each ramp that has not arrived.
Least(a, b) == IF a < b THEN a ELSE b

\* Wrong variant: the last part of a block does not count.
ElapsedWhole(s, r) ==
    IF s.samples - r.elapsed < Block THEN r.elapsed ELSE r.elapsed + Block

Elapsed(s, r) == r.elapsed + Least(Block, s.samples - r.elapsed)

Between(r, v) == \/ r.start <= v /\ v <= r.target
                 \/ r.target <= v /\ v <= r.start

Stepped(s, r, v) ==
    IF Elapsed(s, r) = s.samples
    THEN [r EXCEPT !.elapsed = s.samples, !.current = r.target,
                   !.active = FALSE]
    ELSE [r EXCEPT !.elapsed = Elapsed(s, r), !.current = v]

BlockBegun(s, v) ==
    LET ramp == [p \in Smoothed |-> IF p \in Moving(s)
                                    THEN Stepped(s, s.ramp[p], v[p])
                                    ELSE s.ramp[p]]
    IN  [values |-> s.values,
         instance |-> [p \in Params |-> IF p \in Moving(s)
                                        THEN ramp[p].current
                                        ELSE s.instance[p]],
         samples |-> s.samples, started |-> TRUE, ramp |-> ramp]

Interpolated(s, v) ==
    \A p \in Moving(s) : Between(s.ramp[p], v[p])
-----------------------------------------------------------------------------
Init ==
    /\ commands = <<>> /\ sent = 0 /\ wait = "none"
    /\ pc = "commands" /\ handled = 0 /\ pending = NoUpdates /\ loads = 0
    /\ playRequested = TRUE /\ playing = TRUE
    /\ \E d \in Durations : session = NewSession(d)
    /\ last = Defaults

(***************************************************************************)
(* The handler of a control client sends one command at a time, and waits  *)
(* for the reply to it unless the request has no id.                       *)
(***************************************************************************)
Send(command, waits) ==
    /\ wait = "none" /\ sent < MaxCommands
    /\ sent' = sent + 1
    /\ commands' = Append(commands, command)
    /\ wait' = IF waits THEN "queued" ELSE "none"
    /\ UNCHANGED <<pc, handled, pending, loads, play, session, last>>

SetCommands == [op : {"set"}, param : Params, value : Values, waits : BOOLEAN]
TriggerCommands == [op : {"trigger"}, waits : BOOLEAN]
DurationCommands == [op : {"duration"}, samples : Durations \cup {None}]
PlainCommands == [op : {"play", "pause", "reset", "get", "bind", "clear"}]

Client ==
    \/ \E c \in SetCommands \cup TriggerCommands : Send(c, c.waits)
    \/ \E c \in DurationCommands \cup PlainCommands : Send(c, TRUE)

(***************************************************************************)
(* The render thread: some commands, what is left of the updates, a buffer *)
(* that was loaded, a block.                                               *)
(***************************************************************************)
Command == Head(commands)

Receive(op) ==
    /\ pc = "commands" /\ handled < Batch /\ handled' = handled + 1
    /\ commands # <<>> /\ Command.op = op
    /\ commands' = Tail(commands)
    /\ UNCHANGED <<pc, sent>>

\* The replies of coalesced updates are sent with the flush, that of the
\* command with its result.
Reply == wait' = "none"

FlushReplies == wait' = IF wait = "pending" THEN "none" ELSE wait

\* The updates of a parameter are coalesced: the last value stays.
HandleSet ==
    /\ Receive("set")
    /\ pending' = [pending EXCEPT ![Command.param] = Command.value]
    /\ wait' = IF Command.waits THEN "pending" ELSE wait
    /\ last' = [last EXCEPT ![Command.param] = Command.value]
    /\ UNCHANGED <<loads, play, session>>

\* Most commands act on the session as the updates before them leave it.
Flushed == SetParams(session, pending)

Flush == pending' = NoUpdates

\* The instance may fail to be built, or, when it was, the publication of
\* what it printed: either is an error.
HandlePlay ==
    /\ Receive("play") /\ Flush /\ Reply
    /\ playRequested' = TRUE
    /\ \/ session' = Rebuilt(Flushed) /\ playing' \in BOOLEAN
       \/ session' = Flushed /\ playing' = FALSE
    /\ UNCHANGED <<loads, last>>

HandlePause ==
    /\ Receive("pause") /\ Reply
    /\ playRequested' = FALSE /\ playing' = FALSE
    /\ UNCHANGED <<pending, loads, session, last>>

HandleReset ==
    /\ Receive("reset") /\ Flush /\ Reply
    /\ session' = ResetParams(Flushed)
    /\ last' = Defaults
    /\ UNCHANGED <<loads, play>>

HandleDuration ==
    /\ Receive("duration") /\ Flush /\ Reply
    /\ session' = IF Command.samples = None THEN Flushed
                  ELSE SetDuration(Flushed, SmoothingSamples(Command.samples))
    /\ UNCHANGED <<loads, play, last>>

\* Wrong variant: parameters are read as they are.
HandleGetEarly ==
    /\ Receive("get") /\ Reply
    /\ UNCHANGED <<pending, loads, play, session, last>>

\* GetParams, GetBuffers, GetEvents
HandleGet ==
    /\ Receive("get") /\ Flush /\ Reply
    /\ session' = Flushed
    /\ UNCHANGED <<loads, play, last>>

\* TriggerEvent; a timed event runs later, and sees later updates as well.
HandleTrigger ==
    /\ Receive("trigger") /\ Flush
    /\ session' = Flushed
    /\ IF Command.waits THEN Reply ELSE FlushReplies
    /\ UNCHANGED <<loads, play, last>>

\* BindBufferWav goes to the buffer worker, which replies when it is done.
HandleBind ==
    /\ Receive("bind") /\ Reply
    /\ loads' = loads + 1
    /\ UNCHANGED <<pending, play, session, last>>

HandleClear ==
    /\ Receive("clear") /\ Flush /\ Reply
    /\ \/ session' = Rebuilt(Flushed) /\ playing' \in {playRequested, playing}
       \/ session' = Flushed /\ UNCHANGED playing
    /\ UNCHANGED <<playRequested, loads, last>>

EndCommands ==
    /\ pc = "commands" /\ (commands = <<>> \/ handled = Batch)
    /\ pc' = "poll" /\ handled' = 0
    /\ session' = Flushed /\ Flush /\ FlushReplies
    /\ UNCHANGED <<commands, sent, loads, play, last>>

\* A buffer that was loaded is bound, or is superseded or refused.
Commit ==
    /\ pc = "poll" /\ pc' = "block"
    /\ loads > 0 /\ loads' = loads - 1
    /\ \/ session' = Rebuilt(session) /\ playing' \in {playRequested, playing}
       \/ UNCHANGED <<session, playing>>
    /\ UNCHANGED <<client, handled, pending, playRequested, last>>

NothingLoaded ==
    /\ pc = "poll" /\ pc' = "block"
    /\ UNCHANGED <<client, handled, pending, loads, play, session, last>>

RenderBlock ==
    /\ pc = "block" /\ pc' = "commands"
    /\ playing
    /\ \E v \in [Smoothed -> Values \ Infinite] :
          /\ Interpolated(session, v)
          /\ session' = BlockBegun(session, v)
    /\ UNCHANGED <<client, handled, pending, loads, play, last>>

\* Nothing plays, or enough is rendered already.
NoBlock ==
    /\ pc = "block" /\ pc' = "commands"
    /\ UNCHANGED <<client, handled, pending, loads, play, session, last>>

Render ==
    \/ HandleSet \/ HandlePlay \/ HandlePause \/ HandleReset \/ HandleDuration
    \/ HandleGet \/ HandleTrigger \/ HandleBind \/ HandleClear
    \/ EndCommands \/ Commit \/ NothingLoaded \/ RenderBlock \/ NoBlock

Next == Client \/ Render

\* The thread runs, and the audio device takes what it rendered; the client
\* may be silent.
Spec == Init /\ [][Next]_vars /\ WF_vars(Render) /\ SF_vars(RenderBlock)
-----------------------------------------------------------------------------
Ramps == [current : Values, start : Values, target : Values, elapsed : Nat,
          active : BOOLEAN]

Sessions == [values : [Params -> Values \cup {None}],
             instance : [Params -> Values],
             samples : Nat, started : BOOLEAN,
             ramp : [Smoothed -> Ramps]]

Commands == SetCommands \cup TriggerCommands \cup DurationCommands
            \cup PlainCommands

TypeOK ==
    /\ commands \in Seq(Commands) /\ sent \in 0 .. MaxCommands
    /\ wait \in {"none", "queued", "pending"}
    /\ pc \in {"commands", "poll", "block"} /\ handled \in 0 .. Batch
    /\ pending \in [Params -> Values \cup {None}] /\ loads \in Nat
    /\ playRequested \in BOOLEAN /\ playing \in BOOLEAN
    /\ session \in Sessions
    /\ last \in [Params -> Values]

Agree(s) ==
    /\ \A p \in Smoothed : s.ramp[p].target = Reported(s)[p]
    /\ \A p \in Params \ Moving(s) : s.instance[p] = Reported(s)[p]

(***************************************************************************)
(* The three copies of a parameter agree: what is reported is the target   *)
(* of its ramp, and what the program reads unless the ramp is on its way.  *)
(* No sequence of updates, resets, new durations and new instances leaves  *)
(* the program with a value that nothing will change.                      *)
(***************************************************************************)
CopiesAgree == Agree(session)

Sound(s) ==
    /\ s.samples = 0 => Moving(s) = {}
    /\ \A p \in Moving(s) :
          /\ s.ramp[p].elapsed <= s.samples
          /\ s.ramp[p].elapsed < s.samples
             => {s.ramp[p].start, s.ramp[p].current, s.ramp[p].target}
                    \cap Infinite = {}

\* A ramp on its way has not gone past its end, so that what is left of it
\* can be subtracted (usize), and begin_block interpolates between finite
\* values, so that no NaN reaches the program.
RampsAreSound == Sound(session)

\* A command that reads parameters, runs an event or rebuilds the instance
\* acts on the last value of each parameter set before it.  A value that is
\* refused may have replaced one that was not, which is then lost.
Reads == HandleGet \/ HandleTrigger \/ HandlePlay \/ HandleClear \/ HandleReset

ReadsFollowWrites ==
    [][Reads => \A p \in Params :
           Accepts(p, last'[p]) => Reported(session')[p] = last'[p]]_vars

\* While it plays, every parameter ends up at the value that is reported,
\* whatever the durations its ramps had.
RampsArrive ==
    <>[]playing => <>[](session.instance = Reported(session))
=============================================================================
