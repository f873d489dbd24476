----------------------------- MODULE OutputPath -----------------------------
(***************************************************************************)
(* From the render loop of onda_run to the device callback of onda_cpal:   *)
(* priming the output ring, keeping it RENDER_AHEAD_BLOCKS ahead, counting *)
(* the frames the callback had to replace by silence, and the end of the   *)
(* run, on a signal, after its duration, or by an error of a block or of a *)
(* stream.                                                                 *)
(*                                                                         *)
(* Four threads take steps: the render thread, the device's output         *)
(* callback, the main thread of play_run_realtime (prefill, the monitor of *)
(* wait_for_playback_completion, the joins), and the control client        *)
(* through the commands the render thread finds.  The ring is the bounded  *)
(* queue that SampleRing implements; only its length matters here, and the *)
(* load of the other side's index stays a step apart from the store of     *)
(* one's own.                                                              *)
(***************************************************************************)
EXTENDS Integers

CONSTANTS
    Capacity,        \* slots of the output ring
    Channels,        \* output channels of the program
    BlockFrames,     \* launch.block_samples
    AheadBlocks,     \* RENDER_AHEAD_BLOCKS
    CallbackFrames,  \* frames of a device period
    CommandsPerBlock,\* MAX_CONTROL_COMMANDS_PER_RENDER_BLOCK
    MaxFrames        \* bound of the underrun counter, usize::MAX in the code

ASSUME OutputPathAssumption ==
    /\ {Channels, BlockFrames, AheadBlocks, CallbackFrames,
        CommandsPerBlock, MaxFrames} \subseteq Nat \ {0}
    /\ Capacity \in Nat /\ Capacity >= Channels

VARIABLES
    queued,    \* samples in the ring
    rpc,       \* where the render thread is
    rest,      \* samples of the rendered block that are not yet pushed
    written,   \* what push_slice found room for
    handled,   \* commands handled in this iteration of the loop
    playRequested,
    playing,   \* play_requested and playing of the loop
    expected,  \* StreamErrorState::output_expected
    underrun,  \* StreamErrorState::output_underrun_frames
    cpc,       \* where the callback is
    consumed,  \* the count consume computed
    missing,   \* the frames it could not supply
    stream,    \* the output stream: "none", "open" or "dropped"
    mpc,       \* where the main thread is
    outcome,   \* playback_result, then the result of the run
    reported,  \* reported_underrun
    stopping,  \* stop_flag
    signalled, \* RUN_TERMINATION_REQUESTED
    failed,    \* render_error is set
    broken,    \* StreamErrorState::message is some error
    fresh,     \* history: accounting was not disabled since the callback
               \* saw it enabled
    own        \* history: frames counted by callbacks that saw accounting
               \* enabled in the present interval

playVars == <<playRequested, playing>>
renderVars == <<rpc, rest, written, handled, playVars>>
callbackVars == <<cpc, consumed, missing>>
endVars == <<stopping, signalled, failed, broken>>
mainVars == <<stream, mpc, outcome, reported, endVars>>
countVars == <<expected, underrun, fresh, own>>
vars == <<queued, renderVars, countVars, callbackVars, mainVars>>

MinOf(a, b) == IF a < b THEN a ELSE b

BlockLen == BlockFrames * Channels

\* Wrong variant: the ring's capacity is not considered.
RenderAheadUncapped == BlockLen * AheadBlocks

\* render_ahead_samples: whole frames, and never more than the ring holds.
RenderAhead == MinOf(BlockLen * AheadBlocks, Capacity - (Capacity % Channels))

Init == /\ queued = 0
        /\ rpc = "head" /\ rest = 0 /\ written = 0 /\ handled = 0
        /\ playRequested = TRUE /\ playing = TRUE
        /\ expected = FALSE /\ underrun = 0 /\ fresh = FALSE /\ own = 0
        /\ cpc = "idle" /\ consumed = 0 /\ missing = 0
        /\ stream = "none" /\ mpc = "prefill" /\ outcome = "ok"
        /\ reported = FALSE
        /\ stopping = FALSE /\ signalled = FALSE
        /\ failed = FALSE /\ broken = FALSE
-----------------------------------------------------------------------------
(* StreamErrorState::set_output_expected, called by the render thread.     *)

\* set_output_expected(false): the flag first; the callbacks that saw it
\* enabled are now late.  The count follows in ClearCount.
DisableFlag == /\ expected' = FALSE
               /\ fresh' = FALSE
               /\ own' = 0
               /\ UNCHANGED underrun

\* Wrong variant: the count of an earlier interval is kept.
ClearCountForgotten == UNCHANGED countVars

ClearCount == /\ underrun' = 0
              /\ UNCHANGED <<expected, fresh, own>>
-----------------------------------------------------------------------------
(* The render thread.                                                      *)

\* The loop tests the stop flag once per iteration.
Head_ == /\ rpc = "head"
         /\ rpc' = IF stopping THEN "exited" ELSE "commands"
         /\ UNCHANGED <<queued, rest, written, handled, playVars, countVars,
                        callbackVars, mainVars>>

TakeCommand == /\ rpc = "commands"
               /\ handled < CommandsPerBlock
               /\ handled' = handled + 1
               /\ DisableFlag
               /\ UNCHANGED <<queued, rest, written, callbackVars, mainVars>>

Pause == /\ TakeCommand
         /\ playRequested' = FALSE
         /\ playing' = FALSE
         /\ rpc' = "clearCommand"

\* The instance is rebuilt; when that fails playing stays what it was.
ClearBuffer(ok) == /\ TakeCommand
                   /\ playing' = IF ok THEN playRequested ELSE playing
                   /\ rpc' = "clearCommand"
                   /\ UNCHANGED playRequested

\* Play disables accounting, then waits up to 75 ms for the ring to drain.
Play == /\ TakeCommand
        /\ playRequested' = TRUE
        /\ rpc' = "clearPlay"
        /\ UNCHANGED playing

\* The second store of set_output_expected(false), wherever it was called.
ClearAfter(from, to) == /\ rpc = from
                        /\ rpc' = to
                        /\ ClearCount
                        /\ UNCHANGED <<queued, rest, written, playVars, callbackVars, mainVars>>

ClearAfterCommand == /\ ClearAfter("clearCommand", "commands")
                     /\ UNCHANGED handled

ClearAfterPlay == /\ ClearAfter("clearPlay", "drain")
                  /\ UNCHANGED handled

\* The ring is empty or the deadline has passed; the restart may fail.
Restart(ok) == /\ rpc = "drain"
               /\ playing' = (playRequested /\ ok)
               /\ rpc' = "commands"
               /\ UNCHANGED <<queued, rest, written, handled, playRequested,
                              countVars, callbackVars, mainVars>>

NoMoreCommands == /\ rpc = "commands"
                  /\ rpc' = "poll"
                  /\ UNCHANGED <<queued, rest, written, handled, playVars, countVars, callbackVars, mainVars>>

\* buffer_worker.poll finds nothing, or a superseded load ...
NothingToCommit == /\ rpc = "poll"
                   /\ rpc' = "decide"
                   /\ UNCHANGED <<queued, rest, written, handled,
                                  playVars, countVars,
                                  callbackVars, mainVars>>

\* ... or a current one, which is bound unless loading or rebuilding failed.
CommitLoaded(ok) == /\ rpc = "poll"
                    /\ rpc' = "clearPoll"
                    /\ playing' = IF ok THEN playRequested ELSE playing
                    /\ DisableFlag
                    /\ UNCHANGED <<queued, rest, written, handled,
                                   playRequested, callbackVars, mainVars>>

ClearAfterCommit == /\ ClearAfter("clearPoll", "decide")
                    /\ UNCHANGED handled

NotPlaying == /\ rpc = "decide"
              /\ ~playing
              /\ rpc' = "clearIdle"
              /\ DisableFlag
              /\ UNCHANGED <<queued, rest, written, handled, playVars,
                             callbackVars, mainVars>>

ClearAfterIdle == /\ ClearAfter("clearIdle", "head")
                  /\ handled' = 0

\* The ring is far enough ahead; set_output_expected(true) when it is off.
AheadDisabled == /\ rpc = "decide"
                 /\ playing
                 /\ queued >= RenderAhead
                 /\ ~expected
                 /\ rpc' = "enable"
                 /\ ClearCount
                 /\ UNCHANGED <<queued, rest, written, handled, playVars,
                                callbackVars, mainVars>>

EnableFlag == /\ rpc = "enable"
              /\ expected' = TRUE
              /\ rpc' = "head"
              /\ handled' = 0
              /\ UNCHANGED <<queued, rest, written, playVars, underrun, fresh,
                             own, callbackVars, mainVars>>

AheadEnabled == /\ rpc = "decide"
                /\ playing
                /\ queued >= RenderAhead
                /\ expected
                /\ rpc' = "head"
                /\ handled' = 0
                /\ UNCHANGED <<queued, rest, written, playVars, countVars,
                               callbackVars, mainVars>>

RenderBlock == /\ rpc = "decide"
               /\ playing
               /\ queued < RenderAhead
               /\ rest' = BlockLen
               /\ rpc' = "push"
               /\ UNCHANGED <<queued, written, handled, playVars, countVars,
                              callbackVars, mainVars>>

\* The block fails: the error is stored, then the stop flag.
RenderFails == /\ rpc = "decide"
               /\ playing
               /\ queued < RenderAhead
               /\ failed' = TRUE
               /\ rpc' = "failed"
               /\ UNCHANGED <<queued, rest, written, handled, playVars,
                              countVars, callbackVars, stream, mpc, outcome,
                              reported, stopping, signalled, broken>>

StopOnFailure == /\ rpc = "failed"
                 /\ stopping' = TRUE
                 /\ rpc' = "exited"
                 /\ UNCHANGED <<queued, rest, written, handled, playVars,
                                countVars, callbackVars, stream, mpc, outcome,
                                reported, signalled, failed, broken>>

\* Wrong variant: only the end of the block ends the loop.
PushingEndless == rpc = "push"

\* The push loop tests the stop flag, as nobody may read the ring any more.
Pushing == rpc = "push" /\ ~stopping

PushAbandoned == /\ rpc = "push" /\ ~Pushing
                 /\ rpc' = "head"
                 /\ rest' = 0 /\ handled' = 0
                 /\ UNCHANGED <<queued, written, playVars, countVars,
                                callbackVars, mainVars>>

\* Wrong variant: the whole block or nothing.
PushLoadWhole == /\ Pushing
                 /\ written' = IF rest <= Capacity - queued THEN rest ELSE 0
                 /\ rpc' = "publish"
                 /\ UNCHANGED <<queued, rest, handled, playVars, countVars,
                                callbackVars, mainVars>>

\* push_slice: what there is room for when it loads the read index ...
PushLoad == /\ Pushing
            /\ written' = MinOf(rest, Capacity - queued)
            /\ rpc' = "publish"
            /\ UNCHANGED <<queued, rest, handled, playVars, countVars,
                           callbackVars, mainVars>>

\* ... is published, and the loop goes on until the whole block is in.
PushPublish == /\ rpc = "publish"
               /\ queued' = queued + written
               /\ rest' = rest - written
               /\ written' = 0
               /\ IF rest' = 0
                  THEN rpc' = "head" /\ handled' = 0
                  ELSE rpc' = "push" /\ UNCHANGED handled
               /\ UNCHANGED <<playVars, countVars, callbackVars, mainVars>>

RenderStep == \/ Head_
              \/ Pause
              \/ Play
              \/ \E ok \in BOOLEAN :
                    ClearBuffer(ok) \/ Restart(ok) \/ CommitLoaded(ok)
              \/ ClearAfterCommand \/ ClearAfterPlay \/ ClearAfterCommit
              \/ NoMoreCommands \/ NothingToCommit
              \/ NotPlaying \/ ClearAfterIdle
              \/ AheadDisabled \/ EnableFlag \/ AheadEnabled
              \/ RenderBlock \/ RenderFails \/ StopOnFailure
              \/ PushAbandoned \/ PushLoad \/ PushPublish
-----------------------------------------------------------------------------
(* The output callback: write_output_data, then record_output_underrun.    *)

RequestLen == CallbackFrames * Channels

Aligned(count) == count - (count % Channels)

CallbackLoad == /\ stream = "open"
                /\ cpc = "idle"
                /\ consumed' = Aligned(MinOf(RequestLen, queued))
                /\ cpc' = "consume"
                /\ UNCHANGED <<queued, missing, renderVars, countVars, mainVars>>

CallbackConsume == /\ cpc = "consume"
                   /\ queued' = queued - consumed
                   /\ missing' = (RequestLen - consumed) \div Channels
                   /\ consumed' = 0
                   /\ cpc' = IF missing' # 0 THEN "record" ELSE "idle"
                   /\ UNCHANGED <<renderVars, countVars, mainVars>>

RecordLoad == /\ cpc = "record"
              /\ cpc' = IF expected THEN "add" ELSE "idle"
              /\ fresh' = expected
              /\ UNCHANGED <<queued, consumed, missing, renderVars, expected,
                             underrun, own, mainVars>>

RecordAdd == /\ cpc = "add"
             /\ underrun' = MinOf(underrun + missing, MaxFrames)
             /\ own' = IF fresh THEN MinOf(own + missing, MaxFrames) ELSE own
             /\ fresh' = FALSE
             /\ cpc' = "idle"
             /\ UNCHANGED <<queued, consumed, missing, renderVars, expected,
                            mainVars>>

CallbackStep == CallbackLoad \/ CallbackConsume \/ RecordLoad \/ RecordAdd
-----------------------------------------------------------------------------
(* The main thread.  Its joins of the control server and of the printer,   *)
(* which follow that of the render thread, are in OutputWorker.            *)

MainGoes(from, to) == /\ mpc = from
                      /\ mpc' = to
                      /\ UNCHANGED <<queued, renderVars, countVars,
                                     callbackVars>>

Keep == UNCHANGED <<stream, outcome, reported, endVars>>

Fail == outcome' = "error" /\ UNCHANGED <<stream, reported, endVars>>

SetStop == /\ stopping' = TRUE
           /\ UNCHANGED <<stream, outcome, reported, signalled, failed,
                          broken>>

\* wait_for_prefill: the ring and the stop flag are tested, ...
Primed == /\ MainGoes("prefill", "primed")
          /\ queued >= RenderAhead \/ stopping
          /\ Keep

NotPrimed == /\ MainGoes("prefill", "signal")
             /\ queued < RenderAhead /\ ~stopping
             /\ Keep

\* ... then the signal, and then the error of the render thread.
PrefillSignalled == /\ MainGoes("signal", "primed") /\ signalled /\ SetStop

PrefillGoesOn == /\ MainGoes("signal", "error") /\ ~signalled /\ Keep

PrefillFailed == /\ MainGoes("error", "done") /\ failed /\ Fail

PrefillWaits == /\ MainGoes("error", "prefill") /\ ~failed /\ Keep

\* The run stopped before it was heard: joins, and no error.
StopEarly == /\ MainGoes("primed", "joinEarly") /\ stopping /\ Keep

JoinEarly == /\ MainGoes("joinEarly", "done") /\ rpc = "exited" /\ Keep

\* The stream is built and played.
StartStream == /\ MainGoes("primed", "monitor") /\ ~stopping
               /\ stream' = "open"
               /\ UNCHANGED <<outcome, reported, endVars>>

StreamRefused == /\ MainGoes("primed", "done") /\ ~stopping /\ Fail

\* wait_for_playback_completion: the reasons to stop in the order of their
\* tests, of which the duration of the run is one, ...
EndSignalled == /\ MainGoes("monitor", "finish") /\ signalled /\ SetStop

EndStopped == /\ MainGoes("monitor", "finish") /\ ~signalled /\ Keep

KeepsPlaying == /\ MainGoes("monitor", "errors")
                /\ ~signalled /\ ~stopping
                /\ Keep

\* ... then the errors, ...
EndFailed == /\ MainGoes("errors", "finish")
             /\ failed \/ broken
             /\ Fail

NoError == /\ MainGoes("errors", "poll") /\ ~failed /\ ~broken /\ Keep

\* ... and output_underrun_frames, which is two loads.
MonitorPoll == /\ MainGoes("poll", IF ~reported /\ expected THEN "read"
                                   ELSE "monitor")
               /\ Keep

MonitorRead == /\ MainGoes("read", "monitor")
               /\ reported' = (underrun # 0)
               /\ UNCHANGED <<stream, outcome, endVars>>

Finish == /\ MainGoes("finish", "drop") /\ SetStop

\* The drop of a stream waits for its callback.
DropStream == /\ MainGoes("drop", "dropping")
              /\ stream' = "dropped"
              /\ UNCHANGED <<outcome, reported, endVars>>

StreamDropped == /\ MainGoes("dropping", "join") /\ cpc = "idle" /\ Keep

\* Wrong variant: only what the monitor saw is reported.
JoinUnread == /\ MainGoes("join", "done")
              /\ rpc = "exited"
              /\ Keep

\* The errors are read again after the join.
Join == /\ MainGoes("join", "done")
        /\ rpc = "exited"
        /\ outcome' = IF failed \/ broken THEN "error" ELSE outcome
        /\ UNCHANGED <<stream, reported, endVars>>

MainStep == \/ Primed \/ NotPrimed \/ PrefillSignalled \/ PrefillGoesOn
            \/ PrefillFailed \/ PrefillWaits \/ StopEarly \/ JoinEarly
            \/ StartStream \/ StreamRefused
            \/ EndSignalled \/ EndStopped \/ KeepsPlaying
            \/ EndFailed \/ NoError \/ MonitorPoll \/ MonitorRead
            \/ Finish \/ DropStream \/ StreamDropped \/ Join
-----------------------------------------------------------------------------
(* A signal; an error that a stream reports through its callback.          *)

Signal == /\ ~signalled
          /\ signalled' = TRUE
          /\ UNCHANGED <<queued, renderVars, countVars, callbackVars, stream,
                         mpc, outcome, reported, stopping, failed, broken>>

StreamBreaks == /\ stream = "open" /\ ~broken
                /\ broken' = TRUE
                /\ UNCHANGED <<queued, renderVars, countVars, callbackVars,
                               stream, mpc, outcome, reported, stopping,
                               signalled, failed>>

Terminated == mpc = "done"
-----------------------------------------------------------------------------
\* With the main thread the process ends.
Running == ~Terminated

Next == \/ MainStep
        \/ Running /\ (RenderStep \/ CallbackStep \/ Signal \/ StreamBreaks)
        \/ (Terminated /\ UNCHANGED vars)

\* The operating system runs the three threads and the device calls back.
Fairness == /\ WF_vars(Running /\ RenderStep)
            /\ WF_vars(Running /\ CallbackStep)
            /\ WF_vars(MainStep)

Spec == Init /\ [][Next]_vars /\ Fairness
-----------------------------------------------------------------------------
FlagsOK ==
    /\ playRequested \in BOOLEAN /\ playing \in BOOLEAN
    /\ expected \in BOOLEAN /\ fresh \in BOOLEAN /\ reported \in BOOLEAN
    /\ stopping \in BOOLEAN /\ signalled \in BOOLEAN
    /\ failed \in BOOLEAN /\ broken \in BOOLEAN

TypeOK ==
    /\ FlagsOK
    /\ queued \in 0 .. Capacity
    /\ rpc \in {"head", "commands", "clearCommand", "clearPlay", "drain",
                "poll", "clearPoll", "decide", "clearIdle", "enable", "push",
                "publish", "failed", "exited"}
    /\ rest \in 0 .. BlockLen /\ written \in 0 .. rest
    /\ handled \in 0 .. CommandsPerBlock
    /\ stream \in {"none", "open", "dropped"} /\ outcome \in {"ok", "error"}
    /\ underrun \in 0 .. MaxFrames /\ own \in 0 .. MaxFrames
    /\ cpc \in {"idle", "consume", "record", "add"}
    /\ consumed \in 0 .. queued
    /\ missing \in 0 .. CallbackFrames
    /\ mpc \in {"prefill", "signal", "error", "primed", "joinEarly",
                "monitor", "errors", "poll", "read", "finish", "drop",
                "dropping", "join", "done"}

(***************************************************************************)
(* record_output_underrun reads the flag and adds to the counter in two    *)
(* steps, so set_output_expected can slip between them.  The damage is     *)
(* bounded: while accounting is enabled the counter holds every frame that *)
(* the callbacks of this interval missed, and beyond them the frames of at *)
(* most one late callback.                                                 *)
(***************************************************************************)
AtMostOneLateRecord ==
    expected => own <= underrun /\ underrun <= own + CallbackFrames

(***************************************************************************)
(* The comment on set_output_expected: "Transitions clear stale counts     *)
(* from an earlier playback interval."  While accounting is enabled, the   *)
(* counter holds nothing but frames of callbacks of this interval.         *)
(***************************************************************************)
StaleCountsAreCleared == expected => underrun = own

(***************************************************************************)
(* A run that ends without an error had none, whenever the render thread   *)
(* or a stream failed: also between the last look of the monitor and the   *)
(* end of the thread.  A block that fails during the prefill is excepted:  *)
(* the stop flag that it sets may be seen before its error, and the run    *)
(* then ends as one that was stopped.                                      *)
(***************************************************************************)
FailuresAreReported ==
    mpc = "done" /\ outcome = "ok" /\ stream = "dropped" => ~failed /\ ~broken

(***************************************************************************)
(* A signal or a failure ends the run at any point: the main thread joins  *)
(* a render thread that may be waiting for room in a ring that nobody      *)
(* reads any more, or be far ahead with nothing to do.                     *)
(***************************************************************************)
RunEnds == signalled \/ stopping \/ failed \/ broken ~> mpc = "done"

(***************************************************************************)
(* A run that is left playing gets past its prefill and starts the output  *)
(* stream, also when the ring is smaller than a rendered block and the     *)
(* render thread is stuck pushing with nobody consuming yet; or it ends.   *)
(***************************************************************************)
PrefillCompletes == <>[]playing => <>(stream # "none" \/ mpc = "done")

(***************************************************************************)
(* The push loop ends: a block rendered in the prefill or during playback  *)
(* is eventually in the ring, however it and the device's period relate to *)
(* the capacity and the frame size, or the run has stopped; if the process *)
(* does not end before.                                                    *)
(***************************************************************************)
PushLoopEnds == rpc = "push" ~> rpc \in {"head", "exited"} \/ mpc = "done"
=============================================================================
