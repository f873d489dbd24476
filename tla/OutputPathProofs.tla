-------------------------- MODULE OutputPathProofs --------------------------
(***************************************************************************)
(* Proofs about OutputPath, for every ring, block, period and frame size,  *)
(* every number of commands between two blocks and every bound of the      *)
(* counter.                                                                *)
(***************************************************************************)
EXTENDS OutputPath, TLAPS

\* A callback that saw accounting enabled in an interval that has ended and
\* has not added its frames yet.
Late == cpc = "add" /\ ~fresh

\* The counter was cleared for the interval that begins, or it has begun.
Counting == expected \/ rpc = "enable"

\* Between the two stores of set_output_expected.
Switching == rpc \in {"clearCommand", "clearPlay", "clearPoll", "clearIdle",
                      "enable"}

\* No second late callback can appear while one interval lasts: what may be
\* counted beyond the callbacks of the interval is one period, and nothing
\* while the late callback has yet to add it.
CountInv ==
    /\ Switching => ~expected
    /\ fresh => expected /\ cpc = "add"
    /\ ~expected => own = 0
    /\ Counting => own <= underrun
    /\ Counting /\ Late => underrun <= own
    /\ Counting => underrun <= own + CallbackFrames

\* The callback only makes room while a part of a block is written, and
\* nothing else is; what it is about to take is no more than its request.
RoomInv ==
    /\ IF rpc = "publish" THEN queued + written <= Capacity ELSE written = 0
    /\ consumed <= RequestLen

\* The stream is open from its start to the end of the monitor and dropped
\* before the render thread is joined.
StreamInv ==
    /\ stream = "none" => mpc \in {"prefill", "signal", "error", "primed",
                                   "joinEarly", "done"}
    /\ stream = "open" => mpc \in {"monitor", "errors", "poll", "read",
                                   "finish", "drop"}
    /\ stream = "dropped" => mpc \in {"dropping", "join", "done"}

Inv == TypeOK /\ CountInv /\ RoomInv /\ StreamInv /\ FailuresAreReported

\* No size is zero, and a block and a request are whole numbers of samples.
LEMMA Lengths ==
    /\ Capacity \in Nat /\ Channels \in Nat /\ Channels > 0
    /\ CallbackFrames \in Nat /\ CommandsPerBlock \in Nat /\ MaxFrames \in Nat
    /\ BlockLen \in Nat /\ RequestLen \in Nat
    /\ RequestLen = CallbackFrames * Channels
BY OutputPathAssumption, SMT DEF BlockLen, RequestLen

\* What consume takes is in the ring and was asked for.
LEMMA ConsumedIsThere ==
    ASSUME queued \in Nat
    PROVE  /\ Aligned(MinOf(RequestLen, queued)) \in 0 .. queued
           /\ Aligned(MinOf(RequestLen, queued)) <= RequestLen
<1> DEFINE m == MinOf(RequestLen, queued)
<1>1. m \in Nat /\ m <= queued /\ m <= RequestLen
  BY Lengths, SMT DEF MinOf
<1>2. m % Channels \in Nat /\ m % Channels <= m
  BY <1>1, OutputPathAssumption, SMT
<1> QED
  BY <1>1, <1>2, Lengths, SMT DEF Aligned

\* A larger quotient means at least one more divisor.
LEMMA MoreFrames ==
    ASSUME NEW c \in Nat, NEW p \in Nat, NEW q \in Nat, p > q
    PROVE  p * c >= q * c + c
<1> DEFINE d == p - (q + 1)
<1>1. d \in Nat /\ p = q + 1 + d
  BY SMT
<1> HIDE DEF d
<1>2. p * c = q * c + c + d * c
  BY <1>1, SMT
<1>3. d * c >= 0
  BY <1>1, SMT
<1> QED
  BY <1>1, <1>2, <1>3, SMT

\* Rounding down to whole frames: a callback misses at most its period.
LEMMA MissingIsBounded ==
    ASSUME NEW n \in 0 .. RequestLen
    PROVE  (RequestLen - n) \div Channels \in 0 .. CallbackFrames
<1> DEFINE q == (RequestLen - n) \div Channels
<1>1. RequestLen - n \in Nat /\ RequestLen - n <= RequestLen
  BY Lengths, SMT
<1>2. q \in Nat /\ q * Channels <= RequestLen - n
  BY <1>1, Lengths, SMT
<1> HIDE DEF q
<1>3. q > CallbackFrames => q * Channels >= CallbackFrames * Channels + Channels
  BY <1>2, Lengths, MoreFrames
<1>4. q <= CallbackFrames
  BY <1>1, <1>2, <1>3, Lengths, SMT
<1> QED
  BY <1>2, <1>4, Lengths, SMT DEF q
-----------------------------------------------------------------------------
\* No flag is ever anything but a flag.
LEMMA FlagsStayFlags == FlagsOK /\ [Next]_vars => FlagsOK'
<1> SUFFICES ASSUME FlagsOK, [Next]_vars PROVE FlagsOK'
  OBVIOUS
<1> USE DEF FlagsOK, vars, playVars, callbackVars, endVars, mainVars,
            countVars, renderVars
<1>1. CASE RenderStep
  <2>1. ASSUME NEW ok \in BOOLEAN,
               ClearBuffer(ok) \/ Restart(ok) \/ CommitLoaded(ok)
        PROVE  FlagsOK'
    BY <2>1, ZenonT(60)
       DEF ClearBuffer, Restart, CommitLoaded, TakeCommand, DisableFlag
  <2>2. CASE Head_ \/ Pause \/ Play \/ NoMoreCommands \/ NothingToCommit
             \/ NotPlaying
    BY <2>2, ZenonT(60) DEF Head_, Pause, Play, NoMoreCommands, NothingToCommit,
                NotPlaying, TakeCommand, DisableFlag
  <2>3. CASE ClearAfterCommand \/ ClearAfterPlay \/ ClearAfterCommit
             \/ ClearAfterIdle
    BY <2>3, ZenonT(60) DEF ClearAfterCommand, ClearAfterPlay, ClearAfterCommit,
                ClearAfterIdle, ClearAfter, ClearCount
  <2>4. CASE AheadDisabled \/ EnableFlag \/ AheadEnabled
    BY <2>4, ZenonT(60) DEF AheadDisabled, EnableFlag, AheadEnabled, ClearCount
  <2>5. CASE RenderBlock \/ RenderFails \/ StopOnFailure
    BY <2>5, ZenonT(60) DEF RenderBlock, RenderFails, StopOnFailure
  <2>6. CASE PushAbandoned \/ PushLoad \/ PushPublish
    BY <2>6, ZenonT(60) DEF PushAbandoned, PushLoad, PushPublish
  <2> QED
    BY <1>1, <2>1, <2>2, <2>3, <2>4, <2>5, <2>6 DEF RenderStep
<1>2. CASE CallbackStep
  BY <1>2, ZenonT(60) DEF CallbackStep, CallbackLoad, CallbackConsume, RecordLoad,
              RecordAdd
<1>3. CASE MainStep
  <2> USE DEF MainGoes, Keep, Fail, SetStop
  <2>1. CASE Primed \/ NotPrimed \/ PrefillSignalled \/ PrefillGoesOn
             \/ PrefillFailed \/ PrefillWaits \/ StopEarly \/ JoinEarly
    BY <2>1, ZenonT(60) DEF Primed, NotPrimed, PrefillSignalled, PrefillGoesOn,
                PrefillFailed, PrefillWaits, StopEarly, JoinEarly
  <2>2. CASE StartStream \/ StreamRefused \/ EndSignalled \/ EndStopped
             \/ KeepsPlaying \/ EndFailed \/ NoError \/ MonitorPoll
    BY <2>2, ZenonT(60) DEF StartStream, StreamRefused, EndSignalled, EndStopped,
                KeepsPlaying, EndFailed, NoError, MonitorPoll
  <2>3. CASE MonitorRead \/ Finish \/ DropStream \/ StreamDropped \/ Join
    BY <2>3, ZenonT(60) DEF MonitorRead, Finish, DropStream, StreamDropped, Join
  <2> QED
    BY <1>3, <2>1, <2>2, <2>3 DEF MainStep
<1>4. CASE Signal \/ StreamBreaks \/ UNCHANGED vars
  BY <1>4 DEF Signal, StreamBreaks
<1> QED
  BY <1>1, <1>2, <1>3, <1>4 DEF Next
\* Nothing is rendered, counted or open when play_run_realtime begins.
LEMMA InitInv == Init => Inv
<1>1. Init => FlagsOK
  BY DEF Init, FlagsOK
<1> QED
  BY <1>1, Lengths DEF Init, Inv, TypeOK, CountInv, RoomInv, StreamInv,
    FailuresAreReported, Late, Counting, Switching

\* The render thread: a command, a commit and an idle turn disable the
\* accounting in two steps, being far enough ahead enables it in two.
LEMMA RenderStepInv ==
    ASSUME Inv, Running, RenderStep
    PROVE  Inv'
<1>0. FlagsOK'
  BY FlagsStayFlags DEF Inv, TypeOK, Next
<1> USE Lengths
    DEF Inv, TypeOK, CountInv, RoomInv, StreamInv, FailuresAreReported,
        Late, Counting, Switching, Running, Terminated, playVars, callbackVars,
        endVars, mainVars, countVars, renderVars
<1>1. CASE Head_
  BY <1>0, <1>1, SMT DEF Head_
<1>2. CASE Pause
  BY <1>0, <1>2, SMT DEF Pause, TakeCommand, DisableFlag
<1>3. CASE Play
  BY <1>0, <1>3, SMT DEF Play, TakeCommand, DisableFlag
<1>4. ASSUME NEW ok \in BOOLEAN, ClearBuffer(ok) PROVE Inv'
  BY <1>0, <1>4, SMT DEF ClearBuffer, TakeCommand, DisableFlag
<1>5. ASSUME NEW ok \in BOOLEAN, Restart(ok) PROVE Inv'
  BY <1>0, <1>5, SMT DEF Restart
<1>6. ASSUME NEW ok \in BOOLEAN, CommitLoaded(ok) PROVE Inv'
  BY <1>0, <1>6, SMT DEF CommitLoaded, DisableFlag
<1>7. CASE ClearAfterCommand \/ ClearAfterPlay \/ ClearAfterCommit
           \/ ClearAfterIdle
  BY <1>0, <1>7, SMT DEF ClearAfterCommand, ClearAfterPlay, ClearAfterCommit,
                   ClearAfterIdle, ClearAfter, ClearCount
<1>8. CASE NoMoreCommands \/ NothingToCommit
  BY <1>0, <1>8, SMT DEF NoMoreCommands, NothingToCommit
<1>9. CASE NotPlaying
  BY <1>0, <1>9, SMT DEF NotPlaying, DisableFlag
<1>10. CASE AheadDisabled
  BY <1>0, <1>10, SMT DEF AheadDisabled, ClearCount
<1>11. CASE EnableFlag \/ AheadEnabled
  BY <1>0, <1>11, SMT DEF EnableFlag, AheadEnabled
<1>12. CASE RenderBlock \/ RenderFails \/ StopOnFailure
  BY <1>0, <1>12, SMT DEF RenderBlock, RenderFails, StopOnFailure
<1>13. CASE PushAbandoned \/ PushLoad
  BY <1>0, <1>13, SMT DEF PushAbandoned, Pushing, PushLoad, MinOf
<1>14. CASE PushPublish
  <2>1. CASE rest' = 0
    BY <1>0, <1>14, <2>1, SMT DEF PushPublish
  <2>2. CASE rest' # 0
    BY <1>0, <1>14, <2>2, SMT DEF PushPublish
  <2> QED
    BY <2>1, <2>2
<1> QED
  BY <1>1, <1>2, <1>3, <1>4, <1>5, <1>6, <1>7, <1>8, <1>9, <1>10, <1>11,
     <1>12, <1>13, <1>14 DEF RenderStep

\* The callback: the second of its two steps may be late, the first never
\* starts a late one.
LEMMA CallbackStepInv ==
    ASSUME Inv, Running, CallbackStep
    PROVE  Inv'
<1>0. FlagsOK'
  BY FlagsStayFlags DEF Inv, TypeOK, Next
<1> USE Lengths
    DEF Inv, TypeOK, CountInv, RoomInv, StreamInv, FailuresAreReported,
        Late, Counting, Switching, Running, Terminated, playVars, callbackVars,
        endVars, mainVars, countVars, renderVars
<1>1. CASE CallbackLoad
  BY <1>0, <1>1, ConsumedIsThere, SMT DEF CallbackLoad
<1>2. CASE CallbackConsume
  BY <1>0, <1>2, MissingIsBounded, SMT DEF CallbackConsume
<1>3. CASE RecordLoad
  BY <1>0, <1>3, SMT DEF RecordLoad
<1>4. CASE RecordAdd
  BY <1>0, <1>4, SMT DEF RecordAdd, MinOf
<1> QED
  BY <1>1, <1>2, <1>3, <1>4 DEF CallbackStep

\* The main thread: only what happens to the stream and the result matters.
LEMMA MainStepInv ==
    ASSUME Inv, MainStep
    PROVE  Inv'
<1>0. FlagsOK'
  BY FlagsStayFlags DEF Inv, TypeOK, Next
<1> USE DEF Inv, TypeOK, CountInv, RoomInv, StreamInv, FailuresAreReported,
        Late, Counting, Switching, playVars, callbackVars, endVars, mainVars,
        countVars, renderVars, MainGoes, Keep, Fail, SetStop
<1>1. CASE Primed \/ NotPrimed \/ PrefillSignalled \/ PrefillGoesOn
           \/ PrefillFailed \/ PrefillWaits \/ StopEarly \/ JoinEarly
  BY <1>0, <1>1, SMT
     DEF Primed, NotPrimed, PrefillSignalled, PrefillGoesOn, PrefillFailed,
         PrefillWaits, StopEarly, JoinEarly
<1>2. CASE StartStream \/ StreamRefused \/ EndSignalled \/ EndStopped
           \/ KeepsPlaying \/ EndFailed \/ NoError \/ MonitorPoll
  BY <1>0, <1>2, SMT
     DEF StartStream, StreamRefused, EndSignalled, EndStopped, KeepsPlaying,
         EndFailed, NoError, MonitorPoll
<1>3. CASE MonitorRead \/ Finish \/ DropStream \/ StreamDropped \/ Join
  BY <1>0, <1>3, SMT DEF MonitorRead, Finish, DropStream, StreamDropped, Join
<1> QED
  BY <1>1, <1>2, <1>3 DEF MainStep

\* No step of the threads, of the device or of the user breaks the invariant.
LEMMA InvIsInductive == Inv /\ [Next]_vars => Inv'
<1> SUFFICES ASSUME Inv, [Next]_vars PROVE Inv'
  OBVIOUS
<1>1. CASE Running /\ (Signal \/ StreamBreaks)
  <2>0. FlagsOK'
    BY FlagsStayFlags DEF Inv, TypeOK
  <2> QED
    BY <1>1, <2>0, SMT
       DEF Signal, StreamBreaks, Inv, TypeOK, CountInv, RoomInv, StreamInv,
           FailuresAreReported, Late, Counting, Switching, Running,
           Terminated, playVars, callbackVars, endVars, mainVars, countVars,
           renderVars
<1>2. CASE UNCHANGED vars
  BY <1>2
     DEF vars, Inv, TypeOK, FlagsOK, CountInv, RoomInv, StreamInv,
         FailuresAreReported, Late, Counting, Switching, playVars,
         callbackVars, endVars, mainVars, countVars, renderVars
<1> QED
  BY <1>1, <1>2, RenderStepInv, CallbackStepInv, MainStepInv DEF Next
-----------------------------------------------------------------------------
\* The invariant holds in every behaviour of the threads.
THEOREM InvariantHolds == Spec => []Inv
BY InitInv, InvIsInductive, PTL DEF Spec

(***************************************************************************)
(* Type correctness: what push_slice writes fits into the ring whatever    *)
(* the callback does meanwhile, consume takes no more than there is, and a *)
(* callback never misses more than its period.                             *)
(***************************************************************************)
THEOREM TypeCorrect == Spec => []TypeOK
BY InvariantHolds, PTL DEF Inv

(***************************************************************************)
(* record_output_underrun against set_output_expected: while accounting is *)
(* enabled, the counter holds what the callbacks of this interval missed   *)
(* and beyond it at most the period of one late callback, however often    *)
(* the render thread toggled the flag before.                              *)
(***************************************************************************)
THEOREM UnderrunsAreBounded == Spec => []AtMostOneLateRecord
<1>1. Inv => AtMostOneLateRecord
  BY DEF Inv, CountInv, Counting, AtMostOneLateRecord
<1> QED
  BY <1>1, InvariantHolds, PTL

(***************************************************************************)
(* wait_for_playback_completion and the joins of play_run_realtime: a run  *)
(* that was heard and ends without an error had neither a failed block nor *)
(* a broken stream, at whatever moment they came.                          *)
(***************************************************************************)
THEOREM FailuresEndAsErrors == Spec => []FailuresAreReported
BY InvariantHolds, PTL DEF Inv
=============================================================================
