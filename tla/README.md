# A TLA+ model of Onda's concurrent parts

Onda compiles audio programs and runs them against sound devices. This project
models the parts of the repository in which several threads, processes and
callbacks share state: the playback of a program (`src/crates/onda_run`), the
audio device layer (`onda_cpal`), the session they drive (`onda_daemon`), the
controller that recompiles a running program when its sources change
(`onda_run/src/lib.rs`), the diagnostics of the language server (`onda_lsp`), and
the output of a program in a browser (`src/packages/onda_webaudio`). The compiler front end, the analyses and the code generators are
sequential programs and are not modelled (see "Not modelled").

## Inventory

| Part of the system | State | Operations | Interacts with | What is hard | What makes it correct |
|---|---|---|---|---|---|
| `SampleRing` (`onda_cpal/src/lib.rs`) | slots, two atomic indices | `push_slice`, `produce`, `consume`, `discard_buffered`, `len` | render thread on one side, a device callback on the other; no lock | interleaving of single memory accesses, stale indices, frames against a power-of-two capacity | no data race on a slot; a bounded FIFO queue of samples; channels never rotate |
| `StreamErrorState` | `output_expected`, `output_underrun_frames` | `set_output_expected`, `record_output_underrun`, `output_underrun_frames` | render thread, output callback, monitor | two atomics updated in two steps by two threads | underruns counted only while output is expected |
| Render loop, prefill, push loop (`onda_run/src/playback.rs`) | playing, ring level | commands, render-ahead, `wait_for_prefill` | the ring, the callback, the control channel | rings smaller than a block, pauses | prefill and push loop end |
| Buffer worker (`playback/buffer_worker.rs`) | per-buffer revisions, request queue, completion slot, reclaim channel | `load`, `invalidate`, `poll`, `is_current`, `reclaim`, the loader thread | control handler, render thread, `RunSession` | loads overtaken by newer commands, deferred replies, freeing off-thread | only the newest command takes effect; replies say what is so; storage outlives its descriptors |
| Output worker (`playback/output_worker.rs`) and transports | packet pool, queues, loss counters | `publish`, `record_loss`, `publish_decoded`, `write_pending_output_batches`, `spawn_run_print_stdout` | render thread, decoder thread, control handler or printer | saturation, counters swapped while being incremented, clients that come and go | nothing is lost without being counted while its consumer is there, no packet leaks, collection follows the subscription |
| Playback control (parameters, events, play/pause) | pending parameter updates, pending events, active notes | `PlaybackControlCommand` | handler, render thread, MIDI callback | coalescing, bounded queues, cancellation with replies | every reply sent once; the last value wins |
| MIDI input and timeline (`midi.rs`, `playback.rs`) | anchor, sequence, overflow flag | `frame_at`, overflow recovery | MIDI callback, render thread | recovery after overflow, notes left on | no stuck note, order of events |
| Playback lifecycle (`play_run_realtime`) | threads, `stop_flag`, `render_error` | start-up handshake, stop, joins | all of the above | errors at every stage, joins in order | the run ends and reports its error |
| `RunSession`, `ParamSmoothing` (`onda_daemon`) | instance, bindings, values, ramps | `render_block_event_iter_interleaved`, `restart`, `set_param` | render thread | a parameter is kept three times, rebuilds, durations that change in the middle of a ramp | the copies agree, ramps arrive |
| Run controller, watcher, child session (`onda_run/src/lib.rs`, `child_session.rs`) | child process, source snapshot, revisions | `start`, `stop`, `poll`, restart on change | editor, watcher threads, child | files read one by one by two processes while they change; watchers replaced by watchers; messages of a child that is gone | what runs is what is on disk, and does what the user asked |
| LSP diagnostics (`onda_lsp/src/server.rs`) | open documents, pending and active requests, generations, what each entry was published for | notifications of the editor, two analysis workers | editor, disk | results of older texts, busy workers, several entries that notify one document | what is shown in the end is about the present texts |
| Web output (`onda_webaudio`: `execution-output-ring.js`, `worklet.js`, `index.js`) | a ring in shared memory, subscriptions, drop counters, the page's drain loops | `publishExecutionOutput`, `onPrint`, `onDelegates`, `close`, the drain | audio worklet, page, listeners | listeners that act in the middle of a drain, wake-ups, two channels between the same parties | listeners get what was made for them once, or are told of its loss |
| Compiler (`onda_frontend`, `onda_semantics`, `onda_mir`, `onda_codegen_llvm`, `onda_compiler_web`) | - | pure functions | - | size | - |

`PROJECT.json` lists every component with its status and every hazard at its
line.

## Modules

| Module | Models | State and actions |
|---|---|---|
| `SampleQueue` | what a sample ring promises | a FIFO queue of numbered samples: `Push`, `Take`, `Drop` |
| `SampleRing`, `MCRings` | `SampleRing` of `onda_cpal` | slots, the two indices and the two callers' program counters; one step per load of the other index, per slot access and per store of one's own index |
| `OutputPath` | render loop, prefill, output callback, underrun accounting, and the main thread from the prefill to the result of the run | only the length of the ring matters; each store of `set_output_expected`, each load of `record_output_underrun` and each test of the main thread is a step |
| `BufferWorker`, `MCBufferWorker` | control handler, render thread and loader for `bindBufferWav` and `clearBuffer` | the four channels as sequences; storage is named by the command that loads it |
| `OutputWorker`, `MCOutputWorker` | packet pool, output worker, transports, delegate subscriptions, printer | packets are counted in the pool and sit in queues; a batch is what one block produced |
| `RunEvents`, `MCRunEvents` | MIDI callback and device manager, timeline, pending events, `triggerEvent`, `play`, `pause` | a queue of messages, the vector of pending events in the order it is sorted in, the notes the thread knows of and those that sound |
| `RunParameters` | `setParam` and the commands that read, reset or retime parameters; `ParamSmoothing` and the parameters of `RunSession` | coalesced updates, and the three copies of a parameter: reported, in the instance, target of a ramp |
| `RunController` | `RunController`, `FileWatcher`, `ChildSession`, `IpcBridge` and the child process | the files, what each party has read of them, revisions, batches, the event queue |
| `WebAudioOutput`, with `MCRings` | prints and delegates from the audio worklet to the listeners of the page | the ring with one step per access to shared memory, the page's task with its drains, the message port |
| `LspDiagnostics`, `MCLspDiagnostics` | the core and the two diagnostic workers of the language server | texts, requests, jobs with their copies of the texts, what was published for each entry and what is shown for each document |
| `RingsProofs` | | theorems about both rings: the inductive invariants of `SampleRing` and of `WebAudioOutput`, their safety, and that `SampleRing` implements `SampleQueue` |
| `OutputPathProofs`, `BufferWorkerProofs`, `OutputWorkerProofs`, `RunEventsProofs`, `RunParametersProofs`, `RunControllerProofs`, `LspDiagnosticsProofs` | | theorems about the modules of those names |

`SampleRing` is shown to implement `SampleQueue` by `INSTANCE`, and
`MCRings`, `MCOutputWorker` and `MCRunEvents` instantiate their module a second
time with other constants, so that one run covers several surroundings; a variable
that never changes says which one a behaviour has. `MCRings` also runs the other
ring of the repository, that of `WebAudioOutput`, in behaviours of its own; the
two are separate components with names of their own (`WebInit`, `WebNext`,
`WebSpec`), so that one module can extend both. The other modules
are not composed: `OutputPath` uses the ring as the bounded queue that
`RingsProofs` proves it to be. `OutputPath`, `BufferWorker`,
`OutputWorker`, `RunEvents` and `RunParameters` all follow the render thread and
the control handler, over different channels; each keeps the guards and the
order of the thread's loop and leaves the work of the others out of its steps.

Operators commented "Wrong variant" are what a plausible mistake would have made
of the definition that follows them. No specification uses them; substituting
one for its definition makes TLC report the property that rests on it.

### SampleRing

A sample is the number of samples accepted before it, so the sample at absolute
index i is i. `BeginPush` is the pair of loads in `push_slice` and `produce`
(the producer's own index cannot change, so one step is enough), `WriteSlot` the
loop body, `FinishPush` the release store. `BeginConsume`, `ReadSlot` and
`FinishConsume` do the same for `consume`. `discard_buffered` is two steps: the
load of `write_index` and the store of `read_index`. Every access is atomic and
sequentially consistent in the model. The code orders its accesses with
acquire/release on the index that the other thread stores, so a thread may see
an older index than the model shows at that moment, never a newer one; an old
index yields the count of a `Begin...` step taken earlier, and the model lets
any number of steps of the other thread happen between the load and its use.

### OutputPath

`DisableFlag` and `ClearCount` are the two stores of `set_output_expected(false)`;
`AheadDisabled` and `EnableFlag` those of `set_output_expected(true)`.
`RecordLoad` and `RecordAdd` are the load and the `fetch_add` of
`record_output_underrun`. `fresh` and `own` are history variables: the frames
counted by callbacks that saw accounting enabled in the present interval.
The render thread is followed through its whole iteration: the test of the stop
flag, up to `CommandsPerBlock` commands, the poll of the buffer worker, the test
of `playing`, the render-ahead test, the block, which may fail (`RenderFails`
stores the error, `StopOnFailure` the flag), and the push loop, which the stop
flag ends (`PushAbandoned`).

The main thread starts at `wait_for_prefill`, whose loop is `NotPrimed`,
`PrefillGoesOn` and `PrefillWaits` with the exits `Primed`, `PrefillSignalled`
and `PrefillFailed`. `StopEarly` and `JoinEarly` are the return before the
stream exists. `EndSignalled` to `MonitorRead` are the loop of
`wait_for_playback_completion` in the order of its tests; `EndStopped` also
stands for the end of the duration, which can come at any turn. `Finish`,
`DropStream`, `StreamDropped` and `Join` are the rest of `play_run_realtime`:
cpal's drop of a stream waits for its callback, and the errors are read after
the join. The main thread also joins the control server and the printer, which
need nothing of it and are in `OutputWorker`. When the main thread is done the
process ends, with whatever thread is left (`PrefillFailed` returns without a
join). `Signal` is the handler of a termination signal, `StreamBreaks` cpal's
error callback.

### BufferWorker

`ReadBind` and `ReadClear` are the handler's two requests, `ScanStep` one turn
of the loop of `write_buffer_replies`, `HandleBind`, `HandleClear` and `Commit`
the render thread, `DropOne` to `LoaderExits` the loader. The failures that
differ in their effect are parameters: the file does not load (`ok`), the
instance cannot be rebuilt (`built`), the output worker refuses the prints of
its construction (`published`). A reply channel whose sender is gone is found by
looking for the command in every queue (`Holders`). `newest` is a history
variable. When the render thread ends it drops its ends of the channels; the
loader finds that out at its next receive or send. The drop of the session
itself at the end of the run is not modelled.

### OutputWorker

`Render` produces the batch of a block: at most one delegate occurrence and one
print, which is enough because counters add up. `PublishTake`, `PublishSend` and
`PublishDrop` are the three outcomes of `publish`. `FlushBatch` is one turn of
the loop of `write_pending_output_batches`, with the swaps of the counters it
performs; `FlushFails` and `FlushEndFails` the same with a broken socket. The
receive and the swap are one step: a loss counted between them would only be
told with the next batch. Overflow counters travel with the drop counters and
are not told apart from them.

The handler of a subscription is `ReadSubscription` (the command is sent),
`Answered` (the render thread has handled it, or dropped it with its channel)
and `Respond`. Between the last two the handler writes the replies of earlier
binds, then sets `enabled` of the guard, then writes the response; either write
may find the socket broken (`RespondFails`), and the guard then drops with what
it knows. After the first write that is nothing of a new subscription: the
client becomes one of the `orphans`, for which the render thread collects until
another client subscribes. `PublishDecoded` has the arms of the two `try_send`:
no control server to carry anything for but prints, room, a full transport
(which is counted), and a receiver that is gone with the server's thread
(`ServerGone`), which is counted by nobody (`unheard`).

`seen`, `told`, `spoiled`, `unheard`, `orphans`, `produced` and `records` are
history variables.

### RunEvents

`Press` and `Release` are the callback of the MIDI connection with
`enqueue_message` up to its failed `try_send`; `ReportFull` is the store of
`midi_overflowed` that follows, a step of its own because the render thread may
clear the flag in between. `Unplug`, `CloseConnection` and `Reconnect` are the
device and `MidiInputManager::poll`, which looks once a second whether the id of
the device is listed. `Replug` is a device that is back before it has looked:
the manager notices nothing, and the connection it keeps may hear the device
(`"connected"`) or not (`"deaf"`), which depends on the system. `cut` are the
keys that were down at the loss. `resetWanted` stands for `midi_overflowed`
and `midi_reset_requested`, which every reader tests together and clears
together. `Stamps` are the time stamps a message can carry: the first of a
connection is the clock, later ones keep the device's own time, up to `MaxDrift`
away from the clock and never decreasing.

Time is counted in frames, and `pending` and `anchor` hold frames relative to
`rendered_frame`, so that `RenderBlock` lowers them by a block. An anchor is
kept no lower than `-MaxTime`: `FrameAt` yields 0 for every time stamp from
there on downwards, so this loses nothing. `Scheduled` inserts events of one
frame where `sort_unstable_by_key` on (frame, sequence) would put them; sequence
numbers grow with each event, so that place is behind all events of the same
frame, and the notes that a recovery releases keep their order. `Retained` is
`Vec::retain`, and `DueCount`, `Due` and `NotDue` are `partition_point` and the
two parts it cuts the vector into: a count of what is below the bound, which is
what the binary search returns because the vector is sorted (the first conjunct
of `TriggersRunInOrder`).

The render thread is followed through its iteration: commands, the inactive
branch (`IdleDrain`, `IdleReset`), render-ahead, the test of the flags
(`StartBlock`), recovery, up to `MessagesPerBlock` messages, the block.
`HandleTimedTrigger` is a triggered event whose name is a MIDI name, while
something plays; `HandleTriggerNow` is any other, which runs at once and
may so overtake events that are pending. `Rebind` stands for a cleared
or committed buffer: both rebuild the instance and set `playing`. The notes of a
rebuilt instance are gone; when rebuilding fails they may or may not be
(`sounding'` is one of both). What a client's own note events do to notes is not
followed: `sounding` is what physical MIDI turned on, which is what
`active_midi_notes` is about. The 64 commands per iteration are more than the
bounded clients send.

`status`, `kept` and `owed` are history variables: what became of each trigger,
which triggers and keys had something pending when the timeline was reset, and
which keys were let go while playing.

### RunParameters

Values are integers, as `set_param` leaves them after its conversion; a value
in the middle of a ramp is any one between its ends (`Between`). A parameter
that is not in `Smoothed` stands for a discrete one of a wide integer type,
whose conversion refuses values that are not finite. A session is a record of
the reported values, the values in the instance and the ramps, and each
operation of `RunSession` and `ParamSmoothing` that touches a parameter is an
operator on such records (`SetParams`, `ResetParams`, `SetDuration`, `Rebuilt`,
`BlockBegun`); what can fail is a choice of the action (a rebuild, the
publication that follows it).

The handler waits for the answer to every command. The answer to a `setParam`
comes when its update is flushed (`wait` is "pending" until then); the answers
to binds and timed triggers are given when the command is handled, which is
earlier than in the code and lets the next command come sooner. `getParams`,
`getBuffers` and `getEvents` flush alike and are one command. The order in which
the hash map is drained does not matter, as it holds one update per parameter.
The end of the run is left out: it drops the session with everything in it.

### RunController

The controller and the user share a thread: `Start`, `Stop` and one turn of
`poll` (`SkipStale` to `EndPoll`) start when it is "idle". A restart is split where
an edit can fall between two of its reads: `BeginRestart` reads the revision,
`ReadSource` one file, `RegisterWatcher` replaces the watcher, and `SpawnChild`
compares what the old watcher may have missed and starts the child.
`RunController::new` is a restart that nothing precedes. The child reads the
files itself, one by one and later (`ChildReads`).

The old watcher stops delivering at the moment it is replaced: its thread still
takes what it has (`ObserveLate`) but finds its channel disconnected. That every
path of the program is covered by a watch is assumed; the fallback that polls
when it is not, missing files and links are left out. So are the
strings of the status, the poll of the scope, the parameters and buffers that
are sent to a new child, its log, and the answers to buffer commands, which set
`state.running` to whether a child is connected and playback is wanted
(`refresh_processing_state`).

What can fail is bounded by `MaxFailures` (`MayFail`): the spawn of a child, its
end (`ChildCrashes`), the connection to a child that lives (`Connect`), and
`play` in a child that lives on, at its start (`ChildFinishes`) or on request
(`ChildCommand`, `TakePlayed`). A connection that failed or a play that was
refused leaves a child that is ready and does not play until the next request or
change; the properties say so (`~bridge`, `child.refused`).

`TakeReady` compares the revision and nothing else, as `handle_child_ready` does.
An edit reaches the thread of the watcher through the operating system, some time
after it was made, so a child can be believed although the controller's snapshot
and the child's reads lie on two sides of an edit. `early` marks a child that was
believed when a change was on its way to a watcher. Once the change is
noticed, its batch differs from the snapshot and the child is replaced. If it was
undone before, the batch matches the snapshot and is acknowledged, and the
child keeps contents that are on no disk (`Misread`). `ReadyProgramIsTheSnapshot`,
`QuietProgramIsCurrent`, `ResumesTheCurrentProgram` and `NewestSourcesRun` except
such a child, and no other. `QuietProgramIsOnDisk` makes no exception, and TLC
refutes it (see Met while modelling).

### LspDiagnostics

A text is the number of the message that brought it, so a result, which records
the texts it was computed from, tells how old it is. `DidOpen` to
`WatchedFilesChanged` are the notifications, each with everything the core does
before it takes the next message: which entries are affected, the schedule, and
`Dispatch` to the free workers. `RunJob` is a worker that reads from its copy of
the open texts, and from the disk for documents that are not open.
`TakeResult` publishes a result or throws it away. Which documents an entry
imports does not change. The server's caches are left out: an entry
without a cached list of sources counts as affected by every change, so
`Affects` allows any set of open entries that contains those that import a
changed document.

An analysis of an entry finds errors in the entry and in what it imports
(`Errors`). A notification of the editor is about one document and replaces what
was shown for it, whichever entry it came from: `shown` is kept for each document
and names the entry of its last notification. `published_by_entry` maps an entry
to the documents it was published for, which follow from what was published
for it last (`published`, `Uris`). `PublishAll` notifies each document with
errors, the entry itself, and, with nothing, each document that had errors of
this entry before (`Notified`, `Notice`); several entries are published in
the order of a hash map (`Orders`). `ClearEntry` empties every document the
entry was published for.

The last notification for a document wins. An importer that is closed, or edited
so that it no longer finds the errors of a library, empties what the open library
shows from its own analysis, and nothing asks for another one. No document of the
repository says whose errors should be shown, so `IdleDiagnosticsAreCurrent` says
of each document that it shows what was published last for the entry it was last
notified for (`ShowsLast`), and that this is about the present texts.

`didOpen` analyses in the core and takes no generation. When a job for the same
entry is running (the document was affected by another one, closed and opened
again), its older result is published over the newer one. `overtaken` marks
such entries until their next request, and `IdleDiagnosticsAreCurrent` excepts
them. The test `deferred_diagnostics_drop_stale_generations`
(`part_1.rs` of the server's tests) pins down that a result of an old generation is
dropped, and no test has `didOpen` while a job is active.

### WebAudioOutput

`Publish` is `publishExecutionOutput` up to the test of `writeExecutionOutputRing`
for room, `WriteEntry` to `Notify` are its accesses to shared memory, and
`TakeMessage` the handler of a subscription message; the worklet runs its message
handlers between blocks. `Ahead` is the difference of two indices modulo 2^32
(`Period`), `Unread` counts what the entries between the indices hold for a kind. A block makes at most one record of each kind; an entry
says which subscription each kind is for. `TakeEntry`, `Decode`, `Deliver` and
`FinishEntry` are a drain with its consumer. A task of the page is never
interrupted by another one, but a listener is called within a drain, and
`Subscribe`, `Unsubscribe` and `Close` may be its steps. `EndDrain` to `Return` are
`startExecutionOutputDrain`, whose loop runs for the first time in the call that
starts it, `Resume` the continuation after `await`.

A start drains the ring before the subscription is posted and when no kind had
listeners, so that drain calls nobody and one `outer` drain is enough. The
constructor's is the exception, but nobody has the processor yet (`built`). Each
kind has one listener; another one that joins an existing subscription, which
sends no message and changes no index, is left out, and so is what it would get
of the records in the ring. The fallback for browsers without
`Atomics.waitAsync`, which drains every 16 ms, is left out.

`notifyListeners` iterates the Set of the listeners itself, and both kinds of an
entry are decoded before anybody is called. `todo` are the kinds whose records
are in hand, `visiting` the one whose Set is being iterated. A listener of either
that comes in the middle of a call (`Joined`) is therefore called as well, with
the records of an execution that was over before it came: after it was removed and
added again in its own call, or when the other kind's listener adds it. `late`
marks such a listener and `early` counts what it gets in this way. The package's
README says that listeners added later receive subsequent executions, which is
`LaterListenersGetLaterRecords`; TLC refutes it (see Met while modelling).
`RecordsAreAccountedFor` counts all that
is delivered and allows exactly that excess: a record of an earlier subscription
that reached a listener in any other way, or a second time, would break it.

One more thing that a listener can do is excepted, and TLC finds it when the
exception is removed: one that removes the last listeners and subscribes again
drains the ring inside the drain; the `finally` of the outer drain then stores
the index after its own entry, although the inner one has gone further
(`rewound`), and entries are decoded again, in slots that the worklet may be
writing (`Slots = 1`, `Period = 4`).

## Runs

| Run | Instance | What it shows |
|---|---|---|
| `rings` | capacity 8, 3 channels; pushes of 1 and 3 samples, or whole frames and discards; or a web ring of 1 slot, indices modulo 2, 3 blocks, 2 subscriptions | partial frames are published and consumed in whole frames, `discard_buffered` keeps channels in place, indices go around twice; entries are read once, records are delivered or counted, one loop serves the listeners, no other one is left waiting, and no wake-up is missed |
| `output_path` | capacity 8, 3 channels, blocks of 6 frames, periods of 2 | a block is larger than the ring, 8 is no multiple of 3: prefill and push loop end; the underrun counter is off by one callback at most; errors are reported and the run ends |
| `output_path_stale_count` | the same | violation, see Findings |
| `buffer_worker` | 2 buffers, 3 commands, a queue of 1 | binds overtaken at every stage; storage and descriptors across two buffers |
| `buffer_worker_liveness` | 1 buffer, 2 commands | replies arrive, a stop ends three threads |
| `output_worker` | 1 packet, a transport of 1, 2 clients and 2 records, or the printer and 5 records | both queues saturate, sockets break, clients follow each other, the server's thread ends before the others, the run ends; the printer sees or reports every print |
| `output_worker_terminal` | 2 packets, 2 clients | violation, see Findings |
| `run_events` | 1 key, a queue of 1, 2 pending events, 1 message per block; 1 trigger and 1 request with a device that comes and goes, or 3 triggers with one that drifts, or 1 command while the run stops | notes are released after overflow, recovery, an unplugging that is noticed, pause and play; clients are answered, nothing runs after its answer; order is kept and the vector never grows |
| `run_parameters` | a smoothed and a discrete parameter, 3 values of which 1 is not finite, durations 0, 3 and 5, blocks of 2, batches of 2, 4 commands | the copies of a parameter agree, reads follow writes, ramps are sound and arrive |
| `run_controller` | 2 files, 2 contents, 2 edits, 2 requests, 1 failure | which sources run, and whether the child does what the user asked |
| `run_controller_failure` | 1 file, good or broken, 2 edits | violation, see Findings |
| `lsp_diagnostics` | 2 documents that import a third, 4 messages, every other one with errors | what is shown in the end is of the present texts; analyses end |

Bounds. `MaxIndex` bounds the ring's indices, `MaxFrames` saturates the underrun
counter, `MaxCommands`, `MaxRecords`, `MaxClients`, `MaxPresses`, `MaxTriggers`,
`MaxRequests`, `MaxEdits`, `MaxFailures`, `MaxMessages`, `MaxBlocks` and `MaxSubscriptions` bound the inputs of a
behaviour, `MaxTime` the clock of `RunEvents` and `MaxDrift` the difference
between it and the device's; no other quantity is bounded by the model. The
bounds are large enough for each queue to be full, for the indices to pass the
end of the slots twice, for a client to follow one that was subscribed,
and for a command to overtake one that is at any stage. Three commands suffice
for a bind to be overtaken twice; a third client differs from a second in
nothing that a guard looks at. `LOAD_QUEUE_CAPACITY` (16), `PACKET_COUNT` (8),
`RENDER_AHEAD_BLOCKS`, `MIDI_INPUT_CAPACITY`, `MAX_MIDI_MESSAGES_PER_RENDER_BLOCK`,
`MAX_CONTROL_COMMANDS_PER_RENDER_BLOCK` and `MAX_PENDING_EVENTS` are constants of
the model and set small so that they are reached. In `output_path` a capacity
of 8 gives a target of 6 samples and blocks of 18. In `run_events` one key that
is pressed once already overflows a queue of one message with its note-off, and
the recovery, the trigger and the limit of two pending events compete; two
frames of time put events into the present block, the next one and the one after
it. Its behaviours are of three kinds, for the graph that the liveness properties
need is large: several triggers with a drifting device; a device that comes and
goes with `play`, `pause` and a trigger; and, with `EndingCommands` and
`EndingTime`, one command and one frame while the run stops or a block fails. The
safety properties are proved without these limits. In `run_parameters` the two positive durations are no multiples of the block
and a ramp can be retimed to either while it moves. In `run_controller` two
edits are a change and its reversal, or a change of each file, and one failure is a
crash, a spawn, a connection or a play; in
`lsp_diagnostics` four messages open two documents and change a common import
twice, or open, change, close and open one, and the texts of the odd messages
have errors, so that a library has errors or loses them under an importer. In `run_events` a
device is lost and comes back, noticed or not. In `rings` one slot is full after
each record, three blocks fill it, lose a record and tell of the loss, and two
subscriptions are a first and a second one of a kind, or one of each kind; a
behaviour of the web ring ends with `rewound`. Symmetry of the buffers is used in
`buffer_worker`, a run without liveness properties.

Fairness is weak fairness of each thread as a whole: the operating system runs
threads that can run, a device calls back, a disk read ends, a socket write
returns, a child process runs. Nothing is assumed of a client, a user or an
editor: they may stay silent or leave. `RunEvents` assumes strong fairness of
`StartBlock` and `RunParameters` of `RenderBlock`: an audio device takes samples
from the ring, so that the render-ahead test does not find it full for ever.
`LspDiagnostics` assumes that each worker runs its job and that each result is
taken: results and messages come through one queue, which is first in, first
out. In
`WebAudioOutput` the worklet goes on processing, listeners return, and the
browser runs the page's tasks. A choice inside a thread (whether a load succeeds, what a client asks) is never
forced. `PrefillCompletes`, `NewestSourcesRun` and `RampsArrive` assume in their
statement that the run is left playing.

`OutputPath`, `BufferWorker`, `OutputWorker` and `RunEvents` stop when a run has
ended; their specifications contain the stuttering step of the terminated state,
so deadlock is checked; a page that has no more to do stutters in `MCRings`. The only run that does not check it is `lsp_diagnostics`:
an editor that has sent its messages may stay quiet for ever.

## Proofs

In `RingsProofs`, the part about `SampleRing` holds for every capacity, alignment,
set of slice lengths and bound of the indices that satisfies the assumptions of
`SampleRing`: a capacity of at least 2 and natural sizes. That the capacity is a
power of two is assumed nowhere in the proofs; it is what makes `index & mask` a
remainder. `FramesAssumption` is needed by `ChannelsNeverRotate` alone: a ring
whose consumer discards has a producer and a consumer that move frames of one
size. `discard_buffered` has one caller, which discards the input ring
(`playback.rs`); its producer is the input callback, which rounds to
`target_channels`, and its consumer rounds to the same number of channels.

`NoDataRace` is not inductive. The invariant `Inv` adds what a call remembers
from a load that may be old by the time it is used: `ProducerInv` (what is being
written fits into the ring whatever has been consumed since), `ConsumerInv` (what
is being read, or jumped to, was published) and `SlotsInv` (each slot between
the indices, and each one already written beyond them, holds the sample of its
index). The one fact of arithmetic is `DistinctSlots`: two indices less than a
capacity apart have different slots. With it `WriteSlot` keeps `SlotsInv`; all
other steps only narrow an interval. `TypeCorrect`, `RingIsConsistent`,
`NoSlotIsShared` and `ConsumedSamplesAreIntact` follow from `Inv`.

For `RingIsAQueue`, `Inv` says that the queue the slots represent is the run of
numbers between the indices (`ContentsAreRun`), so `FinishPush` is `Push`,
`FinishConsume` is `Take`, `FinishDiscard` is `Drop`, and all other steps leave
the queue as it is; the rest is arithmetic of runs (`RunConcat`, `RunSplits`).

`ChannelsNeverRotate` says of what was handed over where it was written, which
holds because the consumer's index is a whole number of frames (`FramesInv`):
it moves by whole frames, or jumps to the index of a producer that publishes
whole frames. A part of a frame that `push_slice` publishes therefore stays in
the ring until the rest of it is there.

The part about `WebAudioOutput` holds for every number of slots and blocks and
any number of subscriptions. `PeriodAssumption` says that the slots divide the
period of the indices and are fewer: the code's slot counts are powers of two,
its indices have 32 bits. The theorems are about `WebSpec`, which goes on after a
read index was moved back, where the run's behaviours end. `WebInv` is inductive:

- `LoopInv` says who holds which loop. A loop that no task runs waits or will be
  resumed; while there are listeners the newest loop is in one of these places
  or in the page's hands, or a start has yet to begin it (`ServedInv`). A loop
  that was stopped has an older generation and can only be among the woken,
  because `StopDrain` wakes what waits. A start from within a listener's call
  ends its drain and posts its message before the call goes on (`PostingInv`).
  `OneLoopServes` is what remains of this between tasks.
- `SubscriptionInv` relates the two channels. The worklet's subscription of a
  kind is never newer than the page's; messages of a kind are under way in the
  order of their subscriptions, with at most one that enables each (`PortInv`);
  every entry, in the ring or in a hand, is of a subscription that the worklet
  has known (`EntriesInv`). So what a message changes has no entry yet
  (`NothingUnread`), and the account begins at zero when it is taken.
- `HandsInv` says of a drain that is handing over records for whom they are: what
  it has yet to deliver is of the present subscription, or of a listener that is
  `late`.
- `NumbersInv` numbers the entries between the indices without a gap, each in a
  slot of its own. The arithmetic is `SlotsOfTheirOwn`: two indices less than
  `Slots` apart, counted around the period, have different slots. `RingGrows` and
  `RingShrinks` say how the set of indices changes with the store of either side.
- `DrainInv` says what a drain, the outer one of a nested pair included, holds:
  the entry at the read index, or one that was already finished, which is then
  outdated for every listener there is (`OuterIsOutdated`: the
  listeners had all left when the inner drain was started). A drain that
  stores an index other than the next one sets `rewound`; all others finish the next
  entry (`FinishesTheNext`).

`RecordsAreAccountedFor` is an equation between counts, and `Unread` is a
cardinality: the places of all records in the entries of the ring. `RowsAdd` and its
companions say how the number of places changes when an entry comes
(`UnreadGrows`) or goes (`UnreadShrinks`), from the cardinality of a disjoint
union. `StoreWriteIndex` moves records from `Untold` to `Unread`, which needs that a
batch that is being written tells all that was dropped (`ToldInv`), `Deliver`
from `Unread` to `got`, `FinishEntry` nothing, because nothing is left of the
entry for a present listener.

`OutputPathProofs` holds for every ring, block, period and frame size, any
number of commands between two blocks, and any bound of the counter.
`AtMostOneLateRecord` is about the time while output is expected; `CountInv`
carries it through the stores of an update: while a late callback has not added
its frames, the counter holds none of a late callback, and there is no second
one before the next update because the callback is one thread. `RoomInv` gives
the type of the ring's level: between two loads of the push loop the callback
only makes room. `FailuresAreReported` needs `StreamInv`, which ties the state of
the stream to the place of the main thread, so that a stream cannot break or
play after the errors were read. It speaks of runs that were heard: a failure that
`wait_for_prefill` sees only by the stop flag ends the run with `Ok`.

`BufferWorkerProofs` holds for any buffers, any number of commands, a request
queue of any capacity and batches of any size. Its invariants build on each other:

- `CoreInv` adds to the types that the control channel is in order and newer than
  what was handled (`ControlInv`), that a bind that is at one place of the
  pipeline is at no other (`PipelineInv`), and, the heart of the design, that a
  bind on its way carries the present revision of its buffer exactly when no
  newer command for it was handled (`RevisionInv`). With it the
  test of `is_current` in `Commit` is the test that `OnlyTheNewestCommandBinds`
  asks for (`LateLoadsDoNotBind`).
- `TruthInv` adds where answers come from: only a handled command has one.
  `RepliesAreTrue` follows because a step that handles a command makes all
  answers about the same buffer those of older commands. An answer with an error
  promises nothing, and how often a command is answered is no part of it.
- `StorageInv` adds that what is on its way (`FlightIds`) was never bound,
  retired or freed, that the active instance has descriptors of exactly what is
  bound, and `ReclaimOK`: an instance that waits to be dropped refers only to
  storage that is bound or is behind it in the reclaim channel. The last is what
  the order of the two sends of a replacement is for, and why
  `StorageIsSafe` needs more than itself.
- `AckInv` follows the scan of `write_buffer_replies`: once it has passed a
  waiting bind that is older than a clear that was answered, that bind is not
  answered "applied" any more, because `TruthInv` forbids it. The scan before a
  response therefore leaves nothing that could overtake it. `ClearsAreNotOvertaken`
  is about the order of acknowledgements; that a late load does not bind
  is `LateLoadsDoNotBind`.

`OutputWorkerProofs` holds for every pool, transport and
number of clients, with or without a control server. `PoolInv` strengthens
`PacketsAreConserved` by the fact that a packet is never empty (an empty one in
the worker's hand would not be counted), `HandlerInv` says that only an accepted
client asks for a subscription, which the types of commands need.
`PublishFindsRoom` is the comment of `publish` that a packet taken from the pool
finds room: the error branch for a full ready queue is dead code.
`CollectionFollowsTheClient` has two parts. `SubscriberIsServed` is about an
answer that was given some time ago, so `ServedInv` follows the request: while a handler with a subscription does not
wait, its channel is empty; while it waits, its own request is the last in the
channel (`LastOfAppend`, `LastOfTail`), behind the disable that an earlier
client's drop guard may have sent. `CollectionHasAnOwner` needs that an enable is
only on its way while its client waits for the answer, and that a client that
waits for its disable still has it in the channel (`OwnerInv`); the `orphans` are
its one exception, by name. For
`NoPrintIsForgotten` each step moves prints from one term of the account to
another (`PrintsOfAppend`, `PrintsOfTail`); only a server that has ended leaves one
uncounted (`GoneInv`); that the printer misses
nothing needs `EmptyInv`, which says where nothing is left when each
of the threads ends.

`RunEventsProofs` holds for every set of keys, every limit and every time.
`SoundingNotesAreKnown` needs `IdleIsInactive`: between the test of `playing`
and the clearing of `active_midi_notes` no command is handled. `RenderBlock`
keeps it because running the same events on more notes leaves more notes
(`NotesAfterIsMonotone`). `TypeCorrect`, `PendingEventsStayOpen` and
`TriggersStayInOrder` come from one invariant, `EventInv`:

- `ControlInv`: the commands in the channel are in the order of their times, and
  the triggers among them are newer than every trigger that is pending or has
  run. A trigger that is scheduled therefore has the largest number.
- `PlaceInv`: the numbers in the vector are those of the events that are pending,
  each once, and there are at most `PendingLimit` of them. This second bound is
  what gives the vector's room: a recovery throws away the device's events
  before it adds a note-off for each active note, so that a vector that earlier
  note-offs had filled beyond the limit does not grow further.
- `OrderInv`: the order, of events that wait in the timeline and saw no reset, is
  not inductive itself. It holds because the anchor only
  moves so that no time gets an earlier frame than before (`Timeline`: a time
  stamp before the anchor moves it back to the frame 0, which the old timeline
  gave that time as well). `Bounded` says what follows from that: a pending event
  of a client that saw no reset lies no later than the frame that the anchor
  gives to any time at which a later command was or will be sent (`Times`).
  `Joined` shows that an event scheduled at its frame then comes behind all of
  them, wherever messages of the device have moved the anchor meanwhile.

What is a sequence is reasoned about by places: `ScheduledPlaces` and
`ScheduledFrom` say where each event goes and where it came from, `RetainedPlaces`
that what is kept is an increasing choice of places, `SortedBeginning` that the
events below a bound are a beginning of a sorted vector, and `DueParts` what a
block leaves. `NoteOffsAre` uses that active notes are finite in number, so that
they can be put in a sequence.

`LspDiagnosticsProofs` holds for any documents and any imports between them.
`IdleDiagnosticsAreCurrent` says nothing about the time while a job runs, so
`JobsInv` does: for an entry that no request is pending for, either no job is
active and what is shown is up to date, or the job is the newest of its
generation, copied the texts that are still open, and what it has read from the
disk is there (`JobIsCurrent`). A message keeps this because it schedules every
entry that imports what it changed (`RequestKeepsEntry`,
`DispatchKeepsEntry`), a result because its generation is compared
(`WorkersKeepEntry`). `NoticesInv` is the part about the screen: every document
shows what was published last for the entry of its last notification
(`PublishShowsLast`), and nothing is published for an entry that is not open, of
which `ClosedStaysCleared` is a consequence. Entries that are `overtaken` are
excepted, and nothing is claimed of a document that was notified for another
entry since. `WorkersHaveOneJob` is an invariant of its own.

`RunControllerProofs` holds for every set of sources and contents, and any
number of edits, requests and failures. A restart reads the revision before its
first file. While that revision is the newest and no notice is on its way, no
file has changed but those that the hand-over of the watchers compares
(`RestartInv`), so the snapshot is what is on disk, and a file that the child
read differently has an event (`CompilingInv`). Batches in
the queue are numbered by the revisions they end with (`BatchInv`), so that
acknowledging one never steps over a later one (`ChangesInv`: where snapshot and
disk differ, a notice or a batch is on its way, or the child read something
else). None of this assumes when a
notice arrives: a child that is believed while one is on its way is `early`, and
`ReadyInv` says that every other one runs its snapshot. `ChangesInv` holds of
early children too, so that `NoChangeIsLost` and `ResumesCurrent` except only
those that did read something else (`Misread`). For
`UserIsFollowed`, a child that is connected was told every request
(`ConnectedInv`), one that is not connected plays or was refused, and no message
that a child is ready is current unless playback is wanted (`AloneInv`).

`RunParametersProofs` holds for any parameters, values, durations, block size
and batch size. A session is `Good` when its copies of each parameter agree and
its ramps are sound; each operator takes a good session to a good one
(`SetParamsIsGood`, `SetDurationIsGood`, `BlockBegunIsGood`, `RebuiltIsGood`,
`ResetIsGood`), and the actions only compose them (`NextIsGood`).
`WritesAreRead` needs, in addition, that the last accepted value of a parameter
is reported or is the update that is pending, which is kept because every
command that reads flushes first.

Only model-checked: the liveness properties, whose fairness and `ENABLED` are out
of the prover's reach (`ListenersAreServed`, `RunEnds`, `PrefillCompletes`,
`PushLoopEnds`, `BindsAreAnswered`, `StopEndsThreads`, `LossesAreReported`,
`ReleasedKeysFallSilent`, `ClientsAreAnswered`, `NewestSourcesRun`,
`AnalysesEnd`, `RampsArrive`). Every invariant and every action property of a
passing run is stated by a theorem, as is the refinement of `SampleQueue`.

## Findings

1. `output_path_stale_count`: the comment on `set_output_expected` promises that
   transitions clear stale counts. A callback that has read the flag before a
   disable adds its frames after the next enable. `AtMostOneLateRecord` shows
   that the excess is at most what one callback misses.
2. `output_worker_terminal`: the handler's last flush is meant to let a connected
   client see terminal output, but it does not wait for the render thread or the
   output worker, whose last batches can come after it, or find no receiver.
3. `run_controller_failure`: a comment explains that matching bytes prove nothing
   while a child compiles, as it may have read contents that were changed back.
   A child that compiled such contents is rejected and compiled again, but one
   that failed on them is reported as an error, and the good sources stay
   uncompiled until the next edit or start.

### Met while modelling

Three properties, of what the documents or tests say, are stated in the modules
and are part of no run; TLC refutes each when it is given as an invariant:

- `CollectionIsDisabledUntilSubscribed` (`OutputWorker`, 2 packets, 2 clients).
  A client subscribes first and its connection breaks when the replies of earlier
  binds are written, after the render thread has begun to collect and before the
  guard knows. The guard disables nothing, and the next client is connected to a
  run that collects delegates nobody asked for. A test is named for the contrary.
  `CollectionFollowsTheClient` excepts such an orphan.
- `QuietProgramIsOnDisk` (`RunController`, 1 file, 2 contents, 2 edits). A change
  that the child has read, but no watcher has reported when the child is believed,
  is undone before its batch is handled. The batch matches the snapshot and is
  acknowledged; the child goes on with contents that are not on disk, where the
  README promises a reload.
- `LaterListenersGetLaterRecords` (`WebAudioOutput`, 1 slot, indices modulo 2,
  2 blocks, 2 subscriptions). A listener that is added in the middle of a delivery
  gets records of an execution that was over before it came, where the package's
  README promises subsequent ones.

Stated by no document: acknowledgements of two binds of
one buffer can be written in the reverse order, because `write_buffer_replies`
looks at them one by one while they arrive; drops of an earlier subscription's
packets can be reported to the next subscriber. `RunEvents` has five more, each shown by TLC when the exception that
the property makes for it is removed:

- While nothing plays, the render thread drains the MIDI queue and then clears
  the overflow flag. A note-off lost between the two is forgotten. A note-on of
  the same device that arrived in between sounds, with nothing to end it, when a
  `play` command is handled in the next iteration. `ReleasedKeysFallSilent`
  speaks of keys let go while playing (`owed`).
- `play` while playing resets the timeline but keeps pending messages with the
  frames they have. A pending note-on can then be overtaken by its note-off,
  which the new timeline puts into the present block. The key is in `kept`.
- A recovery does the same to the pending events of clients: a later one can
  overtake them. The event is in `kept`, and `TriggersRunInOrder` excepts it.
- An event whose name is no MIDI name runs at once, ahead of those that are
  pending; `TriggersRunInOrder` speaks of those that wait in the timeline.
- A device that is unplugged with a key down and is back before the manager looks
  for it leaves a note that nothing ends. `ReleasedKeysFallSilent` excepts it
  (`Unnoticed`) until the key is pressed and let go again.

And in the other modules:

- A block that fails during the prefill stores its error and sets the stop flag.
  When `wait_for_prefill` finds the flag first, the run ends with `Ok`.
  `FailuresAreReported` speaks of runs that were heard for this reason.
- A client that pauses during the prefill leaves the main thread waiting until
  it plays again or the run is stopped; `PrefillCompletes` assumes a run that is
  left playing.
- The answer to `play` that arrives after `stop` sets `state.running` again
  (`TakePlayed`), although playback was stopped.
- A value that `set_param` refuses may have replaced, in the coalesced updates,
  one that it would have accepted, which is then lost. `ReadsFollowWrites` speaks
  of values that are accepted.
- `didOpen` can be overtaken by an older job (see LspDiagnostics).
- An importer can empty what an open library shows (see LspDiagnostics).
- A listener of the web package that subscribes again in its call can make a
  drain go back (see WebAudioOutput).
- A batch that finds the control server's thread ended is dropped and counted by
  nobody (`unheard`).

## Not modelled

- The weak memory order beyond the argument above, and the wrap of the ring's
  indices at `usize::MAX`.
- Contents of records, text of prints, the packet encoding, JSON, and the forms
  of requests that change no state (device lists, the scope).
- The start-up handshake of a run, the choice of devices and stream
  configurations, and programs without output channels.
- In the run controller: watchers that cover only a part of the program, changes
  of options, and what is restored into a new child. In the language server:
  its caches, completion, navigation.
- In `onda_webaudio`: requests that are answered, parameters, buffers, snapshots,
  and the polling fallback.
- `onda_daemon`'s segmentation of a block at its events.
- Parsing, semantic analysis, lowering, optimisation and code generation;
  packaging for the web; the C API; the editors; the stdlib. They are most of the
  repository's lines, and are pure functions of large inputs, which its
  tests cover better than a bounded model would. The share of the repository
  that this project maps is small for that reason; of the code whose order of
  steps is not fixed by one thread it has most.

## Plan

Done, in this order: `SampleQueue`, `SampleRing` and its proofs, `OutputPath`,
`BufferWorker`, `OutputWorker` and `RunEvents` with proofs about them,
`RunController` and `LspDiagnostics` with their proofs, `RunParameters` and its
proofs, the end of a run in `OutputPath`, `WebAudioOutput` and its proofs. Next:

1. The start-up handshake: the ready message, a failure before it, and the joins
   of what was already started; it belongs at the front of `OutputPath`.
2. `RunSession`: the segments of a block between events.
3. Abstract specifications: the latest-command-wins register that `BufferWorker`
   implements, and the lossy counted channel that `OutputWorker` implements.
4. The partial coverage of watchers in `RunController`, without which
   `CompiledSourcesAreCurrent` is only its first case.

Runs stay few and large: a module gets one run, of several surroundings if no single
instance serves both, and liveness is checked in the same run where its size
allows.
