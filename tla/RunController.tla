---------------------------- MODULE RunController ----------------------------
(***************************************************************************)
(* The run controller behind the run user interfaces.  It watches the      *)
(* sources of a program, has a child process compile and play them,        *)
(* replaces the child when they change, and pauses or resumes it on        *)
(* request.  Five actors interleave: the user and the poll loop on one     *)
(* thread, an editor that writes the files, the thread of the file watcher *)
(* (and those of the watchers it replaced), and the child, which reads the *)
(* files by itself and later than the controller does.                     *)
(*                                                                         *)
(* The sources are read one file at a time by both sides, so either can    *)
(* see a mixture.  A revision counts the changes the watchers have seen; a *)
(* batch is what one watcher reports after its debounce delay.  A source   *)
(* graph has the files of Files, every watch root is covered, and files    *)
(* that appear, disappear or are links are left out.                       *)
(***************************************************************************)
EXTENDS Integers, Sequences

CONSTANTS
    Files,         \* the watched sources
    Contents,      \* what a file can hold
    Broken,        \* the contents that do not compile
    None,          \* no content, no batch, no revision
    MaxEdits,      \* bound on the writes of the editor
    MaxRequests,   \* bound on the user's starts and stops
    MaxFailures    \* bound on crashes, failed spawns, connections and plays

\* A SourceWatchBatch: what one watcher collected in a debounce delay, and
\* the first and last of the revisions it collected.
Batches ==
    [paths : SUBSET Files, first : Nat, last : Nat, contiguous : BOOLEAN]

ASSUME ContentAssumption ==
    /\ Files # {} /\ Broken \subseteq Contents /\ Contents \ Broken # {}
    /\ None \notin Contents \cup Nat \cup Batches
    /\ {MaxEdits, MaxRequests, MaxFailures} \subseteq Nat

VARIABLES
    disk,             \* the contents of the files
    events,           \* changed files the current watcher has yet to see
    lateEvents,       \* the same, of watchers that were replaced
    watching,         \* whether a watcher is registered
    revision,         \* SourceWatchRevision
    batch,            \* the batch the watcher thread is debouncing
    queue,            \* events_rx: ready and played messages and batches
    pc,               \* the controller: "idle", "exit" (the end of poll),
                      \* "snapshot" or "spawn" (in restart_with_status)
    restart,          \* the locals of restart_with_status_after_changes
    compilation,      \* source_compilation: [state, snapshot], and history:
                      \* early, whether it became ready when a change to the
                      \* files was still on its way to the watcher
    compiledRevision, \* compiled_watch_revision
    generation,       \* child_generation
    requested,        \* processing_requested
    running,          \* state.running
    connected,        \* state.connected
    bridge,           \* IpcBridge::is_connected
    pendingPlays,     \* the PendingCommand::Play of pending_commands
    child,            \* the child process: [pc, program, playing], and
                      \* history: refused, whether it had nothing to play at
                      \* first or the last play it read failed
    commands,         \* what the child has yet to read from its socket
    edits, requests, failures  \* how often each bounded thing happened

watch == <<events, lateEvents, watching, revision, batch>>
view == <<requested, running, connected>>
session == <<bridge, pendingPlays, child, commands>>
compiled == <<compilation, compiledRevision, generation>>
counts == <<edits, requests, failures>>
vars == <<disk, watch, queue, pc, restart, compiled, view, session, counts>>

Unread == [f \in Files |-> None]
NoChild ==
    [pc |-> "none", program |-> Unread, playing |-> FALSE, refused |-> FALSE]
NoRestart == [revision |-> 0, snapshot |-> Unread, changed |-> {}]
NotCompiled == [state |-> "none", snapshot |-> Unread, early |-> FALSE]

\* RunController::new is a restart that nothing precedes: the revision, the
\* snapshot, a first watcher, the check of everything it watches, the child.
Init ==
    /\ disk = [f \in Files |-> CHOOSE c \in Contents : c \notin Broken]
    /\ events = {} /\ lateEvents = {} /\ watching = FALSE
    /\ revision = 0 /\ batch = None /\ queue = <<>>
    /\ pc = "snapshot"
    /\ restart = [NoRestart EXCEPT !.changed = Files]
    /\ compilation = NotCompiled /\ compiledRevision = None /\ generation = 0
    /\ requested = TRUE /\ running = FALSE /\ connected = FALSE
    /\ bridge = FALSE /\ pendingPlays = 0 /\ child = NoChild /\ commands = <<>>
    /\ edits = 0 /\ requests = 0 /\ failures = 0

Complete(program) == \A f \in Files : program[f] # None

(***************************************************************************)
(* The editor and the threads of the watchers.                             *)
(***************************************************************************)
Edit(f, content) ==
    /\ edits < MaxEdits /\ disk[f] # content
    /\ edits' = edits + 1
    /\ disk' = [disk EXCEPT ![f] = content]
    /\ events' = IF watching THEN events \cup {f} ELSE events
    /\ UNCHANGED <<lateEvents, watching, revision, batch, queue, pc, restart,
                   compiled, view, session, requests, failures>>

\* The thread of the watcher takes an event: observe_change at once, the
\* batch only after the debounce delay.
Observe(f) ==
    /\ f \in events
    /\ events' = events \ {f}
    /\ revision' = revision + 1
    /\ batch' = IF batch = None
                THEN [paths |-> {f}, first |-> revision', last |-> revision',
                      contiguous |-> TRUE]
                ELSE [paths |-> batch.paths \cup {f}, first |-> batch.first,
                      last |-> revision',
                      contiguous |-> batch.contiguous
                                     /\ revision' = batch.last + 1]
    /\ UNCHANGED <<disk, lateEvents, watching, queue, pc, restart, compiled,
                   view, session, counts>>

\* A watcher that was replaced still counts the events it holds, but it ends
\* without a batch when it finds its channel disconnected.
ObserveLate(f) ==
    /\ f \in lateEvents
    /\ lateEvents' = lateEvents \ {f}
    /\ revision' = revision + 1
    /\ UNCHANGED <<disk, events, watching, batch, queue, pc, restart, compiled,
                   view, session, counts>>

Debounced ==
    /\ batch # None
    /\ queue' = Append(queue, [kind |-> "sources", batch |-> batch])
    /\ batch' = None
    /\ UNCHANGED <<disk, events, lateEvents, watching, revision, pc, restart,
                   compiled, view, session, counts>>

(***************************************************************************)
(* restart_with_status_after_changes, in the steps an edit can fall        *)
(* between: the revision is read first, then each file, then the new       *)
(* watcher replaces the old one, and last the files that the old one may   *)
(* have missed are compared and the child is replaced.                     *)
(***************************************************************************)
BeginRestart(changed) ==
    /\ restart' = [revision |-> revision, snapshot |-> Unread,
                   changed |-> changed]
    /\ pc' = "snapshot"

ReadSource(f) ==
    /\ pc = "snapshot" /\ restart.snapshot[f] = None
    /\ restart' = [restart EXCEPT !.snapshot[f] = disk[f]]
    /\ UNCHANGED <<disk, watch, queue, pc, compiled, view, session, counts>>

RegisterWatcher ==
    /\ pc = "snapshot" /\ Complete(restart.snapshot)
    /\ pc' = "spawn"
    /\ watching' = TRUE
    /\ lateEvents' = lateEvents \cup events
    /\ events' = {} /\ batch' = None
    /\ UNCHANGED <<disk, revision, queue, restart, compiled, view, session,
                   counts>>

\* The files whose old subscriptions cannot cover the hand-over differ.
MissedAnEdit ==
    \E f \in restart.changed : restart.snapshot[f] # disk[f]

\* A step that ends badly is one of the failures that are bounded.
MayFail(fails) ==
    IF fails THEN failures < MaxFailures /\ failures' = failures + 1
    ELSE UNCHANGED failures

Forget == /\ pendingPlays' = 0 /\ commands' = <<>> /\ bridge' = FALSE

SpawnChild ==
    /\ pc = "spawn" /\ pc' = "idle"
    /\ revision' = revision + (IF MissedAnEdit THEN 1 ELSE 0)
    /\ generation' = generation + 1
    /\ Forget
    /\ restart' = NoRestart
    /\ connected' = FALSE
    /\ \/ /\ MayFail(FALSE)
          /\ child' = [NoChild EXCEPT !.pc = "compiling"]
          /\ compilation' = [NotCompiled EXCEPT !.state = "compiling",
                                                !.snapshot = restart.snapshot]
          /\ compiledRevision' = restart.revision
          /\ running' = TRUE
       \/ /\ MayFail(TRUE)
          /\ child' = NoChild
          /\ compilation' = [NotCompiled EXCEPT !.state = "failed",
                                                !.snapshot = restart.snapshot]
          /\ compiledRevision' = None
          /\ running' = FALSE
    /\ UNCHANGED <<disk, events, lateEvents, watching, batch, queue, requested,
                   edits, requests>>

(***************************************************************************)
(* The child.  What it prints when it is ready and what it answers reach   *)
(* the queue with the generation of the connection they came from.         *)
(***************************************************************************)
ChildReads(f) ==
    /\ child.pc = "compiling" /\ child.program[f] = None
    /\ child' = [child EXCEPT !.program[f] = disk[f]]
    /\ UNCHANGED <<disk, watch, queue, pc, restart, compiled, view, bridge,
                   pendingPlays, commands, counts>>

Says(kind) ==
    queue' = Append(queue, [kind |-> kind, generation |-> generation])

\* The session of a child that compiled may still lack a run to play.
ChildFinishes ==
    /\ child.pc = "compiling" /\ Complete(child.program)
    /\ IF \E f \in Files : child.program[f] \in Broken
       THEN /\ child' = [child EXCEPT !.pc = "exited"]
            /\ UNCHANGED <<queue, failures>>
       ELSE /\ Says("ready")
            /\ \E plays \in BOOLEAN :
                  /\ MayFail(~plays)
                  /\ child' = [child EXCEPT !.pc = "live", !.playing = plays,
                                            !.refused = ~plays]
    /\ UNCHANGED <<disk, watch, pc, restart, compiled, view, bridge,
                   pendingPlays, commands, edits, requests>>

\* play restarts the run, which may fail; the child lives on and says so.
ChildCommand ==
    /\ child.pc = "live" /\ commands # <<>>
    /\ commands' = Tail(commands)
    /\ \/ /\ Head(commands) = "pause"
          /\ child' = [child EXCEPT !.playing = FALSE, !.refused = FALSE]
          /\ UNCHANGED <<queue, failures>>
       \/ /\ Head(commands) = "play"
          /\ \E plays \in BOOLEAN :
                /\ MayFail(~plays)
                /\ child' = [child EXCEPT !.playing = plays,
                                          !.refused = ~plays]
                /\ Says(IF plays THEN "played" ELSE "refused")
    /\ UNCHANGED <<disk, watch, pc, restart, compiled, view, bridge,
                   pendingPlays, edits, requests>>

ChildCrashes ==
    /\ child.pc \in {"compiling", "live"}
    /\ MayFail(TRUE)
    /\ child' = [child EXCEPT !.pc = "exited", !.playing = FALSE]
    /\ UNCHANGED <<disk, watch, queue, pc, restart, compiled, view, bridge,
                   pendingPlays, commands, edits, requests>>

(***************************************************************************)
(* The poll loop and the requests of the user, on the controller's thread. *)
(***************************************************************************)
Active == child.pc # "none"

\* Wrong variant: the revision is not compared, what is on disk is.
CompiledSourcesAreCurrentOnDisk == compilation.snapshot = disk

\* compiled_snapshot_is_current, the watchers covering every path.
CompiledSourcesAreCurrent == compiledRevision = revision

Noticed == events = {} /\ lateEvents = {}

Head_(kind) == pc = "idle" /\ queue # <<>> /\ Head(queue).kind = kind

IsCurrent(event) == event.generation = generation

Take == queue' = Tail(queue)

\* Messages of a child that was replaced are skipped.
SkipStale ==
    /\ Head_("ready") \/ Head_("played") \/ Head_("refused")
    /\ ~IsCurrent(Head(queue))
    /\ Take
    /\ UNCHANGED <<disk, watch, pc, restart, compiled, view, session, counts>>

\* Wrong variant: a compilation that is not current is left as it is.
RejectReadyQuietly == UNCHANGED <<pc, restart>>

RejectReady == BeginRestart({})

\* IpcBridge::connect, which fails for a child that has ended, and may fail
\* for one that lives.
Connect ==
    \E connects \in BOOLEAN :
       /\ connects => child.pc = "live"
       /\ MayFail(child.pc = "live" /\ ~connects)
       /\ bridge' = connects

\* handle_child_ready: the child counts only if no change was noticed since
\* before its snapshot was taken; it is asked again otherwise.
TakeReady ==
    /\ Head_("ready") /\ IsCurrent(Head(queue))
    /\ Take
    /\ \/ /\ compilation.state = "compiling" /\ CompiledSourcesAreCurrent
          /\ compilation' = [compilation EXCEPT !.state = "ready",
                                                !.early = ~Noticed]
          /\ Connect
          /\ connected' = bridge'
          /\ running' = (requested /\ connected')
          /\ UNCHANGED <<pc, restart>>
       \/ /\ ~(compilation.state = "compiling" /\ CompiledSourcesAreCurrent)
          /\ RejectReady
          /\ UNCHANGED <<compilation, bridge, connected, running, failures>>
    /\ UNCHANGED <<disk, watch, compiledRevision, generation, requested,
                   pendingPlays, child, commands, edits, requests>>

\* handle_tcp_response for the answer to a play command that is pending.
TakePlayed ==
    /\ Head_("played") \/ Head_("refused")
    /\ IsCurrent(Head(queue))
    /\ Take
    /\ IF pendingPlays > 0
       THEN /\ pendingPlays' = pendingPlays - 1
            /\ running' = (Head(queue).kind = "played")
       ELSE UNCHANGED <<pendingPlays, running>>
    /\ UNCHANGED <<disk, watch, pc, restart, compiled, requested, connected,
                   bridge, child, commands, counts>>

\* invalidate_compiled_child, and what stop does when no child can pause.
DropChild ==
    /\ generation' = generation + 1
    /\ child' = NoChild
    /\ bridge' = FALSE /\ commands' = <<>>
    /\ compilation' = NotCompiled /\ compiledRevision' = None
    /\ connected' = FALSE

\* sources_require_recompile
RequireRecompile(paths) ==
    \/ compilation.state = "none"
    \/ \E f \in paths : compilation.snapshot[f] # disk[f]

\* SourceWatchBatch::advance for a child that is ready.
Acknowledged(b) ==
    IF /\ compilation.state = "ready" /\ compiledRevision # None
       /\ b.last > compiledRevision
       /\ b.contiguous /\ b.first = compiledRevision + 1
    THEN b.last ELSE compiledRevision

\* Wrong variant: changes are ignored while nothing is played.
TakeBatchWhilePlaying ==
    /\ Head_("sources")
    /\ Take
    /\ IF requested /\ RequireRecompile(Head(queue).batch.paths)
       THEN BeginRestart(Head(queue).batch.paths) /\ UNCHANGED compiledRevision
       ELSE compiledRevision' = Acknowledged(Head(queue).batch)
            /\ UNCHANGED <<pc, restart>>
    /\ UNCHANGED <<disk, watch, compilation, generation, view, session, counts>>

TakeBatch ==
    LET b == Head(queue).batch IN
    /\ Head_("sources")
    /\ Take
    /\ \/ /\ RequireRecompile(b.paths) /\ requested
          /\ BeginRestart(b.paths)
          /\ UNCHANGED <<compiled, connected, session>>
       \/ /\ RequireRecompile(b.paths) /\ ~requested
          /\ DropChild
          /\ pendingPlays' = 0
          /\ UNCHANGED <<pc, restart>>
       \/ /\ ~RequireRecompile(b.paths)
          /\ compiledRevision' = Acknowledged(b)
          /\ UNCHANGED <<pc, restart, compilation, generation, connected,
                         session>>
    /\ UNCHANGED <<disk, watch, requested, running, counts>>

\* The queue is drained; poll looks for the end of the child next.
Drained ==
    /\ pc = "idle" /\ queue = <<>> /\ pc' = "exit"
    /\ UNCHANGED <<disk, watch, queue, restart, compiled, view, session, counts>>

\* handle_child_exited, when try_take_exit finds an end.
EndPoll ==
    /\ pc = "exit" /\ pc' = "idle"
    /\ IF child.pc = "exited"
       THEN /\ child' = [child EXCEPT !.pc = "none"]
            /\ Forget
            /\ compilation' = IF compilation.state = "none" THEN compilation
                              ELSE [compilation EXCEPT !.state = "failed"]
            /\ compiledRevision' = None
            /\ running' = FALSE /\ connected' = FALSE
       ELSE UNCHANGED <<session, compilation, compiledRevision, running,
                        connected>>
    /\ UNCHANGED <<disk, watch, queue, restart, generation, requested, counts>>

\* Wrong variant: a change that is not reported yet does not count.
CanReuseUntilReported == bridge /\ Active /\ compilation.state = "ready"

\* can_reuse_compiled_child
CanReuse == bridge /\ Active /\ compilation.state = "ready"
            /\ CompiledSourcesAreCurrent

\* start: the compiled child is resumed if it is current, else replaced.
Start ==
    /\ pc = "idle" /\ requests < MaxRequests /\ requests' = requests + 1
    /\ requested' = TRUE
    /\ \/ /\ CanReuse
          /\ commands' = Append(commands, "play")
          /\ pendingPlays' = pendingPlays + 1
          /\ running' = TRUE /\ connected' = TRUE
          /\ UNCHANGED <<pc, restart>>
       \/ /\ ~CanReuse
          /\ BeginRestart({})
          /\ UNCHANGED <<commands, pendingPlays, running, connected>>
    /\ UNCHANGED <<disk, watch, queue, compiled, bridge, child, edits, failures>>

\* Wrong variant: a child that is connected is not told.
PauseChildSilently ==
    connected' = FALSE /\ UNCHANGED <<compiled, bridge, child, commands>>

PauseChild ==
    /\ commands' = Append(commands, "pause")
    /\ connected' = FALSE
    /\ UNCHANGED <<compiled, bridge, child>>

\* stop: a connected child is paused, any other one is killed.
Stop ==
    /\ pc = "idle" /\ requests < MaxRequests /\ requests' = requests + 1
    /\ requested' = FALSE /\ running' = FALSE
    /\ \/ connected /\ Active /\ PauseChild
       \/ ~(connected /\ Active) /\ DropChild
    /\ UNCHANGED <<disk, watch, queue, pc, restart, pendingPlays, edits,
                   failures>>

Watcher == \E f \in Files : Observe(f) \/ ObserveLate(f)
Controller == \/ \E f \in Files : ReadSource(f)
              \/ RegisterWatcher \/ SpawnChild
              \/ SkipStale \/ TakeReady \/ TakePlayed \/ TakeBatch
              \/ Drained \/ EndPoll
Child == (\E f \in Files : ChildReads(f)) \/ ChildFinishes \/ ChildCommand

Next == \/ \E f \in Files, content \in Contents : Edit(f, content)
        \/ Watcher \/ Debounced \/ Controller \/ Child
        \/ ChildCrashes \/ Start \/ Stop

\* Threads and processes run; nobody has to edit, press, or crash.
Spec == Init /\ [][Next]_vars
        /\ WF_vars(Watcher) /\ WF_vars(Debounced)
        /\ WF_vars(Controller) /\ WF_vars(Child)

-----------------------------------------------------------------------------
\* Every pending notice is handled and the controller is between two polls.
Quiet == Noticed /\ batch = None /\ queue = <<>> /\ pc = "idle"

\* The child was believed before a change had reached the watcher, and read
\* other contents than the snapshot has: handle_child_ready can compare the
\* revision only.  Nothing compiles it again once the disk agrees with the
\* snapshot (QuietProgramIsOnDisk is violated).
Misread == compilation.early /\ child.program # compilation.snapshot

\* The program of a child that counts as ready is the one in the snapshot
\* that later changes are compared with, although child and controller read
\* the files at different times and an editor writes between the reads:
\* handle_child_ready rejects every other child, unless a change had not yet
\* reached the watcher when the message that it is ready was handled.
ReadyProgramIsTheSnapshot ==
    compilation.state = "ready"
    => child.program = compilation.snapshot \/ compilation.early

\* When every change has been handled, a child that is ready holds what is on
\* disk, or it was misread: no other change is lost, neither at the hand-over
\* of two watchers nor by acknowledging a batch nor while playback is paused.
QuietProgramIsCurrent ==
    Quiet /\ compilation.state = "ready" => child.program = disk \/ Misread

\* While playback is stopped nothing compiles, and the child, if there is
\* one, is silent once it has read its commands; while playback is wanted a
\* connected child plays, or could not when it was last asked to.
ChildFollowsTheUser ==
    /\ ~requested => child.pc # "compiling"
    /\ Quiet /\ bridge /\ child.pc = "live" /\ commands = <<>>
       => IF requested THEN child.playing \/ child.refused ELSE ~child.playing

\* start resumes a child only if its program is on disk, or it was misread,
\* or the change is so new that no watcher has seen it; the debounce delay is
\* no excuse.
ResumesTheCurrentProgram ==
    [][(Start /\ CanReuse)
       => (child.program = disk \/ Misread \/ ~Noticed)]_vars

\* While playback is wanted, the newest sources end up running and shown as
\* running.  What may come instead: their child failed, it was misread, the
\* connection to it failed, or it answered that it cannot play.
NewestSourcesRun ==
    <>[]requested =>
    <>[](\/ compilation.state = "failed"
         \/ /\ child.pc = "live" /\ compilation.state = "ready"
            /\ child.program = disk \/ Misread
            /\ ~bridge \/ child.refused \/ (child.playing /\ running))

\* README.md says that loaded sources reload when they change: once all is
\* quiet, a child that is ready should hold what is on disk.
QuietProgramIsOnDisk ==
    Quiet /\ compilation.state = "ready" => child.program = disk

\* lib.rs:1105 says of a compilation that the child may have parsed transient
\* contents which were changed back: once all is quiet a failure should be
\* that of sources that are broken, or a crash.
QuietFailureIsReal ==
    Quiet /\ compilation.state = "failed" /\ failures = 0
    => \E f \in Files : disk[f] \in Broken
=============================================================================
