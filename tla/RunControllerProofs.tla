------------------------ MODULE RunControllerProofs ------------------------
(***************************************************************************)
(* Proofs about RunController, for every set of sources and contents, and  *)
(* any number of edits, requests and failures.                             *)
(***************************************************************************)
EXTENDS RunController, TLAPS

Program == [Files -> Contents \cup {None}]
Compilations == [state : {"none", "compiling", "ready", "failed"},
                 snapshot : Program, early : BOOLEAN]
Children == [pc : {"none", "compiling", "live", "exited"}, program : Program,
             playing : BOOLEAN, refused : BOOLEAN]
Kinds == {"ready", "played", "refused"}
Answers == [kind : Kinds, generation : Nat]
Reports == [kind : {"sources"}, batch : Batches]
Messages == Answers \cup Reports

DataTypes ==
    /\ disk \in [Files -> Contents]
    /\ events \subseteq Files /\ lateEvents \subseteq Files
    /\ watching \in BOOLEAN /\ revision \in Nat
    /\ batch \in Batches \cup {None}
    /\ restart \in [revision : Nat, snapshot : Program, changed : SUBSET Files]
    /\ compilation \in Compilations
    /\ compiledRevision \in Nat \cup {None} /\ generation \in Nat

ControlTypes ==
    /\ queue \in Seq(Messages)
    /\ pc \in {"idle", "exit", "snapshot", "spawn"}
    /\ requested \in BOOLEAN /\ connected \in BOOLEAN /\ bridge \in BOOLEAN
    /\ child \in Children
    /\ commands \in Seq({"play", "pause"})

Types == DataTypes /\ ControlTypes

LEMMA ConstantTypes ==
    /\ Unread \in Program
    /\ NoRestart \in [revision : Nat, snapshot : Program, changed : SUBSET Files]
    /\ NotCompiled \in Compilations
    /\ NoChild \in Children
<1>1. Unread \in Program
  BY DEF Unread, Program
<1> QED
  BY <1>1 DEF NoRestart, NotCompiled, NoChild, Compilations, Children

LEMMA AppendIs ==
    ASSUME NEW S, NEW s \in Seq(S), NEW x \in S
    PROVE  /\ Append(s, x) \in Seq(S) /\ Append(s, x) # <<>>
           /\ Len(Append(s, x)) = Len(s) + 1
           /\ \A i \in 1..Len(s) : Append(s, x)[i] = s[i]
           /\ Append(s, x)[Len(s) + 1] = x
OBVIOUS

LEMMA TailIs ==
    ASSUME NEW S, NEW s \in Seq(S), s # <<>>
    PROVE  /\ Tail(s) \in Seq(S) /\ Len(Tail(s)) = Len(s) - 1
           /\ Len(s) \in Nat \ {0}
           /\ \A i \in 1..Len(Tail(s)) : i + 1 \in 1..Len(s) /\ Tail(s)[i] = s[i + 1]
           /\ Head(s) = s[1] /\ Head(s) \in S
OBVIOUS

LEMMA EmptyIs ==
    ASSUME NEW S, NEW s \in Seq(S)
    PROVE  s = <<>> <=> Len(s) = 0
OBVIOUS

LEMMA NoCommands ==
    <<>> \in Seq({"play", "pause"}) /\ <<>> \in Seq(Messages)
OBVIOUS

LEMMA InitTypes == Init => Types
<1> SUFFICES ASSUME Init PROVE Types
  OBVIOUS
<1>1. disk \in [Files -> Contents]
  <2>1. (CHOOSE c \in Contents : c \notin Broken) \in Contents
    BY ContentAssumption
  <2> QED
    BY <2>1 DEF Init
<1>2. restart \in [revision : Nat, snapshot : Program, changed : SUBSET Files]
  BY ConstantTypes DEF Init
<1>3. DataTypes
  BY <1>1, <1>2, ConstantTypes DEF Init, DataTypes
<1>4. ControlTypes
  BY ConstantTypes, NoCommands DEF Init, ControlTypes
<1> QED
  BY <1>3, <1>4 DEF Types

LEMMA SpawnIs ==
    ASSUME Types, SpawnChild
    PROVE  /\ compilation' \in Compilations
           /\ compilation'.state \in {"compiling", "failed"}
           /\ child'.pc \in {"none", "compiling"}
           /\ compiledRevision' \in {restart.revision, None}
<1>1. restart.snapshot \in Program
  BY DEF Types, DataTypes
<1>2. ASSUME NEW state \in {"compiling", "failed"},
             compilation' = [NotCompiled EXCEPT !.state = state,
                                                !.snapshot = restart.snapshot]
      PROVE  /\ compilation' \in Compilations /\ compilation'.state = state
  BY <1>1, <1>2 DEF NotCompiled, Compilations
<1>3. CASE child' = NoChild
  BY <1>2, <1>3 DEF SpawnChild, NoChild
<1>4. CASE child' = [NoChild EXCEPT !.pc = "compiling"]
  BY <1>2, <1>4 DEF SpawnChild, NoChild
<1> QED
  BY <1>3, <1>4 DEF SpawnChild

LEMMA DataTypesStep ==
    ASSUME Types, [Next]_vars
    PROVE  DataTypes'
<1> USE DEF DataTypes, Compilations, watch, compiled, view, session, counts
<1>0. DataTypes /\ ControlTypes
  BY DEF Types
<1>1. ASSUME NEW f \in Files, NEW content \in Contents, Edit(f, content)
      PROVE  DataTypes'
  BY <1>0, <1>1 DEF Edit
<1>2. ASSUME NEW f \in Files, Observe(f) \/ ObserveLate(f)
      PROVE  DataTypes'
  <2>1. CASE Observe(f)
    <3>1. batch' \in Batches
      BY <1>0, <2>1 DEF Observe, Batches
    <3> QED
      BY <1>0, <2>1, <3>1 DEF Observe
  <2> QED
    BY <1>0, <1>2, <2>1 DEF ObserveLate
<1>3. CASE Debounced \/ RegisterWatcher \/ SkipStale \/ TakePlayed \/ Drained
  BY <1>0, <1>3 DEF Debounced, RegisterWatcher, SkipStale, TakePlayed, Drained
<1>4. ASSUME NEW f \in Files, ReadSource(f) PROVE DataTypes'
  BY <1>0, <1>4 DEF ReadSource, Program
<1>5. CASE SpawnChild
  <2>1. compilation' \in Compilations /\ compiledRevision' \in Nat \cup {None}
    BY <1>0, <1>5, SpawnIs
  <2>2. /\ revision' \in Nat /\ generation' \in Nat /\ restart' = NoRestart
        /\ UNCHANGED <<disk, events, lateEvents, watching, batch>>
    BY <1>0, <1>5 DEF SpawnChild
  <2> QED
    BY <1>0, <2>1, <2>2, ConstantTypes
<1>6. CASE TakeReady
  <2>1. (~Noticed) \in BOOLEAN
    BY DEF Noticed
  <2> QED
    <3>1. compilation' \in Compilations
      BY <1>0, <1>6, <2>1 DEF TakeReady
    <3> QED
      BY <1>0, <1>6, <3>1, ConstantTypes
         DEF TakeReady, RejectReady, BeginRestart
<1>7. CASE TakeBatch
  <2>1. Head(queue) \in Messages /\ Head(queue).kind = "sources"
    BY <1>0, <1>7, TailIs DEF TakeBatch, Head_, ControlTypes
  <2>2. Head(queue).batch \in Batches
    BY <2>1 DEF Messages, Answers, Kinds, Reports
  <2>3. Acknowledged(Head(queue).batch) \in Nat \cup {None}
    BY <1>0, <2>2 DEF Acknowledged, Batches
  <2> QED
    BY <1>0, <1>7, <2>2, <2>3, ConstantTypes
       DEF TakeBatch, BeginRestart, DropChild, Batches
<1>8. CASE EndPoll
  BY <1>0, <1>8 DEF EndPoll
<1>9. CASE ChildFinishes \/ ChildCommand \/ ChildCrashes
           \/ \E f \in Files : ChildReads(f)
  BY <1>0, <1>9 DEF ChildFinishes, ChildCommand, ChildCrashes, ChildReads
<1>10. CASE Start
  BY <1>0, <1>10, ConstantTypes DEF Start, BeginRestart
<1>11. CASE Stop
  BY <1>0, <1>11, ConstantTypes DEF Stop, PauseChild, DropChild
<1>12. CASE UNCHANGED vars
  BY <1>0, <1>12 DEF vars
<1> QED
  BY <1>1, <1>2, <1>3, <1>4, <1>5, <1>6, <1>7, <1>8, <1>9, <1>10, <1>11, <1>12
     DEF Next, Watcher, Controller, Child

LEMMA ControlTypesStep ==
    ASSUME Types, [Next]_vars
    PROVE  ControlTypes'
<1> USE DEF ControlTypes, Children, watch, compiled, view, session, counts
<1>0. DataTypes /\ ControlTypes
  BY DEF Types
<1>q. queue # <<>> => Tail(queue) \in Seq(Messages)
  BY <1>0, TailIs
<1>c. \A x \in {"play", "pause"} : Append(commands, x) \in Seq({"play", "pause"})
  BY <1>0, AppendIs
<1>1. CASE \/ \E f \in Files, content \in Contents : Edit(f, content)
           \/ \E f \in Files : Observe(f) \/ ObserveLate(f) \/ ReadSource(f)
           \/ RegisterWatcher \/ Drained
  BY <1>0, <1>1 DEF Edit, Observe, ObserveLate, ReadSource, RegisterWatcher,
                    Drained
<1>2. CASE Debounced
  <2>1. [kind |-> "sources", batch |-> batch] \in Messages
    BY <1>0, <1>2 DEF Debounced, Messages, Reports, DataTypes
  <2>2. queue' \in Seq(Messages)
    BY <1>0, <1>2, <2>1, AppendIs DEF Debounced
  <2> QED
    BY <1>0, <1>2, <2>2 DEF Debounced
<1>3. CASE SpawnChild
  BY <1>0, <1>3, ConstantTypes, NoCommands DEF SpawnChild, Forget
<1>4. CASE SkipStale \/ TakePlayed
  BY <1>0, <1>q, <1>4 DEF SkipStale, TakePlayed, Head_, Take
<1>5. CASE TakeReady
  BY <1>0, <1>q, <1>5 DEF TakeReady, Head_, Take, RejectReady, BeginRestart,
                          Connect
<1>6. CASE TakeBatch
  BY <1>0, <1>q, <1>6, ConstantTypes, NoCommands
     DEF TakeBatch, Head_, Take, BeginRestart, DropChild
<1>7. CASE EndPoll
  BY <1>0, <1>7, NoCommands DEF EndPoll, Forget
<1>8. ASSUME NEW f \in Files, ChildReads(f) PROVE ControlTypes'
  BY <1>0, <1>8 DEF ChildReads, Program, DataTypes
<1>9. CASE ChildFinishes \/ ChildCommand
  <2>1. \A k \in Kinds :
            [kind |-> k, generation |-> generation] \in Messages
    BY <1>0 DEF Messages, Answers, Kinds, DataTypes
  <2>2. \A k \in Kinds :
            Append(queue, [kind |-> k, generation |-> generation])
                \in Seq(Messages)
    BY <1>0, <2>1, AppendIs
  <2>3. commands # <<>> => Tail(commands) \in Seq({"play", "pause"})
    BY <1>0, TailIs
  <2>4. CASE ChildFinishes
    BY <1>0, <2>2, <2>4 DEF ChildFinishes, Says, Kinds
  <2>5. CASE ChildCommand
    <3>1. queue' \in Seq(Messages)
      BY <1>0, <2>2, <2>5 DEF ChildCommand, Says, Kinds
    <3>2. child' \in Children
      BY <1>0, <2>5 DEF ChildCommand
    <3> QED
      BY <1>0, <2>3, <2>5, <3>1, <3>2 DEF ChildCommand
  <2> QED
    BY <1>9, <2>4, <2>5
<1>10. CASE ChildCrashes
  BY <1>0, <1>10 DEF ChildCrashes
<1>11. CASE Start
  BY <1>0, <1>c, <1>11 DEF Start, BeginRestart
<1>12. CASE Stop
  BY <1>0, <1>c, <1>12, ConstantTypes, NoCommands
     DEF Stop, PauseChild, DropChild
<1>13. CASE UNCHANGED vars
  BY <1>0, <1>13 DEF vars
<1> QED
  BY <1>1, <1>2, <1>3, <1>4, <1>5, <1>6, <1>7, <1>8, <1>9, <1>10, <1>11, <1>12,
     <1>13 DEF Next, Watcher, Controller, Child

LEMMA TypesStep ==
    ASSUME Types, [Next]_vars
    PROVE  Types'
BY DataTypesStep, ControlTypesStep DEF Types
-----------------------------------------------------------------------------
(***************************************************************************)
(* Why a revision is enough.  A restart reads the revision before its      *)
(* first file.  While that revision is still the newest and no notice is   *)
(* on its way, no file has changed but those the hand-over compares, so    *)
(* that snapshot, child and disk agree.                                    *)
(***************************************************************************)
WatchInv ==
    /\ ~watching => /\ pc = "snapshot" /\ restart.changed = Files
                    /\ compilation.state = "none"
    /\ restart.revision <= revision
    /\ compiledRevision # None => compiledRevision <= revision

RestartInv ==
    /\ pc = "spawn" => Complete(restart.snapshot)
    /\ pc \in {"snapshot", "spawn"} /\ restart.revision = revision /\ Noticed
       => \A f \in Files : \/ restart.snapshot[f] \in {None, disk[f]}
                           \/ f \in restart.changed

\* Noticed or not, a child reads what is on disk after its watcher was
\* registered, so that a file it read differently has an event.
CompilingInv ==
    /\ compilation.state = "compiling" /\ compiledRevision = revision
    /\ pc \in {"idle", "exit"}
    => /\ Noticed => compilation.snapshot = disk
       /\ \A f \in Files : \/ child.program[f] \in {None, disk[f]}
                           \/ f \in events

\* Batches are numbered: the ones that wait, in the order they wait, then the
\* one being debounced.
BatchesUpTo(n) ==
    \A i \in 1..Len(queue) :
        queue[i].kind = "sources" => queue[i].batch.last <= n

BatchInv ==
    /\ BatchesUpTo(revision)
    /\ \A i, j \in 1..Len(queue) :
          /\ queue[i].kind = "sources" /\ queue[j].kind = "sources" /\ i < j
          => queue[i].batch.last < queue[j].batch.last
    /\ batch # None => /\ batch.last <= revision
                       /\ \A i \in 1..Len(queue) :
                             queue[i].kind = "sources"
                             => queue[i].batch.last < batch.last

LEMMA QueuedTypes ==
    ASSUME ControlTypes, NEW i \in 1..Len(queue)
    PROVE  /\ queue[i] \in Messages
           /\ queue[i].kind = "sources" => queue[i].batch \in Batches
           /\ queue[i].kind # "sources" => queue[i].generation \in Nat
<1>1. queue[i] \in Messages
  BY DEF ControlTypes
<1> QED
  BY <1>1 DEF Messages, Answers, Kinds, Reports

\* What each kind of step does to the queue.
LEMMA QueueStep ==
    ASSUME Types, [Next]_vars
    PROVE  \/ queue' = queue
           \/ /\ queue # <<>> /\ queue' = Tail(queue)
              /\ TakeBatch \/ Head(queue).kind # "sources"
           \/ Debounced
           \/ \E k \in Kinds :
                 /\ (k = "ready") <=> ChildFinishes
                 /\ queue' = Append(queue, [kind |-> k, generation |-> generation])
<1>1. CASE ChildFinishes
  BY <1>1 DEF ChildFinishes, Says, Kinds
<1>2. CASE ChildCommand
  <2>1. ~ChildFinishes
    BY <1>2 DEF ChildCommand, ChildFinishes
  <2>2. CASE Head(commands) = "pause"
    BY <1>2, <2>2 DEF ChildCommand
  <2>3. CASE Head(commands) # "pause"
    <3>1. PICK k \in {"played", "refused"} : Says(k)
      BY <1>2, <2>3 DEF ChildCommand
    <3> QED
      BY <2>1, <3>1 DEF Says, Kinds
  <2> QED
    BY <2>2, <2>3
<1>3. CASE ~ChildFinishes /\ ~ChildCommand
  BY <1>3 DEF Next, Watcher, Controller, Child, Edit, Observe, ObserveLate,
       ReadSource, RegisterWatcher, SpawnChild, SkipStale, TakeReady,
       TakePlayed, TakeBatch, Take, Head_, Drained, EndPoll, ChildReads,
       ChildCrashes, Start, Stop, vars
<1> QED
  BY <1>1, <1>2, <1>3

\* Revisions grow, and a batch ends with the newest one when it grows.
LEMMA RevisionStep ==
    ASSUME Types, [Next]_vars
    PROVE  /\ revision' \in Nat /\ revision <= revision'
           /\ \/ batch' \in {batch, None}
              \/ batch' # None /\ batch'.last = revision' /\ revision < revision'
                 /\ queue' = queue
<1>0. DataTypes
  BY DEF Types
<1>1. ASSUME NEW f \in Files, Observe(f) \/ ObserveLate(f)
      PROVE  /\ revision' = revision + 1
             /\ batch' = batch \/ (batch' # None /\ batch'.last = revision'
                                  /\ queue' = queue)
  <2>1. CASE Observe(f)
    <3>1. \/ batch' = [paths |-> {f}, first |-> revision', last |-> revision',
                       contiguous |-> TRUE]
          \/ batch' = [paths |-> batch.paths \cup {f}, first |-> batch.first,
                       last |-> revision',
                       contiguous |-> batch.contiguous
                                      /\ revision' = batch.last + 1]
      BY <2>1 DEF Observe
    <3>2. batch'.last = revision'
      BY <3>1
    <3>3. batch' \in Batches
      BY <1>0, <2>1 DEF Observe, DataTypes, Batches
    <3>4. batch' # None
      BY <3>3, ContentAssumption
    <3> QED
      BY <2>1, <3>2, <3>4 DEF Observe
  <2>2. CASE ObserveLate(f)
    BY <2>2 DEF ObserveLate
  <2> QED
    BY <1>1, <2>1, <2>2
<1>2. CASE \E f \in Files : Observe(f) \/ ObserveLate(f)
  BY <1>0, <1>1, <1>2 DEF DataTypes
<1>3. CASE SpawnChild
  BY <1>0, <1>3 DEF SpawnChild, DataTypes
<1>4. CASE ~(\E f \in Files : Observe(f) \/ ObserveLate(f)) /\ ~SpawnChild
  <2>1. revision' = revision /\ batch' \in {batch, None}
    BY <1>4 DEF Next, Watcher, Controller, Child, Edit, ReadSource,
       RegisterWatcher, SkipStale, TakeReady, TakePlayed, TakeBatch, Debounced,
       Drained, EndPoll, ChildReads, ChildFinishes, ChildCommand,
       ChildCrashes, Start, Stop, vars, watch
  <2> QED
    BY <1>0, <2>1 DEF DataTypes
<1> QED
  BY <1>2, <1>3, <1>4

LEMMA BatchStep ==
    ASSUME Types, BatchInv, [Next]_vars
    PROVE  BatchInv'
<1>0. DataTypes /\ ControlTypes /\ DataTypes' /\ ControlTypes'
  BY DataTypesStep, ControlTypesStep DEF Types
<1>1. \A i \in 1..Len(queue) :
          queue[i].kind = "sources" => queue[i].batch.last \in Nat
  BY <1>0, QueuedTypes DEF Batches
<1>2. /\ revision \in Nat /\ revision' \in Nat /\ revision <= revision'
      /\ batch # None => batch.last \in Nat
  BY <1>0, RevisionStep DEF DataTypes, Batches
<1>3. CASE batch' # None /\ batch'.last = revision' /\ revision < revision'
           /\ queue' = queue
  BY <1>1, <1>2, <1>3 DEF BatchInv, BatchesUpTo
<1>4. CASE batch' \in {batch, None} /\ queue' = queue
  BY <1>1, <1>2, <1>4 DEF BatchInv, BatchesUpTo
<1>5. CASE batch' \in {batch, None} /\ queue # <<>> /\ queue' = Tail(queue)
  <2>1. /\ Len(queue') = Len(queue) - 1 /\ Len(queue) \in Nat
        /\ \A i \in 1..Len(queue') : /\ i + 1 \in 1..Len(queue)
                                     /\ queue'[i] = queue[i + 1]
    BY <1>0, <1>5, TailIs DEF ControlTypes
  <2> QED
    BY <1>1, <1>2, <1>5, <2>1 DEF BatchInv, BatchesUpTo
<1>6. CASE Debounced
  <2>1. /\ batch # None /\ batch' = None /\ revision' = revision
        /\ queue' = Append(queue, [kind |-> "sources", batch |-> batch])
    BY <1>6 DEF Debounced, watch
  <2>2. [kind |-> "sources", batch |-> batch] \in Messages
    BY <1>0, <2>1 DEF DataTypes, Messages, Reports
  <2>3. /\ Len(queue') = Len(queue) + 1 /\ Len(queue) \in Nat
        /\ \A i \in 1..Len(queue) : queue'[i] = queue[i]
        /\ queue'[Len(queue) + 1].batch = batch
    BY <1>0, <2>1, <2>2, AppendIs DEF ControlTypes
  <2> QED
    BY <1>1, <1>2, <2>1, <2>3 DEF BatchInv, BatchesUpTo
<1>7. ASSUME NEW k \in Kinds, batch' \in {batch, None},
             queue' = Append(queue, [kind |-> k, generation |-> generation])
      PROVE  BatchInv'
  <2>1. [kind |-> k, generation |-> generation] \in Messages
    BY <1>0 DEF DataTypes, Messages, Answers, Kinds
  <2>2. /\ Len(queue') = Len(queue) + 1 /\ Len(queue) \in Nat
        /\ \A i \in 1..Len(queue) : queue'[i] = queue[i]
        /\ queue'[Len(queue) + 1].kind # "sources"
    BY <1>0, <1>7, <2>1, AppendIs DEF ControlTypes, Kinds
  <2> QED
    BY <1>1, <1>2, <1>7, <2>2 DEF BatchInv, BatchesUpTo
<1> QED
  BY QueueStep, RevisionStep, <1>3, <1>4, <1>5, <1>6, <1>7

LEMMA WatchStep ==
    ASSUME Types, Types', BatchesUpTo(revision), WatchInv, RestartInv, CompilingInv, [Next]_vars
    PROVE  WatchInv' /\ RestartInv' /\ CompilingInv'
<1> USE DEF WatchInv, watch, compiled, view, session, counts
<1>0. DataTypes /\ ControlTypes /\ DataTypes'
  BY DEF Types
<1>a. ASSUME UNCHANGED <<disk, events, lateEvents, watching, revision, pc,
                         restart, compilation, compiledRevision, child>>
      PROVE  WatchInv' /\ RestartInv' /\ CompilingInv'
  BY <1>a DEF RestartInv, CompilingInv, Noticed, Complete
<1>1. ASSUME NEW f \in Files, NEW content \in Contents, Edit(f, content)
      PROVE  WatchInv' /\ RestartInv' /\ CompilingInv'
  <2>1. CASE watching
    <3>1. ~Noticed' /\ f \in events' /\ events \subseteq events'
      BY <1>1, <2>1 DEF Edit, Noticed
    <3>2. \A g \in Files : g = f \/ disk'[g] = disk[g]
      BY <1>0, <1>1 DEF Edit, DataTypes
    <3> QED
      BY <1>1, <3>1, <3>2 DEF Edit, RestartInv, CompilingInv, Complete
  <2>2. CASE ~watching
    BY <1>0, <1>1, <2>2 DEF Edit, RestartInv, CompilingInv
  <2> QED
    BY <1>0, <2>1, <2>2 DEF DataTypes
<1>2. ASSUME NEW f \in Files, Observe(f) \/ ObserveLate(f)
      PROVE  WatchInv' /\ RestartInv' /\ CompilingInv'
  <2>1. /\ revision' = revision + 1
        /\ UNCHANGED <<watching, pc, restart, compilation, compiledRevision>>
    BY <1>2 DEF Observe, ObserveLate
  <2>2. /\ restart.revision <= revision' /\ restart.revision # revision'
        /\ compiledRevision # None => compiledRevision <= revision'
                                      /\ compiledRevision # revision'
    BY <1>0, <2>1 DEF DataTypes
  <2>3. compiledRevision' # revision'
    BY <2>1, <2>2, <1>0, ContentAssumption DEF DataTypes
  <2> QED
    BY <2>1, <2>2, <2>3 DEF RestartInv, CompilingInv, Complete
<1>3. CASE Debounced \/ SkipStale \/ TakePlayed
  BY <1>a, <1>3 DEF Debounced, SkipStale, TakePlayed
<1>4. ASSUME NEW f \in Files, ReadSource(f)
      PROVE  WatchInv' /\ RestartInv' /\ CompilingInv'
  <2>1. /\ restart'.revision = restart.revision
        /\ restart'.changed = restart.changed
        /\ \A g \in Files : restart'.snapshot[g] =
              IF g = f THEN disk[f] ELSE restart.snapshot[g]
        /\ UNCHANGED <<disk, events, lateEvents, watching, revision, pc,
                       compilation, compiledRevision, child>>
        /\ pc = "snapshot"
    BY <1>0, <1>4 DEF ReadSource, DataTypes, Program
  <2> QED
    BY <2>1 DEF RestartInv, CompilingInv, Noticed
<1>5. CASE RegisterWatcher
  <2>1. /\ Noticed' => Noticed
        /\ UNCHANGED <<disk, revision, restart, compilation, compiledRevision,
                       child>>
        /\ watching' = TRUE /\ pc = "snapshot" /\ pc' = "spawn"
        /\ Complete(restart.snapshot)
    BY <1>5 DEF RegisterWatcher, Noticed
  <2> QED
    BY <2>1 DEF RestartInv, CompilingInv, Complete
<1>6. CASE SpawnChild
  <2>1. /\ pc = "spawn" /\ pc' = "idle" /\ watching' = watching
        /\ restart' = NoRestart
        /\ revision' = revision + (IF MissedAnEdit THEN 1 ELSE 0)
        /\ Noticed' = Noticed /\ disk' = disk
    BY <1>6 DEF SpawnChild, Noticed
  <2>2. watching
    BY <1>0, <2>1 DEF DataTypes
  <2>3. revision' \in Nat /\ revision <= revision'
    BY <1>0, <2>1 DEF DataTypes
  <2>4. restart'.revision = 0
    BY <2>1 DEF NoRestart
  <2>5. compiledRevision' # None => compiledRevision' <= revision'
    BY <1>0, <1>6, <2>3, SpawnIs DEF DataTypes
  <2>6. WatchInv'
    BY <2>1, <2>2, <2>3, <2>4, <2>5
  <2>7. ASSUME compilation'.state = "compiling", compiledRevision' = revision'
        PROVE  /\ Noticed' => compilation'.snapshot = disk'
               /\ \A f \in Files : child'.program[f] \in {None, disk'[f]}
    <3>1. /\ compilation'.snapshot = restart.snapshot
          /\ compiledRevision' = restart.revision
          /\ child' = [NoChild EXCEPT !.pc = "compiling"]
      BY <1>6, <2>7 DEF SpawnChild, NotCompiled
    <3>2. restart.revision = revision /\ ~MissedAnEdit
      BY <1>0, <2>1, <2>7, <3>1 DEF DataTypes
    <3>3. Noticed => \A f \in Files : restart.snapshot[f] = disk[f]
      BY <2>1, <3>2 DEF RestartInv, MissedAnEdit, Complete
    <3>4. Noticed => restart.snapshot = disk
      BY <1>0, <3>3 DEF DataTypes, Program
    <3>5. \A f \in Files : child'.program[f] = None
      BY <3>1 DEF NoChild, Unread
    <3> QED
      BY <2>1, <3>1, <3>4, <3>5
  <2> QED
    BY <2>1, <2>6, <2>7 DEF RestartInv, CompilingInv
<1>b. ASSUME NEW paths, BeginRestart(paths), pc = "idle",
             UNCHANGED <<disk, events, lateEvents, watching, revision,
                         compilation, compiledRevision, child>>
      PROVE  WatchInv' /\ RestartInv' /\ CompilingInv'
  <2>1. /\ restart'.revision = revision
        /\ \A f \in Files : restart'.snapshot[f] = None
        /\ pc' = "snapshot" /\ watching'
    BY <1>0, <1>b DEF BeginRestart, Unread, DataTypes
  <2> QED
    BY <1>0, <1>b, <2>1 DEF RestartInv, CompilingInv, Noticed, DataTypes
<1>c. ASSUME compilation'.state # "compiling", pc \in {"idle", "exit"},
             UNCHANGED <<disk, events, lateEvents, watching, revision, restart>>,
             pc' \in {"idle", "exit"},
             compiledRevision' # None => compiledRevision' <= revision
      PROVE  WatchInv' /\ RestartInv' /\ CompilingInv'
  BY <1>0, <1>c DEF RestartInv, CompilingInv, DataTypes
<1>d. ASSUME UNCHANGED <<disk, events, lateEvents, watching, revision, pc,
                         restart, compilation, compiledRevision>>,
             \A f \in Files : child'.program[f] \in {child.program[f], disk[f]}
      PROVE  WatchInv' /\ RestartInv' /\ CompilingInv'
  BY <1>d DEF RestartInv, CompilingInv, Noticed, Complete
<1>7. CASE TakeReady
  <2>1. CASE RejectReady /\ UNCHANGED compilation
    BY <1>7, <1>b, <2>1 DEF TakeReady, Head_, RejectReady
  <2>2. CASE UNCHANGED <<pc, restart>>
             /\ compilation' = [compilation EXCEPT !.state = "ready",
                                                   !.early = ~Noticed]
    <3>1. compilation'.state = "ready"
      BY <1>0, <2>2 DEF DataTypes, Compilations
    <3> QED
      BY <1>7, <1>c, <2>2, <3>1 DEF TakeReady, Head_
  <2> QED
    BY <1>7, <2>1, <2>2 DEF TakeReady
<1>8. CASE TakeBatch
  <2> DEFINE b == Head(queue).batch
  <2>0. pc = "idle" /\ UNCHANGED <<disk, events, lateEvents, watching, revision>>
    BY <1>8 DEF TakeBatch, Head_
  <2>1. CASE BeginRestart(b.paths) /\ UNCHANGED <<compiled, session>>
    BY <1>b, <2>0, <2>1
  <2>2. CASE DropChild /\ UNCHANGED <<pc, restart>>
    BY <1>c, <2>0, <2>2 DEF DropChild, NotCompiled
  <2>3. CASE compiledRevision' = Acknowledged(b)
             /\ UNCHANGED <<pc, restart, compilation, session>>
    <3>1. Head(queue) = queue[1] /\ 1 \in 1..Len(queue)
          /\ queue[1].kind = "sources"
      BY <1>0, <1>8, TailIs DEF TakeBatch, Head_, ControlTypes
    <3>2. b.last <= revision
      BY <3>1 DEF BatchesUpTo
    <3>3. CASE compiledRevision' = compiledRevision
      BY <1>a, <2>0, <2>3, <3>3
    <3>4. CASE compilation.state = "ready" /\ compiledRevision' = b.last
      BY <1>c, <2>0, <2>3, <3>2, <3>4
    <3> QED
      BY <2>3, <3>3, <3>4 DEF Acknowledged
  <2> QED
    BY <1>8, <2>1, <2>2, <2>3 DEF TakeBatch
<1>9. CASE Drained
  BY <1>0, <1>9 DEF Drained, RestartInv, CompilingInv, Noticed
<1>10. CASE EndPoll
  <2>1. pc = "exit" /\ pc' = "idle"
        /\ UNCHANGED <<disk, events, lateEvents, watching, revision, restart>>
    BY <1>10 DEF EndPoll
  <2>2. CASE child.pc = "exited"
    <3>1. compilation'.state # "compiling" /\ compiledRevision' = None
      BY <1>0, <1>10, <2>2 DEF EndPoll, DataTypes, Compilations
    <3> QED
      BY <1>c, <2>1, <3>1
  <2>3. CASE UNCHANGED <<child, compilation, compiledRevision>>
    BY <2>1, <2>3 DEF RestartInv, CompilingInv, Noticed
  <2> QED
    BY <1>10, <2>2, <2>3 DEF EndPoll
<1>11. ASSUME NEW g \in Files, ChildReads(g)
       PROVE  WatchInv' /\ RestartInv' /\ CompilingInv'
  <2>1. \A f \in Files : child'.program[f] \in {child.program[f], disk[f]}
    BY <1>0, <1>11 DEF ChildReads, ControlTypes, Program
  <2> QED
    BY <1>11, <1>d, <2>1 DEF ChildReads
<1>12. CASE ChildFinishes \/ ChildCommand \/ ChildCrashes
  <2>1. child'.program = child.program
    BY <1>0, <1>12 DEF ChildFinishes, ChildCommand, ChildCrashes, ControlTypes,
                       Children
  <2> QED
    BY <1>12, <1>d, <2>1 DEF ChildFinishes, ChildCommand, ChildCrashes
<1>13. CASE Start
  <2>1. CASE BeginRestart({})
    BY <1>13, <1>b, <2>1 DEF Start
  <2>2. CASE UNCHANGED <<pc, restart>>
    BY <1>13, <1>a, <2>2 DEF Start
  <2> QED
    BY <1>13, <2>1, <2>2 DEF Start
<1>14. CASE Stop
  <2>1. CASE PauseChild
    BY <1>14, <1>a, <2>1 DEF Stop, PauseChild
  <2>2. CASE DropChild
    BY <1>14, <1>c, <2>2 DEF Stop, DropChild, NotCompiled
  <2> QED
    BY <1>14, <2>1, <2>2 DEF Stop
<1>15. CASE UNCHANGED vars
  BY <1>15, <1>a DEF vars
<1> QED
  BY <1>1, <1>2, <1>3, <1>4, <1>5, <1>6, <1>7, <1>8, <1>9, <1>10, <1>11, <1>12,
     <1>13, <1>14, <1>15 DEF Next, Watcher, Controller, Child
-----------------------------------------------------------------------------
(***************************************************************************)
(* What the child holds when it counts.  A message that it is ready is of  *)
(* this generation only once it has read every file; the controller then   *)
(* believes it only if no change was noticed since before its snapshot.    *)
(***************************************************************************)
CurrentReady(i) == /\ i \in 1..Len(queue) /\ queue[i].kind = "ready"
                   /\ queue[i].generation = generation

MessageAges ==
    \A i \in 1..Len(queue) :
        queue[i].kind # "sources" => queue[i].generation <= generation

ReadyInv ==
    /\ MessageAges
    /\ \A i : CurrentReady(i) => child.pc # "compiling" /\ Complete(child.program)
    /\ compilation.state = "ready" => /\ child.pc # "compiling"
                                      /\ \/ child.program = compilation.snapshot
                                         \/ compilation.early
                                      /\ compiledRevision # None

LEMMA GenerationStep ==
    ASSUME Types, [Next]_vars
    PROVE  \/ generation' = generation
           \/ /\ generation' = generation + 1
              /\ queue' = queue \/ (queue # <<>> /\ queue' = Tail(queue))
BY DEF Next, Watcher, Controller, Child, Edit, Observe, ObserveLate, ReadSource,
       RegisterWatcher, SpawnChild, SkipStale, TakeReady, TakePlayed, TakeBatch,
       Take, Head_, Drained, EndPoll, ChildReads, ChildFinishes, ChildCommand,
       ChildCrashes, Start, Stop, PauseChild, DropChild, Debounced, vars, compiled

LEMMA MessageStep ==
    ASSUME Types, MessageAges, [Next]_vars
    PROVE  /\ MessageAges'
           /\ \A i : CurrentReady(i)' =>
                 /\ generation' = generation
                 /\ \/ CurrentReady(i) /\ queue' # Tail(queue)
                    \/ CurrentReady(i + 1) /\ queue' = Tail(queue)
                    \/ ChildFinishes /\ i = Len(queue) + 1
<1>0. /\ queue \in Seq(Messages) /\ generation \in Nat /\ Len(queue) \in Nat
      /\ \A i \in 1..Len(queue) :
            queue[i].kind # "sources" => queue[i].generation \in Nat
  BY QueuedTypes DEF Types, DataTypes, ControlTypes
<1>1. ASSUME queue # <<>>, queue' = Tail(queue)
      PROVE  /\ queue' # queue
             /\ \A i \in 1..Len(queue') : /\ i + 1 \in 1..Len(queue)
                                          /\ queue'[i] = queue[i + 1]
  BY <1>0, <1>1, TailIs
<1>2. queue' = queue => queue = <<>> \/ queue' # Tail(queue)
  BY <1>0, TailIs
<1>3. CASE /\ generation' = generation + 1
           /\ queue' = queue \/ (queue # <<>> /\ queue' = Tail(queue))
  <2>1. \A i \in 1..Len(queue') : \E j \in 1..Len(queue) : queue'[i] = queue[j]
    BY <1>0, <1>1, <1>3
  <2>2. \A i \in 1..Len(queue') :
            queue'[i].kind # "sources" => /\ queue'[i].generation <= generation
                                          /\ queue'[i].generation \in Nat
    BY <1>0, <2>1 DEF MessageAges
  <2>3. MessageAges'
    BY <1>0, <1>3, <2>2 DEF MessageAges
  <2>4. ASSUME NEW i, CurrentReady(i)'
        PROVE  FALSE
    <3>1. i \in 1..Len(queue') /\ queue'[i].kind = "ready"
          /\ queue'[i].generation = generation + 1
      BY <1>3, <2>4 DEF CurrentReady
    <3> QED
      BY <1>0, <2>2, <3>1
  <2> QED
    BY <2>3, <2>4
<1>4. CASE generation' = generation /\ queue' = queue
  BY <1>0, <1>2, <1>4 DEF MessageAges, CurrentReady
<1>5. CASE generation' = generation /\ queue # <<>> /\ queue' = Tail(queue)
  BY <1>0, <1>1, <1>5 DEF MessageAges, CurrentReady
<1>6. ASSUME NEW m \in Messages, generation' = generation,
             queue' = Append(queue, m), m.kind # "sources" => m.generation <= generation,
             m.kind = "ready" => ChildFinishes
      PROVE  /\ MessageAges'
             /\ \A i : CurrentReady(i)' =>
                   \/ CurrentReady(i) /\ queue' # Tail(queue)
                   \/ ChildFinishes /\ i = Len(queue) + 1
  <2>1. /\ Len(queue') = Len(queue) + 1
        /\ \A i \in 1..Len(queue) : queue'[i] = queue[i]
        /\ queue'[Len(queue) + 1] = m
    BY <1>0, <1>6, AppendIs
  <2>2. queue # <<>> => queue' # Tail(queue)
    BY <1>0, <2>1, TailIs
  <2> QED
    BY <1>0, <1>6, <2>1, <2>2 DEF MessageAges, CurrentReady
<1>7. CASE Debounced
  <2>1. [kind |-> "sources", batch |-> batch] \in Messages
    BY <1>7 DEF Debounced, Types, DataTypes, Messages, Reports
  <2> QED
    BY <1>6, <1>7, <2>1 DEF Debounced, compiled
<1>8. ASSUME NEW k \in Kinds, (k = "ready") <=> ChildFinishes,
             generation' = generation,
             queue' = Append(queue, [kind |-> k, generation |-> generation])
      PROVE  /\ MessageAges'
             /\ \A i : CurrentReady(i)' =>
                   \/ CurrentReady(i) /\ queue' # Tail(queue)
                   \/ ChildFinishes /\ i = Len(queue) + 1
  <2>1. [kind |-> k, generation |-> generation] \in Messages
    BY <1>0 DEF Messages, Answers, Kinds
  <2> QED
    BY <1>0, <1>6, <1>8, <2>1
<1> QED
  BY GenerationStep, QueueStep, <1>3, <1>4, <1>5, <1>6, <1>7, <1>8

\* A child is replaced with its generation, or reads, or stops reading.
LEMMA ChildStep ==
    ASSUME Types, [Next]_vars
    PROVE  \/ child' = child
           \/ generation' = generation + 1 /\ compilation'.state # "ready"
           \/ child.pc = "compiling" /\ ~ChildFinishes
              /\ compilation' = compilation
           \/ child'.pc # "compiling" /\ child'.program = child.program
              /\ generation' = generation
<1>0. DataTypes /\ ControlTypes
  BY DEF Types
<1>1. CASE SpawnChild
  BY <1>1 DEF SpawnChild, NotCompiled
<1>2. CASE TakeBatch \/ Stop
  BY <1>2 DEF TakeBatch, Stop, DropChild, PauseChild, NotCompiled, session
<1>3. CASE \E f \in Files : ChildReads(f)
  BY <1>3 DEF ChildReads, ChildFinishes, Complete, compiled
<1>4. CASE ChildFinishes \/ ChildCommand \/ ChildCrashes
  BY <1>0, <1>4 DEF ChildFinishes, ChildCommand, ChildCrashes, ControlTypes,
                    Children, compiled
<1>5. CASE EndPoll
  BY <1>0, <1>5 DEF EndPoll, ControlTypes, Children, session
<1>6. CASE ~(SpawnChild \/ TakeBatch \/ Stop \/ EndPoll \/ ChildFinishes
             \/ ChildCommand \/ ChildCrashes \/ \E f \in Files : ChildReads(f))
  BY <1>6 DEF Next, Watcher, Controller, Child, Edit, Observe, ObserveLate,
              ReadSource, RegisterWatcher, SkipStale, TakeReady, TakePlayed,
              Drained, Debounced, Start, vars, session
<1> QED
  BY <1>1, <1>2, <1>3, <1>4, <1>5, <1>6

\* Only handle_child_ready makes a compilation ready.
LEMMA CompilationStep ==
    ASSUME Types, [Next]_vars, compilation'.state = "ready"
    PROVE  \/ /\ TakeReady /\ compilation.state = "compiling"
              /\ CompiledSourcesAreCurrent
              /\ compilation'.snapshot = compilation.snapshot
              /\ Noticed \/ compilation'.early
           \/ /\ compilation' = compilation /\ generation' = generation
              /\ compiledRevision' \in {compiledRevision} \cup Nat
<1>0. DataTypes /\ ControlTypes
  BY DEF Types
<1>1. CASE SpawnChild \/ Stop
  BY <1>0, <1>1, SpawnIs DEF Stop, DropChild, PauseChild, NotCompiled, compiled
<1>2. CASE TakeReady
  BY <1>0, <1>2 DEF TakeReady, DataTypes, Compilations
<1>3. CASE TakeBatch
  <2>1. Head(queue) \in Messages /\ Head(queue).kind = "sources"
    BY <1>0, <1>3, TailIs DEF TakeBatch, Head_, ControlTypes
  <2>2. Head(queue).batch \in Batches
    BY <2>1 DEF Messages, Answers, Kinds, Reports
  <2>3. Acknowledged(Head(queue).batch) \in {compiledRevision} \cup Nat
    BY <2>2 DEF Acknowledged, Batches
  <2> QED
    BY <1>3, <2>3 DEF TakeBatch, DropChild, NotCompiled, compiled
<1>4. CASE EndPoll
  BY <1>0, <1>4 DEF EndPoll, DataTypes, Compilations
<1>5. CASE ~(SpawnChild \/ Stop \/ TakeReady \/ TakeBatch \/ EndPoll)
  BY <1>5 DEF Next, Watcher, Controller, Child, Edit, Observe, ObserveLate,
              ReadSource, RegisterWatcher, SkipStale, TakePlayed, Drained,
              ChildReads, ChildFinishes, ChildCommand, ChildCrashes,
              Debounced, Start, vars, compiled
<1> QED
  BY <1>1, <1>2, <1>3, <1>4, <1>5

LEMMA ReadyStep ==
    ASSUME Types, CompilingInv, ReadyInv, [Next]_vars
    PROVE  ReadyInv'
<1>0. DataTypes /\ ControlTypes /\ DataTypes' /\ ControlTypes'
  BY DataTypesStep, ControlTypesStep DEF Types
<1>1. MessageAges'
  BY MessageStep DEF ReadyInv
<1>2. ASSUME NEW i, CurrentReady(i)'
      PROVE  child'.pc # "compiling" /\ Complete(child'.program)
  <2>1. CASE ChildFinishes
    BY <1>0, <2>1 DEF ChildFinishes, Complete, ControlTypes, Children
  <2>2. CASE ~ChildFinishes
    <3>1. /\ generation' = generation
          /\ child.pc # "compiling" /\ Complete(child.program)
      BY <1>2, <2>2, MessageStep DEF ReadyInv
    <3>2. generation' # generation + 1
      BY <1>0, <3>1 DEF DataTypes
    <3> QED
      BY <3>1, <3>2, ChildStep DEF Complete
  <2> QED
    BY <2>1, <2>2
<1>3. ASSUME compilation'.state = "ready"
      PROVE  /\ child'.pc # "compiling"
             /\ child'.program = compilation'.snapshot \/ compilation'.early
             /\ compiledRevision' # None
  <2>1. CASE /\ TakeReady /\ compilation.state = "compiling"
             /\ CompiledSourcesAreCurrent
             /\ compilation'.snapshot = compilation.snapshot
             /\ Noticed \/ compilation'.early
    <3>1. Head(queue) = queue[1] /\ 1 \in 1..Len(queue)
      BY <1>0, <2>1, TailIs DEF TakeReady, Head_, ControlTypes
    <3>2. CurrentReady(1)
      BY <2>1, <3>1 DEF TakeReady, Head_, IsCurrent, CurrentReady
    <3>3. child.pc # "compiling" /\ \A f \in Files : child.program[f] # None
      BY <3>2 DEF ReadyInv, Complete
    <3>4. Noticed => /\ compilation.snapshot = disk
                     /\ \A f \in Files : child.program[f] \in {None, disk[f]}
      BY <2>1 DEF TakeReady, Head_, CompiledSourcesAreCurrent, CompilingInv,
                  Noticed
    <3>5. Noticed => child.program = disk
      BY <1>0, <3>3, <3>4 DEF DataTypes, ControlTypes, Children, Program
    <3>6. child' = child /\ compiledRevision' = revision
      BY <2>1 DEF TakeReady, CompiledSourcesAreCurrent
    <3> QED
      BY <1>0, <2>1, <3>3, <3>4, <3>5, <3>6, ContentAssumption DEF DataTypes
  <2>2. CASE /\ compilation' = compilation /\ generation' = generation
             /\ compiledRevision' \in {compiledRevision} \cup Nat
    <3>1. /\ child.pc # "compiling"
          /\ child.program = compilation.snapshot \/ compilation.early
          /\ compiledRevision # None
      BY <1>3, <2>2 DEF ReadyInv
    <3>2. child'.pc # "compiling" /\ child'.program = child.program
      BY <1>3, <2>2, <3>1, ChildStep
    <3> QED
      BY <2>2, <3>1, <3>2, ContentAssumption
  <2> QED
    BY <1>3, <2>1, <2>2, CompilationStep
<1> QED
  BY <1>1, <1>2, <1>3 DEF ReadyInv
-----------------------------------------------------------------------------
(***************************************************************************)
(* Why no change is lost.  A file that differs from the snapshot of a      *)
(* ready child is in an event, or in a batch that ends after the revision  *)
(* that was compiled or acknowledged last, unless the child read something *)
(* else than the snapshot.                                                 *)
(***************************************************************************)
Queued(f) ==
    \E i \in 1..Len(queue) : /\ queue[i].kind = "sources"
                             /\ f \in queue[i].batch.paths
                             /\ queue[i].batch.last > compiledRevision

Debouncing(f) ==
    batch # None /\ f \in batch.paths /\ batch.last > compiledRevision

Reported(f) == f \in events \/ Debouncing(f) \/ Queued(f)

ChangesInv ==
    compilation.state = "ready" /\ pc \in {"idle", "exit"}
    => \A f \in Files : \/ compilation.snapshot[f] = disk[f] \/ Reported(f)
                        \/ child.program[f] # compilation.snapshot[f]

LEMMA QueuedStep ==
    ASSUME Types, [Next]_vars, compiledRevision' = compiledRevision,
           ~TakeBatch, NEW f \in Files, Queued(f)
    PROVE  Queued(f)'
<1>0. /\ queue \in Seq(Messages) /\ Len(queue) \in Nat
      /\ batch \in Batches \cup {None} /\ generation \in Nat
  BY DEF Types, DataTypes, ControlTypes
<1>1. PICK i \in 1..Len(queue) : /\ queue[i].kind = "sources"
                                /\ f \in queue[i].batch.paths
                                /\ queue[i].batch.last > compiledRevision
  BY DEF Queued
<1>2. CASE queue' = queue
  BY <1>1, <1>2 DEF Queued
<1>3. CASE queue # <<>> /\ queue' = Tail(queue) /\ Head(queue).kind # "sources"
  <2>1. i # 1 /\ Len(queue') = Len(queue) - 1
        /\ \A j \in 1..Len(queue') : queue'[j] = queue[j + 1]
    BY <1>0, <1>1, <1>3, TailIs
  <2>2. i - 1 \in 1..Len(queue') /\ queue'[i - 1] = queue[i]
    BY <1>0, <2>1
  <2> QED
    BY <1>1, <2>2 DEF Queued
<1>4. ASSUME NEW m \in Messages, queue' = Append(queue, m)
      PROVE  Queued(f)'
  <2>1. i \in 1..Len(queue') /\ queue'[i] = queue[i]
    BY <1>0, <1>4, AppendIs
  <2> QED
    BY <1>1, <2>1 DEF Queued
<1>5. CASE Debounced
  <2>1. [kind |-> "sources", batch |-> batch] \in Messages
    BY <1>0, <1>5 DEF Debounced, Messages, Reports
  <2> QED
    BY <1>4, <1>5, <2>1 DEF Debounced
<1>6. \A k \in Kinds :
          [kind |-> k, generation |-> generation] \in Messages
  BY <1>0 DEF Messages, Answers, Kinds
<1> QED
  BY QueueStep, <1>2, <1>3, <1>4, <1>5, <1>6

LEMMA DebouncingStep ==
    ASSUME Types, [Next]_vars, compiledRevision' = compiledRevision,
           compiledRevision \in Nat, compiledRevision <= revision,
           ~RegisterWatcher, NEW f \in Files, Debouncing(f) \/ Observe(f)
    PROVE  Debouncing(f)' \/ Queued(f)'
<1>0. DataTypes /\ ControlTypes
  BY DEF Types
<1>1. ASSUME NEW g \in Files, Observe(g), g = f \/ Debouncing(f)
      PROVE  Debouncing(f)'
  <2>1. /\ batch'.last = revision + 1
        /\ batch' \in Batches
        /\ f \in batch'.paths
    BY <1>0, <1>1 DEF Observe, DataTypes, Batches, Debouncing
  <2> QED
    BY <1>0, <2>1, ContentAssumption DEF Debouncing, DataTypes
<1>2. CASE Debounced /\ Debouncing(f)
  <2>1. [kind |-> "sources", batch |-> batch] \in Messages
    BY <1>0, <1>2 DEF Debounced, Messages, Reports, DataTypes
  <2>2. /\ Len(queue) + 1 \in 1..Len(queue')
        /\ queue'[Len(queue) + 1] = [kind |-> "sources", batch |-> batch]
    BY <1>0, <1>2, <2>1, AppendIs DEF Debounced, ControlTypes
  <2> QED
    BY <1>2, <2>2 DEF Queued, Debouncing
<1>3. CASE /\ ~Debounced /\ Debouncing(f)
           /\ ~\E g \in Files : Observe(g)
  <2>1. batch' = batch
    BY <1>3 DEF Next, Watcher, Controller, Child, Edit, ObserveLate, ReadSource,
         SpawnChild, SkipStale, TakeReady, TakePlayed, TakeBatch,
         Drained, EndPoll, ChildReads, ChildFinishes, ChildCommand,
         ChildCrashes, Start, Stop, vars, watch
  <2> QED
    BY <1>3, <2>1 DEF Debouncing
<1> QED
  BY <1>1, <1>2, <1>3

LEMMA ReportedStep ==
    ASSUME Types, [Next]_vars, compiledRevision' = compiledRevision,
           compiledRevision \in Nat, compiledRevision <= revision,
           ~RegisterWatcher, ~TakeBatch, NEW f \in Files, Reported(f)
    PROVE  Reported(f)'
<1>1. CASE f \in events
  <2>1. f \in events' \/ Observe(f)
    BY <1>1 DEF Next, Watcher, Controller, Child, Edit, Observe, ObserveLate,
         ReadSource, SpawnChild, SkipStale, TakeReady, TakePlayed, Debounced,
         Drained, EndPoll, ChildReads, ChildFinishes, ChildCommand,
         ChildCrashes, Start, Stop, vars, watch
  <2> QED
    BY <2>1, DebouncingStep DEF Reported
<1>2. CASE Debouncing(f)
  BY <1>2, DebouncingStep DEF Reported
<1>3. CASE Queued(f)
  BY <1>3, QueuedStep DEF Reported
<1> QED
  BY <1>1, <1>2, <1>3 DEF Reported

LEMMA ChangesStep ==
    ASSUME Types, WatchInv, CompilingInv, BatchInv, ReadyInv, ChangesInv,
           [Next]_vars
    PROVE  ChangesInv'
<1>0. DataTypes /\ ControlTypes /\ DataTypes' /\ ControlTypes'
  BY DataTypesStep, ControlTypesStep DEF Types
<1>1. SUFFICES ASSUME compilation'.state = "ready", pc' \in {"idle", "exit"},
                      NEW f \in Files, compilation'.snapshot[f] # disk'[f],
                      child'.program[f] = compilation'.snapshot[f]
               PROVE  Reported(f)'
  BY DEF ChangesInv
<1>2. CASE /\ TakeReady /\ compilation.state = "compiling"
           /\ CompiledSourcesAreCurrent
           /\ compilation'.snapshot = compilation.snapshot
  <2>1. /\ UNCHANGED <<child, disk, events>> /\ pc = "idle"
        /\ queue # <<>> /\ Head(queue).kind = "ready" /\ IsCurrent(Head(queue))
    BY <1>2 DEF TakeReady, Head_, watch
  <2>2. CurrentReady(1)
    BY <1>0, <2>1, TailIs DEF IsCurrent, CurrentReady, ControlTypes
  <2>3. child.program[f] # None
    BY <2>2 DEF ReadyInv, Complete
  <2>4. child.program[f] \in {None, disk[f]} \/ f \in events
    BY <1>2, <2>1 DEF CompiledSourcesAreCurrent, CompilingInv
  <2> QED
    BY <1>1, <2>1, <2>3, <2>4 DEF Reported
<1>3. CASE /\ compilation' = compilation /\ generation' = generation
           /\ compiledRevision' \in {compiledRevision} \cup Nat
  <2>c. child.program[f] = compilation.snapshot[f]
    BY <1>1, <1>3, ChildStep DEF ReadyInv
  <2>0. compiledRevision \in Nat /\ compiledRevision <= revision /\ watching
    BY <1>0, <1>1, <1>3 DEF ReadyInv, WatchInv, DataTypes
  <2>1. ~SpawnChild /\ ~RegisterWatcher /\ ~\E g \in Files : ReadSource(g)
    <3>1. SpawnChild => compilation'.state \in {"compiling", "failed"}
      BY DEF SpawnChild, NotCompiled
    <3> QED
      BY <1>1, <3>1 DEF RegisterWatcher, ReadSource
  <2>2. pc \in {"idle", "exit"}
    BY <1>0, <1>1, <2>1 DEF Next, Watcher, Controller, Child, Edit, Observe,
       ObserveLate, SkipStale, TakeReady, TakePlayed, TakeBatch, Debounced,
       Drained, EndPoll, ChildReads, ChildFinishes, ChildCommand,
       ChildCrashes, Start, Stop, vars, Head_
  <2>3. CASE \E g \in Files, content \in Contents : Edit(g, content)
    <3>1. CASE f \in events'
      BY <3>1 DEF Reported
    <3>2. CASE f \notin events'
      <4>1. disk'[f] = disk[f] /\ ~TakeBatch
            /\ UNCHANGED compiledRevision
        BY <1>0, <2>0, <2>3, <3>2 DEF Edit, DataTypes, TakeBatch, watch, compiled
      <4>2. Reported(f)
        BY <1>1, <1>3, <2>c, <2>2, <4>1 DEF ChangesInv
      <4> QED
        BY <2>0, <2>1, <4>1, <4>2, ReportedStep
    <3> QED
      BY <3>1, <3>2
  <2>4. CASE TakeBatch
    <3> DEFINE b == Head(queue).batch
    <3>1. /\ b.last \in Nat /\ queue[1].kind = "sources" /\ b = queue[1].batch
          /\ 1 \in 1..Len(queue) /\ Len(queue) \in Nat
          /\ queue' = Tail(queue)
          /\ \A i \in 1..Len(queue) :
                queue[i].kind = "sources" => queue[i].batch.last \in Nat
      <4>1. queue # <<>> /\ Head(queue).kind = "sources" /\ queue' = Tail(queue)
        BY <2>4 DEF TakeBatch, Head_, Take
      <4>2. \A i \in 1..Len(queue) :
                queue[i].kind = "sources" => queue[i].batch.last \in Nat
        BY <1>0, QueuedTypes DEF Batches
      <4> QED
        BY <1>0, <4>1, <4>2, TailIs DEF ControlTypes
    <3>2. ~RequireRecompile(b.paths) /\ compiledRevision' = Acknowledged(b)
      BY <1>1, <2>4 DEF TakeBatch, BeginRestart, DropChild, NotCompiled
    <3>3. f \notin b.paths /\ UNCHANGED <<disk, events, batch>>
      BY <1>1, <1>3, <2>4, <3>2 DEF RequireRecompile, TakeBatch, watch
    <3>4. compiledRevision' \in {compiledRevision, b.last}
      BY <3>2 DEF Acknowledged
    <3>5. Reported(f)
      BY <1>1, <1>3, <2>c, <2>2, <3>3 DEF ChangesInv
    <3>6. CASE f \in events
      BY <3>3, <3>6 DEF Reported
    <3>7. CASE Debouncing(f)
      <4>1. batch.last > b.last
        BY <1>0, <3>1, <3>7 DEF BatchInv, Debouncing, DataTypes, Batches
      <4> QED
        BY <3>3, <3>4, <3>7, <4>1 DEF Reported, Debouncing
    <3>8. CASE Queued(f)
      <4>1. PICK i \in 1..Len(queue) : /\ queue[i].kind = "sources"
                                      /\ f \in queue[i].batch.paths
                                      /\ queue[i].batch.last > compiledRevision
        BY <3>8 DEF Queued
      <4>2. i # 1 /\ 1 < i
        BY <3>1, <3>3, <4>1
      <4>3. queue[i].batch.last > b.last
        BY <3>1, <4>1, <4>2 DEF BatchInv
      <4>4. Len(queue') = Len(queue) - 1 /\ queue # <<>>
            /\ \A j \in 1..Len(queue') : queue'[j] = queue[j + 1]
        <5>1. queue # <<>>
          BY <2>4 DEF TakeBatch, Head_
        <5> QED
          BY <1>0, <3>1, <5>1, TailIs DEF ControlTypes
      <4>5. i - 1 \in 1..Len(queue') /\ queue'[i - 1] = queue[i]
        BY <3>1, <4>2, <4>4
      <4>6. queue[i].batch.last > compiledRevision'
        BY <3>4, <4>1, <4>3
      <4> QED
        BY <4>1, <4>5, <4>6 DEF Reported, Queued
    <3> QED
      BY <3>5, <3>6, <3>7, <3>8 DEF Reported
  <2>5. CASE /\ ~\E g \in Files, content \in Contents : Edit(g, content)
             /\ ~TakeBatch
    <3>1. UNCHANGED <<disk, compiledRevision>>
      <4>1. EndPoll => UNCHANGED <<disk, compiledRevision>>
        BY <1>0, <1>1, <2>2 DEF EndPoll, DataTypes, Compilations
      <4>2. Stop => UNCHANGED <<disk, compiledRevision>>
        BY <1>1 DEF Stop, DropChild, NotCompiled, PauseChild, compiled
      <4> QED
        BY <2>1, <2>5, <4>1, <4>2 DEF Next, Watcher, Controller, Child, Observe,
           ObserveLate, SkipStale, TakeReady, TakePlayed, Debounced,
           Drained, ChildReads, ChildFinishes, ChildCommand,
           ChildCrashes, Start, vars, compiled
    <3>2. Reported(f)
      BY <1>1, <1>3, <2>c, <2>2, <3>1 DEF ChangesInv
    <3> QED
      BY <2>0, <2>1, <2>5, <3>1, <3>2, ReportedStep
  <2> QED
    BY <2>3, <2>4, <2>5
<1> QED
  BY <1>1, <1>2, <1>3, CompilationStep
-----------------------------------------------------------------------------
(***************************************************************************)
(* Why the child does what the user asked for last.  Nothing compiles and  *)
(* no message that a child is ready is current unless playback is wanted;  *)
(* a child that is not connected plays, if it can, and has nothing to      *)
(* read; one that is connected was told every request since.               *)
(***************************************************************************)
Told == IF commands = <<>> THEN child.playing \/ child.refused
        ELSE commands[Len(commands)] = "play"

AloneInv ==
    /\ \A i : CurrentReady(i) => /\ requested /\ ~bridge
                                 /\ child.pc # "compiling"
                                 /\ compilation.state # "ready"
    /\ \A i, j : CurrentReady(i) /\ CurrentReady(j) => i = j

ConnectedInv ==
    /\ ~requested => child.pc # "compiling" /\ pc \in {"idle", "exit"}
    /\ connected => bridge
    /\ bridge \/ compilation.state = "ready" => child.pc # "compiling"
    /\ ~bridge => /\ commands = <<>>
                  /\ child.pc = "live" => child.playing \/ child.refused
    /\ bridge /\ child.pc = "live" /\ pc \in {"idle", "exit"}
       => requested = Told

UserInv == MessageAges /\ AloneInv /\ ConnectedInv

LEMMA ConnectedStep ==
    ASSUME Types, UserInv, [Next]_vars
    PROVE  ConnectedInv'
<1> USE DEF ConnectedInv, view, session, compiled
<1>0. DataTypes /\ ControlTypes /\ ConnectedInv
  BY DEF Types, UserInv
<1>1. CASE UNCHANGED <<pc, view, session, compilation>>
  BY <1>0, <1>1 DEF Told
<1>2. CASE \/ \E f \in Files, content \in Contents : Edit(f, content)
           \/ \E f \in Files : Observe(f) \/ ObserveLate(f) \/ ReadSource(f)
           \/ Debounced \/ SkipStale \/ UNCHANGED vars
  BY <1>1, <1>2 DEF Edit, Observe, ObserveLate, ReadSource, Debounced,
                    SkipStale, vars
<1>3. CASE Drained \/ RegisterWatcher
  BY <1>0, <1>3 DEF Drained, RegisterWatcher, Told
<1>4. CASE SpawnChild
  <2>1. child'.pc \in {"none", "compiling"} /\ pc = "spawn"
    BY <1>4, SpawnIs DEF SpawnChild
  <2>2. compilation'.state # "ready"
    BY <1>4 DEF SpawnChild, NotCompiled
  <2> QED
    BY <1>0, <1>4, <2>1, <2>2 DEF SpawnChild, Forget
<1>5. ASSUME NEW paths, BeginRestart(paths), requested', UNCHANGED compilation,
             UNCHANGED <<connected, bridge, child, commands>>
      PROVE  ConnectedInv'
  BY <1>0, <1>5 DEF BeginRestart
<1>6. ASSUME TakeReady
      PROVE  /\ requested /\ ~bridge /\ child.pc # "compiling"
             /\ compilation.state # "ready"
  <2>1. Head(queue) = queue[1] /\ 1 \in 1..Len(queue)
    BY <1>0, <1>6, TailIs DEF TakeReady, Head_, ControlTypes, Children
  <2>2. CurrentReady(1)
    BY <1>6, <2>1 DEF TakeReady, Head_, IsCurrent, CurrentReady
  <2> QED
    BY <2>2 DEF UserInv, AloneInv
<1>7. CASE TakeReady
  <2>1. CASE RejectReady /\ UNCHANGED <<compilation, bridge, connected>>
    BY <1>5, <1>6, <1>7, <2>1 DEF TakeReady, RejectReady
  <2>2. CASE Connect /\ connected' = bridge' /\ UNCHANGED pc
    <3>1. bridge' => child.pc = "live"
      BY <2>2 DEF Connect
    <3> QED
      BY <1>0, <1>6, <1>7, <2>2, <3>1 DEF TakeReady, Told
  <2> QED
    BY <1>7, <2>1, <2>2 DEF TakeReady
<1>8. CASE TakePlayed
  BY <1>0, <1>8 DEF TakePlayed, Told
<1>9. ASSUME DropChild, UNCHANGED pc, pc \in {"idle", "exit"}
      PROVE  ConnectedInv'
  BY <1>9 DEF DropChild, NoChild, NotCompiled
<1>10. CASE TakeBatch
  <2>1. ASSUME NEW paths, BeginRestart(paths), requested,
               UNCHANGED <<compiled, connected, session>>
        PROVE  ConnectedInv'
    BY <1>5, <1>10, <2>1 DEF TakeBatch
  <2>2. CASE DropChild /\ UNCHANGED pc
    BY <1>9, <1>10, <2>2 DEF TakeBatch, Head_
  <2>3. CASE UNCHANGED <<pc, compilation, connected, session>>
    BY <1>1, <1>10, <2>3 DEF TakeBatch
  <2> QED
    BY <1>10, <2>1, <2>2, <2>3 DEF TakeBatch
<1>11. CASE EndPoll
  <2>1. CASE child.pc = "exited"
    <3>1. child'.pc = "none" /\ commands' = <<>> /\ ~bridge' /\ ~connected'
          /\ pc' = "idle"
      BY <1>0, <1>11, <2>1 DEF EndPoll, Forget, ControlTypes, Children
    <3> QED
      BY <3>1
  <2>2. CASE child.pc # "exited"
    BY <1>0, <1>11, <2>2 DEF EndPoll, Told
  <2> QED
    BY <2>1, <2>2
<1>12. ASSUME NEW f \in Files, ChildReads(f)
       PROVE  ConnectedInv'
  <2>1. child'.pc = child.pc /\ child.pc = "compiling"
    BY <1>0, <1>12 DEF ChildReads, ControlTypes, Children
  <2> QED
    BY <1>0, <1>12, <2>1 DEF ChildReads, Told
<1>13. CASE ChildFinishes
  <2>1. child.pc = "compiling"
        /\ \/ child'.pc = "exited"
           \/ child'.pc = "live" /\ (child'.playing \/ child'.refused)
    BY <1>0, <1>13 DEF ChildFinishes, ControlTypes, Children
  <2> QED
    BY <1>0, <1>13, <2>1 DEF ChildFinishes, Told
<1>14. CASE ChildCommand
  <2>1. /\ child'.pc = "live" /\ child.pc = "live" /\ commands # <<>>
        /\ (child'.playing \/ child'.refused) = (Head(commands) = "play")
        /\ commands' = Tail(commands)
    BY <1>0, <1>14 DEF ChildCommand, ControlTypes, Children
  <2>2. /\ Len(commands) \in Nat \ {0}
        /\ Head(commands) = commands[1]
        /\ Len(Tail(commands)) = Len(commands) - 1
        /\ \A i \in 1..Len(Tail(commands)) : Tail(commands)[i] = commands[i + 1]
        /\ Tail(commands) = <<>> <=> Len(commands) = 1
    <3>1. Tail(commands) \in Seq({"play", "pause"})
      BY <1>0, <2>1, TailIs DEF ControlTypes, Children
    <3>2. Tail(commands) = <<>> <=> Len(Tail(commands)) = 0
      BY <3>1, EmptyIs
    <3> QED
      BY <1>0, <2>1, <3>2, TailIs DEF ControlTypes, Children
  <2>3. Told' = Told
    <3>1. CASE Len(commands) = 1
      BY <2>1, <2>2, <3>1 DEF Told
    <3>2. CASE Len(commands) # 1
      <4>1. Tail(commands) # <<>>
            /\ Tail(commands)[Len(Tail(commands))] = commands[Len(commands)]
        BY <2>2, <3>2
      <4> QED
        BY <2>1, <4>1 DEF Told
    <3> QED
      BY <3>1, <3>2
  <2> QED
    BY <1>0, <1>14, <2>1, <2>3 DEF ChildCommand
<1>15. CASE ChildCrashes
  <2>1. child'.pc = "exited"
    BY <1>0, <1>15 DEF ChildCrashes, ControlTypes, Children
  <2> QED
    BY <1>0, <1>15, <2>1 DEF ChildCrashes
<1>16. ASSUME NEW x \in {"play", "pause"}
       PROVE  /\ Append(commands, x) # <<>>
              /\ Append(commands, x)[Len(Append(commands, x))] = x
  <2>1. commands \in Seq({"play", "pause"})
    BY <1>0 DEF ControlTypes, Children
  <2>2. Append(commands, x) # <<>> /\ Len(Append(commands, x)) = Len(commands) + 1
        /\ Append(commands, x)[Len(commands) + 1] = x
    BY <1>16, <2>1, AppendIs
  <2> QED
    BY <2>2
<1>17. CASE Start
  <2>1. CASE BeginRestart({}) /\ UNCHANGED <<commands, connected>>
    BY <1>5, <1>17, <2>1 DEF Start
  <2>2. CASE /\ CanReuse /\ commands' = Append(commands, "play")
             /\ UNCHANGED pc
    BY <1>0, <1>16, <1>17, <2>2 DEF Start, CanReuse, Told
  <2> QED
    BY <1>17, <2>1, <2>2 DEF Start
<1>18. CASE Stop
  <2>1. CASE DropChild
    BY <1>9, <1>18, <2>1 DEF Stop
  <2>2. CASE connected /\ PauseChild
    BY <1>0, <1>16, <1>18, <2>2 DEF Stop, PauseChild, Told
  <2> QED
    BY <1>18, <2>1, <2>2 DEF Stop
<1> QED
  BY <1>2, <1>3, <1>4, <1>7, <1>8, <1>10, <1>11, <1>12, <1>13, <1>14, <1>15,
     <1>17, <1>18 DEF Next, Watcher, Controller, Child

LEMMA AloneStep ==
    ASSUME Types, UserInv, [Next]_vars
    PROVE  AloneInv'
<1>0. DataTypes /\ ControlTypes /\ AloneInv /\ ConnectedInv /\ MessageAges
  BY DEF Types, UserInv
<1>1. CASE ChildFinishes
  <2>1. child.pc = "compiling" /\ child'.pc # "compiling"
        /\ UNCHANGED <<requested, bridge, compilation>>
    BY <1>0, <1>1 DEF ChildFinishes, ControlTypes, Children, view, compiled
  <2>2. /\ requested /\ ~bridge /\ compilation.state # "ready"
        /\ \A i : ~CurrentReady(i)
    BY <1>0, <2>1 DEF AloneInv, ConnectedInv
  <2>3. \A i : CurrentReady(i)' => i = Len(queue) + 1
    BY <1>0, <2>2, MessageStep
  <2> QED
    BY <2>1, <2>2, <2>3 DEF AloneInv
<1>2. CASE ~ChildFinishes
  <2>1. \A i : CurrentReady(i)' =>
           /\ generation' = generation
           /\ \/ CurrentReady(i) /\ queue' # Tail(queue)
              \/ CurrentReady(i + 1) /\ queue' = Tail(queue)
    BY <1>0, <1>2, MessageStep
  <2>2. ASSUME NEW i, NEW j, CurrentReady(i)', CurrentReady(j)'
        PROVE  i = j
    <3>1. i \in Int /\ j \in Int
      BY <2>2 DEF CurrentReady
    <3>2. CASE queue' = Tail(queue)
      <4>1. i + 1 = j + 1
        BY <1>0, <2>1, <2>2, <3>2 DEF AloneInv
      <4> QED
        BY <3>1, <4>1
    <3>3. CASE queue' # Tail(queue)
      BY <1>0, <2>1, <2>2, <3>3 DEF AloneInv
    <3> QED
      BY <3>2, <3>3
  <2>3. ASSUME NEW i, CurrentReady(i)'
        PROVE  /\ requested' /\ ~bridge' /\ child'.pc # "compiling"
               /\ compilation'.state # "ready"
    <3>1. /\ requested /\ ~bridge /\ ~connected /\ child.pc # "compiling"
          /\ compilation.state # "ready" /\ generation' = generation
          /\ generation' # generation + 1
      BY <1>0, <2>1, <2>3 DEF AloneInv, ConnectedInv, DataTypes
    <3>2. ~TakeReady
      <4>1. SUFFICES ASSUME TakeReady PROVE FALSE
        OBVIOUS
      <4>2. Head(queue) = queue[1] /\ 1 \in 1..Len(queue) /\ queue' = Tail(queue)
        BY <1>0, <4>1, TailIs DEF TakeReady, Head_, Take, ControlTypes, Children
      <4>3. CurrentReady(1) /\ CurrentReady(i + 1)
        BY <2>1, <2>3, <4>1, <4>2 DEF TakeReady, Head_, IsCurrent, CurrentReady
      <4>4. i + 1 = 1 /\ i \in 1..Len(queue')
        BY <1>0, <2>3, <4>3 DEF AloneInv, CurrentReady
      <4> QED
        BY <4>4
    <3>3. ~Stop
      BY <3>1 DEF Stop, DropChild
    <3>4. requested' /\ ~bridge'
      <4>1. requested => requested'
        BY <3>3 DEF Next, Watcher, Controller, Child, Edit,
           Observe, ObserveLate, ReadSource, RegisterWatcher, SpawnChild,
           SkipStale, TakeReady, TakePlayed, TakeBatch, Debounced, Drained,
           EndPoll, ChildReads, ChildFinishes, ChildCommand, ChildCrashes,
           Start, vars, view
      <4>2. bridge' => bridge
        BY <3>2, <3>3 DEF Next, Watcher, Controller, Child, Edit,
           Observe, ObserveLate, ReadSource, RegisterWatcher, SpawnChild,
           SkipStale, TakePlayed, TakeBatch, DropChild, Debounced, Drained,
           EndPoll, ChildReads, ChildFinishes, ChildCommand, ChildCrashes,
           Start, Forget, vars, session
      <4>3. requested /\ ~bridge
        BY <3>1
      <4> QED
        BY <4>1, <4>2, <4>3
    <3>5. child'.pc # "compiling"
      BY <3>1, ChildStep
    <3>6. compilation'.state # "ready"
      BY <3>1, <3>2, CompilationStep
    <3> QED
      BY <3>4, <3>5, <3>6
  <2> QED
    BY <2>2, <2>3 DEF AloneInv
<1> QED
  BY <1>1, <1>2

LEMMA UserStep ==
    ASSUME Types, UserInv, [Next]_vars
    PROVE  UserInv'
<1>1. MessageAges'
  BY MessageStep DEF UserInv
<1> QED
  BY <1>1, AloneStep, ConnectedStep DEF UserInv
-----------------------------------------------------------------------------
(***************************************************************************)
(* The theorems.                                                           *)
(***************************************************************************)
Inv == /\ Types /\ WatchInv /\ RestartInv /\ CompilingInv /\ BatchInv
       /\ UserInv /\ ReadyInv /\ ChangesInv

LEMMA SnapshotIsDisk ==
    ASSUME DataTypes, \A f \in Files : compilation.snapshot[f] = disk[f]
    PROVE  compilation.snapshot = disk
<1>1. compilation.snapshot \in Program /\ disk \in [Files -> Contents]
  BY DEF DataTypes, Compilations
<1> QED
  BY <1>1 DEF Program

LEMMA InitInv == Init => Inv
<1> SUFFICES ASSUME Init PROVE Inv
  OBVIOUS
<1>1. /\ Types /\ queue = <<>> /\ compilation.state = "none"
      /\ child.pc = "none" /\ commands = <<>> /\ pc = "snapshot"
      /\ restart.changed = Files /\ restart.revision = 0
      /\ requested = TRUE /\ connected = FALSE /\ bridge = FALSE
      /\ compiledRevision = None /\ batch = None /\ revision = 0
  BY InitTypes DEF Init, NotCompiled, NoChild, NoRestart
<1>2. \A i : i \notin 1..Len(queue)
  BY <1>1
<1>3. \A i : ~CurrentReady(i)
  BY <1>2 DEF CurrentReady
<1>4. WatchInv /\ CompilingInv
  BY <1>1 DEF WatchInv, CompilingInv
<1>5. RestartInv
  BY <1>1 DEF RestartInv
<1>6. BatchInv /\ MessageAges
  BY <1>1, <1>2 DEF BatchInv, BatchesUpTo, MessageAges
<1>7. AloneInv /\ ConnectedInv
  BY <1>1, <1>3 DEF AloneInv, ConnectedInv
<1>8. ReadyInv /\ ChangesInv
  BY <1>1, <1>3, <1>6 DEF ReadyInv, ChangesInv
<1> QED
  BY <1>1, <1>4, <1>5, <1>6, <1>7, <1>8 DEF Inv, UserInv

LEMMA InvStep ==
    ASSUME Inv, [Next]_vars
    PROVE  Inv'
<1>1. Types'
  BY TypesStep DEF Inv
<1> QED
  BY <1>1, WatchStep, BatchStep, UserStep, ReadyStep, ChangesStep
     DEF Inv, BatchInv

LEMMA InvHolds == Spec => []Inv
<1>1. Init => Inv
  BY InitInv
<1>2. Inv /\ [Next]_vars => Inv'
  BY InvStep
<1> QED
  BY <1>1, <1>2, PTL DEF Spec

\* The variables keep their types: run_controller's Rust types.
THEOREM TypeCorrect == Spec => []Types
<1>1. Inv => Types
  BY DEF Inv
<1> QED
  BY <1>1, InvHolds, PTL

\* While playback is stopped nothing compiles and a child that has read its
\* commands is silent; while it is wanted, a connected child plays or has
\* answered that it cannot, whatever the interleaving of requests, restarts,
\* crashes, failed plays and changes (start, stop, handle_child_exited).
THEOREM UserIsFollowed == Spec => []ChildFollowsTheUser
<1>1. Inv => ChildFollowsTheUser
  <2>1. SUFFICES ASSUME Inv PROVE ChildFollowsTheUser
    OBVIOUS
  <2>2. ~requested => child.pc # "compiling"
    BY <2>1 DEF Inv, UserInv, ConnectedInv
  <2>3. ASSUME Quiet, bridge, child.pc = "live", commands = <<>>
        PROVE  IF requested THEN child.playing \/ child.refused
               ELSE ~child.playing
    BY <2>1, <2>3 DEF Inv, UserInv, ConnectedInv, Told, Quiet
  <2> QED
    BY <2>2, <2>3 DEF ChildFollowsTheUser
<1> QED
  BY <1>1, InvHolds, PTL

\* A child that counts as ready runs the very program that later changes are
\* compared with (handle_child_ready), unless a change had not yet reached
\* the watcher when the controller believed the child.
THEOREM ReadyProgram == Spec => []ReadyProgramIsTheSnapshot
<1>1. Inv => ReadyProgramIsTheSnapshot
  BY DEF Inv, ReadyInv, ReadyProgramIsTheSnapshot
<1> QED
  BY <1>1, InvHolds, PTL

\* When everything noticed was handled, a ready child runs what is on disk,
\* unless it was misread: the acknowledgement of batches and the hand-over of
\* watchers lose no change (SourceWatchBatch::advance, refresh_source_watcher).
THEOREM NoChangeIsLost == Spec => []QuietProgramIsCurrent
<1>1. Inv => QuietProgramIsCurrent
  <2>1. SUFFICES ASSUME Inv, Quiet, compilation.state = "ready", ~Misread
                 PROVE  child.program = disk
    BY DEF QuietProgramIsCurrent
  <2>2. ASSUME NEW f \in Files PROVE ~Reported(f)
    BY <2>1 DEF Quiet, Noticed, Reported, Debouncing, Queued
  <2>3. child.program = compilation.snapshot
    BY <2>1 DEF Inv, ReadyInv, Misread
  <2>4. \A f \in Files : compilation.snapshot[f] = disk[f]
    BY <2>1, <2>2, <2>3 DEF Inv, ChangesInv, Quiet
  <2>5. compilation.snapshot = disk
    BY <2>1, <2>4, SnapshotIsDisk DEF Inv, Types
  <2> QED
    BY <2>3, <2>5
<1> QED
  BY <1>1, InvHolds, PTL

\* start resumes a compiled child only with the program on disk, or a misread
\* one, or before any watcher saw the change (can_reuse_compiled_child).
THEOREM ResumesCurrent == Spec => ResumesTheCurrentProgram
<1>1. Inv /\ [Next]_vars
      => [(Start /\ CanReuse)
          => (child.program = disk \/ Misread \/ ~Noticed)]_vars
  <2>1. SUFFICES ASSUME Inv, Start, CanReuse, Noticed, ~Misread
                 PROVE  child.program = disk
    OBVIOUS
  <2>2. /\ pc = "idle" /\ compilation.state = "ready"
        /\ compiledRevision = revision /\ revision \in Nat
    BY <2>1 DEF Start, CanReuse, CompiledSourcesAreCurrent, Inv, Types,
                DataTypes
  <2>3. ASSUME NEW f \in Files PROVE ~Reported(f)
    <3>1. f \notin events
      BY <2>1 DEF Noticed
    <3>2. batch # None => batch.last <= revision /\ batch.last \in Nat
      BY <2>1 DEF Inv, BatchInv, Types, DataTypes, Batches
    <3>3. ASSUME NEW i \in 1..Len(queue), queue[i].kind = "sources"
          PROVE  queue[i].batch.last <= revision /\ queue[i].batch.last \in Nat
      BY <2>1, <3>3, QueuedTypes
         DEF Inv, BatchInv, BatchesUpTo, Types, Batches
    <3> QED
      BY <2>2, <3>1, <3>2, <3>3 DEF Reported, Debouncing, Queued
  <2>4. child.program = compilation.snapshot
    BY <2>1, <2>2 DEF Inv, ReadyInv, Misread
  <2>5. \A f \in Files : compilation.snapshot[f] = disk[f]
    BY <2>1, <2>2, <2>3, <2>4 DEF Inv, ChangesInv
  <2>6. compilation.snapshot = disk
    BY <2>1, <2>5, SnapshotIsDisk DEF Inv, Types
  <2> QED
    BY <2>4, <2>6
<1> QED
  BY <1>1, InvHolds, PTL DEF Spec, ResumesTheCurrentProgram
=============================================================================
