------------------------ MODULE LspDiagnosticsProofs ------------------------
(***************************************************************************)
(* Proofs about LspDiagnostics, for every set of documents, whatever       *)
(* imports what, and any number of messages.                               *)
(***************************************************************************)
EXTENDS LspDiagnostics, TLAPS

\* What dispatch_due_diagnostics does with one entry: nothing, or a job.
Waits(s, a, j, e) ==
    pending'[e] = s.p[e] /\ active'[e] = a[e] /\ job'[e] = j[e]

Starts(s, a, o, t, e) ==
    /\ s.p[e] # "none" /\ a[e] = "none"
    /\ pending'[e] = "none" /\ active'[e] = s.p[e]
    /\ job'[e] = [generation |-> s.g[e], overlay |-> Overlay(o, t),
                  result |-> None]

LEMMA DispatchCases ==
    ASSUME NEW s, NEW a, NEW j, NEW o, NEW t, Dispatch(s, a, j, o, t),
           NEW e \in Docs
    PROVE  /\ generation' = s.g
           /\ Waits(s, a, j, e) \/ Starts(s, a, o, t, e)
<1>1. PICK picked \in SUBSET Ready(s, a) : SendJobs(picked, s, a, j, o, t)
  BY DEF Dispatch
<1>2. CASE e \in picked
  <2>1. s.p[e] # "none" /\ a[e] = "none"
    BY <1>1, <1>2 DEF Ready, LaneAvailable
  <2> QED
    BY <1>1, <1>2, <2>1 DEF SendJobs, Starts
<1>3. CASE e \notin picked
  BY <1>1, <1>3 DEF SendJobs, Waits
<1> QED
  BY <1>1, <1>2, <1>3 DEF SendJobs

JobShape(j) ==
    \A e \in Docs :
        j[e] # None => DOMAIN j[e] = {"generation", "overlay", "result"}

\* The same for all entries at once: what has a shape keeps it.
LEMMA DispatchTypes ==
    ASSUME NEW s, NEW a, NEW j, NEW o, NEW t, Dispatch(s, a, j, o, t),
           s.g \in [Docs -> Nat],
           s.p \in [Docs -> Delays \cup {"none"}],
           a \in [Docs -> Delays \cup {"none"}],
           JobShape(j)
    PROVE  /\ generation' \in [Docs -> Nat]
           /\ pending' \in [Docs -> Delays \cup {"none"}]
           /\ active' \in [Docs -> Delays \cup {"none"}]
           /\ DOMAIN job' = Docs /\ JobShape(job')
<1>1. PICK picked \in SUBSET Ready(s, a) : SendJobs(picked, s, a, j, o, t)
  BY DEF Dispatch
<1>2. pending' \in [Docs -> Delays \cup {"none"}]
  BY <1>1 DEF SendJobs
<1>3. active' \in [Docs -> Delays \cup {"none"}]
  BY <1>1 DEF SendJobs
<1>4. JobShape(job')
  BY <1>1 DEF SendJobs, JobShape
<1> QED
  BY <1>1, <1>2, <1>3, <1>4 DEF SendJobs

\* The worker of a delay gets a job only when it has none.
OneJob(a) == \A e, f \in Docs : a[e] = a[f] /\ a[e] # "none" => e = f

LEMMA DispatchLanes ==
    ASSUME NEW s, NEW a, NEW j, NEW o, NEW t, Dispatch(s, a, j, o, t),
           OneJob(a)
    PROVE  OneJob(active')
<1>1. PICK picked \in SUBSET Ready(s, a) :
          OnePerDelay(s, a, picked) /\ SendJobs(picked, s, a, j, o, t)
  BY DEF Dispatch
<1>2. \A e \in picked : \A x \in Docs : a[x] # s.p[e]
  BY DEF Ready, LaneAvailable
<1>3. \A e, f \in picked : s.p[e] = s.p[f] => e = f
  BY <1>1 DEF OnePerDelay
<1>4. \A e \in Docs : active'[e] = IF e \in picked THEN s.p[e] ELSE a[e]
  BY <1>1 DEF SendJobs
<1> QED
  BY <1>2, <1>3, <1>4 DEF OneJob
-----------------------------------------------------------------------------
(* Types.  Schedules of the handlers have their shape.                     *)
LEMMA ScheduleTypes ==
    ASSUME TypeOK, NEW entries, NEW delay \in Delays
    PROVE  /\ Schedule(entries, delay).g \in [Docs -> Nat]
           /\ Schedule(entries, delay).p \in [Docs -> Delays \cup {"none"}]
BY DEF TypeOK, Schedule

LEMMA RequestTypes ==
    ASSUME TypeOK, NEW o, NEW t, NEW paths, NEW delay \in Delays,
           Request(o, t, paths, delay)
    PROVE  /\ generation' \in [Docs -> Nat]
           /\ pending' \in [Docs -> Delays \cup {"none"}]
           /\ active' \in [Docs -> Delays \cup {"none"}]
           /\ DOMAIN job' = Docs /\ JobShape(job')
<1>1. PICK entries \in SUBSET Docs :
          Dispatch(Schedule(entries, delay), active, job, o, t)
  BY DEF Request
<1>2. active \in [Docs -> Delays \cup {"none"}] /\ JobShape(job)
  BY DEF TypeOK, JobShape
<1> QED
  BY <1>1, <1>2, ScheduleTypes, DispatchTypes

LEMMA PublishTypes ==
    ASSUME TypeOK, NEW entries, NEW results, PublishAll(entries, results)
    PROVE  /\ DOMAIN published' = Docs
           /\ \A d \in Docs : shown'[d].entry \in Docs
<1>1. PICK last \in [Docs -> Docs] :
          \A d \in Docs : \/ shown'[d] = shown[d]
                         \/ shown'[d] = Notice(last[d], results[last[d]], d)
  BY DEF PublishAll
<1> QED
  BY <1>1 DEF PublishAll, Notice, TypeOK

LEMMA TypeStep ==
    ASSUME TypeOK, [Next]_vars
    PROVE  TypeOK'
<1> USE SourcesAssumption
<1> DEFINE Lanes == /\ generation' \in [Docs -> Nat]
                    /\ pending' \in [Docs -> Delays \cup {"none"}]
                    /\ active' \in [Docs -> Delays \cup {"none"}]
                    /\ DOMAIN job' = Docs /\ JobShape(job')
<1>1. /\ active \in [Docs -> Delays \cup {"none"}] /\ JobShape(job)
      /\ DOMAIN job = Docs
      /\ Scheduled.g \in [Docs -> Nat]
      /\ Scheduled.p \in [Docs -> Delays \cup {"none"}]
  BY DEF TypeOK, JobShape, Scheduled
<1>2. ASSUME Lanes,
             /\ open' \subseteq Docs
             /\ text' \in [Docs -> Nat] /\ disk' \in [Docs -> Nat]
             /\ DOMAIN published' = Docs /\ messages' \in Nat
             /\ \A d \in Docs : shown'[d].entry \in Docs
      PROVE  TypeOK'
  BY <1>2 DEF TypeOK, JobShape
<1> HIDE DEF Lanes
<1> DEFINE Documents == /\ open' \subseteq Docs
                        /\ text' \in [Docs -> Nat] /\ disk' \in [Docs -> Nat]
                        /\ DOMAIN published' = Docs /\ messages' \in Nat
                        /\ \A d \in Docs : shown'[d].entry \in Docs
<1>3. ASSUME NEW d \in Docs, DidOpen(d) PROVE TypeOK'
  <2>1. Lanes
    BY <1>1, <1>3, DispatchTypes DEF DidOpen, Lanes
  <2>2. Documents
    BY <1>3, PublishTypes DEF DidOpen, Message, TypeOK
  <2> QED
    BY <1>2, <2>1, <2>2
<1>4. ASSUME NEW d \in Docs, DidChange(d) \/ DidSave(d) \/ DidClose(d)
      PROVE  TypeOK'
  <2>1. Lanes
    BY <1>4, RequestTypes DEF DidChange, DidSave, DidClose, Delays, Lanes
  <2>2. ASSUME DidChange(d) PROVE Documents
    BY <2>2 DEF DidChange, screen, Message, TypeOK
  <2>3. ASSUME DidSave(d) PROVE Documents
    BY <2>3 DEF DidSave, screen, Message, TypeOK
  <2>4. ASSUME DidClose(d) PROVE Documents
    BY <2>4 DEF DidClose, ClearEntry, Message, TypeOK
  <2>5. Documents
    BY <1>4, <2>2, <2>3, <2>4
  <2> QED
    BY <1>2, <2>1, <2>5
<1>5. ASSUME NEW d \in Docs, DiskWrite(d) PROVE TypeOK'
  BY <1>5 DEF DiskWrite, Message, scheduled, screen, TypeOK
<1>6. CASE WatchedFilesChanged
  <2>1. Lanes
    BY <1>6, RequestTypes DEF WatchedFilesChanged, Delays, Lanes
  <2>2. Documents
    BY <1>6 DEF WatchedFilesChanged, screen, TypeOK
  <2> QED
    BY <1>2, <2>1, <2>2
<1>7. ASSUME NEW e \in Docs, DebounceEnds(e) PROVE TypeOK'
  <2> DEFINE s == [Scheduled EXCEPT !.d = due \cup {e}]
  <2>1. s.g = Scheduled.g /\ s.p = Scheduled.p
    BY DEF Scheduled
  <2>2. Dispatch(s, active, job, open, text)
    BY <1>7 DEF DebounceEnds
  <2> HIDE DEF s
  <2>3. Lanes
    BY <1>1, <2>1, <2>2, DispatchTypes DEF Lanes
  <2>4. Documents
    BY <1>7 DEF DebounceEnds, documents, screen, TypeOK
  <2> QED
    BY <1>2, <2>3, <2>4
<1>8. ASSUME NEW e \in Docs, TakeResult(e) PROVE TypeOK'
  <2>1. /\ Freed(e) \in [Docs -> Delays \cup {"none"}]
        /\ JobShape([job EXCEPT ![e] = None])
    BY <1>1 DEF Freed, JobShape
  <2>2. Dispatch(Scheduled, Freed(e), [job EXCEPT ![e] = None], open, text)
    BY <1>8 DEF TakeResult
  <2>3. Lanes
    BY <1>1, <2>1, <2>2, DispatchTypes DEF Lanes
  <2>4. Documents
    <3>1. DOMAIN published' = Docs /\ \A d \in Docs : shown'[d].entry \in Docs
      <4>1. CASE UNCHANGED screen
        BY <4>1 DEF screen, TypeOK
      <4> QED
        BY <1>8, <4>1, PublishTypes DEF TakeResult
    <3> QED
      BY <1>8, <3>1 DEF TakeResult, documents, TypeOK
  <2> QED
    BY <1>2, <2>3, <2>4
<1>9. ASSUME NEW e \in Docs, RunJob(e) PROVE TypeOK'
  <2>1. DOMAIN job' = Docs /\ JobShape(job')
    BY <1>1, <1>9 DEF RunJob, JobShape
  <2> QED
    BY <1>9, <2>1 DEF RunJob, documents, scheduled, screen, TypeOK, JobShape
<1>10. CASE UNCHANGED vars
  BY <1>10 DEF vars, documents, scheduled, screen, TypeOK
<1> QED
  BY <1>3, <1>4, <1>5, <1>6, <1>7, <1>8, <1>9, <1>10 DEF Next, Core
-----------------------------------------------------------------------------
(***************************************************************************)
(* JobsInv, entry by entry.                                                *)
(***************************************************************************)
EntryInv(e) ==
    /\ job[e] # None => active[e] # "none"
    /\ e \in open \ overtaken /\ pending[e] = "none"
       => IF active[e] = "none" THEN UpToDate(e, published[e]) ELSE JobIsCurrent(e)

\* A job that has just been sent is current.
LEMMA StartedJobIsCurrent ==
    ASSUME NEW s, NEW a, NEW e \in Docs,
           generation' = s.g, Starts(s, a, open', text', e)
    PROVE  EntryInv(e)'
<1>1. active'[e] # "none"
  BY DEF Starts
<1>2. /\ job'[e].generation = generation'[e]
      /\ job'[e].overlay = Overlay(open', text')
      /\ job'[e].result = None
  BY DEF Starts
<1>3. JobIsCurrent(e)'
  BY <1>2 DEF JobIsCurrent
<1> QED
  BY <1>1, <1>3 DEF EntryInv

\* What a source of e may do while a job for e, or its last result,
\* stays as it is: its text does not change, and its file only if it is open
\* or the editor has yet to tell.
SourceKept(d) ==
    /\ d \in open' <=> d \in open
    /\ d \in open => text'[d] = text[d]
    /\ \/ d \in open
       \/ d \in unnoticed'
       \/ disk'[d] = disk[d] /\ d \notin unnoticed

LEMMA KeptResultIsUpToDate ==
    ASSUME TypeOK, NEW e \in Docs, NEW result, UpToDate(e, result),
           \A d \in Sources[e] : SourceKept(d)
    PROVE  UpToDate(e, result)'
<1> SUFFICES ASSUME NEW d \in Sources[e]
             PROVE  \/ result[d] = Analysis(e, Overlay(open', text'), disk')[d]
                    \/ d \in unnoticed' /\ d \notin open'
  BY DEF UpToDate
<1>1. d \in Docs /\ text[d] # None
  BY SourcesAssumption DEF TypeOK
<1>2. Analysis(e, Overlay(open, text), disk)[d] =
          (IF d \in open THEN text[d] ELSE disk[d])
  BY <1>1 DEF Analysis, Overlay
<1>3. SourceKept(d)
  OBVIOUS
<1>4. Analysis(e, Overlay(open', text'), disk')[d] =
          (IF d \in open THEN text[d] ELSE disk'[d])
  BY <1>1, <1>3 DEF Analysis, Overlay, SourceKept
<1>5. \/ result[d] = Analysis(e, Overlay(open, text), disk)[d]
      \/ d \in unnoticed /\ d \notin open
  BY DEF UpToDate
<1> QED
  BY <1>2, <1>3, <1>4, <1>5 DEF SourceKept

LEMMA KeptEntry ==
    ASSUME TypeOK, NEW e \in Docs, EntryInv(e),
           pending'[e] = pending[e], active'[e] = active[e], job'[e] = job[e],
           generation'[e] = generation[e],
           e \in open' \ overtaken' =>
               /\ e \in open \ overtaken
               /\ published'[e] = published[e]
               /\ \A d \in Sources[e] : SourceKept(d)
    PROVE  EntryInv(e)'
<1>1. job'[e] # None => active'[e] # "none"
  BY DEF EntryInv
<1> SUFFICES ASSUME e \in open' \ overtaken', pending'[e] = "none"
             PROVE  (IF active[e] = "none" THEN UpToDate(e, published[e])
                     ELSE JobIsCurrent(e))'
  BY <1>1 DEF EntryInv
<1>2. /\ \A d \in Sources[e] : SourceKept(d)
      /\ published'[e] = published[e]
  OBVIOUS
<1>3. CASE active[e] = "none"
  <2>1. UpToDate(e, published[e])
    BY <1>3 DEF EntryInv
  <2>2. UpToDate(e, published[e])'
    BY <1>2, <2>1, KeptResultIsUpToDate DEF UpToDate
  <2> QED
    BY <1>3, <2>2
<1>4. CASE active[e] # "none"
  <2>1. JobIsCurrent(e)
    BY <1>4 DEF EntryInv
  <2>2. job'[e].result # None => UpToDate(e, job[e].result)'
    BY <1>2, <2>1, KeptResultIsUpToDate DEF JobIsCurrent, UpToDate
  <2>3. \A d \in Sources[e] : Overlay(open', text')[d] = Overlay(open, text)[d]
    BY <1>2, SourcesAssumption DEF SourceKept, Overlay
  <2>4. JobIsCurrent(e)'
    BY <2>1, <2>2, <2>3 DEF JobIsCurrent
  <2> QED
    BY <1>4, <2>4
<1> QED
  BY <1>3, <1>4

\* A handler that asks for whatever its changes affect.
LEMMA RequestKeepsEntry ==
    ASSUME TypeOK, NEW e \in Docs, EntryInv(e),
           NEW o, NEW t, o = open', t = text',
           NEW paths, NEW delay \in Delays, Request(o, t, paths, delay),
           e \in open' => e \in open /\ published'[e] = published[e],
           \A d \in Docs : d \in paths \/ SourceKept(d)
    PROVE  EntryInv(e)'
<1>1. PICK entries \in SUBSET Docs :
          /\ Affects(o, paths, entries)
          /\ overtaken' = overtaken \ entries
          /\ Dispatch(Schedule(entries, delay), active, job, o, t)
  BY DEF Request
<1> DEFINE s == Schedule(entries, delay)
<1>2. /\ generation' = s.g
      /\ Waits(s, active, job, e) \/ Starts(s, active, o, t, e)
  BY <1>1, DispatchCases
<1>3. /\ s.g[e] = generation[e] + (IF e \in entries THEN 1 ELSE 0)
      /\ s.p[e] = IF e \in entries THEN delay ELSE pending[e]
  BY DEF Schedule
<1> HIDE DEF s
<1>4. CASE Starts(s, active, o, t, e)
  BY <1>2, <1>4, StartedJobIsCurrent
<1>5. CASE Waits(s, active, job, e) /\ e \in entries
  <2>1. pending'[e] # "none" /\ active'[e] = active[e] /\ job'[e] = job[e]
    BY <1>3, <1>5 DEF Waits, Delays
  <2> QED
    BY <2>1 DEF EntryInv
<1>6. CASE Waits(s, active, job, e) /\ e \notin entries
  <2>1. generation'[e] = generation[e]
    BY <1>2, <1>3, <1>6 DEF TypeOK
  <2>2. /\ pending'[e] = pending[e]
        /\ active'[e] = active[e] /\ job'[e] = job[e]
    BY <1>3, <1>6 DEF Waits
  <2>3. e \in open' \ overtaken' =>
            /\ e \in open \ overtaken
            /\ published'[e] = published[e]
            /\ \A d \in Sources[e] : SourceKept(d)
    BY <1>1, <1>6, SourcesAssumption DEF Affects
  <2> QED
    BY <2>1, <2>2, <2>3, KeptEntry
<1> QED
  BY <1>2, <1>4, <1>5, <1>6

\* A step of the core that only dispatches what is scheduled.
LEMMA DispatchKeepsEntry ==
    ASSUME TypeOK, NEW e \in Docs, EntryInv(e),
           NEW s, s.g = generation, s.p = pending,
           NEW a, a[e] = active[e], NEW j, j[e] = job[e],
           Dispatch(s, a, j, open', text'),
           e \in open' \ overtaken' =>
               /\ e \in open \ overtaken
               /\ published'[e] = published[e]
               /\ \A d \in Sources[e] : SourceKept(d)
    PROVE  EntryInv(e)'
<1>1. /\ generation' = s.g
      /\ Waits(s, a, j, e) \/ Starts(s, a, open', text', e)
  BY DispatchCases
<1>2. CASE Starts(s, a, open', text', e)
  BY <1>1, <1>2, StartedJobIsCurrent
<1>3. CASE Waits(s, a, j, e)
  <2>1. /\ pending'[e] = pending[e] /\ active'[e] = active[e]
        /\ job'[e] = job[e] /\ generation'[e] = generation[e]
    BY <1>1, <1>3 DEF Waits
  <2> QED
    BY <2>1, KeptEntry
<1> QED
  BY <1>1, <1>2, <1>3

\* Sources of which nothing changes are kept.
LEMMA UnchangedSources ==
    ASSUME NEW paths, UNCHANGED <<disk, unnoticed>>,
           \A d \in Docs \ paths :
               (d \in open' <=> d \in open) /\ text'[d] = text[d]
    PROVE  \A d \in Docs : d \in paths \/ SourceKept(d)
BY DEF SourceKept

LEMMA DidOpenKeepsEntry ==
    ASSUME TypeOK, NEW e \in Docs, EntryInv(e), NEW d \in Docs, DidOpen(d)
    PROVE  EntryInv(e)'
<1>1. PICK entries \in SUBSET Docs :
          /\ Affects(open', {d}, entries)
          /\ published' = [x \in Docs |->
                              IF x \in entries
                              THEN Analysis(x, Overlay(open', text'), disk)
                              ELSE published[x]]
          /\ overtaken' = overtaken \cup {x \in entries : active[x] # "none"}
  BY DEF DidOpen, PublishAll
<1>2. Dispatch(Scheduled, active, job, open', text')
  BY DEF DidOpen
<1>3. /\ open' = open \cup {d} /\ disk' = disk /\ unnoticed' = unnoticed
      /\ \A x \in Docs \ {d} : text'[x] = text[x]
  BY DEF DidOpen, TypeOK
<1>4. CASE e \in entries
  <2>1. CASE Starts(Scheduled, active, open', text', e)
    BY <1>2, <2>1, DispatchCases, StartedJobIsCurrent
  <2>2. CASE Waits(Scheduled, active, job, e)
    <3>1. active'[e] = active[e] /\ job'[e] = job[e]
      BY <2>2 DEF Waits
    <3>2. active[e] # "none" => e \in overtaken'
      BY <1>1, <1>4
    <3>3. published'[e] = Analysis(e, Overlay(open', text'), disk')
      BY <1>1, <1>3, <1>4
    <3>4. UpToDate(e, published[e])'
      BY <3>3 DEF UpToDate
    <3> QED
      BY <3>1, <3>2, <3>4 DEF EntryInv
  <2> QED
    BY <1>2, <2>1, <2>2, DispatchCases
<1>5. CASE e \notin entries
  <2>1. \A x \in Docs : x \in {d} \/ SourceKept(x)
    BY <1>3, UnchangedSources
  <2>2. e \in open' => e # d /\ e \in open
    BY <1>1, <1>3, <1>5, SourcesAssumption DEF Affects
  <2>3. e \in open' \ overtaken' =>
            /\ e \in open \ overtaken
            /\ published'[e] = published[e]
            /\ \A x \in Sources[e] : SourceKept(x)
    BY <1>1, <1>5, <2>1, <2>2, SourcesAssumption DEF Affects
  <2>4. Scheduled.g = generation /\ Scheduled.p = pending
    BY DEF Scheduled
  <2> QED
    BY <1>2, <2>3, <2>4, DispatchKeepsEntry
<1> QED
  BY <1>4, <1>5

LEMMA HandlersKeepEntry ==
    ASSUME TypeOK, NEW e \in Docs, EntryInv(e),
           WatchedFilesChanged \/ \E d \in Docs :
               DidChange(d) \/ DidSave(d) \/ DidClose(d) \/ DiskWrite(d)
    PROVE  EntryInv(e)'
<1> USE DEF Delays
<1>1. ASSUME NEW d \in Docs, DidChange(d) PROVE EntryInv(e)'
  <2>1. /\ Request(open, text', {d}, "debounced")
        /\ open' = open /\ UNCHANGED <<disk, unnoticed, published>>
        /\ \A x \in Docs \ {d} : text'[x] = text[x]
    BY <1>1 DEF DidChange, screen, TypeOK
  <2>2. \A x \in Docs : x \in {d} \/ SourceKept(x)
    BY <2>1, UnchangedSources
  <2> QED
    BY <2>1, <2>2, RequestKeepsEntry
<1>2. ASSUME NEW d \in Docs, DidSave(d) PROVE EntryInv(e)'
  <2>1. /\ Request(open, text, {d}, "immediate")
        /\ UNCHANGED <<open, text, unnoticed, published>>
        /\ \A x \in Docs \ {d} : disk'[x] = disk[x]
    BY <1>2 DEF DidSave, screen, TypeOK
  <2>2. \A x \in Docs : x \in {d} \/ SourceKept(x)
    BY <2>1 DEF SourceKept
  <2> QED
    BY <2>1, <2>2, RequestKeepsEntry
<1>3. ASSUME NEW d \in Docs, DidClose(d) PROVE EntryInv(e)'
  <2>1. /\ Request(open', text, {d}, "immediate")
        /\ open' = open \ {d} /\ UNCHANGED <<text, disk, unnoticed>>
        /\ \A x \in Docs \ {d} : published'[x] = published[x]
    BY <1>3 DEF DidClose, ClearEntry, TypeOK
  <2>2. \A x \in Docs : x \in {d} \/ SourceKept(x)
    BY <2>1, UnchangedSources
  <2> QED
    BY <2>1, <2>2, RequestKeepsEntry
<1>4. CASE WatchedFilesChanged
  <2>1. /\ Request(open, text, unnoticed, "immediate")
        /\ UNCHANGED <<open, text, disk, published>>
    BY <1>4 DEF WatchedFilesChanged, screen
  <2>2. \A x \in Docs : x \in unnoticed \/ SourceKept(x)
    BY <2>1 DEF SourceKept
  <2> QED
    BY <2>1, <2>2, RequestKeepsEntry
<1>5. ASSUME NEW d \in Docs, DiskWrite(d) PROVE EntryInv(e)'
  <2>1. /\ UNCHANGED <<open, text, generation, pending, active, job,
                       published, overtaken>>
        /\ unnoticed' = unnoticed \cup {d}
        /\ \A x \in Docs \ {d} : disk'[x] = disk[x]
    BY <1>5 DEF DiskWrite, scheduled, screen, TypeOK
  <2>2. \A x \in Docs : SourceKept(x)
    BY <2>1 DEF SourceKept
  <2> QED
    BY <2>1, <2>2, KeptEntry, SourcesAssumption
<1> QED
  BY <1>1, <1>2, <1>3, <1>4, <1>5

\* A worker that finishes has read the disk as it is now; a result is dropped
\* only when a newer request has been made.
LEMMA WorkersKeepEntry ==
    ASSUME TypeOK, NEW e \in Docs, EntryInv(e), NEW f \in Docs,
           RunJob(f) \/ TakeResult(f) \/ DebounceEnds(f)
    PROVE  EntryInv(e)'
<1>1. UNCHANGED <<open, text, disk, unnoticed, overtaken>>
  BY DEF RunJob, TakeResult, DebounceEnds, documents
<1>2. \A x \in Docs : SourceKept(x)
  BY <1>1 DEF SourceKept
<1>3. \A x \in Sources[e] : SourceKept(x)
  BY <1>2, SourcesAssumption
<1>4. CASE DebounceEnds(f)
  <2> DEFINE s == [Scheduled EXCEPT !.d = due \cup {f}]
  <2>1. s.g = generation /\ s.p = pending
    BY DEF Scheduled
  <2>2. Dispatch(s, active, job, open', text') /\ published' = published
    BY <1>1, <1>4 DEF DebounceEnds, screen
  <2> HIDE DEF s
  <2> QED
    BY <1>1, <1>3, <2>1, <2>2, DispatchKeepsEntry
<1>5. CASE RunJob(f)
  <2>1. /\ UNCHANGED <<generation, pending, active, published>>
        /\ job[f] # None /\ job[f].result = None
        /\ job' = [job EXCEPT ![f].result = Analysis(f, job[f].overlay, disk)]
    BY <1>5 DEF RunJob, scheduled, screen
  <2>2. CASE e # f
    BY <1>1, <1>3, <2>1, <2>2, KeptEntry DEF TypeOK
  <2>3. CASE e = f
    <3>1. /\ job'[e].generation = job[e].generation
          /\ job'[e].overlay = job[e].overlay
          /\ job'[e].result = Analysis(e, job[e].overlay, disk)
      BY <2>1, <2>3 DEF TypeOK
    <3>2. ASSUME JobIsCurrent(e) PROVE JobIsCurrent(e)'
      <4>1. \A d \in Sources[e] : job[e].overlay[d] = Overlay(open', text')[d]
        BY <1>1, <3>2 DEF JobIsCurrent
      <4>2. UpToDate(e, job[e].result)'
        BY <1>1, <3>1, <4>1 DEF UpToDate, Analysis
      <4> QED
        BY <2>1, <3>1, <3>2, <4>1, <4>2 DEF JobIsCurrent
    <3>3. active[e] # "none"
      BY <2>1, <2>3 DEF EntryInv
    <3> QED
      BY <1>1, <2>1, <3>2, <3>3 DEF EntryInv
  <2> QED
    BY <2>2, <2>3
<1>6. CASE TakeResult(f)
  <2> DEFINE a == Freed(f)
             j == [job EXCEPT ![f] = None]
  <2>1. /\ Dispatch(Scheduled, a, j, open', text')
        /\ job[f] # None /\ job[f].result # None
        /\ IF IsCurrent(f)
           THEN published' = [x \in Docs |-> IF x = f THEN job[f].result
                                             ELSE published[x]]
           ELSE published' = published
    BY <1>1, <1>6 DEF TakeResult, PublishAll, screen
  <2>2. Scheduled.g = generation /\ Scheduled.p = pending
    BY DEF Scheduled
  <2>3. CASE e # f
    <3>1. a[e] = active[e] /\ j[e] = job[e] /\ published'[e] = published[e]
      BY <2>1, <2>3 DEF Freed, TypeOK
    <3> HIDE DEF a, j
    <3> QED
      BY <1>1, <1>3, <2>1, <2>2, <3>1, DispatchKeepsEntry
  <2>4. CASE e = f
    <3>1. a[e] = "none" /\ j[e] = None
      BY <2>4 DEF Freed, TypeOK
    <3> HIDE DEF a, j
    <3>2. /\ generation' = Scheduled.g
          /\ \/ Waits(Scheduled, a, j, e)
             \/ Starts(Scheduled, a, open', text', e)
      BY <2>1, DispatchCases
    <3>3. CASE Starts(Scheduled, a, open', text', e)
      BY <3>2, <3>3, StartedJobIsCurrent
    <3>4. CASE Waits(Scheduled, a, j, e)
      <4>1. /\ active'[e] = "none" /\ job'[e] = None
            /\ pending'[e] = pending[e]
        BY <2>2, <3>1, <3>4 DEF Waits
      <4>2. ASSUME e \in open \ overtaken, pending[e] = "none"
            PROVE  UpToDate(e, published[e])'
        <5>1. JobIsCurrent(e)
          BY <2>1, <2>4, <4>2 DEF EntryInv
        <5>2. IsCurrent(e)
          BY <4>2, <5>1 DEF JobIsCurrent, IsCurrent
        <5>3. published'[e] = job[e].result
          BY <2>1, <2>4, <5>2
        <5>4. UpToDate(e, job[e].result)
          BY <2>1, <2>4, <5>1 DEF JobIsCurrent
        <5> QED
          BY <1>1, <5>3, <5>4 DEF UpToDate
      <4> QED
        BY <1>1, <4>1, <4>2 DEF EntryInv
    <3> QED
      BY <3>2, <3>3, <3>4
  <2> QED
    BY <2>3, <2>4
<1> QED
  BY <1>4, <1>5, <1>6
-----------------------------------------------------------------------------
(***************************************************************************)
(* What the editor shows, document by document: each notification is part  *)
(* of the last publication or clearing of the entry it was for.            *)
(***************************************************************************)
NoticesInv ==
    \A e \in Docs : ShowsLast(e) /\ (published[e] # None => e \in open)

\* A publication tells every document that had errors before or has them now.
LEMMA PublishShowsLast ==
    ASSUME TypeOK, NEW entries \in SUBSET Docs, NEW results,
           PublishAll(entries, results), NEW e \in Docs, ShowsLast(e)
    PROVE  ShowsLast(e)'
<1> DEFINE About(d) == {x \in entries : d \in Notified(x, results[x])}
<1>1. PICK last \in [Docs -> Docs] :
          /\ \A d \in Docs : last[d] \in About(d) \/ About(d) = {}
          /\ shown' = [d \in Docs |->
                          IF About(d) = {} THEN shown[d]
                          ELSE Notice(last[d], results[last[d]], d)]
  BY DEF PublishAll
<1>2. published'[e] = IF e \in entries THEN results[e] ELSE published[e]
  BY DEF PublishAll
<1> SUFFICES ASSUME NEW d \in Docs, shown'[d].entry = e
             PROVE  shown'[d].texts =
                        IF published'[e] # None /\ d \in Faulty(e, published'[e])
                        THEN published'[e] ELSE None
  BY DEF ShowsLast, Faulty
<1>3. CASE About(d) # {}
  <2>1. shown'[d] = Notice(last[d], results[last[d]], d) /\ last[d] \in entries
    BY <1>1, <1>3
  <2>2. last[d] = e
    BY <2>1 DEF Notice
  <2> QED
    BY <1>2, <2>1, <2>2 DEF Notice
<1>4. CASE About(d) = {}
  <2>1. shown'[d] = shown[d]
    BY <1>1, <1>4
  <2>2. CASE e \in entries
    <3>1. d \notin Notified(e, results[e])
      BY <1>4, <2>2
    <3>2. d \notin Faulty(e, results[e]) /\ d \notin Uris(e)
      BY <3>1 DEF Notified
    <3>3. shown[d].texts = None
      BY <2>1, <3>2 DEF ShowsLast, Uris
    <3> QED
      BY <1>2, <2>1, <2>2, <3>2, <3>3
  <2>3. CASE e \notin entries
    BY <1>2, <2>1, <2>3 DEF ShowsLast
  <2> QED
    BY <2>2, <2>3
<1> QED
  BY <1>3, <1>4

\* So does the clearing of an entry.
LEMMA ClearShowsLast ==
    ASSUME TypeOK, NEW c \in Docs, ClearEntry(c), NEW e \in Docs, ShowsLast(e)
    PROVE  ShowsLast(e)'
<1> SUFFICES ASSUME NEW d \in Docs, shown'[d].entry = e
             PROVE  shown'[d].texts =
                        IF published'[e] # None /\ d \in Faulty(e, published'[e])
                        THEN published'[e] ELSE None
  BY DEF ShowsLast, Faulty
<1>1. CASE d \in Uris(c) \cup {c}
  <2>1. shown'[d] = [entry |-> c, texts |-> None]
    BY <1>1 DEF ClearEntry
  <2>2. published'[e] = None
    BY <2>1 DEF ClearEntry, TypeOK
  <2> QED
    BY <2>1, <2>2
<1>2. CASE d \notin Uris(c) \cup {c}
  <2>1. shown'[d] = shown[d]
    BY <1>2 DEF ClearEntry
  <2>2. CASE e = c
    <3>1. shown[d].texts = None
      BY <1>2, <2>1, <2>2 DEF ShowsLast, Uris
    <3>2. published'[e] = None
      BY <2>2 DEF ClearEntry, TypeOK
    <3> QED
      BY <2>1, <3>1, <3>2
  <2>3. CASE e # c
    <3>1. published'[e] = published[e]
      BY <2>3 DEF ClearEntry, TypeOK
    <3> QED
      BY <2>1, <3>1 DEF ShowsLast
  <2> QED
    BY <2>2, <2>3
<1> QED
  BY <1>1, <1>2

LEMMA NoticesInvStep ==
    ASSUME TypeOK, NoticesInv, [Next]_vars
    PROVE  NoticesInv'
<1> SUFFICES ASSUME NEW e \in Docs
             PROVE  ShowsLast(e)' /\ (published'[e] # None => e \in open')
  BY DEF NoticesInv
<1>1. ShowsLast(e) /\ (published[e] # None => e \in open)
  BY DEF NoticesInv
<1>2. ASSUME UNCHANGED <<open, screen>>
      PROVE  ShowsLast(e)' /\ (published'[e] # None => e \in open')
  BY <1>1, <1>2 DEF screen, ShowsLast, Faulty
<1>3. ASSUME NEW d \in Docs, DidOpen(d)
      PROVE  ShowsLast(e)' /\ (published'[e] # None => e \in open')
  <2>1. PICK entries \in SUBSET Docs :
            /\ Affects(open', {d}, entries)
            /\ PublishAll(entries, [x \in entries |->
                            Analysis(x, Overlay(open', text'), disk)])
    BY <1>3 DEF DidOpen
  <2>2. e \in entries => e \in open'
    BY <2>1 DEF Affects
  <2>3. e \notin entries => published'[e] = published[e]
    BY <2>1 DEF PublishAll
  <2>4. open \subseteq open'
    BY <1>3 DEF DidOpen
  <2> QED
    BY <1>1, <2>1, <2>2, <2>3, <2>4, PublishShowsLast
<1>4. ASSUME NEW d \in Docs, DidClose(d)
      PROVE  ShowsLast(e)' /\ (published'[e] # None => e \in open')
  <2>1. ClearEntry(d) /\ open' = open \ {d}
    BY <1>4 DEF DidClose
  <2>2. published'[e] # None => e # d /\ published[e] # None
    BY <2>1 DEF ClearEntry, TypeOK
  <2> QED
    BY <1>1, <2>1, <2>2, ClearShowsLast
<1>5. ASSUME NEW f \in Docs, TakeResult(f)
      PROVE  ShowsLast(e)' /\ (published'[e] # None => e \in open')
  <2>1. open' = open
    BY <1>5 DEF TakeResult, documents
  <2>2. CASE IsCurrent(f)
    <3>1. PublishAll({f}, [x \in {f} |-> job[f].result]) /\ f \in open
      BY <1>5, <2>2 DEF TakeResult, IsCurrent
    <3>2. e # f => published'[e] = published[e]
      BY <3>1 DEF PublishAll
    <3> QED
      BY <1>1, <2>1, <3>1, <3>2, PublishShowsLast
  <2>3. CASE ~IsCurrent(f)
    BY <1>2, <1>5, <2>1, <2>3 DEF TakeResult
  <2> QED
    BY <2>2, <2>3
<1>6. CASE \E d \in Docs : DidChange(d) \/ DidSave(d) \/ DiskWrite(d)
  BY <1>2, <1>6 DEF DidChange, DidSave, DiskWrite
<1>7. CASE WatchedFilesChanged \/ UNCHANGED vars
           \/ \E f \in Docs : DebounceEnds(f) \/ RunJob(f)
  BY <1>2, <1>7 DEF WatchedFilesChanged, DebounceEnds, RunJob, vars, documents
<1> QED
  BY <1>3, <1>4, <1>5, <1>6, <1>7 DEF Next, Core
-----------------------------------------------------------------------------
LEMMA JobsInvStep ==
    ASSUME TypeOK, JobsInv, [Next]_vars
    PROVE  JobsInv'
<1> SUFFICES ASSUME NEW e \in Docs PROVE EntryInv(e)'
  BY DEF JobsInv, EntryInv
<1>1. EntryInv(e)
  BY DEF JobsInv, EntryInv
<1>2. CASE UNCHANGED vars
  BY <1>1, <1>2
     DEF vars, documents, scheduled, screen, EntryInv, UpToDate, JobIsCurrent
<1>3. CASE Next
  BY <1>1, <1>3, DidOpenKeepsEntry, HandlersKeepEntry, WorkersKeepEntry
     DEF Next, Core
<1> QED
  BY <1>2, <1>3

(***************************************************************************)
(* The documents, what is scheduled and the jobs have their types.         *)
(***************************************************************************)
THEOREM TypeCorrect == Spec => []TypeOK
<1>1. Init => TypeOK
  BY DEF Init, TypeOK, Delays
<1>2. TypeOK /\ [Next]_vars => TypeOK'
  BY TypeStep
<1> QED
  BY <1>1, <1>2, PTL DEF Spec

(***************************************************************************)
(* Why generations are enough: a job whose generation is the newest holds  *)
(* the texts of now, at every moment, so that nothing newer than what it   *)
(* will publish is lost.                                                   *)
(***************************************************************************)
THEOREM NewestJobIsCurrent == Spec => []JobsInv
<1>1. Init => JobsInv
  BY DEF Init, JobsInv
<1>2. TypeOK /\ JobsInv /\ [Next]_vars => JobsInv'
  BY JobsInvStep
<1> QED
  BY <1>1, <1>2, TypeCorrect, PTL DEF Spec

(***************************************************************************)
(* What a document shows comes from the last publication of the entry it   *)
(* was last notified for; nothing of a closed entry is left.               *)
(***************************************************************************)
THEOREM NoticesAreCurrent == Spec => []NoticesInv
<1>1. Init => NoticesInv
  BY DEF Init, NoticesInv, ShowsLast
<1>2. TypeOK /\ NoticesInv /\ [Next]_vars => NoticesInv'
  BY NoticesInvStep
<1> QED
  BY <1>1, <1>2, TypeCorrect, PTL DEF Spec

(***************************************************************************)
(* Once nothing is pending or active for an open document that didOpen has *)
(* not published while a job for it was running, the diagnostics published *)
(* for it last are those of the present texts, and every document shows    *)
(* them that has not been notified for another entry since.                *)
(***************************************************************************)
THEOREM NoChangeIsMissed == Spec => []IdleDiagnosticsAreCurrent
<1>1. TypeOK /\ JobsInv /\ NoticesInv => IdleDiagnosticsAreCurrent
  <2> SUFFICES ASSUME TypeOK, JobsInv, NoticesInv,
                      NEW e \in open \ overtaken, Idle(e)
               PROVE  UpToDate(e, published[e]) /\ ShowsLast(e)
    BY DEF IdleDiagnosticsAreCurrent
  <2>1. e \in Docs
    BY DEF TypeOK
  <2> QED
    BY <2>1 DEF JobsInv, NoticesInv, Idle
<1> QED
  BY <1>1, TypeCorrect, NewestJobIsCurrent, NoticesAreCurrent, PTL

(***************************************************************************)
(* didClose clears what was published for a document, in every document,   *)
(* for good: no job that was running publishes it again.                   *)
(***************************************************************************)
THEOREM ClosedStaysCleared == Spec => []ClosedEntriesShowNothing
<1>1. TypeOK /\ NoticesInv => ClosedEntriesShowNothing
  BY DEF TypeOK, NoticesInv, ShowsLast, ClosedEntriesShowNothing
<1> QED
  BY <1>1, TypeCorrect, NoticesAreCurrent, PTL

(***************************************************************************)
(* However many requests come while a worker is busy, it has one job, and  *)
(* no document is with both workers.                                       *)
(***************************************************************************)
THEOREM WorkersHaveOneJob == Spec => []OneJobPerWorker
<1>1. Init => OneJobPerWorker
  BY DEF Init, OneJobPerWorker
<1>2. TypeOK /\ OneJobPerWorker /\ [Next]_vars => OneJobPerWorker'
  <2> SUFFICES ASSUME TypeOK, OneJob(active), [Next]_vars
               PROVE  OneJob(active')
    BY DEF OneJob, OneJobPerWorker
  <2>1. ASSUME NEW d \in Docs, DidOpen(d) PROVE OneJob(active')
    BY <2>1, DispatchLanes DEF DidOpen
  <2>2. ASSUME NEW d \in Docs, DidChange(d) \/ DidSave(d) \/ DidClose(d)
        PROVE  OneJob(active')
    BY <2>2, DispatchLanes DEF DidChange, DidSave, DidClose, Request
  <2>3. CASE WatchedFilesChanged
    BY <2>3, DispatchLanes DEF WatchedFilesChanged, Request
  <2>4. ASSUME NEW e \in Docs, DebounceEnds(e) PROVE OneJob(active')
    BY <2>4, DispatchLanes DEF DebounceEnds
  <2>5. ASSUME NEW e \in Docs, TakeResult(e) PROVE OneJob(active')
    <3>1. OneJob(Freed(e))
      BY DEF OneJob, Freed, TypeOK
    <3> QED
      BY <2>5, <3>1, DispatchLanes DEF TakeResult
  <2>6. CASE active' = active
    BY <2>6
  <2>7. CASE UNCHANGED vars \/ \E e \in Docs : DiskWrite(e) \/ RunJob(e)
    BY <2>6, <2>7 DEF DiskWrite, RunJob, vars
  <2> QED
    BY <2>1, <2>2, <2>3, <2>4, <2>5, <2>7 DEF Next, Core
<1> QED
  BY <1>1, <1>2, TypeCorrect, PTL DEF Spec
=============================================================================
