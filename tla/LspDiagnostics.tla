--------------------------- MODULE LspDiagnostics ---------------------------
(***************************************************************************)
(* The diagnostics of the language server.  One thread, the core, handles  *)
(* the messages of the editor and owns the open documents; two workers,    *)
(* one for immediate and one for debounced requests, analyse entries from  *)
(* a copy of the open documents and from the disk.  Meanwhile documents    *)
(* are opened, edited, saved and closed, and files change on disk, so that *)
(* a result may be older than what it is compared with: generations decide *)
(* which results are published.                                            *)
(*                                                                         *)
(* A text is the number of the message that brought it.  The result of an  *)
(* analysis is the texts of the documents it was made from; which ones     *)
(* those are for an entry does not change, and the texts say in which of   *)
(* them there are errors.  A notification is for one document, whichever   *)
(* entry it comes from, and replaces what the editor showed for it: the    *)
(* errors of a library come from its own analysis and from those of its    *)
(* importers, and the last one wins.  The caches of the server are left    *)
(* out: an entry whose sources are not cached counts as affected by every  *)
(* change, so any open entry may be.                                       *)
(***************************************************************************)
EXTENDS Integers, FiniteSets

CONSTANTS
    Docs,        \* the documents
    Sources,     \* for each document, the documents it is analysed from
    Errors(_),   \* the documents with errors, for the texts of an analysis
    None,        \* no job, no result, no diagnostics
    MaxMessages  \* bound on what the editor does and on writes to the disk

ASSUME SourcesAssumption ==
    /\ Sources \in [Docs -> SUBSET Docs]
    /\ \A d \in Docs : d \in Sources[d]
    /\ None \notin Nat
    /\ MaxMessages \in Nat

VARIABLES
    messages,    \* how many there have been
    open,        \* the open documents
    text,        \* their texts
    disk,        \* the texts on disk
    unnoticed,   \* files written of which the editor has yet to tell
    generation,  \* diagnostic_generations
    pending,     \* pending_diagnostics: the delay asked for, or "none"
    due,         \* pending entries whose time has come
    active,      \* active_diagnostics: the delay of the job, or "none"
    job,         \* for each entry the job a worker has for it, or None
    shown,       \* for each document the last notification: the entry it
                 \* was for, and the texts analysed, or None if it is empty
    published,   \* published_by_entry, as the texts analysed (see Uris)
    overtaken    \* history: entries published while a job for them was active

documents == <<messages, open, text, disk, unnoticed>>
scheduled == <<generation, pending, due>>
screen == <<shown, published>>
vars == <<documents, scheduled, active, job, screen, overtaken>>

Delays == {"immediate", "debounced"}

Init == /\ messages = 0
        /\ open = {} /\ unnoticed = {}
        /\ text = [d \in Docs |-> 0] /\ disk = [d \in Docs |-> 0]
        /\ generation = [d \in Docs |-> 0]
        /\ pending = [d \in Docs |-> "none"] /\ due = {}
        /\ active = [d \in Docs |-> "none"]
        /\ job = [d \in Docs |-> None]
        /\ shown = [d \in Docs |-> [entry |-> d, texts |-> None]]
        /\ published = [d \in Docs |-> None]
        /\ overtaken = {}
-----------------------------------------------------------------------------
(* What an analysis sees: the texts of open documents, the disk for others. *)
Overlay(o, t) == [d \in Docs |-> IF d \in o THEN t[d] ELSE None]

Analysis(e, overlay, dk) ==
    [d \in Sources[e] |-> IF overlay[d] = None THEN dk[d] ELSE overlay[d]]

\* diagnostic_entries_affected_by_changes, for the open documents o.
Affects(o, paths, entries) ==
    /\ entries \subseteq o
    /\ \A e \in o : Sources[e] \cap paths # {} => e \in entries

\* Schedules: the generations g, the pending requests p and the due ones d.
Scheduled == [g |-> generation, p |-> pending, d |-> due]

\* Wrong variant: an entry that is being analysed is not asked for again.
ScheduleUnlessActive(entries, delay) ==
    LET new == {e \in entries : active[e] = "none"}
    IN  [g |-> [e \in Docs |-> generation[e] + (IF e \in new THEN 1 ELSE 0)],
         p |-> [e \in Docs |-> IF e \in new THEN delay ELSE pending[e]],
         d |-> IF delay = "immediate" THEN due \cup new ELSE due \ new]

\* schedule_diagnostic_entries: a later request replaces a pending one.
Schedule(entries, delay) ==
    [g |-> [e \in Docs |-> generation[e] + (IF e \in entries THEN 1 ELSE 0)],
     p |-> [e \in Docs |-> IF e \in entries THEN delay ELSE pending[e]],
     d |-> IF delay = "immediate" THEN due \cup entries ELSE due \ entries]

\* diagnostic_lane_available, for the active jobs a.
LaneAvailable(a, e, delay) == a[e] = "none" /\ \A x \in Docs : a[x] # delay

\* dispatch_due_diagnostics, which ends every step of the core: s is what is
\* scheduled, a the active entries, j their jobs, o and t the documents.  The
\* worker of a delay gets one job; which of several due entries it gets is up
\* to the order of a hash map.
Ready(s, a) ==
    {e \in Docs : e \in s.d /\ s.p[e] # "none" /\ LaneAvailable(a, e, s.p[e])}

OnePerDelay(s, a, picked) ==
    /\ \A e \in Ready(s, a) : \E f \in picked : s.p[f] = s.p[e]
    /\ \A e, f \in picked : s.p[e] = s.p[f] => e = f

SendJobs(picked, s, a, j, o, t) ==
    /\ generation' = s.g
    /\ pending' = [e \in Docs |-> IF e \in picked THEN "none" ELSE s.p[e]]
    /\ due' = s.d \ picked
    /\ active' = [e \in Docs |-> IF e \in picked THEN s.p[e] ELSE a[e]]
    /\ job' = [e \in Docs |->
                  IF e \in picked
                  THEN [generation |-> s.g[e], overlay |-> Overlay(o, t),
                        result |-> None]
                  ELSE j[e]]

Dispatch(s, a, j, o, t) ==
    \E picked \in SUBSET Ready(s, a) :
        OnePerDelay(s, a, picked) /\ SendJobs(picked, s, a, j, o, t)
-----------------------------------------------------------------------------
(* publish_diagnostics_for_entry_data groups the errors by document.  There *)
(* is a notification for each of them, for the entry itself, and, empty,    *)
(* for each document that had one when the entry was published before.      *)
Faulty(e, texts) == Errors(texts) \cap Sources[e]

Uris(e) ==
    IF published[e] = None THEN {} ELSE Faulty(e, published[e]) \cup {e}

Notified(e, texts) == Faulty(e, texts) \cup {e} \cup Uris(e)

Notice(e, texts, d) ==
    [entry |-> e, texts |-> IF d \in Faulty(e, texts) THEN texts ELSE None]

Orders == {order \in [Docs -> 1..Cardinality(Docs)] :
              \A e, f \in Docs : order[e] = order[f] => e = f}

\* Several entries are published one after the other, in the order of a hash
\* map; last[d] is the one that notifies d last.
PublishAll(entries, results) ==
    LET About(d) == {e \in entries : d \in Notified(e, results[e])} IN
    /\ published' = [e \in Docs |-> IF e \in entries THEN results[e]
                                    ELSE published[e]]
    /\ \E last \in [Docs -> Docs] :
          /\ \A d \in Docs : last[d] \in About(d) \/ About(d) = {}
          /\ \E order \in Orders : \A d \in Docs :
                \A e \in About(d) : order[e] <= order[last[d]]
          /\ shown' = [d \in Docs |->
                          IF About(d) = {} THEN shown[d]
                          ELSE Notice(last[d], results[last[d]], d)]
-----------------------------------------------------------------------------
(* The messages of the editor.                                             *)
Message == messages < MaxMessages /\ messages' = messages + 1

\* textDocument/didOpen: analysed and published at once, in the core.
DidOpen(d) ==
    /\ Message
    /\ d \notin open /\ open' = open \cup {d}
    /\ text' = [text EXCEPT ![d] = messages']
    /\ \E entries \in SUBSET Docs :
          /\ Affects(open', {d}, entries)
          /\ PublishAll(entries, [e \in entries |->
                          Analysis(e, Overlay(open', text'), disk)])
          /\ overtaken' = overtaken \cup {e \in entries : active[e] # "none"}
    /\ Dispatch(Scheduled, active, job, open', text')
    /\ UNCHANGED <<disk, unnoticed>>

\* What a handler schedules is no longer overtaken.
Request(o, t, paths, delay) ==
    \E entries \in SUBSET Docs :
        /\ Affects(o, paths, entries)
        /\ overtaken' = overtaken \ entries
        /\ Dispatch(Schedule(entries, delay), active, job, o, t)

\* textDocument/didChange
DidChange(d) ==
    /\ Message
    /\ d \in open
    /\ text' = [text EXCEPT ![d] = messages']
    /\ Request(open, text', {d}, "debounced")
    /\ UNCHANGED <<open, disk, unnoticed, screen>>

\* textDocument/didSave, after the editor has written the file.
DidSave(d) ==
    /\ Message
    /\ d \in open
    /\ disk' = [disk EXCEPT ![d] = text[d]]
    /\ Request(open, text, {d}, "immediate")
    /\ UNCHANGED <<open, text, unnoticed, screen>>

\* clear_entry_diagnostics: every document that the entry was published for.
ClearEntry(e) ==
    /\ shown' = [d \in Docs |-> IF d \in Uris(e) \cup {e}
                                THEN [entry |-> e, texts |-> None]
                                ELSE shown[d]]
    /\ published' = [published EXCEPT ![e] = None]

\* textDocument/didClose: importers are analysed with the file on disk.
DidClose(d) ==
    /\ Message
    /\ d \in open /\ open' = open \ {d}
    /\ ClearEntry(d)
    /\ Request(open', text, {d}, "immediate")
    /\ UNCHANGED <<text, disk, unnoticed>>

\* Something else writes a file; the editor tells of it later.
DiskWrite(d) ==
    /\ Message
    /\ disk' = [disk EXCEPT ![d] = messages']
    /\ unnoticed' = unnoticed \cup {d}
    /\ UNCHANGED <<open, text, scheduled, active, job, screen, overtaken>>

\* workspace/didChangeWatchedFiles
WatchedFilesChanged ==
    /\ unnoticed # {} /\ unnoticed' = {}
    /\ Request(open, text, unnoticed, "immediate")
    /\ UNCHANGED <<messages, open, text, disk, screen>>
-----------------------------------------------------------------------------
(* The passing of time, the workers, and the results.                      *)

\* The core waits until the next request is due (next_diagnostic_timeout).
DebounceEnds(e) ==
    /\ pending[e] = "debounced" /\ e \notin due
    /\ Dispatch([Scheduled EXCEPT !.d = due \cup {e}], active, job, open, text)
    /\ UNCHANGED <<documents, screen, overtaken>>

\* run_diagnostic_job
RunJob(e) ==
    /\ job[e] # None /\ job[e].result = None
    /\ job' = [job EXCEPT ![e].result = Analysis(e, job[e].overlay, disk)]
    /\ UNCHANGED <<documents, scheduled, active, screen, overtaken>>

\* Wrong variant: a closed document is published like any other.
IsCurrentWhenClosed(e) == job[e].generation = generation[e]

\* The two tests before a result is published.
IsCurrent(e) == job[e].generation = generation[e] /\ e \in open

\* Wrong variant: the worker counts as busy until a result is published.
FreedWhenPublished(e) ==
    IF IsCurrent(e) THEN [active EXCEPT ![e] = "none"] ELSE active

\* active_diagnostics without the entry whose job is done.
Freed(e) == [active EXCEPT ![e] = "none"]

\* LspCore::publish_diagnostic_result
TakeResult(e) ==
    /\ job[e] # None /\ job[e].result # None
    /\ IF IsCurrent(e) THEN PublishAll({e}, [x \in {e} |-> job[e].result])
       ELSE UNCHANGED screen
    /\ Dispatch(Scheduled, Freed(e), [job EXCEPT ![e] = None], open, text)
    /\ UNCHANGED <<documents, overtaken>>

Core == \/ WatchedFilesChanged
        \/ \E e \in Docs : DebounceEnds(e) \/ TakeResult(e)

Next == \/ \E d \in Docs : \/ DidOpen(d) \/ DidChange(d) \/ DidSave(d)
                           \/ DidClose(d) \/ DiskWrite(d)
        \/ Core
        \/ \E e \in Docs : RunJob(e)

\* The core and both workers run, and time passes; the editor need not act.
Spec == Init /\ [][Next]_vars /\ WF_vars(Core)
        /\ \A e \in Docs : WF_vars(RunJob(e)) /\ WF_vars(TakeResult(e))
-----------------------------------------------------------------------------
TypeOK ==
    /\ open \subseteq Docs
    /\ text \in [Docs -> Nat] /\ disk \in [Docs -> Nat]
    /\ pending \in [Docs -> Delays \cup {"none"}]
    /\ active \in [Docs -> Delays \cup {"none"}]
    /\ generation \in [Docs -> Nat]
    /\ DOMAIN published = Docs /\ DOMAIN job = Docs
    /\ \A d \in Docs : shown[d].entry \in Docs
    /\ \A e \in Docs :
          job[e] # None => DOMAIN job[e] = {"generation", "overlay", "result"}
    /\ messages \in Nat

Idle(e) == pending[e] = "none" /\ active[e] = "none"

\* A result for e agrees with the open documents and, but for files the
\* editor has not told of, with the disk.
UpToDate(e, result) ==
    \A d \in Sources[e] :
        \/ result[d] = Analysis(e, Overlay(open, text), disk)[d]
        \/ d \in unnoticed /\ d \notin open

\* What the editor shows on behalf of e is what was published for e last: for
\* each document whose last notification was for e, its errors.
ShowsLast(e) ==
    \A d \in Docs : shown[d].entry = e =>
        shown[d].texts = IF published[e] # None /\ d \in Faulty(e, published[e])
                         THEN published[e] ELSE None

(***************************************************************************)
(* When nothing is pending or active for an open document, the diagnostics *)
(* published for it last are those of the present texts, and the editor    *)
(* shows them, and none of its earlier ones, in every document that has    *)
(* not been notified for another entry since: no edit, save, opening,      *)
(* closing or change on disk is lost, whichever jobs were running when it  *)
(* came.                                                                   *)
(*                                                                         *)
(* There are two exceptions.  An entry that didOpen published while a job  *)
(* for it was active is overtaken: didOpen takes no generation, so that    *)
(* the older result is published over the newer one.  And a document shows *)
(* the last notification for it, whichever entry it was for: an importer   *)
(* that is closed, or edited so that it no longer finds the errors, empties *)
(* what an open library shows, and nothing analyses the library again.     *)
(***************************************************************************)
IdleDiagnosticsAreCurrent ==
    \A e \in open \ overtaken :
        Idle(e) => UpToDate(e, published[e]) /\ ShowsLast(e)

\* Why, step by step: a job that no later request replaces copied the texts
\* that are still there, and what it read from disk is what is there, but for
\* files of which the editor has yet to tell.
JobIsCurrent(e) ==
    /\ job[e].generation = generation[e]
    /\ \A d \in Sources[e] : job[e].overlay[d] = Overlay(open, text)[d]
    /\ job[e].result # None => UpToDate(e, job[e].result)

JobsInv ==
    \A e \in Docs :
        /\ job[e] # None => active[e] # "none"
        /\ e \in open \ overtaken /\ pending[e] = "none"
           => IF active[e] = "none" THEN UpToDate(e, published[e])
              ELSE JobIsCurrent(e)

\* Closing a document clears everything that was published for it, also in
\* the documents it imports, and for good: neither a job that was running nor
\* a request that was pending brings it back.  What an open importer finds in
\* a closed document stays.
ClosedEntriesShowNothing ==
    \A d \in Docs : shown[d].texts # None => shown[d].entry \in open

\* Each worker has one job at most and no document is analysed twice at once;
\* snapshots of obsolete texts do not queue up in front of a worker.
OneJobPerWorker ==
    \A e, f \in Docs : active[e] = active[f] /\ active[e] # "none" => e = f

\* However requests, results and debouncing interleave, the analyses end once
\* the editor is quiet: no request is left behind by a busy worker.
AnalysesEnd == <>[](\A e \in Docs : Idle(e))
=============================================================================
