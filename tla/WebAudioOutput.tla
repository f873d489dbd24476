--------------------------- MODULE WebAudioOutput ---------------------------
(***************************************************************************)
(* Prints and delegates of a program in a browser.  The audio worklet      *)
(* writes what a block produced to a ring in shared memory and wakes the   *)
(* page, whose loop drains the ring and calls the listeners.  The page     *)
(* starts and stops its loop as listeners come and go, and tells the       *)
(* worklet through a message port, so that entries for listeners that have *)
(* left are still in the ring when the next ones come.                     *)
(*                                                                         *)
(* The page runs one task at a time, but it calls a listener in the middle *)
(* of a drain, which may subscribe, unsubscribe or close; the worklet      *)
(* interleaves with it at every access to the shared memory.               *)
(*                                                                         *)
(* The names differ from those of SampleRing, the ring of the other host,  *)
(* so that a module can extend both.                                       *)
(***************************************************************************)
EXTENDS Integers, Sequences, FiniteSets

CONSTANTS
    Slots,             \* slotCount
    Period,            \* the indices are kept modulo Period, 2^32 in the code:
                       \* a multiple of Slots that is larger
    MaxBlocks,         \* bound on the blocks that produce something
    MaxSubscriptions   \* bound on the subscriptions

\* "A power-of-two capacity divides the u32 counter period, so wrapping the
\* counters cannot alias a slot that still holds an unread record."
ASSUME PeriodAssumption ==
    /\ Slots \in Nat \ {0}
    /\ Period \in Nat /\ Period > Slots
    /\ Period % Slots = 0

ASSUME BoundsAssumption == MaxBlocks \in Nat /\ MaxSubscriptions \in Nat

Kinds == {"print", "delegate"}

VARIABLES
    entries, ringRead, ringWrite,   \* the ring
    wake,         \* EXECUTION_OUTPUT_RING_WAKE_INDEX, on which the page waits
    ppc,          \* the worklet: "idle", or in writeExecutionOutputRing
    batch,        \* executionOutputEntry, what it writes
    collecting,   \* printCollectionEnabled, printSubscriptionId and the other
    drops,        \* pendingPrintDrops, pendingDelegateDrops; the overflow of
                  \* a batch is kept and told in the same way
    port,         \* subscription messages under way to the worklet
    mpc,          \* the page: "idle", or what its task is doing
    drain,        \* the drain it is in
    outer,        \* the drain whose listener has started another one
    posting,      \* the message to be posted when the new loop waits
    listening,    \* the kinds that have listeners
    subscription, \* printSubscriptionId, delegateSubscriptionId
    active,       \* executionOutputDrainActive
    generation,   \* executionOutputWaitGeneration
    waiting,      \* the loops that wait for the ring ...
    woken,        \* ... and those to be resumed, by their generations
    closed,
    built,        \* the constructor has returned
    blocks,       \* history: blocks that produced something
    finished,     \* history: entries taken from the ring
    rewound,      \* history: a drain has moved the read index back
    made,         \* history: records of the worklet's present subscription
    got,          \* history: those its listeners got, or heard were dropped
    early         \* history: those of them that were being delivered when
                  \* the listener came

ring == <<entries, ringRead, ringWrite>>
worklet == <<ppc, batch, collecting, drops, blocks, made>>
loops == <<active, generation, waiting, woken>>
listeners == <<listening, subscription, closed, built>>
page == <<mpc, drain, outer, posting, finished, rewound, got, early>>
webVars == <<ring, wake, worklet, port, loops, listeners, page>>

Zero == [k \in Kinds |-> 0]

NoEntry == [number |-> 0, of |-> Zero, records |-> Zero, drops |-> Zero]

\* A drain by the start of a loop, before the loop has a generation.
Starting == 0
NoDrain == [loop |-> Starting, expected |-> 0, at |-> 0, entry |-> NoEntry,
            todo |-> {}, visiting |-> {}, late |-> {}]

\* A processor without listeners, or the constructor of one with a print
\* listener, which the worklet serves from its own construction on.
WebInit ==
        /\ entries = [s \in 0 .. Slots - 1 |-> NoEntry]
        /\ ringRead = 0 /\ ringWrite = 0 /\ wake = 0
        /\ ppc = "idle" /\ batch = NoEntry /\ drops = Zero /\ port = <<>>
        /\ listening \in {{}, {"print"}}
        /\ subscription = [k \in Kinds |-> IF k \in listening THEN 1 ELSE 0]
        /\ collecting = [k \in Kinds |-> [on |-> k \in listening,
                                          id |-> subscription[k]]]
        /\ active = (listening # {}) /\ built = ~active
        /\ mpc = IF active THEN "drain" ELSE "idle"
        /\ drain = NoDrain /\ outer = <<>> /\ posting = <<>>
        /\ generation = 0 /\ waiting = {} /\ woken = {} /\ closed = FALSE
        /\ blocks = 0 /\ finished = 0 /\ rewound = FALSE
        /\ made = Zero /\ got = Zero /\ early = Zero
-----------------------------------------------------------------------------
(* The worklet: publishExecutionOutput and writeExecutionOutputRing.       *)

\* How far an index is ahead of what the page has stored.
Ahead(i) == (i - ringRead) % Period

\* Wrong variant: one entry more than there are slots.
FullOneLate == Ahead(ringWrite) > Slots

Full == Ahead(ringWrite) >= Slots

\* A block has made a record of each kind in some that is collected; what
\* was dropped before is told with it, or alone.
Publish(some) ==
    LET new == [k \in Kinds |-> IF k \in some /\ collecting[k].on
                                THEN 1 ELSE 0]
    IN  /\ ppc = "idle"
        /\ new # Zero \/ drops # Zero
        /\ blocks' = IF new = Zero THEN blocks ELSE blocks + 1
        /\ blocks' <= MaxBlocks
        /\ made' = [k \in Kinds |-> made[k] + new[k]]
        /\ IF Full
           THEN /\ drops' = [k \in Kinds |-> drops[k] + new[k]]
                /\ UNCHANGED <<ppc, batch>>
           ELSE /\ batch' = [number |-> batch.number + 1,
                             of |-> [k \in Kinds |-> collecting[k].id],
                             records |-> new, drops |-> drops]
                /\ ppc' = "write"
                /\ UNCHANGED drops
        /\ UNCHANGED <<ring, wake, collecting, port, loops, listeners, page>>

WriteEntry == /\ ppc = "write" /\ ppc' = "store"
              /\ entries' = [entries EXCEPT ![ringWrite % Slots] = batch]
              /\ UNCHANGED <<ringRead, ringWrite, wake, batch, collecting,
                             drops, blocks, made, port, loops, listeners, page>>

StoreWriteIndex ==
    /\ ppc = "store" /\ ppc' = "wake"
    /\ ringWrite' = (ringWrite + 1) % Period
    /\ UNCHANGED <<entries, ringRead, wake, batch, collecting, drops, blocks,
                   made, port, loops, listeners, page>>

AddWake == /\ ppc = "wake" /\ ppc' = "notify"
           /\ wake' = wake + 1
           /\ UNCHANGED <<ring, batch, collecting, drops, blocks, made, port,
                          loops, listeners, page>>

\* Atomics.notify, and what follows in publishExecutionOutput.
Notify == /\ ppc = "notify" /\ ppc' = "idle"
          /\ woken' = woken \cup waiting /\ waiting' = {}
          /\ drops' = Zero
          /\ UNCHANGED <<ring, wake, batch, collecting, blocks, made, port,
                         active, generation, listeners, page>>

\* Wrong variant: what was dropped is told to the next subscription.
SubscribeOnly(m) ==
    /\ collecting' = [collecting EXCEPT ![m.kind] = [on |-> m.on, id |-> m.id]]
    /\ UNCHANGED drops

\* setDelegateSubscription, setPrintSubscription
SetSubscription(m) ==
    /\ collecting' = [collecting EXCEPT ![m.kind] = [on |-> m.on, id |-> m.id]]
    /\ drops' = [drops EXCEPT ![m.kind] = 0]

TakeMessage == /\ ppc = "idle" /\ port # <<>>
               /\ SetSubscription(Head(port))
               /\ made' = [made EXCEPT ![Head(port).kind] = 0]
               /\ port' = Tail(port)
               /\ UNCHANGED <<ring, wake, ppc, batch, blocks, loops, listeners,
                              page>>

WorkletStep == \/ Publish({}) \/ WriteEntry \/ StoreWriteIndex \/ AddWake
               \/ Notify \/ TakeMessage
-----------------------------------------------------------------------------
(* The page: drainExecutionOutputRing and consumeExecutionOutput.          *)

\* Both loads, and the header of the slot; its storage is read in place.
TakeEntry ==
    /\ mpc = "drain" /\ ringRead # ringWrite /\ mpc' = "decode"
    /\ drain' = [drain EXCEPT !.at = ringRead,
                              !.entry = entries[ringRead % Slots]]
    /\ UNCHANGED <<ring, wake, worklet, port, loops, listeners, outer, posting,
                   finished, rewound, got, early>>

\* Only what was made for the present listeners is decoded.
Decode == /\ mpc = "decode" /\ mpc' = "deliver"
          /\ drain' = [drain EXCEPT
                !.todo = {k \in listening :
                    /\ drain.entry.of[k] = subscription[k]
                    /\ drain.entry.records[k] + drain.entry.drops[k] > 0},
                !.visiting = {}, !.late = {}]
          /\ UNCHANGED <<ring, wake, worklet, port, loops, listeners, outer,
                         posting, finished, rewound, got, early>>

\* deliverExecutionOutput: the listeners there are now are called, those of
\* one kind and of the other in the order in which the program made the
\* records.  notifyListeners goes through a Set that may change: a listener
\* that is added while it calls those of a kind is called with the same
\* records, before those of the other kind get theirs.
Deliver(k) ==
    /\ mpc = "deliver" /\ k \in drain.todo
    /\ drain.visiting \cap drain.todo # {} => k \in drain.visiting
    /\ drain' = [drain EXCEPT !.todo = @ \ {k}, !.visiting = {k}]
    /\ LET records == drain.entry.records[k] + drain.entry.drops[k]
       IN  IF k \in listening
           THEN /\ mpc' = "call"
                /\ got' = [got EXCEPT ![k] = @ + records]
                /\ early' = IF k \in drain.late
                            THEN [early EXCEPT ![k] = @ + records] ELSE early
           ELSE UNCHANGED <<mpc, got, early>>
    /\ UNCHANGED <<ring, wake, worklet, port, loops, listeners, outer, posting,
                   finished, rewound>>

ListenerReturns == /\ mpc = "call" /\ mpc' = "deliver"
                   /\ UNCHANGED <<ring, wake, worklet, port, loops, listeners,
                                  drain, outer, posting, finished, rewound,
                                  got, early>>

\* The finally of the drain: it stores what follows the index it has read,
\* although a drain within the call may have stored one that is further on.
FinishEntry ==
    /\ mpc = "deliver" /\ drain.todo = {} /\ mpc' = "drain"
    /\ ringRead' = (drain.at + 1) % Period
    /\ finished' = drain.entry.number
    /\ rewound' = (rewound \/ finished > drain.entry.number)
    /\ UNCHANGED <<entries, ringWrite, wake, worklet, port, loops, listeners,
                   drain, outer, posting, got, early>>

DrainStep == \/ TakeEntry \/ Decode \/ ListenerReturns \/ FinishEntry
             \/ \E k \in Kinds : Deliver(k)
-----------------------------------------------------------------------------
(* The loop that startExecutionOutputDrain starts.                         *)

\* The ring is empty: the start begins the loop, the loop goes on to wait.
EndDrain ==
    /\ mpc = "drain" /\ ringRead = ringWrite
    /\ IF drain.loop = Starting
       THEN /\ generation' = generation + 1
            /\ drain' = [drain EXCEPT !.loop = generation']
            /\ mpc' = "turn"
       ELSE mpc' = "arm" /\ UNCHANGED <<generation, drain>>
    /\ UNCHANGED <<ring, wake, worklet, port, active, waiting, woken,
                   listeners, outer, posting, finished, rewound, got, early>>

Ended == closed \/ drain.loop # generation

\* The wake word is read before the ring is drained.
Turn == /\ mpc = "turn"
        /\ IF Ended THEN mpc' = "return" /\ UNCHANGED drain
           ELSE mpc' = "drain" /\ drain' = [drain EXCEPT !.expected = wake]
        /\ UNCHANGED <<ring, wake, worklet, port, loops, listeners, outer,
                       posting, finished, rewound, got, early>>

\* Wrong variant: waiting for the next change, whatever has changed before.
ArmAnyway == /\ mpc' = "return"
             /\ waiting' = waiting \cup {drain.loop}

\* Atomics.waitAsync compares and begins to wait in one step.
WaitAsync == IF wake = drain.expected
             THEN mpc' = "return" /\ waiting' = waiting \cup {drain.loop}
             ELSE mpc' = "turn" /\ UNCHANGED waiting

Arm == /\ mpc = "arm"
       /\ IF Ended THEN mpc' = "return" /\ UNCHANGED waiting ELSE WaitAsync
       /\ UNCHANGED <<ring, wake, worklet, port, active, generation, woken,
                      listeners, drain, outer, posting, finished, rewound,
                      got, early>>

\* From the loop to onPrint or onDelegates, which posts its message and
\* returns to the listener that called it; or to the constructor's caller.
Return == /\ mpc = "return"
          /\ port' = port \o posting /\ posting' = <<>>
          /\ built' = TRUE
          /\ IF outer = <<>>
             THEN mpc' = "idle" /\ drain' = NoDrain /\ UNCHANGED outer
             ELSE mpc' = "call" /\ drain' = Head(outer) /\ outer' = <<>>
          /\ UNCHANGED <<ring, wake, worklet, loops, listening, subscription,
                         closed, finished, rewound, got, early>>

Resume(g) == /\ mpc = "idle" /\ g \in woken /\ mpc' = "turn"
             /\ woken' = woken \ {g}
             /\ drain' = [drain EXCEPT !.loop = g]
             /\ UNCHANGED <<ring, wake, worklet, port, active, generation,
                            waiting, listeners, outer, posting, finished,
                            rewound, got, early>>

LoopStep == EndDrain \/ Turn \/ Arm \/ Return \/ \E g \in woken : Resume(g)
-----------------------------------------------------------------------------
(* The program of the page, in a task of its own or in a listener's call.  *)

\* During its construction nobody has the processor.
Acting == mpc \in {"idle", "call"} /\ built

Message(k, on) == [kind |-> k, on |-> on, id |-> subscription[k]]

\* Wrong variant: what ends the loop is left to the next start.
StopDrainOnlyWakes == /\ active' = FALSE
                      /\ wake' = wake + 1
                      /\ woken' = woken \cup waiting /\ waiting' = {}
                      /\ UNCHANGED generation

\* stopExecutionOutputDrain
StopDrain == /\ active' = FALSE
             /\ generation' = generation + 1
             /\ wake' = wake + 1
             /\ woken' = woken \cup waiting /\ waiting' = {}

\* The drain within whose call a listener of k comes, if it has records of k
\* in its hands: it goes on to hand them to the new listener.
Joined(k) == IF k \in drain.todo \cup drain.visiting
             THEN [drain EXCEPT !.todo = @ \cup {k}, !.late = @ \cup {k}]
             ELSE drain

\* onPrint, onDelegates.  The listener is there before its subscription is
\* posted, and the start of the loop drains what is left for earlier ones.
Subscribe(k) ==
    /\ Acting /\ ~closed /\ k \notin listening
    /\ subscription["print"] + subscription["delegate"] < MaxSubscriptions
    /\ listening' = listening \cup {k}
    /\ subscription' = [subscription EXCEPT ![k] = @ + 1]
    /\ got' = [got EXCEPT ![k] = 0] /\ early' = [early EXCEPT ![k] = 0]
    /\ LET message == [Message(k, TRUE) EXCEPT !.id = @ + 1]
       IN  IF active
           THEN /\ port' = Append(port, message) /\ drain' = Joined(k)
                /\ UNCHANGED <<mpc, outer, posting, active>>
           ELSE /\ active' = TRUE
                /\ mpc' = "drain" /\ drain' = NoDrain
                /\ outer' = IF mpc = "call" THEN <<Joined(k)>> ELSE <<>>
                /\ posting' = <<message>>
                /\ UNCHANGED port
    /\ UNCHANGED <<ring, wake, worklet, generation, waiting, woken, closed,
                   built, finished, rewound>>

\* The function that onPrint or onDelegates has returned.
Unsubscribe(k) ==
    /\ Acting /\ k \in listening
    /\ listening' = listening \ {k}
    /\ port' = Append(port, Message(k, FALSE))
    /\ IF listening' = {} THEN StopDrain ELSE UNCHANGED <<loops, wake>>
    /\ UNCHANGED <<ring, worklet, subscription, closed, built, page>>

Farewell(k) == IF k \in listening THEN <<Message(k, FALSE)>> ELSE <<>>

\* close, by the program or for a processor error.
Close ==
    /\ Acting /\ ~closed
    /\ closed' = TRUE /\ listening' = {}
    /\ port' = (port \o Farewell("delegate")) \o Farewell("print")
    /\ IF active THEN StopDrain ELSE UNCHANGED <<loops, wake>>
    /\ UNCHANGED <<ring, worklet, subscription, built, page>>

WebNext == \/ \E some \in SUBSET Kinds : Publish(some)
           \/ WorkletStep \/ DrainStep \/ LoopStep
           \/ \E k \in Kinds : Subscribe(k) \/ Unsubscribe(k)
           \/ Close

\* The worklet goes on processing, listeners return, and the browser runs
\* the tasks of the page.
WebFairness == WF_webVars(WorkletStep) /\ WF_webVars(DrainStep \/ LoopStep)

WebSpec == WebInit /\ [][WebNext]_webVars /\ WebFairness
-----------------------------------------------------------------------------
Counts == [Kinds -> Nat]
Entries == [number : Nat, of : Counts, records : Counts, drops : Counts]
Drains == [loop : Nat, expected : Nat, at : 0 .. Period - 1, entry : Entries,
           todo : SUBSET Kinds, visiting : SUBSET Kinds, late : SUBSET Kinds]
Messages == [kind : Kinds, on : BOOLEAN, id : Nat]

WorkletOK ==
    /\ entries \in [0 .. Slots - 1 -> Entries]
    /\ ringRead \in 0 .. Period - 1 /\ ringWrite \in 0 .. Period - 1
    /\ ppc \in {"idle", "write", "store", "wake", "notify"}
    /\ batch \in Entries
    /\ collecting \in [Kinds -> [on : BOOLEAN, id : Nat]]
    /\ drops \in Counts /\ made \in Counts /\ blocks \in 0 .. MaxBlocks

LoopsOK ==
    /\ wake \in Nat /\ generation \in Nat
    /\ active \in BOOLEAN /\ waiting \subseteq Nat /\ woken \subseteq Nat

PageOK ==
    /\ mpc \in {"idle", "drain", "decode", "deliver", "call", "turn", "arm",
                "return"}
    /\ drain \in Drains /\ outer \in Seq(Drains)
    /\ port \in Seq(Messages) /\ posting \in Seq(Messages)
    /\ listening \subseteq Kinds /\ subscription \in Counts
    /\ closed \in BOOLEAN /\ built \in BOOLEAN
    /\ finished \in Nat /\ rewound \in BOOLEAN
    /\ got \in Counts /\ early \in Counts

WebTypeOK == WorkletOK /\ LoopsOK /\ PageOK

(***************************************************************************)
(* "Single-consumer drain": what the page decodes is the next entry, as    *)
(* the worklet wrote it, and the worklet does not touch its slot.  After a *)
(* listener has unsubscribed the last listeners and subscribed again in    *)
(* its call, there were two drains, and the outer one may have moved the   *)
(* read index back (rewound).                                              *)
(***************************************************************************)
EntriesAreIntact ==
    mpc = "decode" /\ ~rewound =>
        /\ drain.entry.number = finished + 1
        /\ drain.entry = entries[drain.at % Slots]
        /\ ppc = "write" => ringWrite % Slots # drain.at % Slots

\* The listeners of a kind are those the worklet collects for.
Current(k) == k \in listening /\ collecting[k].on
                              /\ collecting[k].id = subscription[k]

\* The indices of the entries in the ring.
InRing == {i \in 0 .. Period - 1 : Ahead(i) < Ahead(ringWrite)}

\* What the drain has handed over of the entry it is delivering.
Delivered(k, e) == /\ mpc \in {"deliver", "call"} /\ k \notin drain.todo
                   /\ e.number = drain.entry.number

\* Records and losses of an entry that the listeners of k have yet to get.
Left(k, e) == IF e.of[k] # subscription[k] \/ Delivered(k, e) THEN 0
              ELSE e.records[k] + e.drops[k]

\* Those of all entries in the ring, each a place in its entry.
Unread(k) ==
    Cardinality(UNION {{i} \X (1 .. Left(k, entries[i % Slots])) : i \in InRing})

\* What the worklet has yet to put into the ring.
Untold(k) == CASE ppc = "idle" -> drops[k]
               [] ppc \in {"write", "store"} -> drops[k] + batch.records[k]
               [] OTHER -> 0

(***************************************************************************)
(* "transportDropCount separately reports records discarded by the bounded *)
(* worklet-to-main queue": a listener gets, or is told of, every record    *)
(* that was made since the worklet has known of its subscription, once,    *)
(* however full the ring is.  Whatever else it gets breaks the account,    *)
(* with one exception: records of an earlier subscription that were being  *)
(* handed over when it came, in another listener's call or, the listener   *)
(* being removed and added again, its own.                                 *)
(***************************************************************************)
RecordsAreAccountedFor ==
    \A k \in Kinds : Current(k) /\ ~rewound
                        => made[k] + early[k] = got[k] + Unread(k) + Untold(k)

(***************************************************************************)
(* "Listeners added later with processor.onPrint(...) receive subsequent   *)
(* executions": none of those that came before.  A listener that comes in  *)
(* the middle of a delivery breaks it.                                     *)
(***************************************************************************)
LaterListenersGetLaterRecords == \A k \in Kinds : early[k] = 0

(***************************************************************************)
(* Between the tasks of the page one loop waits, or will be resumed, for   *)
(* as long as there are listeners, and no loop that startExecutionOutput-  *)
(* Drain has ever started is left waiting for a wake-up without them.      *)
(***************************************************************************)
OneLoopServes == mpc = "idle" =>
    /\ active <=> listening # {}
    /\ active => generation \in waiting \cup woken
    /\ waiting \subseteq IF active THEN {generation} ELSE {}

(***************************************************************************)
(* "Loss-only notifications are delivered even when no later authored      *)
(* print arrives": every record reaches the listeners or is reported to    *)
(* them, though no record follows it.  No wake-up is lost between a drain  *)
(* and the wait.                                                           *)
(***************************************************************************)
ListenersAreServed ==
    \A k \in Kinds :
        (Current(k) /\ made[k] + early[k] > got[k])
            ~> (~Current(k) \/ made[k] + early[k] = got[k] \/ rewound)
=============================================================================
