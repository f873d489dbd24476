------------------------- MODULE BufferWorkerProofs -------------------------
(***************************************************************************)
(* Proofs about BufferWorker, for every set of buffers, every capacity of  *)
(* the request queue, every batch and every number of commands.            *)
(***************************************************************************)
EXTENDS BufferWorker, SequenceTheorems, FiniteSetTheorems, TLAPS

\* The control channel holds commands in the order they were sent, all newer
\* than any that was handled.
ControlInv ==
    /\ \A i, j \in DOMAIN control : i < j => control[i] < control[j]
    /\ \A i \in DOMAIN control : \A b \in Buffers : newest[b] < control[i]

\* A bind on its way is the newest command of its buffer exactly when it
\* carries the buffer's present revision.
Tracked(f, cs, nw, rv) ==
    /\ f.id \in DOMAIN cs
    /\ cs[f.id].op = "bind"
    /\ f.id <= nw[cs[f.id].buffer]
    /\ f.revision <= rv[cs[f.id].buffer]
    /\ f.revision = rv[cs[f.id].buffer] <=> f.id = nw[cs[f.id].buffer]

RevisionInv ==
    /\ \A b \in Buffers : revisions[b] <= newest[b]
    /\ \A b \in Buffers : newest[b] # 0 => BufferOf(newest[b]) = b
    /\ \A i \in DOMAIN requests : Tracked(requests[i], cmds, newest, revisions)
    /\ \A i \in DOMAIN completed :
          Tracked(completed[i], cmds, newest, revisions)
    /\ wpc = "send" => Tracked(item, cmds, newest, revisions)

\* A bind is at one place of the pipeline at a time.
PipelineInv ==
    /\ \A i, j \in DOMAIN requests :
          i # j => requests[i].id # requests[j].id
    /\ \A i \in DOMAIN requests :
          /\ requests[i].id # item.id
          /\ \A k \in DOMAIN completed : requests[i].id # completed[k].id
    /\ \A k \in DOMAIN completed : completed[k].id # item.id
    /\ wpc # "send" => item = NoItem
    /\ wpc = "exited" => rpc = "exited"

\* While the handler is about a clear, that is the last command it sent, and
\* once it has found a result there is one.
ClearInv ==
    /\ hpc \in {"wait", "scanThenRespond", "respond"} =>
          cmds # <<>> /\ cmds[Len(cmds)].op = "clear"
    /\ hpc \in {"scanThenRespond", "respond"} => Received(Len(cmds)) # "none"

CoreInv == TypeOK /\ ControlInv /\ RevisionInv /\ PipelineInv /\ ClearInv
-----------------------------------------------------------------------------
\* A sequence with one more element.
LEMMA Appended ==
    ASSUME NEW S, NEW s \in Seq(S), NEW e \in S
    PROVE  /\ Append(s, e) \in Seq(S)
           /\ Len(Append(s, e)) = Len(s) + 1
           /\ DOMAIN Append(s, e) = DOMAIN s \cup {Len(s) + 1}
           /\ Len(s) + 1 \notin DOMAIN s
           /\ \A i \in DOMAIN s : Append(s, e)[i] = s[i]
           /\ Append(s, e)[Len(s) + 1] = e
BY SMT

\* A sequence without its first element.
LEMMA Shortened ==
    ASSUME NEW S, NEW s \in Seq(S), s # <<>>
    PROVE  /\ Tail(s) \in Seq(S)
           /\ Len(Tail(s)) = Len(s) - 1
           /\ 1 \in DOMAIN s /\ Head(s) = s[1] /\ Head(s) \in S
           /\ \A i \in DOMAIN Tail(s) :
                 i \in Nat \ {0} /\ i + 1 \in DOMAIN s /\ Tail(s)[i] = s[i + 1]
BY SMT

\* A sequence without its element at one place.
LEMMA Removed ==
    ASSUME NEW S, NEW s \in Seq(S), NEW i \in DOMAIN s
    PROVE  /\ RemoveIndex(s, i) \in Seq(S)
           /\ Len(RemoveIndex(s, i)) = Len(s) - 1
           /\ \A k \in DOMAIN RemoveIndex(s, i) :
                 IF k < i THEN k \in DOMAIN s /\ RemoveIndex(s, i)[k] = s[k]
                 ELSE k + 1 \in DOMAIN s /\ RemoveIndex(s, i)[k] = s[k + 1]
<1> DEFINE l == SubSeq(s, 1, i - 1)
           r == SubSeq(s, i + 1, Len(s))
<1>1. i \in 1 .. Len(s) /\ Len(s) \in Nat /\ \A k \in 1 .. Len(s) : s[k] \in S
  BY SMT
<1>2. /\ l \in Seq(S) /\ Len(l) = i - 1
      /\ \A k \in 1 .. i - 1 : l[k] = s[k]
  <2>1. i - 1 \in Int /\ \A k \in 1 .. i - 1 : s[k] \in S
    BY <1>1, SMT
  <2> QED
    BY <1>1, <2>1, SubSeqProperties, SMT
<1>3. /\ r \in Seq(S) /\ Len(r) = Len(s) - i
      /\ \A k \in 1 .. Len(s) - i : r[k] = s[k + i]
  <2>1. i + 1 \in Int /\ \A k \in i + 1 .. Len(s) : s[k] \in S
    BY <1>1, SMT
  <2> QED
    BY <1>1, <2>1, SubSeqProperties, SMT
<1> HIDE DEF l, r
<1>4. /\ l \o r \in Seq(S) /\ Len(l \o r) = Len(s) - 1
      /\ \A k \in 1 .. Len(s) - 1 :
            (l \o r)[k] = IF k <= i - 1 THEN l[k] ELSE r[k - (i - 1)]
  <2>1. /\ l \o r \in Seq(S) /\ Len(l \o r) = Len(l) + Len(r)
        /\ \A k \in 1 .. Len(l) + Len(r) :
              (l \o r)[k] = IF k <= Len(l) THEN l[k] ELSE r[k - Len(l)]
    BY <1>2, <1>3, ConcatProperties
  <2>2. Len(l) + Len(r) = Len(s) - 1
    BY <1>1, <1>2, <1>3, SMT
  <2> QED
    BY <1>2, <2>1, <2>2
<1>5. \A k \in 1 .. Len(s) - 1 :
         IF k < i THEN k \in 1 .. Len(s) /\ (l \o r)[k] = s[k]
         ELSE k + 1 \in 1 .. Len(s) /\ (l \o r)[k] = s[k + 1]
  <2> SUFFICES ASSUME NEW k \in 1 .. Len(s) - 1
               PROVE  IF k < i THEN k \in 1 .. Len(s) /\ (l \o r)[k] = s[k]
                      ELSE k + 1 \in 1 .. Len(s) /\ (l \o r)[k] = s[k + 1]
    OBVIOUS
  <2>1. CASE k < i
    BY <1>1, <1>2, <1>4, <2>1, SMT
  <2>2. CASE k >= i
    <3>1. k - (i - 1) \in 1 .. Len(s) - i /\ (k - (i - 1)) + i = k + 1
      BY <1>1, <2>2, SMT
    <3>2. (l \o r)[k] = r[k - (i - 1)] /\ ~(k <= i - 1) /\ k + 1 \in 1 .. Len(s)
      BY <1>1, <1>4, <2>2, SMT
    <3>3. r[k - (i - 1)] = s[k + 1]
      BY <1>3, <3>1
    <3>4. ~(k < i)
      BY <1>1, <2>2, SMT
    <3> QED
      BY <3>2, <3>3, <3>4, Zenon
  <2>3. k < i \/ k >= i
    BY <1>1, SMT
  <2> QED
    BY <2>1, <2>2, <2>3, Zenon
<1>6. RemoveIndex(s, i) = l \o r
  BY DEF RemoveIndex, l, r
<1>7. DOMAIN RemoveIndex(s, i) = 1 .. Len(s) - 1 /\ DOMAIN s = 1 .. Len(s)
  BY <1>1, <1>4, <1>6, SMT
<1> QED
  BY <1>4, <1>5, <1>6, <1>7, Zenon

\* Commands are only ever added.
Commands == [op : {"bind", "clear"}, buffer : Buffers]

\* No step forgets a command, or changes what it asked for.
LEMMA CommandsGrow ==
    ASSUME TypeOK, [Next]_vars
    PROVE  /\ DOMAIN cmds \subseteq DOMAIN cmds'
           /\ \A id \in DOMAIN cmds : cmds'[id] = cmds[id]
<1>1. CASE UNCHANGED cmds
  BY <1>1
<1>2. ASSUME NEW c \in Commands, cmds' = Append(cmds, c)
      PROVE  /\ DOMAIN cmds \subseteq DOMAIN cmds'
             /\ \A id \in DOMAIN cmds : cmds'[id] = cmds[id]
  BY <1>2, Appended DEF TypeOK, Commands
<1>3. ASSUME NEW b \in Buffers, ReadBind(b) \/ ReadClear(b)
      PROVE  \E c \in Commands : cmds' = Append(cmds, c)
  BY <1>3, Zenon DEF ReadBind, ReadClear, Commands
<1>4. UNCHANGED cmds \/ \E b \in Buffers : ReadBind(b) \/ ReadClear(b)
  <2>1. CASE HandlerStep
    BY <2>1, Zenon DEF HandlerStep, StartLoop, ScanStep, ScanEnd, ReadTimeout,
                       ClientLeaves, ClearAnswered, Respond
  <2>2. CASE RenderStep
    BY <2>2, Zenon DEF RenderStep, HandleBind, HandleClear, Commit, clientVars,
                NoMoreCommands, NothingLoaded, EndIteration
  <2>3. CASE LoaderStep
    BY <2>3, Zenon DEF LoaderStep, DropOne, AwaitRequest, TakeRequest, NoRequest,
                SendLoaded, SendFails, LoaderExits, clientVars
  <2> QED
    BY <2>1, <2>2, <2>3, Zenon DEF Next, Stop, vars, clientVars
<1> QED
  BY <1>1, <1>2, <1>3, <1>4
-----------------------------------------------------------------------------
\* Where every thread starts.
LEMMA CoreInit == Init => CoreInv
<1> SUFFICES ASSUME Init PROVE CoreInv
  OBVIOUS
<1> USE BufferWorkerAssumption DEF Init
<1>1. CommandsOK /\ HandlerOK /\ RenderOK
  BY SMT DEF CommandsOK, HandlerOK, RenderOK, Results
<1>2. LoaderOK
  BY SMT DEF LoaderOK, Items, NoItem
<1>3. QueuesOK
  BY SMT DEF QueuesOK, Items
<1>4. stopping \in BOOLEAN
  OBVIOUS
<1>5. ControlInv /\ RevisionInv /\ PipelineInv /\ ClearInv
  BY SMT DEF ControlInv, RevisionInv, PipelineInv, ClearInv
<1> QED
  BY <1>1, <1>2, <1>3, <1>4, <1>5 DEF CoreInv, TypeOK

\* A sequence over a set is one over any larger set.
LEMMA WiderSeq ==
    ASSUME NEW S, NEW T, S \subseteq T, NEW s \in Seq(S)
    PROVE  s \in Seq(T)
BY SMT

\* Commands are numbered by their place in the input.
LEMMA CommandNumbers ==
    ASSUME CommandsOK
    PROVE  /\ DOMAIN cmds = 1 .. Len(cmds) /\ Len(cmds) \in Nat
           /\ DOMAIN cmds \subseteq Ids /\ DOMAIN cmds \subseteq Nat \ {0}
           /\ \A id \in DOMAIN cmds :
                 BufferOf(id) \in Buffers /\ cmds[id].op \in {"bind", "clear"}
<1>1. \A id \in DOMAIN cmds : cmds[id] \in Commands
  <2>1. cmds \in Seq(Commands)
    BY DEF CommandsOK, Commands
  <2> QED
    BY <2>1, SMT
<1>2. \A id \in DOMAIN cmds :
         BufferOf(id) \in Buffers /\ cmds[id].op \in {"bind", "clear"}
  BY <1>1, SMT DEF Commands, BufferOf
<1> QED
  BY <1>2, BufferWorkerAssumption, SMT DEF CommandsOK, Ids

\* What a reply channel can hold.
LEMMA ReceivedTypes ==
    ASSUME TypeOK, NEW id \in DOMAIN cmds
    PROVE  Received(id) \in Results \cup {"none"}
BY CommandNumbers DEF TypeOK, QueuesOK, Received, Results

\* The steps of the handler that send nothing.
QuietStep == \/ StartLoop \/ ScanStep \/ ScanEnd \/ ReadTimeout
             \/ ClientLeaves \/ ClearAnswered \/ Respond

\* Those steps touch nothing the other threads see.
LEMMA QuietFrame ==
    ASSUME QuietStep
    PROVE  UNCHANGED <<cmds, control, answers, renderVars, loaderVars,
                       channelVars, freed, stopping>>
BY Zenon DEF QuietStep, StartLoop, ScanStep, ScanEnd, ReadTimeout,
             ClientLeaves, ClearAnswered, Respond

\* Those steps keep the types.
LEMMA QuietTypes ==
    ASSUME CoreInv, QuietStep
    PROVE  TypeOK'
<1> USE DEF CoreInv, TypeOK
<1>1. CommandsOK' /\ RenderOK' /\ LoaderOK' /\ QueuesOK' /\ stopping' \in BOOLEAN
  BY QuietFrame, Zenon DEF CommandsOK, RenderOK, LoaderOK, QueuesOK, renderVars,
                           loaderVars, channelVars
<1> SUFFICES HandlerOK'
  BY <1>1, Zenon
<1>2. CASE StartLoop \/ ReadTimeout \/ ClientLeaves \/ ClearAnswered
  <2>1. /\ hpc' \in {"done", "scan", "top", "scanThenRespond"}
        /\ UNCHANGED <<index, cmds>>
        /\ UNCHANGED pending \/ pending' = <<>>
        /\ UNCHANGED acks \/ acks' = <<>>
    BY <1>2, Zenon DEF StartLoop, ReadTimeout, ClientLeaves, ClearAnswered
  <2>2. pending' \in Seq(DOMAIN cmds') /\ acks' \in Seq((DOMAIN cmds') \X Results)
    <3>1. <<>> \in Seq(DOMAIN cmds) /\ <<>> \in Seq((DOMAIN cmds) \X Results)
      BY SMT
    <3> QED
      BY <2>1, <3>1, Zenon DEF HandlerOK
  <2> QED
    BY <2>1, <2>2, Zenon DEF HandlerOK
<1>5. CASE ScanEnd
  <2>1. /\ hpc' \in {"read", "respond"} /\ index' = 1
        /\ UNCHANGED <<cmds, pending, acks>>
    BY <1>5, Zenon DEF ScanEnd
  <2> QED
    BY <1>1, <2>1, SMT DEF HandlerOK
<1>3. CASE ScanStep
  <2>1. index \in DOMAIN pending /\ pending[index] \in DOMAIN cmds
    <3>1. index <= Len(pending)
      BY <1>3, Zenon DEF ScanStep
    <3> QED
      BY <3>1, SMT DEF HandlerOK
  <2>2. CASE index' = index + 1 /\ UNCHANGED <<pending, acks>>
    BY <1>3, <2>2, SMT DEF ScanStep, HandlerOK
  <2>3. CASE /\ Received(pending[index]) # "none"
             /\ pending' = RemoveIndex(pending, index)
             /\ acks' = Append(acks, <<pending[index], Received(pending[index])>>)
             /\ UNCHANGED index
    <3>0. UNCHANGED <<cmds, hpc>>
      BY <1>3, Zenon DEF ScanStep
    <3>1. pending' \in Seq(DOMAIN cmds)
      BY <2>1, <2>3, Removed DEF HandlerOK
    <3>2. <<pending[index], Received(pending[index])>> \in (DOMAIN cmds) \X Results
      BY <2>1, <2>3, ReceivedTypes
    <3>3. acks' \in Seq((DOMAIN cmds) \X Results)
      BY <2>3, <3>2, Appended DEF HandlerOK
    <3> QED
      BY <2>3, <3>0, <3>1, <3>3, Zenon DEF HandlerOK
  <2>4. \/ index' = index + 1 /\ UNCHANGED <<pending, acks>>
        \/ /\ Received(pending[index]) # "none"
           /\ pending' = RemoveIndex(pending, index)
           /\ acks' = Append(acks, <<pending[index], Received(pending[index])>>)
           /\ UNCHANGED index
    BY <1>3, Zenon DEF ScanStep
  <2> QED
    BY <1>1, <2>2, <2>3, <2>4
<1>4. CASE Respond
  <2>1. Len(cmds) \in DOMAIN cmds
    BY <1>4, SMT DEF Respond, ClearInv, CommandsOK
  <2>2. <<Len(cmds), Received(Len(cmds))>> \in (DOMAIN cmds) \X Results
    BY <1>4, <2>1, ReceivedTypes DEF Respond, ClearInv
  <2>3. acks' \in Seq((DOMAIN cmds) \X Results)
    BY <1>4, <2>2, Appended DEF HandlerOK, Respond
  <2> QED
    BY <1>1, <1>4, <2>3, Zenon DEF HandlerOK, Respond
<1> QED
  BY <1>1, <1>2, <1>5, <1>3, <1>4 DEF QuietStep

\* A step that sends a command: ReadBind or ReadClear.
Sends(c) ==
    /\ Len(cmds) < MaxCommands
    /\ cmds' = Append(cmds, c)
    /\ hpc = "read"
    /\ hpc' = IF c.op = "clear" THEN "wait" ELSE "top"
    /\ UNCHANGED control \/ control' = Append(control, Len(cmds) + 1)
    /\ \/ UNCHANGED pending
       \/ c.op = "bind" /\ pending' = Append(pending, Len(cmds) + 1)
    /\ UNCHANGED acks \/ acks' = Append(acks, <<Len(cmds) + 1, "error">>)
    /\ UNCHANGED <<index, answers, renderVars, loaderVars, channelVars, freed,
                   stopping>>

\* Either kind of request the handler reads sends one command.
LEMMA ReadSends ==
    ASSUME NEW b \in Buffers, ReadBind(b) \/ ReadClear(b)
    PROVE  \E c \in Commands : Sends(c)
<1> DEFINE c(op) == [op |-> op, buffer |-> b]
<1>0. "bind" # "clear"
  BY SMT
<1>1. c("bind") \in Commands /\ c("clear") \in Commands
  BY DEF Commands
<1>2. CASE ReadBind(b)
  <2>1. Sends(c("bind"))
    BY <1>0, <1>2, Zenon DEF ReadBind, Sends
  <2> QED
    BY <1>1, <2>1
<1>3. CASE ReadClear(b)
  <2>1. Sends(c("clear"))
    BY <1>3, Zenon DEF ReadClear, Sends
  <2> QED
    BY <1>1, <2>1
<1> QED
  BY <1>2, <1>3

\* What a new command leaves as it was.
LEMMA SentCommand ==
    ASSUME CommandsOK, NEW c \in Commands, Sends(c)
    PROVE  /\ CommandsOK'
           /\ DOMAIN cmds \subseteq DOMAIN cmds'
           /\ Len(cmds') = Len(cmds) + 1
           /\ Len(cmds) + 1 \in DOMAIN cmds' /\ cmds'[Len(cmds) + 1] = c
           /\ \A id \in DOMAIN cmds : cmds'[id] = cmds[id]
<1>1. cmds \in Seq(Commands) /\ cmds' = Append(cmds, c) /\ Len(cmds) < MaxCommands
  BY Zenon DEF CommandsOK, Commands, Sends
<1>2. /\ cmds' \in Seq(Commands) /\ Len(cmds') = Len(cmds) + 1
      /\ DOMAIN cmds' = DOMAIN cmds \cup {Len(cmds) + 1}
      /\ \A id \in DOMAIN cmds : cmds'[id] = cmds[id]
      /\ cmds'[Len(cmds) + 1] = c
  BY <1>1, Appended
<1>3. Len(cmds') <= MaxCommands
  BY <1>1, <1>2, BufferWorkerAssumption, SMT
<1> QED
  BY <1>2, <1>3 DEF CommandsOK, Commands

\* Sending a command keeps the types.
LEMMA SendTypes ==
    ASSUME TypeOK, NEW c \in Commands, Sends(c)
    PROVE  TypeOK'
<1> DEFINE D == DOMAIN cmds
           E == DOMAIN cmds'
           id == Len(cmds) + 1
<1>1. D \subseteq E /\ id \in E /\ CommandsOK'
  BY SentCommand DEF TypeOK
<1>2. HandlerOK'
  <2>1. pending \in Seq(E) /\ acks \in Seq(E \X Results)
    <3>1. D \X Results \subseteq E \X Results
      BY <1>1
    <3> QED
      BY <1>1, <3>1, WiderSeq DEF TypeOK, HandlerOK
  <2>2. pending' \in Seq(E)
    <3>1. Append(pending, id) \in Seq(E)
      BY <1>1, <2>1, Appended
    <3> QED
      BY <2>1, <3>1, Zenon DEF Sends
  <2>3. acks' \in Seq(E \X Results)
    <3>1. <<id, "error">> \in E \X Results
      BY <1>1 DEF Results
    <3>2. Append(acks, <<id, "error">>) \in Seq(E \X Results)
      BY <2>1, <3>1, Appended
    <3> QED
      BY <2>1, <3>2, Zenon DEF Sends
  <2> QED
    <3>1. hpc' \in {"top", "wait"}
      BY Zenon DEF Sends
    <3> QED
      BY <2>2, <2>3, <3>1, Zenon DEF HandlerOK, Sends, TypeOK
<1>3. RenderOK'
  <2>1. UNCHANGED renderVars
    BY DEF Sends
  <2>2. \A b \in Buffers : bound[b] \in {0} \cup E /\ newest[b] \in {0} \cup E
    BY <1>1 DEF TypeOK, RenderOK
  <2>3. bound \in [Buffers -> {0} \cup E] /\ newest \in [Buffers -> {0} \cup E]
    BY <2>2, Zenon DEF TypeOK, RenderOK
  <2> QED
    BY <1>1, <2>1, <2>3, Zenon DEF TypeOK, RenderOK, renderVars
<1>4. QueuesOK'
  <2>1. control' \in Seq(E)
    <3>1. control \in Seq(E)
      BY <1>1, WiderSeq DEF TypeOK, QueuesOK
    <3>2. Append(control, id) \in Seq(E)
      BY <1>1, <3>1, Appended
    <3> QED
      BY <3>1, <3>2, Zenon DEF Sends
  <2>2. requests \in Seq([id : E, revision : 1 .. MaxCommands])
    <3>1. [id : D, revision : 1 .. MaxCommands]
            \subseteq [id : E, revision : 1 .. MaxCommands]
      BY <1>1, Zenon
    <3> QED
      BY <3>1, WiderSeq DEF TypeOK, QueuesOK
  <2>3. reclaim \in Seq([storage : {0} \cup E, refs : SUBSET Ids])
    <3>1. [storage : {0} \cup D, refs : SUBSET Ids]
            \subseteq [storage : {0} \cup E, refs : SUBSET Ids]
      BY <1>1, Zenon
    <3> QED
      BY <3>1, WiderSeq DEF TypeOK, QueuesOK
  <2> QED
    BY <1>1, <2>1, <2>2, <2>3, Zenon DEF TypeOK, QueuesOK, Sends, channelVars
<1>5. LoaderOK' /\ stopping' \in BOOLEAN
  BY Zenon DEF TypeOK, LoaderOK, Sends, loaderVars
<1> QED
  BY <1>1, <1>2, <1>3, <1>4, <1>5 DEF TypeOK

-----------------------------------------------------------------------------
\* What reclaim holds once storage, with or without the instance that refers
\* to it, has been sent there.
Reclaimables == [storage : {0} \cup DOMAIN cmds, refs : SUBSET Ids]
OldInstance == [storage |-> 0, refs |-> instance]
StorageItem(id) == [storage |-> id, refs |-> {}]

\* Retired appends the instance and, unless the buffer had none, its storage.
LEMMA RetiredIsAppended ==
    ASSUME NEW S, NEW rec \in Seq(S), NEW id,
           OldInstance \in S, id # 0 => StorageItem(id) \in S
    PROVE  /\ rec \o Storage(id) = IF id = 0 THEN rec
                                   ELSE Append(rec, StorageItem(id))
           /\ rec \o Retired(instance, id) =
                 IF id = 0 THEN Append(rec, OldInstance)
                 ELSE Append(Append(rec, OldInstance), StorageItem(id))
<1>1. CASE id = 0
  <2>1. Storage(id) = <<>>
    BY <1>1 DEF Storage
  <2>2. rec \o <<>> = rec /\ <<OldInstance>> \o <<>> = <<OldInstance>>
    BY SMT
  <2>3. rec \o <<OldInstance>> = Append(rec, OldInstance)
    BY AppendIsConcat
  <2> QED
    BY <1>1, <2>1, <2>2, <2>3, Zenon DEF Retired, OldInstance
<1>2. CASE id # 0
  <2> DEFINE o == OldInstance
             e == StorageItem(id)
  <2>1. Storage(id) = <<e>>
    BY <1>2 DEF Storage, StorageItem
  <2>2. Append(rec, o) \in Seq(S) /\ Append(rec, o) = rec \o <<o>>
    BY AppendIsConcat, Appended
  <2>3. Append(Append(rec, o), e) = (rec \o <<o>>) \o <<e>>
    BY <1>2, <2>2, AppendIsConcat
  <2>4. <<o>> \in Seq(S) /\ <<e>> \in Seq(S)
    BY <1>2, SMT
  <2>5. (rec \o <<o>>) \o <<e>> = rec \o (<<o>> \o <<e>>)
    BY <2>4, ConcatAssociative
  <2>6. rec \o <<e>> = Append(rec, e)
    BY <1>2, AppendIsConcat
  <2> QED
    BY <1>2, <2>1, <2>3, <2>5, <2>6, Zenon DEF Retired, OldInstance
<1> QED
  BY <1>1, <1>2

\* What is sent there is well typed.
LEMMA ReclaimTypes ==
    ASSUME TypeOK, NEW id \in {0} \cup DOMAIN cmds
    PROVE  /\ OldInstance \in Reclaimables
           /\ StorageItem(id) \in Reclaimables
           /\ reclaim \in Seq(Reclaimables)
           /\ reclaim \o Storage(id) \in Seq(Reclaimables)
           /\ reclaim \o Retired(instance, id) \in Seq(Reclaimables)
<1>1. OldInstance \in Reclaimables /\ StorageItem(id) \in Reclaimables
  <2>1. instance \in SUBSET Ids /\ {} \in SUBSET Ids
    BY CommandNumbers DEF TypeOK, RenderOK
  <2> QED
    BY <2>1, Zenon DEF Reclaimables, OldInstance, StorageItem
<1>2. reclaim \in Seq(Reclaimables)
  BY DEF TypeOK, QueuesOK, Reclaimables
<1>3. /\ Append(reclaim, OldInstance) \in Seq(Reclaimables)
      /\ Append(reclaim, StorageItem(id)) \in Seq(Reclaimables)
  BY <1>1, <1>2, Appended
<1>4. Append(Append(reclaim, OldInstance), StorageItem(id)) \in Seq(Reclaimables)
  BY <1>1, <1>3, Appended
<1>5. /\ reclaim \o Storage(id) =
            IF id = 0 THEN reclaim ELSE Append(reclaim, StorageItem(id))
      /\ reclaim \o Retired(instance, id) =
            IF id = 0 THEN Append(reclaim, OldInstance)
            ELSE Append(Append(reclaim, OldInstance), StorageItem(id))
  BY <1>1, <1>2, RetiredIsAppended
<1> QED
  BY <1>1, <1>2, <1>3, <1>4, <1>5, Zenon

\* The command at the head of the channel, newer than any for its buffer.
LEMMA TakenCommand ==
    ASSUME CoreInv, NEW op, TakeCommand(op)
    PROVE  /\ Head(control) \in DOMAIN cmds
           /\ Head(control) = control[1] /\ 1 \in DOMAIN control
           /\ cmds[Head(control)].op = op
           /\ BufferOf(Head(control)) \in Buffers
           /\ newest[BufferOf(Head(control))] < Head(control)
           /\ control' \in Seq(DOMAIN cmds)
           /\ handled' \in 0 .. Batch
           /\ newest' \in [Buffers -> {0} \cup DOMAIN cmds]
           /\ \A c \in Buffers : newest'[c] =
                 IF c = BufferOf(Head(control)) THEN Head(control) ELSE newest[c]
<1>1. control \in Seq(DOMAIN cmds) /\ control # <<>> /\ control' = Tail(control)
  BY Zenon DEF CoreInv, TypeOK, QueuesOK, TakeCommand
<1>2. /\ Head(control) \in DOMAIN cmds /\ control' \in Seq(DOMAIN cmds)
      /\ Head(control) = control[1] /\ 1 \in DOMAIN control
  BY <1>1, Shortened
<1>3. BufferOf(Head(control)) \in Buffers
  BY <1>2, CommandNumbers DEF CoreInv, TypeOK
<1>4. newest[BufferOf(Head(control))] < Head(control)
  BY <1>2, <1>3 DEF CoreInv, ControlInv
<1>5. handled' \in 0 .. Batch
  <2>1. handled \in 0 .. Batch /\ handled < Batch /\ handled' = handled + 1
    BY Zenon DEF CoreInv, TypeOK, RenderOK, TakeCommand
  <2> QED
    BY <2>1, BufferWorkerAssumption, SMT
<1>6. /\ newest \in [Buffers -> {0} \cup DOMAIN cmds]
      /\ newest' = [newest EXCEPT ![BufferOf(Head(control))] = Head(control)]
  BY Zenon DEF CoreInv, TypeOK, RenderOK, TakeCommand
<1>7. cmds[Head(control)].op = op
  BY DEF TakeCommand
<1> QED
  BY <1>2, <1>3, <1>4, <1>5, <1>6, <1>7, Zenon

\* Its buffer's revision is a new one, not larger than its number.
LEMMA NewRevision ==
    ASSUME CoreInv, NEW op, TakeCommand(op), Invalidate(BufferOf(Head(control)))
    PROVE  LET b == BufferOf(Head(control))
           IN  /\ revisions' \in [Buffers -> 0 .. MaxCommands]
               /\ revisions'[b] = revisions[b] + 1
               /\ revisions'[b] \in 1 .. MaxCommands
               /\ revisions'[b] <= Head(control)
               /\ \A c \in Buffers \ {b} : revisions'[c] = revisions[c]
<1> DEFINE b == BufferOf(Head(control))
           id == Head(control)
<1>1. id \in DOMAIN cmds /\ b \in Buffers /\ newest[b] < id
  BY TakenCommand
<1>2. /\ revisions \in [Buffers -> 0 .. MaxCommands]
      /\ revisions' = [revisions EXCEPT ![b] = @ + 1]
  BY Zenon DEF CoreInv, TypeOK, RenderOK, Invalidate
<1>3. revisions[b] \in Nat /\ newest[b] \in Nat /\ id \in Nat /\ id <= MaxCommands
  <2>1. newest[b] \in {0} \cup DOMAIN cmds
    BY <1>1 DEF CoreInv, TypeOK, RenderOK
  <2>2. DOMAIN cmds \subseteq 1 .. MaxCommands
    BY CommandNumbers DEF CoreInv, TypeOK, Ids
  <2>3. revisions[b] \in 0 .. MaxCommands
    BY <1>1, <1>2
  <2> HIDE DEF b, id
  <2> QED
    BY <1>1, <2>1, <2>2, <2>3, BufferWorkerAssumption, SMT
<1>4. revisions[b] <= newest[b]
  BY <1>1 DEF CoreInv, RevisionInv
<1>5. revisions'[b] = revisions[b] + 1 /\ \A c \in Buffers \ {b} : revisions'[c] = revisions[c]
  BY <1>1, <1>2, Zenon
<1>6. revisions[b] + 1 \in 1 .. MaxCommands /\ revisions[b] + 1 <= id
  <2> HIDE DEF b, id
  <2> QED
    BY <1>1, <1>3, <1>4, BufferWorkerAssumption, SMT
<1>7. revisions[b] + 1 \in 0 .. MaxCommands
  <2> HIDE DEF b, id
  <2> QED
    BY <1>6, BufferWorkerAssumption, SMT
<1>8. revisions' \in [Buffers -> 0 .. MaxCommands]
  BY <1>2, <1>7, Zenon
<1> QED
  BY <1>5, <1>6, <1>8, Zenon

\* replace_prepared_buffer binds a command's storage, or none.
LEMMA ReplacedTypes ==
    ASSUME TypeOK, NEW b \in Buffers, NEW id \in {0} \cup DOMAIN cmds,
           Replace(b, id)
    PROVE  /\ bound' \in [Buffers -> {0} \cup DOMAIN cmds]
           /\ instance' \subseteq DOMAIN cmds
           /\ \A c \in Buffers : bound'[c] = IF c = b THEN id ELSE bound[c]
           /\ instance' = {bound'[c] : c \in Buffers} \ {0}
<1>1. /\ bound \in [Buffers -> {0} \cup DOMAIN cmds]
      /\ bound' = [bound EXCEPT ![b] = id]
      /\ instance' = {bound'[c] : c \in Buffers} \ {0}
  BY DEF Replace, TypeOK, RenderOK
<1>2. /\ bound' \in [Buffers -> {0} \cup DOMAIN cmds]
      /\ \A c \in Buffers : bound'[c] = IF c = b THEN id ELSE bound[c]
  BY <1>1, Zenon
<1>3. instance' \subseteq DOMAIN cmds
  BY <1>1, <1>2, SMT
<1> QED
  BY <1>1, <1>2, <1>3

\* What the completion slot holds is a bind that was sent.
LEMMA LoadedTypes ==
    ASSUME CoreInv, completed # <<>>
    PROVE  /\ Head(completed) = completed[1] /\ DOMAIN completed = {1}
           /\ Head(completed).id \in DOMAIN cmds
           /\ BufferOf(Head(completed).id) \in Buffers
           /\ Head(completed).ok \in BOOLEAN
           /\ Tail(completed) = <<>>
<1>1. completed \in Seq(Items) /\ Len(completed) <= 1
  BY Zenon DEF CoreInv, TypeOK, QueuesOK
<1>2. /\ Head(completed) = completed[1] /\ Head(completed) \in Items
      /\ 1 \in DOMAIN completed
      /\ Tail(completed) \in Seq(Items) /\ Len(Tail(completed)) = Len(completed) - 1
  BY <1>1, Shortened
<1>7. DOMAIN completed = {1} /\ Len(completed) = 1
  BY <1>1, <1>2, SMT
<1>3. Tail(completed) = <<>>
  <2> DEFINE t == Tail(completed)
  <2>1. t \in Seq(Items) /\ Len(t) = 0
    BY <1>2, <1>7, SMT
  <2> HIDE DEF t
  <2>2. t # <<>> => Len(t) \in Nat \ {0}
    BY <2>1, EmptySeq
  <2>3. Len(t) \notin Nat \ {0}
    BY <2>1, SMT
  <2> QED
    BY <2>2, <2>3 DEF t
<1>4. Head(completed).id \in DOMAIN cmds
  BY <1>2, Zenon DEF CoreInv, RevisionInv, Tracked
<1>5. BufferOf(Head(completed).id) \in Buffers
  BY <1>4, CommandNumbers DEF CoreInv, TypeOK
<1>6. Head(completed).ok \in BOOLEAN
  BY <1>2, Zenon DEF Items
<1> QED
  BY <1>2, <1>3, <1>4, <1>5, <1>6, <1>7, Zenon

\* An answer given to a command that was sent is one of the results.
LEMMA AnswerTypes ==
    ASSUME TypeOK, NEW id, NEW r \in Results,
           answers' = [answers EXCEPT ![id] = r] \/ UNCHANGED answers
    PROVE  answers' \in [Ids -> Results \cup {"none"}]
BY Zenon DEF TypeOK, QueuesOK

\* The steps of the render thread keep the types.
LEMMA RenderTypes ==
    ASSUME CoreInv, RenderStep
    PROVE  TypeOK'
<1> USE DEF CoreInv, TypeOK
<1> USE DEF clientVars, handlerVars, loaderVars, channelVars
<1>1. CommandsOK' /\ HandlerOK' /\ LoaderOK' /\ stopping' \in BOOLEAN
      /\ UNCHANGED cmds
  BY ZenonT(60) DEF RenderStep, HandleBind, HandleClear, Commit, NoMoreCommands,
        NothingLoaded, EndIteration, CommandsOK, HandlerOK, LoaderOK
<1> SUFFICES RenderOK' /\ QueuesOK'
  BY <1>1, Zenon
<1>2. CASE HandleBind
  <2>1. TakeCommand("bind") /\ Invalidate(BufferOf(Head(control)))
    BY <1>2, Zenon DEF HandleBind
  <2>2. RenderOK'
    BY <1>1, <1>2, <2>1, TakenCommand, NewRevision, Zenon DEF RenderOK, HandleBind
  <2>3. answers' \in [Ids -> Results \cup {"none"}]
    BY <1>2, AnswerTypes, Zenon DEF HandleBind, Results
  <2>4. requests' \in Seq([id : DOMAIN cmds, revision : 1 .. MaxCommands])
        /\ Len(requests') <= LoadQueue
    <3> DEFINE R == [id : DOMAIN cmds, revision : 1 .. MaxCommands]
               e == [id |-> Head(control),
                     revision |-> revisions'[BufferOf(Head(control))]]
    <3>1. e \in R
      BY <2>1, TakenCommand, NewRevision, Zenon
    <3>2. requests \in Seq(R) /\ Len(requests) <= LoadQueue
      BY Zenon DEF QueuesOK
    <3>3. CASE Len(requests) < LoadQueue /\ requests' = Append(requests, e)
      <4>1. requests' \in Seq(R) /\ Len(requests') = Len(requests) + 1
        BY <3>1, <3>2, <3>3, Appended, Zenon
      <4>2. Len(requests) \in Nat
        BY <3>2, SMT
      <4> HIDE DEF e
      <4>3. Len(requests') <= LoadQueue
        BY <3>3, <4>1, <4>2, BufferWorkerAssumption, SMT
      <4> QED
        BY <4>1, <4>3
    <3>4. CASE UNCHANGED requests
      BY <3>2, <3>4, Zenon
    <3> QED
      BY <1>2, <3>3, <3>4, Zenon DEF HandleBind
  <2> QED
    BY <1>1, <1>2, <2>1, <2>2, <2>3, <2>4, TakenCommand, Zenon DEF QueuesOK, HandleBind
<1>3. ASSUME NEW built \in BOOLEAN, NEW published \in BOOLEAN,
             HandleClear(built, published)
      PROVE  RenderOK' /\ QueuesOK'
  <2> DEFINE b == BufferOf(Head(control))
  <2>1. TakeCommand("clear") /\ Invalidate(b)
    BY <1>3, Zenon DEF HandleClear
  <2>2. b \in Buffers /\ bound[b] \in {0} \cup DOMAIN cmds
    BY <2>1, TakenCommand DEF RenderOK
  <2>3. \/ Replace(b, 0) /\ reclaim' = reclaim \o Retired(instance, bound[b])
        \/ UNCHANGED <<bound, instance, reclaim>>
    BY <1>3, Zenon DEF HandleClear
  <2>4. bound' \in [Buffers -> {0} \cup DOMAIN cmds] /\ instance' \subseteq DOMAIN cmds
    BY <2>2, <2>3, ReplacedTypes, Zenon DEF RenderOK
  <2>5. reclaim' \in Seq(Reclaimables)
    BY <2>2, <2>3, ReclaimTypes, Zenon
  <2>6. answers' \in [Ids -> Results \cup {"none"}]
    BY <1>3, AnswerTypes, Zenon DEF HandleClear, Results
  <2>7. RenderOK'
    BY <1>1, <1>3, <2>1, <2>4, TakenCommand, NewRevision, Zenon DEF RenderOK, HandleClear
  <2> QED
    BY <1>1, <1>3, <2>1, <2>5, <2>6, <2>7, TakenCommand, Zenon DEF QueuesOK, HandleClear, Reclaimables
<1>4. ASSUME NEW built \in BOOLEAN, NEW published \in BOOLEAN,
             Commit(built, published)
      PROVE  RenderOK' /\ QueuesOK'
  <2> DEFINE loaded == Head(completed)
             b == BufferOf(loaded.id)
  <2>1. /\ loaded.id \in DOMAIN cmds /\ b \in Buffers
        /\ bound[b] \in {0} \cup DOMAIN cmds /\ completed' = <<>>
    BY <1>4, LoadedTypes, Zenon DEF Commit, RenderOK
  <2>2. \/ Replace(b, loaded.id) /\ reclaim' = reclaim \o Retired(instance, bound[b])
        \/ /\ UNCHANGED <<bound, instance>>
           /\ reclaim' = reclaim \o Storage(loaded.id) \/ reclaim' = reclaim \o Storage(0)
    BY <1>4, Zenon DEF Commit
  <2>3. bound' \in [Buffers -> {0} \cup DOMAIN cmds] /\ instance' \subseteq DOMAIN cmds
    BY <2>1, <2>2, ReplacedTypes, Zenon DEF RenderOK
  <2>4. reclaim' \in Seq(Reclaimables)
    BY <2>1, <2>2, ReclaimTypes, Zenon
  <2>5. answers' \in [Ids -> Results \cup {"none"}]
    BY <1>4, AnswerTypes, Zenon DEF Commit, Results
  <2>6. RenderOK'
    BY <1>1, <1>4, <2>3, Zenon DEF RenderOK, Commit
  <2>7. completed' \in Seq(Items) /\ Len(completed') <= 1
    <3>1. <<>> \in Seq(Items) /\ Len(<<>>) <= 1
      BY SMT
    <3> QED
      BY <2>1, <3>1, Zenon
  <2> QED
    BY <1>1, <1>4, <2>4, <2>5, <2>6, <2>7, Zenon DEF QueuesOK, Commit, Reclaimables
<1>5. CASE NoMoreCommands \/ NothingLoaded
  BY <1>5, Zenon DEF NoMoreCommands, NothingLoaded, RenderOK, QueuesOK
<1>6. CASE EndIteration
  <2>1. 0 \in 0 .. Batch
    BY BufferWorkerAssumption, SMT
  <2>2. RenderOK'
    BY <1>6, <2>1, Zenon DEF RenderOK, EndIteration
  <2>3. <<>> \in Seq(DOMAIN cmds) /\ <<>> \in Seq(Items) /\ Len(<<>>) <= 1
    BY SMT
  <2>4. freed' \subseteq DOMAIN cmds
    <3>1. \A i \in DOMAIN completed : completed[i].id \in DOMAIN cmds
      BY Zenon DEF RevisionInv, Tracked
    <3>2. \/ UNCHANGED freed
          \/ freed' = freed \cup {completed[i].id :
                         i \in {k \in DOMAIN completed : completed[k].ok}}
      BY <1>6, Zenon DEF EndIteration
    <3>3. freed \subseteq DOMAIN cmds
      BY DEF QueuesOK
    <3> QED
      BY <3>1, <3>2, <3>3
  <2> QED
    BY <1>1, <1>6, <2>2, <2>3, <2>4, Zenon DEF QueuesOK, EndIteration
<1> QED
  BY <1>2, <1>3, <1>4, <1>5, <1>6 DEF RenderStep

\* The request the loader takes next.
Requests == [id : DOMAIN cmds, revision : 1 .. MaxCommands]

\* The loader takes a request whose command was sent.
LEMMA TakenRequest ==
    ASSUME TypeOK, requests # <<>>
    PROVE  /\ 1 \in DOMAIN requests /\ Head(requests) = requests[1]
           /\ Head(requests) \in Requests
           /\ Tail(requests) \in Seq(Requests)
           /\ Len(Tail(requests)) <= LoadQueue
           /\ \A i \in DOMAIN Tail(requests) :
                 i \in Nat \ {0} /\ i + 1 \in DOMAIN requests
                 /\ Tail(requests)[i] = requests[i + 1]
<1>1. requests \in Seq(Requests) /\ Len(requests) <= LoadQueue
  BY DEF TypeOK, QueuesOK, Requests
<1>2. Len(requests) \in Nat
  BY <1>1, SMT
<1>3. Len(Tail(requests)) = Len(requests) - 1
  BY <1>1, Shortened
<1>4. Len(Tail(requests)) <= LoadQueue
  BY <1>1, <1>2, <1>3, BufferWorkerAssumption, SMT
<1> QED
  BY <1>1, <1>4, Shortened

\* The steps of the loader keep the types.
LEMMA LoaderTypes ==
    ASSUME CoreInv, LoaderStep
    PROVE  TypeOK'
<1> USE DEF CoreInv, TypeOK
<1> USE DEF clientVars, handlerVars, renderVars, channelVars
<1>1. CommandsOK' /\ HandlerOK' /\ RenderOK' /\ stopping' \in BOOLEAN
      /\ UNCHANGED <<cmds, control, answers>>
  BY Zenon DEF LoaderStep, DropOne, AwaitRequest, TakeRequest, NoRequest,
       SendLoaded, SendFails, LoaderExits, CommandsOK, HandlerOK, RenderOK
<1> SUFFICES LoaderOK' /\ QueuesOK'
  BY <1>1, Zenon
<1>2. DOMAIN cmds \subseteq 0 .. MaxCommands /\ 0 \in 0 .. MaxCommands
      /\ DOMAIN cmds \subseteq Nat \ {0}
      /\ \A r \in 1 .. MaxCommands : r \in 0 .. MaxCommands
  BY CommandNumbers, BufferWorkerAssumption, SMT DEF Ids
<1>3. NoItem \in Items
  BY <1>2, Zenon DEF NoItem, Items
<1>4. CASE DropOne
  <2>1. reclaim \in Seq(Reclaimables) /\ reclaim # <<>>
    BY <1>4, Zenon DEF DropOne, QueuesOK, Reclaimables
  <2>2. Tail(reclaim) \in Seq(Reclaimables) /\ Head(reclaim) \in Reclaimables
    BY <2>1, Shortened
  <2>3. Head(reclaim).storage \in {0} \cup DOMAIN cmds
    BY <2>2 DEF Reclaimables
  <2>4. freed' \subseteq DOMAIN cmds
    <3>1. freed' = freed \cup ({Head(reclaim).storage} \ {0}) /\ freed \subseteq DOMAIN cmds
      BY <1>4, Zenon DEF DropOne, QueuesOK
    <3> QED
      BY <2>3, <3>1, Zenon
  <2> QED
    BY <1>1, <1>4, <2>2, <2>4, Zenon
       DEF DropOne, QueuesOK, LoaderOK, loaderVars, Reclaimables
<1>5. CASE AwaitRequest \/ NoRequest
  BY <1>5, Zenon DEF AwaitRequest, NoRequest, QueuesOK, LoaderOK
<1>6. ASSUME NEW ok \in BOOLEAN, TakeRequest(ok)
      PROVE  LoaderOK' /\ QueuesOK'
  <2>1. Head(requests).id \in DOMAIN cmds /\ Head(requests).revision \in 1 .. MaxCommands
    BY <1>6, TakenRequest DEF TakeRequest, Requests
  <2>2. Head(requests).id \in 0 .. MaxCommands /\ Head(requests).revision \in 0 .. MaxCommands
    BY <1>2, <2>1
  <2>3. item' \in Items
    BY <1>6, <2>2, Zenon DEF TakeRequest, Items
  <2>4. requests' \in Seq(Requests) /\ Len(requests') <= LoadQueue
    BY <1>6, TakenRequest, Zenon DEF TakeRequest
  <2> QED
    BY <1>1, <1>6, <2>3, <2>4, Zenon DEF TakeRequest, QueuesOK, LoaderOK, Requests
<1>7. CASE SendLoaded
  <2>1. <<item>> \in Seq(Items) /\ Len(<<item>>) <= 1
    BY SMT DEF LoaderOK
  <2> QED
    BY <1>1, <1>3, <1>7, <2>1, Zenon DEF SendLoaded, QueuesOK, LoaderOK
<1>8. ASSUME NEW dropped \in SUBSET DOMAIN cmds, ExitLoader(dropped),
             UNCHANGED completed, item' = NoItem \/ UNCHANGED item
      PROVE  LoaderOK' /\ QueuesOK'
  <2>1. \A i \in DOMAIN reclaim : reclaim[i].storage \in {0} \cup DOMAIN cmds
    <3>1. reclaim \in Seq(Reclaimables)
      BY Zenon DEF QueuesOK, Reclaimables
    <3>2. \A i \in DOMAIN reclaim : reclaim[i] \in Reclaimables
      BY <3>1, SMT
    <3> QED
      BY <3>2 DEF Reclaimables
  <2>2. freed' \subseteq DOMAIN cmds
    <3>1. freed \subseteq DOMAIN cmds
      BY DEF QueuesOK
    <3> QED
      BY <1>8, <2>1, <3>1 DEF ExitLoader, Reclaimed
  <2>3. <<>> \in Seq(Requests) /\ <<>> \in Seq(Reclaimables) /\ Len(<<>>) <= LoadQueue
    BY BufferWorkerAssumption, SMT
  <2> QED
    BY <1>1, <1>3, <1>8, <2>2, <2>3, Zenon
       DEF ExitLoader, QueuesOK, LoaderOK, Requests, Reclaimables
<1>9. CASE SendFails
  <2>1. item.ok => item.id \in DOMAIN cmds
    BY <1>9, Zenon DEF SendFails, RevisionInv, Tracked
  <2>2. (IF item.ok THEN {item.id} ELSE {}) \in SUBSET DOMAIN cmds
    BY <2>1, Zenon
  <2>3. ExitLoader(IF item.ok THEN {item.id} ELSE {}) /\ UNCHANGED completed /\ item' = NoItem
    BY <1>9, Zenon DEF SendFails
  <2> QED
    BY <1>8, <2>2, <2>3, Zenon
<1>10. CASE LoaderExits
  <2>1. {} \in SUBSET DOMAIN cmds
    OBVIOUS
  <2>2. ExitLoader({}) /\ UNCHANGED completed /\ UNCHANGED item
    BY <1>10, Zenon DEF LoaderExits
  <2> QED
    BY <1>8, <2>1, <2>2, Zenon
<1> QED
  BY <1>4, <1>5, <1>6, <1>7, <1>9, <1>10 DEF LoaderStep

\* The other steps.
LEMMA StepTypes ==
    ASSUME CoreInv, [Next]_vars
    PROVE  TypeOK'
<1>1. CASE HandlerStep
  <2>1. QuietStep \/ \E c \in Commands : Sends(c)
    BY <1>1, ReadSends DEF HandlerStep, QuietStep
  <2> QED
    BY <2>1, QuietTypes, SendTypes DEF CoreInv
<1>2. CASE Stop \/ UNCHANGED vars
  BY <1>2, ZenonT(60) DEF Stop, vars, clientVars, handlerVars, renderVars, loaderVars,
       channelVars, CoreInv, TypeOK, CommandsOK, HandlerOK, RenderOK, LoaderOK,
       QueuesOK
<1> QED
  BY <1>1, <1>2, RenderTypes, LoaderTypes DEF Next
-----------------------------------------------------------------------------
\* A taken command is older than those that stay in the channel, which are as
\* they were.
LEMMA TakenOrder ==
    ASSUME CoreInv, NEW op, TakeCommand(op)
    PROVE  /\ \A i \in DOMAIN control' : Head(control) < control'[i]
           /\ \A i, j \in DOMAIN control' : i < j => control'[i] < control'[j]
<1>1. control \in Seq(DOMAIN cmds) /\ control # <<>> /\ control' = Tail(control)
  BY Zenon DEF CoreInv, TypeOK, QueuesOK, TakeCommand
<1>2. /\ Head(control) = control[1] /\ 1 \in DOMAIN control
      /\ \A i \in DOMAIN control' :
            i \in Nat \ {0} /\ i + 1 \in DOMAIN control /\ control'[i] = control[i + 1]
  BY <1>1, Shortened
<1>3. \A i, j \in DOMAIN control : i < j => control[i] < control[j]
  BY DEF CoreInv, ControlInv
<1>4. \A i \in DOMAIN control' : 1 < i + 1
  BY <1>2, SMT
<1>5. \A i, j \in DOMAIN control' : i < j => i + 1 < j + 1
  BY <1>2, SMT
<1> QED
  BY <1>2, <1>3, <1>4, <1>5, Zenon

\* Every step keeps the order of the control channel.
LEMMA ControlStep ==
    ASSUME CoreInv, [Next]_vars
    PROVE  ControlInv'
<1> USE DEF ControlInv
<1>1. ASSUME UNCHANGED <<control, newest>>
      PROVE  ControlInv'
  BY <1>1 DEF CoreInv
<1>2. ASSUME NEW op, TakeCommand(op)
      PROVE  ControlInv'
  <2>1. \A i \in DOMAIN control', b \in Buffers : newest'[b] < control'[i]
    <3> SUFFICES ASSUME NEW i \in DOMAIN control', NEW b \in Buffers
                 PROVE  newest'[b] < control'[i]
      OBVIOUS
    <3>1. newest'[b] = IF b = BufferOf(Head(control)) THEN Head(control) ELSE newest[b]
      BY <1>2, TakenCommand
    <3>2. Head(control) < control'[i]
      BY <1>2, TakenOrder
    <3>3. newest[b] < Head(control)
      BY <1>2, TakenCommand DEF CoreInv
    <3>4. newest[b] \in Nat /\ Head(control) \in Nat /\ control'[i] \in Nat
      <4>1. DOMAIN cmds \subseteq Nat
        BY CommandNumbers DEF CoreInv, TypeOK
      <4>2. newest[b] \in {0} \cup DOMAIN cmds
        BY DEF CoreInv, TypeOK, RenderOK
      <4>3. Head(control) \in DOMAIN cmds /\ control' \in Seq(DOMAIN cmds)
        BY <1>2, TakenCommand
      <4>4. control'[i] \in DOMAIN cmds
        BY <4>3, SMT
      <4> QED
        BY <4>1, <4>2, <4>3, <4>4
    <3> DEFINE h == Head(control)
    <3> HIDE DEF h
    <3>5. h < control'[i] /\ newest[b] < h /\ h \in Nat
      BY <3>2, <3>3, <3>4 DEF h
    <3>6. newest[b] < control'[i]
      BY <3>4, <3>5, SMT
    <3> QED
      BY <3>1, <3>2, <3>6, Zenon
  <2> QED
    BY <1>2, <2>1, TakenOrder
<1>3. ASSUME NEW c \in Commands, Sends(c)
      PROVE  ControlInv'
  <2>1. CASE UNCHANGED control
    BY <1>1, <1>3, <2>1, Zenon DEF Sends, renderVars
  <2>2. CASE control' = Append(control, Len(cmds) + 1)
    <3>1. control \in Seq(DOMAIN cmds) /\ Len(cmds) \in Nat
      BY CommandNumbers DEF CoreInv, TypeOK, QueuesOK
    <3>2. \A id \in {0} \cup DOMAIN cmds : id < Len(cmds) + 1
      BY CommandNumbers, SMT DEF CoreInv, TypeOK
    <3>3. \A i \in DOMAIN control : control[i] < Len(cmds) + 1
      BY <3>1, <3>2, SMT
    <3>4. \A b \in Buffers : newest[b] < Len(cmds) + 1
      BY <3>2 DEF CoreInv, TypeOK, RenderOK
    <3>5. control \in Seq(Nat) /\ Len(cmds) + 1 \in Nat
      BY <3>1, CommandNumbers, WiderSeq, SMT DEF CoreInv, TypeOK
    <3>6. /\ DOMAIN control' = DOMAIN control \cup {Len(control) + 1}
          /\ \A i \in DOMAIN control : control'[i] = control[i] /\ i < Len(control) + 1
          /\ control'[Len(control) + 1] = Len(cmds) + 1
      <4>1. \A i \in DOMAIN control : i < Len(control) + 1 
        BY <3>5, SMT
      <4> QED
        BY <2>2, <3>5, <4>1, Appended
    <3>7. UNCHANGED newest
      BY <1>3, Zenon DEF Sends, renderVars
    <3>8. \A i, j \in DOMAIN control : i < j => control[i] < control[j]
      BY DEF CoreInv
    <3>9. \A i \in DOMAIN control, b \in Buffers : newest[b] < control[i]
      BY DEF CoreInv
    <3>10. ~(Len(control) + 1 < Len(control) + 1)
           /\ \A j \in DOMAIN control : ~(Len(control) + 1 < j)
      BY <3>5, SMT
    <3> QED
      BY <3>3, <3>4, <3>6, <3>7, <3>8, <3>9, <3>10, Zenon
  <2> QED
    BY <1>3, <2>1, <2>2, Zenon DEF Sends
<1>4. CASE HandlerStep
  <2>1. QuietStep \/ \E c \in Commands : Sends(c)
    BY <1>4, ReadSends DEF HandlerStep, QuietStep
  <2>2. QuietStep => UNCHANGED <<control, newest>>
    BY QuietFrame DEF renderVars
  <2> QED
    BY <1>1, <1>3, <2>1, <2>2
<1>5. CASE RenderStep
  <2>1. CASE HandleBind
    BY <1>2, <2>1 DEF HandleBind
  <2>2. ASSUME NEW built \in BOOLEAN, NEW published \in BOOLEAN,
               HandleClear(built, published)
        PROVE  ControlInv'
    BY <1>2, <2>2 DEF HandleClear
  <2>3. ASSUME NEW built \in BOOLEAN, NEW published \in BOOLEAN,
               Commit(built, published)
        PROVE  ControlInv'
    BY <1>1, <2>3, Zenon DEF Commit
  <2>4. CASE NoMoreCommands \/ NothingLoaded
    BY <1>1, <2>4, Zenon DEF NoMoreCommands, NothingLoaded
  <2>5. CASE EndIteration
    <3>1. CASE control' = <<>>
      <4>1. DOMAIN <<>> = {}
        BY SMT
      <4> QED
        BY <3>1, <4>1
    <3>2. UNCHANGED newest /\ (control' = <<>> \/ UNCHANGED control)
      BY <2>5, Zenon DEF EndIteration
    <3> QED
      BY <1>1, <3>1, <3>2
  <2> QED
    BY <1>5, <2>1, <2>2, <2>3, <2>4, <2>5 DEF RenderStep
<1>6. CASE LoaderStep
  BY <1>1, <1>6, Zenon DEF LoaderStep, DropOne, AwaitRequest, TakeRequest,
     NoRequest, SendLoaded, SendFails, LoaderExits, renderVars
<1>7. CASE Stop \/ UNCHANGED vars
  BY <1>1, <1>7, Zenon DEF Stop, vars, renderVars
<1> QED
  BY <1>4, <1>5, <1>6, <1>7 DEF Next

-----------------------------------------------------------------------------
\* The numbers a step compares.
LEMMA Numbers ==
    ASSUME TypeOK
    PROVE  /\ \A b \in Buffers : newest[b] \in Nat /\ revisions[b] \in Nat
           /\ \A i \in DOMAIN requests :
                 requests[i].id \in Nat /\ requests[i].revision \in Nat
           /\ \A i \in DOMAIN completed :
                 completed[i].id \in Nat /\ completed[i].revision \in Nat
           /\ item.id \in Nat /\ item.revision \in Nat
           /\ DOMAIN cmds \subseteq Nat
<1>1. DOMAIN cmds \subseteq Nat
  BY CommandNumbers DEF TypeOK
<1>2. 0 .. MaxCommands \subseteq Nat /\ 1 .. MaxCommands \subseteq Nat /\ 0 \in Nat
  BY BufferWorkerAssumption, SMT
<1>3. \A x \in Items : x.id \in Nat /\ x.revision \in Nat
  BY <1>2, Zenon DEF Items
<1>4. \A i \in DOMAIN requests : requests[i] \in Requests
  <2>1. requests \in Seq(Requests)
    BY DEF TypeOK, QueuesOK, Requests
  <2> QED
    BY <2>1, SMT
<1>5. \A i \in DOMAIN completed : completed[i] \in Items
  BY SMT DEF TypeOK, QueuesOK
<1>6. item \in Items
  BY DEF TypeOK, LoaderOK
<1>7. \A r \in Requests : r.id \in Nat /\ r.revision \in Nat
  BY <1>1, <1>2, Zenon DEF Requests
<1>8. \A b \in Buffers : newest[b] \in Nat /\ revisions[b] \in Nat
  BY <1>1, <1>2, Zenon DEF TypeOK, RenderOK
<1> QED
  BY <1>1, <1>3, <1>4, <1>5, <1>6, <1>7, <1>8, Zenon

\* A command that is taken leaves no other one of its buffer the newest, nor
\* with the present revision.
LEMMA TrackedAfterCommand ==
    ASSUME CoreInv, NEW op, TakeCommand(op),
           Invalidate(BufferOf(Head(control))),
           NEW f, f.id \in Nat, f.revision \in Nat,
           Tracked(f, cmds, newest, revisions)
    PROVE  Tracked(f, cmds, newest', revisions')
<1> DEFINE h == Head(control)
           b == BufferOf(h)
           c == BufferOf(f.id)
<1>1. /\ f.id \in DOMAIN cmds /\ cmds[f.id].op = "bind"
      /\ f.id <= newest[c] /\ f.revision <= revisions[c]
      /\ f.revision = revisions[c] <=> f.id = newest[c]
  BY DEF Tracked, BufferOf
<1>2. c \in Buffers
  BY <1>1, CommandNumbers DEF CoreInv, TypeOK
<1>3. /\ newest'[c] = IF c = b THEN h ELSE newest[c]
      /\ newest[b] < h /\ h \in DOMAIN cmds
  BY <1>2, TakenCommand
<1>4. /\ c = b => revisions'[c] = revisions[c] + 1
      /\ c # b => revisions'[c] = revisions[c]
  BY <1>2, NewRevision
<1>5. newest[c] \in Nat /\ revisions[c] \in Nat /\ h \in Nat
  BY <1>2, <1>3, Numbers DEF CoreInv
<1>6. /\ f.id <= newest'[c] /\ f.revision <= revisions'[c]
      /\ f.revision = revisions'[c] <=> f.id = newest'[c]
  <2> HIDE DEF h, b, c
  <2>1. CASE c = b
    <3>1. newest'[c] = h /\ newest[c] < h /\ revisions'[c] = revisions[c] + 1
      BY <1>3, <1>4, <2>1
    <3> QED
      BY <1>1, <1>5, <3>1, SMT
  <2>2. CASE c # b
    BY <1>1, <1>3, <1>4, <2>2
  <2> QED
    BY <2>1, <2>2
<1> QED
  BY <1>1, <1>6 DEF Tracked, BufferOf

\* What the channels hold is as it was, or the command is taken.
LEMMA TrackedStays ==
    ASSUME CoreInv, NEW op, TakeCommand(op),
           Invalidate(BufferOf(Head(control)))
    PROVE  /\ \A i \in DOMAIN requests :
                 Tracked(requests[i], cmds, newest', revisions')
           /\ \A i \in DOMAIN completed :
                 Tracked(completed[i], cmds, newest', revisions')
           /\ wpc = "send" => Tracked(item, cmds, newest', revisions')
BY TrackedAfterCommand, Numbers, Zenon DEF CoreInv, RevisionInv

\* The revision of a buffer never passes the number of its newest command.
LEMMA TakenRevisions ==
    ASSUME CoreInv, NEW op, TakeCommand(op),
           Invalidate(BufferOf(Head(control)))
    PROVE  \A b \in Buffers : /\ revisions'[b] <= newest'[b]
                              /\ newest'[b] # 0 => BufferOf(newest'[b]) = b
<1> SUFFICES ASSUME NEW b \in Buffers
             PROVE  /\ revisions'[b] <= newest'[b]
                    /\ newest'[b] # 0 => BufferOf(newest'[b]) = b
  OBVIOUS
<1>1. CASE b = BufferOf(Head(control))
  BY <1>1, TakenCommand, NewRevision
<1>2. CASE b # BufferOf(Head(control))
  <2>1. newest'[b] = newest[b] /\ revisions'[b] = revisions[b]
    BY <1>2, TakenCommand, NewRevision
  <2> QED
    BY <2>1 DEF CoreInv, RevisionInv
<1> QED
  BY <1>1, <1>2

\* A step that handles no command keeps the revisions if every load it leaves
\* on its way is tracked.
LEMMA RevisionFrame ==
    ASSUME CoreInv, UNCHANGED <<cmds, newest, revisions>>,
           \A i \in DOMAIN requests' :
              Tracked(requests'[i], cmds, newest, revisions),
           \A i \in DOMAIN completed' :
              Tracked(completed'[i], cmds, newest, revisions),
           wpc' = "send" => Tracked(item', cmds, newest, revisions)
    PROVE  RevisionInv'
BY Zenon DEF CoreInv, RevisionInv, Tracked, BufferOf

\* Every step keeps the revisions in line with the newest commands.
LEMMA RevisionStep ==
    ASSUME CoreInv, [Next]_vars
    PROVE  RevisionInv'
<1>0. ASSUME UNCHANGED <<cmds, newest, revisions, requests, completed, wpc, item>>
      PROVE  RevisionInv'
  BY <1>0, RevisionFrame, Zenon DEF CoreInv, RevisionInv
<1>1. ASSUME NEW c \in Commands, Sends(c)
      PROVE  RevisionInv'
  <2>1. /\ DOMAIN cmds \subseteq DOMAIN cmds'
        /\ \A id \in DOMAIN cmds : cmds'[id] = cmds[id]
    BY <1>1, SentCommand DEF CoreInv, TypeOK
  <2>2. \A f : Tracked(f, cmds, newest, revisions)
                 => Tracked(f, cmds', newest, revisions)
    BY <2>1 DEF Tracked
  <2>3. UNCHANGED <<newest, revisions, requests, completed, wpc, item>>
    BY <1>1, Zenon DEF Sends, renderVars, loaderVars, channelVars
  <2>4. \A b \in Buffers : newest[b] # 0 => BufferOf(newest[b])' = b
    BY <2>1, <2>3 DEF CoreInv, TypeOK, RenderOK, RevisionInv, BufferOf
  <2> QED
    BY <2>2, <2>3, <2>4, Zenon DEF CoreInv, RevisionInv
<1>2. CASE HandlerStep
  <2>1. QuietStep \/ \E c \in Commands : Sends(c)
    BY <1>2, ReadSends DEF HandlerStep, QuietStep
  <2>2. QuietStep => UNCHANGED <<cmds, newest, revisions, requests, completed, wpc, item>>
    BY QuietFrame DEF renderVars, loaderVars, channelVars
  <2> QED
    BY <1>0, <1>1, <2>1, <2>2
<1>3. CASE HandleBind
  <2> DEFINE e == [id |-> Head(control),
                   revision |-> revisions'[BufferOf(Head(control))]]
  <2>1. TakeCommand("bind") /\ Invalidate(BufferOf(Head(control)))
    BY <1>3, Zenon DEF HandleBind
  <2>2. UNCHANGED <<cmds, completed, wpc, item>>
    BY <1>3, Zenon DEF HandleBind, clientVars, loaderVars
  <2>3. Tracked(e, cmds, newest', revisions')
    <3>1. /\ Head(control) \in DOMAIN cmds /\ cmds[Head(control)].op = "bind"
          /\ BufferOf(Head(control)) \in Buffers
          /\ newest'[BufferOf(Head(control))] = Head(control)
      BY <2>1, TakenCommand
    <3>2. Head(control) \in Nat /\ revisions'[BufferOf(Head(control))] \in Nat
      <4>1. \A r \in 1 .. MaxCommands : r \in Nat
        BY BufferWorkerAssumption, SMT
      <4> QED
        BY <2>1, <3>1, <4>1, NewRevision, Numbers DEF CoreInv
    <3>3. \A n \in Nat : n <= n
      BY SMT
    <3> QED
      BY <3>1, <3>2, <3>3, Zenon DEF Tracked, BufferOf
  <2>4. \A i \in DOMAIN requests' : Tracked(requests'[i], cmds, newest', revisions')
    <3>1. CASE UNCHANGED requests
      BY <2>1, <3>1, TrackedStays, Zenon
    <3>2. CASE requests' = Append(requests, e)
      <4>1. requests \in Seq(Requests) /\ e \in Requests
        BY <2>1, TakenCommand, NewRevision, Zenon DEF CoreInv, TypeOK, QueuesOK, Requests
      <4>2. /\ DOMAIN requests' = DOMAIN requests \cup {Len(requests) + 1}
            /\ \A i \in DOMAIN requests : requests'[i] = requests[i]
            /\ requests'[Len(requests) + 1] = e
        BY <3>2, <4>1, Appended
      <4>3. \A i \in DOMAIN requests : Tracked(requests[i], cmds, newest', revisions')
        BY <2>1, TrackedStays
      <4> QED
        BY <2>3, <4>2, <4>3, Zenon
    <3> QED
      BY <1>3, <3>1, <3>2, Zenon DEF HandleBind
  <2> QED
    BY <2>1, <2>2, <2>4, TrackedStays, TakenRevisions, Zenon DEF RevisionInv, BufferOf
<1>4. ASSUME NEW built \in BOOLEAN, NEW published \in BOOLEAN,
             HandleClear(built, published)
      PROVE  RevisionInv'
  <2>1. TakeCommand("clear") /\ Invalidate(BufferOf(Head(control)))
    BY <1>4, Zenon DEF HandleClear
  <2>2. UNCHANGED <<cmds, requests, completed, wpc, item>>
    BY <1>4, Zenon DEF HandleClear, clientVars, loaderVars
  <2> QED
    BY <2>1, <2>2, TrackedStays, TakenRevisions, Zenon DEF RevisionInv, BufferOf
<1>5. ASSUME NEW built \in BOOLEAN, NEW published \in BOOLEAN,
             Commit(built, published)
      PROVE  RevisionInv'
  <2>1. completed' = <<>> /\ DOMAIN <<>> = {}
    <3>1. DOMAIN <<>> = {}
      BY SMT
    <3> QED
      BY <1>5, <3>1, LoadedTypes DEF Commit
  <2>2. UNCHANGED <<cmds, newest, revisions, requests, wpc, item>>
    BY <1>5, Zenon DEF Commit, clientVars, loaderVars
  <2> QED
    BY <2>1, <2>2, RevisionFrame, Zenon DEF CoreInv, RevisionInv
<1>6. CASE NoMoreCommands \/ NothingLoaded
  BY <1>0, <1>6, Zenon DEF NoMoreCommands, NothingLoaded, clientVars, loaderVars,
                           channelVars
<1>7. CASE EndIteration
  <2>1. DOMAIN <<>> = {}
    BY SMT
  <2>2. /\ UNCHANGED <<cmds, newest, revisions, requests, wpc, item>>
        /\ completed' = <<>> \/ UNCHANGED completed
    BY <1>7, Zenon DEF EndIteration, clientVars, loaderVars
  <2> QED
    BY <2>1, <2>2, RevisionFrame, Zenon DEF CoreInv, RevisionInv
<1>8. CASE LoaderStep
  <2>0. UNCHANGED <<cmds, newest, revisions>>
    BY <1>8, Zenon DEF LoaderStep, DropOne, AwaitRequest, TakeRequest, NoRequest,
       SendLoaded, SendFails, LoaderExits, clientVars, renderVars
  <2>1. CASE DropOne \/ AwaitRequest \/ NoRequest
    <3>1. /\ UNCHANGED <<requests, completed, item>>
          /\ wpc' = "send" => wpc = "send"
      <4>1. "idle" # "send" /\ "receive" # "send"
        BY SMT
      <4> QED
        BY <2>1, <4>1, Zenon DEF DropOne, AwaitRequest, NoRequest, loaderVars, channelVars
    <3> QED
      BY <2>0, <3>1, RevisionFrame, Zenon DEF CoreInv, RevisionInv
  <2>2. ASSUME NEW ok \in BOOLEAN, TakeRequest(ok)
        PROVE  RevisionInv'
    <3>1. requests # <<>> /\ requests' = Tail(requests) /\ UNCHANGED completed
          /\ item' = [id |-> Head(requests).id, revision |-> Head(requests).revision, ok |-> ok]
      BY <2>2, Zenon DEF TakeRequest
    <3>2. /\ 1 \in DOMAIN requests /\ Head(requests) = requests[1]
          /\ \A i \in DOMAIN requests' :
                i + 1 \in DOMAIN requests /\ requests'[i] = requests[i + 1]
      BY <3>1, TakenRequest, Zenon DEF CoreInv
    <3>3. Tracked(item', cmds, newest, revisions)
      <4>1. Tracked(Head(requests), cmds, newest, revisions)
        BY <3>2, Zenon DEF CoreInv, RevisionInv
      <4>2. item'.id = Head(requests).id /\ item'.revision = Head(requests).revision
        BY <3>1, Zenon
      <4> QED
        BY <4>1, <4>2, Zenon DEF Tracked
    <3> QED
      BY <2>0, <3>1, <3>2, <3>3, RevisionFrame, Zenon DEF CoreInv, RevisionInv
  <2>3. CASE SendLoaded
    <3>1. /\ completed' = <<item>> /\ wpc = "send" /\ wpc' # "send" /\ UNCHANGED requests
      <4>1. "idle" # "send"
        BY SMT
      <4> QED
        BY <2>3, <4>1, Zenon DEF SendLoaded
    <3>2. DOMAIN completed' = {1} /\ completed'[1] = item
      <4>1. DOMAIN <<item>> = {1} /\ <<item>>[1] = item
        BY SMT
      <4> QED
        BY <3>1, <4>1
    <3> QED
      BY <2>0, <3>1, <3>2, RevisionFrame, Zenon DEF CoreInv, RevisionInv
  <2>4. CASE SendFails \/ LoaderExits
    <3>1. requests' = <<>> /\ wpc' # "send" /\ UNCHANGED completed
      <4>1. "exited" # "send"
        BY SMT
      <4> QED
        BY <2>4, <4>1, Zenon DEF SendFails, LoaderExits, ExitLoader
    <3>2. DOMAIN <<>> = {}
      BY SMT
    <3> QED
      BY <2>0, <3>1, <3>2, RevisionFrame, Zenon DEF CoreInv, RevisionInv
  <2> QED
    BY <1>8, <2>1, <2>2, <2>3, <2>4 DEF LoaderStep
<1>9. CASE Stop \/ UNCHANGED vars
  BY <1>0, <1>9, Zenon DEF Stop, vars, clientVars, renderVars, loaderVars, channelVars
<1> QED
  BY <1>2, <1>3, <1>4, <1>5, <1>6, <1>7, <1>8, <1>9 DEF Next, RenderStep

-----------------------------------------------------------------------------
\* A bind on its way is older than what the control channel holds.
LEMMA FlightIsOlder ==
    ASSUME CoreInv, NEW k \in DOMAIN control
    PROVE  /\ \A i \in DOMAIN requests : requests[i].id # control[k]
           /\ \A i \in DOMAIN completed : completed[i].id # control[k]
           /\ item.id # control[k]
           /\ control[k] \in DOMAIN cmds /\ control[k] # 0
<1>1. control[k] \in DOMAIN cmds /\ control[k] \in Nat \ {0}
  <2>1. control \in Seq(DOMAIN cmds)
    BY DEF CoreInv, TypeOK, QueuesOK
  <2>2. control[k] \in DOMAIN cmds
    BY <2>1, SMT
  <2> QED
    BY <2>2, CommandNumbers DEF CoreInv, TypeOK
<1>2. \A f : Tracked(f, cmds, newest, revisions) /\ f.id \in Nat => f.id # control[k]
  <2> SUFFICES ASSUME NEW f, Tracked(f, cmds, newest, revisions), f.id \in Nat
               PROVE  f.id # control[k]
    OBVIOUS
  <2>1. BufferOf(f.id) \in Buffers /\ f.id <= newest[BufferOf(f.id)]
    BY CommandNumbers DEF Tracked, CoreInv, TypeOK, BufferOf
  <2>2. newest[BufferOf(f.id)] < control[k] /\ newest[BufferOf(f.id)] \in Nat
    BY <2>1, Numbers DEF CoreInv, ControlInv
  <2> DEFINE n == newest[BufferOf(f.id)]
  <2> HIDE DEF n
  <2>3. f.id <= n /\ n < control[k] /\ n \in Nat
    BY <2>1, <2>2 DEF n
  <2> QED
    BY <1>1, <2>3, SMT
<1>3. NoItem.id = 0
  BY SMT DEF NoItem
<1> QED
  BY <1>1, <1>2, <1>3, Numbers, Zenon DEF CoreInv, RevisionInv, PipelineInv

\* Every step leaves a bind at one place.
LEMMA PipelineStep ==
    ASSUME CoreInv, [Next]_vars
    PROVE  PipelineInv'
<1> USE DEF PipelineInv
<1>0. ASSUME UNCHANGED <<requests, completed, item, wpc, rpc>>
      PROVE  PipelineInv'
  BY <1>0, Zenon DEF CoreInv
<1>s. /\ "exited" \notin {"commands", "poll", "end", "send", "idle", "receive"}
      /\ "send" \notin {"idle", "receive", "exited"}
  BY SMT
<1>e. NoItem.id = 0 /\ DOMAIN <<>> = {}
  BY SMT DEF NoItem
<1>z. 0 \notin DOMAIN cmds
  BY CommandNumbers DEF CoreInv, TypeOK
<1>1. CASE HandlerStep
  <2>1. QuietStep \/ \E c \in Commands : Sends(c)
    BY <1>1, ReadSends DEF HandlerStep, QuietStep
  <2>2. UNCHANGED <<requests, completed, item, wpc, rpc>>
    BY <2>1, QuietFrame, Zenon DEF Sends, renderVars, loaderVars, channelVars
  <2> QED
    BY <1>0, <2>2
<1>2. CASE HandleBind
  <2>1. /\ UNCHANGED <<completed, item, wpc, rpc>>
        /\ TakeCommand("bind")
    BY <1>2, Zenon DEF HandleBind, loaderVars
  <2>2. CASE UNCHANGED requests
    BY <1>0, <2>1, <2>2
  <2>3. ASSUME NEW e, requests' = Append(requests, e), e.id = Head(control), e \in Requests
        PROVE  PipelineInv'
    <3>1. requests \in Seq(Requests)
      BY Zenon DEF CoreInv, TypeOK, QueuesOK, Requests
    <3>2. /\ DOMAIN requests' = DOMAIN requests \cup {Len(requests) + 1}
          /\ \A i \in DOMAIN requests : requests'[i] = requests[i]
          /\ requests'[Len(requests) + 1] = e
      BY <2>3, <3>1, Appended
    <3>3. /\ \A i \in DOMAIN requests : requests[i].id # e.id
          /\ \A i \in DOMAIN completed : completed[i].id # e.id
          /\ item.id # e.id
      BY <2>1, <2>3, TakenCommand, FlightIsOlder
    <3>4. \A i, j \in DOMAIN requests : i # j => requests[i].id # requests[j].id
      BY DEF CoreInv
    <3>5. \A i, j \in DOMAIN requests' : i # j => requests'[i].id # requests'[j].id
      BY <3>2, <3>3, <3>4, Zenon
    <3>6. /\ \A i \in DOMAIN requests :
                requests[i].id # item.id
                /\ \A k \in DOMAIN completed : requests[i].id # completed[k].id
          /\ \A k \in DOMAIN completed : completed[k].id # item.id
          /\ wpc # "send" => item = NoItem
          /\ wpc = "exited" => rpc = "exited"
      BY DEF CoreInv
    <3>7. \A i \in DOMAIN requests' :
             requests'[i].id # item.id
             /\ \A k \in DOMAIN completed : requests'[i].id # completed[k].id
      BY <3>2, <3>3, <3>6, Zenon
    <3> QED
      BY <2>1, <3>5, <3>6, <3>7, Zenon
  <2>4. [id |-> Head(control), revision |-> revisions'[BufferOf(Head(control))]] \in Requests
    <3>1. Invalidate(BufferOf(Head(control)))
      BY <1>2, Zenon DEF HandleBind
    <3> QED
      BY <2>1, <3>1, TakenCommand, NewRevision, Zenon DEF Requests
  <2> QED
    BY <1>2, <2>2, <2>3, <2>4, Zenon DEF HandleBind
<1>3. ASSUME NEW built \in BOOLEAN, NEW published \in BOOLEAN,
             HandleClear(built, published) \/ Commit(built, published)
      PROVE  PipelineInv'
  <2>1. CASE HandleClear(built, published)
    BY <1>0, <2>1, Zenon DEF HandleClear, loaderVars
  <2>2. CASE Commit(built, published)
    <3>1. /\ UNCHANGED <<requests, item, wpc>> /\ rpc = "poll" /\ completed # <<>>
      BY <2>2, Zenon DEF Commit, loaderVars
    <3>2. completed' = <<>>
      BY <2>2, LoadedTypes, Zenon DEF Commit
    <3> QED
      BY <1>e, <1>s, <3>1, <3>2, Zenon DEF CoreInv
  <2> QED
    BY <1>3, <2>1, <2>2
<1>4. CASE NoMoreCommands \/ NothingLoaded
  <2>1. UNCHANGED <<requests, completed, item, wpc>> /\ rpc \in {"commands", "poll"}
    BY <1>4, Zenon DEF NoMoreCommands, NothingLoaded, loaderVars, channelVars
  <2> QED
    BY <1>e, <1>s, <2>1, Zenon DEF CoreInv
<1>5. CASE EndIteration
  <2>1. /\ UNCHANGED <<requests, item, wpc>> /\ rpc = "end"
        /\ completed' = <<>> \/ UNCHANGED completed
    BY <1>5, Zenon DEF EndIteration, loaderVars
  <2> QED
    BY <1>e, <1>s, <2>1, ZenonT(60) DEF CoreInv
<1>6. CASE DropOne \/ AwaitRequest \/ NoRequest
  <2>1. /\ UNCHANGED <<requests, completed, item, rpc>>
        /\ wpc \in {"idle", "receive"} /\ wpc' \in {"idle", "receive"}
    BY <1>6, Zenon DEF DropOne, AwaitRequest, NoRequest, loaderVars, channelVars, renderVars
  <2> QED
    BY <1>e, <1>s, <2>1, Zenon DEF CoreInv
<1>7. ASSUME NEW ok \in BOOLEAN, TakeRequest(ok)
      PROVE  PipelineInv'
  <2>1. requests # <<>> /\ requests' = Tail(requests) /\ UNCHANGED <<completed, rpc>>
        /\ wpc' = "send"
        /\ item' = [id |-> Head(requests).id, revision |-> Head(requests).revision, ok |-> ok]
    BY <1>7, Zenon DEF TakeRequest, renderVars
  <2>2. /\ 1 \in DOMAIN requests /\ item'.id = requests[1].id
        /\ \A i \in DOMAIN requests' :
              i \in Nat \ {0} /\ i + 1 \in DOMAIN requests /\ requests'[i] = requests[i + 1]
    BY <2>1, TakenRequest, Zenon DEF CoreInv
  <2>3. /\ \A i \in DOMAIN requests' : i + 1 # 1
        /\ \A i, j \in DOMAIN requests' : i # j => i + 1 # j + 1
    BY <2>2, SMT
  <2>4. \A i, j \in DOMAIN requests' : i # j => requests'[i].id # requests'[j].id
    BY <2>2, <2>3, Zenon DEF CoreInv
  <2>5. \A i \in DOMAIN requests' :
           requests'[i].id # item'.id
           /\ \A k \in DOMAIN completed : requests'[i].id # completed[k].id
    BY <2>2, <2>3, ZenonT(60) DEF CoreInv
  <2>6. \A k \in DOMAIN completed : completed[k].id # item'.id
    BY <2>2, Zenon DEF CoreInv
  <2> QED
    BY <1>e, <1>s, <2>1, <2>4, <2>5, <2>6, Zenon
<1>8. CASE SendLoaded
  <2>1. UNCHANGED <<requests, rpc>> /\ completed' = <<item>> /\ item' = NoItem
        /\ wpc = "send" /\ wpc' = "idle"
    BY <1>8, Zenon DEF SendLoaded, renderVars
  <2>2. DOMAIN completed' = {1} /\ completed'[1] = item
    <3>1. DOMAIN <<item>> = {1} /\ <<item>>[1] = item
      BY SMT
    <3> QED
      BY <2>1, <3>1
  <2>3. \A i \in DOMAIN requests : requests[i].id # 0
    BY <1>z, <2>1, Zenon DEF CoreInv, RevisionInv, Tracked
  <2>4. item.id # 0
    BY <2>1, CommandNumbers, Zenon DEF CoreInv, TypeOK, RevisionInv, Tracked
  <2> QED
    BY <1>e, <1>s, <2>1, <2>2, <2>3, <2>4, ZenonT(60) DEF CoreInv
<1>9. CASE SendFails \/ LoaderExits
  <2>1. /\ requests' = <<>> /\ wpc' = "exited" /\ rpc = "exited"
        /\ UNCHANGED <<completed, rpc>>
        /\ item' = NoItem \/ (UNCHANGED item /\ wpc = "receive")
    BY <1>9, Zenon DEF SendFails, LoaderExits, ExitLoader, renderVars
  <2>2. item' = NoItem
    BY <1>e, <1>s, <2>1, Zenon DEF CoreInv
  <2>3. \A k \in DOMAIN completed : completed[k].id # 0
    BY <1>z, <2>1, Zenon DEF CoreInv, RevisionInv, Tracked
  <2>4. DOMAIN requests' = {}
    <3>1. requests' = <<>>
      BY <2>1, Zenon
    <3> QED
      BY <1>e, <3>1
  <2>5. item'.id = 0
    BY <1>e, <2>2, Zenon
  <2> QED
    BY <1>e, <1>s, <2>1, <2>2, <2>3, <2>4, <2>5, Zenon
<1>10. CASE Stop \/ UNCHANGED vars
  BY <1>0, <1>10, Zenon DEF Stop, vars, renderVars, loaderVars, channelVars
<1> QED
  BY <1>1, <1>2, <1>3, <1>4, <1>5, <1>6, <1>7, <1>8, <1>9, <1>10
     DEF Next, RenderStep, LoaderStep

-----------------------------------------------------------------------------
\* No step but a sending one gives a reply channel a sender again, or takes an
\* answer back.
LEMMA HoldersStay ==
    ASSUME CoreInv, [Next]_vars, UNCHANGED cmds
    PROVE  /\ Holders' \subseteq Holders \cup {0}
           /\ \A id \in DOMAIN cmds : answers[id] # "none" => answers'[id] # "none"
<1>0. ASSUME UNCHANGED <<control, requests, completed, item, answers>>
      PROVE  Holders' \subseteq Holders /\ answers' = answers
  BY <1>0, Zenon DEF Holders
<1>t. ASSUME NEW op, TakeCommand(op)
      PROVE  /\ Head(control) \in {control[i] : i \in DOMAIN control}
             /\ {control'[i] : i \in DOMAIN control'}
                  \subseteq {control[i] : i \in DOMAIN control}
  <2>1. control \in Seq(DOMAIN cmds) /\ control # <<>> /\ control' = Tail(control)
    BY <1>t, Zenon DEF CoreInv, TypeOK, QueuesOK, TakeCommand
  <2>2. /\ Head(control) = control[1] /\ 1 \in DOMAIN control
        /\ \A i \in DOMAIN control' :
              i + 1 \in DOMAIN control /\ control'[i] = control[i + 1]
    BY <2>1, Shortened
  <2> QED
    BY <2>2, ZenonT(60)
<1>a. ASSUME NEW id \in DOMAIN cmds, NEW r \in Results,
             answers' = [answers EXCEPT ![id] = r] \/ UNCHANGED answers
      PROVE  \A j \in DOMAIN cmds : answers[j] # "none" => answers'[j] # "none"
  <2>1. answers \in [Ids -> Results \cup {"none"}] /\ DOMAIN cmds \subseteq Ids
    BY CommandNumbers DEF CoreInv, TypeOK, QueuesOK
  <2>2. r # "none"
    BY SMT DEF Results
  <2> QED
    BY <1>a, <2>1, <2>2, Zenon
<1>1. CASE HandlerStep
  <2>1. QuietStep \/ \E c \in Commands : Sends(c)
    BY <1>1, ReadSends DEF HandlerStep, QuietStep
  <2>2. ASSUME NEW c \in Commands, Sends(c) PROVE FALSE
    <3>1. Len(cmds') = Len(cmds) + 1 /\ Len(cmds) \in Nat
      BY <2>2, SentCommand, CommandNumbers DEF CoreInv, TypeOK
    <3>2. Len(cmds') = Len(cmds)
      OBVIOUS
    <3> QED
      BY <3>1, <3>2, SMT
  <2> QED
    BY <1>0, <2>1, <2>2, QuietFrame, Zenon DEF loaderVars, channelVars
<1>2. CASE HandleBind
  <2>1. TakeCommand("bind") /\ UNCHANGED <<completed, item>>
    BY <1>2, Zenon DEF HandleBind, loaderVars
  <2>2. {requests'[i].id : i \in DOMAIN requests'}
          \subseteq {requests[i].id : i \in DOMAIN requests} \cup {Head(control)}
    <3>1. ASSUME NEW e, requests' = Append(requests, e), e.id = Head(control), e \in Requests
          PROVE  {requests'[i].id : i \in DOMAIN requests'}
                   \subseteq {requests[i].id : i \in DOMAIN requests} \cup {Head(control)}
      <4>1. requests \in Seq(Requests)
        BY Zenon DEF CoreInv, TypeOK, QueuesOK, Requests
      <4>2. /\ DOMAIN requests' = DOMAIN requests \cup {Len(requests) + 1}
            /\ \A i \in DOMAIN requests : requests'[i] = requests[i]
            /\ requests'[Len(requests) + 1] = e
        BY <3>1, <4>1, Appended
      <4> QED
        BY <3>1, <4>2, Zenon
    <3>2. [id |-> Head(control), revision |-> revisions'[BufferOf(Head(control))]] \in Requests
      <4>1. Invalidate(BufferOf(Head(control)))
        BY <1>2, Zenon DEF HandleBind
      <4> QED
        BY <2>1, <4>1, TakenCommand, NewRevision, Zenon DEF Requests
    <3> QED
      BY <1>2, <3>1, <3>2, Zenon DEF HandleBind
  <2>3. Head(control) \in DOMAIN cmds /\ "error" \in Results
    BY <2>1, TakenCommand DEF Results
  <2>4. \A j \in DOMAIN cmds : answers[j] # "none" => answers'[j] # "none"
    BY <1>2, <1>a, <2>3, Zenon DEF HandleBind
  <2> QED
    BY <1>t, <2>1, <2>2, <2>4, Zenon DEF Holders
<1>3. ASSUME NEW built \in BOOLEAN, NEW published \in BOOLEAN,
             HandleClear(built, published)
      PROVE  /\ Holders' \subseteq Holders \cup {0}
             /\ \A id \in DOMAIN cmds : answers[id] # "none" => answers'[id] # "none"
  <2>1. TakeCommand("clear") /\ UNCHANGED <<requests, completed, item>>
    BY <1>3, Zenon DEF HandleClear, loaderVars
  <2>2. /\ Head(control) \in DOMAIN cmds
        /\ (IF built /\ published THEN "cleared" ELSE "error") \in Results
    BY <2>1, TakenCommand DEF Results
  <2>3. \A j \in DOMAIN cmds : answers[j] # "none" => answers'[j] # "none"
    BY <1>3, <1>a, <2>2, Zenon DEF HandleClear
  <2> QED
    BY <1>t, <2>1, <2>3, Zenon DEF Holders
<1>4. ASSUME NEW built \in BOOLEAN, NEW published \in BOOLEAN,
             Commit(built, published)
      PROVE  /\ Holders' \subseteq Holders \cup {0}
             /\ \A id \in DOMAIN cmds : answers[id] # "none" => answers'[id] # "none"
  <2>1. UNCHANGED <<control, requests, item>> /\ completed' = <<>>
        /\ Head(completed).id \in DOMAIN cmds
    BY <1>4, LoadedTypes, Zenon DEF Commit, loaderVars
  <2>2. \E r \in Results : answers' = [answers EXCEPT ![Head(completed).id] = r]
    <3>1. {"superseded", "applied", "error"} \subseteq Results
      BY DEF Results
    <3>2. \E r \in {"superseded", "applied", "error"} :
              answers' = [answers EXCEPT ![Head(completed).id] = r]
      BY <1>4, Zenon DEF Commit
    <3> QED
      BY <3>1, <3>2, Zenon
  <2>3. \A j \in DOMAIN cmds : answers[j] # "none" => answers'[j] # "none"
    BY <1>a, <2>1, <2>2, Zenon
  <2>4. DOMAIN <<>> = {}
    BY SMT
  <2>5. {completed'[i].id : i \in DOMAIN completed'} = {}
    BY <2>1, <2>4
  <2> QED
    BY <2>1, <2>3, <2>5, Zenon DEF Holders
<1>5. CASE NoMoreCommands \/ NothingLoaded \/ DropOne \/ AwaitRequest \/ NoRequest
           \/ Stop \/ UNCHANGED vars
  BY <1>0, <1>5, Zenon DEF NoMoreCommands, NothingLoaded, DropOne, AwaitRequest,
     NoRequest, Stop, vars, loaderVars, channelVars
<1>6. CASE EndIteration
  <2>1. /\ UNCHANGED <<requests, item, answers>>
        /\ control' = <<>> \/ UNCHANGED control
        /\ completed' = <<>> \/ UNCHANGED completed
    BY <1>6, Zenon DEF EndIteration, loaderVars
  <2>2. DOMAIN <<>> = {}
    BY SMT
  <2>3. {completed'[i].id : i \in DOMAIN completed'}
          \subseteq {completed[i].id : i \in DOMAIN completed}
    BY <2>1, <2>2
  <2>4. {control'[i] : i \in DOMAIN control'} \subseteq {control[i] : i \in DOMAIN control}
    BY <2>1, <2>2
  <2> QED
    BY <2>1, <2>3, <2>4, Zenon DEF Holders
<1>7. ASSUME NEW ok \in BOOLEAN, TakeRequest(ok)
      PROVE  Holders' \subseteq Holders \cup {0} /\ answers' = answers
  <2>1. requests # <<>> /\ requests' = Tail(requests) /\ UNCHANGED <<control, completed, answers>>
        /\ item' = [id |-> Head(requests).id, revision |-> Head(requests).revision, ok |-> ok]
    BY <1>7, Zenon DEF TakeRequest, renderVars
  <2>2. /\ 1 \in DOMAIN requests /\ item'.id = requests[1].id
        /\ \A i \in DOMAIN requests' :
              i + 1 \in DOMAIN requests /\ requests'[i] = requests[i + 1]
    BY <2>1, TakenRequest, Zenon DEF CoreInv
  <2>3. /\ {requests'[i].id : i \in DOMAIN requests'}
             \subseteq {requests[i].id : i \in DOMAIN requests}
        /\ item'.id \in {requests[i].id : i \in DOMAIN requests}
    BY <2>2, Zenon
  <2> QED
    BY <2>1, <2>3, Zenon DEF Holders
<1>e. NoItem.id = 0 /\ DOMAIN <<>> = {}
  BY SMT DEF NoItem
<1>8. CASE SendLoaded
  <2>1. UNCHANGED <<control, requests, answers>> /\ completed' = <<item>> /\ item' = NoItem
    BY <1>8, Zenon DEF SendLoaded, renderVars
  <2>2. {completed'[i].id : i \in DOMAIN completed'} = {item.id}
    <3>1. DOMAIN <<item>> = {1} /\ <<item>>[1] = item
      BY SMT
    <3> QED
      BY <2>1, <3>1
  <2> QED
    BY <1>e, <2>1, <2>2, Zenon DEF Holders
<1>9. CASE SendFails \/ LoaderExits
  <2>1. /\ UNCHANGED <<control, completed, answers>> /\ requests' = <<>>
        /\ item' = NoItem \/ UNCHANGED item
    BY <1>9, Zenon DEF SendFails, LoaderExits, ExitLoader
  <2>2. {requests'[i].id : i \in DOMAIN requests'} = {}
    BY <1>e, <2>1
  <2> QED
    BY <1>e, <2>1, <2>2, Zenon DEF Holders
<1> QED
  BY <1>1, <1>2, <1>3, <1>4, <1>5, <1>6, <1>7, <1>8, <1>9 DEF Next, RenderStep, LoaderStep

\* A result that was found stays found.
LEMMA ResultStays ==
    ASSUME CoreInv, [Next]_vars, UNCHANGED cmds,
           NEW id \in DOMAIN cmds, Received(id) # "none"
    PROVE  Received(id)' # "none"
<1>1. "error" # "none"
  BY SMT
<1>2. id # 0
  BY CommandNumbers DEF CoreInv, TypeOK
<1> QED
  BY <1>1, <1>2, HoldersStay, Zenon DEF Received, Disconnected

\* Every step leaves a clear with the handler until it is answered.
LEMMA ClearStep ==
    ASSUME CoreInv, [Next]_vars
    PROVE  ClearInv'
<1> DEFINE W == {"wait", "scanThenRespond", "respond"}
           A == {"scanThenRespond", "respond"}
<1>1. ASSUME UNCHANGED cmds, hpc' \in W => hpc \in W,
             hpc' \in A => hpc \in A \/ Received(Len(cmds)) # "none"
      PROVE  ClearInv'
  <2>1. hpc' \in W => cmds' # <<>> /\ cmds'[Len(cmds')].op = "clear"
    BY <1>1, Zenon DEF CoreInv, ClearInv
  <2>2. ASSUME hpc' \in A PROVE Received(Len(cmds))' # "none"
    <3>1. Received(Len(cmds)) # "none"
      BY <1>1, <2>2, Zenon DEF CoreInv, ClearInv
    <3>2. hpc \in W
      <4>1. A \subseteq W
        OBVIOUS
      <4> QED
        BY <1>1, <2>2, <4>1
    <3>3. Len(cmds) \in DOMAIN cmds
      <4>1. cmds # <<>>
        BY <3>2 DEF CoreInv, ClearInv
      <4> QED
        BY <4>1, SMT DEF CoreInv, TypeOK, CommandsOK
    <3>4. \A id \in DOMAIN cmds : Received(id) # "none" => Received(id)' # "none"
      BY <1>1, ResultStays
    <3> QED
      BY <1>1, <3>1, <3>3, <3>4, Zenon
  <2> QED
    BY <2>1, <2>2, Zenon DEF ClearInv
<1>2. ASSUME UNCHANGED <<cmds, hpc>>
      PROVE  ClearInv'
  BY <1>1, <1>2, Zenon
<1>3. ASSUME NEW c \in Commands, Sends(c)
      PROVE  ClearInv'
  <2>1. /\ Len(cmds') = Len(cmds) + 1 /\ Len(cmds) \in Nat
        /\ cmds'[Len(cmds) + 1] = c /\ cmds' \in Seq(Commands)
    BY <1>3, SentCommand, CommandNumbers DEF CoreInv, TypeOK, CommandsOK, Commands
  <2>2. cmds' # <<>>
    BY <2>1, SMT
  <2>3. hpc' = IF c.op = "clear" THEN "wait" ELSE "top"
    BY <1>3 DEF Sends
  <2>4. hpc' \in W => c.op = "clear"
    BY <2>3
  <2>5. hpc' \notin A
    BY <2>3
  <2> QED
    BY <2>1, <2>2, <2>4, <2>5, Zenon DEF ClearInv
<1>4. CASE QuietStep
  <2>0. UNCHANGED cmds
    BY <1>4, QuietFrame
  <2>1. CASE StartLoop \/ ReadTimeout \/ ClientLeaves \/ Respond
    <3>1. hpc' \in {"done", "scan", "top"}
      BY <2>1, Zenon DEF StartLoop, ReadTimeout, ClientLeaves, Respond
    <3>2. hpc' \notin W /\ hpc' \notin A
      BY <3>1
    <3> QED
      BY <1>1, <2>0, <3>2
  <2>2. CASE ScanStep
    BY <1>2, <2>2 DEF ScanStep
  <2>3. CASE ScanEnd
    <3>1. hpc \in {"scan", "scanThenRespond"} /\ hpc' = IF hpc = "scan" THEN "read" ELSE "respond"
      BY <2>3 DEF ScanEnd, Scanning
    <3>2. (hpc' \in W => hpc \in W) /\ (hpc' \in A => hpc \in A)
      BY <3>1
    <3> QED
      BY <1>1, <2>0, <3>2
  <2>4. CASE ClearAnswered
    <3>1. hpc = "wait" /\ Received(Len(cmds)) # "none"
      BY <2>4 DEF ClearAnswered
    <3> QED
      BY <1>1, <2>0, <3>1
  <2> QED
    BY <1>4, <2>1, <2>2, <2>3, <2>4 DEF QuietStep
<1>5. CASE HandlerStep
  BY <1>3, <1>4, <1>5, ReadSends DEF HandlerStep, QuietStep
<1>6. CASE RenderStep
  BY <1>2, <1>6, Zenon DEF RenderStep, HandleBind, HandleClear, Commit,
     NoMoreCommands, NothingLoaded, EndIteration, clientVars, handlerVars
<1>7. CASE LoaderStep
  BY <1>2, <1>7, Zenon DEF LoaderStep, DropOne, AwaitRequest, TakeRequest,
     NoRequest, SendLoaded, SendFails, LoaderExits, clientVars, handlerVars
<1>8. CASE Stop \/ UNCHANGED vars
  BY <1>2, <1>8, Zenon DEF Stop, vars, clientVars, handlerVars
<1> QED
  BY <1>5, <1>6, <1>7, <1>8 DEF Next

\* Every step keeps the invariant that the others rest on.
LEMMA CoreStep ==
    ASSUME CoreInv, [Next]_vars
    PROVE  CoreInv'
BY StepTypes, ControlStep, RevisionStep, PipelineStep, ClearStep, Zenon DEF CoreInv

\* The types and the order of the three queues, in every state.
THEOREM CoreInvHolds == Spec => []CoreInv
<1>1. CoreInv /\ [Next]_vars => CoreInv'
  BY CoreStep
<1> QED
  BY <1>1, CoreInit, PTL DEF Spec

\* Every variable of the buffer worker has its type: no queue is longer than
\* its capacity, no channel holds a command that was not sent.
THEOREM TypeCorrect == Spec => []TypeOK
<1>1. CoreInv => TypeOK
  BY DEF CoreInv
<1> QED
  BY <1>1, CoreInvHolds, PTL

-----------------------------------------------------------------------------
\* The binds that take effect: a taken clear, or a load that is still current.
LEMMA BoundChanges ==
    ASSUME CoreInv, [Next]_vars, NEW b \in Buffers, bound'[b] # bound[b]
    PROVE  /\ newest'[b] \in DOMAIN cmds /\ BufferOf(newest'[b]) = b
           /\ bound'[b] = IF cmds[newest'[b]].op = "bind" THEN newest'[b] ELSE 0
<1>0. ~UNCHANGED bound
  OBVIOUS
<1>1. ASSUME NEW built \in BOOLEAN, NEW published \in BOOLEAN,
             HandleClear(built, published)
      PROVE  /\ newest'[b] \in DOMAIN cmds /\ BufferOf(newest'[b]) = b
             /\ bound'[b] = IF cmds[newest'[b]].op = "bind" THEN newest'[b] ELSE 0
  <2> DEFINE c == BufferOf(Head(control))
  <2>1. TakeCommand("clear") /\ (Replace(c, 0) \/ UNCHANGED bound)
    BY <1>1, Zenon DEF HandleClear
  <2>2. /\ c \in Buffers /\ Head(control) \in DOMAIN cmds
        /\ cmds[Head(control)].op = "clear"
        /\ newest'[c] = Head(control)
    BY <2>1, TakenCommand
  <2>3. \A d \in Buffers : bound'[d] = IF d = c THEN 0 ELSE bound[d]
    BY <1>0, <2>1, <2>2, ReplacedTypes DEF CoreInv
  <2>4. b = c /\ bound'[b] = 0
    BY <2>3
  <2>5. "clear" # "bind"
    BY SMT
  <2> QED
    BY <2>2, <2>4, <2>5, Zenon
<1>2. ASSUME NEW built \in BOOLEAN, NEW published \in BOOLEAN,
             Commit(built, published)
      PROVE  /\ newest'[b] \in DOMAIN cmds /\ BufferOf(newest'[b]) = b
             /\ bound'[b] = IF cmds[newest'[b]].op = "bind" THEN newest'[b] ELSE 0
  <2> DEFINE loaded == Head(completed)
             c == BufferOf(loaded.id)
  <2>1. /\ completed # <<>> /\ UNCHANGED newest
        /\ (IsCurrent(loaded) /\ Replace(c, loaded.id)) \/ UNCHANGED bound
    BY <1>2, Zenon DEF Commit
  <2>2. /\ c \in Buffers /\ loaded.id \in DOMAIN cmds
        /\ Tracked(loaded, cmds, newest, revisions)
    BY <2>1, LoadedTypes, Zenon DEF CoreInv, RevisionInv
  <2>3. loaded.id = newest[c] /\ cmds[loaded.id].op = "bind"
    BY <1>0, <2>1, <2>2 DEF Tracked, IsCurrent, BufferOf
  <2>4. \A d \in Buffers : bound'[d] = IF d = c THEN loaded.id ELSE bound[d]
    BY <1>0, <2>1, <2>2, ReplacedTypes DEF CoreInv
  <2>5. b = c /\ bound'[b] = loaded.id
    BY <2>4
  <2> QED
    BY <2>1, <2>2, <2>3, <2>5, Zenon
<1>3. CASE HandlerStep
  <2>1. QuietStep \/ \E c \in Commands : Sends(c)
    BY <1>3, ReadSends DEF HandlerStep, QuietStep
  <2> QED
    BY <1>0, <2>1, QuietFrame, Zenon DEF Sends, renderVars
<1>4. CASE LoaderStep
  BY <1>0, <1>4, Zenon DEF LoaderStep, DropOne, AwaitRequest, TakeRequest,
     NoRequest, SendLoaded, SendFails, LoaderExits, renderVars
<1>5. CASE HandleBind \/ NoMoreCommands \/ NothingLoaded \/ EndIteration \/ Stop
           \/ UNCHANGED vars
  BY <1>0, <1>5, Zenon DEF HandleBind, NoMoreCommands, NothingLoaded, EndIteration,
     Stop, vars, renderVars
<1> QED
  BY <1>1, <1>2, <1>3, <1>4, <1>5 DEF Next, RenderStep

\* "Revisions make bind/clear ordering independent of I/O completion": a
\* binding only ever changes to what the last command handled for that buffer
\* asked for, whatever is still being loaded.
THEOREM LateLoadsDoNotBind == Spec => OnlyTheNewestCommandBinds
<1>1. CoreInv /\ [Next]_vars =>
        [\A b \in Buffers : bound'[b] # bound[b] =>
            bound'[b] = IF cmds[newest'[b]].op = "bind" THEN newest'[b] ELSE 0]_vars
  BY BoundChanges
<1> QED
  BY <1>1, CoreInvHolds, PTL DEF Spec, OnlyTheNewestCommandBinds
-----------------------------------------------------------------------------
\* Only a command that was handled has an answer, and only a clear is answered
\* "cleared", only a bind "applied".
AnswerInv ==
    \A id \in Ids : answers[id] # "none" =>
        /\ id \in DOMAIN cmds
        /\ id <= newest[BufferOf(id)]
        /\ answers[id] = "cleared" => cmds[id].op = "clear"
        /\ answers[id] = "applied" => cmds[id].op = "bind"

AnswerTruth(id) ==
    \/ newest[BufferOf(id)] > id
    \/ /\ answers[id] = "applied" => bound[BufferOf(id)] = id
       /\ answers[id] = "cleared" => bound[BufferOf(id)] = 0
       /\ answers[id] # "superseded"

TruthInv == AnswerInv /\ \A id \in DOMAIN cmds : AnswerTruth(id)

\* The invariant is at least what the run checks.
LEMMA TruthIsTold == TruthInv => AnswersAreTruthful
<1>1. "applied" # "cleared" /\ "superseded" # "applied" /\ "superseded" # "cleared"
  BY SMT
<1> QED
  BY <1>1, Zenon DEF TruthInv, AnswerTruth, AnswersAreTruthful

\* Nothing is answered at first.
LEMMA TruthInit == Init => TruthInv
<1> SUFFICES ASSUME Init PROVE TruthInv
  OBVIOUS
<1>1. DOMAIN cmds = {} /\ \A id \in Ids : answers[id] = "none"
  BY SMT DEF Init
<1> QED
  BY <1>1 DEF TruthInv, AnswerInv

\* A command is answered, or not, when it is taken from the channel.
LEMMA TruthAfterCommand ==
    ASSUME CoreInv, TruthInv, NEW op, TakeCommand(op), UNCHANGED cmds,
           NEW r \in Results,
           answers' = [answers EXCEPT ![Head(control)] = r] \/ UNCHANGED answers,
           r = "cleared" => op = "clear" /\ bound'[BufferOf(Head(control))] = 0,
           r \notin {"applied", "superseded"},
           \A c \in Buffers : c # BufferOf(Head(control)) => bound'[c] = bound[c]
    PROVE  TruthInv'
<1> DEFINE h == Head(control)
           b == BufferOf(h)
<1>1. /\ h \in DOMAIN cmds /\ b \in Buffers /\ newest[b] < h /\ cmds[h].op = op
      /\ \A c \in Buffers : newest'[c] = IF c = b THEN h ELSE newest[c]
  BY TakenCommand
<1>2. /\ answers \in [Ids -> Results \cup {"none"}]
      /\ DOMAIN cmds \subseteq Ids /\ DOMAIN cmds \subseteq Nat
      /\ \A id \in DOMAIN cmds : BufferOf(id) \in Buffers
  BY CommandNumbers DEF CoreInv, TypeOK, QueuesOK
<1>3. /\ answers'[h] = r \/ answers'[h] = answers[h]
      /\ \A id \in Ids \ {h} : answers'[id] = answers[id]
  BY <1>1, <1>2, Zenon
<1>4. answers[h] = "none"
  <2>1. newest[b] \in Nat /\ h \in Nat
    BY <1>1, <1>2, Numbers DEF CoreInv
  <2> DEFINE n == newest[b]
  <2>2. answers[h] # "none" => h <= n
    BY <1>1, <1>2 DEF TruthInv, AnswerInv
  <2> HIDE DEF n, h
  <2>3. n < h /\ n \in Nat /\ h \in Nat
    BY <1>1, <2>1 DEF n, h
  <2> QED
    BY <2>2, <2>3, SMT
<1>5. ASSUME NEW id \in Ids, answers'[id] # "none"
      PROVE  /\ id \in DOMAIN cmds
             /\ id <= newest'[BufferOf(id)]
             /\ answers'[id] = "cleared" => cmds[id].op = "clear"
             /\ answers'[id] = "applied" => cmds[id].op = "bind"
  <2>1. CASE id = h
    <3>1. answers'[h] = r
      BY <1>3, <1>4, <1>5, <2>1, Zenon
    <3>2. h <= h
      <4>1. h \in Nat
        BY <1>1, <1>2
      <4> HIDE DEF h
      <4> QED
        BY <4>1, SMT
    <3>3. newest'[b] = h
      BY <1>1, Zenon
    <3>4. r \notin {"applied", "superseded"} /\ (r = "cleared" => op = "clear")
      OBVIOUS
    <3> QED
      BY <1>1, <2>1, <3>1, <3>2, <3>3, <3>4, Zenon
  <2>2. CASE id # h
    <3>1. answers'[id] = answers[id]
      BY <1>3, <2>2
    <3>2. /\ id \in DOMAIN cmds /\ id <= newest[BufferOf(id)]
          /\ answers[id] = "cleared" => cmds[id].op = "clear"
          /\ answers[id] = "applied" => cmds[id].op = "bind"
      BY <1>5, <3>1 DEF TruthInv, AnswerInv
    <3>3. id <= newest'[BufferOf(id)]
      <4>1. CASE BufferOf(id) = b
        <5>1. newest[b] \in Nat /\ h \in Nat /\ id \in Nat
          BY <1>1, <1>2, <3>2, Numbers DEF CoreInv
        <5> DEFINE n == newest[b]
        <5>2. newest'[b] = h /\ id <= n /\ n < h
          BY <1>1, <3>2, <4>1
        <5> HIDE DEF n, h
        <5>3. id <= h
          BY <5>1, <5>2, SMT DEF n
        <5> QED
          BY <4>1, <5>2, <5>3
      <4>2. CASE BufferOf(id) # b
        BY <1>1, <1>2, <3>2, <4>2
      <4> QED
        BY <4>1, <4>2
    <3> QED
      BY <3>1, <3>2, <3>3
  <2> QED
    BY <2>1, <2>2
<1>6. ASSUME NEW id \in DOMAIN cmds
      PROVE  AnswerTruth(id)'
  <2>1. CASE id = h
    <3>1. /\ answers'[h] # "applied" /\ answers'[h] # "superseded"
          /\ answers'[h] = "cleared" => bound'[b] = 0
      BY <1>3, <1>4
    <3> QED
      BY <2>1, <3>1, Zenon DEF AnswerTruth, BufferOf
  <2>2. CASE id # h /\ BufferOf(id) = b
    <3>1. answers'[id] = answers[id]
      BY <1>2, <1>3, <2>2
    <3>2. CASE answers[id] = "none"
      BY <3>1, <3>2 DEF AnswerTruth
    <3>3. CASE answers[id] # "none"
      <4>1. newest[b] \in Nat /\ h \in Nat /\ id \in Nat
        BY <1>1, <1>2, Numbers DEF CoreInv
      <4> DEFINE n == newest[b]
      <4>2. id <= n /\ n < h /\ newest'[b] = h
        BY <1>1, <1>2, <2>2, <3>3 DEF TruthInv, AnswerInv
      <4> HIDE DEF n, h
      <4>3. h > id
        BY <4>1, <4>2, SMT DEF n
      <4> QED
        BY <2>2, <4>2, <4>3 DEF AnswerTruth, BufferOf
    <3> QED
      BY <3>2, <3>3
  <2>3. CASE BufferOf(id) # b
    <3>1. /\ answers'[id] = answers[id] /\ newest'[BufferOf(id)] = newest[BufferOf(id)]
          /\ bound'[BufferOf(id)] = bound[BufferOf(id)]
      BY <1>1, <1>2, <1>3, <2>3
    <3>2. AnswerTruth(id)
      BY DEF TruthInv
    <3> QED
      BY <3>1, <3>2, Zenon DEF AnswerTruth, BufferOf
  <2> QED
    BY <2>1, <2>2, <2>3
<1> QED
  BY <1>5, <1>6, Zenon DEF TruthInv, AnswerInv, BufferOf, Ids

\* The commit of a load answers its bind.
LEMMA TruthAfterCommit ==
    ASSUME CoreInv, TruthInv, NEW built \in BOOLEAN, NEW published \in BOOLEAN,
           Commit(built, published)
    PROVE  TruthInv'
<1> DEFINE loaded == Head(completed)
           x == loaded.id
           b == BufferOf(x)
<1>1. /\ completed # <<>> /\ UNCHANGED <<cmds, newest>>
      /\ \/ IsCurrent(loaded) /\ Replace(b, x)
         \/ UNCHANGED bound
  BY Zenon DEF Commit, clientVars
<1>2. /\ x \in DOMAIN cmds /\ b \in Buffers
      /\ cmds[x].op = "bind" /\ x <= newest[b]
      /\ IsCurrent(loaded) <=> x = newest[b]
  <2>1. x \in DOMAIN cmds /\ b \in Buffers /\ Tracked(loaded, cmds, newest, revisions)
    BY <1>1, LoadedTypes, Zenon DEF CoreInv, RevisionInv
  <2>2. IsCurrent(loaded) <=> loaded.revision = revisions[b]
    BY DEF IsCurrent
  <2> QED
    BY <2>1, <2>2 DEF Tracked, BufferOf
<1>3. /\ answers \in [Ids -> Results \cup {"none"}]
      /\ DOMAIN cmds \subseteq Ids /\ DOMAIN cmds \subseteq Nat
      /\ \A id \in DOMAIN cmds : BufferOf(id) \in Buffers
  BY CommandNumbers DEF CoreInv, TypeOK, QueuesOK
<1>4. PICK r \in {"superseded", "applied", "error"} :
         /\ answers' = [answers EXCEPT ![x] = r]
         /\ r = "superseded" => ~IsCurrent(loaded)
         /\ r = "applied" => IsCurrent(loaded) /\ Replace(b, x)
  <2>1. "superseded" # "applied" /\ "superseded" # "error" /\ "error" # "applied"
    BY SMT
  <2>2. CASE ~IsCurrent(loaded)
    BY <2>1, <2>2, Zenon DEF Commit
  <2>3. CASE IsCurrent(loaded)
    BY <2>1, <2>3, Zenon DEF Commit
  <2> QED
    BY <2>2, <2>3
<1>5. answers'[x] = r /\ \A id \in Ids \ {x} : answers'[id] = answers[id]
  BY <1>2, <1>3, <1>4, Zenon
<1>6. AnswerInv'
  <2>1. "superseded" # "cleared" /\ "applied" # "cleared" /\ "error" # "cleared"
    BY SMT
  <2>2. r # "cleared"
    BY <2>1, <1>4
  <2> QED
    BY <1>1, <1>2, <1>3, <1>5, <2>2, Zenon DEF TruthInv, AnswerInv, BufferOf, Ids
<1>7. ASSUME NEW id \in DOMAIN cmds
      PROVE  AnswerTruth(id)'
  <2>1. newest[BufferOf(id)] \in Nat /\ id \in Nat
    BY <1>3, Numbers DEF CoreInv
  <2>2. CASE id = x
    <3>1. CASE r = "superseded"
      <4>1. x # newest[b] /\ x <= newest[b] /\ newest[b] \in Nat /\ x \in Nat
        BY <1>2, <1>4, <2>1, <2>2, <3>1
      <4> DEFINE n == newest[b]
      <4> HIDE DEF x, n
      <4>2. n > x
        BY <4>1, SMT DEF n
      <4> QED
        BY <1>1, <2>2, <4>2 DEF AnswerTruth, BufferOf, n
    <3>2. CASE r = "applied"
      <4>1. bound'[b] = x
        BY <1>2, <1>4, <3>2, ReplacedTypes DEF CoreInv
      <4>2. "applied" # "cleared" /\ "applied" # "superseded"
        BY SMT
      <4> QED
        BY <1>1, <1>5, <2>2, <3>2, <4>1, <4>2, Zenon DEF AnswerTruth, BufferOf
    <3>3. CASE r = "error"
      <4>1. "error" # "cleared" /\ "error" # "superseded" /\ "error" # "applied"
        BY SMT
      <4> QED
        BY <1>5, <2>2, <3>3, <4>1, Zenon DEF AnswerTruth
    <3> QED
      BY <1>4, <3>1, <3>2, <3>3
  <2>3. CASE id # x
    <3>1. answers'[id] = answers[id]
      BY <1>3, <1>5, <2>3
    <3>2. AnswerTruth(id)
      BY DEF TruthInv
    <3>3. CASE bound'[BufferOf(id)] = bound[BufferOf(id)]
      BY <1>1, <3>1, <3>2, <3>3, Zenon DEF AnswerTruth, BufferOf
    <3>4. CASE IsCurrent(loaded) /\ BufferOf(id) = b
      <4>1. x = newest[b]
        BY <1>2, <3>4
      <4>2. CASE answers[id] = "none"
        BY <3>1, <4>2 DEF AnswerTruth
      <4>3. CASE answers[id] # "none"
        <5>1. id <= newest[b] /\ id # newest[b] /\ newest[b] \in Nat
          BY <1>3, <2>1, <2>3, <3>4, <4>1, <4>3 DEF TruthInv, AnswerInv
        <5> DEFINE n == newest[b]
        <5> HIDE DEF n
        <5>2. n > id
          BY <2>1, <5>1, SMT DEF n
        <5> QED
          BY <1>1, <3>4, <5>2 DEF AnswerTruth, BufferOf, n
      <4> QED
        BY <4>2, <4>3
    <3>5. \/ bound'[BufferOf(id)] = bound[BufferOf(id)]
          \/ IsCurrent(loaded) /\ BufferOf(id) = b
      BY <1>1, <1>2, <1>3, ReplacedTypes DEF CoreInv
    <3> QED
      BY <3>3, <3>4, <3>5
  <2> QED
    BY <2>2, <2>3
<1> QED
  BY <1>1, <1>6, <1>7, Zenon DEF TruthInv

\* Every step leaves the answers true.
LEMMA TruthStep ==
    ASSUME CoreInv, TruthInv, [Next]_vars
    PROVE  TruthInv'
<1>0. ASSUME UNCHANGED <<cmds, newest, answers, bound>>
      PROVE  TruthInv'
  BY <1>0, Zenon DEF TruthInv, AnswerInv, AnswerTruth, BufferOf, Ids
<1>1. ASSUME NEW c \in Commands, Sends(c)
      PROVE  TruthInv'
  <2>1. /\ DOMAIN cmds \subseteq DOMAIN cmds'
        /\ \A id \in DOMAIN cmds : cmds'[id] = cmds[id]
        /\ CommandsOK'
    BY <1>1, SentCommand DEF CoreInv, TypeOK
  <2>2. UNCHANGED <<newest, answers, bound>>
    BY <1>1, Zenon DEF Sends, renderVars
  <2>3. DOMAIN cmds' \subseteq Ids
    BY <2>1, CommandNumbers, BufferWorkerAssumption, SMT DEF CommandsOK, Ids
  <2>4. AnswerInv'
    BY <2>1, <2>2, Zenon DEF TruthInv, AnswerInv, BufferOf, Ids
  <2>5. ASSUME NEW id \in DOMAIN cmds'
        PROVE  AnswerTruth(id)'
    <3>1. CASE id \in DOMAIN cmds
      BY <2>1, <2>2, <3>1, Zenon DEF TruthInv, AnswerTruth, BufferOf
    <3>2. CASE id \notin DOMAIN cmds
      <4>1. answers[id] = "none"
        BY <2>3, <3>2, Zenon DEF TruthInv, AnswerInv
      <4> QED
        BY <2>2, <4>1 DEF AnswerTruth
    <3> QED
      BY <3>1, <3>2
  <2> QED
    BY <2>4, <2>5, Zenon DEF TruthInv
<1>2. CASE HandlerStep
  <2>1. QuietStep \/ \E c \in Commands : Sends(c)
    BY <1>2, ReadSends DEF HandlerStep, QuietStep
  <2> QED
    BY <1>0, <1>1, <2>1, QuietFrame, Zenon DEF renderVars
<1>3. CASE HandleBind
  <2>1. /\ TakeCommand("bind") /\ UNCHANGED <<cmds, bound>>
        /\ answers' = [answers EXCEPT ![Head(control)] = "error"] \/ UNCHANGED answers
    BY <1>3, Zenon DEF HandleBind, clientVars
  <2>2. "error" \in Results /\ "error" \notin {"applied", "superseded", "cleared"}
    BY SMT DEF Results
  <2> QED
    BY <2>1, <2>2, TruthAfterCommand
<1>4. ASSUME NEW built \in BOOLEAN, NEW published \in BOOLEAN,
             HandleClear(built, published)
      PROVE  TruthInv'
  <2> DEFINE b == BufferOf(Head(control))
             r == IF built /\ published THEN "cleared" ELSE "error"
  <2>1. /\ TakeCommand("clear") /\ UNCHANGED cmds
        /\ answers' = [answers EXCEPT ![Head(control)] = r]
        /\ IF built THEN Replace(b, 0) ELSE UNCHANGED bound
    BY <1>4, Zenon DEF HandleClear, clientVars
  <2>2. r \in Results /\ r \notin {"applied", "superseded"} /\ (r = "cleared" => built)
    BY SMT DEF Results
  <2>3. b \in Buffers
    BY <2>1, TakenCommand
  <2>4. /\ \A c \in Buffers : c # b => bound'[c] = bound[c]
        /\ built => bound'[b] = 0
    BY <2>1, <2>3, ReplacedTypes DEF CoreInv
  <2> QED
    BY <2>1, <2>2, <2>4, TruthAfterCommand
<1>5. ASSUME NEW built \in BOOLEAN, NEW published \in BOOLEAN,
             Commit(built, published)
      PROVE  TruthInv'
  BY <1>5, TruthAfterCommit
<1>6. CASE NoMoreCommands \/ NothingLoaded \/ EndIteration \/ Stop \/ UNCHANGED vars
  BY <1>0, <1>6, Zenon DEF NoMoreCommands, NothingLoaded, EndIteration, Stop, vars,
     clientVars, renderVars
<1>7. CASE LoaderStep
  BY <1>0, <1>7, Zenon DEF LoaderStep, DropOne, AwaitRequest, TakeRequest,
     NoRequest, SendLoaded, SendFails, LoaderExits, clientVars, renderVars
<1> QED
  BY <1>2, <1>3, <1>4, <1>5, <1>6, <1>7 DEF Next, RenderStep

\* The answers of HandleBind, HandleClear and Commit, in every reachable state.
THEOREM TruthInvHolds == Spec => []TruthInv
<1>1. CoreInv /\ TruthInv /\ [Next]_vars => TruthInv'
  BY TruthStep
<1> QED
  BY <1>1, TruthInit, CoreInvHolds, PTL DEF Spec

\* What an answer says, if it is no error, is so until a newer command for the
\* buffer is handled.
THEOREM RepliesAreTrue == Spec => []AnswersAreTruthful
BY TruthInvHolds, TruthIsTold, PTL

-----------------------------------------------------------------------------
\* What waits to be dropped, given the storage that is bound and what has been
\* dropped already: everything once, and before its storage every instance
\* that refers to it.
ReclaimOK(rec, bnd, frd) ==
    /\ \A i, j \in DOMAIN rec :
          rec[i].storage = rec[j].storage => rec[i].storage = 0 \/ i = j
    /\ \A i \in DOMAIN rec : rec[i].storage \notin bnd \cup frd
    /\ bnd \cap frd = {}
    /\ \A i \in DOMAIN rec : \A r \in rec[i].refs :
          r \in bnd \/ \E j \in DOMAIN rec : j > i /\ rec[j].storage = r

Waiting(rec) == {rec[i].storage : i \in DOMAIN rec} \ {0}

\* An instance that refers to bound storage only is retired.
LEMMA RetireInstance ==
    ASSUME NEW S, NEW rec \in Seq(S), NEW bnd, NEW frd,
           NEW o \in S, o.storage = 0, o.refs \subseteq bnd,
           0 \notin bnd, 0 \notin frd, ReclaimOK(rec, bnd, frd)
    PROVE  /\ ReclaimOK(Append(rec, o), bnd, frd)
           /\ Waiting(Append(rec, o)) = Waiting(rec)
<1> DEFINE s == Append(rec, o)
           n == Len(rec) + 1
<1>1. /\ DOMAIN s = DOMAIN rec \cup {n} /\ n \notin DOMAIN rec
      /\ \A i \in DOMAIN rec : s[i] = rec[i]
      /\ s[n] = o
  BY Appended
<1> HIDE DEF s, n
<1>2. /\ \A i, j \in DOMAIN s :
            s[i].storage = s[j].storage => s[i].storage = 0 \/ i = j
      /\ \A i \in DOMAIN s : s[i].storage \notin bnd \cup frd
  BY <1>1, Zenon DEF ReclaimOK
<1>3. \A i \in DOMAIN s : \A r \in s[i].refs :
         r \in bnd \/ \E j \in DOMAIN s : j > i /\ s[j].storage = r
  <2> SUFFICES ASSUME NEW i \in DOMAIN s, NEW r \in s[i].refs, r \notin bnd
               PROVE  \E j \in DOMAIN s : j > i /\ s[j].storage = r
    OBVIOUS
  <2>1. i \in DOMAIN rec /\ r \in rec[i].refs
    BY <1>1, Zenon
  <2>2. PICK j \in DOMAIN rec : j > i /\ rec[j].storage = r
    BY <2>1, Zenon DEF ReclaimOK
  <2> QED
    BY <1>1, <2>2, Zenon
<1>4. Waiting(s) = Waiting(rec)
  BY <1>1 DEF Waiting
<1> QED
  BY <1>2, <1>3, <1>4, Zenon DEF ReclaimOK, s

\* Storage that waits nowhere is retired.
LEMMA RetireStorage ==
    ASSUME NEW S, NEW rec \in Seq(S), NEW bnd, NEW frd,
           NEW e \in S, e.storage # 0, e.refs = {},
           e.storage \notin frd, e.storage \notin Waiting(rec),
           ReclaimOK(rec, bnd, frd)
    PROVE  /\ ReclaimOK(Append(rec, e), bnd \ {e.storage}, frd)
           /\ Waiting(Append(rec, e)) = Waiting(rec) \cup {e.storage}
<1> DEFINE s == Append(rec, e)
           n == Len(rec) + 1
           c == bnd \ {e.storage}
<1>1. /\ DOMAIN s = DOMAIN rec \cup {n} /\ n \notin DOMAIN rec
      /\ \A i \in DOMAIN rec : s[i] = rec[i]
      /\ s[n] = e
  BY Appended
<1>0. \A i \in DOMAIN rec : i < n
  BY SMT
<1> HIDE DEF s, n
<1>2. \A i \in DOMAIN rec : rec[i].storage # e.storage
  BY DEF Waiting
<1>3. \A i, j \in DOMAIN s :
         s[i].storage = s[j].storage => s[i].storage = 0 \/ i = j
  BY <1>1, <1>2, Zenon DEF ReclaimOK
<1>4. \A i \in DOMAIN s : s[i].storage \notin c \cup frd
  BY <1>1, <1>2, Zenon DEF ReclaimOK
<1>5. c \cap frd = {}
  BY DEF ReclaimOK
<1>6. \A i \in DOMAIN s : \A r \in s[i].refs :
         r \in c \/ \E j \in DOMAIN s : j > i /\ s[j].storage = r
  <2> SUFFICES ASSUME NEW i \in DOMAIN s, NEW r \in s[i].refs
               PROVE  r \in c \/ \E j \in DOMAIN s : j > i /\ s[j].storage = r
    OBVIOUS
  <2>1. i \in DOMAIN rec /\ r \in rec[i].refs
    BY <1>1, Zenon
  <2>2. CASE r = e.storage
    <3>1. n > i
      <4>1. i < n
        BY <1>0, <2>1
      <4>2. i \in Nat /\ n \in Nat
        BY <2>1, SMT DEF n
      <4> QED
        BY <4>1, <4>2, SMT
    <3>2. n \in DOMAIN s /\ s[n].storage = r
      BY <1>1, <2>2, Zenon
    <3> QED
      BY <3>1, <3>2
  <2>3. CASE r # e.storage
    <3>1. r \in bnd \/ \E j \in DOMAIN rec : j > i /\ rec[j].storage = r
      BY <2>1, Zenon DEF ReclaimOK
    <3> QED
      BY <1>1, <2>3, <3>1, Zenon
  <2> QED
    BY <2>2, <2>3
<1>7. Waiting(s) = Waiting(rec) \cup {e.storage}
  BY <1>1 DEF Waiting
<1> QED
  BY <1>3, <1>4, <1>5, <1>6, <1>7, Zenon DEF ReclaimOK, s

\* Storage that was neither retired nor dropped is bound.
LEMMA BindStorage ==
    ASSUME NEW rec, NEW bnd, NEW frd, NEW x,
           x \notin frd, x # 0, x \notin Waiting(rec), ReclaimOK(rec, bnd, frd)
    PROVE  ReclaimOK(rec, bnd \cup {x}, frd)
<1>1. \A i \in DOMAIN rec : rec[i].storage # x
  BY DEF Waiting
<1> QED
  BY <1>1, Zenon DEF ReclaimOK

\* Storage that is neither bound nor retired is dropped.
LEMMA FreeStorage ==
    ASSUME NEW rec, NEW bnd, NEW frd, NEW D,
           D \cap bnd = {}, D \cap Waiting(rec) = {}, 0 \notin D,
           ReclaimOK(rec, bnd, frd)
    PROVE  ReclaimOK(rec, bnd, frd \cup D)
<1>1. \A i \in DOMAIN rec : rec[i].storage \notin D
  BY DEF Waiting
<1>2. bnd \cap (frd \cup D) = {}
  BY DEF ReclaimOK
<1> QED
  BY <1>1, <1>2, Zenon DEF ReclaimOK

\* The loader drops the first thing of the channel.
LEMMA DropFirst ==
    ASSUME NEW S, NEW rec \in Seq(S), rec # <<>>, NEW bnd, NEW frd,
           0 \notin frd, ReclaimOK(rec, bnd, frd)
    PROVE  /\ ReclaimOK(Tail(rec), bnd, frd \cup ({Head(rec).storage} \ {0}))
           /\ Waiting(Tail(rec)) \subseteq Waiting(rec)
           /\ {Head(rec).storage} \ {0} \subseteq Waiting(rec)
<1> DEFINE s == Tail(rec)
           g == frd \cup ({rec[1].storage} \ {0})
<1>1. /\ 1 \in DOMAIN rec /\ Head(rec) = rec[1]
      /\ \A i \in DOMAIN s :
            i \in Nat \ {0} /\ i + 1 \in DOMAIN rec /\ s[i] = rec[i + 1]
      /\ s \in Seq(S) /\ Len(s) = Len(rec) - 1
  BY Shortened
<1>2. /\ \A i \in DOMAIN s : i + 1 # 1
      /\ \A i, j \in DOMAIN s : i + 1 = j + 1 => i = j
  BY <1>1, SMT
<1>3. \A i \in DOMAIN s, k \in DOMAIN rec :
         k > i + 1 => \E j \in DOMAIN s : k = j + 1 /\ j > i
  <2> SUFFICES ASSUME NEW i \in DOMAIN s, NEW k \in DOMAIN rec, k > i + 1
               PROVE  \E j \in DOMAIN s : k = j + 1 /\ j > i
    OBVIOUS
  <2>1. i \in Nat /\ k \in 1 .. Len(rec) /\ Len(rec) \in Nat /\ DOMAIN s = 1 .. Len(rec) - 1
    BY <1>1, SMT
  <2> HIDE DEF s
  <2>2. k - 1 \in 1 .. Len(rec) - 1 /\ k = (k - 1) + 1 /\ k - 1 > i
    BY <2>1, SMT
  <2> QED
    BY <2>1, <2>2
<1> HIDE DEF s
<1>4. \A i, j \in DOMAIN s :
         s[i].storage = s[j].storage => s[i].storage = 0 \/ i = j
  <2> SUFFICES ASSUME NEW i \in DOMAIN s, NEW j \in DOMAIN s,
                      s[i].storage = s[j].storage, s[i].storage # 0
               PROVE  i = j
    OBVIOUS
  <2>1. /\ i + 1 \in DOMAIN rec /\ j + 1 \in DOMAIN rec
        /\ rec[i + 1].storage = rec[j + 1].storage /\ rec[i + 1].storage # 0
    BY <1>1, Zenon
  <2>2. i + 1 = j + 1
    BY <2>1, Zenon DEF ReclaimOK
  <2> QED
    BY <1>2, <2>2, Zenon
<1>5. \A i \in DOMAIN s : s[i].storage \notin bnd \cup g
  <2> SUFFICES ASSUME NEW i \in DOMAIN s PROVE s[i].storage \notin bnd \cup g
    OBVIOUS
  <2>1. i + 1 \in DOMAIN rec /\ s[i] = rec[i + 1] /\ i + 1 # 1
    BY <1>1, <1>2
  <2>2. rec[i + 1].storage \notin bnd \cup frd
    BY <2>1, Zenon DEF ReclaimOK
  <2>3. rec[i + 1].storage = rec[1].storage => rec[i + 1].storage = 0
    BY <1>1, <2>1, Zenon DEF ReclaimOK
  <2>4. rec[i + 1].storage \notin {rec[1].storage} \ {0}
    BY <2>3
  <2> QED
    BY <2>1, <2>2, <2>4
<1>6. bnd \cap g = {}
  <2>1. rec[1].storage \notin bnd /\ bnd \cap frd = {}
    BY <1>1, Zenon DEF ReclaimOK
  <2> QED
    BY <2>1
<1>7. \A i \in DOMAIN s : \A r \in s[i].refs :
         r \in bnd \/ \E j \in DOMAIN s : j > i /\ s[j].storage = r
  <2> SUFFICES ASSUME NEW i \in DOMAIN s, NEW r \in s[i].refs, r \notin bnd
               PROVE  \E j \in DOMAIN s : j > i /\ s[j].storage = r
    OBVIOUS
  <2>1. PICK k \in DOMAIN rec : k > i + 1 /\ rec[k].storage = r
    BY <1>1, Zenon DEF ReclaimOK
  <2>2. PICK j \in DOMAIN s : k = j + 1 /\ j > i
    BY <1>3, <2>1
  <2>3. s[j] = rec[k]
    BY <1>1, <2>2
  <2> QED
    BY <2>1, <2>2, <2>3, Zenon
<1>8. Waiting(s) \subseteq Waiting(rec) /\ {rec[1].storage} \ {0} \subseteq Waiting(rec)
  BY <1>1, Zenon DEF Waiting
<1> QED
  BY <1>1, <1>4, <1>5, <1>6, <1>7, <1>8, Zenon DEF ReclaimOK, s

\* The loader ends and drops everything.
LEMMA DropAll ==
    ASSUME NEW rec, NEW bnd, NEW frd, 0 \notin bnd, ReclaimOK(rec, bnd, frd)
    PROVE  /\ ReclaimOK(<<>>, bnd, frd \cup Waiting(rec))
           /\ Waiting(<<>>) = {}
<1>1. DOMAIN <<>> = {}
  BY SMT
<1>2. bnd \cap (frd \cup Waiting(rec)) = {}
  BY DEF ReclaimOK, Waiting
<1> QED
  BY <1>1, <1>2 DEF ReclaimOK, Waiting

-----------------------------------------------------------------------------
Bound == {bound[b] : b \in Buffers} \ {0}

\* The binds whose storage is asked for, loaded, or waits to be committed.
FlightIds == {requests[i].id : i \in DOMAIN requests}
               \cup {completed[i].id : i \in DOMAIN completed}
               \cup ({item.id} \ {0})

\* Storage that has been committed or given up.
Settled == Bound \cup Waiting(reclaim) \cup freed

Handled(x) == x \in DOMAIN cmds /\ x <= newest[BufferOf(x)]

\* The active instance has descriptors of what is bound, no more and no less;
\* what is on its way to be bound is not settled yet.
StorageInv ==
    /\ ReclaimOK(reclaim, Bound, freed)
    /\ instance = Bound
    /\ \A b \in Buffers : bound[b] # 0 => BufferOf(bound[b]) = b
    /\ \A x \in Settled : Handled(x)
    /\ FlightIds \cap Settled = {}

\* There is no storage at first.
LEMMA StorageInit == Init => StorageInv
<1> SUFFICES ASSUME Init PROVE StorageInv
  OBVIOUS
<1>1. requests = <<>> /\ completed = <<>> /\ reclaim = <<>> /\ item.id = 0
  BY SMT DEF Init, NoItem
<1>2. DOMAIN <<>> = {}
  BY SMT
<1>3. freed = {} /\ instance = {} /\ \A b \in Buffers : bound[b] = 0
  BY DEF Init
<1>4. Bound = {}
  BY <1>3 DEF Bound
<1>5. Waiting(reclaim) = {} /\ FlightIds = {}
  BY <1>1, <1>2 DEF Waiting, FlightIds
<1>6. ReclaimOK(reclaim, Bound, freed)
  BY <1>1, <1>2, <1>3, <1>4 DEF ReclaimOK
<1> QED
  BY <1>3, <1>4, <1>5, <1>6 DEF StorageInv, Settled

\* The newest command of a buffer only becomes a newer one.
LEMMA HandledStays ==
    ASSUME CoreInv, [Next]_vars
    PROVE  \A x : Handled(x) => Handled(x)'
<1>0. /\ DOMAIN cmds \subseteq DOMAIN cmds'
      /\ \A id \in DOMAIN cmds : cmds'[id] = cmds[id]
  BY CommandsGrow DEF CoreInv
<1>1. CASE UNCHANGED newest
  BY <1>0, <1>1, Zenon DEF Handled, BufferOf
<1>2. ASSUME NEW op, TakeCommand(op)
      PROVE  \A x : Handled(x) => Handled(x)'
  <2> SUFFICES ASSUME NEW x, Handled(x) PROVE Handled(x)'
    OBVIOUS
  <2>1. x \in DOMAIN cmds /\ x <= newest[BufferOf(x)] /\ BufferOf(x) \in Buffers
    BY CommandNumbers DEF Handled, CoreInv, TypeOK
  <2>2. /\ newest'[BufferOf(x)] =
              IF BufferOf(x) = BufferOf(Head(control)) THEN Head(control)
              ELSE newest[BufferOf(x)]
        /\ newest[BufferOf(Head(control))] < Head(control)
        /\ Head(control) \in DOMAIN cmds
    BY <1>2, <2>1, TakenCommand
  <2> DEFINE h == Head(control)
             n == newest[BufferOf(x)]
  <2>3. x \in Nat /\ n \in Nat /\ h \in Nat
    BY <2>1, <2>2, Numbers DEF CoreInv
  <2>4. CASE BufferOf(x) = BufferOf(h)
    <3>1. x <= n /\ n < h /\ newest'[BufferOf(x)] = h
      BY <2>1, <2>2, <2>4
    <3> HIDE DEF n, h
    <3>2. x <= h
      BY <2>3, <3>1, SMT
    <3> QED
      BY <1>0, <2>1, <3>1, <3>2, Zenon DEF Handled, BufferOf
  <2>5. CASE BufferOf(x) # BufferOf(h)
    BY <1>0, <2>1, <2>2, <2>5, Zenon DEF Handled, BufferOf
  <2> QED
    BY <2>4, <2>5
<1>3. UNCHANGED newest \/ \E op : TakeCommand(op)
  <2>1. CASE HandlerStep
    <3>1. QuietStep \/ \E c \in Commands : Sends(c)
      BY <2>1, ReadSends DEF HandlerStep, QuietStep
    <3> QED
      BY <3>1, QuietFrame, Zenon DEF Sends, renderVars
  <2>2. CASE RenderStep
    BY <2>2, Zenon DEF RenderStep, HandleBind, HandleClear, Commit,
       NoMoreCommands, NothingLoaded, EndIteration
  <2>3. CASE LoaderStep
    BY <2>3, Zenon DEF LoaderStep, DropOne, AwaitRequest, TakeRequest,
       NoRequest, SendLoaded, SendFails, LoaderExits, renderVars
  <2>4. CASE Stop \/ UNCHANGED vars
    BY <2>4, Zenon DEF Stop, vars, renderVars
  <2> QED
    BY <2>1, <2>2, <2>3, <2>4 DEF Next
<1> QED
  BY <1>1, <1>2, <1>3

\* A bind on its way was handled.
LEMMA FlightHandled ==
    ASSUME CoreInv
    PROVE  /\ \A x \in FlightIds : Handled(x) /\ x # 0
           /\ wpc # "send" => item.id = 0
<1>1. 0 \notin DOMAIN cmds
  BY CommandNumbers DEF CoreInv, TypeOK
<1>2. NoItem.id = 0
  BY SMT DEF NoItem
<1>3. wpc # "send" => item.id = 0
  BY <1>2, Zenon DEF CoreInv, PipelineInv
<1>4. \A f : Tracked(f, cmds, newest, revisions) => Handled(f.id) /\ f.id # 0
  BY <1>1, Zenon DEF Tracked, Handled, BufferOf
<1>5. item.id # 0 => Tracked(item, cmds, newest, revisions)
  BY <1>3, Zenon DEF CoreInv, RevisionInv
<1> QED
  BY <1>3, <1>4, <1>5, Zenon DEF FlightIds, CoreInv, RevisionInv

\* What a step has to show: only what it settles itself is new.
LEMMA StorageFrom ==
    ASSUME CoreInv, StorageInv, [Next]_vars,
           NEW X, \A x \in X : Handled(x),
           ReclaimOK(reclaim, Bound, freed)', (instance = Bound)',
           \A b \in Buffers : bound'[b] # 0 =>
              bound'[b] \in DOMAIN cmds /\ BufferOf(bound'[b]) = b,
           Settled' \subseteq Settled \cup X,
           \A x \in FlightIds' : (x \in FlightIds \/ ~Handled(x)) /\ x \notin X
    PROVE  StorageInv'
<1>1. \A x \in Settled' : Handled(x)'
  BY HandledStays DEF StorageInv
<1>2. FlightIds' \cap Settled' = {}
  <2> SUFFICES ASSUME NEW x \in FlightIds', x \in Settled' PROVE FALSE
    OBVIOUS
  <2>1. x \in Settled /\ Handled(x)
    BY DEF StorageInv
  <2> QED
    BY <2>1 DEF StorageInv
<1>3. (\A b \in Buffers : bound[b] # 0 => BufferOf(bound[b]) = b)'
  BY CommandsGrow, Zenon DEF CoreInv, BufferOf
<1> QED
  BY <1>1, <1>2, <1>3, Zenon DEF StorageInv

\* A step that settles nothing.
LEMMA StorageFrame ==
    ASSUME CoreInv, StorageInv, [Next]_vars,
           UNCHANGED <<bound, instance, reclaim, freed>>,
           \A x \in FlightIds' : x \in FlightIds \/ ~Handled(x)
    PROVE  StorageInv'
<1>1. Bound' = Bound /\ Settled' = Settled
  BY DEF Bound, Settled
<1>2. /\ ReclaimOK(reclaim, Bound, freed)'
      /\ (instance = Bound)'
  BY <1>1, Zenon DEF StorageInv
<1>3. \A b \in Buffers : bound'[b] # 0 =>
         bound'[b] \in DOMAIN cmds /\ BufferOf(bound'[b]) = b
  BY DEF StorageInv, CoreInv, TypeOK, RenderOK
<1> DEFINE X == {}
<1>4. \A x \in X : Handled(x)
  OBVIOUS
<1>5. Settled' \subseteq Settled \cup X
  BY <1>1, Zenon
<1>6. \A x \in FlightIds' : (x \in FlightIds \/ ~Handled(x)) /\ x \notin X
  OBVIOUS
<1> HIDE DEF X
<1> QED
  BY <1>2, <1>3, <1>4, <1>5, <1>6, StorageFrom, Zenon

\* Nothing is dropped, waits or is bound that is no storage.
LEMMA NoStorageIsSettled ==
    ASSUME CoreInv
    PROVE  0 \notin Bound /\ 0 \notin freed /\ 0 \notin Waiting(reclaim)
<1>1. 0 \notin freed
  BY CommandNumbers DEF CoreInv, TypeOK, QueuesOK
<1> QED
  BY <1>1 DEF Bound, Waiting

\* The storage of a buffer is replaced: the instance that refers to all that
\* was bound is retired first, then the storage, then the new one is bound.
LEMMA ReplaceIsSafe ==
    ASSUME CoreInv, StorageInv, NEW b \in Buffers,
           NEW x \in {0} \cup DOMAIN cmds, Replace(b, x),
           reclaim' = reclaim \o Retired(instance, bound[b]), UNCHANGED freed,
           x # 0 => x \notin Settled /\ BufferOf(x) = b
    PROVE  /\ ReclaimOK(reclaim, Bound, freed)' /\ (instance = Bound)'
           /\ \A c \in Buffers : bound'[c] # 0 =>
                 bound'[c] \in DOMAIN cmds /\ BufferOf(bound'[c]) = c
           /\ Settled' \subseteq Settled \cup ({x} \ {0})
<1> DEFINE old == bound[b]
           s == Append(reclaim, OldInstance)
           t == Append(s, StorageItem(old))
<1>1. /\ \A c \in Buffers : bound'[c] = IF c = b THEN x ELSE bound[c]
      /\ (instance = Bound)'
  BY ReplacedTypes DEF CoreInv, Bound
<1>2. /\ old \in {0} \cup DOMAIN cmds
      /\ \A c \in Buffers : bound[c] \in {0} \cup DOMAIN cmds
  BY DEF CoreInv, TypeOK, RenderOK
<1>3. \A c \in Buffers : bound[c] = old => old = 0 \/ c = b
  BY DEF StorageInv
<1>4. Bound' = (Bound \ {old}) \cup ({x} \ {0})
  <2>1. ASSUME NEW y \in Bound' PROVE y \in (Bound \ {old}) \cup ({x} \ {0})
    BY <1>1, <1>3, <2>1 DEF Bound
  <2>2. ASSUME NEW y \in Bound \ {old} PROVE y \in Bound'
    BY <1>1, <2>2 DEF Bound
  <2>3. x # 0 => x \in Bound'
    BY <1>1 DEF Bound
  <2> QED
    BY <2>1, <2>2, <2>3
<1>5. /\ OldInstance \in Reclaimables /\ StorageItem(old) \in Reclaimables
      /\ reclaim \in Seq(Reclaimables)
  BY <1>2, ReclaimTypes DEF CoreInv
<1>6. reclaim' = IF old = 0 THEN s ELSE t
  <2>1. reclaim \o Retired(instance, old) = IF old = 0 THEN s ELSE t
    BY <1>5, RetiredIsAppended, ZenonT(60)
  <2> QED
    BY <2>1
<1>7. ReclaimOK(s, Bound, freed) /\ Waiting(s) = Waiting(reclaim)
  <2>1. OldInstance.storage = 0 /\ OldInstance.refs \subseteq Bound
    BY SMT DEF OldInstance, StorageInv
  <2> QED
    BY <1>5, <2>1, NoStorageIsSettled, RetireInstance DEF StorageInv
<1>8. CASE old = 0
  <2>1. reclaim' = s /\ Bound' = Bound \cup ({x} \ {0})
    <3>1. Bound \ {old} = Bound
      BY <1>8, NoStorageIsSettled
    <3> QED
      BY <1>4, <1>6, <1>8, <3>1, Zenon
  <2>2. ReclaimOK(s, Bound', freed)
    <3>1. CASE x = 0
      <4>1. Bound' = Bound
        BY <2>1, <3>1
      <4> QED
        BY <1>7, <4>1, Zenon
    <3>2. CASE x # 0
      <4>1. Bound' = Bound \cup {x}
        BY <2>1, <3>2
      <4>2. x \notin freed /\ x \notin Waiting(s)
        BY <1>7, <3>2 DEF Settled
      <4>3. ReclaimOK(s, Bound \cup {x}, freed)
        BY <1>7, <3>2, <4>2, BindStorage, Zenon
      <4> QED
        BY <4>1, <4>3, Zenon
    <3> QED
      BY <3>1, <3>2
  <2>3. Settled' \subseteq Settled \cup ({x} \ {0})
    <3>1. Waiting(reclaim)' = Waiting(reclaim)
      BY <1>7, <2>1, Zenon
    <3> QED
      BY <2>1, <3>1 DEF Settled
  <2>4. ReclaimOK(reclaim, Bound, freed)'
    BY <2>1, <2>2, Zenon
  <2> QED
    BY <1>1, <1>2, <2>3, <2>4 DEF StorageInv
<1>9. CASE old # 0
  <2>0. old \in Bound
    BY <1>9 DEF Bound
  <2>1. old \notin freed /\ old \notin Waiting(s)
    BY <1>7, <2>0 DEF StorageInv, ReclaimOK, Waiting
  <2>2. /\ ReclaimOK(t, Bound \ {old}, freed)
        /\ Waiting(t) = Waiting(reclaim) \cup {old}
    <3>1. StorageItem(old).storage = old /\ StorageItem(old).refs = {}
      BY SMT DEF StorageItem
    <3>2. s \in Seq(Reclaimables)
      BY <1>5, Appended
    <3> HIDE DEF s
    <3> QED
      BY <1>5, <1>7, <1>9, <2>1, <3>1, <3>2, RetireStorage, SMTT(60)
  <2>3. ReclaimOK(t, Bound', freed)
    <3>1. CASE x = 0
      <4>1. Bound' = Bound \ {old}
        BY <1>4, <3>1
      <4> QED
        BY <2>2, <4>1, Zenon
    <3>2. CASE x # 0
      <4>1. Bound' = (Bound \ {old}) \cup {x}
        BY <1>4, <3>2
      <4>2. x \notin freed /\ x \notin Waiting(t)
        BY <2>0, <2>2, <3>2 DEF Settled
      <4>3. ReclaimOK(t, (Bound \ {old}) \cup {x}, freed)
        BY <2>2, <3>2, <4>2, BindStorage, Zenon
      <4> QED
        BY <4>1, <4>3, Zenon
    <3> QED
      BY <3>1, <3>2
  <2>4. reclaim' = t
    BY <1>6, <1>9
  <2>5. Settled' \subseteq Settled \cup ({x} \ {0})
    <3>1. Waiting(reclaim)' = Waiting(reclaim) \cup {old}
      BY <2>2, <2>4, Zenon
    <3> QED
      BY <1>4, <2>0, <3>1 DEF Settled
  <2>6. ReclaimOK(reclaim, Bound, freed)'
    BY <2>3, <2>4, Zenon
  <2> QED
    BY <1>1, <1>2, <2>5, <2>6 DEF StorageInv
<1> QED
  BY <1>8, <1>9

\* Loaded storage that is not committed is given up.
LEMMA DiscardIsSafe ==
    ASSUME CoreInv, StorageInv, NEW x \in DOMAIN cmds, x \notin Settled,
           reclaim' = reclaim \o Storage(x), UNCHANGED <<bound, instance, freed>>
    PROVE  /\ ReclaimOK(reclaim, Bound, freed)' /\ (instance = Bound)'
           /\ Settled' \subseteq Settled \cup {x}
<1>1. x # 0 /\ x \in {0} \cup DOMAIN cmds
  BY CommandNumbers DEF CoreInv, TypeOK
<1>2. /\ OldInstance \in Reclaimables /\ StorageItem(x) \in Reclaimables
      /\ reclaim \in Seq(Reclaimables)
  BY <1>1, ReclaimTypes DEF CoreInv
<1>3. reclaim' = Append(reclaim, StorageItem(x))
  BY <1>1, <1>2, RetiredIsAppended
<1>4. StorageItem(x).storage = x /\ StorageItem(x).refs = {}
  BY SMT DEF StorageItem
<1>5. x \notin freed /\ x \notin Waiting(reclaim) /\ Bound \ {x} = Bound
  BY DEF Settled
<1>6. /\ ReclaimOK(reclaim', Bound \ {x}, freed)
      /\ Waiting(reclaim') = Waiting(reclaim) \cup {x}
  BY <1>1, <1>2, <1>3, <1>4, <1>5, RetireStorage DEF StorageInv
<1>7. Bound' = Bound
  BY DEF Bound
<1>8. Settled' \subseteq Settled \cup {x}
  BY <1>6, <1>7 DEF Settled
<1> QED
  BY <1>5, <1>6, <1>7, <1>8, Zenon DEF StorageInv

\* The bindings of the present state are of the buffers they are bound to.
LEMMA BindingsAreTyped ==
    ASSUME CoreInv, StorageInv
    PROVE  \A b \in Buffers : bound[b] # 0 =>
              bound[b] \in DOMAIN cmds /\ BufferOf(bound[b]) = b
BY DEF CoreInv, TypeOK, RenderOK, StorageInv

\* Where a bind is, it is nowhere else.
LEMMA FlightIsDistinct ==
    ASSUME CoreInv
    PROVE  /\ \A i \in DOMAIN completed :
                 /\ completed[i].id \notin {requests[k].id : k \in DOMAIN requests}
                 /\ completed[i].id \notin {item.id} \ {0}
           /\ item.id \notin {requests[k].id : k \in DOMAIN requests}
           /\ item.id \notin {completed[k].id : k \in DOMAIN completed}
BY Zenon DEF CoreInv, PipelineInv

\* Commit binds the loaded storage, or discards it, and settles it either way.
LEMMA CommitIsSafe ==
    ASSUME CoreInv, StorageInv, [Next]_vars,
           NEW built \in BOOLEAN, NEW published \in BOOLEAN,
           Commit(built, published)
    PROVE  StorageInv'
<1> DEFINE x == Head(completed).id
           b == BufferOf(x)
<1>1. /\ completed # <<>> /\ UNCHANGED <<requests, item, freed>>
  BY Zenon DEF Commit, loaderVars
<1>2. /\ Head(completed) = completed[1] /\ DOMAIN completed = {1}
      /\ x \in DOMAIN cmds /\ b \in Buffers /\ completed' = <<>>
  BY LoadedTypes DEF Commit
<1>3. x \in FlightIds /\ Handled(x) /\ x # 0
  <2>1. x \in FlightIds
    BY <1>2 DEF FlightIds
  <2> QED
    BY <2>1, FlightHandled
<1>4. FlightIds' \subseteq FlightIds /\ x \notin FlightIds'
  <2>1. {completed'[i].id : i \in DOMAIN completed'} = {}
    <3>1. DOMAIN <<>> = {}
      BY SMT
    <3> QED
      BY <1>2, <3>1
  <2>2. x \notin {requests[k].id : k \in DOMAIN requests} /\ x \notin {item.id} \ {0}
    BY <1>2, FlightIsDistinct
  <2> QED
    BY <1>1, <2>1, <2>2 DEF FlightIds
<1>5. x \notin Settled
  BY <1>3 DEF StorageInv
<1>6. CASE Replace(b, x) /\ reclaim' = reclaim \o Retired(instance, bound[b])
  <2>1. /\ ReclaimOK(reclaim, Bound, freed)' /\ (instance = Bound)'
        /\ \A c \in Buffers : bound'[c] # 0 =>
              bound'[c] \in DOMAIN cmds /\ BufferOf(bound'[c]) = c
        /\ Settled' \subseteq Settled \cup ({x} \ {0})
    BY <1>1, <1>2, <1>5, <1>6, ReplaceIsSafe
  <2>2. Settled' \subseteq Settled \cup {x}
    BY <2>1
  <2>3. /\ \A y \in {x} : Handled(y)
        /\ \A y \in FlightIds' : (y \in FlightIds \/ ~Handled(y)) /\ y \notin {x}
    BY <1>3, <1>4
  <2> QED
    BY <2>1, <2>2, <2>3, StorageFrom
<1>7. CASE UNCHANGED <<bound, instance>> /\ reclaim' = reclaim \o Storage(x)
  <2>1. /\ ReclaimOK(reclaim, Bound, freed)' /\ (instance = Bound)'
        /\ Settled' \subseteq Settled \cup {x}
    BY <1>1, <1>2, <1>5, <1>7, DiscardIsSafe
  <2>2. \A c \in Buffers : bound'[c] # 0 =>
           bound'[c] \in DOMAIN cmds /\ BufferOf(bound'[c]) = c
    BY <1>7, BindingsAreTyped
  <2>3. /\ \A y \in {x} : Handled(y)
        /\ \A y \in FlightIds' : (y \in FlightIds \/ ~Handled(y)) /\ y \notin {x}
    BY <1>3, <1>4
  <2> QED
    BY <2>1, <2>2, <2>3, StorageFrom
<1>8. CASE UNCHANGED <<bound, instance>> /\ reclaim' = reclaim \o Storage(0)
  <2>1. Storage(0) = <<>> /\ reclaim \in Seq(Reclaimables)
    BY DEF Storage, CoreInv, TypeOK, QueuesOK, Reclaimables
  <2>2. reclaim' = reclaim
    BY <1>8, <2>1, ConcatEmptySeq
  <2> QED
    BY <1>1, <1>4, <1>8, <2>2, StorageFrame
<1>9. \/ Replace(b, x) /\ reclaim' = reclaim \o Retired(instance, bound[b])
      \/ UNCHANGED <<bound, instance>> /\ reclaim' = reclaim \o Storage(x)
      \/ UNCHANGED <<bound, instance>> /\ reclaim' = reclaim \o Storage(0)
  BY Zenon DEF Commit
<1> QED
  BY <1>6, <1>7, <1>8, <1>9

\* HandleClear retires what was bound together with the instance.
LEMMA ClearIsSafe ==
    ASSUME CoreInv, StorageInv, [Next]_vars,
           NEW built \in BOOLEAN, NEW published \in BOOLEAN,
           HandleClear(built, published)
    PROVE  StorageInv'
<1> DEFINE b == BufferOf(Head(control))
<1>1. UNCHANGED <<requests, completed, item, freed>> /\ TakeCommand("clear")
  BY Zenon DEF HandleClear, loaderVars
<1>2. b \in Buffers /\ FlightIds' = FlightIds
  BY <1>1, TakenCommand DEF FlightIds
<1>3. CASE Replace(b, 0) /\ reclaim' = reclaim \o Retired(instance, bound[b])
  <2> DEFINE X == {0} \ {0}
  <2>1. /\ ReclaimOK(reclaim, Bound, freed)' /\ (instance = Bound)'
        /\ \A c \in Buffers : bound'[c] # 0 =>
              bound'[c] \in DOMAIN cmds /\ BufferOf(bound'[c]) = c
        /\ Settled' \subseteq Settled \cup X
    BY <1>1, <1>2, <1>3, ReplaceIsSafe
  <2>2. /\ \A y \in X : Handled(y)
        /\ \A y \in FlightIds' : (y \in FlightIds \/ ~Handled(y)) /\ y \notin X
    BY <1>2
  <2> HIDE DEF X
  <2> QED
    BY <2>1, <2>2, StorageFrom
<1>4. CASE UNCHANGED <<bound, instance, reclaim>>
  BY <1>1, <1>2, <1>4, StorageFrame
<1> QED
  BY <1>3, <1>4, Zenon DEF HandleClear

\* A bind that is taken was not handled before.
LEMMA BindIsSafe ==
    ASSUME CoreInv, StorageInv, [Next]_vars, HandleBind
    PROVE  StorageInv'
<1>1. /\ UNCHANGED <<bound, instance, reclaim, freed, completed, item>>
      /\ TakeCommand("bind") /\ Invalidate(BufferOf(Head(control)))
  BY Zenon DEF HandleBind, loaderVars
<1>2. ~Handled(Head(control))
  <2>1. newest[BufferOf(Head(control))] < Head(control)
        /\ newest[BufferOf(Head(control))] \in Nat /\ Head(control) \in Nat
    BY <1>1, TakenCommand, Numbers DEF CoreInv
  <2> DEFINE n == newest[BufferOf(Head(control))]
             h == Head(control)
  <2>2. n < h /\ n \in Nat /\ h \in Nat
    BY <2>1
  <2> HIDE DEF n, h
  <2>3. ~(h <= n)
    BY <2>2, SMT
  <2> QED
    BY <2>3 DEF Handled, n, h
<1>3. \A i \in DOMAIN requests' :
         requests'[i].id \in {requests[k].id : k \in DOMAIN requests} \cup {Head(control)}
  <2> DEFINE e == [id |-> Head(control),
                   revision |-> revisions'[BufferOf(Head(control))]]
  <2>1. e \in Requests /\ requests \in Seq(Requests)
    BY <1>1, TakenCommand, NewRevision, Zenon
       DEF CoreInv, TypeOK, QueuesOK, Requests
  <2>2. CASE requests' = Append(requests, e)
    <3>1. /\ DOMAIN requests' = DOMAIN requests \cup {Len(requests) + 1}
          /\ \A i \in DOMAIN requests : requests'[i] = requests[i]
          /\ requests'[Len(requests) + 1] = e
      BY <2>1, <2>2, Appended
    <3>2. e.id = Head(control)
      BY SMT
    <3> HIDE DEF e
    <3> QED
      BY <3>1, <3>2, Zenon
  <2>3. CASE UNCHANGED requests
    BY <2>3
  <2> QED
    BY <2>2, <2>3, Zenon DEF HandleBind
<1>4. \A x \in FlightIds' : x \in FlightIds \/ ~Handled(x)
  BY <1>1, <1>2, <1>3 DEF FlightIds
<1> QED
  BY <1>1, <1>4, StorageFrame

\* A thread that ends drops what its channels hold.
LEMMA ExitIsSafe ==
    ASSUME CoreInv, StorageInv, [Next]_vars, EndIteration
    PROVE  StorageInv'
<1>1. UNCHANGED <<bound, instance, reclaim, requests, item>>
  BY Zenon DEF EndIteration, loaderVars
<1>2. CASE UNCHANGED <<freed, completed>>
  <2>1. FlightIds' = FlightIds
    BY <1>1, <1>2 DEF FlightIds
  <2> QED
    BY <1>1, <1>2, <2>1, StorageFrame
<1>3. CASE /\ completed' = <<>>
           /\ freed' = freed \cup {completed[i].id :
                         i \in {k \in DOMAIN completed : completed[k].ok}}
  <2> DEFINE D == {completed[i].id : i \in {k \in DOMAIN completed : completed[k].ok}}
  <2>1. D \subseteq {completed[i].id : i \in DOMAIN completed}
    OBVIOUS
  <2>2. D \subseteq FlightIds
    BY <2>1 DEF FlightIds
  <2>3. D \cap Settled = {} /\ 0 \notin D
    BY <2>2, FlightHandled DEF StorageInv
  <2>4. FlightIds' \subseteq FlightIds /\ D \cap FlightIds' = {}
    <3>1. {completed'[i].id : i \in DOMAIN completed'} = {}
      <4>1. DOMAIN <<>> = {}
        BY SMT
      <4> QED
        BY <1>3, <4>1
    <3>2. \A x \in D : x \notin {requests[k].id : k \in DOMAIN requests}
                       /\ x \notin {item.id} \ {0}
      BY <2>1, FlightIsDistinct
    <3> HIDE DEF D
    <3> QED
      BY <1>1, <3>1, <3>2 DEF FlightIds
  <2>5. freed' = freed \cup D
    BY <1>3
  <2> HIDE DEF D
  <2>6. Bound' = Bound /\ Waiting(reclaim)' = Waiting(reclaim)
    BY <1>1 DEF Bound, Waiting
  <2>7. Settled' \subseteq Settled \cup D
    BY <2>5, <2>6 DEF Settled
  <2>8. ReclaimOK(reclaim, Bound, freed \cup D)
    BY <2>3, FreeStorage DEF StorageInv, Settled
  <2>9. ReclaimOK(reclaim, Bound, freed)' /\ (instance = Bound)'
    BY <1>1, <2>5, <2>6, <2>8, Zenon DEF StorageInv
  <2>10. \A c \in Buffers : bound'[c] # 0 =>
            bound'[c] \in DOMAIN cmds /\ BufferOf(bound'[c]) = c
    BY <1>1, BindingsAreTyped
  <2>11. /\ \A x \in D : Handled(x)
         /\ \A x \in FlightIds' : (x \in FlightIds \/ ~Handled(x)) /\ x \notin D
    BY <2>2, <2>4, FlightHandled
  <2> QED
    BY <2>7, <2>9, <2>10, <2>11, StorageFrom
<1> QED
  BY <1>2, <1>3, Zenon DEF EndIteration

\* The loader drops the oldest thing: by then nothing refers to it.
LEMMA DropIsSafe ==
    ASSUME CoreInv, StorageInv, [Next]_vars, DropOne
    PROVE  StorageInv'
<1>1. /\ UNCHANGED <<bound, instance, requests, completed, item>>
      /\ reclaim # <<>> /\ reclaim' = Tail(reclaim)
      /\ freed' = freed \cup ({Head(reclaim).storage} \ {0})
  BY Zenon DEF DropOne, renderVars, loaderVars
<1>2. reclaim \in Seq(Reclaimables)
  BY DEF CoreInv, TypeOK, QueuesOK, Reclaimables
<1>3. /\ ReclaimOK(reclaim', Bound, freed')
      /\ Waiting(reclaim') \subseteq Waiting(reclaim)
      /\ {Head(reclaim).storage} \ {0} \subseteq Waiting(reclaim)
  BY <1>1, <1>2, NoStorageIsSettled, DropFirst DEF StorageInv
<1>4. Bound' = Bound /\ FlightIds' = FlightIds
  BY <1>1 DEF Bound, FlightIds
<1> DEFINE X == {}
<1>5. Settled' \subseteq Settled \cup X
  <2> DEFINE E == {Head(reclaim).storage} \ {0}
  <2>1. freed' = freed \cup E /\ E \subseteq Waiting(reclaim)
    BY <1>1, <1>3
  <2> HIDE DEF E
  <2> QED
    BY <1>3, <1>4, <2>1 DEF Settled
<1>6. ReclaimOK(reclaim, Bound, freed)' /\ (instance = Bound)'
  BY <1>1, <1>3, <1>4, Zenon DEF StorageInv
<1>7. /\ \A x \in X : Handled(x)
      /\ \A x \in FlightIds' : (x \in FlightIds \/ ~Handled(x)) /\ x \notin X
  BY <1>4
<1>8. \A c \in Buffers : bound'[c] # 0 =>
         bound'[c] \in DOMAIN cmds /\ BufferOf(bound'[c]) = c
  BY <1>1, BindingsAreTyped
<1> HIDE DEF X
<1> QED
  BY <1>5, <1>6, <1>7, <1>8, StorageFrom

\* A loader that ends drops what is left, and what it held itself.
LEMMA LoaderEndIsSafe ==
    ASSUME CoreInv, StorageInv, [Next]_vars, SendFails \/ LoaderExits
    PROVE  StorageInv'
<1> DEFINE X == {item.id} \ {0}
<1>1. PICK D \in SUBSET X :
         /\ ExitLoader(D) /\ item' = NoItem
         /\ UNCHANGED <<bound, instance, completed>>
  <2>1. CASE SendFails
    <3>1. /\ ExitLoader(IF item.ok THEN {item.id} ELSE {}) /\ item' = NoItem
          /\ UNCHANGED <<bound, instance, completed>> /\ wpc = "send"
      BY <2>1, Zenon DEF SendFails, renderVars
    <3>2. item.id # 0
      <4>1. Tracked(item, cmds, newest, revisions)
        BY <3>1 DEF CoreInv, RevisionInv
      <4> QED
        BY <4>1, CommandNumbers DEF CoreInv, TypeOK, Tracked
    <3>3. (IF item.ok THEN {item.id} ELSE {}) \in SUBSET X
      BY <3>2
    <3> QED
      BY <3>1, <3>3, Zenon
  <2>2. CASE LoaderExits
    <3>1. /\ ExitLoader({}) /\ UNCHANGED <<bound, instance, completed, item>>
          /\ wpc = "receive"
      BY <2>2, Zenon DEF LoaderExits, renderVars
    <3>2. "receive" # "send"
      BY SMT
    <3>3. item = NoItem
      BY <3>1, <3>2, Zenon DEF CoreInv, PipelineInv
    <3>4. {} \in SUBSET X
      OBVIOUS
    <3> QED
      BY <3>1, <3>3, <3>4, Zenon
  <2> QED
    BY <2>1, <2>2
<1>2. /\ reclaim' = <<>> /\ requests' = <<>>
      /\ freed' = freed \cup Waiting(reclaim) \cup D
  BY <1>1, Zenon DEF ExitLoader, Reclaimed, Waiting
<1>3. X \subseteq FlightIds
  BY DEF FlightIds
<1>4. FlightIds' \subseteq FlightIds /\ X \cap FlightIds' = {}
  <2>1. {requests'[i].id : i \in DOMAIN requests'} = {}
    <3>1. DOMAIN <<>> = {}
      BY SMT
    <3> QED
      BY <1>2, <3>1
  <2>2. item'.id = 0
    BY <1>1, SMT DEF NoItem
  <2>3. \A x \in X : x \notin {completed[k].id : k \in DOMAIN completed}
    BY FlightIsDistinct
  <2> HIDE DEF X
  <2> QED
    BY <1>1, <2>1, <2>2, <2>3 DEF FlightIds
<1>5. Bound' = Bound
  BY <1>1 DEF Bound
<1>6. X \cap Settled = {} /\ 0 \notin X
  BY <1>3, FlightHandled DEF StorageInv
<1> HIDE DEF X
<1>7. /\ ReclaimOK(<<>>, Bound, freed \cup Waiting(reclaim))
      /\ Waiting(<<>>) = {}
  BY NoStorageIsSettled, DropAll DEF StorageInv
<1>8. ReclaimOK(<<>>, Bound, (freed \cup Waiting(reclaim)) \cup D)
  <2>1. D \cap Bound = {} /\ D \cap Waiting(<<>>) = {} /\ 0 \notin D
    BY <1>6, <1>7 DEF Settled
  <2> QED
    BY <1>7, <2>1, FreeStorage
<1>9. ReclaimOK(reclaim, Bound, freed)' /\ (instance = Bound)'
  BY <1>1, <1>2, <1>5, <1>8, Zenon DEF StorageInv
<1>10. Settled' \subseteq Settled \cup X
  <2>1. Waiting(reclaim)' = {}
    BY <1>2, <1>7, Zenon
  <2> QED
    BY <1>2, <1>5, <2>1 DEF Settled
<1>11. /\ \A x \in X : Handled(x)
       /\ \A x \in FlightIds' : (x \in FlightIds \/ ~Handled(x)) /\ x \notin X
  BY <1>3, <1>4, FlightHandled
<1>12. \A c \in Buffers : bound'[c] # 0 =>
          bound'[c] \in DOMAIN cmds /\ BufferOf(bound'[c]) = c
  BY <1>1, BindingsAreTyped
<1> QED
  BY <1>9, <1>10, <1>11, <1>12, StorageFrom

\* Every step leaves storage with one owner until nothing refers to it.
LEMMA StorageStep ==
    ASSUME CoreInv, StorageInv, [Next]_vars
    PROVE  StorageInv'
<1>0. ASSUME UNCHANGED <<bound, instance, reclaim, freed>>, FlightIds' \subseteq FlightIds
      PROVE  StorageInv'
  BY <1>0, StorageFrame
<1>1. CASE HandlerStep
  <2>1. QuietStep \/ \E c \in Commands : Sends(c)
    BY <1>1, ReadSends DEF HandlerStep, QuietStep
  <2>2. UNCHANGED <<bound, instance, reclaim, freed, requests, completed, item>>
    BY <2>1, QuietFrame, Zenon DEF Sends, renderVars, loaderVars, channelVars
  <2> QED
    BY <1>0, <2>2 DEF FlightIds
<1>2. CASE NoMoreCommands \/ NothingLoaded \/ AwaitRequest \/ NoRequest \/ Stop
           \/ UNCHANGED vars
  <2>1. UNCHANGED <<bound, instance, reclaim, freed, requests, completed, item>>
    BY <1>2, Zenon DEF NoMoreCommands, NothingLoaded, AwaitRequest, NoRequest, Stop,
       vars, renderVars, loaderVars, channelVars
  <2> QED
    BY <1>0, <2>1 DEF FlightIds
<1>3. ASSUME NEW ok \in BOOLEAN, TakeRequest(ok)
      PROVE  StorageInv'
  <2>1. /\ requests # <<>> /\ requests' = Tail(requests)
        /\ UNCHANGED <<bound, instance, reclaim, freed, completed>>
        /\ item' = [id |-> Head(requests).id, revision |-> Head(requests).revision, ok |-> ok]
    BY <1>3, Zenon DEF TakeRequest, renderVars
  <2>2. /\ 1 \in DOMAIN requests /\ item'.id = requests[1].id
        /\ \A i \in DOMAIN requests' :
              i + 1 \in DOMAIN requests /\ requests'[i] = requests[i + 1]
    BY <2>1, TakenRequest, Zenon DEF CoreInv
  <2>3. FlightIds' \subseteq FlightIds
    BY <2>1, <2>2 DEF FlightIds
  <2> QED
    BY <1>0, <2>1, <2>3
<1>4. CASE SendLoaded
  <2>1. /\ UNCHANGED <<bound, instance, reclaim, freed, requests>>
        /\ completed' = <<item>> /\ item' = NoItem /\ wpc = "send"
    BY <1>4, Zenon DEF SendLoaded, renderVars
  <2>2. {completed'[i].id : i \in DOMAIN completed'} = {item.id} /\ item'.id = 0
    <3>1. DOMAIN <<item>> = {1} /\ <<item>>[1] = item /\ NoItem.id = 0
      BY SMT DEF NoItem
    <3> QED
      BY <2>1, <3>1
  <2>3. item.id # 0
    <3>1. Tracked(item, cmds, newest, revisions)
      BY <2>1 DEF CoreInv, RevisionInv
    <3> QED
      BY <3>1, CommandNumbers DEF CoreInv, TypeOK, Tracked
  <2>4. FlightIds' \subseteq FlightIds
    BY <2>1, <2>2, <2>3 DEF FlightIds
  <2> QED
    BY <1>0, <2>1, <2>4
<1> QED
  BY <1>1, <1>2, <1>3, <1>4, BindIsSafe, ClearIsSafe, CommitIsSafe, ExitIsSafe,
     DropIsSafe, LoaderEndIsSafe
     DEF Next, RenderStep, LoaderStep

\* The ownership of storage, in every reachable state.
THEOREM StorageInvHolds == Spec => []StorageInv
<1>1. CoreInv /\ StorageInv /\ [Next]_vars => StorageInv'
  BY StorageStep
<1> QED
  BY <1>1, StorageInit, CoreInvHolds, PTL DEF Spec

\* No storage has a second owner.
LEMMA OneOwner ==
    ASSUME CoreInv, StorageInv, NEW id \in Ids
    PROVE  Cardinality(Owners(id)) <= 1
<1>1. id # 0
  BY BufferWorkerAssumption, SMT DEF Ids
<1>2. ASSUME NEW p \in Owners(id)
      PROVE  \/ p = <<"loader", 0>> /\ item.id = id
             \/ \E i \in DOMAIN completed : p = <<"slot", i>> /\ completed[i].id = id
             \/ \E b \in Buffers : p = <<"bound", b>> /\ bound[b] = id
             \/ \E i \in DOMAIN reclaim : p = <<"reclaim", i>> /\ reclaim[i].storage = id
             \/ p = <<"freed", 0>> /\ id \in freed
  BY <1>2, Zenon DEF Owners
<1>3. /\ item.id = id => id \in FlightIds
      /\ (\E i \in DOMAIN completed : completed[i].id = id) => id \in FlightIds
      /\ (\E b \in Buffers : bound[b] = id) => id \in Bound
      /\ (\E i \in DOMAIN reclaim : reclaim[i].storage = id) => id \in Waiting(reclaim)
  BY <1>1 DEF FlightIds, Bound, Waiting
<1>4. /\ item.id = id => ~\E i \in DOMAIN completed : completed[i].id = id
      /\ \A i, j \in DOMAIN completed :
            completed[i].id = id /\ completed[j].id = id => i = j
  <2>1. \A i, j \in DOMAIN completed : i = j
    <3>1. CASE completed # <<>>
      BY <3>1, LoadedTypes
    <3>2. CASE completed = <<>>
      <4>1. DOMAIN <<>> = {}
        BY SMT
      <4> QED
        BY <3>2, <4>1
    <3> QED
      BY <3>1, <3>2
  <2> QED
    BY <2>1, Zenon DEF CoreInv, PipelineInv
<1>5. /\ \A b, c \in Buffers : bound[b] = id /\ bound[c] = id => b = c
      /\ \A i, j \in DOMAIN reclaim :
            reclaim[i].storage = id /\ reclaim[j].storage = id => i = j
  <2>1. ReclaimOK(reclaim, Bound, freed)
    BY DEF StorageInv
  <2>2. \A i, j \in DOMAIN reclaim :
           reclaim[i].storage = reclaim[j].storage
             => reclaim[i].storage = 0 \/ i = j
    BY <2>1 DEF ReclaimOK
  <2>3. \A b \in Buffers : bound[b] # 0 => BufferOf(bound[b]) = b
    BY DEF StorageInv
  <2> QED
    BY <1>1, <2>2, <2>3
<1>6. /\ id \in FlightIds =>
            id \notin Bound /\ id \notin Waiting(reclaim) /\ id \notin freed
      /\ id \in Bound => id \notin Waiting(reclaim) /\ id \notin freed
      /\ id \in Waiting(reclaim) => id \notin freed
  BY DEF StorageInv, Settled, ReclaimOK, Waiting
<1>7. \A p, q \in Owners(id) : p = q
  BY <1>2, <1>3, <1>4, <1>5, <1>6, Zenon
<1>8. CASE Owners(id) = {}
  BY <1>8, FS_EmptySet
<1>9. CASE Owners(id) # {}
  <2>1. PICK p \in Owners(id) : TRUE
    BY <1>9
  <2>2. Owners(id) = {p}
    BY <1>7, <2>1
  <2>3. Cardinality({p}) = 1
    BY FS_Singleton
  <2> QED
    BY <2>2, <2>3
<1> QED
  BY <1>8, <1>9

\* What was dropped is referred to by nothing.
LEMMA NothingDangles ==
    ASSUME StorageInv
    PROVE  NoDanglingDescriptor
<1> SUFFICES ASSUME NEW id \in freed
             PROVE  /\ id \notin instance
                    /\ \A i \in DOMAIN reclaim : id \notin reclaim[i].refs
  BY DEF NoDanglingDescriptor
<1>1. ReclaimOK(reclaim, Bound, freed) /\ instance = Bound
  BY DEF StorageInv
<1>2. id \notin Bound
  BY <1>1 DEF ReclaimOK
<1>3. ASSUME NEW i \in DOMAIN reclaim, id \in reclaim[i].refs
      PROVE  FALSE
  <2>1. PICK j \in DOMAIN reclaim : reclaim[j].storage = id
    BY <1>1, <1>2, <1>3 DEF ReclaimOK
  <2> QED
    BY <1>1, <2>1 DEF ReclaimOK
<1> QED
  BY <1>1, <1>2, <1>3

\* "The instance drops first, before the sample storage its descriptors may
\* reference": storage has one owner from the load to the drop, and is dropped
\* after every instance that refers to it.
THEOREM StorageOutlivesInstances == Spec => []StorageIsSafe
<1>1. CoreInv /\ StorageInv => StorageIsSafe
  BY OneOwner, NothingDangles DEF StorageIsSafe, StorageHasOneOwner
<1> QED
  BY <1>1, CoreInvHolds, StorageInvHolds, PTL

-----------------------------------------------------------------------------
\* An older bind of the same buffer will not be answered "applied" any more.
NoLateAck(c, a) ==
    c < a /\ BufferOf(c) = BufferOf(a) => answers[c] # "applied"

\* No bind whose answer is still to come can overtake this clear.
ClearAcked(a) == /\ cmds[a].op = "clear"
                 /\ Handled(a)
                 /\ \A k \in DOMAIN pending : NoLateAck(pending[k], a)

\* The scan before a response leaves nothing that could overtake it: of the
\* replies it passed, none says that an older bind was applied.
AckInv ==
    /\ ~Scanning => index = 1
    /\ \A k \in DOMAIN pending : cmds[pending[k]].op = "bind"
    /\ \A i \in DOMAIN acks : acks[i][2] = "cleared" => ClearAcked(acks[i][1])
    /\ hpc = "scanThenRespond" /\ answers[Len(cmds)] = "cleared" =>
          \A k \in DOMAIN pending : k < index => NoLateAck(pending[k], Len(cmds))
    /\ hpc = "respond" /\ answers[Len(cmds)] = "cleared" =>
          \A k \in DOMAIN pending : NoLateAck(pending[k], Len(cmds))
    /\ AcknowledgedClearStays

\* The first client has sent nothing and read nothing.
LEMMA AckInit == Init => AckInv
<1> SUFFICES ASSUME Init PROVE AckInv
  OBVIOUS
<1>1. DOMAIN acks = {} /\ DOMAIN pending = {} /\ index = 1
  BY SMT DEF Init
<1> QED
  BY <1>1 DEF AckInv, AcknowledgedClearStays

\* The handler's lists hold commands that were sent.
LEMMA HandlerLists ==
    ASSUME TypeOK
    PROVE  /\ \A k \in DOMAIN pending : pending[k] \in DOMAIN cmds
           /\ \A i \in DOMAIN acks : acks[i][1] \in DOMAIN cmds
           /\ pending \in Seq(DOMAIN cmds)
           /\ acks \in Seq((DOMAIN cmds) \X Results)
<1>1. pending \in Seq(DOMAIN cmds) /\ acks \in Seq((DOMAIN cmds) \X Results)
  BY DEF TypeOK, HandlerOK
<1>2. \A k \in DOMAIN pending : pending[k] \in DOMAIN cmds
  BY <1>1, SMT
<1>3. \A i \in DOMAIN acks : acks[i] \in (DOMAIN cmds) \X Results
  <2> DEFINE P == (DOMAIN cmds) \X Results
  <2>1. acks \in Seq(P)
    BY <1>1
  <2> HIDE DEF P
  <2>2. \A i \in DOMAIN acks : acks[i] \in P
    BY <2>1, SMT
  <2> QED
    BY <2>2 DEF P
<1> QED
  BY <1>1, <1>2, <1>3

\* While the handler is about a clear that command is sent.
LEMMA AwaitedCommand ==
    ASSUME CoreInv, hpc \in {"wait", "scanThenRespond", "respond"}
    PROVE  /\ Len(cmds) \in DOMAIN cmds /\ cmds[Len(cmds)].op = "clear"
           /\ \A id \in DOMAIN cmds : id <= Len(cmds)
<1>1. cmds # <<>> /\ cmds[Len(cmds)].op = "clear"
  BY DEF CoreInv, ClearInv
<1>2. Len(cmds) \in DOMAIN cmds
  BY <1>1, SMT DEF CoreInv, TypeOK, CommandsOK
<1>3. \A id \in DOMAIN cmds : id <= Len(cmds)
  BY CommandNumbers, SMT DEF CoreInv, TypeOK
<1> QED
  BY <1>1, <1>2, <1>3

\* A taken command was not answered.
LEMMA TakenIsOpen ==
    ASSUME CoreInv, TruthInv, NEW op, TakeCommand(op)
    PROVE  answers[Head(control)] = "none"
<1> DEFINE h == Head(control)
           n == newest[BufferOf(h)]
<1>1. h \in DOMAIN cmds /\ n < h /\ BufferOf(h) \in Buffers
  BY TakenCommand
<1>2. h \in Ids /\ n \in Nat /\ h \in Nat
  BY <1>1, CommandNumbers, Numbers DEF CoreInv, TypeOK
<1>3. answers[h] # "none" => h <= n
  BY <1>2 DEF TruthInv, AnswerInv
<1> HIDE DEF h, n
<1>4. answers[h] = "none"
  BY <1>1, <1>2, <1>3, SMT
<1> QED
  BY <1>4 DEF h

\* What a step answers: the command it takes, or the bind it commits, "applied"
\* only if that is the newest of its buffer.
LEMMA StepAnswers ==
    ASSUME CoreInv, TruthInv, [Next]_vars
    PROVE  /\ \A id \in DOMAIN cmds : answers'[id] = "applied" =>
                 answers[id] = "applied" \/ id = newest[BufferOf(id)]
           /\ hpc \in {"scanThenRespond", "respond"} =>
                 answers'[Len(cmds)] = answers[Len(cmds)]
<1>0. /\ answers \in [Ids -> Results \cup {"none"}] /\ DOMAIN cmds \subseteq Ids
  BY CommandNumbers DEF CoreInv, TypeOK, QueuesOK
<1>1. CASE UNCHANGED answers
  BY <1>1
<1>2. ASSUME NEW op, TakeCommand(op), NEW r,  r # "applied",
             answers' = [answers EXCEPT ![Head(control)] = r]
      PROVE  /\ \A id \in DOMAIN cmds : answers'[id] = "applied" =>
                   answers[id] = "applied" \/ id = newest[BufferOf(id)]
             /\ hpc \in {"scanThenRespond", "respond"} =>
                   answers'[Len(cmds)] = answers[Len(cmds)]
  <2>1. Head(control) \in DOMAIN cmds /\ answers[Head(control)] = "none"
    BY <1>2, TakenCommand, TakenIsOpen
  <2>2. \A id \in DOMAIN cmds : answers'[id] = "applied" => answers[id] = "applied"
    BY <1>0, <1>2, <2>1, Zenon
  <2>3. ASSUME hpc \in {"scanThenRespond", "respond"}
        PROVE  Head(control) # Len(cmds)
    <3>1. Received(Len(cmds)) # "none"
      BY <2>3 DEF CoreInv, ClearInv
    <3>2. Head(control) \in Holders
      BY <1>2, TakenCommand, Zenon DEF Holders
    <3> QED
      BY <2>1, <3>1, <3>2, Zenon DEF Received, Disconnected
  <2>4. ASSUME hpc \in {"scanThenRespond", "respond"}
        PROVE  answers'[Len(cmds)] = answers[Len(cmds)]
    <3>1. Len(cmds) \in DOMAIN cmds
      BY <2>4, AwaitedCommand
    <3> QED
      BY <1>0, <1>2, <2>3, <2>4, <3>1, Zenon
  <2> QED
    BY <2>2, <2>4
<1>3. ASSUME NEW built \in BOOLEAN, NEW published \in BOOLEAN,
             Commit(built, published)
      PROVE  /\ \A id \in DOMAIN cmds : answers'[id] = "applied" =>
                   answers[id] = "applied" \/ id = newest[BufferOf(id)]
             /\ hpc \in {"scanThenRespond", "respond"} =>
                   answers'[Len(cmds)] = answers[Len(cmds)]
  <2> DEFINE x == Head(completed).id
  <2>1. completed # <<>>
    BY <1>3 DEF Commit
  <2>2. x \in DOMAIN cmds /\ Tracked(Head(completed), cmds, newest, revisions)
    BY <2>1, LoadedTypes, Zenon DEF CoreInv, RevisionInv
  <2>3. \E r : /\ answers' = [answers EXCEPT ![x] = r]
               /\ r = "applied" => IsCurrent(Head(completed))
    <3>1. "superseded" # "applied" /\ "error" # "applied"
      BY SMT
    <3> QED
      BY <1>3, <3>1, Zenon DEF Commit
  <2>4. IsCurrent(Head(completed)) => x = newest[BufferOf(x)]
    BY <2>2 DEF IsCurrent, Tracked, BufferOf
  <2>5. ASSUME NEW id \in DOMAIN cmds, answers'[id] = "applied"
        PROVE  answers[id] = "applied" \/ id = newest[BufferOf(id)]
    BY <1>0, <2>2, <2>3, <2>4, <2>5, Zenon
  <2>6. ASSUME hpc \in {"scanThenRespond", "respond"}
        PROVE  answers'[Len(cmds)] = answers[Len(cmds)]
    <3>1. Len(cmds) \in DOMAIN cmds /\ cmds[Len(cmds)].op = "clear"
      BY <2>6, AwaitedCommand
    <3>2. "clear" # "bind" /\ cmds[x].op = "bind"
      BY <2>2, SMT DEF Tracked
    <3>3. x # Len(cmds)
      BY <3>1, <3>2, Zenon
    <3> QED
      BY <1>0, <2>2, <2>3, <3>1, <3>3, Zenon
  <2> QED
    BY <2>5, <2>6
<1>4. CASE HandleBind
  <2>1. TakeCommand("bind") /\ "error" # "applied"
    BY <1>4, SMT DEF HandleBind
  <2> QED
    BY <1>1, <1>2, <1>4, <2>1, Zenon DEF HandleBind
<1>5. ASSUME NEW built \in BOOLEAN, NEW published \in BOOLEAN,
             HandleClear(built, published)
      PROVE  /\ \A id \in DOMAIN cmds : answers'[id] = "applied" =>
                   answers[id] = "applied" \/ id = newest[BufferOf(id)]
             /\ hpc \in {"scanThenRespond", "respond"} =>
                   answers'[Len(cmds)] = answers[Len(cmds)]
  <2> DEFINE r == IF built /\ published THEN "cleared" ELSE "error"
  <2>1. TakeCommand("clear") /\ answers' = [answers EXCEPT ![Head(control)] = r]
    BY <1>5, Zenon DEF HandleClear
  <2>2. r # "applied"
    BY SMT
  <2> QED
    BY <1>2, <2>1, <2>2
<1>6. CASE HandlerStep
  <2>1. QuietStep \/ \E c \in Commands : Sends(c)
    BY <1>6, ReadSends DEF HandlerStep, QuietStep
  <2> QED
    BY <1>1, <2>1, QuietFrame, Zenon DEF Sends
<1>7. CASE NoMoreCommands \/ NothingLoaded \/ EndIteration \/ LoaderStep \/ Stop
           \/ UNCHANGED vars
  BY <1>1, <1>7, Zenon DEF NoMoreCommands, NothingLoaded, EndIteration, Stop, vars,
     LoaderStep, DropOne, AwaitRequest, TakeRequest, NoRequest, SendLoaded,
     SendFails, LoaderExits
<1> QED
  BY <1>3, <1>4, <1>5, <1>6, <1>7 DEF Next, RenderStep

\* What can no longer be answered "applied" never is.
LEMMA NoLateStays ==
    ASSUME CoreInv, TruthInv, [Next]_vars
    PROVE  \A c, a \in DOMAIN cmds :
              Handled(a) /\ NoLateAck(c, a) => NoLateAck(c, a)'
<1> SUFFICES ASSUME NEW c \in DOMAIN cmds, NEW a \in DOMAIN cmds,
                    Handled(a), NoLateAck(c, a), c < a,
                    BufferOf(c) = BufferOf(a), answers'[c] = "applied"
             PROVE  FALSE
  BY CommandsGrow, Zenon DEF NoLateAck, BufferOf, CoreInv
<1>1. answers[c] # "applied"
  BY DEF NoLateAck
<1>2. c = newest[BufferOf(c)]
  BY <1>1, StepAnswers
<1>3. a <= c
  BY <1>2 DEF Handled
<1>4. a \in Nat /\ c \in Nat
  BY Numbers DEF CoreInv
<1> QED
  BY <1>3, <1>4, SMT

\* The handler's step is another thread's: its lists stay as they are.
LEMMA AckSteady ==
    ASSUME CoreInv, TruthInv, AckInv, [Next]_vars,
           UNCHANGED <<cmds, hpc, index, pending, acks>>
    PROVE  AckInv'
<1>1. /\ \A k \in DOMAIN pending : pending[k] \in DOMAIN cmds
      /\ \A i \in DOMAIN acks : acks[i][1] \in DOMAIN cmds
  BY HandlerLists DEF CoreInv
<1>2. \A c, a \in DOMAIN cmds :
         Handled(a) /\ NoLateAck(c, a) => NoLateAck(c, a)'
  BY NoLateStays
<1>3. \A x : Handled(x) => Handled(x)'
  BY HandledStays
<1>4. ASSUME hpc \in {"scanThenRespond", "respond"}, answers'[Len(cmds)] = "cleared"
      PROVE  /\ answers[Len(cmds)] = "cleared"
             /\ Len(cmds) \in DOMAIN cmds /\ Handled(Len(cmds))
  <2>1. answers[Len(cmds)] = "cleared" /\ Len(cmds) \in DOMAIN cmds
    BY <1>4, StepAnswers, AwaitedCommand
  <2>2. Len(cmds) \in Ids /\ "cleared" # "none"
    BY <2>1, CommandNumbers, SMT DEF CoreInv, TypeOK
  <2> QED
    BY <2>1, <2>2 DEF TruthInv, AnswerInv, Handled
<1>5. (~Scanning => index = 1)' /\ AcknowledgedClearStays'
  BY Zenon DEF AckInv, Scanning, AcknowledgedClearStays, BufferOf
<1>6. (\A k \in DOMAIN pending : cmds[pending[k]].op = "bind")'
  BY Zenon DEF AckInv
<1>7. (\A i \in DOMAIN acks : acks[i][2] = "cleared" => ClearAcked(acks[i][1]))'
  <2> SUFFICES ASSUME NEW i \in DOMAIN acks, acks[i][2] = "cleared"
               PROVE  ClearAcked(acks[i][1])'
    BY Zenon
  <2>1. ClearAcked(acks[i][1])
    BY Zenon DEF AckInv
  <2> QED
    BY <1>1, <1>2, <1>3, <2>1, Zenon DEF ClearAcked
<1>8. (hpc = "scanThenRespond" /\ answers[Len(cmds)] = "cleared" =>
         \A k \in DOMAIN pending : k < index => NoLateAck(pending[k], Len(cmds)))'
  <2> SUFFICES ASSUME hpc = "scanThenRespond", answers'[Len(cmds)] = "cleared",
                      NEW k \in DOMAIN pending, k < index
               PROVE  NoLateAck(pending[k], Len(cmds))'
    BY Zenon
  <2>1. NoLateAck(pending[k], Len(cmds))
    BY <1>4, Zenon DEF AckInv
  <2> QED
    BY <1>1, <1>2, <1>4, <2>1, Zenon
<1>9. (hpc = "respond" /\ answers[Len(cmds)] = "cleared" =>
         \A k \in DOMAIN pending : NoLateAck(pending[k], Len(cmds)))'
  <2> SUFFICES ASSUME hpc = "respond", answers'[Len(cmds)] = "cleared",
                      NEW k \in DOMAIN pending
               PROVE  NoLateAck(pending[k], Len(cmds))'
    BY Zenon
  <2>1. NoLateAck(pending[k], Len(cmds))
    BY <1>4, Zenon DEF AckInv
  <2> QED
    BY <1>1, <1>2, <1>4, <2>1, Zenon
<1> QED
  BY <1>5, <1>6, <1>7, <1>8, <1>9, Zenon DEF AckInv

\* A new command is younger than every clear that was answered.
LEMMA AckSend ==
    ASSUME CoreInv, TruthInv, AckInv, NEW c \in Commands, Sends(c)
    PROVE  AckInv'
<1> DEFINE n == Len(cmds) + 1
<1>1. /\ \A k \in DOMAIN pending : pending[k] \in DOMAIN cmds
      /\ \A i \in DOMAIN acks : acks[i][1] \in DOMAIN cmds
      /\ pending \in Seq(DOMAIN cmds)
      /\ acks \in Seq((DOMAIN cmds) \X Results)
  BY HandlerLists DEF CoreInv
<1>2. /\ DOMAIN cmds \subseteq DOMAIN cmds' /\ n \in DOMAIN cmds'
      /\ cmds'[n] = c
      /\ \A id \in DOMAIN cmds : cmds'[id] = cmds[id]
  BY SentCommand DEF CoreInv, TypeOK
<1>3. UNCHANGED <<answers, newest, index>> /\ hpc = "read" /\ hpc' \in {"wait", "top"}
  BY Zenon DEF Sends, renderVars
<1>4. \A a \in DOMAIN cmds : a < n /\ ~(n < a)
  BY CommandNumbers, SMT DEF CoreInv, TypeOK
<1>5. /\ DOMAIN pending' \subseteq DOMAIN pending \cup {Len(pending) + 1}
      /\ \A k \in DOMAIN pending' : \/ pending'[k] = n /\ c.op = "bind"
                                    \/ k \in DOMAIN pending /\ pending'[k] = pending[k]
  <2>1. CASE UNCHANGED pending
    BY <2>1
  <2>2. CASE c.op = "bind" /\ pending' = Append(pending, n)
    <3> DEFINE D == DOMAIN cmds'
    <3>1. pending \in Seq(D) /\ n \in D
      BY <1>1, <1>2, WiderSeq
    <3> HIDE DEF n, D
    <3>2. /\ DOMAIN Append(pending, n) = DOMAIN pending \cup {Len(pending) + 1}
          /\ \A k \in DOMAIN pending : Append(pending, n)[k] = pending[k]
          /\ Append(pending, n)[Len(pending) + 1] = n
      BY <3>1, Appended
    <3> QED
      BY <2>2, <3>2
  <2> QED
    BY <2>1, <2>2, Zenon DEF Sends
<1>6. \A i \in DOMAIN acks' : \/ acks'[i][2] = "error"
                              \/ i \in DOMAIN acks /\ acks'[i] = acks[i]
  <2>1. CASE UNCHANGED acks
    BY <2>1
  <2>2. CASE acks' = Append(acks, <<n, "error">>)
    <3> DEFINE P == (DOMAIN cmds') \X Results
               e == <<n, "error">>
    <3>1. acks \in Seq(P) /\ e \in P /\ e[2] = "error"
      <4>1. (DOMAIN cmds) \X Results \subseteq P
        BY <1>2
      <4> QED
        BY <1>1, <1>2, <4>1, WiderSeq DEF Results
    <3>2. acks' = Append(acks, e)
      BY <2>2
    <3> HIDE DEF e, P
    <3>3. /\ DOMAIN Append(acks, e) = DOMAIN acks \cup {Len(acks) + 1}
          /\ \A k \in DOMAIN acks : Append(acks, e)[k] = acks[k]
          /\ Append(acks, e)[Len(acks) + 1] = e
      BY <3>1, Appended
    <3> QED
      BY <3>1, <3>2, <3>3
  <2> QED
    BY <2>1, <2>2, Zenon DEF Sends
<1>7. \A x \in DOMAIN cmds : BufferOf(x)' = BufferOf(x) /\ (Handled(x) => Handled(x)')
  BY <1>2, <1>3, Zenon DEF BufferOf, Handled
<1> HIDE DEF n
<1>8. index' = 1
  BY <1>3, SMT DEF AckInv, Scanning
<1>9. (\A k \in DOMAIN pending : cmds[pending[k]].op = "bind")'
  BY <1>1, <1>2, <1>5, Zenon DEF AckInv
<1>10. (\A i \in DOMAIN acks : acks[i][2] = "cleared" => ClearAcked(acks[i][1]))'
  <2> SUFFICES ASSUME NEW i \in DOMAIN acks', acks'[i][2] = "cleared"
               PROVE  ClearAcked(acks[i][1])'
    BY Zenon
  <2>0. "error" # "cleared"
    BY SMT
  <2>1. i \in DOMAIN acks /\ acks'[i] = acks[i]
    BY <1>6, <2>0, Zenon
  <2>2. ClearAcked(acks[i][1]) /\ acks[i][1] \in DOMAIN cmds
    BY <1>1, <2>1, Zenon DEF AckInv
  <2>3. ASSUME NEW k \in DOMAIN pending'
        PROVE  NoLateAck(pending[k], acks[i][1])'
    <3>1. CASE pending'[k] = n
      BY <1>4, <2>1, <2>2, <3>1, Zenon DEF NoLateAck
    <3>2. CASE k \in DOMAIN pending /\ pending'[k] = pending[k]
      BY <1>1, <1>3, <1>7, <2>1, <2>2, <3>2, Zenon DEF NoLateAck, ClearAcked
    <3> QED
      BY <1>5, <3>1, <3>2, Zenon
  <2> QED
    BY <1>2, <1>7, <2>1, <2>2, <2>3, Zenon DEF ClearAcked
<1>11. AcknowledgedClearStays'
  <2> SUFFICES ASSUME NEW i \in DOMAIN acks', NEW j \in DOMAIN acks', i < j,
                      acks'[i][2] = "cleared", acks'[j][2] = "applied",
                      BufferOf(acks[i][1])' = BufferOf(acks[j][1])'
               PROVE  acks'[j][1] > acks'[i][1]
    BY Zenon DEF AcknowledgedClearStays
  <2>0. "error" # "cleared" /\ "error" # "applied"
    BY SMT
  <2>1. /\ i \in DOMAIN acks /\ acks'[i] = acks[i]
        /\ j \in DOMAIN acks /\ acks'[j] = acks[j]
    BY <1>6, <2>0, Zenon
  <2>2. BufferOf(acks[i][1]) = BufferOf(acks[j][1])
    BY <1>1, <1>7, <2>1, Zenon
  <2> QED
    BY <2>1, <2>2, Zenon DEF AckInv, AcknowledgedClearStays
<1>12. hpc' # "scanThenRespond" /\ hpc' # "respond"
  BY <1>3, SMT
<1> QED
  BY <1>8, <1>9, <1>10, <1>11, <1>12, Zenon DEF AckInv

\* The scan takes a reply out only after it has passed every older one that
\* is still to come.
LEMMA AckScan ==
    ASSUME CoreInv, TruthInv, AckInv, ScanStep
    PROVE  AckInv'
<1> DEFINE id == pending[index]
           r == Received(id)
<1>1. /\ \A k \in DOMAIN pending : pending[k] \in DOMAIN cmds
      /\ \A i \in DOMAIN acks : acks[i][1] \in DOMAIN cmds
      /\ pending \in Seq(DOMAIN cmds)
      /\ acks \in Seq((DOMAIN cmds) \X Results)
  BY HandlerLists DEF CoreInv
<1>2. /\ UNCHANGED <<cmds, hpc, answers, newest>> /\ Scanning /\ index <= Len(pending)
      /\ \/ r = "none" /\ index' = index + 1 /\ UNCHANGED <<pending, acks>>
         \/ /\ r # "none" /\ pending' = RemoveIndex(pending, index)
            /\ acks' = Append(acks, <<id, r>>) /\ UNCHANGED index
  BY Zenon DEF ScanStep, renderVars
<1>3. index \in DOMAIN pending /\ index \in Nat /\ id \in DOMAIN cmds
  <2>1. index \in DOMAIN pending /\ index \in Nat
    BY <1>1, <1>2, SMT DEF CoreInv, TypeOK, HandlerOK
  <2> QED
    BY <1>1, <2>1
<1>4. Scanning' /\ hpc' # "respond"
  BY <1>2, SMT DEF Scanning
<1>5. cmds[id].op = "bind"
  BY <1>3, Zenon DEF AckInv
<1>6. \A x : /\ BufferOf(x)' = BufferOf(x) /\ Handled(x)' = Handled(x)
             /\ \A a : NoLateAck(x, a)' = NoLateAck(x, a)
  BY <1>2, Zenon DEF BufferOf, Handled, NoLateAck
<1>7. CASE r = "none" /\ index' = index + 1 /\ UNCHANGED <<pending, acks>>
  <2>1. answers[id] # "applied"
    <3>1. "error" # "none" /\ "applied" # "none"
      BY SMT
    <3> QED
      BY <1>7, <3>1, Zenon DEF Received
  <2>2. (hpc = "scanThenRespond" /\ answers[Len(cmds)] = "cleared" =>
           \A k \in DOMAIN pending : k < index => NoLateAck(pending[k], Len(cmds)))'
    <3> SUFFICES ASSUME hpc' = "scanThenRespond", answers'[Len(cmds')] = "cleared",
                        NEW k \in DOMAIN pending', k < index'
                 PROVE  NoLateAck(pending[k], Len(cmds))'
      BY Zenon
    <3>1. /\ hpc = "scanThenRespond" /\ answers[Len(cmds)] = "cleared"
          /\ k \in DOMAIN pending /\ pending'[k] = pending[k] /\ Len(cmds') = Len(cmds)
      BY <1>2, <1>7, Zenon
    <3>2. CASE k < index
      BY <1>6, <3>1, <3>2, Zenon DEF AckInv
    <3>3. CASE k = index
      BY <1>6, <2>1, <3>1, <3>3, Zenon DEF NoLateAck
    <3>4. k < index \/ k = index
      <4>1. k \in Nat /\ k < index + 1
        BY <1>1, <1>7, <3>1, SMT
      <4> QED
        BY <1>3, <4>1, SMT
    <3> QED
      BY <3>2, <3>3, <3>4
  <2>3. (\A k \in DOMAIN pending : cmds[pending[k]].op = "bind")'
    BY <1>2, <1>7, Zenon DEF AckInv
  <2>4. (\A i \in DOMAIN acks : acks[i][2] = "cleared" => ClearAcked(acks[i][1]))'
    BY <1>2, <1>6, <1>7, Zenon DEF AckInv, ClearAcked
  <2>5. AcknowledgedClearStays'
    BY <1>2, <1>6, <1>7, Zenon DEF AckInv, AcknowledgedClearStays
  <2> QED
    BY <1>4, <2>2, <2>3, <2>4, <2>5, Zenon DEF AckInv
<1>8. CASE /\ r # "none" /\ pending' = RemoveIndex(pending, index)
           /\ acks' = Append(acks, <<id, r>>) /\ UNCHANGED index
  <2>1. \A k \in DOMAIN pending' :
           IF k < index THEN k \in DOMAIN pending /\ pending'[k] = pending[k]
           ELSE k + 1 \in DOMAIN pending /\ pending'[k] = pending[k + 1]
    BY <1>1, <1>3, <1>8, Removed
  <2>2. /\ DOMAIN acks' = DOMAIN acks \cup {Len(acks) + 1}
        /\ \A i \in DOMAIN acks : acks'[i] = acks[i]
        /\ acks'[Len(acks) + 1] = <<id, r>>
    <3> DEFINE P == (DOMAIN cmds) \X Results
               e == <<id, r>>
    <3>1. acks \in Seq(P) /\ e \in P /\ acks' = Append(acks, e)
      BY <1>1, <1>3, <1>8, ReceivedTypes DEF CoreInv
    <3> HIDE DEF e, P
    <3>2. /\ DOMAIN Append(acks, e) = DOMAIN acks \cup {Len(acks) + 1}
          /\ \A k \in DOMAIN acks : Append(acks, e)[k] = acks[k]
          /\ Append(acks, e)[Len(acks) + 1] = e
      BY <3>1, Appended
    <3> QED
      BY <3>1, <3>2 DEF e
  <2>3. r # "cleared"
    <3>1. id \in Ids /\ "clear" # "bind" /\ "error" # "cleared" /\ "cleared" # "none"
      BY <1>3, CommandNumbers, SMT DEF CoreInv, TypeOK
    <3>2. answers[id] # "cleared"
      BY <1>5, <3>1, Zenon DEF TruthInv, AnswerInv
    <3> QED
      BY <3>1, <3>2, Zenon DEF Received
  <2>4. r = "applied" => answers[id] = "applied"
    <3>1. "error" # "applied"
      BY SMT
    <3> QED
      BY <3>1, Zenon DEF Received
  <2>5. \A k \in DOMAIN pending' : \E l \in DOMAIN pending : pending'[k] = pending[l]
    BY <2>1, Zenon
  <2>6. (\A k \in DOMAIN pending : cmds[pending[k]].op = "bind")'
    BY <1>2, <2>5, Zenon DEF AckInv
  <2> HIDE DEF id, r
  <2>7. (\A i \in DOMAIN acks : acks[i][2] = "cleared" => ClearAcked(acks[i][1]))'
    <3> SUFFICES ASSUME NEW i \in DOMAIN acks', acks'[i][2] = "cleared"
                 PROVE  ClearAcked(acks[i][1])'
      BY Zenon
    <3>1. i \in DOMAIN acks /\ acks'[i] = acks[i]
      BY <2>2, <2>3
    <3>2. ClearAcked(acks[i][1])
      BY <3>1, Zenon DEF AckInv
    <3> QED
      BY <1>2, <1>6, <2>5, <3>1, <3>2, Zenon DEF ClearAcked
  <2>8. AcknowledgedClearStays'
    <3> SUFFICES ASSUME NEW i \in DOMAIN acks', NEW j \in DOMAIN acks', i < j,
                        acks'[i][2] = "cleared", acks'[j][2] = "applied",
                        BufferOf(acks[i][1])' = BufferOf(acks[j][1])'
                 PROVE  acks'[j][1] > acks'[i][1]
      BY Zenon DEF AcknowledgedClearStays
    <3>1. i \in DOMAIN acks /\ acks'[i] = acks[i]
      BY <2>2, <2>3
    <3> DEFINE a == acks[i][1]
    <3>2. ClearAcked(a) /\ a \in DOMAIN cmds
      BY <1>1, <3>1, Zenon DEF AckInv
    <3>3. CASE j \in DOMAIN acks
      <4>1. acks'[j] = acks[j]
        BY <2>2, <3>3
      <4>2. BufferOf(acks[i][1]) = BufferOf(acks[j][1])
        BY <1>6, <3>1, <4>1, Zenon
      <4> QED
        BY <3>1, <3>3, <4>1, <4>2, Zenon DEF AckInv, AcknowledgedClearStays
    <3>4. CASE j = Len(acks) + 1
      <4>1. acks'[j] = <<id, r>>
        BY <2>2, <3>4
      <4>2. acks'[j][1] = id /\ acks'[j][2] = r
        BY <4>1
      <4>3. answers[id] = "applied" /\ BufferOf(id) = BufferOf(a)
        BY <1>6, <2>4, <3>1, <4>2, Zenon
      <4>4. NoLateAck(id, a)
        BY <1>3, <3>2, Zenon DEF ClearAcked, id
      <4>5. ~(id < a)
        BY <4>3, <4>4, Zenon DEF NoLateAck
      <4>6. id # a
        <5>1. "clear" # "bind"
          BY SMT
        <5> QED
          BY <1>5, <3>2, <5>1, Zenon DEF ClearAcked
      <4>7. id \in Nat /\ a \in Nat
        BY <1>3, <3>2, CommandNumbers DEF CoreInv, TypeOK
      <4> HIDE DEF a
      <4>8. id > a
        BY <4>5, <4>6, <4>7, SMT
      <4> QED
        BY <3>1, <4>2, <4>8, Zenon DEF a
    <3> QED
      BY <2>2, <3>3, <3>4
  <2>9. (hpc = "scanThenRespond" /\ answers[Len(cmds)] = "cleared" =>
           \A k \in DOMAIN pending : k < index => NoLateAck(pending[k], Len(cmds)))'
    BY <1>2, <1>6, <1>8, <2>1, Zenon DEF AckInv
  <2> QED
    BY <1>4, <2>6, <2>7, <2>8, <2>9, Zenon DEF AckInv
<1> QED
  BY <1>2, <1>7, <1>8

\* The scan is over, or the handler turns to another thing: what it wrote stays.
LEMMA AckTurn ==
    ASSUME CoreInv, TruthInv, AckInv,
           StartLoop \/ ReadTimeout \/ ScanEnd \/ ClearAnswered
    PROVE  AckInv'
<1>1. UNCHANGED <<cmds, answers, newest, pending, acks>>
  BY Zenon DEF StartLoop, ReadTimeout, ScanEnd, ClearAnswered, renderVars
<1>2. \A x : /\ BufferOf(x)' = BufferOf(x) /\ Handled(x)' = Handled(x)
             /\ \A a : NoLateAck(x, a)' = NoLateAck(x, a)
  BY <1>1, Zenon DEF BufferOf, Handled, NoLateAck
<1>3. /\ (\A k \in DOMAIN pending : cmds[pending[k]].op = "bind")'
      /\ (\A i \in DOMAIN acks : acks[i][2] = "cleared" => ClearAcked(acks[i][1]))'
      /\ AcknowledgedClearStays'
  BY <1>1, <1>2, Zenon DEF AckInv, ClearAcked, AcknowledgedClearStays
<1>4. index' = 1
  <2>1. CASE ScanEnd
    BY <2>1, Zenon DEF ScanEnd
  <2>2. CASE StartLoop \/ ReadTimeout \/ ClearAnswered
    <3>1. hpc \in {"top", "read", "wait"} /\ UNCHANGED index
      BY <2>2, Zenon DEF StartLoop, ReadTimeout, ClearAnswered
    <3> QED
      BY <3>1, SMT DEF AckInv, Scanning
  <2> QED
    BY <2>1, <2>2
<1>5. \A k \in DOMAIN pending' : ~(k < index')
  BY <1>1, <1>4, HandlerLists, SMT DEF CoreInv
<1>6. (hpc = "respond" /\ answers[Len(cmds)] = "cleared" =>
         \A k \in DOMAIN pending : NoLateAck(pending[k], Len(cmds)))'
  <2> SUFFICES ASSUME hpc' = "respond", answers'[Len(cmds')] = "cleared",
                      NEW k \in DOMAIN pending'
               PROVE  NoLateAck(pending[k], Len(cmds))'
    BY Zenon
  <2>1. ScanEnd /\ hpc = "scanThenRespond" /\ index > Len(pending)
    <3>1. "respond" \notin {"done", "scan", "top", "scanThenRespond", "read"}
      BY SMT
    <3> QED
      BY <3>1, Zenon DEF StartLoop, ReadTimeout, ScanEnd, ClearAnswered, Scanning
  <2>2. k < index
    BY <1>1, <2>1, HandlerLists, SMT DEF CoreInv, TypeOK, HandlerOK
  <2> QED
    BY <1>1, <1>2, <2>1, <2>2, Zenon DEF AckInv
<1> QED
  BY <1>3, <1>4, <1>5, <1>6, Zenon DEF AckInv

\* The response of a clear follows the replies the scan found.
LEMMA AckRespond ==
    ASSUME CoreInv, TruthInv, AckInv, Respond
    PROVE  AckInv'
<1> DEFINE n == Len(cmds)
           r == Received(n)
           e == <<n, r>>
<1>1. /\ \A i \in DOMAIN acks : acks[i][1] \in DOMAIN cmds
      /\ acks \in Seq((DOMAIN cmds) \X Results)
  BY HandlerLists DEF CoreInv
<1>2. /\ UNCHANGED <<cmds, answers, newest, pending, index>>
      /\ hpc = "respond" /\ hpc' = "top" /\ acks' = Append(acks, e)
  BY Zenon DEF Respond, renderVars
<1>3. \A x : /\ BufferOf(x)' = BufferOf(x) /\ Handled(x)' = Handled(x)
             /\ \A a : NoLateAck(x, a)' = NoLateAck(x, a)
  BY <1>2, Zenon DEF BufferOf, Handled, NoLateAck
<1>4. n \in DOMAIN cmds /\ cmds[n].op = "clear" /\ r # "none"
  BY <1>2, AwaitedCommand DEF CoreInv, ClearInv
<1>5. /\ DOMAIN acks' = DOMAIN acks \cup {Len(acks) + 1}
      /\ \A i \in DOMAIN acks : acks'[i] = acks[i]
      /\ acks'[Len(acks) + 1][1] = n /\ acks'[Len(acks) + 1][2] = r
  <2> DEFINE P == (DOMAIN cmds) \X Results
  <2>1. acks \in Seq(P) /\ e \in P /\ e[1] = n /\ e[2] = r
    BY <1>1, <1>4, ReceivedTypes DEF CoreInv
  <2> HIDE DEF e, P
  <2>2. /\ DOMAIN Append(acks, e) = DOMAIN acks \cup {Len(acks) + 1}
        /\ \A k \in DOMAIN acks : Append(acks, e)[k] = acks[k]
        /\ Append(acks, e)[Len(acks) + 1] = e
    BY <2>1, Appended
  <2> QED
    BY <1>2, <2>1, <2>2
<1>6. r # "applied"
  <2>1. n \in Ids /\ "clear" # "bind" /\ "error" # "applied" /\ "applied" # "none"
    BY <1>4, CommandNumbers, SMT DEF CoreInv, TypeOK
  <2>2. answers[n] # "applied"
    BY <1>4, <2>1, Zenon DEF TruthInv, AnswerInv
  <2> QED
    BY <2>1, <2>2, Zenon DEF Received
<1>7. r = "cleared" => ClearAcked(n)
  <2> SUFFICES ASSUME r = "cleared" PROVE ClearAcked(n)
    OBVIOUS
  <2>1. n \in Ids /\ "error" # "cleared" /\ "cleared" # "none"
    BY <1>4, CommandNumbers, SMT DEF CoreInv, TypeOK
  <2>2. answers[n] = "cleared"
    BY <2>1, Zenon DEF Received
  <2>3. Handled(n)
    BY <1>4, <2>1, <2>2, Zenon DEF TruthInv, AnswerInv, Handled
  <2>4. \A k \in DOMAIN pending : NoLateAck(pending[k], n)
    BY <1>2, <2>2, Zenon DEF AckInv
  <2> QED
    BY <1>4, <2>3, <2>4, Zenon DEF ClearAcked
<1> HIDE DEF n, r, e
<1>8. (\A i \in DOMAIN acks : acks[i][2] = "cleared" => ClearAcked(acks[i][1]))'
  <2> SUFFICES ASSUME NEW i \in DOMAIN acks', acks'[i][2] = "cleared"
               PROVE  ClearAcked(acks[i][1])'
    BY Zenon
  <2>1. ClearAcked(acks'[i][1])
    <3>1. CASE i \in DOMAIN acks
      BY <1>5, <3>1, Zenon DEF AckInv
    <3>2. CASE i = Len(acks) + 1
      BY <1>5, <1>7, <3>2
    <3> QED
      BY <1>5, <3>1, <3>2
  <2> QED
    BY <1>2, <1>3, <2>1, Zenon DEF ClearAcked
<1>9. AcknowledgedClearStays'
  <2> SUFFICES ASSUME NEW i \in DOMAIN acks', NEW j \in DOMAIN acks', i < j,
                      acks'[i][2] = "cleared", acks'[j][2] = "applied",
                      BufferOf(acks[i][1])' = BufferOf(acks[j][1])'
               PROVE  acks'[j][1] > acks'[i][1]
    BY Zenon DEF AcknowledgedClearStays
  <2>1. j \in DOMAIN acks
    BY <1>5, <1>6
  <2>2. i \in DOMAIN acks
    <3>1. DOMAIN acks = 1 .. Len(acks) /\ Len(acks) \in Nat
      BY <1>1, SMT
    <3>2. i # Len(acks) + 1
      BY <2>1, <3>1, SMT
    <3> QED
      BY <1>5, <3>2
  <2>3. acks'[i] = acks[i] /\ acks'[j] = acks[j]
    BY <1>5, <2>1, <2>2
  <2>4. BufferOf(acks[i][1]) = BufferOf(acks[j][1])
    BY <1>3, <2>3, Zenon
  <2> QED
    BY <2>1, <2>2, <2>3, <2>4, Zenon DEF AckInv, AcknowledgedClearStays
<1>10. index' = 1
  BY <1>2, SMT DEF AckInv, Scanning
<1>11. (\A k \in DOMAIN pending : cmds[pending[k]].op = "bind")'
  BY <1>2, Zenon DEF AckInv
<1>12. hpc' # "scanThenRespond" /\ hpc' # "respond"
  BY <1>2, SMT
<1> QED
  BY <1>8, <1>9, <1>10, <1>11, <1>12, Zenon DEF AckInv

\* The next client has sent nothing and read nothing.
LEMMA AckLeave ==
    ASSUME AckInv, ClientLeaves
    PROVE  AckInv'
<1>1. pending' = <<>> /\ acks' = <<>> /\ hpc = "read" /\ hpc' = "top" /\ UNCHANGED index
  BY Zenon DEF ClientLeaves
<1>2. DOMAIN pending' = {} /\ DOMAIN acks' = {}
  BY <1>1, SMT
<1>3. index' = 1 /\ hpc' # "scanThenRespond" /\ hpc' # "respond"
  BY <1>1, SMT DEF AckInv, Scanning
<1> QED
  BY <1>2, <1>3, Zenon DEF AckInv, AcknowledgedClearStays

\* Every step keeps the order of what the client reads.
LEMMA AckStep ==
    ASSUME CoreInv, TruthInv, AckInv, [Next]_vars
    PROVE  AckInv'
<1>1. CASE HandlerStep
  <2>1. QuietStep \/ \E c \in Commands : Sends(c)
    BY <1>1, ReadSends DEF HandlerStep, QuietStep
  <2>2. CASE QuietStep
    BY <2>2, AckScan, AckTurn, AckRespond, AckLeave, Zenon DEF QuietStep
  <2> QED
    BY <2>1, <2>2, AckSend
<1>2. CASE RenderStep \/ LoaderStep \/ Stop \/ UNCHANGED vars
  <2>1. UNCHANGED clientVars
    <3>1. CASE RenderStep
      BY <3>1, Zenon DEF RenderStep, HandleBind, HandleClear, Commit,
         NoMoreCommands, NothingLoaded, EndIteration
    <3>2. CASE LoaderStep
      BY <3>2, Zenon DEF LoaderStep, DropOne, AwaitRequest, TakeRequest,
         NoRequest, SendLoaded, SendFails, LoaderExits
    <3>3. CASE Stop \/ UNCHANGED vars
      BY <3>3, Zenon DEF Stop, vars
    <3> QED
      BY <1>2, <3>1, <3>2, <3>3
  <2>2. UNCHANGED <<cmds, hpc, index, pending, acks>>
    BY <2>1 DEF clientVars, handlerVars
  <2> QED
    BY <2>2, AckSteady
<1> QED
  BY <1>1, <1>2 DEF Next

\* The order of what the client reads, in every reachable state.
THEOREM AckInvHolds == Spec => []AckInv
<1>1. Init => AckInv
  BY AckInit
<1>2. CoreInv /\ TruthInv /\ AckInv /\ [Next]_vars => AckInv'
  BY AckStep
<1> QED
  BY <1>1, <1>2, CoreInvHolds, TruthInvHolds, PTL DEF Spec

\* A client that has read of its clear reads afterwards of no older bind of the
\* buffer that was applied: the handler publishes buffer replies before the
\* response of a command.
THEOREM ClearsAreNotOvertaken == Spec => []AcknowledgedClearStays
<1>1. AckInv => AcknowledgedClearStays
  BY DEF AckInv
<1> QED
  BY <1>1, AckInvHolds, PTL

=============================================================================
