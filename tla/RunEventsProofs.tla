-------------------------- MODULE RunEventsProofs --------------------------
(***************************************************************************)
(* Proofs about RunEvents, for every set of keys, every capacity, limit    *)
(* and length of a block, and every bound of the inputs.                   *)
(***************************************************************************)
EXTENDS RunEvents, SequenceTheorems, FiniteSetTheorems, FunctionTheorems,
        TLAPS

(***************************************************************************)
(* active_midi_notes is emptied in the inactive branch only, which is not  *)
(* left while nothing can have started to play: no command is handled      *)
(* between the test of playing and the clearing of the set.                *)
(***************************************************************************)
IdleIsInactive == rpc \in {"drain", "idle"} => ~playing

NotesInv == IdleIsInactive /\ SoundingNotesAreKnown

\* The same events, on more notes, leave more notes on: reply_to_run_events
\* follows the events that the block has run, in their order.
LEMMA NotesAfterIsMonotone ==
    ASSUME NEW S, NEW T, S \subseteq T, NEW events
    PROVE  NotesAfter(S, events) \subseteq NotesAfter(T, events)
BY DEF NotesAfter

\* The steps of the device, the client and the clock touch neither notes
\* nor the render thread.
LEMMA OthersKeepNotesInv ==
    ASSUME NotesInv, Tick \/ DeviceStep \/ ClientStep \/ Stop
    PROVE  NotesInv'
<1>1. UNCHANGED <<rpc, playing, sounding, active>>
  <2>1. CASE Tick \/ Stop
    BY <2>1 DEF Tick, Stop, playVars, noteVars
  <2>2. CASE DeviceStep
    BY <2>2 DEF DeviceStep, Press, Release, ReportFull, Unplug, Replug,
                CloseConnection, Reconnect, playVars, noteVars
  <2>3. CASE ClientStep
    BY <2>3 DEF ClientStep, SendTrigger, SendRequest, Answered, playVars,
                noteVars
  <2> QED
    BY <2>1, <2>2, <2>3
<1> QED
  BY <1>1 DEF NotesInv, IdleIsInactive, SoundingNotesAreKnown, Running

\* Of the render thread's steps, those that change notes are play and a new
\* binding (all notes go), the inactive branch, a recovery (which keeps what
\* it has to release), and a block.
LEMMA RenderKeepsNotesInv ==
    ASSUME NotesInv, RenderStep
    PROVE  NotesInv'
<1> USE DEF NotesInv, IdleIsInactive, SoundingNotesAreKnown, Running
<1>1. CASE Exit
  BY <1>1 DEF Exit, playVars
<1>2. CASE Head_ \/ EndCommands \/ IdleDrain \/ Ahead \/ StartBlock
  BY <1>2 DEF Head_, EndCommands, IdleDrain, Ahead, StartBlock, playVars,
              noteVars
<1>3. CASE HandlePause
  BY <1>3 DEF HandlePause, Receive
<1>4. CASE HandleTimedTrigger \/ HandleTriggerNow
  BY <1>4 DEF HandleTimedTrigger, HandleTriggerNow, playVars, noteVars
<1>5. ASSUME NEW ok \in BOOLEAN, HandlePlay(ok) \/ Rebind(ok)
      PROVE  NotesInv'
  BY <1>5 DEF HandlePlay, Rebind, Receive
<1>6. CASE IdleReset
  BY <1>6 DEF IdleReset, playVars
<1>7. CASE Recover
  BY <1>7 DEF Recover, playVars
<1>8. CASE TakeMessage \/ EndTake
  BY <1>8 DEF TakeMessage, EndTake, playVars, noteVars
<1>9. CASE RenderBlock
  <2>1. /\ sounding' = NotesAfter(sounding, Due)
        /\ active' = NotesAfter(active, Due)
        /\ rpc = "block" /\ rpc' = "head" /\ playing' = playing
    BY <1>9 DEF RenderBlock, playVars
  <2>2. sounding \subseteq active
            => NotesAfter(sounding, Due) \subseteq NotesAfter(active, Due)
    BY NotesAfterIsMonotone
  <2> QED
    BY <2>1, <2>2
<1>10. CASE BlockFails
  BY <1>10 DEF BlockFails, playVars
<1> QED
  BY <1>1, <1>2, <1>3, <1>4, <1>5, <1>6, <1>7, <1>8, <1>9, <1>10
     DEF RenderStep
-----------------------------------------------------------------------------
(***************************************************************************)
(* Whatever the device, the client and the render thread do, a recovery    *)
(* knows of every note of the device that sounds while something plays:    *)
(* active_midi_notes is never behind the program.                          *)
(***************************************************************************)
THEOREM NotesCanBeReleased == Spec => []SoundingNotesAreKnown
<1>1. Init => NotesInv
  BY DEF Init, NotesInv, IdleIsInactive, SoundingNotesAreKnown
<1>2. NotesInv /\ [Next]_vars => NotesInv'
  <2>1. NotesInv /\ UNCHANGED vars => NotesInv'
    BY DEF vars, playVars, noteVars, NotesInv, IdleIsInactive,
           SoundingNotesAreKnown, Running
  <2> QED
    BY <2>1, OthersKeepNotesInv, RenderKeepsNotesInv DEF Next
<1>3. NotesInv => SoundingNotesAreKnown
  BY DEF NotesInv
<1> QED
  BY <1>1, <1>2, <1>3, PTL DEF Spec
-----------------------------------------------------------------------------
(* The vector of pending events.                                           *)

\* A set of places that contains, with each, all before it, is a beginning.
LEMMA Beginning ==
    ASSUME NEW n \in Nat, NEW D \in SUBSET (1 .. n),
           \A i \in D : \A j \in 1 .. i : j \in D
    PROVE  /\ Cardinality(D) \in 0 .. n
           /\ D = 1 .. Cardinality(D)
<1> DEFINE m == Cardinality(D)
<1>1. /\ IsFiniteSet(1 .. n) /\ Cardinality(1 .. n) = n
  BY FS_Interval, SMT
<1>2. IsFiniteSet(D) /\ m \in Nat /\ m <= n
  <2>1. IsFiniteSet(D) /\ Cardinality(D) <= Cardinality(1 .. n)
    BY <1>1, FS_Subset
  <2> QED
    BY <1>1, <2>1, FS_CardinalityType
<1>3. IsFiniteSet(1 .. m) /\ Cardinality(1 .. m) = m
  BY <1>2, FS_Interval, SMT
<1>4. ASSUME NEW i \in D PROVE i <= m
  <2>1. 1 .. i \subseteq D /\ i \in Nat
    BY SMT
  <2>2. Cardinality(1 .. i) <= m
    BY <1>2, <2>1, FS_Subset
  <2>3. Cardinality(1 .. i) = i
    BY <2>1, FS_Interval, SMT
  <2> QED
    BY <2>2, <2>3
<1>5. D \subseteq 1 .. m
  <2> SUFFICES ASSUME NEW i \in D PROVE i \in 1 .. m
    OBVIOUS
  <2> HIDE DEF m
  <2> QED
    BY <1>2, <1>4, SMT
<1>6. D = 1 .. m
  BY <1>3, <1>5, FS_Subset
<1> QED
  BY <1>2, <1>6, SMT

Sorted(s) == \A i, j \in DOMAIN s : i < j => s[i].frame <= s[j].frame

\* The events with a frame below some bound, closed or open, come first.
LEMMA SortedBeginning ==
    ASSUME NEW s \in Seq(Events), Sorted(s), NEW b \in Int
    PROVE  LET n == Cardinality({i \in DOMAIN s : s[i].frame <= b})
           IN  /\ n \in 0 .. Len(s)
               /\ \A i \in DOMAIN s : i <= n <=> s[i].frame <= b
<1> DEFINE D == {i \in DOMAIN s : s[i].frame <= b}
<1>1. Len(s) \in Nat /\ DOMAIN s = 1 .. Len(s) /\ \A i \in DOMAIN s : s[i].frame \in Nat
  <2>1. \A i \in DOMAIN s : s[i] \in Events
    BY SMT
  <2> QED
    BY <2>1, SMT DEF Events
<1>2. ASSUME NEW i \in D, NEW j \in 1 .. i PROVE j \in D
  BY <1>1, SMT DEF Sorted
<1>3. Cardinality(D) \in 0 .. Len(s) /\ D = 1 .. Cardinality(D)
  <2> HIDE DEF D
  <2>1. D \in SUBSET (1 .. Len(s))
    BY <1>1 DEF D
  <2> QED
    BY <1>1, <1>2, <2>1, Beginning
<1>4. \A i \in DOMAIN s : i \in D <=> s[i].frame <= b
  OBVIOUS
<1>5. \A i \in DOMAIN s : i \in D <=> i <= Cardinality(D)
  <2> HIDE DEF D
  <2> QED
    BY <1>1, <1>3, SMT
<1> QED
  BY <1>3, <1>4, <1>5, Zenon

\* What stays of a sequence keeps its order: there is an increasing function
\* from the places of the result onto the places that are retained.
LEMMA RetainedPlaces ==
    ASSUME NEW s \in Seq(Events), NEW P \in SUBSET DOMAIN s
    PROVE  /\ Cardinality(P) \in Nat /\ Cardinality(P) <= Len(s)
           /\ \E f \in [1 .. Cardinality(P) -> P] :
                 /\ \A k, m \in 1 .. Cardinality(P) : k < m => f[k] < f[m]
                 /\ \A i \in P : \E k \in 1 .. Cardinality(P) : f[k] = i
                 /\ Retained(s, P) = [k \in 1 .. Cardinality(P) |-> s[f[k]]]
<1> DEFINE c == Cardinality(P)
           rank(i) == Cardinality({j \in P : j <= i})
           r == [i \in P |-> rank(i)]
           f == [k \in 1 .. c |-> CHOOSE i \in P : rank(i) = k]
<1>1. P \subseteq 1 .. Len(s) /\ Len(s) \in Nat /\ IsFiniteSet(1 .. Len(s))
      /\ Cardinality(1 .. Len(s)) = Len(s)
  <2>1. DOMAIN s = 1 .. Len(s) /\ Len(s) \in Nat
    BY SMT
  <2>2. \A n \in Nat : IsFiniteSet(1 .. n) /\ Cardinality(1 .. n) = n
    BY FS_Interval, SMT
  <2> QED
    BY <2>1, <2>2
<1>2. IsFiniteSet(P) /\ c \in Nat /\ c <= Len(s)
  BY <1>1, FS_Subset, FS_CardinalityType
<1>3. \A i \in P : rank(i) \in 1 .. c
  <2> SUFFICES ASSUME NEW i \in P PROVE rank(i) \in 1 .. c
    OBVIOUS
  <2>1. {j \in P : j <= i} \subseteq P /\ {i} \subseteq {j \in P : j <= i}
    BY <1>1, SMT
  <2>2. rank(i) \in Nat /\ rank(i) <= c /\ IsFiniteSet({j \in P : j <= i})
    BY <1>2, <2>1, FS_Subset, FS_CardinalityType
  <2>3. Cardinality({i}) = 1 /\ Cardinality({i}) <= rank(i)
    BY <2>1, <2>2, FS_Subset, FS_Singleton
  <2> HIDE DEF rank, c
  <2> QED
    BY <1>2, <2>2, <2>3, SMT
<1>4. \A i, j \in P : i < j => rank(i) < rank(j)
  <2> SUFFICES ASSUME NEW i \in P, NEW j \in P, i < j PROVE rank(i) < rank(j)
    OBVIOUS
  <2> DEFINE A == {k \in P : k <= i}
             B == {k \in P : k <= j}
  <2>1. A \subseteq B /\ j \in B /\ j \notin A
    BY <1>1, SMT
  <2>2. IsFiniteSet(B) /\ Cardinality(B) \in Nat
    BY <1>2, FS_Subset, FS_CardinalityType
  <2>3. Cardinality(A) <= Cardinality(B) /\ (Cardinality(B) = Cardinality(A) => B = A)
        /\ Cardinality(A) \in Nat
    BY <2>1, <2>2, FS_Subset, FS_CardinalityType
  <2>4. rank(i) = Cardinality(A) /\ rank(j) = Cardinality(B)
    OBVIOUS
  <2> HIDE DEF A, B, rank
  <2> QED
    BY <2>1, <2>2, <2>3, <2>4, SMT
<1>5. \A k \in 1 .. c : \E i \in P : rank(i) = k
  <2> HIDE DEF rank
  <2>1. \A i, j \in P : rank(i) = rank(j) => i = j
    BY <1>1, <1>3, <1>4, SMT
  <2>2. r \in Injection(P, 1 .. c)
    <3>1. r \in [P -> 1 .. c]
      BY <1>3
    <3>2. \A i, j \in P : r[i] = r[j] => i = j
      BY <2>1
    <3> QED
      BY <3>1, <3>2, Zenon DEF Injection, IsInjective
  <2>3. IsFiniteSet(1 .. c) /\ Cardinality(1 .. c) = c
    BY <1>2, FS_Interval, SMT
  <2>4. r \in Surjection(P, 1 .. c)
    BY <2>2, <2>3, FS_Injection
  <2> QED
    BY <2>4 DEF Surjection
<1>6. \A k \in 1 .. c : f[k] \in P /\ rank(f[k]) = k
  <2> HIDE DEF rank
  <2> QED
    BY <1>5
<1>7. f \in [1 .. c -> P]
  <2> HIDE DEF rank
  <2> QED
    BY <1>5
<1>8. \A k, m \in 1 .. c : k < m => f[k] < f[m]
  <2> HIDE DEF rank, f
  <2> SUFFICES ASSUME NEW k \in 1 .. c, NEW m \in 1 .. c, k < m PROVE f[k] < f[m]
    OBVIOUS
  <2>1. f[k] \in P /\ f[m] \in P /\ rank(f[k]) = k /\ rank(f[m]) = m
    BY <1>6
  <2>2. f[k] \in Nat /\ f[m] \in Nat
    BY <1>1, <2>1, SMT
  <2>3. f[m] < f[k] => m < k
    BY <1>4, <2>1
  <2>4. f[m] # f[k]
    BY <2>1, <1>2, SMT
  <2> QED
    BY <1>2, <2>2, <2>3, <2>4, SMT
<1>9. \A i \in P : \E k \in 1 .. c : f[k] = i
  <2> SUFFICES ASSUME NEW i \in P PROVE \E k \in 1 .. c : f[k] = i
    OBVIOUS
  <2>1. rank(i) \in 1 .. c
    BY <1>3
  <2>2. f[rank(i)] \in P /\ rank(f[rank(i)]) = rank(i)
    BY <1>6, <2>1
  <2> HIDE DEF rank, f
  <2>3. f[rank(i)] \in Nat /\ i \in Nat /\ rank(i) \in Nat
    BY <1>1, <2>1, <2>2, SMT
  <2>4. f[rank(i)] < i => rank(f[rank(i)]) < rank(i)
    BY <1>4, <2>2
  <2>5. i < f[rank(i)] => rank(i) < rank(f[rank(i)])
    BY <1>4, <2>2
  <2>6. f[rank(i)] = i
    BY <2>2, <2>3, <2>4, <2>5, SMT
  <2> QED
    BY <2>1, <2>6
<1>10. Retained(s, P) = [k \in 1 .. c |-> s[f[k]]]
  BY DEF Retained
<1> QED
  BY <1>2, <1>7, <1>8, <1>9, <1>10

UniqueIds(s) ==
    \A i, j \in DOMAIN s : s[i].id = s[j].id /\ s[i].id # 0 => i = j

IdsOf(s) == {s[i].id : i \in DOMAIN s} \ {0}

InOrder(s, K) ==
    \A p, q \in DOMAIN s :
        p < q /\ s[q].id # 0 /\ s[q].id < s[p].id => s[q].id \in K

\* A sequence of events in two parts.
LEMMA Cut ==
    ASSUME NEW s \in Seq(Events), NEW n \in 0 .. Len(s)
    PROVE  LET l == SubSeq(s, 1, n)
               t == SubSeq(s, n + 1, Len(s))
           IN  /\ l \in Seq(Events) /\ Len(l) = n
               /\ \A i \in 1 .. n : l[i] = s[i]
               /\ t \in Seq(Events) /\ Len(t) = Len(s) - n
               /\ \A i \in 1 .. Len(s) - n : t[i] = s[i + n]
<1> DEFINE l == SubSeq(s, 1, n)
           t == SubSeq(s, n + 1, Len(s))
<1>1. Len(s) \in Nat /\ \A i \in 1 .. Len(s) : s[i] \in Events
  BY SMT
<1>2. n \in Nat /\ n <= Len(s)
  BY <1>1, SMT
<1>4. l \in Seq(Events) /\ Len(l) = n /\ \A i \in 1 .. n : l[i] = s[i]
  <2>1. n \in Int /\ \A i \in 1 .. n : s[i] \in Events
    BY <1>1, <1>2, SMT
  <2> QED
    BY <1>2, <2>1, SubSeqProperties, SMT
<1>5. /\ t \in Seq(Events) /\ Len(t) = Len(s) - n
      /\ \A i \in 1 .. Len(s) - n : t[i] = s[i + n]
  <2>1. n + 1 \in Int /\ \A i \in n + 1 .. Len(s) : s[i] \in Events
    BY <1>1, <1>2, SMT
  <2>2. /\ t \in Seq(Events)
        /\ Len(t) = IF n + 1 <= Len(s) THEN Len(s) - (n + 1) + 1 ELSE 0
        /\ \A i \in 1 .. Len(s) - (n + 1) + 1 : t[i] = s[(n + 1) + i - 1]
    BY <1>1, <2>1, SubSeqProperties
  <2>3. Len(s) \in Nat
    BY <1>1
  <2>4. /\ Len(s) - (n + 1) + 1 = Len(s) - n
        /\ n + 1 <= Len(s) \/ Len(s) - n = 0
        /\ \A i \in 1 .. Len(s) - n : (n + 1) + i - 1 = i + n
    BY <1>2, <2>3, SMT
  <2> HIDE DEF t
  <2> QED
    BY <2>2, <2>4
<1> QED
  BY <1>4, <1>5

\* What is scheduled comes behind what is not later.
LEMMA ScheduledPlaces ==
    ASSUME NEW s \in Seq(Events), Sorted(s), NEW f \in Nat,
           NEW new \in Seq(Events)
    PROVE  LET n == Insertion(s, f)
               r == Scheduled(s, f, new)
           IN  /\ n \in 0 .. Len(s)
               /\ r \in Seq(Events) /\ Len(r) = Len(s) + Len(new)
               /\ \A i \in 1 .. n : r[i] = s[i] /\ s[i].frame <= f
               /\ \A i \in 1 .. Len(new) : r[n + i] = new[i]
               /\ \A i \in n + 1 .. Len(s) :
                     r[i + Len(new)] = s[i] /\ s[i].frame > f
<1> DEFINE n == Insertion(s, f)
           l == SubSeq(s, 1, n)
           t == SubSeq(s, n + 1, Len(s))
<1>1. DOMAIN s = 1 .. Len(s) /\ Len(s) \in Nat /\ Len(new) \in Nat
      /\ \A i \in 1 .. Len(s) : s[i] \in Events
  BY SMT
<1>2. \A i \in 1 .. Len(s) : s[i].frame \in Nat
  BY <1>1, SMT DEF Events
<1>3. n \in 0 .. Len(s) /\ \A i \in 1 .. Len(s) : i <= n <=> s[i].frame <= f
  <2>1. f \in Int
    BY SMT
  <2> QED
    BY <1>1, <2>1, SortedBeginning, Zenon DEF Insertion
<1> HIDE DEF n
<1>4. l \in Seq(Events) /\ Len(l) = n /\ \A i \in 1 .. n : l[i] = s[i]
  BY <1>3, Cut
<1>5. /\ t \in Seq(Events) /\ Len(t) = Len(s) - n
      /\ \A i \in 1 .. Len(s) - n : t[i] = s[i + n]
  BY <1>3, Cut
<1> HIDE DEF l, t
<1>6. /\ l \o new \in Seq(Events) /\ Len(l \o new) = n + Len(new)
      /\ \A i \in 1 .. n + Len(new) :
            (l \o new)[i] = IF i <= n THEN l[i] ELSE new[i - n]
  BY <1>4, ConcatProperties
<1> DEFINE ln == l \o new
<1>7. /\ ln \o t \in Seq(Events)
      /\ Len(ln \o t) = n + Len(new) + (Len(s) - n)
      /\ \A i \in 1 .. n + Len(new) + (Len(s) - n) :
            (ln \o t)[i] = IF i <= n + Len(new) THEN ln[i]
                           ELSE t[i - (n + Len(new))]
  <2>1. ln \in Seq(Events) /\ Len(ln) = n + Len(new)
    BY <1>6
  <2> HIDE DEF ln
  <2>2. /\ ln \o t \in Seq(Events)
        /\ Len(ln \o t) = Len(ln) + Len(t)
        /\ \A i \in 1 .. Len(ln) + Len(t) :
              (ln \o t)[i] = IF i <= Len(ln) THEN ln[i] ELSE t[i - Len(ln)]
    BY <1>5, <2>1, ConcatProperties
  <2> QED
    BY <1>5, <2>1, <2>2
<1>8. Scheduled(s, f, new) = ln \o t
  BY DEF Scheduled, n, l, t
<1> DEFINE r == ln \o t
<1>9. \A i \in 1 .. n : r[i] = s[i] /\ s[i].frame <= f
  <2> SUFFICES ASSUME NEW i \in 1 .. n PROVE r[i] = s[i] /\ s[i].frame <= f
    OBVIOUS
  <2>1. /\ i \in 1 .. Len(s) /\ i <= n /\ i <= n + Len(new)
        /\ i \in 1 .. n + Len(new)
        /\ i \in 1 .. n + Len(new) + (Len(s) - n)
    BY <1>1, <1>3, SMT
  <2>2. r[i] = ln[i] /\ ln[i] = l[i] /\ l[i] = s[i]
    BY <1>4, <1>6, <1>7, <2>1
  <2> QED
    BY <1>3, <2>1, <2>2
<1>10. \A i \in 1 .. Len(new) : r[n + i] = new[i]
  <2> SUFFICES ASSUME NEW i \in 1 .. Len(new) PROVE r[n + i] = new[i]
    OBVIOUS
  <2>1. /\ ~(n + i <= n) /\ n + i <= n + Len(new) /\ (n + i) - n = i
        /\ n + i \in 1 .. n + Len(new)
        /\ n + i \in 1 .. n + Len(new) + (Len(s) - n)
    BY <1>1, <1>3, SMT
  <2>2. r[n + i] = ln[n + i] /\ ln[n + i] = new[(n + i) - n]
    BY <1>6, <1>7, <2>1
  <2> QED
    BY <2>1, <2>2
<1>11. \A i \in n + 1 .. Len(s) : r[i + Len(new)] = s[i] /\ s[i].frame > f
  <2> SUFFICES ASSUME NEW i \in n + 1 .. Len(s)
               PROVE  r[i + Len(new)] = s[i] /\ s[i].frame > f
    OBVIOUS
  <2>1. /\ i \in 1 .. Len(s) /\ ~(i <= n) /\ ~(i + Len(new) <= n + Len(new))
        /\ (i + Len(new)) - (n + Len(new)) = i - n
        /\ i - n \in 1 .. Len(s) - n /\ (i - n) + n = i
        /\ i + Len(new) \in 1 .. n + Len(new) + (Len(s) - n)
    <3>1. /\ i \in Nat /\ n \in Nat /\ Len(s) \in Nat /\ Len(new) \in Nat
          /\ n < i /\ i <= Len(s)
      BY <1>1, <1>3, SMT
    <3> QED
      BY <3>1, SMT
  <2>2. r[i + Len(new)] = t[i - n]
    BY <1>7, <2>1, Zenon
  <2>3. t[i - n] = s[i]
    BY <1>5, <2>1, Zenon
  <2>4. s[i].frame > f
    BY <1>2, <1>3, <2>1, SMT
  <2> QED
    BY <2>2, <2>3, <2>4
<1>12. Len(r) = Len(s) + Len(new)
  <2> HIDE DEF r
  <2> QED
    BY <1>1, <1>3, <1>7, SMT DEF r
<1> QED
  BY <1>3, <1>7, <1>8, <1>9, <1>10, <1>11, <1>12, Zenon DEF n, r

\* Where the event at a place of the result comes from.
LEMMA ScheduledFrom ==
    ASSUME NEW s \in Seq(Events), Sorted(s), NEW f \in Nat,
           NEW new \in Seq(Events),
           NEW p \in DOMAIN Scheduled(s, f, new)
    PROVE  LET n == Insertion(s, f)
               r == Scheduled(s, f, new)
           IN  \/ p \in 1 .. n /\ p \in DOMAIN s /\ r[p] = s[p] /\ s[p].frame <= f
               \/ p > n /\ p - n \in DOMAIN new /\ r[p] = new[p - n]
               \/ /\ p > n + Len(new) /\ p - Len(new) \in DOMAIN s
                  /\ p - Len(new) > n
                  /\ r[p] = s[p - Len(new)] /\ s[p - Len(new)].frame > f
<1> DEFINE n == Insertion(s, f)
           r == Scheduled(s, f, new)
<1>1. /\ n \in 0 .. Len(s)
      /\ r \in Seq(Events) /\ Len(r) = Len(s) + Len(new)
      /\ \A i \in 1 .. n : r[i] = s[i] /\ s[i].frame <= f
      /\ \A i \in 1 .. Len(new) : r[n + i] = new[i]
      /\ \A i \in n + 1 .. Len(s) :
            r[i + Len(new)] = s[i] /\ s[i].frame > f
  BY ScheduledPlaces
<1> HIDE DEF n, r
<1>2. /\ DOMAIN s = 1 .. Len(s) /\ Len(s) \in Nat /\ Len(new) \in Nat
      /\ DOMAIN new = 1 .. Len(new)
  BY SMT
<1>3. p \in 1 .. Len(s) + Len(new)
  <2>1. DOMAIN r = 1 .. Len(r)
    BY <1>1, SMT
  <2> QED
    BY <1>1, <2>1 DEF r
<1>4. CASE p <= n
  <2>1. p \in 1 .. n /\ p \in 1 .. Len(s)
    BY <1>1, <1>2, <1>3, <1>4, SMT
  <2> QED
    BY <1>1, <1>2, <2>1, Zenon DEF n, r
<1>5. CASE p > n /\ p <= n + Len(new)
  <2>1. p - n \in 1 .. Len(new) /\ n + (p - n) = p
    BY <1>1, <1>2, <1>3, <1>5, SMT
  <2>2. r[n + (p - n)] = new[p - n]
    BY <1>1, <2>1, Zenon
  <2> QED
    BY <1>2, <1>5, <2>1, <2>2, Zenon DEF n, r
<1>6. CASE p > n + Len(new)
  <2>1. /\ p - Len(new) \in n + 1 .. Len(s) /\ (p - Len(new)) + Len(new) = p
        /\ p - Len(new) \in 1 .. Len(s) /\ p - Len(new) > n
    BY <1>1, <1>2, <1>3, <1>6, SMT
  <2>2. /\ r[(p - Len(new)) + Len(new)] = s[p - Len(new)]
        /\ s[p - Len(new)].frame > f
    BY <1>1, <2>1, Zenon
  <2> QED
    BY <1>2, <1>6, <2>1, <2>2, Zenon DEF n, r
<1> QED
  BY <1>1, <1>2, <1>3, <1>4, <1>5, <1>6, SMT

\* Scheduling keeps the order of frames, and what is pending is what was, and
\* what is new.
LEMMA ScheduledKeeps ==
    ASSUME NEW s \in Seq(Events), Sorted(s), NEW f \in Nat,
           NEW new \in Seq(Events), \A i \in DOMAIN new : new[i].frame = f
    PROVE  /\ Sorted(Scheduled(s, f, new))
           /\ IdsOf(Scheduled(s, f, new)) = IdsOf(s) \cup IdsOf(new)
           /\ \A p \in DOMAIN Scheduled(s, f, new) :
                 \/ \E i \in DOMAIN s : Scheduled(s, f, new)[p] = s[i]
                 \/ \E i \in DOMAIN new : Scheduled(s, f, new)[p] = new[i]
<1> DEFINE n == Insertion(s, f)
           r == Scheduled(s, f, new)
           L == Len(new)
<1>0. /\ DOMAIN s = 1 .. Len(s) /\ Len(s) \in Nat /\ L \in Nat
      /\ DOMAIN new = 1 .. L
      /\ \A i \in DOMAIN s : s[i] \in Events
  BY SMT
<1>1. \A i \in DOMAIN s : s[i].frame \in Nat
  BY <1>0, SMT DEF Events
<1>2. /\ n \in 0 .. Len(s)
      /\ r \in Seq(Events) /\ Len(r) = Len(s) + L
      /\ \A i \in 1 .. n : r[i] = s[i] /\ s[i].frame <= f
      /\ \A i \in 1 .. L : r[n + i] = new[i]
      /\ \A i \in n + 1 .. Len(s) : r[i + L] = s[i] /\ s[i].frame > f
  BY ScheduledPlaces
<1>3. \A p \in DOMAIN r :
        \/ p \in 1 .. n /\ p \in DOMAIN s /\ r[p] = s[p] /\ s[p].frame <= f
        \/ p > n /\ p - n \in DOMAIN new /\ r[p] = new[p - n]
        \/ /\ p > n + L /\ p - L \in DOMAIN s /\ p - L > n
           /\ r[p] = s[p - L] /\ s[p - L].frame > f
  BY ScheduledFrom
<1>4. DOMAIN r = 1 .. Len(s) + L
  <2>1. DOMAIN r = 1 .. Len(r)
    BY <1>2, SMT
  <2> QED
    BY <1>2, <2>1
<1> HIDE DEF n, r, L
<1>5. Sorted(r)
  <2> SUFFICES ASSUME NEW p \in DOMAIN r, NEW q \in DOMAIN r, p < q
               PROVE  r[p].frame <= r[q].frame
    BY DEF Sorted
  <2>0. p \in Nat /\ q \in Nat /\ n \in Nat
    BY <1>0, <1>2, <1>4, SMT
  <2>1. CASE p \in 1 .. n /\ p \in DOMAIN s /\ r[p] = s[p] /\ s[p].frame <= f
    <3>1. CASE q \in 1 .. n /\ q \in DOMAIN s /\ r[q] = s[q]
      BY <2>1, <3>1 DEF Sorted
    <3>2. CASE q - n \in DOMAIN new /\ r[q] = new[q - n]
      BY <2>1, <3>2
    <3>3. CASE q - L \in DOMAIN s /\ r[q] = s[q - L] /\ s[q - L].frame > f
      BY <1>1, <2>1, <3>3, SMT
    <3> QED
      BY <1>3, <3>1, <3>2, <3>3
  <2>2. CASE p > n /\ p - n \in DOMAIN new /\ r[p] = new[p - n]
    <3>1. CASE q \in 1 .. n
      BY <2>0, <2>2, <3>1, SMT
    <3>2. CASE q - n \in DOMAIN new /\ r[q] = new[q - n]
      BY <2>2, <3>2, SMT
    <3>3. CASE q - L \in DOMAIN s /\ r[q] = s[q - L] /\ s[q - L].frame > f
      BY <1>1, <2>2, <3>3, SMT
    <3> QED
      BY <1>3, <3>1, <3>2, <3>3
  <2>3. CASE /\ p > n + L /\ p - L \in DOMAIN s /\ p - L > n
             /\ r[p] = s[p - L] /\ s[p - L].frame > f
    <3>1. CASE q \in 1 .. n
      BY <1>0, <2>0, <2>3, <3>1, SMT
    <3>2. CASE q - n \in DOMAIN new
      BY <1>0, <2>0, <2>3, <3>2, SMT
    <3>3. CASE q - L \in DOMAIN s /\ r[q] = s[q - L]
      <4>1. p - L < q - L
        BY <1>0, <2>0, SMT
      <4>2. s[p - L].frame <= s[q - L].frame
        BY <2>3, <3>3, <4>1 DEF Sorted
      <4> QED
        BY <2>3, <3>3, <4>2, Zenon
    <3> QED
      BY <1>3, <3>1, <3>2, <3>3
  <2> QED
    BY <1>3, <2>1, <2>2, <2>3
<1>6. \A p \in DOMAIN r : \/ \E i \in DOMAIN s : r[p] = s[i]
                          \/ \E i \in DOMAIN new : r[p] = new[i]
  BY <1>3
<1>7. ASSUME NEW i \in DOMAIN s PROVE \E p \in DOMAIN r : r[p] = s[i]
  <2>1. CASE i <= n
    <3>1. i \in 1 .. n /\ i \in DOMAIN r
      BY <1>0, <1>2, <1>4, <2>1, SMT
    <3> QED
      BY <1>2, <3>1
  <2>2. CASE i > n
    <3>1. i \in n + 1 .. Len(s) /\ i + L \in DOMAIN r
      BY <1>0, <1>2, <1>4, <2>2, SMT
    <3> QED
      BY <1>2, <3>1
  <2> QED
    BY <1>0, <1>2, <2>1, <2>2, SMT
<1>8. ASSUME NEW i \in DOMAIN new PROVE \E p \in DOMAIN r : r[p] = new[i]
  <2>1. i \in 1 .. L /\ n + i \in DOMAIN r
    BY <1>0, <1>2, <1>4, SMT
  <2> QED
    BY <1>2, <2>1
<1>9. IdsOf(r) = IdsOf(s) \cup IdsOf(new)
  BY <1>6, <1>7, <1>8 DEF IdsOf
<1> QED
  BY <1>5, <1>6, <1>9 DEF r

\* An event that is scheduled comes after those sent before it, but for those
\* of K; messages have no number and no place among them.
LEMMA ScheduledIds ==
    ASSUME NEW s \in Seq(Events), Sorted(s), NEW f \in Nat, NEW K,
           NEW new \in Seq(Events),
           \A i, j \in DOMAIN new : i # j => new[i].id = 0,
           UniqueIds(s), InOrder(s, K),
           \A i \in DOMAIN s : \A j \in DOMAIN new :
              new[j].id # 0 => /\ s[i].id < new[j].id
                               /\ s[i].id \in K \cup {0} \/ s[i].frame <= f
    PROVE  /\ UniqueIds(Scheduled(s, f, new))
           /\ InOrder(Scheduled(s, f, new), K)
<1> DEFINE n == Insertion(s, f)
           r == Scheduled(s, f, new)
           L == Len(new)
<1>0. /\ DOMAIN s = 1 .. Len(s) /\ Len(s) \in Nat /\ L \in Nat
      /\ DOMAIN new = 1 .. L
      /\ \A i \in DOMAIN s : s[i] \in Events
      /\ \A i \in DOMAIN new : new[i] \in Events
  BY SMT
<1>1. /\ \A i \in DOMAIN s : s[i].frame \in Nat /\ s[i].id \in Nat
      /\ \A i \in DOMAIN new : new[i].id \in Nat
  <2>1. 0 .. MaxTriggers \subseteq Nat
    BY RunEventsAssumption, SMT
  <2>2. \A e \in Events : e.frame \in Nat /\ e.id \in 0 .. MaxTriggers
    BY DEF Events
  <2> QED
    BY <1>0, <2>1, <2>2
<1>2. n \in Nat /\ DOMAIN r \subseteq Nat
  <2>1. n \in 0 .. Len(s) /\ r \in Seq(Events)
    BY ScheduledPlaces
  <2> HIDE DEF n, r
  <2> QED
    BY <1>0, <2>1, SMT
<1>3. \A p \in DOMAIN r :
        \/ p \in 1 .. n /\ p \in DOMAIN s /\ r[p] = s[p] /\ s[p].frame <= f
        \/ p > n /\ p - n \in DOMAIN new /\ r[p] = new[p - n]
        \/ /\ p > n + L /\ p - L \in DOMAIN s /\ p - L > n
           /\ r[p] = s[p - L] /\ s[p - L].frame > f
  BY ScheduledFrom
<1> HIDE DEF n, r, L
<1> DEFINE From(p, i) == /\ i \in DOMAIN s /\ r[p] = s[i]
                         /\ IF p <= n THEN i = p ELSE i = p - L /\ p > n + L /\ s[i].frame > f
           Is(p, j) == j \in DOMAIN new /\ r[p] = new[j] /\ p = n + j
<1>4. \A p \in DOMAIN r : (\E i \in DOMAIN s : From(p, i)) \/ \E j \in DOMAIN new : Is(p, j)
  <2> SUFFICES ASSUME NEW p \in DOMAIN r
               PROVE  (\E i \in DOMAIN s : From(p, i)) \/ \E j \in DOMAIN new : Is(p, j)
    OBVIOUS
  <2>0. p \in Nat
    BY <1>2
  <2>1. CASE p \in 1 .. n /\ p \in DOMAIN s /\ r[p] = s[p]
    <3>1. From(p, p)
      BY <1>2, <2>1, SMT
    <3> QED
      BY <2>1, <3>1
  <2>2. CASE p > n /\ p - n \in DOMAIN new /\ r[p] = new[p - n]
    <3>1. p = n + (p - n)
      BY <1>2, <2>0, SMT
    <3>2. Is(p, p - n)
      BY <2>2, <3>1, Zenon
    <3> QED
      BY <2>2, <3>2
  <2>3. CASE /\ p > n + L /\ p - L \in DOMAIN s
             /\ r[p] = s[p - L] /\ s[p - L].frame > f
    <3>1. ~(p <= n)
      BY <1>0, <1>2, <2>0, <2>3, SMT
    <3>2. From(p, p - L)
      BY <2>3, <3>1, Zenon
    <3> QED
      BY <2>3, <3>2
  <2> QED
    BY <1>3, <2>1, <2>2, <2>3
<1>5. ASSUME NEW p \in DOMAIN r, NEW q \in DOMAIN r,
             NEW i \in DOMAIN s, NEW k \in DOMAIN s, From(p, i), From(q, k)
      PROVE  (i = k => p = q) /\ (p < q => i < k)
  BY <1>0, <1>2, <1>5, SMT
<1>6. UniqueIds(r)
  <2> SUFFICES ASSUME NEW p \in DOMAIN r, NEW q \in DOMAIN r,
                      r[p].id = r[q].id, r[p].id # 0
               PROVE  p = q
    BY DEF UniqueIds
  <2>1. ASSUME NEW i \in DOMAIN s, NEW k \in DOMAIN s, From(p, i), From(q, k)
        PROVE  p = q
    <3>1. i = k
      BY <2>1, Zenon DEF UniqueIds
    <3> QED
      BY <1>5, <2>1, <3>1
  <2>2. ASSUME NEW i \in DOMAIN new, NEW k \in DOMAIN new, Is(p, i), Is(q, k)
        PROVE  p = q
    <3>1. i = k
      BY <2>2, Zenon
    <3> QED
      BY <2>2, <3>1
  <2>3. ASSUME NEW i \in DOMAIN s, NEW k \in DOMAIN new, From(p, i), Is(q, k)
        PROVE  FALSE
    <3>1. s[i].id = new[k].id /\ new[k].id # 0
      BY <2>3, Zenon
    <3>2. s[i].id < new[k].id
      BY <3>1
    <3> QED
      BY <1>1, <3>1, <3>2, SMT
  <2>4. ASSUME NEW i \in DOMAIN s, NEW k \in DOMAIN new, From(q, i), Is(p, k)
        PROVE  FALSE
    <3>1. s[i].id = new[k].id /\ new[k].id # 0
      BY <2>4, Zenon
    <3>2. s[i].id < new[k].id
      BY <3>1
    <3> QED
      BY <1>1, <3>1, <3>2, SMT
  <2> HIDE DEF From, Is
  <2> QED
    BY <1>4, <2>1, <2>2, <2>3, <2>4
<1>7. InOrder(r, K)
  <2> SUFFICES ASSUME NEW p \in DOMAIN r, NEW q \in DOMAIN r,
                      p < q, r[q].id # 0, r[q].id < r[p].id
               PROVE  r[q].id \in K
    BY DEF InOrder
  <2>1. ASSUME NEW i \in DOMAIN s, NEW k \in DOMAIN s, From(p, i), From(q, k)
        PROVE  r[q].id \in K
    <3>1. i < k /\ r[p] = s[i] /\ r[q] = s[k]
      BY <1>5, <2>1
    <3> HIDE DEF From
    <3> QED
      BY <3>1 DEF InOrder
  <2>2. ASSUME NEW i \in DOMAIN new, NEW k \in DOMAIN new, Is(p, i), Is(q, k)
        PROVE  FALSE
    <3>1. i < k /\ i # k
      BY <1>0, <1>2, <2>2, SMT
    <3>2. r[q].id = 0
      BY <2>2, <3>1, Zenon
    <3> QED
      BY <3>2
  <2>3. ASSUME NEW i \in DOMAIN s, NEW k \in DOMAIN new, From(p, i), Is(q, k)
        PROVE  FALSE
    <3>1. r[q] = new[k] /\ r[p] = s[i]
      BY <2>3
    <3>2. s[i].id < new[k].id
      BY <3>1
    <3> QED
      BY <1>1, <3>1, <3>2, SMT
  <2>4. ASSUME NEW i \in DOMAIN new, NEW k \in DOMAIN s, Is(p, i), From(q, k)
        PROVE  r[q].id \in K
    <3>1. r[p] = new[i] /\ r[q] = s[k] /\ s[k].frame > f
      BY <1>0, <1>2, <2>4, SMT
    <3>2. new[i].id # 0
      BY <1>1, <3>1, SMT
    <3>3. s[k].id \in K \cup {0} \/ s[k].frame <= f
      BY <3>2
    <3>4. ~(s[k].frame <= f)
      BY <1>1, <3>1, SMT
    <3> QED
      BY <3>1, <3>3, <3>4
  <2> HIDE DEF From, Is
  <2> QED
    BY <1>4, <2>1, <2>2, <2>3, <2>4
<1> QED
  BY <1>6, <1>7 DEF r

\* A part of what is pending is in the order of the whole.
LEMMA PartKeeps ==
    ASSUME NEW s \in Seq(Events), NEW r, NEW m \in Nat, DOMAIN r = 1 .. m,
           NEW f \in [1 .. m -> DOMAIN s],
           \A k, l \in 1 .. m : k < l => f[k] < f[l],
           \A k \in 1 .. m : r[k] = s[f[k]], NEW K
    PROVE  /\ Sorted(s) => Sorted(r)
           /\ UniqueIds(s) => UniqueIds(r)
           /\ InOrder(s, K) => InOrder(r, K)
           /\ IdsOf(r) \subseteq IdsOf(s)
<1>1. Sorted(s) => Sorted(r)
  BY DEF Sorted
<1>2. UniqueIds(s) => UniqueIds(r)
  <2> SUFFICES ASSUME UniqueIds(s), NEW i \in 1 .. m, NEW j \in 1 .. m,
                      r[i].id = r[j].id, r[i].id # 0
               PROVE  i = j
    BY DEF UniqueIds
  <2>1. f[i] = f[j]
    BY DEF UniqueIds
  <2>2. DOMAIN s \subseteq Nat
    BY SMT
  <2>3. f[i] \in Nat /\ i \in Nat /\ j \in Nat
    BY <2>2, SMT
  <2>4. (i < j => f[i] < f[j]) /\ (j < i => f[j] < f[i])
    OBVIOUS
  <2> QED
    BY <2>1, <2>3, <2>4, SMT
<1>3. InOrder(s, K) => InOrder(r, K)
  <2> SUFFICES ASSUME InOrder(s, K), NEW i \in 1 .. m, NEW j \in 1 .. m,
                      i < j, r[j].id # 0, r[j].id < r[i].id
               PROVE  r[j].id \in K
    BY DEF InOrder
  <2>1. f[i] \in DOMAIN s /\ f[j] \in DOMAIN s /\ f[i] < f[j]
    OBVIOUS
  <2> QED
    BY <2>1 DEF InOrder
<1>4. IdsOf(r) \subseteq IdsOf(s)
  BY DEF IdsOf
<1> QED
  BY <1>1, <1>2, <1>3, <1>4

\* The events of a block are those of pending_run_events with a frame in it.
LEMMA DueFirst ==
    ASSUME pending \in Seq(Events), Sorted(pending)
    PROVE  /\ DueCount \in 0 .. Len(pending)
           /\ \A i \in DOMAIN pending :
                 i <= DueCount <=> pending[i].frame < BlockLen
<1>1. /\ Len(pending) \in Nat /\ DOMAIN pending = 1 .. Len(pending)
      /\ \A i \in DOMAIN pending : pending[i] \in Events
  BY SMT
<1>2. \A i \in DOMAIN pending : pending[i].frame \in Nat
  BY <1>1, SMT DEF Events
<1>3. BlockLen \in Nat
  BY RunEventsAssumption
<1>4. \A i \in DOMAIN pending :
         pending[i].frame < BlockLen <=> pending[i].frame <= BlockLen - 1
  BY <1>2, <1>3, SMT
<1>5. DueCount = Cardinality({i \in DOMAIN pending : pending[i].frame <= BlockLen - 1})
  BY <1>4 DEF DueCount
<1>6. BlockLen - 1 \in Int
  BY <1>3, SMT
<1> QED
  BY <1>4, <1>5, <1>6, SortedBeginning, Zenon

\* The two parts that a block divides the pending events into.
LEMMA DueParts ==
    ASSUME pending \in Seq(Events), Sorted(pending), UniqueIds(pending), NEW K,
           InOrder(pending, K)
    PROVE  /\ Due \in Seq(Events) /\ NotDue \in Seq(Events)
           /\ DOMAIN Due \subseteq DOMAIN pending
           /\ \A i \in DOMAIN Due : Due[i] = pending[i]
           /\ Len(NotDue) <= Len(pending)
           /\ \A k \in DOMAIN NotDue : NotDue[k].frame >= BlockLen
           /\ \A k \in DOMAIN NotDue : \E i \in DOMAIN pending : NotDue[k] = pending[i]
           /\ Sorted(NotDue) /\ UniqueIds(NotDue) /\ InOrder(NotDue, K)
           /\ IdsOf(NotDue) = IdsOf(pending) \ DueIds
           /\ DueIds \subseteq IdsOf(pending)
           /\ \A i \in IdsOf(NotDue) : \A j \in DueIds : i < j => i \in K
<1> DEFINE n == DueCount
           m == Len(pending) - n
<1>1. /\ Len(pending) \in Nat /\ DOMAIN pending = 1 .. Len(pending)
      /\ \A i \in DOMAIN pending : pending[i] \in Events
  BY SMT
<1>2. /\ n \in 0 .. Len(pending)
      /\ \A i \in DOMAIN pending : i <= n <=> pending[i].frame < BlockLen
  BY DueFirst
<1> HIDE DEF n
<1>3. /\ Due \in Seq(Events) /\ Len(Due) = n /\ \A i \in 1 .. n : Due[i] = pending[i]
      /\ NotDue \in Seq(Events) /\ Len(NotDue) = m
      /\ \A i \in 1 .. m : NotDue[i] = pending[i + n]
  BY <1>2, Cut DEF Due, NotDue, n
<1>4. DOMAIN Due = 1 .. n /\ DOMAIN NotDue = 1 .. m
  BY <1>3, SMT
<1>5. /\ n \in Nat /\ m \in Nat /\ n <= Len(pending)
      /\ m <= Len(pending) /\ 1 .. n \subseteq DOMAIN pending
      /\ \A k \in 1 .. m : k + n \in DOMAIN pending /\ ~(k + n <= n)
      /\ \A k, l \in 1 .. m : k < l => k + n < l + n
      /\ \A i \in DOMAIN pending :
            i \in 1 .. n \/ (~(i <= n) /\ i - n \in 1 .. m /\ (i - n) + n = i)
  <2>1. /\ n \in Nat /\ n <= Len(pending) /\ Len(pending) \in Nat
        /\ DOMAIN pending = 1 .. Len(pending)
    BY <1>1, <1>2, SMT
  <2>2. /\ m \in Nat /\ m <= Len(pending) /\ 1 .. n \subseteq DOMAIN pending
    BY <2>1, SMT
  <2>3. /\ \A k \in 1 .. m : k + n \in DOMAIN pending /\ ~(k + n <= n)
        /\ \A k, l \in 1 .. m : k < l => k + n < l + n
    BY <2>1, SMT
  <2>4. \A i \in DOMAIN pending :
            i \in 1 .. n \/ (~(i <= n) /\ i - n \in 1 .. m /\ (i - n) + n = i)
    BY <2>1, SMT
  <2> QED
    BY <2>1, <2>2, <2>3, <2>4, Zenon
<1> HIDE DEF m
<1> DEFINE f == [k \in 1 .. m |-> k + n]
<1>6. /\ Sorted(NotDue) /\ UniqueIds(NotDue) /\ InOrder(NotDue, K)
      /\ IdsOf(NotDue) \subseteq IdsOf(pending)
  <2>1. f \in [1 .. m -> DOMAIN pending]
    BY <1>5
  <2>2. \A k, l \in 1 .. m : k < l => f[k] < f[l]
    BY <1>5
  <2>3. \A k \in 1 .. m : NotDue[k] = pending[f[k]]
    BY <1>3
  <2> HIDE DEF f
  <2>4. m \in Nat /\ DOMAIN NotDue = 1 .. m
    BY <1>4, <1>5
  <2>5. /\ Sorted(pending) => Sorted(NotDue)
        /\ UniqueIds(pending) => UniqueIds(NotDue)
        /\ InOrder(pending, K) => InOrder(NotDue, K)
        /\ IdsOf(NotDue) \subseteq IdsOf(pending)
    BY <2>1, <2>2, <2>3, <2>4, PartKeeps
  <2> QED
    BY <2>5, Zenon
<1>7. \A k \in DOMAIN NotDue : NotDue[k].frame >= BlockLen
  <2> SUFFICES ASSUME NEW k \in 1 .. m PROVE NotDue[k].frame >= BlockLen
    BY <1>4
  <2>1. k + n \in DOMAIN pending /\ ~(pending[k + n].frame < BlockLen)
        /\ NotDue[k] = pending[k + n]
    BY <1>2, <1>3, <1>5
  <2>2. pending[k + n].frame \in Nat
    BY <1>1, <2>1, SMT DEF Events
  <2> QED
    BY <2>1, <2>2, RunEventsAssumption, SMT
<1>8. \A k \in DOMAIN NotDue : \E i \in DOMAIN pending : NotDue[k] = pending[i]
  BY <1>3, <1>4, <1>5
<1>9. DueIds = IdsOf(Due) /\ DueIds \subseteq IdsOf(pending)
  BY <1>3, <1>4, <1>5 DEF DueIds, IdsOf
<1>10. \A i \in DOMAIN pending : (\E k \in DOMAIN Due : pending[i] = Due[k])
                                  \/ \E k \in DOMAIN NotDue : pending[i] = NotDue[k]
  <2> SUFFICES ASSUME NEW i \in DOMAIN pending
               PROVE  \/ \E k \in DOMAIN Due : pending[i] = Due[k]
                      \/ \E k \in DOMAIN NotDue : pending[i] = NotDue[k]
    OBVIOUS
  <2>1. CASE i \in 1 .. n
    BY <1>3, <1>4, <2>1
  <2>2. CASE i - n \in 1 .. m /\ (i - n) + n = i
    <3>1. NotDue[i - n] = pending[(i - n) + n]
      BY <1>3, <2>2
    <3> QED
      BY <1>4, <2>2, <3>1
  <2> QED
    BY <1>5, <2>1, <2>2
<1>11. ASSUME NEW i \in DOMAIN Due, NEW k \in DOMAIN NotDue
       PROVE  /\ i \in DOMAIN pending /\ k + n \in DOMAIN pending /\ i < k + n
              /\ Due[i] = pending[i] /\ NotDue[k] = pending[k + n]
  <2>1. i \in 1 .. n /\ k \in 1 .. m
    BY <1>4, <1>11
  <2>2. i < k + n
    BY <1>5, <2>1, SMT
  <2> QED
    BY <1>3, <1>5, <2>1, <2>2
<1>12. ASSUME NEW i \in DOMAIN Due, NEW k \in DOMAIN NotDue, Due[i].id = NotDue[k].id
       PROVE  Due[i].id = 0
  <2>1. i \in Nat /\ k + n \in Nat
    BY <1>1, <1>11, SMT
  <2>2. pending[i].id # 0 => i = k + n
    BY <1>11, <1>12 DEF UniqueIds
  <2>3. i # k + n
    <3>1. i < k + n
      BY <1>11
    <3> QED
      BY <2>1, <3>1, SMT
  <2> QED
    BY <1>11, <2>2, <2>3
<1>13. IdsOf(NotDue) = IdsOf(pending) \ DueIds
  <2>1. ASSUME NEW x \in IdsOf(NotDue) PROVE x \notin DueIds
    BY <1>9, <1>12, <2>1 DEF IdsOf
  <2>2. ASSUME NEW x \in IdsOf(pending) PROVE x \in IdsOf(NotDue) \cup DueIds
    <3>1. PICK i \in DOMAIN pending : x = pending[i].id /\ x # 0
      BY <2>2 DEF IdsOf
    <3>2. CASE \E k \in DOMAIN Due : pending[i] = Due[k]
      BY <1>9, <3>1, <3>2 DEF IdsOf
    <3>3. CASE \E k \in DOMAIN NotDue : pending[i] = NotDue[k]
      BY <3>1, <3>3 DEF IdsOf
    <3> QED
      BY <1>10, <3>2, <3>3
  <2> QED
    BY <1>6, <2>1, <2>2
<1>14. \A a \in IdsOf(NotDue) : \A b \in DueIds : a < b => a \in K
  <2> SUFFICES ASSUME NEW k \in DOMAIN NotDue, NotDue[k].id # 0,
                      NEW i \in DOMAIN Due, NotDue[k].id < Due[i].id
               PROVE  NotDue[k].id \in K
    BY <1>9 DEF IdsOf
  <2> QED
    BY <1>11 DEF InOrder
<1>15. Len(NotDue) <= Len(pending) /\ DOMAIN Due \subseteq DOMAIN pending
       /\ \A i \in DOMAIN Due : Due[i] = pending[i]
  BY <1>3, <1>4, <1>5
<1> QED
  BY <1>3, <1>6, <1>7, <1>8, <1>9, <1>13, <1>14, <1>15

\* What a recovery keeps: the events of clients, as they are, each with a
\* number of its own.
LEMMA OwnKeeps ==
    ASSUME pending \in Seq(Events), Sorted(pending), UniqueIds(pending), NEW K,
           InOrder(pending, K)
    PROVE  /\ Own \in Seq(Events) /\ Len(Own) = Cardinality(PendingIds)
           /\ Len(Own) <= Len(pending)
           /\ \A k \in DOMAIN Own : \E i \in DOMAIN pending : Own[k] = pending[i]
           /\ Sorted(Own) /\ UniqueIds(Own) /\ InOrder(Own, K)
           /\ IdsOf(Own) = PendingIds
<1> DEFINE P == {i \in DOMAIN pending : pending[i].id # 0}
           c == Cardinality(P)
<1>1. /\ Len(pending) \in Nat /\ DOMAIN pending = 1 .. Len(pending)
      /\ \A i \in DOMAIN pending : pending[i] \in Events
  BY SMT
<1>2. P \in SUBSET DOMAIN pending
  OBVIOUS
<1>3. Own = Retained(pending, P)
  BY DEF Own
<1> HIDE DEF P
<1>4. c \in Nat /\ c <= Len(pending)
  BY <1>2, RetainedPlaces
<1>5. PICK f \in [1 .. c -> P] :
         /\ \A k, m \in 1 .. c : k < m => f[k] < f[m]
         /\ \A i \in P : \E k \in 1 .. c : f[k] = i
         /\ Own = [k \in 1 .. c |-> pending[f[k]]]
  BY <1>2, <1>3, RetainedPlaces
<1> HIDE DEF c
<1>6. \A k \in 1 .. c : Own[k] = pending[f[k]] /\ f[k] \in DOMAIN pending
  BY <1>2, <1>5
<1>7. Own \in Seq(Events) /\ Len(Own) = c /\ DOMAIN Own = 1 .. c
  <2>1. Own \in [1 .. c -> Events]
    BY <1>1, <1>5, <1>6
  <2> QED
    BY <1>4, <2>1, SMT
<1>8. /\ Sorted(Own) /\ UniqueIds(Own) /\ InOrder(Own, K)
      /\ IdsOf(Own) \subseteq IdsOf(pending)
  <2>1. f \in [1 .. c -> DOMAIN pending]
    BY <1>2
  <2> QED
    BY <1>4, <1>5, <1>6, <1>7, <2>1, PartKeeps
<1>9. PendingIds = IdsOf(pending)
  BY DEF PendingIds, IdsOf
<1>10. PendingIds \subseteq IdsOf(Own)
  <2> SUFFICES ASSUME NEW i \in DOMAIN pending, pending[i].id # 0
               PROVE  pending[i].id \in IdsOf(Own)
    BY <1>9 DEF IdsOf
  <2>1. i \in P
    BY DEF P
  <2>2. PICK k \in 1 .. c : f[k] = i
    BY <1>5, <2>1
  <2> QED
    BY <1>6, <1>7, <2>2 DEF IdsOf
<1>11. \A k \in DOMAIN Own : \E i \in DOMAIN pending : Own[k] = pending[i]
  BY <1>6, <1>7
<1>12. c = Cardinality(PendingIds)
  <2> DEFINE g == [i \in P |-> pending[i].id]
  <2>1. g \in [P -> PendingIds]
    BY DEF P, PendingIds
  <2>2. \A i, j \in P : g[i] = g[j] => i = j
    BY DEF P, UniqueIds
  <2>3. g \in Injection(P, PendingIds)
    BY <2>1, <2>2, Zenon DEF Injection, IsInjective
  <2>4. \A x \in PendingIds : \E i \in P : g[i] = x
    BY DEF P, PendingIds
  <2>5. g \in Surjection(P, PendingIds)
    BY <2>1, <2>4 DEF Surjection
  <2>6. IsFiniteSet(P)
    <3>1. \A k \in Nat : IsFiniteSet(1 .. k)
      BY FS_Interval, SMT
    <3> QED
      BY <1>1, <1>2, <3>1, FS_Subset
  <2> QED
    BY <2>3, <2>5, <2>6, FS_Surjection DEF c
<1> QED
  BY <1>4, <1>7, <1>8, <1>9, <1>10, <1>11, <1>12

\* The frame of a time on the timeline with this anchor.
Reach(x, t) == Max({0, x.frame + (t - x.time)})

AnchorPoints == [time : 0 .. MaxTime, frame : -MaxTime .. 0]

\* max of two numbers.
LEMMA MaxOfTwo ==
    ASSUME NEW a \in Int, NEW b \in Int
    PROVE  Max({a, b}) = IF a >= b THEN a ELSE b
<1> DEFINE m == IF a >= b THEN a ELSE b
<1>1. m \in {a, b} /\ \A y \in {a, b} : m >= y
  BY SMT
<1>2. \A x \in {a, b} : (\A y \in {a, b} : x >= y) => x = m
  BY SMT
<1> HIDE DEF m
<1>3. Max({a, b}) = m
  BY <1>1, <1>2 DEF Max
<1> QED
  BY <1>3 DEF m

\* No frame is in the past, and later times have later frames.
LEMMA ReachIs ==
    ASSUME NEW x \in AnchorPoints, NEW t \in Int
    PROVE  /\ x.frame \in Int /\ x.time \in Int /\ x.frame <= 0
           /\ Reach(x, t) = IF 0 >= x.frame + (t - x.time) THEN 0
                            ELSE x.frame + (t - x.time)
<1>1. /\ x.time \in 0 .. MaxTime /\ x.frame \in -MaxTime .. 0
  BY DEF AnchorPoints
<1>2. MaxTime \in Nat
  BY RunEventsAssumption
<1>3. x.frame \in Int /\ x.time \in Int /\ x.frame <= 0
  BY <1>1, <1>2, SMT
<1>4. x.frame + (t - x.time) \in Int /\ 0 \in Int
  BY <1>3, SMT
<1> QED
  BY <1>3, <1>4, MaxOfTwo, Zenon DEF Reach

\* frame_at: the anchor it leaves gives the frame it returns, and gives no
\* time an earlier frame than the anchor before it.
LEMMA Timeline ==
    ASSUME NEW time \in 0 .. MaxTime, NEW a \in Anchors
    PROVE  \E y \in AnchorPoints :
              /\ AnchorFor(time, a) = {y} /\ AnchorFor(time, a) \in Anchors
              /\ FrameAt(time, a) = Reach(y, time) /\ FrameAt(time, a) \in Nat
              /\ \A x \in a : x \in AnchorPoints
                              /\ \A t \in Int : Reach(x, t) <= Reach(y, t)
              /\ \A t, u \in Int : t <= u => Reach(y, t) <= Reach(y, u)
<1>0. MaxTime \in Nat /\ time \in Int /\ time >= 0 /\ time <= MaxTime
  BY RunEventsAssumption, SMT
<1>1. /\ \A y \in AnchorPoints : {y} \in Anchors
      /\ a = {} \/ \E y \in AnchorPoints : a = {y}
  BY DEF Anchors, AnchorPoints
<1>2. ASSUME NEW y \in AnchorPoints, AnchorFor(time, a) = {y}
      PROVE  /\ FrameAt(time, a) = Reach(y, time) /\ FrameAt(time, a) \in Nat
             /\ \A t, u \in Int : t <= u => Reach(y, t) <= Reach(y, u)
  <2>1. FrameAt(time, a) = Reach(y, time)
    BY <1>2 DEF FrameAt, Reach
  <2>2. Reach(y, time) \in Nat
    BY <1>0, ReachIs, SMT
  <2>3. ASSUME NEW t \in Int, NEW u \in Int, t <= u
        PROVE  Reach(y, t) <= Reach(y, u)
    <3>1. /\ y.frame \in Int /\ y.time \in Int
          /\ Reach(y, t) = IF 0 >= y.frame + (t - y.time) THEN 0
                           ELSE y.frame + (t - y.time)
          /\ Reach(y, u) = IF 0 >= y.frame + (u - y.time) THEN 0
                           ELSE y.frame + (u - y.time)
      BY ReachIs
    <3> QED
      BY <2>3, <3>1, SMT
  <2> QED
    BY <2>1, <2>2, <2>3
<1>3. CASE \E x \in a : time >= x.time
  <2>1. PICK y \in AnchorPoints : a = {y}
    BY <1>1, <1>3
  <2>2. AnchorFor(time, a) = {y}
    BY <1>3, <2>1 DEF AnchorFor
  <2>3. \A t \in Int : Reach(y, t) <= Reach(y, t)
    <3> SUFFICES ASSUME NEW t \in Int PROVE Reach(y, t) <= Reach(y, t)
      OBVIOUS
    <3> QED
      BY ReachIs, SMT
  <2> QED
    BY <1>1, <1>2, <2>1, <2>2, <2>3
<1>4. CASE ~\E x \in a : time >= x.time
  <2> DEFINE y == [time |-> time, frame |-> 0]
  <2>1. y \in AnchorPoints
    BY <1>0, SMT DEF AnchorPoints
  <2>2. AnchorFor(time, a) = {y}
    BY <1>4 DEF AnchorFor
  <2>3. ASSUME NEW x \in a PROVE x \in AnchorPoints
                                 /\ \A t \in Int : Reach(x, t) <= Reach(y, t)
    <3>1. x \in AnchorPoints /\ ~(time >= x.time)
      BY <1>1, <1>4
    <3>2. y.time = time /\ y.frame = 0
      OBVIOUS
    <3> SUFFICES ASSUME NEW t \in Int PROVE Reach(x, t) <= Reach(y, t)
      BY <3>1
    <3> HIDE DEF y
    <3>3. /\ x.frame \in Int /\ x.time \in Int /\ x.frame <= 0
          /\ Reach(x, t) = IF 0 >= x.frame + (t - x.time) THEN 0
                           ELSE x.frame + (t - x.time)
      BY <3>1, ReachIs
    <3>4. Reach(y, t) = IF 0 >= 0 + (t - time) THEN 0 ELSE 0 + (t - time)
      BY <2>1, <3>2, ReachIs
    <3> QED
      BY <1>0, <3>1, <3>3, <3>4, SMT
  <2> HIDE DEF y
  <2> QED
    BY <1>1, <1>2, <2>1, <2>2, <2>3
<1> QED
  BY <1>3, <1>4

\* What is pending is no later than the frame of an event that is still to
\* come, unless it is in K.
Bounded(s, a, K, T) ==
    \A x \in a : \A p \in DOMAIN s : s[p].id \notin K \cup {0} =>
        \A t \in T : s[p].frame <= Reach(x, t)

\* An event that joins those that wait, at the frame of its time stamp.
LEMMA Joined ==
    ASSUME pending \in Seq(Events), Sorted(pending), UniqueIds(pending),
           InOrder(pending, kept), anchor \in Anchors,
           anchor = {} => IdsOf(pending) \subseteq kept,
           NEW T \in SUBSET Int, Bounded(pending, anchor, kept, T),
           NEW U \in SUBSET T,
           NEW time \in 0 .. MaxTime, NEW e \in Events,
           e.frame = FrameAt(time, anchor),
           e.id # 0 => /\ time \in T
                       /\ \A t \in U : time <= t
                       /\ \A i \in DOMAIN pending : pending[i].id < e.id
    PROVE  LET r == Scheduled(pending, e.frame, <<e>>)
           IN  /\ r \in Seq(Events) /\ Len(r) = Len(pending) + 1
               /\ Sorted(r) /\ UniqueIds(r) /\ InOrder(r, kept)
               /\ IdsOf(r) = IdsOf(pending) \cup ({e.id} \ {0})
               /\ Bounded(r, AnchorFor(time, anchor), kept, U)
<1> DEFINE new == <<e>>
           r == Scheduled(pending, e.frame, new)
<1>1. PICK y \in AnchorPoints :
              /\ AnchorFor(time, anchor) = {y}
              /\ FrameAt(time, anchor) = Reach(y, time)
              /\ FrameAt(time, anchor) \in Nat
              /\ \A x \in anchor : x \in AnchorPoints
                              /\ \A t \in Int : Reach(x, t) <= Reach(y, t)
              /\ \A t, u \in Int : t <= u => Reach(y, t) <= Reach(y, u)
  BY Timeline
<1>2. new \in Seq(Events) /\ Len(new) = 1 /\ DOMAIN new = {1} /\ new[1] = e
  BY SMT
<1>3. \A i \in DOMAIN pending : pending[i].frame \in Int
  <2>1. \A i \in DOMAIN pending : pending[i] \in Events
    BY SMT
  <2> QED
    BY <2>1, SMT DEF Events
<1>4. time \in Int
  BY RunEventsAssumption, SMT
<1> HIDE DEF new
<1>5. ASSUME NEW i \in DOMAIN pending, NEW t \in T,
             pending[i].id \notin kept \cup {0}
      PROVE  pending[i].frame <= Reach(y, t)
  <2>1. PICK x \in anchor : TRUE
    BY <1>5 DEF IdsOf
  <2>2. pending[i].frame <= Reach(x, t) /\ Reach(x, t) <= Reach(y, t)
    BY <1>1, <1>5, <2>1 DEF Bounded
  <2>3. Reach(x, t) \in Int /\ Reach(y, t) \in Int
    <3>1. t \in Int /\ x \in AnchorPoints
      BY <1>1
    <3>2. ASSUME NEW z \in AnchorPoints PROVE Reach(z, t) \in Int
      <4>1. /\ z.frame \in Int /\ z.time \in Int
            /\ Reach(z, t) = IF 0 >= z.frame + (t - z.time) THEN 0
                             ELSE z.frame + (t - z.time)
        BY <3>1, ReachIs
      <4> QED
        BY <3>1, <4>1, SMT
    <3> QED
      BY <3>1, <3>2
  <2> QED
    BY <1>3, <2>2, <2>3, SMT
<1>6. /\ r \in Seq(Events) /\ Len(r) = Len(pending) + 1
  <2>1. e.frame \in Nat
    BY <1>1
  <2>2. r \in Seq(Events) /\ Len(r) = Len(pending) + Len(new)
    BY <1>2, <2>1, ScheduledPlaces
  <2> QED
    BY <1>2, <2>2
<1>7. /\ Sorted(r)
      /\ IdsOf(r) = IdsOf(pending) \cup IdsOf(new)
      /\ \A p \in DOMAIN r : \/ \E i \in DOMAIN pending : r[p] = pending[i]
                             \/ r[p] = e
  <2>1. e.frame \in Nat /\ \A i \in DOMAIN new : new[i].frame = e.frame
    BY <1>1, <1>2
  <2>2. /\ Sorted(r)
        /\ IdsOf(r) = IdsOf(pending) \cup IdsOf(new)
        /\ \A p \in DOMAIN r : \/ \E i \in DOMAIN pending : r[p] = pending[i]
                               \/ \E i \in DOMAIN new : r[p] = new[i]
    BY <1>2, <2>1, ScheduledKeeps
  <2> HIDE DEF r
  <2> QED
    BY <1>2, <2>2
<1>8. IdsOf(new) = {e.id} \ {0}
  BY <1>2 DEF IdsOf
<1>9. UniqueIds(r) /\ InOrder(r, kept)
  <2>1. \A i, j \in DOMAIN new : i # j => new[i].id = 0
    BY <1>2
  <2>2. ASSUME NEW i \in DOMAIN pending, NEW j \in DOMAIN new, new[j].id # 0
        PROVE  /\ pending[i].id < new[j].id
               /\ pending[i].id \in kept \cup {0} \/ pending[i].frame <= e.frame
    BY <1>1, <1>2, <1>5, <2>2
  <2>3. e.frame \in Nat
    BY <1>1
  <2> QED
    BY <1>2, <2>1, <2>2, <2>3, ScheduledIds
<1>10. Bounded(r, {y}, kept, U)
  <2> HIDE DEF r
  <2> SUFFICES ASSUME NEW p \in DOMAIN r, r[p].id \notin kept \cup {0},
                      NEW t \in U
               PROVE  r[p].frame <= Reach(y, t)
    BY DEF Bounded
  <2>1. CASE \E i \in DOMAIN pending : r[p] = pending[i]
    BY <1>5, <2>1
  <2>2. CASE r[p] = e
    <3>1. time <= t /\ t \in Int
      BY <2>2
    <3> QED
      BY <1>1, <1>4, <2>2, <3>1
  <2> QED
    BY <1>7, <2>1, <2>2
<1> QED
  BY <1>1, <1>6, <1>7, <1>8, <1>9, <1>10, Zenon DEF new
-----------------------------------------------------------------------------
(* Types, and the order of commands and events.                            *)

\* The times at which commands that are to come were or will be sent.
Times == {clock} \cup {control[i].time : i \in DOMAIN control}

\* Commands are handled in the order they were sent, each event once.
ControlInv ==
    /\ \A i \in DOMAIN control : control[i].time <= clock
    /\ \A i, j \in DOMAIN control :
          i < j => /\ control[i].time <= control[j].time
                   /\ control[j].id # 0 => control[i].id < control[j].id
    /\ \A i \in DOMAIN control : control[i].id # 0 =>
          /\ control[i].id <= triggers
          /\ status[control[i].id] = "sent"
          /\ \A k \in TriggerIds :
                status[k] \in {"pending", "ran"} => k < control[i].id
    /\ \A k \in TriggerIds : k > triggers => status[k] = "unsent"

\* Events of clients fill no more than their part of the vector.
PlaceInv ==
    /\ Len(pending) <= PendingLimit + Cardinality(Keys)
    /\ Cardinality(PendingIds) <= PendingLimit
    /\ PendingIds = {i \in TriggerIds : status[i] = "pending"}
    /\ UniqueIds(pending)

\* No event of a client that is still to come will be put before one that is
\* pending.
OrderInv ==
    /\ Sorted(pending)
    /\ InOrder(pending, kept)
    /\ \A i, j \in TriggerIds :
          i < j /\ status[j] = "ran" /\ status[i] = "pending" => i \in kept
    /\ anchor = {} => PendingIds \subseteq kept
    /\ Bounded(pending, anchor, kept, Times)

\* What is pending while nothing plays is from before a reset.
IdleInv ==
    /\ rpc \in {"ahead", "recover", "take", "block"} => playing
    /\ playing => playRequested
    /\ ~playing => PendingIds \subseteq kept

EventInv == TypeOK /\ ControlInv /\ PlaceInv /\ OrderInv /\ IdleInv

\* The start: nothing is pending.
LEMMA EventInit == Init => EventInv
<1> SUFFICES ASSUME Init PROVE EventInv
  OBVIOUS
<1> USE RunEventsAssumption DEF Init
<1>0. pending = <<>> /\ control = <<>> /\ DOMAIN pending = {} /\ DOMAIN control = {}
      /\ PendingIds = {}
  <2>1. DOMAIN pending = {} /\ DOMAIN control = {}
    BY SMT
  <2> QED
    BY <2>1 DEF PendingIds
<1>1. DeviceOK
  <2>1. /\ 0 \in 0 .. MaxTime /\ 0 \in 0 .. MaxPresses
        /\ NoStamp \in NoStamp .. MaxTime
    BY SMT DEF NoStamp
  <2>2. <<>> \in Seq(Messages) /\ Len(<<>>) <= QueueCapacity
    BY SMT
  <2> QED
    BY <2>1, <2>2 DEF DeviceOK
<1>2. ClientOK
  <2>1. 0 \in 0 .. MaxTriggers /\ 0 \in Nat
    BY SMT
  <2>2. <<>> \in Seq(Commands)
    BY SMT
  <2>3. status \in [TriggerIds -> Open \cup {"ran", "instant", "answered"}]
    BY DEF Open
  <2> QED
    BY <2>1, <2>2, <2>3 DEF ClientOK
<1>3. RenderOK
  <2>1. 0 \in 0 .. MessagesPerBlock /\ <<>> \in Seq(Events)
    BY SMT
  <2> QED
    BY <2>1 DEF RenderOK, Anchors
<1>4. ControlInv
  BY <1>0 DEF ControlInv
<1>5. PlaceInv
  <2>1. Cardinality(Keys) \in Nat /\ Cardinality({}) = 0 /\ Len(pending) = 0
    BY FS_CardinalityType, FS_EmptySet, SMT
  <2>2. PendingLimit \in Nat
    OBVIOUS
  <2>3. Len(pending) <= PendingLimit + Cardinality(Keys)
    BY <2>1, <2>2, SMT
  <2>4. Cardinality(PendingIds) <= PendingLimit
    BY <1>0, <2>1, <2>2, SMT
  <2>5. "unsent" # "pending"
    BY SMT
  <2> QED
    BY <1>0, <2>3, <2>4, <2>5 DEF PlaceInv, UniqueIds
<1>6. OrderInv
  <2>1. "unsent" # "pending"
    BY SMT
  <2> QED
    BY <1>0, <2>1 DEF OrderInv, Sorted, InOrder, Bounded
<1>7. IdleInv
  BY DEF IdleInv
<1> QED
  BY <1>1, <1>2, <1>3, <1>4, <1>5, <1>6, <1>7 DEF EventInv, TypeOK

\* A sequence with one more element.
LEMMA Appended ==
    ASSUME NEW S, NEW s \in Seq(S), NEW e \in S
    PROVE  /\ Append(s, e) \in Seq(S)
           /\ Len(Append(s, e)) = Len(s) + 1
           /\ DOMAIN Append(s, e) = DOMAIN s \cup {Len(s) + 1}
           /\ \A i \in DOMAIN s : Append(s, e)[i] = s[i] /\ i < Len(s) + 1
           /\ Append(s, e)[Len(s) + 1] = e
BY SMT

\* A sequence without its first element.
LEMMA Shortened ==
    ASSUME NEW S, NEW s \in Seq(S), s # <<>>
    PROVE  /\ Tail(s) \in Seq(S)
           /\ Len(Tail(s)) = Len(s) - 1
           /\ 1 \in DOMAIN s /\ Head(s) = s[1] /\ Head(s) \in S
           /\ \A i \in DOMAIN Tail(s) :
                 /\ i \in Nat \ {0} /\ i + 1 \in DOMAIN s /\ 1 < i + 1
                 /\ Tail(s)[i] = s[i + 1]
BY SMT

\* The time stamps of messages are times.
LEMMA StampsAreTimes ==
    ASSUME DeviceOK, NEW t \in Stamps
    PROVE  t \in 0 .. MaxTime
<1>1. MaxTime \in Nat
  BY RunEventsAssumption
<1>2. CASE stamp = NoStamp
  BY <1>2 DEF Stamps, DeviceOK
<1>3. CASE stamp # NoStamp
  BY <1>1, <1>3, SMT DEF Stamps, DeviceOK, NoStamp
<1> QED
  BY <1>2, <1>3

\* A message is added to the queue when there is room, and reported when not.
LEMMA EnqueueTypes ==
    ASSUME DeviceOK, NEW k \in Keys, NEW t \in 0 .. MaxTime,
           NEW name \in {"note_on", "note_off"}, Enqueue(name, k, t)
    PROVE  /\ queue' \in Seq(Messages) /\ Len(queue') <= QueueCapacity
           /\ full' \in BOOLEAN
<1> DEFINE m == [name |-> name, key |-> k, time |-> t]
<1>1. m \in Messages
  BY DEF Messages
<1>2. CASE Len(queue) < QueueCapacity
  <2>1. queue' = Append(queue, m) /\ full' = full
    BY <1>2 DEF Enqueue
  <2>2. /\ Append(queue, m) \in Seq(Messages)
        /\ Len(Append(queue, m)) = Len(queue) + 1
    BY <1>1, Appended DEF DeviceOK
  <2>3. Len(queue) \in Nat
    BY SMT DEF DeviceOK
  <2> HIDE DEF m
  <2>4. Len(queue) + 1 <= QueueCapacity
    BY <1>2, <2>3, RunEventsAssumption, SMT
  <2> QED
    BY <2>1, <2>2, <2>4 DEF DeviceOK
<1>3. CASE ~(Len(queue) < QueueCapacity)
  BY <1>3 DEF Enqueue, DeviceOK
<1> QED
  BY <1>2, <1>3

\* The device, the queue and the clock keep their types.
LEMMA DeviceTypes ==
    ASSUME TypeOK, [Next]_vars
    PROVE  DeviceOK'
<1> USE DEF TypeOK
<1>1. CASE Tick
  <2>1. clock' \in 0 .. MaxTime
    BY <1>1, RunEventsAssumption, SMT DEF Tick, DeviceOK
  <2>2. UNCHANGED <<deviceVars, queue, resetWanted>>
    BY <1>1 DEF Tick
  <2> QED
    BY <2>1, <2>2 DEF DeviceOK, deviceVars
<1>2. ASSUME NEW k \in Keys, Press(k) PROVE DeviceOK'
  <2>1. PICK t \in Stamps : Enqueue("note_on", k, t) /\ stamp' = t
    BY <1>2 DEF Press
  <2>2. t \in 0 .. MaxTime
    BY <2>1, StampsAreTimes
  <2>3. /\ queue' \in Seq(Messages) /\ Len(queue') <= QueueCapacity
        /\ full' \in BOOLEAN
    BY <2>1, <2>2, EnqueueTypes
  <2>4. presses' \in 0 .. MaxPresses
    BY <1>2, RunEventsAssumption, SMT DEF Press, DeviceOK
  <2>5. t \in NoStamp .. MaxTime
    BY <2>2, RunEventsAssumption, SMT DEF NoStamp
  <2>6. /\ held' \subseteq Keys /\ owed' \subseteq Keys /\ cut' \subseteq Keys
        /\ UNCHANGED <<clock, device, resetWanted>>
    BY <1>2 DEF Press, DeviceOK
  <2> QED
    BY <2>1, <2>3, <2>4, <2>5, <2>6 DEF DeviceOK
<1>3. ASSUME NEW k \in Keys, Release(k) PROVE DeviceOK'
  <2>1. PICK t \in Stamps : Enqueue("note_off", k, t) /\ stamp' = t
    BY <1>3 DEF Release
  <2>2. t \in 0 .. MaxTime
    BY <2>1, StampsAreTimes
  <2>3. /\ queue' \in Seq(Messages) /\ Len(queue') <= QueueCapacity
        /\ full' \in BOOLEAN
    BY <2>1, <2>2, EnqueueTypes
  <2>5. t \in NoStamp .. MaxTime
    BY <2>2, RunEventsAssumption, SMT DEF NoStamp
  <2>6. /\ held' \subseteq Keys /\ owed' \subseteq Keys /\ cut' \subseteq Keys
        /\ UNCHANGED <<clock, device, presses, resetWanted>>
    BY <1>3 DEF Release, DeviceOK
  <2> QED
    BY <2>1, <2>3, <2>5, <2>6 DEF DeviceOK
<1>4. CASE \/ ReportFull \/ Unplug \/ Replug \/ CloseConnection \/ Reconnect
  <2>1. /\ full' \in BOOLEAN /\ resetWanted' \in BOOLEAN
        /\ held' \subseteq Keys /\ owed' \subseteq Keys /\ cut' \subseteq Keys
        /\ device' \in {"connected", "lost", "closed", "deaf"}
        /\ stamp' \in {stamp, NoStamp}
        /\ UNCHANGED <<clock, presses, queue>>
    BY <1>4 DEF ReportFull, Unplug, Replug, CloseConnection, Reconnect, DeviceOK
  <2>2. NoStamp \in NoStamp .. MaxTime
    BY RunEventsAssumption, SMT DEF NoStamp
  <2> QED
    BY <2>1, <2>2 DEF DeviceOK
<1>5. CASE ClientStep \/ Stop
  <2>1. UNCHANGED <<clock, deviceVars, queue, resetWanted>>
    BY <1>5 DEF ClientStep, SendTrigger, SendRequest, Answered, Stop
  <2> QED
    BY <2>1 DEF DeviceOK, deviceVars
<1>6. CASE RenderStep
  <2>1. UNCHANGED <<clock, deviceVars>>
    BY <1>6 DEF RenderStep, Exit, Head_, HandlePause, HandleTimedTrigger,
                HandleTriggerNow, HandlePlay, Rebind, EndCommands, IdleDrain,
                IdleReset, Ahead, StartBlock, Recover, TakeMessage, EndTake,
                RenderBlock, BlockFails
  <2>2. \/ UNCHANGED queue \/ queue' = <<>>
        \/ queue # <<>> /\ queue' = Tail(queue)
    BY <1>6 DEF RenderStep, Exit, Head_, HandlePause, HandleTimedTrigger,
                HandleTriggerNow, HandlePlay, Rebind, EndCommands, IdleDrain,
                IdleReset, Ahead, StartBlock, Recover, TakeMessage, EndTake,
                RenderBlock, BlockFails
  <2>3. UNCHANGED resetWanted \/ resetWanted' \in BOOLEAN
    BY <1>6 DEF RenderStep, Exit, Head_, HandlePause, HandleTimedTrigger,
                HandleTriggerNow, HandlePlay, Rebind, EndCommands, IdleDrain,
                IdleReset, Ahead, StartBlock, Recover, TakeMessage, EndTake,
                RenderBlock, BlockFails
  <2>4. queue' \in Seq(Messages) /\ Len(queue') <= QueueCapacity
    <3>1. <<>> \in Seq(Messages) /\ Len(<<>>) <= QueueCapacity
      BY RunEventsAssumption, SMT
    <3>2. CASE queue # <<>> /\ queue' = Tail(queue)
      <4>1. Tail(queue) \in Seq(Messages) /\ Len(Tail(queue)) = Len(queue) - 1
        BY <3>2, Shortened DEF DeviceOK
      <4>2. Len(queue) \in Nat
        BY SMT DEF DeviceOK
      <4>3. Len(queue) - 1 <= QueueCapacity
        BY <4>2, RunEventsAssumption, SMT DEF DeviceOK
      <4> QED
        BY <3>2, <4>1, <4>3
    <3> QED
      BY <2>2, <3>1, <3>2 DEF DeviceOK
  <2> QED
    BY <2>1, <2>3, <2>4 DEF DeviceOK, deviceVars
<1>7. CASE UNCHANGED vars
  BY <1>7 DEF vars, deviceVars, DeviceOK
<1> QED
  BY <1>1, <1>2, <1>3, <1>4, <1>5, <1>6, <1>7 DEF Next, DeviceStep

\* What a settled or handled event is known as.
LEMMA StatusTypes ==
    ASSUME ClientOK, NEW i, NEW ids,
           NEW s \in {"sent", "pending", "ran", "instant", "answered"}
    PROVE  /\ [status EXCEPT ![i] = s]
                  \in [TriggerIds -> Open \cup {"ran", "instant", "answered"}]
           /\ Settled(ids, s)
                  \in [TriggerIds -> Open \cup {"ran", "instant", "answered"}]
BY DEF ClientOK, Settled, Open

\* The client's side keeps its types.
LEMMA ClientTypes ==
    ASSUME TypeOK, [Next]_vars
    PROVE  ClientOK'
<1> USE DEF TypeOK
<1> DEFINE SS == [TriggerIds -> Open \cup {"ran", "instant", "answered"}]
<1>1. ASSUME NEW waits \in BOOLEAN, SendTrigger(waits) PROVE ClientOK'
  <2> DEFINE c == [op |-> "trigger", id |-> triggers + 1, time |-> clock]
  <2>1. triggers + 1 \in TriggerIds /\ triggers + 1 \in 0 .. MaxTriggers
    BY <1>1, RunEventsAssumption, SMT DEF SendTrigger, ClientOK, TriggerIds
  <2>2. c \in Commands
    BY <2>1 DEF Commands, DeviceOK
  <2>3. control' = Append(control, c) /\ triggers' = triggers + 1
        /\ status' = [status EXCEPT ![triggers + 1] = "sent"]
        /\ wait' \in {"none", "trigger"} /\ UNCHANGED requests
    BY <1>1 DEF SendTrigger
  <2> HIDE DEF c
  <2>4. Append(control, c) \in Seq(Commands)
    BY <2>2, Appended DEF ClientOK
  <2>5. status' \in SS
    BY <2>3, StatusTypes
  <2> QED
    BY <2>1, <2>3, <2>4, <2>5 DEF ClientOK
<1>2. ASSUME NEW op \in {"play", "pause"}, SendRequest(op) PROVE ClientOK'
  <2> DEFINE c == [op |-> op, id |-> 0, time |-> clock]
  <2>1. c \in Commands
    BY DEF Commands, DeviceOK
  <2>2. control' = Append(control, c) /\ requests' = requests + 1
        /\ wait' = "request" /\ UNCHANGED <<triggers, status>>
    BY <1>2 DEF SendRequest
  <2> HIDE DEF c
  <2>3. Append(control, c) \in Seq(Commands)
    BY <2>1, Appended DEF ClientOK
  <2>4. requests + 1 \in Nat
    BY SMT DEF ClientOK
  <2> QED
    BY <2>2, <2>3, <2>4 DEF ClientOK
<1>3. CASE Answered
  BY <1>3 DEF Answered, ClientOK
<1>4. CASE RenderStep
  <2>1. UNCHANGED <<wait, triggers, requests>>
    BY <1>4 DEF RenderStep, Exit, Head_, HandlePause, HandleTimedTrigger,
                HandleTriggerNow, HandlePlay, Rebind, EndCommands, IdleDrain,
                IdleReset, Ahead, StartBlock, Recover, TakeMessage, EndTake,
                RenderBlock, BlockFails, clientVars
  <2>2. \/ UNCHANGED control \/ control' = <<>>
        \/ control # <<>> /\ control' = Tail(control)
    BY <1>4 DEF RenderStep, Exit, Head_, HandlePause, HandleTimedTrigger,
                HandleTriggerNow, HandlePlay, Rebind, EndCommands, IdleDrain,
                IdleReset, Ahead, StartBlock, Recover, TakeMessage, EndTake,
                RenderBlock, BlockFails, Receive
  <2>3. \/ UNCHANGED status
        \/ \E s \in {"pending", "ran", "instant", "answered"} :
              \/ \E i : status' = [status EXCEPT ![i] = s]
              \/ \E ids : status' = Settled(ids, s)
    <3>1. CASE HandleTimedTrigger
      <4>1. status' = [status EXCEPT ![Head(control).id] =
                          IF ~FullOfEvents THEN "pending" ELSE "answered"]
        BY <3>1, Zenon DEF HandleTimedTrigger
      <4> QED
        BY <4>1, Zenon
    <3>2. CASE HandleTriggerNow
      <4>1. status' = [status EXCEPT ![Head(control).id] =
                          IF playing THEN "instant" ELSE "ran"]
        BY <3>2, Zenon DEF HandleTriggerNow
      <4> QED
        BY <4>1, Zenon
    <3> QED
      BY <1>4, <3>1, <3>2, Zenon
         DEF RenderStep, Exit, Head_, HandlePause,
             HandlePlay, Rebind, EndCommands, IdleDrain, IdleReset, Ahead,
             StartBlock, Recover, TakeMessage, EndTake, RenderBlock,
             BlockFails, CancelPending
  <2>4. control' \in Seq(Commands)
    <3>1. <<>> \in Seq(Commands)
      BY SMT
    <3>2. control # <<>> => Tail(control) \in Seq(Commands)
      BY Shortened DEF ClientOK
    <3> QED
      BY <2>2, <3>1, <3>2 DEF ClientOK
  <2>5. status' \in SS
    <3>1. \A s \in {"pending", "ran", "instant", "answered"} :
             \A i, ids : [status EXCEPT ![i] = s] \in SS /\ Settled(ids, s) \in SS
      BY StatusTypes
    <3>2. UNCHANGED status => status' \in SS
      BY DEF ClientOK
    <3> HIDE DEF SS
    <3> QED
      BY <2>3, <3>1, <3>2, Zenon
  <2> QED
    BY <2>1, <2>4, <2>5 DEF ClientOK
<1>5. CASE Tick \/ DeviceStep \/ Stop \/ UNCHANGED vars
  <2>1. UNCHANGED <<control, wait, triggers, requests, status>>
    BY <1>5 DEF Tick, DeviceStep, Press, Release, ReportFull, Unplug, Replug,
                CloseConnection, Reconnect, Stop, vars, clientVars
  <2> QED
    BY <2>1 DEF ClientOK
<1> QED
  BY <1>1, <1>2, <1>3, <1>4, <1>5 DEF Next, ClientStep

\* The render thread keeps its types, if it does so with what is pending.
LEMMA RenderTypes ==
    ASSUME TypeOK, [Next]_vars,
           pending' \in Seq(Events), anchor' \in Anchors
    PROVE  RenderOK'
<1> USE DEF TypeOK
<1>1. CASE RenderStep
  <2>1. /\ rpc' \in {"head", "commands", "drain", "idle", "ahead", "recover",
                     "take", "block", "exit", "exited"}
        /\ playRequested' \in BOOLEAN /\ playing' \in BOOLEAN
        /\ stopping' \in BOOLEAN
    <3> USE DEF playVars, RenderOK
    <3>1. CASE \/ Exit \/ Head_ \/ HandlePause \/ HandleTimedTrigger
               \/ HandleTriggerNow \/ HandlePlay(TRUE) \/ HandlePlay(FALSE)
               \/ Rebind(TRUE) \/ Rebind(FALSE)
      BY <3>1 DEF Exit, Head_, HandlePause, HandleTimedTrigger,
                  HandleTriggerNow, HandlePlay, Rebind
    <3>2. CASE \/ EndCommands \/ IdleDrain \/ IdleReset \/ Ahead \/ StartBlock
               \/ Recover \/ TakeMessage \/ EndTake \/ RenderBlock \/ BlockFails
      BY <3>2 DEF EndCommands, IdleDrain, IdleReset, Ahead, StartBlock, Recover,
                  TakeMessage, EndTake, RenderBlock, BlockFails
    <3> QED
      BY <1>1, <3>1, <3>2, Zenon DEF RenderStep
  <2>2. polled' \in 0 .. MessagesPerBlock
    <3>0. MessagesPerBlock \in Nat /\ 0 \in 0 .. MessagesPerBlock
      BY RunEventsAssumption, SMT
    <3>1. CASE TakeMessage
      <4>1. polled < MessagesPerBlock /\ polled' \in {0, polled + 1}
        BY <3>1 DEF TakeMessage
      <4> QED
        BY <3>0, <4>1, SMT DEF RenderOK
    <3>2. CASE ~TakeMessage
      <4>1. polled' \in {0, polled}
        BY <1>1, <3>2
           DEF RenderStep, Exit, Head_, HandlePause, HandleTimedTrigger,
               HandleTriggerNow, HandlePlay, Rebind, EndCommands, IdleDrain,
               IdleReset, Ahead, StartBlock, Recover, EndTake, RenderBlock,
               BlockFails
      <4> QED
        BY <3>0, <4>1 DEF RenderOK
    <3> QED
      BY <3>1, <3>2
  <2>3. active' \subseteq Keys /\ sounding' \subseteq Keys
    <3>1. \A S, events : NotesAfter(S, events) \subseteq Keys
      BY DEF NotesAfter
    <3>2. CASE HandlePlay(TRUE) \/ HandlePlay(FALSE) \/ Rebind(TRUE) \/ Rebind(FALSE)
      BY <3>2 DEF HandlePlay, Rebind, RenderOK
    <3>3. CASE RenderBlock \/ BlockFails
      <4>1. /\ active' \in {active, NotesAfter(active, Due)}
            /\ \E events : sounding' = NotesAfter(sounding, events)
        BY <3>3 DEF RenderBlock, BlockFails
      <4> QED
        BY <3>1, <4>1 DEF RenderOK
    <3>4. CASE \/ Exit \/ Head_ \/ HandlePause \/ HandleTimedTrigger
               \/ HandleTriggerNow \/ EndCommands \/ IdleDrain \/ IdleReset
               \/ Ahead \/ StartBlock \/ Recover \/ TakeMessage \/ EndTake
      <4>1. /\ active' \in {active, {}} /\ sounding' \in {sounding, {}}
        BY <3>4 DEF Exit, Head_, HandlePause, HandleTimedTrigger,
               HandleTriggerNow, EndCommands, IdleDrain, IdleReset, Ahead,
               StartBlock, Recover, TakeMessage, EndTake, noteVars
      <4> QED
        BY <4>1 DEF RenderOK
    <3> QED
      BY <1>1, <3>2, <3>3, <3>4, Zenon DEF RenderStep
  <2>4. kept' \subseteq TriggerIds \cup Keys
    <3>1. \A i \in DOMAIN pending : pending[i] \in Events
      BY SMT DEF RenderOK
    <3>2. \A i \in DOMAIN pending : /\ pending[i].id \in TriggerIds \cup {0}
                                    /\ pending[i].key \in Keys \cup {NoKey}
      <4>1. \A i \in 0 .. MaxTriggers : i = 0 \/ i \in 1 .. MaxTriggers
        BY RunEventsAssumption, SMT
      <4> QED
        BY <3>1, <4>1 DEF Events, TriggerIds
    <3>3. kept' \subseteq kept \cup ({pending[i].id : i \in DOMAIN pending} \ {0})
                    \cup ({pending[i].key : i \in DOMAIN pending} \ {NoKey})
      <4>1. CASE HandlePlay(TRUE) \/ HandlePlay(FALSE) \/ Recover
        BY <4>1 DEF HandlePlay, Recover, ResetTimeline, PendingIds
      <4>2. UNCHANGED kept \/ HandlePlay(TRUE) \/ HandlePlay(FALSE) \/ Recover
        BY <1>1 DEF RenderStep, Exit, Head_, HandlePause, HandleTimedTrigger,
               HandleTriggerNow, Rebind, EndCommands, IdleDrain, IdleReset,
               Ahead, StartBlock, TakeMessage, EndTake, RenderBlock,
               BlockFails, eventVars
      <4> QED
        BY <4>1, <4>2
    <3> QED
      BY <3>2, <3>3 DEF RenderOK
  <2> QED
    BY <2>1, <2>2, <2>3, <2>4 DEF RenderOK
<1>2. CASE Tick \/ DeviceStep \/ ClientStep \/ UNCHANGED vars
  <2>1. UNCHANGED <<rpc, playVars, kept, polled, noteVars, stopping>>
    BY <1>2 DEF Tick, DeviceStep, Press, Release, ReportFull, Unplug, Replug,
                CloseConnection, Reconnect, ClientStep, SendTrigger,
                SendRequest, Answered, vars, eventVars
  <2> QED
    BY <2>1 DEF RenderOK, playVars, noteVars
<1>3. CASE Stop
  BY <1>3 DEF Stop, RenderOK, playVars, noteVars, eventVars
<1> QED
  BY <1>1, <1>2, <1>3 DEF Next

-----------------------------------------------------------------------------
(* What a step does to commands and events.                                *)

\* The numbers and times of commands.
LEMMA CommandTypes ==
    ASSUME ClientOK
    PROVE  /\ Len(control) \in Nat /\ DOMAIN control = 1 .. Len(control)
           /\ \A i \in DOMAIN control :
                 /\ i \in Nat /\ control[i] \in Commands
                 /\ control[i].id \in Nat
                 /\ control[i].id # 0 => control[i].id \in TriggerIds
                 /\ control[i].time \in 0 .. MaxTime
                 /\ control[i].time \in Nat
           /\ triggers \in Nat
<1>1. /\ Len(control) \in Nat /\ DOMAIN control = 1 .. Len(control)
      /\ \A i \in DOMAIN control : i \in Nat /\ control[i] \in Commands
  BY SMT DEF ClientOK
<1>2. ASSUME NEW c \in Commands
      PROVE  /\ c.id \in TriggerIds \cup {0} /\ c.time \in 0 .. MaxTime
  BY DEF Commands
<1>3. TriggerIds \subseteq Nat /\ 0 .. MaxTime \subseteq Nat /\ 0 \in Nat
  BY RunEventsAssumption, SMT DEF TriggerIds
<1>4. triggers \in Nat
  BY RunEventsAssumption, SMT DEF ClientOK
<1> QED
  BY <1>1, <1>2, <1>3, <1>4

\* The numbers and frames of pending events.
LEMMA PendingTypes ==
    ASSUME pending \in Seq(Events)
    PROVE  /\ Len(pending) \in Nat /\ DOMAIN pending = 1 .. Len(pending)
           /\ \A i \in DOMAIN pending :
                 /\ pending[i] \in Events /\ pending[i].frame \in Nat
                 /\ pending[i].id \in Nat
                 /\ pending[i].id # 0 => pending[i].id \in TriggerIds
<1>1. /\ Len(pending) \in Nat /\ DOMAIN pending = 1 .. Len(pending)
      /\ \A i \in DOMAIN pending : pending[i] \in Events
  BY SMT
<1>2. ASSUME NEW e \in Events PROVE e.frame \in Nat /\ e.id \in 0 .. MaxTriggers
  BY DEF Events
<1>3. ASSUME NEW n \in 0 .. MaxTriggers
      PROVE  n \in Nat /\ (n # 0 => n \in TriggerIds)
  BY RunEventsAssumption, SMT DEF TriggerIds
<1> QED
  BY <1>1, <1>2, <1>3

\* A step that handles the first command, or none.
LEMMA ControlKept ==
    ASSUME ClientOK, ControlInv, clock \in Nat, clock' \in Nat, clock <= clock',
           triggers' = triggers,
           NEW d \in {0, 1}, 0 \notin DOMAIN control',
           \A i \in DOMAIN control' : /\ i \in Nat /\ i + d \in DOMAIN control
                                      /\ control'[i] = control[i + d],
           \A k \in TriggerIds :
              \/ status'[k] = status[k]
              \/ status[k] = "pending" /\ status'[k] \in {"ran", "answered"}
              \/ /\ d = 1 /\ 1 \in DOMAIN control /\ k = control[1].id
                 /\ status'[k] \in {"pending", "ran", "instant", "answered"}
    PROVE  ControlInv'
<1> USE CommandTypes
<1>0. DOMAIN control \subseteq Nat /\ d \in Nat
  BY SMT
<1>1. \A i \in DOMAIN control' : control'[i].time <= clock'
  <2> SUFFICES ASSUME NEW i \in DOMAIN control' PROVE control'[i].time <= clock'
    OBVIOUS
  <2>1. control'[i].time = control[i + d].time /\ control[i + d].time <= clock
        /\ control[i + d].time \in Nat
    BY DEF ControlInv
  <2> QED
    BY <2>1, SMT
<1>2. \A i, j \in DOMAIN control' :
        i < j => /\ control'[i].time <= control'[j].time
                 /\ control'[j].id # 0 => control'[i].id < control'[j].id
  <2> SUFFICES ASSUME NEW i \in DOMAIN control', NEW j \in DOMAIN control', i < j
               PROVE  /\ control'[i].time <= control'[j].time
                      /\ control'[j].id # 0 => control'[i].id < control'[j].id
    OBVIOUS
  <2>1. i \in Nat /\ j \in Nat
    OBVIOUS
  <2>2. i + d < j + d
    BY <1>0, <2>1, SMT
  <2>3. /\ i + d \in DOMAIN control /\ control'[i] = control[i + d]
        /\ j + d \in DOMAIN control /\ control'[j] = control[j + d]
    OBVIOUS
  <2>4. /\ control[i + d].time <= control[j + d].time
        /\ control[j + d].id # 0 => control[i + d].id < control[j + d].id
    BY <2>2, <2>3 DEF ControlInv
  <2> QED
    BY <2>3, <2>4, Zenon
<1>3. ASSUME NEW i \in DOMAIN control', control'[i].id # 0
      PROVE  /\ control'[i].id <= triggers
             /\ status'[control'[i].id] = "sent"
             /\ \A k \in TriggerIds :
                   status'[k] \in {"pending", "ran"} => k < control'[i].id
  <2> DEFINE g == control[i + d].id
  <2>1. /\ i \in Nat /\ i + d \in DOMAIN control /\ control'[i].id = g
        /\ g # 0 /\ g \in TriggerIds
    BY <1>3
  <2>2. /\ g <= triggers /\ status[g] = "sent"
        /\ \A k \in TriggerIds : status[k] \in {"pending", "ran"} => k < g
    BY <2>1 DEF ControlInv
  <2>3. ASSUME d = 1, 1 \in DOMAIN control PROVE control[1].id < g
    <3>1. i # 0
      OBVIOUS
    <3>2. 1 < i + d
      BY <2>1, <2>3, <3>1, SMT
    <3> QED
      BY <2>1, <2>3, <3>2 DEF ControlInv
  <2>4. d = 1 /\ 1 \in DOMAIN control => g # control[1].id
    BY <2>1, <2>3, SMT
  <2> HIDE DEF g
  <2>5. status'[g] = "sent"
    BY <2>1, <2>2, <2>4
  <2>6. ASSUME NEW k \in TriggerIds, status'[k] \in {"pending", "ran"}
        PROVE  k < g
    BY <2>2, <2>3, <2>6
  <2> QED
    BY <2>1, <2>2, <2>5, <2>6
<1>4. ASSUME NEW k \in TriggerIds, k > triggers
      PROVE  status'[k] = "unsent"
  <2>1. status[k] = "unsent"
    BY <1>4 DEF ControlInv
  <2>2. 1 \in DOMAIN control => k # control[1].id
    <3> SUFFICES ASSUME 1 \in DOMAIN control, k = control[1].id PROVE FALSE
      OBVIOUS
    <3>1. k \in Nat /\ k # 0
      BY RunEventsAssumption, SMT DEF TriggerIds
    <3>2. k <= triggers
      BY <3>1 DEF ControlInv
    <3> QED
      BY <1>4, <3>1, <3>2, SMT
  <2> QED
    BY <2>1, <2>2
<1> QED
  BY <1>1, <1>2, <1>3, <1>4 DEF ControlInv

\* A command that is sent now is the last: a trigger has the next number.
LEMMA ControlSent ==
    ASSUME ClientOK, ControlInv, clock \in 0 .. MaxTime, clock' = clock,
           NEW c \in Commands, c.time = clock, control' = Append(control, c),
           \/ c.id = 0 /\ UNCHANGED <<triggers, status>>
           \/ /\ c.id = triggers + 1 /\ triggers' = triggers + 1
              /\ triggers + 1 \in TriggerIds
              /\ status' = [status EXCEPT ![triggers + 1] = "sent"]
    PROVE  ControlInv'
<1> DEFINE n == Len(control) + 1
<1>1. /\ DOMAIN control' = DOMAIN control \cup {n} /\ control'[n] = c
      /\ \A i \in DOMAIN control : control'[i] = control[i] /\ i < n
  BY Appended DEF ClientOK
<1>2. /\ triggers \in Nat /\ clock \in Nat /\ n \in Nat
      /\ \A i \in DOMAIN control : i \in Nat /\ control[i].id \in Nat
                                   /\ control[i].time \in Nat
  <2>1. clock \in Nat
    BY RunEventsAssumption, SMT
  <2>2. Len(control) + 1 \in Nat
    BY CommandTypes, SMT
  <2> QED
    BY <2>1, <2>2, CommandTypes
<1> HIDE DEF n
<1>3. \A i \in DOMAIN control' : control'[i].time <= clock'
  <2>1. clock <= clock
    BY <1>2, SMT
  <2> QED
    BY <1>1, <2>1 DEF ControlInv
<1>4. \A i \in DOMAIN control : control[i].id <= triggers
  <2> SUFFICES ASSUME NEW i \in DOMAIN control PROVE control[i].id <= triggers
    OBVIOUS
  <2>1. control[i].id # 0 => control[i].id <= triggers
    BY DEF ControlInv
  <2> QED
    BY <1>2, <2>1, SMT
<1>5. \A i, j \in DOMAIN control' :
        i < j => /\ control'[i].time <= control'[j].time
                 /\ control'[j].id # 0 => control'[i].id < control'[j].id
  <2> SUFFICES ASSUME NEW i \in DOMAIN control', NEW j \in DOMAIN control', i < j
               PROVE  /\ control'[i].time <= control'[j].time
                      /\ control'[j].id # 0 => control'[i].id < control'[j].id
    OBVIOUS
  <2>1. CASE i \in DOMAIN control /\ j \in DOMAIN control
    BY <1>1, <2>1 DEF ControlInv
  <2>2. CASE i \in DOMAIN control /\ j = n
    <3>1. control[i].time <= clock
      BY <2>2 DEF ControlInv
    <3>2. c.id # 0 => control[i].id < c.id
      BY <1>2, <1>4, <2>2, SMT
    <3> QED
      BY <1>1, <2>2, <3>1, <3>2
  <2>3. CASE i = n
    <3>1. j = n \/ (j < n /\ j \in Nat)
      BY <1>1, <1>2
    <3> QED
      BY <1>2, <2>3, <3>1, SMT
  <2> QED
    BY <1>1, <2>1, <2>2, <2>3
<1>6. CASE c.id = 0 /\ UNCHANGED <<triggers, status>>
  <2>1. \A i \in DOMAIN control' : control'[i].id # 0 =>
           i \in DOMAIN control /\ control'[i] = control[i]
    BY <1>1, <1>6
  <2> QED
    BY <1>3, <1>5, <1>6, <2>1 DEF ControlInv
<1>7. CASE /\ c.id = triggers + 1 /\ triggers' = triggers + 1
           /\ triggers + 1 \in TriggerIds
           /\ status' = [status EXCEPT ![triggers + 1] = "sent"]
  <2>1. /\ status'[triggers + 1] = "sent"
        /\ \A k \in TriggerIds : k # triggers + 1 => status'[k] = status[k]
    BY <1>7 DEF ClientOK
  <2>2. \A k \in TriggerIds : k > triggers => status[k] = "unsent"
    BY DEF ControlInv
  <2>3. TriggerIds \subseteq Nat
    BY RunEventsAssumption, SMT DEF TriggerIds
  <2>4. ASSUME NEW i \in DOMAIN control', control'[i].id # 0
        PROVE  /\ control'[i].id <= triggers'
               /\ status'[control'[i].id] = "sent"
               /\ \A k \in TriggerIds :
                     status'[k] \in {"pending", "ran"} => k < control'[i].id
    <3>1. CASE i \in DOMAIN control
      <4> DEFINE g == control[i].id
      <4>1. g \in Nat /\ control'[i].id = g /\ g \in TriggerIds
            /\ g <= triggers /\ status[g] = "sent"
            /\ \A k \in TriggerIds : status[k] \in {"pending", "ran"} => k < g
        BY <1>1, <1>4, <2>4, <3>1, CommandTypes DEF ControlInv
      <4> HIDE DEF g
      <4>2. g # triggers + 1 /\ g <= triggers + 1
        BY <1>2, <4>1, SMT
      <4>3. \A k \in TriggerIds : status'[k] \in {"pending", "ran"}
                                      => status[k] \in {"pending", "ran"}
        BY <2>1
      <4> QED
        BY <1>7, <2>1, <4>1, <4>2, <4>3
    <3>2. CASE i = n
      <4>1. ASSUME NEW k \in TriggerIds, status'[k] \in {"pending", "ran"}
            PROVE  k < triggers + 1
        <5>1. k # triggers + 1 /\ status[k] # "unsent"
          BY <2>1, <4>1
        <5>2. ~(k > triggers) /\ k \in Nat
          BY <2>2, <2>3, <5>1
        <5> QED
          BY <1>2, <5>2, SMT
      <4>2. triggers + 1 <= triggers + 1
        BY <1>2, SMT
      <4> QED
        BY <1>1, <1>7, <2>1, <3>2, <4>1, <4>2
    <3> QED
      BY <1>1, <3>1, <3>2
  <2>5. ASSUME NEW k \in TriggerIds, k > triggers'
        PROVE  status'[k] = "unsent"
    <3>1. k # triggers + 1 /\ k > triggers
      BY <1>2, <1>7, <2>3, <2>5, SMT
    <3> QED
      BY <2>1, <2>2, <3>1
  <2> QED
    BY <1>3, <1>5, <2>4, <2>5 DEF ControlInv
<1> QED
  BY <1>6, <1>7

\* Events that are answered or run by a block or a cancellation were pending.
LEMMA SettledWerePending ==
    ASSUME PlaceInv, NEW ids \in SUBSET PendingIds, NEW s,
           status' = Settled(ids, s), NEW k \in TriggerIds
    PROVE  \/ status'[k] = status[k] /\ k \notin ids
           \/ k \in ids /\ status[k] = "pending" /\ status'[k] = s
BY DEF PlaceInv, Settled

\* A step that answers or runs pending events, or none.
LEMMA SettledStatus ==
    ASSUME PlaceInv,
           \/ UNCHANGED status
           \/ \E ids \in SUBSET PendingIds, s \in {"ran", "answered"} :
                 status' = Settled(ids, s),
           NEW k \in TriggerIds
    PROVE  \/ status'[k] = status[k]
           \/ status[k] = "pending" /\ status'[k] \in {"ran", "answered"}
<1>1. ASSUME NEW ids \in SUBSET PendingIds, NEW s \in {"ran", "answered"},
             status' = Settled(ids, s)
      PROVE  \/ status'[k] = status[k]
             \/ status[k] = "pending" /\ status'[k] = s
  BY <1>1, SettledWerePending, Zenon
<1> QED
  BY <1>1

\* The events of a block are pending.
LEMMA DueIsPending ==
    ASSUME pending \in Seq(Events), PlaceInv, OrderInv
    PROVE  DueIds \in SUBSET PendingIds
<1>1. DueIds \subseteq IdsOf(pending)
  BY DueParts DEF PlaceInv, OrderInv
<1> QED
  BY <1>1 DEF IdsOf, PendingIds

\* Commands stay in order, and those that are to come belong to events that
\* were sent after all that have been handled.
LEMMA ControlSteps ==
    ASSUME EventInv, [Next]_vars
    PROVE  ControlInv'
<1> USE DEF EventInv, TypeOK
<1>0. /\ clock \in 0 .. MaxTime /\ clock \in Nat /\ ClientOK /\ ControlInv
      /\ pending \in Seq(Events) /\ PlaceInv /\ OrderInv
      /\ DOMAIN control \subseteq Nat \ {0}
  <2>1. 0 .. MaxTime \subseteq Nat
    BY RunEventsAssumption, SMT
  <2>2. DOMAIN control \subseteq Nat \ {0}
    BY SMT DEF ClientOK
  <2> QED
    BY <2>1, <2>2 DEF DeviceOK, RenderOK
<1>1. ASSUME NEW waits \in BOOLEAN, SendTrigger(waits) PROVE ControlInv'
  <2> DEFINE c == [op |-> "trigger", id |-> triggers + 1, time |-> clock]
  <2>1. triggers + 1 \in TriggerIds
    BY <1>1, RunEventsAssumption, SMT DEF SendTrigger, ClientOK, TriggerIds
  <2>2. c \in Commands /\ c.time = clock /\ c.id = triggers + 1
    BY <1>0, <2>1 DEF Commands
  <2>3. /\ control' = Append(control, c) /\ triggers' = triggers + 1
        /\ status' = [status EXCEPT ![triggers + 1] = "sent"]
        /\ clock' = clock
    BY <1>1 DEF SendTrigger
  <2> HIDE DEF c
  <2> QED
    BY <1>0, <2>1, <2>2, <2>3, ControlSent
<1>2. ASSUME NEW op \in {"play", "pause"}, SendRequest(op) PROVE ControlInv'
  <2> DEFINE c == [op |-> op, id |-> 0, time |-> clock]
  <2>1. c \in Commands /\ c.time = clock /\ c.id = 0
    BY <1>0 DEF Commands
  <2>2. /\ control' = Append(control, c)
        /\ UNCHANGED <<clock, triggers, status>>
    BY <1>2 DEF SendRequest
  <2> HIDE DEF c
  <2> QED
    BY <1>0, <2>1, <2>2, ControlSent
<1>3. CASE Exit
  <2>1. DOMAIN control' = {}
    <3>1. control' = <<>>
      BY <1>3 DEF Exit
    <3> QED
      BY <3>1, SMT
  <2>2. triggers' = triggers
        /\ status' = Settled({i \in 1 .. triggers : status[i] \in Open}, "answered")
    BY <1>3 DEF Exit, clientVars
  <2>3. ASSUME NEW k \in TriggerIds, k > triggers PROVE status'[k] = "unsent"
    <3>1. k \in Nat
      BY RunEventsAssumption, SMT DEF TriggerIds
    <3>2. k \notin 1 .. triggers
      BY <1>0, <2>3, <3>1, CommandTypes, SMT
    <3>3. status[k] = "unsent"
      BY <1>0, <2>3 DEF ControlInv
    <3> QED
      BY <2>2, <3>2, <3>3 DEF Settled
  <2> QED
    BY <2>1, <2>2, <2>3 DEF ControlInv
<1>4. ASSUME UNCHANGED <<triggers, control>>, clock' \in Nat, clock <= clock',
             \/ UNCHANGED status
             \/ \E ids \in SUBSET PendingIds, s \in {"ran", "answered"} :
                   status' = Settled(ids, s)
      PROVE  ControlInv'
  <2>1. \A i \in DOMAIN control : i \in Nat /\ i # 0 /\ i + 0 = i
    BY <1>0, SMT
  <2>2. \A k \in TriggerIds :
              \/ status'[k] = status[k]
              \/ status[k] = "pending" /\ status'[k] \in {"ran", "answered"}
    BY <1>0, <1>4, SettledStatus
  <2>3. \A i \in DOMAIN control' : /\ i \in Nat /\ i + 0 \in DOMAIN control
                                   /\ control'[i] = control[i + 0]
    BY <1>4, <2>1
  <2>4. 0 \notin DOMAIN control'
    BY <1>4, <2>1
  <2> QED
    BY <1>0, <1>4, <2>2, <2>3, <2>4, ControlKept
<1>5. ASSUME NEW op, Receive(op), UNCHANGED <<clock, triggers>>,
             \/ UNCHANGED status
             \/ \E ids \in SUBSET PendingIds, s \in {"ran", "answered"} :
                   status' = Settled(ids, s)
             \/ \E s \in {"pending", "ran", "instant", "answered"} :
                   status' = [status EXCEPT ![Head(control).id] = s]
      PROVE  ControlInv'
  <2>1. control # <<>> /\ control' = Tail(control)
    BY <1>5 DEF Receive
  <2>2. /\ 1 \in DOMAIN control /\ Head(control) = control[1]
        /\ \A i \in DOMAIN Tail(control) :
                 /\ i \in Nat \ {0} /\ i + 1 \in DOMAIN control
                 /\ Tail(control)[i] = control[i + 1]
    BY <1>0, <2>1, Shortened DEF ClientOK
  <2>3. \A k \in TriggerIds :
              \/ status'[k] = status[k]
              \/ status[k] = "pending" /\ status'[k] \in {"ran", "answered"}
              \/ /\ k = control[1].id
                 /\ status'[k] \in {"pending", "ran", "instant", "answered"}
    <3>1. CASE \E s \in {"pending", "ran", "instant", "answered"} :
                   status' = [status EXCEPT ![Head(control).id] = s]
      BY <1>0, <2>2, <3>1 DEF ClientOK
    <3>2. CASE \/ UNCHANGED status
               \/ \E ids \in SUBSET PendingIds, s \in {"ran", "answered"} :
                     status' = Settled(ids, s)
      BY <1>0, <3>2, SettledStatus
    <3> QED
      BY <1>5, <3>1, <3>2
  <2>4. clock <= clock /\ 0 \notin DOMAIN control'
    BY <1>0, <2>1, <2>2, SMT
  <2>5. \A i \in DOMAIN control' : /\ i \in Nat /\ i + 1 \in DOMAIN control
                                   /\ control'[i] = control[i + 1]
    BY <2>1, <2>2
  <2> QED
    BY <1>0, <1>5, <2>2, <2>3, <2>4, <2>5, ControlKept
<1>6. CASE Tick
  <2>1. clock' \in Nat /\ clock <= clock'
    <3>1. clock' = clock + 1
      BY <1>6 DEF Tick
    <3> QED
      BY <1>0, <3>1, SMT
  <2> QED
    BY <1>4, <1>6, <2>1 DEF Tick, clientVars
<1>7. clock <= clock
  BY <1>0, SMT
<1>8. CASE DeviceStep \/ Answered \/ Stop \/ UNCHANGED vars
  <2>1. UNCHANGED <<clock, control, triggers, status>>
    BY <1>8 DEF DeviceStep, Press, Release, ReportFull, Unplug, Replug,
                CloseConnection, Reconnect, Answered, Stop, vars, clientVars
  <2> QED
    BY <1>0, <1>4, <1>7, <2>1
<1>9. CASE \/ Head_ \/ EndCommands \/ IdleDrain \/ Ahead \/ StartBlock
           \/ Recover \/ TakeMessage \/ EndTake
           \/ Rebind(TRUE) \/ Rebind(FALSE)
  <2>1. UNCHANGED <<clock, control, triggers, status>>
    BY <1>9 DEF Head_, EndCommands, IdleDrain, Ahead, StartBlock, Recover,
                TakeMessage, EndTake, Rebind, clientVars
  <2> QED
    BY <1>0, <1>4, <1>7, <2>1
<1>10. CASE IdleReset \/ RenderBlock \/ BlockFails
  <2>1. /\ UNCHANGED <<clock, control, triggers>>
        /\ \/ status' = Settled(PendingIds, "answered")
           \/ status' = Settled(DueIds, "ran")
           \/ status' = Settled(DueIds, "answered")
    BY <1>10 DEF IdleReset, CancelPending, RenderBlock, BlockFails, clientVars
  <2>2. DueIds \in SUBSET PendingIds
    BY <1>0, DueIsPending
  <2> QED
    BY <1>0, <1>4, <1>7, <2>1, <2>2
<1>11. CASE HandlePause \/ HandlePlay(TRUE) \/ HandlePlay(FALSE)
  <2>1. /\ UNCHANGED <<clock, triggers>> /\ (Receive("pause") \/ Receive("play"))
        /\ UNCHANGED status \/ status' = Settled(PendingIds, "answered")
    BY <1>11 DEF HandlePause, HandlePlay, CancelPending, clientVars
  <2> QED
    BY <1>5, <2>1
<1>12. CASE HandleTimedTrigger \/ HandleTriggerNow
  <2>1. /\ UNCHANGED <<clock, triggers>> /\ Receive("trigger")
    BY <1>12 DEF HandleTimedTrigger, HandleTriggerNow, clientVars
  <2>2. \E s \in {"pending", "ran", "instant", "answered"} :
           status' = [status EXCEPT ![Head(control).id] = s]
    <3>1. CASE HandleTimedTrigger
      <4>1. status' = [status EXCEPT ![Head(control).id] =
                          IF ~FullOfEvents THEN "pending" ELSE "answered"]
        BY <3>1, Zenon DEF HandleTimedTrigger
      <4> QED
        BY <4>1, Zenon
    <3>2. CASE HandleTriggerNow
      <4>1. status' = [status EXCEPT ![Head(control).id] =
                          IF playing THEN "instant" ELSE "ran"]
        BY <3>2, Zenon DEF HandleTriggerNow
      <4> QED
        BY <4>1, Zenon
    <3> QED
      BY <1>12, <3>1, <3>2
  <2> QED
    BY <1>5, <2>1, <2>2
<1> QED
  BY <1>1, <1>2, <1>3, <1>6, <1>8, <1>9, <1>10, <1>11, <1>12, Zenon
     DEF Next, ClientStep, RenderStep

-----------------------------------------------------------------------------
(* What a step does to the vector of pending events and to the anchor.     *)

PendingInv == /\ pending \in Seq(Events) /\ anchor \in Anchors
              /\ PlaceInv /\ OrderInv

\* What has to be shown of the events after a step.
LEMMA PendingAfter ==
    ASSUME pending' \in Seq(Events), anchor' \in Anchors,
           Len(pending') <= PendingLimit + Cardinality(Keys),
           Cardinality(IdsOf(pending')) <= PendingLimit,
           IdsOf(pending') = {i \in TriggerIds : status'[i] = "pending"},
           UniqueIds(pending'), Sorted(pending'), InOrder(pending', kept'),
           \A i, j \in TriggerIds :
              i < j /\ status'[j] = "ran" /\ status'[i] = "pending"
                  => i \in kept',
           anchor' = {} => IdsOf(pending') \subseteq kept',
           Bounded(pending', anchor', kept', Times')
    PROVE  PendingInv'
<1>1. PendingIds' = IdsOf(pending')
  BY DEF PendingIds, IdsOf
<1>2. PlaceInv'
  BY <1>1, Zenon DEF PlaceInv, UniqueIds
<1>3. OrderInv'
  BY <1>1, Zenon DEF OrderInv, Sorted, InOrder, Bounded
<1> QED
  BY <1>2, <1>3 DEF PendingInv

\* The facts of the invariant, about the events as a sequence.
LEMMA PendingBefore ==
    ASSUME EventInv
    PROVE  /\ pending \in Seq(Events) /\ anchor \in Anchors
           /\ Len(pending) <= PendingLimit + Cardinality(Keys)
           /\ Cardinality(IdsOf(pending)) <= PendingLimit
           /\ IdsOf(pending) = PendingIds
           /\ PendingIds = {i \in TriggerIds : status[i] = "pending"}
           /\ IsFiniteSet(PendingIds)
           /\ UniqueIds(pending) /\ Sorted(pending) /\ InOrder(pending, kept)
           /\ anchor = {} => IdsOf(pending) \subseteq kept
           /\ Bounded(pending, anchor, kept, Times)
           /\ PendingLimit \in Nat /\ Cardinality(Keys) \in Nat
           /\ clock \in 0 .. MaxTime /\ clock \in Nat
           /\ ClientOK /\ ControlInv /\ PlaceInv /\ OrderInv
<1>1. IdsOf(pending) = PendingIds
  BY DEF IdsOf, PendingIds
<1>2. PendingIds = {i \in TriggerIds : status[i] = "pending"}
  BY DEF EventInv, PlaceInv
<1>3. IsFiniteSet(PendingIds)
  <2>1. IsFiniteSet(TriggerIds)
    BY RunEventsAssumption, FS_Interval, SMT DEF TriggerIds
  <2> QED
    BY <1>2, <2>1, FS_Subset
<1>4. PendingLimit \in Nat /\ Cardinality(Keys) \in Nat
  BY RunEventsAssumption, FS_CardinalityType
<1>5. clock \in 0 .. MaxTime /\ clock \in Nat
  <2>1. 0 .. MaxTime \subseteq Nat
    BY RunEventsAssumption, SMT
  <2> QED
    BY <2>1 DEF EventInv, TypeOK, DeviceOK
<1> QED
  BY <1>1, <1>2, <1>3, <1>4, <1>5, Zenon
     DEF EventInv, TypeOK, RenderOK, PlaceInv, OrderInv

\* Times are numbers; without the first command none is before its time.
LEMMA TimesAre ==
    ASSUME EventInv
    PROVE  /\ Times \in SUBSET Int
           /\ clock' = clock /\ control # <<>> /\ control' = Tail(control)
                 => /\ Times' \in SUBSET Times
                    /\ Head(control).time \in Times
                    /\ \A t \in Times' : Head(control).time <= t
<1>1. /\ \A i \in DOMAIN control : control[i].time \in Nat
      /\ clock \in Nat /\ Nat \subseteq Int /\ ClientOK /\ ControlInv
  BY PendingBefore, CommandTypes, SMT
<1>2. Times \in SUBSET Int
  BY <1>1 DEF Times
<1>3. ASSUME clock' = clock, control # <<>>, control' = Tail(control)
      PROVE  /\ Times' \in SUBSET Times
             /\ Head(control).time \in Times
             /\ \A t \in Times' : Head(control).time <= t
  <2>1. /\ 1 \in DOMAIN control /\ Head(control) = control[1]
        /\ \A i \in DOMAIN Tail(control) :
              /\ i + 1 \in DOMAIN control /\ 1 < i + 1
              /\ Tail(control)[i] = control[i + 1]
    BY <1>1, <1>3, Shortened DEF ClientOK
  <2>2. /\ Times' = {clock} \cup {control'[i].time : i \in DOMAIN control'}
    BY <1>3 DEF Times
  <2>3. \A t \in Times' : t = clock \/ \E j \in DOMAIN control : 1 < j /\ t = control[j].time
    BY <1>3, <2>1, <2>2
  <2>4. \A t \in Times' : t \in Times /\ control[1].time <= t
    BY <1>1, <2>1, <2>3 DEF Times, ControlInv
  <2> QED
    BY <2>1, <2>4 DEF Times
<1> QED
  BY <1>2, <1>3

\* Later times have later frames on any timeline.
LEMMA BoundedLater ==
    ASSUME NEW s \in Seq(Events), NEW a \in Anchors, NEW K,
           NEW T \in SUBSET Int, NEW U \in SUBSET Int,
           Bounded(s, a, K, T), \A u \in U : \E t \in T : t <= u
    PROVE  Bounded(s, a, K, U)
<1> SUFFICES ASSUME NEW x \in a, NEW p \in DOMAIN s, s[p].id \notin K \cup {0},
                    NEW u \in U
             PROVE  s[p].frame <= Reach(x, u)
  BY DEF Bounded
<1>1. PICK t \in T : t <= u
  OBVIOUS
<1>2. x \in AnchorPoints
  BY DEF Anchors, AnchorPoints
<1>3. s[p].frame \in Int
  <2>1. s[p] \in Events
    BY SMT
  <2> QED
    BY <2>1, SMT DEF Events
<1>4. /\ x.frame \in Int /\ x.time \in Int
      /\ Reach(x, t) = IF 0 >= x.frame + (t - x.time) THEN 0
                       ELSE x.frame + (t - x.time)
      /\ Reach(x, u) = IF 0 >= x.frame + (u - x.time) THEN 0
                       ELSE x.frame + (u - x.time)
  BY <1>2, ReachIs
<1>5. s[p].frame <= Reach(x, t)
  BY DEF Bounded
<1> DEFINE g == s[p].frame
<1> HIDE DEF g
<1>6. t \in Int /\ u \in Int /\ g \in Int /\ g <= Reach(x, t)
  BY <1>3, <1>5 DEF g
<1>7. x.frame + (t - x.time) <= x.frame + (u - x.time)
  BY <1>1, <1>4, <1>6, SMT
<1>8. Reach(x, t) <= Reach(x, u) /\ Reach(x, t) \in Int /\ Reach(x, u) \in Int
  <2> DEFINE a1 == x.frame + (t - x.time)
             a2 == x.frame + (u - x.time)
  <2>0. x.frame \in Int /\ x.time \in Int /\ t \in Int /\ u \in Int
    BY <1>4, <1>6
  <2>1. a1 \in Int /\ a2 \in Int /\ a1 <= a2
    BY <1>7, <2>0, SMT
  <2>2. /\ Reach(x, t) = IF 0 >= a1 THEN 0 ELSE a1
        /\ Reach(x, u) = IF 0 >= a2 THEN 0 ELSE a2
    BY <1>4
  <2> HIDE DEF a1, a2
  <2> QED
    BY <2>1, <2>2, SMT
<1>9. g <= Reach(x, u)
  BY <1>6, <1>8, SMT
<1> QED
  BY <1>9 DEF g

\* A step that leaves the events alone, while time passes, commands are sent
\* and some are answered at once.
LEMMA EventsStay ==
    ASSUME EventInv, UNCHANGED <<pending, anchor, kept>>,
           \A i \in TriggerIds : /\ status'[i] = "pending" <=> status[i] = "pending"
                                 /\ status'[i] = "ran" <=> status[i] = "ran",
           Times' \in SUBSET Int,
           \A u \in Times' : \E t \in Times : t <= u
    PROVE  PendingInv'
<1>1. Bounded(pending, anchor, kept, Times')
  BY PendingBefore, TimesAre, BoundedLater
<1>2. IdsOf(pending) = {i \in TriggerIds : status'[i] = "pending"}
  BY PendingBefore
<1>3. \A i, j \in TriggerIds :
         i < j /\ status'[j] = "ran" /\ status'[i] = "pending" => i \in kept'
  BY PendingBefore DEF OrderInv
<1> QED
  BY <1>1, <1>2, <1>3, PendingBefore, PendingAfter

\* An event runs while nothing plays; all that is pending was reset.
LEMMA EventsRunNow ==
    ASSUME EventInv, UNCHANGED <<pending, anchor, kept>>, PendingIds \subseteq kept,
           \A i \in TriggerIds : status'[i] = "pending" <=> status[i] = "pending",
           Times' \in SUBSET Times
    PROVE  PendingInv'
<1>1. Bounded(pending, anchor, kept, Times')
  BY PendingBefore DEF Bounded
<1>2. IdsOf(pending) = {i \in TriggerIds : status'[i] = "pending"}
  BY PendingBefore
<1>3. \A i, j \in TriggerIds :
         i < j /\ status'[j] = "ran" /\ status'[i] = "pending" => i \in kept'
  BY PendingBefore
<1> QED
  BY <1>1, <1>2, <1>3, PendingBefore, PendingAfter

\* Everything that is pending is answered: cancel_pending_run_events, or the
\* thread's end.
LEMMA EventsCancelled ==
    ASSUME EventInv, pending' = <<>>, anchor' = {}, UNCHANGED kept,
           \A i \in TriggerIds : status'[i] # "pending"
    PROVE  PendingInv'
<1>1. /\ pending' \in Seq(Events) /\ DOMAIN pending' = {} /\ Len(pending') = 0
  <2>1. <<>> \in Seq(Events) /\ DOMAIN <<>> = {} /\ Len(<<>>) = 0
    BY SMT
  <2> QED
    BY <2>1, Zenon
<1>2. IdsOf(pending') = {}
  BY <1>1 DEF IdsOf
<1>3. anchor' \in Anchors
  BY DEF Anchors
<1>4. Len(pending') <= PendingLimit + Cardinality(Keys)
  BY <1>1, PendingBefore, SMT
<1>5. Cardinality(IdsOf(pending')) <= PendingLimit
  <2>1. Cardinality({}) = 0
    BY FS_EmptySet
  <2>2. 0 <= PendingLimit
    BY RunEventsAssumption, SMT
  <2> QED
    BY <1>2, <2>1, <2>2, Zenon
<1>6. /\ UniqueIds(pending') /\ Sorted(pending') /\ InOrder(pending', kept')
      /\ Bounded(pending', anchor', kept', Times')
  BY <1>1 DEF UniqueIds, Sorted, InOrder, Bounded
<1>7. IdsOf(pending') = {i \in TriggerIds : status'[i] = "pending"}
  BY <1>2
<1>8. anchor' = {} => IdsOf(pending') \subseteq kept'
  BY <1>2
<1> QED
  BY <1>1, <1>3, <1>4, <1>5, <1>6, <1>7, <1>8, PendingAfter

\* play resets the timeline and leaves what is pending where it is.
LEMMA EventsOfPlay ==
    ASSUME EventInv, UNCHANGED <<pending, status>>, ResetTimeline(pending)
    PROVE  PendingInv'
<1>1. anchor' = {} /\ kept \subseteq kept' /\ IdsOf(pending) \subseteq kept'
  BY DEF ResetTimeline, IdsOf
<1>2. anchor' \in Anchors /\ Bounded(pending, anchor', kept', Times')
  BY <1>1 DEF Anchors, Bounded
<1>3. InOrder(pending, kept')
  BY <1>1, PendingBefore DEF InOrder
<1>4. \A i, j \in TriggerIds :
         i < j /\ status'[j] = "ran" /\ status'[i] = "pending" => i \in kept'
  BY <1>1, PendingBefore DEF OrderInv
<1> QED
  BY <1>1, <1>2, <1>3, <1>4, PendingBefore, PendingAfter

\* An event with a MIDI name is scheduled behind those sent before it, for
\* they are not later than the frame of its time.
LEMMA EventsOfTrigger ==
    ASSUME EventInv, HandleTimedTrigger
    PROVE  PendingInv'
<1> DEFINE c == Head(control)
           e == [frame |-> FrameAt(c.time, anchor), name |-> "trigger",
                 key |-> NoKey, id |-> c.id]
<1>1. /\ control # <<>> /\ control' = Tail(control) /\ c.op = "trigger"
      /\ clock' = clock /\ kept' = kept
      /\ anchor' = AnchorFor(c.time, anchor)
      /\ pending' = IF ~FullOfEvents THEN Scheduled(pending, e.frame, <<e>>)
                    ELSE pending
      /\ status' = [status EXCEPT ![c.id] =
                       IF ~FullOfEvents THEN "pending" ELSE "answered"]
  BY Zenon DEF HandleTimedTrigger, Receive
<1>2. /\ c = control[1] /\ 1 \in DOMAIN control
  BY <1>1, PendingBefore, Shortened DEF ClientOK
<1>3. /\ c.id \in TriggerIds /\ c.id \in Nat /\ c.id # 0
      /\ c.id \in 0 .. MaxTriggers /\ c.time \in 0 .. MaxTime
  <2>1. c \in Commands /\ c.op = "trigger"
    BY <1>1, <1>2, PendingBefore, CommandTypes
  <2>2. c.id \in TriggerIds /\ c.time \in 0 .. MaxTime
    BY <2>1 DEF Commands
  <2> HIDE DEF c
  <2> QED
    BY <2>2, RunEventsAssumption, SMT DEF TriggerIds
<1>4. /\ status[c.id] = "sent" /\ c.id <= triggers
      /\ \A k \in TriggerIds : status[k] \in {"pending", "ran"} => k < c.id
  BY <1>2, <1>3, PendingBefore DEF ControlInv
<1>5. /\ Times \in SUBSET Int /\ Times' \in SUBSET Times /\ c.time \in Times
      /\ \A t \in Times' : c.time <= t
  BY <1>1, TimesAre
<1>6. PICK y \in AnchorPoints :
              /\ AnchorFor(c.time, anchor) = {y}
              /\ AnchorFor(c.time, anchor) \in Anchors
              /\ FrameAt(c.time, anchor) \in Nat
              /\ \A x \in anchor : x \in AnchorPoints
                              /\ \A t \in Int : Reach(x, t) <= Reach(y, t)
  <2>1. c.time \in 0 .. MaxTime /\ anchor \in Anchors
    BY <1>3, PendingBefore
  <2> HIDE DEF c
  <2> QED
    BY <2>1, Timeline, Zenon
<1>7. CASE FullOfEvents
  <2>1. /\ pending' = pending /\ status' = [status EXCEPT ![c.id] = "answered"]
    BY <1>1, <1>7
  <2>2. \A i \in TriggerIds : /\ status'[i] = "pending" <=> status[i] = "pending"
                              /\ status'[i] = "ran" <=> status[i] = "ran"
    BY <1>3, <1>4, <2>1, PendingBefore DEF ClientOK
  <2>3. \A i, j \in TriggerIds :
         i < j /\ status'[j] = "ran" /\ status'[i] = "pending" => i \in kept'
    BY <1>1, <2>2, PendingBefore DEF OrderInv
  <2>4. Bounded(pending, anchor', kept', Times')
    <3> SUFFICES ASSUME NEW p \in DOMAIN pending,
                        pending[p].id \notin kept \cup {0}, NEW t \in Times'
                 PROVE  pending[p].frame <= Reach(y, t)
      BY <1>1, <1>6 DEF Bounded
    <3>1. PICK x \in anchor : TRUE
      BY PendingBefore DEF IdsOf
    <3>2. /\ t \in Int /\ t \in Times /\ x \in AnchorPoints
          /\ pending[p].frame <= Reach(x, t) /\ Reach(x, t) <= Reach(y, t)
      BY <1>5, <1>6, PendingBefore DEF Bounded
    <3>3. pending[p].frame \in Nat
      BY PendingBefore, PendingTypes
    <3>4. /\ Reach(x, t) \in Int /\ Reach(y, t) \in Int
      <4>1. ASSUME NEW z \in AnchorPoints PROVE Reach(z, t) \in Int
        <5>1. /\ z.frame \in Int /\ z.time \in Int
              /\ Reach(z, t) = IF 0 >= z.frame + (t - z.time) THEN 0
                               ELSE z.frame + (t - z.time)
          BY <3>2, ReachIs
        <5> QED
          BY <3>2, <5>1, SMT
      <4> QED
        BY <3>2, <4>1
    <3> QED
      BY <3>2, <3>3, <3>4, SMT
  <2>5. anchor' \in Anchors /\ anchor' # {}
    BY <1>1, <1>6
  <2>6. IdsOf(pending) = {i \in TriggerIds : status'[i] = "pending"}
    BY <2>2, PendingBefore
  <2> QED
    BY <1>1, <2>1, <2>3, <2>4, <2>5, <2>6, PendingBefore, PendingAfter
<1>8. CASE ~FullOfEvents
  <2>1. /\ pending' = Scheduled(pending, e.frame, <<e>>)
        /\ status' = [status EXCEPT ![c.id] = "pending"]
    BY <1>1, <1>8
  <2>2. e \in Events /\ e.frame = FrameAt(c.time, anchor) /\ e.id = c.id
    BY <1>3, <1>6 DEF Events
  <2>3. \A i \in DOMAIN pending : pending[i].id < c.id
    <3> SUFFICES ASSUME NEW i \in DOMAIN pending PROVE pending[i].id < c.id
      OBVIOUS
    <3>1. pending[i].id \in Nat
      BY PendingBefore, PendingTypes
    <3>2. CASE pending[i].id = 0
      BY <1>3, <3>2, SMT
    <3>3. CASE pending[i].id # 0
      <4>1. pending[i].id \in PendingIds
        BY <3>3 DEF PendingIds
      <4> QED
        BY <1>4, <4>1, PendingBefore
    <3> QED
      BY <3>2, <3>3
  <2> HIDE DEF e, c
  <2>4. /\ pending' \in Seq(Events) /\ Len(pending') = Len(pending) + 1
        /\ Sorted(pending') /\ UniqueIds(pending') /\ InOrder(pending', kept)
        /\ IdsOf(pending') = IdsOf(pending) \cup ({e.id} \ {0})
        /\ Bounded(pending', AnchorFor(c.time, anchor), kept, Times')
    <3>1. e.id # 0 => /\ c.time \in Times
                      /\ \A t \in Times' : c.time <= t
                      /\ \A i \in DOMAIN pending : pending[i].id < e.id
      BY <1>5, <2>2, <2>3
    <3>2. /\ pending \in Seq(Events) /\ Sorted(pending) /\ UniqueIds(pending)
          /\ InOrder(pending, kept) /\ anchor \in Anchors
          /\ anchor = {} => IdsOf(pending) \subseteq kept
          /\ Bounded(pending, anchor, kept, Times)
      BY PendingBefore
    <3> DEFINE r == Scheduled(pending, e.frame, <<e>>)
    <3>3. /\ r \in Seq(Events) /\ Len(r) = Len(pending) + 1
          /\ Sorted(r) /\ UniqueIds(r) /\ InOrder(r, kept)
          /\ IdsOf(r) = IdsOf(pending) \cup ({e.id} \ {0})
          /\ Bounded(r, AnchorFor(c.time, anchor), kept, Times')
      BY <1>3, <1>5, <2>2, <3>1, <3>2, Joined
    <3> QED
      BY <2>1, <3>3
  <2>5. IdsOf(pending') = PendingIds \cup {c.id}
    BY <1>3, <2>2, <2>4, PendingBefore
  <2>6. /\ \A i \in TriggerIds : i # c.id => status'[i] = status[i]
        /\ status'[c.id] = "pending"
    BY <1>3, <2>1, PendingBefore DEF ClientOK
  <2>7. IdsOf(pending') = {i \in TriggerIds : status'[i] = "pending"}
    BY <1>3, <2>5, <2>6, PendingBefore
  <2>8. /\ Len(pending') <= PendingLimit + Cardinality(Keys)
        /\ Cardinality(IdsOf(pending')) <= PendingLimit
    <3>1. /\ Len(pending) \in Nat /\ Len(pending) + 1 <= PendingLimit
      BY <1>8, PendingBefore, PendingTypes, SMT DEF FullOfEvents
    <3>2. /\ Cardinality(PendingIds) \in Nat
          /\ Cardinality(PendingIds) <= Len(pending)
      BY PendingBefore, OwnKeeps, FS_CardinalityType
    <3>3. \/ Cardinality(PendingIds \cup {c.id}) = Cardinality(PendingIds) + 1
          \/ Cardinality(PendingIds \cup {c.id}) = Cardinality(PendingIds)
      BY PendingBefore, FS_AddElement
    <3>4. PendingLimit \in Nat /\ Cardinality(Keys) \in Nat
      BY PendingBefore
    <3> DEFINE a == Cardinality(PendingIds)
               b == Cardinality(PendingIds \cup {c.id})
    <3>5. Cardinality(IdsOf(pending')) = b
      BY <2>5
    <3> HIDE DEF a, b
    <3>6. b <= PendingLimit
      BY <3>1, <3>2, <3>3, <3>4, SMT DEF a, b
    <3>7. Len(pending) + 1 <= PendingLimit + Cardinality(Keys)
      BY <3>1, <3>4, SMT
    <3> QED
      BY <2>4, <3>5, <3>6, <3>7
  <2>9. ASSUME NEW i \in TriggerIds, NEW j \in TriggerIds,
               i < j, status'[j] = "ran", status'[i] = "pending"
        PROVE  i \in kept'
    <3>1. j # c.id /\ status[j] = "ran" /\ j < c.id
      BY <1>4, <2>6, <2>9
    <3>2. i # c.id
      <4>1. i \in Nat /\ j \in Nat
        BY RunEventsAssumption, SMT DEF TriggerIds
      <4> QED
        BY <1>3, <2>9, <3>1, <4>1, SMT
    <3> QED
      BY <1>1, <2>6, <2>9, <3>1, <3>2, PendingBefore DEF OrderInv
  <2>10. anchor' \in Anchors /\ anchor' # {}
         /\ Bounded(pending', anchor', kept', Times')
    BY <1>1, <1>6, <2>4 DEF c
  <2> QED
    BY <1>1, <2>4, <2>7, <2>8, <2>9, <2>10, PendingAfter
<1> QED
  BY <1>7, <1>8

\* A message of the device is scheduled: it may move the anchor, but no
\* client's event comes earlier than before.
LEMMA EventsOfMessage ==
    ASSUME EventInv, NEW m \in Messages, ~FullOfEvents,
           anchor' = AnchorFor(m.time, anchor),
           pending' = Scheduled(pending, FrameAt(m.time, anchor),
                         <<[frame |-> FrameAt(m.time, anchor), name |-> m.name,
                            key |-> m.key, id |-> 0]>>),
           UNCHANGED <<clock, control, status, kept>>
    PROVE  PendingInv'
<1> DEFINE e == [frame |-> FrameAt(m.time, anchor), name |-> m.name,
                 key |-> m.key, id |-> 0]
<1>1. m.time \in 0 .. MaxTime /\ m.key \in Keys
      /\ m.name \in {"note_on", "note_off"}
  BY DEF Messages
<1>2. /\ AnchorFor(m.time, anchor) \in Anchors
      /\ FrameAt(m.time, anchor) \in Nat
      /\ AnchorFor(m.time, anchor) # {}
  <2>1. anchor \in Anchors
    BY PendingBefore
  <2>2. PICK y \in AnchorPoints :
              /\ AnchorFor(m.time, anchor) = {y}
              /\ AnchorFor(m.time, anchor) \in Anchors
              /\ FrameAt(m.time, anchor) \in Nat
    BY <1>1, <2>1, Timeline
  <2> QED
    BY <2>2
<1>3. e \in Events /\ e.frame = FrameAt(m.time, anchor) /\ e.id = 0
  <2>1. 0 \in 0 .. MaxTriggers
    BY RunEventsAssumption, SMT
  <2> QED
    BY <1>1, <1>2, <2>1 DEF Events
<1>4. pending' = Scheduled(pending, e.frame, <<e>>)
  OBVIOUS
<1> HIDE DEF e
<1>5. Times' = Times /\ Times \in SUBSET Int
  BY TimesAre DEF Times
<1>6. /\ pending' \in Seq(Events) /\ Len(pending') = Len(pending) + 1
      /\ Sorted(pending') /\ UniqueIds(pending') /\ InOrder(pending', kept)
      /\ IdsOf(pending') = IdsOf(pending)
      /\ Bounded(pending', AnchorFor(m.time, anchor), kept, Times)
  <2>1. /\ pending \in Seq(Events) /\ Sorted(pending) /\ UniqueIds(pending)
        /\ InOrder(pending, kept) /\ anchor \in Anchors
        /\ anchor = {} => IdsOf(pending) \subseteq kept
        /\ Bounded(pending, anchor, kept, Times)
    BY PendingBefore
  <2>2. e.id # 0 => /\ m.time \in Times
                    /\ \A t \in Times : m.time <= t
                    /\ \A i \in DOMAIN pending : pending[i].id < e.id
    BY <1>3
  <2> DEFINE r == Scheduled(pending, e.frame, <<e>>)
  <2>3. /\ r \in Seq(Events) /\ Len(r) = Len(pending) + 1
        /\ Sorted(r) /\ UniqueIds(r) /\ InOrder(r, kept)
        /\ IdsOf(r) = IdsOf(pending) \cup ({e.id} \ {0})
        /\ Bounded(r, AnchorFor(m.time, anchor), kept, Times)
    BY <1>1, <1>3, <1>5, <2>1, <2>2, Joined
  <2> QED
    BY <1>3, <1>4, <2>3
<1>7. Len(pending') <= PendingLimit + Cardinality(Keys)
  <2>1. Len(pending) + 1 <= PendingLimit + Cardinality(Keys)
    BY PendingBefore, PendingTypes, SMT DEF FullOfEvents
  <2> QED
    BY <1>6, <2>1
<1>8. \A i, j \in TriggerIds :
         i < j /\ status'[j] = "ran" /\ status'[i] = "pending" => i \in kept'
  BY PendingBefore DEF OrderInv
<1>9. /\ anchor' \in Anchors /\ anchor' # {}
      /\ Bounded(pending', anchor', kept', Times')
  BY <1>2, <1>5, <1>6
<1>10. /\ Cardinality(IdsOf(pending')) <= PendingLimit
       /\ IdsOf(pending') = {i \in TriggerIds : status'[i] = "pending"}
  BY <1>6, PendingBefore
<1> QED
  BY <1>6, <1>7, <1>8, <1>9, <1>10, PendingAfter

\* A recovery releases each active note once.
LEMMA NoteOffsAre ==
    ASSUME active \subseteq Keys
    PROVE  /\ NoteOffs \in Seq(Events) /\ Len(NoteOffs) <= Cardinality(Keys)
           /\ \A i \in DOMAIN NoteOffs : /\ NoteOffs[i].id = 0
                                         /\ NoteOffs[i].frame = 0
<1> DEFINE n == Cardinality(active)
           key == SetToSeq(active)
<1>1. /\ IsFiniteSet(active) /\ n \in Nat /\ n <= Cardinality(Keys)
  BY RunEventsAssumption, FS_Subset, FS_CardinalityType
<1>2. key \in [1 .. n -> active]
  <2>1. PICK f : f \in Bijection(1 .. n, active)
    BY <1>1, FS_CardinalityType DEF ExistsBijection
  <2>2. f \in [1 .. n -> active] /\ IsInjective(f)
    BY <2>1 DEF Bijection, Injection, IsInjective
  <2> QED
    BY <2>2 DEF SetToSeq
<1>3. DOMAIN key = 1 .. n /\ \A i \in DOMAIN key : key[i] \in Keys
  BY <1>2
<1> HIDE DEF key, n
<1>4. NoteOffs = [i \in 1 .. n |-> [frame |-> 0, name |-> "note_off",
                                    key |-> key[i], id |-> 0]]
  BY <1>3 DEF NoteOffs, key
<1>5. NoteOffs \in [1 .. n -> Events]
  <2>1. 0 \in Nat /\ 0 \in 0 .. MaxTriggers
    BY RunEventsAssumption, SMT
  <2> QED
    BY <1>3, <1>4, <2>1 DEF Events
<1>6. NoteOffs \in Seq(Events) /\ Len(NoteOffs) = n
  BY <1>1, <1>5, SMT DEF n
<1>7. \A i \in DOMAIN NoteOffs : NoteOffs[i].id = 0 /\ NoteOffs[i].frame = 0
  BY <1>4
<1> QED
  BY <1>1, <1>6, <1>7 DEF n

\* A recovery keeps the events of clients where they are, behind the notes
\* that it releases.  The numbers of those it keeps are remembered: the new
\* timeline may put later events before them.
LEMMA EventsOfRecovery ==
    ASSUME EventInv, Recover
    PROVE  PendingInv'
<1> DEFINE releases == "note_off" \in MidiNames /\ active # {}
<1>1. /\ kept' = kept \cup PendingIds
      /\ anchor' = IF releases THEN {[time |-> clock, frame |-> 0]} ELSE {}
      /\ pending' = IF releases THEN Scheduled(Own, 0, NoteOffs) ELSE Own
      /\ status' = status
  BY Zenon DEF Recover
<1> HIDE DEF releases
<1>2. /\ Own \in Seq(Events) /\ Len(Own) <= Len(pending)
      /\ Len(Own) = Cardinality(PendingIds)
      /\ Sorted(Own) /\ UniqueIds(Own) /\ InOrder(Own, kept)
      /\ IdsOf(Own) = PendingIds
  BY PendingBefore, OwnKeeps
<1>3. /\ NoteOffs \in Seq(Events) /\ Len(NoteOffs) <= Cardinality(Keys)
      /\ \A i \in DOMAIN NoteOffs : NoteOffs[i].id = 0 /\ NoteOffs[i].frame = 0
  BY NoteOffsAre DEF EventInv, TypeOK, RenderOK
<1>4. InOrder(Own, kept')
  BY <1>1, <1>2 DEF InOrder
<1> DEFINE r == Scheduled(Own, 0, NoteOffs)
<1>5. /\ r \in Seq(Events) /\ Len(r) = Len(Own) + Len(NoteOffs)
      /\ Sorted(r) /\ IdsOf(r) = PendingIds
  <2>0. 0 \in Nat
    BY SMT
  <2>1. r \in Seq(Events) /\ Len(r) = Len(Own) + Len(NoteOffs)
    BY <1>2, <1>3, <2>0, ScheduledPlaces
  <2>2. Sorted(r) /\ IdsOf(r) = IdsOf(Own) \cup IdsOf(NoteOffs)
    BY <1>2, <1>3, <2>0, ScheduledKeeps
  <2>3. IdsOf(NoteOffs) = {}
    BY <1>3 DEF IdsOf
  <2> QED
    BY <1>2, <2>1, <2>2, <2>3
<1>6. UniqueIds(r) /\ InOrder(r, kept')
  <2>1. 0 \in Nat
    BY SMT
  <2>2. \A i, j \in DOMAIN NoteOffs : i # j => NoteOffs[i].id = 0
    BY <1>3
  <2>3. \A i \in DOMAIN Own : \A j \in DOMAIN NoteOffs :
              NoteOffs[j].id # 0 =>
                 /\ Own[i].id < NoteOffs[j].id
                 /\ Own[i].id \in kept' \cup {0} \/ Own[i].frame <= 0
    BY <1>3
  <2> QED
    BY <1>2, <1>3, <1>4, <2>1, <2>2, <2>3, ScheduledIds
<1> HIDE DEF r
<1>7. /\ pending' \in Seq(Events) /\ Sorted(pending') /\ UniqueIds(pending')
      /\ InOrder(pending', kept') /\ IdsOf(pending') = PendingIds
  BY <1>1, <1>2, <1>4, <1>5, <1>6 DEF r
<1>8. Len(pending') <= PendingLimit + Cardinality(Keys)
  <2>1. /\ Len(Own) \in Nat /\ Len(NoteOffs) \in Nat /\ Len(pending) \in Nat
    BY <1>2, <1>3, PendingBefore, SMT
  <2>2. Len(Own) <= PendingLimit
    BY <1>2, PendingBefore
  <2>3. /\ Len(Own) + Len(NoteOffs) <= PendingLimit + Cardinality(Keys)
        /\ Len(Own) <= PendingLimit + Cardinality(Keys)
    BY <1>3, <2>1, <2>2, PendingBefore, SMT
  <2> QED
    BY <1>1, <1>5, <2>3 DEF r
<1>9. anchor' \in Anchors
  <2>1. [time |-> clock, frame |-> 0] \in [time : 0 .. MaxTime, frame : -MaxTime .. 0]
    <3>1. 0 \in -MaxTime .. 0
      BY RunEventsAssumption, SMT
    <3> QED
      BY <3>1, PendingBefore
  <2>2. {[time |-> clock, frame |-> 0]} \in Anchors /\ {} \in Anchors
    BY <2>1 DEF Anchors
  <2> QED
    BY <1>1, <2>2
<1>10. IdsOf(pending') \subseteq kept'
  BY <1>1, <1>7
<1>11. Bounded(pending', anchor', kept', Times')
  BY <1>10 DEF Bounded, IdsOf
<1>12. \A i, j \in TriggerIds :
         i < j /\ status'[j] = "ran" /\ status'[i] = "pending" => i \in kept'
  BY <1>1, PendingBefore DEF OrderInv
<1>13. /\ Cardinality(IdsOf(pending')) <= PendingLimit
       /\ IdsOf(pending') = {i \in TriggerIds : status'[i] = "pending"}
  BY <1>1, <1>7, PendingBefore
<1> QED
  BY <1>7, <1>8, <1>9, <1>10, <1>11, <1>12, <1>13, PendingAfter

\* A block takes the events that are due; the others stay in their order.
LEMMA EventsOfBlock ==
    ASSUME EventInv, NEW s \in {"ran", "answered"}, status' = Settled(DueIds, s),
           kept' = kept, anchor' \in Anchors, anchor' = {} => anchor = {},
           pending' \in Seq(Events), Len(pending') = Len(NotDue),
           \A k \in DOMAIN NotDue : pending'[k].id = NotDue[k].id,
           Sorted(pending'), Bounded(pending', anchor', kept, Times')
    PROVE  PendingInv'
<1>1. /\ Len(NotDue) <= Len(pending) /\ NotDue \in Seq(Events)
      /\ UniqueIds(NotDue) /\ InOrder(NotDue, kept)
      /\ IdsOf(NotDue) = PendingIds \ DueIds
      /\ DueIds \subseteq PendingIds
      /\ \A i \in IdsOf(NotDue) : \A j \in DueIds : i < j => i \in kept
  BY PendingBefore, DueParts
<1>2. DOMAIN pending' = DOMAIN NotDue
  BY <1>1, SMT
<1>3. /\ UniqueIds(pending') /\ InOrder(pending', kept')
      /\ IdsOf(pending') = IdsOf(NotDue)
  <2>1. UniqueIds(pending')
    BY <1>1, <1>2 DEF UniqueIds
  <2>2. InOrder(pending', kept')
    BY <1>1, <1>2 DEF InOrder
  <2>3. IdsOf(pending') = IdsOf(NotDue)
    BY <1>2 DEF IdsOf
  <2> QED
    BY <2>1, <2>2, <2>3
<1>4. \A k \in TriggerIds :
         \/ status'[k] = status[k] /\ k \notin DueIds
         \/ k \in DueIds /\ status[k] = "pending" /\ status'[k] = s
  BY <1>1, PendingBefore, SettledWerePending
<1>5. IdsOf(pending') = {i \in TriggerIds : status'[i] = "pending"}
  <2>1. s # "pending"
    OBVIOUS
  <2> QED
    BY <1>1, <1>3, <1>4, <2>1, PendingBefore
<1>6. ASSUME NEW i \in TriggerIds, NEW j \in TriggerIds,
             i < j, status'[j] = "ran", status'[i] = "pending"
      PROVE  i \in kept'
  <2>1. i \in IdsOf(NotDue) /\ status[i] = "pending"
    BY <1>3, <1>4, <1>5, <1>6
  <2>2. CASE j \in DueIds
    BY <1>1, <1>6, <2>1, <2>2
  <2>3. CASE j \notin DueIds
    BY <1>4, <1>6, <2>1, <2>3, PendingBefore DEF OrderInv
  <2> QED
    BY <2>2, <2>3
<1>7. /\ Len(pending') <= PendingLimit + Cardinality(Keys)
      /\ Cardinality(IdsOf(pending')) <= PendingLimit
  <2>1. /\ Len(NotDue) \in Nat /\ Len(pending) \in Nat
    BY <1>1, PendingBefore, SMT
  <2>2. Len(NotDue) <= PendingLimit + Cardinality(Keys)
    BY <1>1, <2>1, PendingBefore, SMT
  <2>3. /\ Cardinality(IdsOf(pending')) <= Cardinality(PendingIds)
        /\ Cardinality(IdsOf(pending')) \in Nat
        /\ Cardinality(PendingIds) \in Nat
        /\ Cardinality(PendingIds) <= PendingLimit
    <3>1. IdsOf(pending') \subseteq PendingIds
      BY <1>1, <1>3
    <3>2. /\ Cardinality(IdsOf(pending')) <= Cardinality(PendingIds)
          /\ IsFiniteSet(IdsOf(pending'))
      BY <3>1, PendingBefore, FS_Subset
    <3> QED
      BY <3>2, PendingBefore, FS_CardinalityType
  <2> DEFINE a == Cardinality(IdsOf(pending'))
             b == Cardinality(PendingIds)
  <2> HIDE DEF a, b
  <2>4. a <= PendingLimit
    BY <2>3, PendingBefore, SMT DEF a, b
  <2> QED
    BY <2>2, <2>4 DEF a
<1>8. anchor' = {} => IdsOf(pending') \subseteq kept'
  BY <1>1, <1>3, PendingBefore
<1> QED
  BY <1>3, <1>5, <1>6, <1>7, <1>8, PendingAfter

\* A block that fails leaves the timeline alone.
LEMMA EventsOfFailure ==
    ASSUME EventInv, BlockFails
    PROVE  PendingInv'
<1>1. /\ status' = Settled(DueIds, "answered") /\ pending' = NotDue
      /\ UNCHANGED <<clock, control, anchor, kept>>
  BY DEF BlockFails
<1>2. /\ NotDue \in Seq(Events) /\ Sorted(NotDue)
      /\ \A k \in DOMAIN NotDue : \E i \in DOMAIN pending : NotDue[k] = pending[i]
  BY PendingBefore, DueParts
<1>3. Times' = Times
  BY <1>1 DEF Times
<1>4. Bounded(NotDue, anchor, kept, Times)
  BY <1>2, PendingBefore DEF Bounded
<1> QED
  BY <1>1, <1>2, <1>3, <1>4, PendingBefore, EventsOfBlock

\* rendered_frame advances, for the events that wait and for the anchor.
LEMMA EventsOfRendering ==
    ASSUME EventInv, RenderBlock
    PROVE  PendingInv'
<1>1. /\ status' = Settled(DueIds, "ran")
      /\ pending' = [i \in DOMAIN NotDue |->
                        [NotDue[i] EXCEPT !.frame = @ - BlockLen]]
      /\ anchor' = {[x EXCEPT !.frame = Max({@ - BlockLen, -MaxTime})] :
                       x \in anchor}
      /\ UNCHANGED <<clock, control, kept>>
  BY DEF RenderBlock
<1>2. /\ NotDue \in Seq(Events) /\ Sorted(NotDue)
      /\ \A k \in DOMAIN NotDue : NotDue[k].frame >= BlockLen
      /\ \A k \in DOMAIN NotDue : \E i \in DOMAIN pending : NotDue[k] = pending[i]
  BY PendingBefore, DueParts
<1>3. BlockLen \in Nat /\ BlockLen > 0 /\ MaxTime \in Nat
  BY RunEventsAssumption, SMT
<1>4. ASSUME NEW k \in DOMAIN NotDue
      PROVE  /\ NotDue[k] \in Events /\ NotDue[k].frame \in Nat
             /\ pending'[k] \in Events
             /\ pending'[k].id = NotDue[k].id
             /\ pending'[k].frame = NotDue[k].frame - BlockLen
  <2>1. NotDue[k] \in Events
    BY <1>2, SMT
  <2>2. NotDue[k].frame \in Nat
    BY <2>1 DEF Events
  <2>3. NotDue[k].frame - BlockLen \in Nat
    BY <1>2, <1>3, <2>2, SMT
  <2>4. pending'[k] = [NotDue[k] EXCEPT !.frame = @ - BlockLen]
    BY <1>1
  <2> QED
    BY <2>1, <2>2, <2>3, <2>4 DEF Events
<1>5. /\ DOMAIN pending' = DOMAIN NotDue /\ pending' \in Seq(Events)
      /\ Len(pending') = Len(NotDue)
  <2>1. /\ Len(NotDue) \in Nat /\ DOMAIN NotDue = 1 .. Len(NotDue)
    BY <1>2, SMT
  <2>2. pending' \in [1 .. Len(NotDue) -> Events]
    BY <1>1, <1>4, <2>1
  <2> QED
    BY <2>1, <2>2, SMT
<1>6. Sorted(pending')
  <2> SUFFICES ASSUME NEW i \in DOMAIN NotDue, NEW j \in DOMAIN NotDue, i < j
               PROVE  pending'[i].frame <= pending'[j].frame
    BY <1>5 DEF Sorted
  <2>1. NotDue[i].frame <= NotDue[j].frame
    BY <1>2 DEF Sorted
  <2> DEFINE f == NotDue[i].frame
             g == NotDue[j].frame
  <2>2. f \in Nat /\ g \in Nat /\ pending'[i].frame = f - BlockLen
        /\ pending'[j].frame = g - BlockLen
    BY <1>4
  <2> HIDE DEF f, g
  <2>3. f - BlockLen <= g - BlockLen
    BY <1>3, <2>1, <2>2, SMT DEF f, g
  <2> QED
    BY <2>2, <2>3
<1>7. ASSUME NEW x \in anchor
      PROVE  LET z == [x EXCEPT !.frame = Max({@ - BlockLen, -MaxTime})]
             IN  /\ x \in AnchorPoints /\ z \in AnchorPoints
                 /\ z.time = x.time /\ z.frame >= x.frame - BlockLen
  <2> DEFINE z == [x EXCEPT !.frame = Max({@ - BlockLen, -MaxTime})]
  <2>1. x \in AnchorPoints
    BY PendingBefore DEF Anchors, AnchorPoints
  <2>2. /\ x.time \in 0 .. MaxTime /\ x.frame \in -MaxTime .. 0
    BY <2>1 DEF AnchorPoints
  <2>3. x.frame - BlockLen \in Int /\ -MaxTime \in Int
    BY <1>3, <2>2, SMT
  <2>4. /\ z.time = x.time /\ z.frame = Max({x.frame - BlockLen, -MaxTime})
        /\ z = [time |-> z.time, frame |-> z.frame]
    BY <2>1 DEF AnchorPoints
  <2>5. z.frame = IF x.frame - BlockLen >= -MaxTime THEN x.frame - BlockLen
                  ELSE -MaxTime
    BY <2>3, <2>4, MaxOfTwo
  <2> HIDE DEF z
  <2>6. z.frame \in -MaxTime .. 0 /\ z.frame >= x.frame - BlockLen
    BY <1>3, <2>2, <2>3, <2>5, SMT
  <2>7. z \in AnchorPoints
    BY <2>2, <2>4, <2>6 DEF AnchorPoints
  <2> QED
    BY <2>1, <2>4, <2>6, <2>7 DEF z
<1>8. anchor' \in Anchors /\ (anchor' = {} => anchor = {})
  <2>1. anchor = {} \/ \E x : anchor = {x}
    BY PendingBefore, Zenon DEF Anchors
  <2>2. anchor' = {} \/ \E z \in AnchorPoints : anchor' = {z}
    <3>1. ASSUME NEW x, anchor = {x}
          PROVE  \E z \in AnchorPoints : anchor' = {z}
      <4> DEFINE z == [x EXCEPT !.frame = Max({@ - BlockLen, -MaxTime})]
      <4>1. z \in AnchorPoints
        BY <1>7, <3>1
      <4>2. anchor' = {z}
        BY <1>1, <3>1
      <4> QED
        BY <4>1, <4>2
    <3>2. anchor = {} => anchor' = {}
      BY <1>1
    <3> QED
      BY <2>1, <3>1, <3>2
  <2>3. anchor' = {} => anchor = {}
    BY <1>1
  <2> QED
    BY <2>2, <2>3 DEF Anchors, AnchorPoints
<1>9. Times' = Times /\ Times \in SUBSET Int
  BY <1>1, TimesAre DEF Times
<1>10. Bounded(pending', anchor', kept, Times')
  <2> SUFFICES ASSUME NEW x \in anchor, NEW k \in DOMAIN NotDue,
                      NotDue[k].id \notin kept \cup {0}, NEW t \in Times
               PROVE  LET z == [x EXCEPT !.frame = Max({@ - BlockLen, -MaxTime})]
                      IN  pending'[k].frame <= Reach(z, t)
    <3>1. /\ Times' = Times /\ DOMAIN pending' = DOMAIN NotDue
          /\ \A k \in DOMAIN NotDue : pending'[k].id = NotDue[k].id
      BY <1>4, <1>5, <1>9
    <3>2. \A w \in anchor' : \E x \in anchor :
             w = [x EXCEPT !.frame = Max({@ - BlockLen, -MaxTime})]
      BY <1>1, Zenon
    <3> QED
      BY <3>1, <3>2, Zenon DEF Bounded
  <2> DEFINE z == [x EXCEPT !.frame = Max({@ - BlockLen, -MaxTime})]
             f == NotDue[k].frame
  <2>1. /\ x \in AnchorPoints /\ z \in AnchorPoints
        /\ z.time = x.time /\ z.frame >= x.frame - BlockLen
    BY <1>7
  <2>2. f <= Reach(x, t) /\ f >= BlockLen /\ f \in Nat
    BY <1>2, <1>4, PendingBefore DEF Bounded
  <2>3. t \in Int
    BY <1>9
  <2> HIDE DEF z, f
  <2>4. /\ x.frame \in Int /\ x.time \in Int
        /\ Reach(x, t) = IF 0 >= x.frame + (t - x.time) THEN 0
                         ELSE x.frame + (t - x.time)
        /\ z.frame \in Int
        /\ Reach(z, t) = IF 0 >= z.frame + (t - z.time) THEN 0
                         ELSE z.frame + (t - z.time)
    BY <2>1, <2>3, ReachIs
  <2>5. f - BlockLen <= Reach(z, t)
    BY <1>3, <2>1, <2>2, <2>3, <2>4, SMT
  <2>6. pending'[k].frame = f - BlockLen
    BY <1>4 DEF f
  <2> QED
    BY <2>5, <2>6 DEF z
<1>11. \A k \in DOMAIN NotDue : pending'[k].id = NotDue[k].id
  BY <1>4
<1> QED
  BY <1>1, <1>5, <1>6, <1>8, <1>10, <1>11, EventsOfBlock

\* Every step, by what it does to the events.
LEMMA PendingSteps ==
    ASSUME EventInv, [Next]_vars
    PROVE  PendingInv'
<1>0. /\ Times \in SUBSET Int /\ ClientOK /\ clock \in Nat
      /\ \A t \in Times : t <= t
  <2>1. Times \in SUBSET Int
    BY TimesAre
  <2>2. \A t \in Int : t <= t
    BY SMT
  <2> QED
    BY <2>1, <2>2, PendingBefore
<1>1. ASSUME UNCHANGED <<clock, control, pending, anchor, kept, status>>
      PROVE  PendingInv'
  <2>1. Times' = Times
    BY <1>1 DEF Times
  <2> QED
    BY <1>0, <1>1, <2>1, EventsStay
<1>2. CASE Tick
  <2>1. /\ clock' = clock + 1 /\ UNCHANGED <<control, pending, anchor, kept, status>>
    BY <1>2 DEF Tick, eventVars
  <2>2. clock' \in Int /\ clock <= clock'
    BY <1>0, <2>1, SMT
  <2>3. Times' = {clock'} \cup {control[i].time : i \in DOMAIN control}
    BY <2>1 DEF Times
  <2>4. /\ \A u \in Times' : u = clock' \/ u \in Times
        /\ clock \in Times
    BY <2>3 DEF Times
  <2>5. Times' \in SUBSET Int /\ \A u \in Times' : \E t \in Times : t <= u
    BY <1>0, <2>2, <2>4
  <2> QED
    BY <2>1, <2>5, EventsStay
<1>3. ASSUME NEW c \in Commands, c.time = clock, control' = Append(control, c),
             UNCHANGED <<clock, pending, anchor, kept>>,
             \A i \in TriggerIds :
                /\ status'[i] = "pending" <=> status[i] = "pending"
                /\ status'[i] = "ran" <=> status[i] = "ran"
      PROVE  PendingInv'
  <2>1. /\ DOMAIN control' = DOMAIN control \cup {Len(control) + 1}
        /\ control'[Len(control) + 1] = c
        /\ \A i \in DOMAIN control : control'[i] = control[i]
    BY <1>0, <1>3, Appended DEF ClientOK
  <2>2. \A i \in DOMAIN control' :
           \/ control'[i].time = clock
           \/ i \in DOMAIN control /\ control'[i].time = control[i].time
    <3>1. ASSUME NEW i \in DOMAIN control
          PROVE  control'[i].time = control[i].time
      BY <2>1, <3>1
    <3>2. control'[Len(control) + 1].time = clock
      <4>1. control'[Len(control) + 1] = c
        BY <2>1, Zenon
      <4>2. c.time = clock
        BY <1>3, Zenon
      <4> QED
        BY <4>1, <4>2, Zenon
    <3> QED
      BY <2>1, <3>1, <3>2, Zenon
  <2>3. \A u \in Times' : u \in Times
    BY <1>3, <2>2 DEF Times
  <2> QED
    BY <1>0, <1>3, <2>3, EventsStay
<1>4. ASSUME NEW waits \in BOOLEAN, SendTrigger(waits) PROVE PendingInv'
  <2> DEFINE c == [op |-> "trigger", id |-> triggers + 1, time |-> clock]
  <2>1. triggers + 1 \in TriggerIds /\ triggers + 1 > triggers
    BY <1>0, <1>4, RunEventsAssumption, SMT DEF SendTrigger, ClientOK, TriggerIds
  <2>2. c \in Commands /\ c.time = clock
    BY <2>1, PendingBefore DEF Commands
  <2>3. /\ control' = Append(control, c)
        /\ status' = [status EXCEPT ![triggers + 1] = "sent"]
        /\ UNCHANGED <<clock, pending, anchor, kept>>
    BY <1>4 DEF SendTrigger, eventVars
  <2>4. status[triggers + 1] = "unsent"
    BY <2>1, PendingBefore DEF ControlInv
  <2>5. \A i \in TriggerIds :
                /\ status'[i] = "pending" <=> status[i] = "pending"
                /\ status'[i] = "ran" <=> status[i] = "ran"
    BY <1>0, <2>1, <2>3, <2>4 DEF ClientOK
  <2> HIDE DEF c
  <2> QED
    BY <1>3, <2>2, <2>3, <2>5
<1>5. ASSUME NEW op \in {"play", "pause"}, SendRequest(op) PROVE PendingInv'
  <2> DEFINE c == [op |-> op, id |-> 0, time |-> clock]
  <2>1. c \in Commands /\ c.time = clock
    BY PendingBefore DEF Commands
  <2>2. /\ control' = Append(control, c)
        /\ UNCHANGED <<clock, pending, anchor, kept, status>>
    BY <1>5 DEF SendRequest, eventVars
  <2> HIDE DEF c
  <2> QED
    BY <1>3, <2>1, <2>2
<1>6. CASE DeviceStep \/ Answered \/ Stop \/ UNCHANGED vars
  <2>1. UNCHANGED <<clock, control, pending, anchor, kept, status>>
    BY <1>6 DEF DeviceStep, Press, Release, ReportFull, Unplug, Replug,
                CloseConnection, Reconnect, Answered, Stop, vars, eventVars
  <2> QED
    BY <1>1, <2>1
<1>7. CASE \/ Head_ \/ EndCommands \/ IdleDrain \/ Ahead \/ StartBlock
           \/ EndTake \/ Rebind(TRUE) \/ Rebind(FALSE)
  <2>1. UNCHANGED <<clock, control, pending, anchor, kept, status>>
    BY <1>7 DEF Head_, EndCommands, IdleDrain, Ahead, StartBlock, EndTake,
                Rebind, eventVars
  <2> QED
    BY <1>1, <2>1
<1>8. CASE Exit
  <2>1. /\ pending' = <<>> /\ anchor' = {} /\ UNCHANGED kept
        /\ status' = Settled({i \in 1 .. triggers : status[i] \in Open}, "answered")
    BY <1>8 DEF Exit
  <2>2. ASSUME NEW i \in TriggerIds PROVE status'[i] # "pending"
    <3>1. CASE i \in 1 .. triggers /\ status[i] \in Open
      BY <2>1, <3>1 DEF Settled
    <3>2. CASE status[i] \notin Open
      BY <2>1, <3>2 DEF Settled, Open
    <3>3. CASE i \notin 1 .. triggers
      <4>1. i > triggers
        BY <1>0, <3>3, RunEventsAssumption, CommandTypes, SMT DEF TriggerIds
      <4>2. status[i] = "unsent"
        BY <4>1, PendingBefore DEF ControlInv
      <4> QED
        BY <2>1, <3>3, <4>2 DEF Settled
    <3> QED
      BY <3>1, <3>2, <3>3
  <2> QED
    BY <2>1, <2>2, EventsCancelled
<1>9. CASE HandlePause \/ IdleReset
  <2>1. /\ pending' = <<>> /\ anchor' = {} /\ UNCHANGED kept
        /\ status' = Settled(PendingIds, "answered")
    BY <1>9 DEF HandlePause, IdleReset, CancelPending
  <2>2. \A i \in TriggerIds : status'[i] # "pending"
    BY <2>1, PendingBefore DEF Settled
  <2> QED
    BY <2>1, <2>2, EventsCancelled
<1>10. CASE HandlePlay(TRUE) \/ HandlePlay(FALSE)
  BY <1>10, EventsOfPlay DEF HandlePlay
<1>11. CASE HandleTriggerNow
  <2> DEFINE c == Head(control)
  <2>1. /\ control # <<>> /\ control' = Tail(control) /\ c.op = "trigger"
        /\ UNCHANGED <<clock, pending, anchor, kept>>
        /\ status' = [status EXCEPT ![c.id] =
                         IF playing THEN "instant" ELSE "ran"]
    BY <1>11, Zenon DEF HandleTriggerNow, Receive, eventVars
  <2>2. c = control[1] /\ 1 \in DOMAIN control
    BY <1>0, <2>1, Shortened DEF ClientOK
  <2>3. c.id \in TriggerIds /\ c.id # 0
    <3>1. c \in Commands
      BY <1>0, <2>2, CommandTypes
    <3>2. c.id \in TriggerIds
      BY <2>1, <3>1 DEF Commands
    <3> HIDE DEF c
    <3> QED
      BY <3>2, RunEventsAssumption, SMT DEF TriggerIds
  <2>4. status[c.id] = "sent"
    BY <2>2, <2>3, PendingBefore DEF ControlInv
  <2> HIDE DEF c
  <2>5. Times' \in SUBSET Times
    BY <2>1, TimesAre
  <2>6. CASE playing
    <3>1. \A i \in TriggerIds :
                /\ status'[i] = "pending" <=> status[i] = "pending"
                /\ status'[i] = "ran" <=> status[i] = "ran"
      BY <1>0, <2>1, <2>3, <2>4, <2>6 DEF ClientOK
    <3> QED
      BY <1>0, <2>1, <2>5, <3>1, EventsStay
  <2>7. CASE ~playing
    <3>1. \A i \in TriggerIds : status'[i] = "pending" <=> status[i] = "pending"
      BY <1>0, <2>1, <2>3, <2>4, <2>7 DEF ClientOK
    <3>2. PendingIds \subseteq kept
      BY <2>7 DEF EventInv, IdleInv
    <3> QED
      BY <2>1, <2>5, <3>1, <3>2, EventsRunNow
  <2> QED
    BY <2>6, <2>7
<1>12. CASE TakeMessage
  <2> DEFINE m == Head(queue)
  <2>1. /\ queue # <<>> /\ UNCHANGED <<clock, control, status, kept>>
        /\ \/ UNCHANGED <<anchor, pending>>
           \/ /\ ~FullOfEvents
              /\ anchor' = AnchorFor(m.time, anchor)
              /\ pending' = Scheduled(pending, FrameAt(m.time, anchor),
                              <<[frame |-> FrameAt(m.time, anchor),
                                 name |-> m.name, key |-> m.key, id |-> 0]>>)
    BY <1>12, Zenon DEF TakeMessage
  <2>2. m \in Messages
    BY <2>1, Shortened DEF EventInv, TypeOK, DeviceOK
  <2> HIDE DEF m
  <2>3. CASE UNCHANGED <<anchor, pending>>
    BY <1>1, <2>1, <2>3
  <2>4. CASE /\ ~FullOfEvents
             /\ anchor' = AnchorFor(m.time, anchor)
             /\ pending' = Scheduled(pending, FrameAt(m.time, anchor),
                              <<[frame |-> FrameAt(m.time, anchor),
                                 name |-> m.name, key |-> m.key, id |-> 0]>>)
    BY <2>1, <2>2, <2>4, EventsOfMessage
  <2> QED
    BY <2>1, <2>3, <2>4
<1> QED
  BY <1>2, <1>4, <1>5, <1>6, <1>7, <1>8, <1>9, <1>10, <1>11, <1>12,
     EventsOfTrigger, EventsOfRecovery, EventsOfRendering, EventsOfFailure, Zenon
     DEF Next, ClientStep, RenderStep

\* What was pending when the playing stopped was reset, or is cancelled.
LEMMA IdleSteps ==
    ASSUME IdleInv, [Next]_vars
    PROVE  IdleInv'
<1> USE DEF IdleInv
<1>1. CASE Tick \/ DeviceStep \/ ClientStep \/ Stop \/ UNCHANGED vars
  <2>1. UNCHANGED <<rpc, playing, playRequested, pending, kept>>
    BY <1>1 DEF Tick, DeviceStep, Press, Release, ReportFull, Unplug, Replug,
                CloseConnection, Reconnect, ClientStep, SendTrigger,
                SendRequest, Answered, Stop, vars, playVars, eventVars
  <2> QED
    BY <2>1 DEF PendingIds
<1>2. CASE Exit \/ IdleReset \/ HandlePause
  <2>1. /\ pending' = <<>> /\ rpc' \in {"exited", "head", rpc}
        /\ playing' => playing /\ UNCHANGED playRequested
    BY <1>2 DEF Exit, IdleReset, HandlePause, CancelPending, playVars
  <2>2. DOMAIN <<>> = {}
    BY SMT
  <2>3. PendingIds' = {}
    BY <2>1, <2>2 DEF PendingIds
  <2>4. rpc' = rpc => ~(rpc \in {"ahead", "recover", "take", "block"})
    BY <1>2 DEF Exit, IdleReset, HandlePause, Receive
  <2> QED
    BY <2>1, <2>3, <2>4
<1>3. CASE HandlePlay(TRUE) \/ HandlePlay(FALSE)
  <2>1. /\ UNCHANGED <<pending, rpc>> /\ playRequested' = TRUE
        /\ rpc = "commands" /\ PendingIds \subseteq kept'
    BY <1>3 DEF HandlePlay, Receive, ResetTimeline, PendingIds
  <2> QED
    BY <2>1 DEF PendingIds
<1>4. CASE Rebind(TRUE) \/ Rebind(FALSE)
  <2>1. /\ UNCHANGED <<pending, kept, rpc, playRequested>> /\ rpc = "commands"
        /\ playing' \in {playing, playRequested}
    BY <1>4 DEF Rebind, eventVars
  <2> QED
    BY <2>1 DEF PendingIds
<1>5. CASE Head_ \/ HandleTriggerNow \/ EndCommands \/ IdleDrain
  <2>1. /\ UNCHANGED <<pending, kept, playing, playRequested>>
        /\ rpc' = "ahead" => playing
        /\ rpc' \notin {"recover", "take", "block"}
    BY <1>5 DEF Head_, HandleTriggerNow, EndCommands, IdleDrain, playVars,
                eventVars, Receive
  <2> QED
    BY <2>1 DEF PendingIds
<1>6. CASE \/ HandleTimedTrigger \/ Ahead \/ StartBlock \/ Recover
           \/ TakeMessage \/ EndTake \/ RenderBlock \/ BlockFails
  <2>1. UNCHANGED <<playing, playRequested>>
    BY <1>6 DEF HandleTimedTrigger, Ahead, StartBlock, Recover, TakeMessage,
                EndTake, RenderBlock, BlockFails, playVars
  <2>2. playing
    BY <1>6 DEF HandleTimedTrigger, Ahead, StartBlock, Recover, TakeMessage,
                EndTake, RenderBlock, BlockFails
  <2> QED
    BY <2>1, <2>2
<1> QED
  BY <1>1, <1>2, <1>3, <1>4, <1>5, <1>6, Zenon DEF Next, RenderStep

\* The invariant, for every step.
LEMMA EventSteps == EventInv /\ [Next]_vars => EventInv'
<1> SUFFICES ASSUME EventInv, [Next]_vars PROVE EventInv'
  OBVIOUS
<1>1. PendingInv' /\ ControlInv'
  BY PendingSteps, ControlSteps
<1>2. /\ pending' \in Seq(Events) /\ anchor' \in Anchors
      /\ PlaceInv' /\ OrderInv'
  BY <1>1 DEF PendingInv
<1>3. DeviceOK' /\ ClientOK' /\ RenderOK'
  BY <1>2, DeviceTypes, ClientTypes, RenderTypes DEF EventInv
<1>4. IdleInv'
  BY IdleSteps DEF EventInv
<1> QED
  BY <1>1, <1>2, <1>3, <1>4 DEF EventInv, TypeOK
-----------------------------------------------------------------------------
(***************************************************************************)
(* The queue of the device, the commands of the client and the state of    *)
(* the render thread have their types; the queue never holds more than     *)
(* MIDI_INPUT_CAPACITY messages, and frames that are kept relative to      *)
(* rendered_frame are never negative.                                      *)
(***************************************************************************)
THEOREM TypeCorrect == Spec => []TypeOK
<1>1. EventInv => TypeOK
  BY DEF EventInv
<1> QED
  BY <1>1, EventInit, EventSteps, PTL DEF Spec

(***************************************************************************)
(* However commands, recoveries, cancellations and blocks alternate, an    *)
(* event of a client is in pending_run_events once, and only as long as    *)
(* nothing was answered, and the vector never outgrows its allocation:     *)
(* what clients and the device may fill leaves room for releasing every    *)
(* note.                                                                   *)
(***************************************************************************)
THEOREM PendingEventsStayOpen == Spec => []PendingEventsAreOpen
<1>1. EventInv => PendingEventsAreOpen
  BY DEF EventInv, PlaceInv, UniqueIds, PendingEventsAreOpen
<1> QED
  BY <1>1, EventInit, EventSteps, PTL DEF Spec

(***************************************************************************)
(* Whatever time stamps the device sends and wherever frame_at puts the    *)
(* anchor for them, clients' events with a MIDI name run in the order they *)
(* were sent, unless the timeline was reset in between; and what is        *)
(* pending is in the order of frames.  Nothing is said of other events:    *)
(* those run at once, ahead of what is pending.                            *)
(***************************************************************************)
THEOREM TriggersStayInOrder == Spec => []TriggersRunInOrder
<1>1. EventInv => TriggersRunInOrder
  <2> SUFFICES ASSUME EventInv PROVE TriggersRunInOrder
    OBVIOUS
  <2>1. \A i \in 1 .. Len(pending) - 1 :
           pending[i].frame <= pending[i + 1].frame
    <3> SUFFICES ASSUME NEW i \in 1 .. Len(pending) - 1
                 PROVE  pending[i].frame <= pending[i + 1].frame
      OBVIOUS
    <3>1. i \in DOMAIN pending /\ i + 1 \in DOMAIN pending /\ i < i + 1
      BY PendingBefore, SMT
    <3> QED
      BY <3>1, PendingBefore DEF Sorted
  <2>2. \A i, j \in TriggerIds :
           i < j /\ status[j] = "ran" /\ status[i] = "pending" => i \in kept
    BY DEF EventInv, OrderInv
  <2>3. \A p, q \in DOMAIN pending :
           p < q /\ pending[q].id # 0 /\ pending[q].id < pending[p].id
               => pending[q].id \in kept
    BY DEF EventInv, OrderInv, InOrder
  <2> QED
    BY <2>1, <2>2, <2>3 DEF TriggersRunInOrder
<1> QED
  BY <1>1, EventInit, EventSteps, PTL DEF Spec

=============================================================================
