------------------------ MODULE EloquenceHost_proofs ------------------------
(***************************************************************************)
(* Theorems about EloquenceHost for every capacity, every bound, every     *)
(* client and every answer of ECI.                                         *)
(***************************************************************************)
EXTENDS EloquenceHost, SequenceTheorems, WellFoundedInduction, TLAPS

-----------------------------------------------------------------------------
(* The values the host builds have the types of its variables.             *)

\* A nonempty set of numbers has a least one.
LEMMA LeastNumber ==
  ASSUME NEW T \in SUBSET Nat, T # {}
  PROVE  \E x \in T : \A y \in T : x <= y
  <1> DEFINE R == OpToRel(<, Nat)
  <1>1. IsWellFoundedOn(R, Nat)
    BY NatLessThanWellFounded
  <1> HIDE DEF R
  <1>2. \E x \in T : \A y \in T : ~(<< y, x >> \in R)
    BY <1>1, WFMin, Zenon
  <1>3. \A x, y \in Nat : y < x => << y, x >> \in R
    BY DEF R, OpToRel
  <1>4. PICK x \in T : \A y \in T : ~(<< y, x >> \in R)
    BY <1>2
  <1>5. \A y \in T : ~(y < x)
    BY <1>3, <1>4
  <1> QED
    BY <1>5

\* Taking the head off a nonempty channel leaves a channel of the same items.
LEMMA HeadAndTail ==
  ASSUME NEW S, NEW s \in Seq(S), s # << >>
  PROVE  Head(s) \in S /\ Tail(s) \in Seq(S)
  OBVIOUS

\* The command a client sends is a command.
LEMMA CommandType ==
  ASSUME NEW kind \in CommandKinds, NEW id \in Nat, NEW arg \in Nat
  PROVE  Command(kind, id, arg) \in Commands
  BY DEF Command, Commands

\* Each engine event has the shape of one.
LEMMA EventType ==
  /\ \A g, n \in Nat : AudioEvent(g, n) \in EngineEvents
  /\ \A g, n \in Nat, recovered \in BOOLEAN :
       IndexEvent(g, n, recovered) \in EngineEvents
  /\ \A g \in Nat : DoneEvent(g) \in EngineEvents
  /\ \A g \in Nat : StoppedEvent(g) \in EngineEvents
  /\ CallbackErrorEvent \in EngineEvents
  BY DEF AudioEvent, IndexEvent, DoneEvent, StoppedEvent, CallbackErrorEvent,
         EngineEvents, NoGeneration

\* Putting an item behind a channel of such items.
LEMMA AppendType ==
  ASSUME NEW S, NEW s \in Seq(S), NEW e \in S
  PROVE  Append(s, e) \in Seq(S)
  OBVIOUS

\* The sequences of at most one item.
LEMMA ShortSequence ==
  ASSUME NEW S
  PROVE  << >> \in Seq(S) /\ \A e \in S : << e >> \in Seq(S)
  OBVIOUS

\* Putting at most one item before another.
LEMMA ShortConcat ==
  ASSUME NEW d, NEW e
  PROVE  << >> \o << d >> = << d >> /\ << e >> \o << d >> = << e, d >>
  <1> DEFINE S == {d, e}
  <1>1. << >> \in Seq(S) /\ << d >> \in Seq(S) /\ << e >> \in Seq(S) /\ << e, d >> \in Seq(S)
    OBVIOUS
  <1> HIDE DEF S
  <1>2. << >> \o << d >> = << d >>
    BY <1>1
  <1>3. << e >> \o << d >> = << e, d >>
    <2> DEFINE t == << e >> \o << d >>
    <2>1. t \in Seq(S) /\ Len(t) = 2 /\ t[1] = e /\ t[2] = d
      BY <1>1
    <2> HIDE DEF t
    <2>2. t = << t[1], t[2] >>
      BY <2>1
    <2> QED
      BY <2>1, <2>2 DEF t
  <1> QED
    BY <1>2, <1>3

\* What is left of a sequence is a sequence of the same items.
LEMMA DrainType ==
  ASSUME NEW S, NEW s \in Seq(S), NEW v
  PROVE  DrainThrough(s, v) \in Seq(S)
  <1> DEFINE hits == {k \in 1 .. Len(s) : s[k] = v}
             first == CHOOSE k \in hits : \A j \in hits : k <= j
  <1>1. CASE hits = {}
    BY <1>1 DEF DrainThrough
  <1>2. CASE hits # {}
    <2>1. DrainThrough(s, v) = SubSeq(s, first + 1, Len(s))
      BY <1>2 DEF DrainThrough
    <2>2. hits \in SUBSET Nat
      OBVIOUS
    <2> HIDE DEF hits
    <2>3. \E k \in hits : \A j \in hits : k <= j
      BY <1>2, <2>2, LeastNumber
    <2>4. first \in hits
      BY <2>3
    <2>5. first \in 1 .. Len(s)
      BY <2>4 DEF hits
    <2> HIDE DEF first
    <2>6. SubSeq(s, first + 1, Len(s)) \in Seq(S)
      BY <2>5
    <2> QED
      BY <2>1, <2>6
  <1> QED
    BY <1>1, <1>2

\* Every method of ProgressTracker leaves a tracker behind.
LEMMA TrackerType ==
  ASSUME NEW t \in Trackers, NEW n \in Nat
  PROVE  /\ BeginGeneration(n) \in Trackers
         /\ TrackIndex(t, n) \in Trackers
         /\ EngineIndex(t, n) \in Trackers
         /\ Complete(t) \in Trackers
         /\ StopTracker(t) \in Trackers
  <1> DEFINE Pending == Seq(Nat \ {FINAL_INDEX})
  <1>1. t.generation \in Nat /\ t.pending_indexes \in Pending /\ t.done \in BOOLEAN
    BY DEF Trackers
  <1>2. \A p \in Pending : [t EXCEPT !.pending_indexes = p] \in Trackers
    BY DEF Trackers
  <1>3. << >> \in Pending
    OBVIOUS
  <1>4. BeginGeneration(n) \in Trackers
    BY <1>3 DEF BeginGeneration, Trackers
  <1>5. TrackIndex(t, n) \in Trackers
    <2>1. CASE IsActive(t) /\ n # FINAL_INDEX
      <3>1. Append(t.pending_indexes, n) \in Pending
        BY <1>1, <2>1
      <3> QED
        BY <1>2, <2>1, <3>1 DEF TrackIndex
    <2> QED
      BY <2>1 DEF TrackIndex
  <1>6. EngineIndex(t, n) \in Trackers
    <2>1. DrainThrough(t.pending_indexes, n) \in Pending
      BY <1>1, DrainType
    <2> QED
      BY <1>2, <2>1 DEF EngineIndex
  <1>7. Complete(t) \in Trackers
    BY <1>1, <1>3 DEF Complete, Trackers
  <1>8. StopTracker(t) \in Trackers
    BY <1>3 DEF StopTracker, Trackers, NoGeneration
  <1> QED
    BY <1>4, <1>5, <1>6, <1>7, <1>8

\* Every method of ProgressTracker returns engine events.
LEMMA ReportType ==
  ASSUME NEW t \in Trackers, NEW n \in Nat
  PROVE  /\ EngineIndexEvents(t, n) \in Seq(EngineEvents)
         /\ CompletionEvents(t) \in Seq(EngineEvents)
         /\ StopEvents(t) \in Seq(EngineEvents)
  <1>1. t.generation \in Nat /\ t.pending_indexes \in Seq(Nat \ {FINAL_INDEX})
    BY DEF Trackers
  <1>2. EngineIndexEvents(t, n) \in Seq(EngineEvents)
    <2>1. IndexEvent(t.generation, n, FALSE) \in EngineEvents
      BY <1>1, EventType
    <2> QED
      BY <2>1, ShortSequence, Zenon DEF EngineIndexEvents
  <1>3. RecoveredIndex(t) \in Seq(EngineEvents)
    <2>1. CASE t.pending_indexes = << >>
      BY <2>1 DEF RecoveredIndex
    <2>2. CASE t.pending_indexes # << >>
      <3> DEFINE newest == t.pending_indexes[Len(t.pending_indexes)]
      <3>1. newest \in Nat
        BY <1>1, <2>2
      <3>2. IndexEvent(t.generation, newest, TRUE) \in EngineEvents
        BY <1>1, <3>1, EventType
      <3> QED
        BY <2>2, <3>2, ShortSequence, Zenon DEF RecoveredIndex
    <2> QED
      BY <2>1, <2>2
  <1>4. DoneEvent(t.generation) \in EngineEvents /\ StoppedEvent(t.generation) \in EngineEvents
    BY <1>1, EventType
  <1>5. CompletionEvents(t) \in Seq(EngineEvents)
    BY <1>3, <1>4 DEF CompletionEvents
  <1>6. StopEvents(t) \in Seq(EngineEvents)
    BY <1>4 DEF StopEvents
  <1> QED
    BY <1>2, <1>5, <1>6

-----------------------------------------------------------------------------
(* Type correctness.                                                       *)

\* A host with nothing under way is well typed, and so is one that starts.
LEMMA RestType ==
  ASSUME NEW last \in Commands, NEW state \in {"none", "live"}, NEW used \in Nat,
         HostAtRest(last, state, used)
  PROVE  TypeOK
  <1> USE DEF HostAtRest
  <1>1. /\ inputClosed \in BOOLEAN /\ abort \in BOOLEAN
        /\ cancellation_requested \in BOOLEAN /\ DefaultTracker.done \in BOOLEAN
    BY Zenon DEF DefaultTracker
  <1>2. ClientTypeOK
    BY <1>1 DEF ClientTypeOK
  <1>3. ReaderTypeOK
    BY DEF ReaderTypeOK, NoReply, Response, Responses, ResponseKinds
  <1>4. WorkerTypeOK
    BY <1>1 DEF WorkerTypeOK
  <1>5. EngineTypeOK
    BY <1>1 DEF EngineTypeOK, DefaultTracker, Trackers, NoGeneration, NoMessage,
           Message, Messages
  <1>6. ChannelTypeOK
    BY DEF ChannelTypeOK
  <1>7. HistoryTypeOK
    BY DEF HistoryTypeOK, NoGeneration, FINAL_INDEX
  <1> QED
    BY <1>2, <1>3, <1>4, <1>5, <1>6, <1>7 DEF TypeOK

LEMMA InitType == Init => TypeOK
  <1>1. NoItem \in Commands
    BY CommandType DEF NoItem, CommandKinds
  <1> QED
    BY <1>1, RestType DEF Init

\* The commands, responses and messages that wait have fields of their types.
LEMMA WaitingType ==
  ASSUME TypeOK
  PROVE  /\ \A c \in Commands : c.kind \in CommandKinds /\ c.id \in Nat /\ c.arg \in Nat
         /\ \A m \in Messages : m.value \in Nat
         /\ tracker \in Trackers /\ tracker.generation \in Nat
         /\ reply.id \in Nat /\ item.id \in Nat /\ callback.value \in Nat
         /\ stdin # << >> => Head(stdin) \in Commands /\ Tail(stdin) \in Seq(Commands)
         /\ work # << >> => Head(work) \in Commands /\ Tail(work) \in Seq(Commands)
         /\ outgoing # << >> =>
              Head(outgoing) \in EngineEvents /\ Tail(outgoing) \in Seq(EngineEvents)
         /\ eciSpeaking # << >> =>
              Head(eciSpeaking) \in Messages /\ Tail(eciSpeaking) \in Seq(Messages)
  <1>1. /\ \A c \in Commands : c.kind \in CommandKinds /\ c.id \in Nat /\ c.arg \in Nat
        /\ \A m \in Messages : m.value \in Nat
        /\ \A t \in Trackers : t.generation \in Nat
        /\ \A r \in Responses : r.id \in Nat
    BY DEF Commands, Messages, Trackers, Responses
  <1>2. /\ reply \in Responses /\ item \in Commands /\ callback \in Messages
        /\ tracker \in Trackers
        /\ stdin \in Seq(Commands) /\ work \in Seq(Commands)
        /\ outgoing \in Seq(EngineEvents) /\ eciSpeaking \in Seq(Messages)
    BY DEF TypeOK, ClientTypeOK, ReaderTypeOK, WorkerTypeOK, EngineTypeOK
  <1> QED
    BY <1>1, <1>2, HeadAndTail

\* Responses and events are frames, and a frame of a response kind has an id.
LEMMA FrameType ==
  /\ Responses \subseteq Frames /\ EngineEvents \subseteq Frames
  /\ \A f \in Frames : f.kind \in ResponseKinds => f.id \in Nat
  BY DEF Frames, Responses, ResponseKinds, EngineEvents

\* Every step of the host and of its client keeps the host well typed.
LEMMA StepType == TypeOK /\ [Next]_vars => TypeOK'
  <1> SUFFICES ASSUME TypeOK, [Next]_vars PROVE TypeOK'
    OBVIOUS
  <1> USE DEF TypeOK, ClientTypeOK, ReaderTypeOK, WorkerTypeOK, EngineTypeOK,
              ChannelTypeOK, HistoryTypeOK, clientVars, readerVars, workerVars,
              engineVars, eciVars, eventVars, outVars, historyVars
  <1>1. CASE ClientRequests
    <2>1. PICK kind \in CommandKinds, arg \in Nat : ClientSends(kind, arg)
      BY <1>1, ClientAssumption, IndexAssumption DEF ClientRequests, CommandKinds
    <2>2. Command(kind, requests + 1, arg) \in Commands
      BY CommandType
    <2> HIDE DEF Command
    <2> QED
      BY <2>1, <2>2 DEF ClientSends, ClientWrites
  <1>2. CASE ClientBegins
    <2>1. Command("BeginGeneration", 0, generations + 1) \in Commands
      BY CommandType DEF CommandKinds
    <2> QED
      BY <1>2, <2>1 DEF ClientBegins, ClientWrites
  <1>3. CASE ClientCloses
    BY <1>3 DEF ClientCloses
  <1>4. CASE ClientReads
    <2>1. ChannelTypeOK'
      BY <1>4, WaitingType DEF ClientReads, ReadsFrame
    <2>2. HistoryTypeOK'
      <3>1. Head(stdout) \in Frames /\ (Head(stdout).kind \in ResponseKinds => Head(stdout).id \in Nat)
        BY <1>4, FrameType DEF ClientReads, ReadsFrame
      <3>2. CASE (Head(stdout).kind \in ResponseKinds)
        BY <1>4, <3>2, <3>1 DEF ClientReads, ReadsFrame
      <3>3. CASE ~(Head(stdout).kind \in ResponseKinds)
        <4>1. Append(heard, Head(stdout)) \in Seq(Frames)
          BY <3>1, AppendType
        <4> QED
          BY <1>4, <3>3, <4>1 DEF ClientReads, ReadsFrame
      <3> QED
        BY <3>2, <3>3
    <2> QED
      BY <1>4, <2>1, <2>2 DEF ClientReads
  <1>5. CASE ReaderStop
    <2>1. ClientTypeOK'
      BY <1>5, WaitingType DEF ReaderStop, ReaderTakes
    <2>2. ReaderTypeOK'
      BY <1>5, WaitingType DEF ReaderStop, ReaderTakes, Response, Responses, ResponseKinds
    <2>3. EngineTypeOK'
      BY <1>5, WaitingType DEF ReaderStop, ReaderTakes
    <2>4. HistoryTypeOK'
      <3>1. Len(emitted) + InFlight \in Nat
        BY DEF InFlight
      <3>2. StopPoints \subseteq [gen : Nat, at : Nat]
        BY <3>1, WaitingType DEF StopPoints
      <3> QED
        BY <1>5, <3>2 DEF ReaderStop
    <2> QED
      BY <1>5, <2>1, <2>2, <2>3, <2>4 DEF ReaderStop
  <1>6. CASE ReaderLoadsHandle
    <2>1. ReaderTypeOK'
      BY <1>6, WaitingType DEF ReaderLoadsHandle, Response, Responses, ResponseKinds
    <2> QED
      BY <1>6, <2>1 DEF ReaderLoadsHandle
  <1>7. CASE ReaderCallsEciStop
    BY <1>7 DEF ReaderCallsEciStop
  <1>8. CASE ReaderReplies
    <2>1. ReaderTypeOK'
      BY <1>8, WaitingType DEF ReaderReplies, SendsOutbound
    <2>2. ChannelTypeOK'
      <3>1. reply \in Frames
        BY FrameType
      <3>2. outbound' \in Seq(Frames)
        <4>1. SendsOutbound(reply)
          BY <1>8 DEF ReaderReplies
        <4>2. CASE writer
          <5>1. Append(outbound, reply) \in Seq(Frames)
            BY <3>1, AppendType
          <5> QED
            BY <4>1, <4>2, <5>1, Zenon DEF SendsOutbound
        <4>3. CASE ~writer
          BY <4>1, <4>3 DEF SendsOutbound
        <4> QED
          BY <4>2, <4>3
      <3>3. UNCHANGED << eventVars, writer, stdout >>
        BY <1>8 DEF ReaderReplies
      <3> QED
        BY <3>2, <3>3
    <2> QED
      BY <1>8, <2>1, <2>2 DEF ReaderReplies
  <1>9. CASE ReaderRejects
    <2>1. ClientTypeOK'
      BY <1>9, WaitingType DEF ReaderRejects, ReaderTakes
    <2>2. ReaderTypeOK'
      BY <1>9, WaitingType DEF ReaderRejects, ReaderTakes, Response, Responses, ResponseKinds
    <2> QED
      BY <1>9, <2>1, <2>2 DEF ReaderRejects
  <1>10. CASE ReaderQueues
    BY <1>10 DEF ReaderQueues, ReaderTakes, AfterQueuing
  <1>11. CASE ReaderSeesEof
    BY <1>11 DEF ReaderSeesEof
  <1>12. CASE ReaderJoinsWorker
    BY <1>12 DEF ReaderJoinsWorker
  <1>13. CASE ReaderJoinsWriter
    BY <1>13 DEF ReaderJoinsWriter
  <1>14. CASE WorkerInitializes
    <2>1. WorkerTypeOK'
      BY <1>14, WaitingType, EciAssumption DEF WorkerInitializes, WorkerTakes, WorkerAnswers
    <2>2. EngineTypeOK'
      <3>1. DefaultTracker \in Trackers
        BY TrackerType, Zenon DEF DefaultTracker, BeginGeneration, NoGeneration
      <3> QED
        BY <1>14, <3>1, EciAssumption DEF WorkerInitializes
    <2> QED
      BY <1>14, <2>1, <2>2 DEF WorkerInitializes
  <1>15. CASE WorkerHasNoRuntime
    <2>1. WorkerTypeOK'
      BY <1>15, WaitingType DEF WorkerHasNoRuntime, WorkerTakes, WorkerAnswers
    <2> QED
      BY <1>15, <2>1 DEF WorkerHasNoRuntime
  <1>16. CASE WorkerBegins
    <2>1. WorkerTypeOK'
      BY <1>16, WaitingType DEF WorkerBegins, WorkerTakes, WorkerAnswers
    <2>2. EngineTypeOK'
      <3>1. BeginGeneration(Head(work).arg) \in Trackers
        BY <1>16, WaitingType, TrackerType DEF WorkerBegins, WorkerTakes
      <3> QED
        BY <1>16, <3>1 DEF WorkerBegins
    <2>3. HistoryTypeOK'
      <3>1. Head(work).arg \in Nat
        BY <1>16, WaitingType DEF WorkerBegins, WorkerTakes
      <3>2. [gen |-> Head(work).arg, index |-> FINAL_INDEX, lost |-> FALSE]
              \in [gen : Nat, index : Nat, lost : BOOLEAN]
        BY <3>1 DEF FINAL_INDEX
      <3> QED
        BY <1>16, <3>2, Zenon DEF WorkerBegins
    <2> QED
      BY <1>16, <2>1, <2>2, <2>3 DEF WorkerBegins
  <1>17. CASE WorkerHasNoGeneration
    <2>1. WorkerTypeOK'
      BY <1>17, WaitingType DEF WorkerHasNoGeneration, WorkerTakes, WorkerAnswers
    <2> QED
      BY <1>17, <2>1 DEF WorkerHasNoGeneration
  <1>18. CASE WorkerAddsText
    <2>1. WorkerTypeOK'
      BY <1>18, WaitingType, EciAssumption DEF WorkerAddsText, WorkerTakes, WorkerAnswers
    <2>2. EngineTypeOK'
      <3>1. Message("text", Head(work).arg) \in Messages
        BY <1>18, WaitingType DEF WorkerAddsText, WorkerTakes, Message, Messages
      <3> QED
        BY <1>18, <3>1 DEF WorkerAddsText
    <2> QED
      BY <1>18, <2>1, <2>2 DEF WorkerAddsText
  <1>19. CASE WorkerInsertsIndex
    <2>1. WorkerTypeOK'
      BY <1>19, WaitingType, EciAssumption DEF WorkerInsertsIndex, WorkerTakes, WorkerAnswers
    <2>2. EngineTypeOK'
      <3>1. /\ Message("index", Head(work).arg) \in Messages
            /\ TrackIndex(tracker, Head(work).arg) \in Trackers
        BY <1>19, WaitingType, TrackerType DEF WorkerInsertsIndex, WorkerTakes, Message, Messages
      <3>2. Append(eciInput, Message("index", Head(work).arg)) \in Seq(Messages)
        BY <3>1, AppendType
      <3>9. eciInput' \in Seq(Messages) /\ tracker' \in Trackers
        BY <1>19, <3>1, <3>2, Zenon DEF WorkerInsertsIndex, engineVars, eciVars, historyVars
      <3>3. UNCHANGED << engine, cancellation_requested, eciSpeaking, callback >>
        BY <1>19 DEF WorkerInsertsIndex
      <3> QED
        BY <3>9, <3>3
    <2>3. HistoryTypeOK'
      BY <1>19, WaitingType DEF WorkerInsertsIndex, WorkerTakes, WorkerAnswers
    <2> QED
      BY <1>19, <2>1, <2>2, <2>3 DEF WorkerInsertsIndex
  <1>20. CASE WorkerSetsVoiceParam
    BY <1>20 DEF WorkerSetsVoiceParam, WorkerTakes, WorkerAnswers
  <1>21. CASE WorkerSynthesizes
    <2>1. WorkerTypeOK'
      BY <1>21, WaitingType, EciAssumption DEF WorkerSynthesizes, WorkerTakes
    <2>2. EngineTypeOK'
      <3>1. PICK synthesized \in EciResults :
              IF synthesized
                THEN eciSpeaking' = eciInput /\ eciInput' = << >>
                ELSE UNCHANGED << eciInput, eciSpeaking >>
        BY <1>21 DEF WorkerSynthesizes
      <3>2. eciInput' \in Seq(Messages) /\ eciSpeaking' \in Seq(Messages)
        BY <3>1, ShortSequence, Zenon
      <3>3. UNCHANGED << engineVars, callback >>
        BY <1>21 DEF WorkerSynthesizes
      <3> QED
        BY <3>2, <3>3
    <2> QED
      BY <1>21, <2>1, <2>2 DEF WorkerSynthesizes
  <1>22. CASE WorkerDeletes
    BY <1>22 DEF WorkerDeletes, WorkerTakes, WorkerAnswers
  <1>23. CASE EciCallback
    <2>1. WorkerTypeOK'
      BY <1>23, WaitingType DEF EciCallback
    <2>2. EngineTypeOK'
      <3>1. Head(eciSpeaking) \in Messages /\ Tail(eciSpeaking) \in Seq(Messages)
        BY <1>23, WaitingType DEF EciCallback
      <3>8. CASE CallbackAborts
        BY <1>23, <3>8, <3>1 DEF EciCallback
      <3>9. CASE ~CallbackAborts
        BY <1>23, <3>9, <3>1 DEF EciCallback
      <3> QED
        BY <3>8, <3>9
    <2> QED
      BY <1>23, <2>1, <2>2 DEF EciCallback
  <1>24. CASE EciSwallowsIndexes
    BY <1>24 DEF EciSwallowsIndexes
  <1>25. CASE HandleAudioCallback
    <2>1. WorkerTypeOK'
      <3>1. AudioEvent(tracker.generation, callback.value) \in EngineEvents
        BY WaitingType, EventType
      <3> QED
        BY <1>25, <3>1, ShortSequence DEF HandleAudioCallback
    <2> QED
      BY <1>25, <2>1 DEF HandleAudioCallback
  <1>26. CASE HandleBadAudioCallback
    <2>1. WorkerTypeOK'
      BY <1>26, EventType, ShortSequence DEF HandleBadAudioCallback
    <2> QED
      BY <1>26, <2>1 DEF HandleBadAudioCallback
  <1>27. CASE HandleIndexCallback
    <2>1. WorkerTypeOK'
      <3>1. tracker \in Trackers /\ callback.value \in Nat
        BY WaitingType
      <3>2. /\ CompletionEvents(tracker) \in Seq(EngineEvents)
            /\ StopEvents(tracker) \in Seq(EngineEvents)
            /\ EngineIndexEvents(tracker, callback.value) \in Seq(EngineEvents)
        BY <3>1, ReportType
      <3> QED
        BY <1>27, <3>2 DEF HandleIndexCallback
    <2>2. EngineTypeOK'
      <3>1. tracker \in Trackers /\ callback.value \in Nat
        BY WaitingType
      <3>2. /\ Complete(tracker) \in Trackers /\ StopTracker(tracker) \in Trackers
            /\ EngineIndex(tracker, callback.value) \in Trackers
        BY <3>1, TrackerType
      <3> QED
        BY <1>27, <3>2 DEF HandleIndexCallback
    <2> QED
      BY <1>27, <2>1, <2>2 DEF HandleIndexCallback
  <1>28. CASE WorkerTriesSend
    <2>1. Head(outgoing) \in EngineEvents /\ Tail(outgoing) \in Seq(EngineEvents)
      BY <1>28, WaitingType DEF WorkerTriesSend
    <2>2. CASE Accepts
      <3>1. /\ events' = Append(events, Head(outgoing))
            /\ emitted' = emitted \/ emitted' = Append(emitted, Head(outgoing))
        BY <1>28, <2>2, Zenon DEF WorkerTriesSend
      <3>2. /\ Append(events, Head(outgoing)) \in Seq(EngineEvents)
            /\ Append(emitted, Head(outgoing)) \in Seq(EngineEvents)
        BY <2>1, AppendType
      <3>3. events' \in Seq(EngineEvents) /\ emitted' \in Seq(EngineEvents)
        BY <3>1, <3>2, Zenon
      <3>4. outgoing' = Tail(outgoing) /\ UNCHANGED << abort, latest >>
        BY <1>28, <2>2, Zenon DEF WorkerTriesSend
      <3>5. UNCHANGED << clientVars, readerVars, work, wpc, item, outcome, engineVars,
                         eciVars, forwarding, forwarder, outVars, heard, answered,
                         stopped >>
        BY <1>28 DEF WorkerTriesSend
      <3> QED
        BY <2>1, <3>3, <3>4, <3>5
    <2>3. CASE ~Accepts
      <3>1. latest' \in [gen : Nat, index : Nat, lost : BOOLEAN]
        BY <1>28, <2>3 DEF WorkerTriesSend
      <3> QED
        BY <1>28, <2>3, <3>1 DEF WorkerTriesSend
    <2> QED
      BY <2>2, <2>3
  <1>29. CASE CallbackReturns
    <2>1. WorkerTypeOK'
      BY <1>29, WaitingType DEF CallbackReturns
    <2>2. EngineTypeOK'
      <3>8. CASE abort
        BY <1>29, <3>8 DEF CallbackReturns
      <3>9. CASE ~abort
        BY <1>29, <3>9 DEF CallbackReturns
      <3> QED
        BY <3>8, <3>9
    <2> QED
      BY <1>29, <2>1, <2>2 DEF CallbackReturns
  <1>30. CASE EciSynchronized
    <2>1. WorkerTypeOK'
      BY <1>30, EciAssumption DEF EciSynchronized
    <2> QED
      BY <1>30, <2>1 DEF EciSynchronized
  <1>31. CASE WorkerFinishes
    <2>1. WorkerTypeOK'
      <3>1. tracker \in Trackers /\ callback.value \in Nat
        BY WaitingType
      <3>2. /\ CompletionEvents(tracker) \in Seq(EngineEvents)
            /\ StopEvents(tracker) \in Seq(EngineEvents)
            /\ EngineIndexEvents(tracker, callback.value) \in Seq(EngineEvents)
        BY <3>1, ReportType
      <3> QED
        BY <1>31, <3>2 DEF WorkerFinishes
    <2>2. EngineTypeOK'
      <3>1. tracker \in Trackers /\ callback.value \in Nat
        BY WaitingType
      <3>2. /\ Complete(tracker) \in Trackers /\ StopTracker(tracker) \in Trackers
            /\ EngineIndex(tracker, callback.value) \in Trackers
        BY <3>1, TrackerType
      <3> QED
        BY <1>31, <3>2 DEF WorkerFinishes
    <2> QED
      BY <1>31, <2>1, <2>2 DEF WorkerFinishes
  <1>32. CASE WorkerEndsSynthesis
    <2>1. WorkerTypeOK'
      BY <1>32, WaitingType DEF WorkerEndsSynthesis, WorkerAnswers
    <2> QED
      BY <1>32, <2>1 DEF WorkerEndsSynthesis
  <1>33. CASE WorkerResponds
    <2>1. WorkerTypeOK'
      BY <1>33, WaitingType DEF WorkerResponds, SendsOutbound
    <2>2. ChannelTypeOK'
      <3>1. Response(outcome, item.id) \in Frames
        BY WaitingType, FrameType DEF Response, Responses, ResponseKinds
      <3>2. outbound' \in Seq(Frames)
        <4>1. SendsOutbound(Response(outcome, item.id))
          BY <1>33 DEF WorkerResponds
        <4>2. CASE writer
          <5>1. Append(outbound, Response(outcome, item.id)) \in Seq(Frames)
            BY <3>1, AppendType
          <5> QED
            BY <4>1, <4>2, <5>1, Zenon DEF SendsOutbound
        <4>3. CASE ~writer
          BY <4>1, <4>3 DEF SendsOutbound
        <4> QED
          BY <4>2, <4>3
      <3>3. UNCHANGED << eventVars, writer, stdout >>
        BY <1>33 DEF WorkerResponds
      <3> QED
        BY <3>2, <3>3
    <2> QED
      BY <1>33, <2>1, <2>2 DEF WorkerResponds
  <1>34. CASE WorkerDisconnects
    BY <1>34 DEF WorkerDisconnects
  <1>35. CASE WorkerDropsEngine
    BY <1>35 DEF WorkerDropsEngine
  <1>36. CASE WorkerJoinsForwarder
    <2>1. WorkerTypeOK'
      BY <1>36, WaitingType DEF WorkerJoinsForwarder
    <2>2. ChannelTypeOK'
      BY <1>36, WaitingType DEF WorkerJoinsForwarder
    <2> QED
      BY <1>36, <2>1, <2>2 DEF WorkerJoinsForwarder
  <1>37. CASE ForwarderReceives
    BY <1>37 DEF ForwarderReceives
  <1>38. CASE ForwarderSends
    <2>1. ChannelTypeOK'
      BY <1>38, FrameType DEF ForwarderSends
    <2> QED
      BY <1>38, <2>1 DEF ForwarderSends
  <1>39. CASE ForwarderFails
    <2>1. ChannelTypeOK'
      <3>1. forwarder' \in BOOLEAN
        BY <1>39, Zenon DEF ForwarderFails
      <3> QED
        BY <1>39, <3>1, ShortSequence DEF ForwarderFails
    <2> QED
      BY <1>39, <2>1 DEF ForwarderFails
  <1>40. CASE WriterWrites
    <2>1. ChannelTypeOK'
      BY <1>40, WaitingType DEF WriterWrites
    <2> QED
      BY <1>40, <2>1 DEF WriterWrites
  <1>41. CASE WriterFails
    <2>1. ChannelTypeOK'
      <3>1. writer' \in BOOLEAN
        BY <1>41, Zenon DEF WriterFails
      <3> QED
        BY <1>41, <3>1, ShortSequence DEF WriterFails
    <2> QED
      BY <1>41, <2>1 DEF WriterFails
  <1>42. CASE UNCHANGED vars
    BY <1>42 DEF vars
  <1> QED
    BY <1>1, <1>2, <1>3, <1>4, <1>5, <1>6, <1>7, <1>8, <1>9, <1>10, <1>11, <1>12, <1>13, <1>14, <1>15, <1>16, <1>17, <1>18, <1>19, <1>20, <1>21, <1>22, <1>23, <1>24, <1>25, <1>26, <1>27, <1>28, <1>29, <1>30, <1>31, <1>32, <1>33, <1>34, <1>35, <1>36, <1>37, <1>38, <1>39, <1>40, <1>41, <1>42
       DEF Next, Host, Client, Reader, Worker, WorkerDispatches, Forwarder, Writer, Terminated

\* Every variable keeps its type, whatever the client sends and ECI answers.
THEOREM TypeCorrect == Spec => []TypeOK
  <1>1. Init => TypeOK
    BY InitType
  <1>2. TypeOK /\ [Next]_vars => TypeOK'
    BY StepType
  <1> QED
    BY <1>1, <1>2, PTL DEF Spec

-----------------------------------------------------------------------------
(* The worker holds on to the engine while the reader may still need it.   *)

\* A Delete is on its way to the worker only when the reader has left its loop.
DeleteEndsReading ==
  ~ReaderLeftLoop =>
     /\ item.kind # "Delete"
     /\ \A k \in 1 .. Len(work) : work[k].kind # "Delete"

LiveWorkerInv == ReaderUsesLiveWorker /\ DeleteEndsReading

\* Taking a command off the work channel leaves no Delete that was not there.
LEMMA TakesKeepDelete ==
  ASSUME TypeOK, DeleteEndsReading, NEW kinds, WorkerTakes(kinds), UNCHANGED rpc
  PROVE  DeleteEndsReading'
  <1>1. work \in Seq(Commands) /\ work # << >>
    BY DEF TypeOK, WorkerTypeOK, WorkerTakes
  <1>2. /\ Head(work) = work[1] /\ 1 \in 1 .. Len(work)
        /\ Len(Tail(work)) = Len(work) - 1
        /\ \A k \in 1 .. Len(Tail(work)) : Tail(work)[k] = work[k + 1] /\ k + 1 \in 1 .. Len(work)
    BY <1>1
  <1>3. work' = Tail(work) /\ item' = Head(work)
    BY DEF WorkerTakes
  <1>4. ReaderLeftLoop' = ReaderLeftLoop
    BY DEF ReaderLeftLoop
  <1> QED
    BY <1>2, <1>3, <1>4 DEF DeleteEndsReading

\* Only the dispatch of a command, its response and the end of the reader's
\* loop matter to who owns the engine.
LEMMA StepLiveWorker ==
  TypeOK /\ LiveWorkerInv /\ [Next]_vars => LiveWorkerInv'
  <1> SUFFICES ASSUME TypeOK, LiveWorkerInv, [Next]_vars PROVE LiveWorkerInv'
    OBVIOUS
  <1> USE DEF LiveWorkerInv, ReaderUsesLiveWorker, ReaderLeftLoop
  <1>1. CASE UNCHANGED << rpc, work, wpc, item, engine >>
    BY <1>1, Zenon DEF DeleteEndsReading
  <1>2. CASE ReaderQueues
    <2>1. /\ work \in Seq(Commands)
          /\ rpc = "read" /\ work' = Append(work, Head(stdin))
          /\ rpc' = IF Head(stdin).kind = "Delete" THEN "joinWorker" ELSE "read"
          /\ UNCHANGED << wpc, item, engine >>
      BY <1>2 DEF ReaderQueues, ReaderTakes, AfterQueuing, workerVars, engineVars,
                  TypeOK, WorkerTypeOK
    <2>2. /\ Len(work') = Len(work) + 1 /\ work'[Len(work')] = Head(stdin)
          /\ \A k \in 1 .. Len(work) : work'[k] = work[k]
      BY <2>1
    <2> QED
      BY <2>1, <2>2 DEF DeleteEndsReading
  <1>3. CASE /\ rpc \in {"read", "handle", "eciStop", "reply"} \/ rpc' \in {"joinWriter", "done"}
             /\ UNCHANGED << work, wpc, item, engine >>
             /\ ReaderLeftLoop => ReaderLeftLoop'
    BY <1>3 DEF DeleteEndsReading
  <1>4. CASE /\ \E kinds \in SUBSET CommandKinds : WorkerTakes(kinds)
             /\ wpc' \in {"respond", "synchronize", "finish"}
             /\ engine' \in {engine, "live"}
             /\ UNCHANGED rpc
    <2>1. DeleteEndsReading'
      BY <1>4, TakesKeepDelete
    <2> QED
      BY <1>4, <2>1
  <1>5. CASE /\ wpc' \in {"synchronize", "callback", "callbackSend", "finish",
                          "finalSend", "respond"}
             /\ UNCHANGED << rpc, work, item, engine >>
    BY <1>5 DEF DeleteEndsReading
  <1>6. CASE WorkerResponds
    BY <1>6 DEF WorkerResponds, readerVars, engineVars, DeleteEndsReading
  <1>7. CASE ReaderLeftLoop /\ UNCHANGED rpc
    BY <1>7 DEF DeleteEndsReading
  <1>8. CASE ClientRequests \/ ClientBegins \/ ClientReads \/ ClientCloses \/ Forwarder \/ Writer
             \/ Terminated
    BY <1>1, <1>8
       DEF ClientRequests, ClientSends, ClientBegins, ClientReads, ClientCloses, Forwarder,
           ForwarderReceives, ForwarderSends, ForwarderFails, Writer, WriterWrites,
           WriterFails, Terminated, vars, readerVars, workerVars, engineVars
  <1>9. CASE Reader
    BY <1>2, <1>3, <1>9
       DEF Reader, ReaderStop, ReaderTakes, ReaderLoadsHandle, ReaderCallsEciStop,
           ReaderReplies, ReaderRejects, ReaderSeesEof, ReaderJoinsWorker,
           ReaderJoinsWriter, workerVars, engineVars
  <1>10. CASE WorkerDispatches
    BY <1>4, <1>10
       DEF WorkerDispatches, WorkerInitializes, WorkerHasNoRuntime, WorkerBegins,
           WorkerHasNoGeneration, WorkerAddsText, WorkerInsertsIndex,
           WorkerSetsVoiceParam, WorkerSynthesizes, WorkerDeletes, WorkerAnswers,
           EngineCommands, CommandKinds, readerVars, engineVars
  <1>11. CASE Worker /\ ~WorkerDispatches
    BY <1>5, <1>6, <1>7, <1>11
       DEF Worker, EciCallback, EciSwallowsIndexes, HandleAudioCallback,
           HandleBadAudioCallback, HandleIndexCallback, WorkerTriesSend,
           CallbackReturns, EciSynchronized, WorkerFinishes, WorkerEndsSynthesis,
           WorkerAnswers, WorkerDisconnects, WorkerDropsEngine, WorkerJoinsForwarder,
           readerVars, workerVars, engineVars
  <1> QED
    BY <1>1, <1>8, <1>9, <1>10, <1>11
       DEF Next, Host, Client, vars, readerVars, workerVars, engineVars

\* While the reader can still queue a command or call eciStop, the engine is there.
THEOREM LiveWorker == Spec => []ReaderUsesLiveWorker
  <1>1. Init => LiveWorkerInv
    BY DEF Init, HostAtRest, LiveWorkerInv, ReaderUsesLiveWorker, DeleteEndsReading,
           NoItem, Command
  <1>2. TypeOK /\ LiveWorkerInv /\ [Next]_vars => LiveWorkerInv'
    BY StepLiveWorker
  <1>3. LiveWorkerInv => ReaderUsesLiveWorker
    BY DEF LiveWorkerInv
  <1> QED
    BY <1>1, <1>2, <1>3, TypeCorrect, PTL DEF Spec

-----------------------------------------------------------------------------
(* Every channel and pipe stays within its capacity.                       *)

\* How a step changes the length of a channel: it drops items or adds one.
LEMMA ChannelLengths ==
  ASSUME NEW S, NEW s \in Seq(S)
  PROVE  /\ Len(s) \in Nat /\ Len(<< >>) = 0
         /\ s # << >> => Len(Tail(s)) = Len(s) - 1
         /\ \A e : Len(<< e >>) = 1
         /\ \A e \in S : Len(Append(s, e)) = Len(s) + 1
  OBVIOUS

\* A call of the tracker returns two events at most.
LEMMA FewEvents ==
  ASSUME NEW t, NEW n
  PROVE  /\ Len(EngineIndexEvents(t, n)) <= 2
         /\ Len(CompletionEvents(t)) <= 2
         /\ Len(StopEvents(t)) <= 2
  <1> DEFINE i == IndexEvent(t.generation, t.pending_indexes[Len(t.pending_indexes)], TRUE)
             d == DoneEvent(t.generation)
  <1>1. RecoveredIndex(t) = << >> \/ RecoveredIndex(t) = << i >>
    BY DEF RecoveredIndex
  <1>2. CompletionEvents(t) = << >> \/ CompletionEvents(t) = RecoveredIndex(t) \o << d >>
    BY DEF CompletionEvents
  <1> HIDE DEF i, d
  <1>3. \/ CompletionEvents(t) = << >> \/ CompletionEvents(t) = << d >>
        \/ CompletionEvents(t) = << i, d >>
    BY <1>1, <1>2, ShortConcat
  <1>4. Len(CompletionEvents(t)) <= 2
    <2>1. Len(<< >>) = 0 /\ Len(<< d >>) = 1 /\ Len(<< i, d >>) = 2
      OBVIOUS
    <2> DEFINE n0 == Len(CompletionEvents(t))
    <2>2. n0 = 0 \/ n0 = 1 \/ n0 = 2
      BY <1>3, <2>1, Zenon
    <2> HIDE DEF n0
    <2>3. n0 <= 2
      BY <2>2
    <2> QED
      BY <2>3 DEF n0
  <1>5. Len(EngineIndexEvents(t, n)) <= 2 /\ Len(StopEvents(t)) <= 2
    BY DEF EngineIndexEvents, StopEvents
  <1> QED
    BY <1>4, <1>5

\* No step puts an item in a full channel or pipe.
LEMMA StepBounded ==
  TypeOK /\ QueuesBounded /\ [Next]_vars => QueuesBounded'
  <1> SUFFICES ASSUME TypeOK, QueuesBounded, [Next]_vars PROVE QueuesBounded'
    OBVIOUS
  <1>1. /\ WorkCapacity \in Nat \ {0} /\ EventCapacity \in Nat \ {0}
        /\ OutboundCapacity \in Nat \ {0} /\ PipeCapacity \in Nat \ {0}
    BY CapacityAssumption
  <1>2. /\ stdin \in Seq(Commands) /\ work \in Seq(Commands)
        /\ outgoing \in Seq(EngineEvents) /\ events \in Seq(EngineEvents)
        /\ forwarding \in Seq(EngineEvents)
        /\ outbound \in Seq(Frames) /\ stdout \in Seq(Frames)
    BY DEF TypeOK, ClientTypeOK, WorkerTypeOK, ChannelTypeOK
  <1>3. /\ Len(work) \in Nat /\ Len(events) \in Nat /\ Len(forwarding) \in Nat
        /\ Len(outbound) \in Nat /\ Len(stdout) \in Nat /\ Len(outgoing) \in Nat
        /\ Len(<< >>) = 0
        /\ work # << >> => Len(Tail(work)) = Len(work) - 1
        /\ events # << >> => Len(Tail(events)) = Len(events) - 1 /\ Len(<< Head(events) >>) = 1
        /\ outbound # << >> => Len(Tail(outbound)) = Len(outbound) - 1
        /\ stdout # << >> => Len(Tail(stdout)) = Len(stdout) - 1
        /\ outgoing # << >> => Len(Tail(outgoing)) = Len(outgoing) - 1
    BY <1>2, ChannelLengths
  <1>4. /\ stdin # << >> => Len(Append(work, Head(stdin))) = Len(work) + 1
        /\ outgoing # << >> => Len(Append(events, Head(outgoing))) = Len(events) + 1
        /\ outbound # << >> => Len(Append(stdout, Head(outbound))) = Len(stdout) + 1
        /\ \A f \in Frames : Len(Append(outbound, f)) = Len(outbound) + 1
    BY <1>2, HeadAndTail, ChannelLengths
  <1>5. ASSUME Len(work') <= Len(work) \/ Len(work') <= WorkCapacity,
               Len(events') <= Len(events) \/ Len(events') <= EventCapacity,
               Len(forwarding') <= Len(forwarding) \/ Len(forwarding') <= 1,
               Len(outbound') <= Len(outbound) \/ Len(outbound') <= OutboundCapacity,
               Len(stdout') <= Len(stdout) \/ Len(stdout') <= PipeCapacity,
               Len(outgoing') <= Len(outgoing) \/ Len(outgoing') <= 2,
               TypeOK'
        PROVE  QueuesBounded'
    <2>1. /\ Len(work') \in Nat /\ Len(events') \in Nat /\ Len(forwarding') \in Nat
          /\ Len(outbound') \in Nat /\ Len(stdout') \in Nat /\ Len(outgoing') \in Nat
      BY <1>5 DEF TypeOK, WorkerTypeOK, ChannelTypeOK
    <2> QED
      BY <1>1, <1>3, <1>5, <2>1 DEF QueuesBounded
  <1>6. TypeOK'
    BY StepType
  <1>7. \A frame \in Frames : SendsOutbound(frame) =>
          Len(outbound') = Len(outbound) \/ Len(outbound') <= OutboundCapacity
    BY <1>1, <1>3, <1>4 DEF SendsOutbound
  <1>8. CASE UNCHANGED << work, events, forwarding, outbound, stdout, outgoing >>
    BY <1>8 DEF QueuesBounded
  <1>9. CASE ClientReads
    BY <1>3, <1>5, <1>6, <1>9 DEF ClientReads, ReadsFrame, workerVars, eventVars
  <1>10. CASE ReaderQueues
    BY <1>1, <1>3, <1>4, <1>5, <1>6, <1>10
       DEF ReaderQueues, ReaderTakes, workerVars, eventVars, outVars
  <1>11. CASE ReaderReplies
    <2>1. reply \in Frames
      BY FrameType DEF TypeOK, ReaderTypeOK
    <2> QED
      BY <1>3, <1>5, <1>6, <1>7, <1>11, <2>1 DEF ReaderReplies, workerVars, eventVars
  <1>12. CASE WorkerDispatches
    <2>1. /\ work # << >> /\ work' = Tail(work)
          /\ UNCHANGED << events, forwarding, outbound, stdout, outgoing >>
      BY <1>12
         DEF WorkerDispatches, WorkerInitializes, WorkerHasNoRuntime, WorkerBegins,
             WorkerHasNoGeneration, WorkerAddsText, WorkerInsertsIndex,
             WorkerSetsVoiceParam, WorkerSynthesizes, WorkerDeletes, WorkerTakes,
             eventVars, outVars
    <2> QED
      BY <1>3, <1>5, <1>6, <2>1
  <1>13. CASE HandleAudioCallback \/ HandleBadAudioCallback
    <2>1. /\ Len(outgoing') <= 2
          /\ UNCHANGED << work, events, forwarding, outbound, stdout >>
      <3> DEFINE e == AudioEvent(tracker.generation, callback.value)
      <3>1. outgoing' = << >> \/ outgoing' = << e >> \/ outgoing' = << CallbackErrorEvent >>
        BY <1>13 DEF HandleAudioCallback, HandleBadAudioCallback
      <3> HIDE DEF e
      <3>2. Len(outgoing') <= 2
        BY <3>1
      <3>3. UNCHANGED << work, events, forwarding, outbound, stdout >>
        BY <1>13 DEF HandleAudioCallback, HandleBadAudioCallback, eventVars, outVars
      <3> QED
        BY <3>2, <3>3
    <2> QED
      BY <1>3, <1>5, <1>6, <2>1
  <1>14. CASE HandleIndexCallback \/ WorkerFinishes
    <2>1. /\ Len(outgoing') <= 2
          /\ UNCHANGED << work, events, forwarding, outbound, stdout >>
      BY <1>14, FewEvents DEF HandleIndexCallback, WorkerFinishes, eventVars, outVars
    <2> QED
      BY <1>3, <1>5, <1>6, <2>1
  <1>15. CASE WorkerTriesSend
    <2>1. UNCHANGED << work, forwarding, outbound, stdout >> /\ outgoing # << >>
      BY <1>15 DEF WorkerTriesSend, outVars
    <2>2. CASE Accepts
      <3>1. /\ events' = Append(events, Head(outgoing)) /\ outgoing' = Tail(outgoing)
            /\ Len(events) < EventCapacity
        BY <1>15, <2>2 DEF WorkerTriesSend, Accepts
      <3> QED
        BY <1>1, <1>3, <1>4, <1>5, <1>6, <2>1, <3>1
    <2>3. CASE ~Accepts
      <3>1. events' = events /\ outgoing' = << >>
        BY <1>15, <2>3 DEF WorkerTriesSend
      <3> QED
        BY <1>3, <1>5, <1>6, <2>1, <3>1
    <2> QED
      BY <2>2, <2>3
  <1>16. CASE WorkerResponds
    <2>1. Response(outcome, item.id) \in Frames
      BY WaitingType, FrameType DEF Response, Responses, ResponseKinds
    <2>2. SendsOutbound(Response(outcome, item.id))
      BY <1>16 DEF WorkerResponds
    <2>3. UNCHANGED << work, events, forwarding, stdout, outgoing >>
      BY <1>16 DEF WorkerResponds, eventVars
    <2> QED
      BY <1>3, <1>5, <1>6, <1>7, <2>1, <2>2, <2>3
  <1>17. CASE Forwarder
    <2>1. CASE ForwarderReceives \/ ForwarderFails
      <3>1. /\ \/ events' = << >> /\ forwarding' = << >>
               \/ events # << >> /\ events' = Tail(events) /\ forwarding' = << Head(events) >>
            /\ UNCHANGED << work, outbound, stdout, outgoing >>
        BY <2>1 DEF ForwarderReceives, ForwarderFails, workerVars, outVars
      <3>2. Len(events') <= Len(events) /\ Len(forwarding') <= 1
        <4>1. \/ Len(events') = 0 /\ Len(forwarding') = 0
              \/ Len(events') = Len(events) - 1 /\ Len(forwarding') = 1
          BY <1>3, <3>1, Zenon
        <4>2. Len(events) \in Nat
          BY <1>3
        <4> DEFINE was  == Len(events)
                   is   == Len(events')
                   held == Len(forwarding')
        <4>3. was \in Nat /\ (is = 0 \/ is = was - 1) /\ (held = 0 \/ held = 1)
          BY <4>1, <4>2
        <4> HIDE DEF was, is, held
        <4>4. is <= was /\ held <= 1
          BY <4>3
        <4> QED
          BY <4>4, Zenon DEF was, is, held
      <3> QED
        BY <1>3, <1>5, <1>6, <3>1, <3>2
    <2>2. CASE ForwarderSends
      <3>1. Head(forwarding) \in Frames
        BY <1>2, <2>2, HeadAndTail, FrameType DEF ForwarderSends
      <3> QED
        BY <1>1, <1>3, <1>4, <1>5, <1>6, <2>2, <3>1 DEF ForwarderSends, workerVars
    <2> QED
      BY <1>17, <2>1, <2>2 DEF Forwarder
  <1>18. CASE Writer
    BY <1>1, <1>3, <1>4, <1>5, <1>6, <1>18
       DEF Writer, WriterWrites, WriterFails, workerVars, eventVars
  <1>19. CASE ClientRequests \/ ClientBegins \/ ClientCloses \/ Terminated
                \/ ReaderStop \/ ReaderLoadsHandle \/ ReaderCallsEciStop \/ ReaderRejects
                \/ ReaderSeesEof \/ ReaderJoinsWorker \/ ReaderJoinsWriter
    BY <1>8, <1>19
       DEF ClientRequests, ClientSends, ClientBegins, ClientCloses, Terminated, vars,
           ReaderStop, ReaderLoadsHandle, ReaderCallsEciStop, ReaderRejects,
           ReaderSeesEof, ReaderJoinsWorker, ReaderJoinsWriter, workerVars, eventVars,
           outVars
  <1>20. CASE EciCallback \/ EciSwallowsIndexes \/ CallbackReturns \/ EciSynchronized
                \/ WorkerEndsSynthesis \/ WorkerDisconnects \/ WorkerDropsEngine
                \/ WorkerJoinsForwarder
    BY <1>8, <1>20
       DEF EciCallback, EciSwallowsIndexes, CallbackReturns, EciSynchronized,
           WorkerEndsSynthesis, WorkerDisconnects, WorkerDropsEngine,
           WorkerJoinsForwarder, workerVars, eventVars, outVars
  <1>21. CASE UNCHANGED vars
    BY <1>8, <1>21 DEF vars, workerVars, eventVars, outVars
  <1> QED
    BY <1>9, <1>10, <1>11, <1>12, <1>13, <1>14, <1>15, <1>16, <1>17, <1>18, <1>19,
       <1>20, <1>21
       DEF Next, Host, Client, Reader, Worker

\* Every channel and pipe stays within its capacity, however slow the client is.
LEMMA Bounded == Spec => []QueuesBounded
  <1>1. Init => QueuesBounded
    BY CapacityAssumption, ChannelLengths DEF Init, HostAtRest, QueuesBounded
  <1>2. TypeOK /\ QueuesBounded /\ [Next]_vars => QueuesBounded'
    BY StepBounded
  <1> QED
    BY <1>1, <1>2, TypeCorrect, PTL DEF Spec

-----------------------------------------------------------------------------
(* The progress reported is a generation stream.                           *)

\* The generations begun in s, one after the other, lie between two others.
Rising(s, low, high) ==
  /\ \A k \in 1 .. Len(s) :
       s[k].kind = "BeginGeneration" => low < s[k].arg /\ s[k].arg <= high
  /\ \A j, k \in 1 .. Len(s) :
       (j < k /\ s[j].kind = "BeginGeneration" /\ s[k].kind = "BeginGeneration")
         => s[j].arg < s[k].arg

\* Generations move up from stdin through the work channel to the worker, and
\* nothing the worker holds or has reported is newer than its last one.
GenerationsInOrder ==
  \E taken, queued \in 0 .. MaxGenerations :
    /\ taken <= queued /\ queued <= generations /\ generations <= MaxGenerations
    /\ Rising(work, taken, queued) /\ Rising(stdin, queued, generations)
    /\ tracker.generation <= taken /\ ReportedGeneration <= taken
    /\ latest.gen <= taken
    /\ \A k \in 1 .. Len(outgoing) : outgoing[k].gen <= taken

\* What the tracker may still report, the stream still allows.
TrackerInStep ==
  tracker.generation # NoGeneration =>
    /\ Stream!MayReport(tracker.generation, {"stopped"})
    /\ ~tracker.done => Stream!MayReport(tracker.generation, {"done", "stopped"})

\* An event in the worker's hands may be reported, and leaves the tracker in step.
Reportable(e) ==
  Stream!MayReport(e.gen, IF e.kind = "Stopped" THEN {"stopped"} ELSE {"done", "stopped"})

OutgoingInStep ==
  /\ outgoing # << >> => wpc \in {"callbackSend", "finalSend"}
  /\ Len(outgoing) <= 2
  /\ Len(outgoing) = 2 => outgoing[1].kind = "Index" /\ outgoing[2].kind = "Done"
  /\ \A k \in 1 .. Len(outgoing) : IsProgress(outgoing[k]) =>
       /\ outgoing[k].gen # NoGeneration
       /\ Reportable(outgoing[k])
       /\ IF outgoing[k].kind = "Stopped"
            THEN tracker.generation = NoGeneration
            ELSE outgoing[k].gen = tracker.generation
       /\ outgoing[k].kind = "Done" => tracker.done
       /\ outgoing[k].kind \in {"Audio", "Index"} => ~tracker.done \/ k < Len(outgoing)

StreamInv == GenerationsInOrder /\ TrackerInStep /\ OutgoingInStep

\* The argument of a queued command is a number.
LEMMA CommandArguments ==
  ASSUME NEW s \in Seq(Commands)
  PROVE  \A k \in 1 .. Len(s) : s[k].arg \in Nat
  <1>1. \A k \in 1 .. Len(s) : s[k] \in Commands
    OBVIOUS
  <1> QED
    BY <1>1 DEF Commands

\* Rising when the first command is taken.
LEMMA RisingTail ==
  ASSUME NEW s \in Seq(Commands), s # << >>, NEW low \in Nat, NEW high \in Nat,
         Rising(s, low, high)
  PROVE  /\ Rising(Tail(s), low, high)
         /\ Head(s).kind = "BeginGeneration" =>
              /\ low < Head(s).arg /\ Head(s).arg <= high
              /\ Rising(Tail(s), Head(s).arg, high)
  <1>1. /\ Head(s) = s[1] /\ 1 \in 1 .. Len(s)
        /\ \A k \in 1 .. Len(Tail(s)) :
             Tail(s)[k] = s[k + 1] /\ k + 1 \in 1 .. Len(s) /\ 1 < k + 1
        /\ \A j, k \in 1 .. Len(Tail(s)) : j < k => j + 1 < k + 1
    OBVIOUS
  <1>2. Rising(Tail(s), low, high)
    BY <1>1, Zenon DEF Rising
  <1>3. ASSUME Head(s).kind = "BeginGeneration"
        PROVE  /\ low < Head(s).arg /\ Head(s).arg <= high
               /\ Rising(Tail(s), Head(s).arg, high)
    BY <1>1, <1>3, Zenon DEF Rising
  <1> QED
    BY <1>2, <1>3

\* Rising when a command is put behind the others.
LEMMA RisingAppend ==
  ASSUME NEW s \in Seq(Commands), NEW c \in Commands,
         NEW low \in Nat, NEW high \in Nat, low <= high, Rising(s, low, high)
  PROVE  /\ c.kind # "BeginGeneration" => Rising(Append(s, c), low, high)
         /\ c.kind = "BeginGeneration" /\ high < c.arg => Rising(Append(s, c), low, c.arg)
  <1>1. /\ Len(Append(s, c)) = Len(s) + 1 /\ Append(s, c)[Len(s) + 1] = c
        /\ \A k \in 1 .. Len(s) : Append(s, c)[k] = s[k]
    OBVIOUS
  <1>2. /\ c.arg \in Nat
        /\ \A k \in 1 .. Len(s) : s[k].arg \in Nat
    BY CommandArguments DEF Commands
  <1>3. \A k \in 1 .. (Len(s) + 1) : k \in 1 .. Len(s) \/ k = Len(s) + 1
    OBVIOUS
  <1>4. \A j, k \in 1 .. (Len(s) + 1) : j < k => j \in 1 .. Len(s)
    OBVIOUS
  <1>5. ASSUME c.kind # "BeginGeneration"
        PROVE  Rising(Append(s, c), low, high)
    BY <1>1, <1>2, <1>3, <1>4, <1>5 DEF Rising
  <1>6. ASSUME c.kind = "BeginGeneration", high < c.arg
        PROVE  Rising(Append(s, c), low, c.arg)
    BY <1>1, <1>2, <1>3, <1>4, <1>6 DEF Rising
  <1> QED
    BY <1>5, <1>6

-----------------------------------------------------------------------------
\* What the stream has reported changes only with emitted.
LEMMA ReportUnchanged ==
  ASSUME UNCHANGED emitted
  PROVE  /\ UNCHANGED << ReportedGeneration, ReportedPhase >>
         /\ \A g, ended : Stream!MayReport(g, ended)' <=> Stream!MayReport(g, ended)
  BY DEF ReportedGeneration, ReportedPhase, NewestReport, Stream!MayReport

\* The types the proof of StreamInv relies on.
LEMMA StreamTypes ==
  ASSUME TypeOK
  PROVE  /\ MaxGenerations \in Nat /\ generations \in Nat
         /\ stdin \in Seq(Commands) /\ work \in Seq(Commands)
         /\ tracker \in Trackers /\ tracker.generation \in Nat
         /\ outgoing \in Seq(EngineEvents) /\ emitted \in Seq(EngineEvents)
         /\ \A k \in 1 .. Len(outgoing) : outgoing[k] \in EngineEvents /\ outgoing[k].gen \in Nat
         /\ ReportedGeneration \in Nat
  <1>1. /\ MaxGenerations \in Nat /\ generations \in Nat
        /\ stdin \in Seq(Commands) /\ work \in Seq(Commands)
        /\ tracker \in Trackers
        /\ outgoing \in Seq(EngineEvents) /\ emitted \in Seq(EngineEvents)
    BY BoundAssumption
       DEF TypeOK, ClientTypeOK, WorkerTypeOK, EngineTypeOK, HistoryTypeOK
  <1>2. \A e \in EngineEvents : e.gen \in Nat
    BY DEF EngineEvents
  <1>3. \A t \in Trackers : t.generation \in Nat
    BY DEF Trackers
  <1>4. \A k \in 1 .. Len(outgoing) : outgoing[k] \in EngineEvents
    BY <1>1
  <1>5. emitted # << >> => emitted[Len(emitted)] \in EngineEvents
    BY <1>1
  <1>6. ReportedGeneration \in Nat
    BY <1>2, <1>5 DEF ReportedGeneration, NewestReport
  <1> QED
    BY <1>1, <1>2, <1>3, <1>4, <1>6

\* A step that reports nothing is a stutter of the stream.
LEMMA SilentStep ==
  ASSUME UNCHANGED emitted
  PROVE  [Stream!Next]_(Stream!vars)
  BY ReportUnchanged DEF Stream!vars

\* The client's and the reader's steps move generations up without changing
\* their order.
LEMMA QueueSteps ==
  ASSUME TypeOK, StreamInv,
         ClientRequests \/ ClientBegins \/ (\E kinds : ReaderTakes(kinds) /\ UNCHANGED work)
           \/ ReaderQueues,
         UNCHANGED << tracker, outgoing, emitted, wpc, latest >>,
         UNCHANGED generations \/ ClientBegins
  PROVE  StreamInv'
  <1>1. PICK taken \in 0 .. MaxGenerations, queued \in 0 .. MaxGenerations :
          /\ taken <= queued /\ queued <= generations /\ generations <= MaxGenerations
          /\ Rising(work, taken, queued) /\ Rising(stdin, queued, generations)
          /\ tracker.generation <= taken /\ ReportedGeneration <= taken
          /\ latest.gen <= taken
          /\ \A k \in 1 .. Len(outgoing) : outgoing[k].gen <= taken
    BY DEF StreamInv, GenerationsInOrder
  <1>2. TrackerInStep' /\ OutgoingInStep'
    BY ReportUnchanged DEF StreamInv, TrackerInStep, OutgoingInStep, Reportable
  <1>3. /\ tracker'.generation <= taken /\ ReportedGeneration' <= taken
        /\ latest'.gen <= taken
        /\ \A k \in 1 .. Len(outgoing') : outgoing'[k].gen <= taken
    BY <1>1, ReportUnchanged
  <1>4. /\ taken \in Nat /\ queued \in Nat /\ generations \in Nat /\ MaxGenerations \in Nat
        /\ stdin \in Seq(Commands) /\ work \in Seq(Commands)
    BY <1>1, StreamTypes
  <1>5. CASE ClientRequests
    <2>1. PICK kind \in CommandKinds \ {"BeginGeneration"}, arg \in Nat :
            ClientSends(kind, arg)
      BY <1>4, <1>5, ClientAssumption, IndexAssumption DEF ClientRequests, CommandKinds
    <2> DEFINE c == Command(kind, requests + 1, arg)
    <2>2. c \in Commands /\ c.kind # "BeginGeneration"
      BY CommandType DEF Command, TypeOK, ClientTypeOK
    <2>3. stdin' = Append(stdin, c) /\ UNCHANGED << work, generations >>
      BY <1>4, <2>1, <2>2 DEF ClientSends, ClientWrites
    <2> HIDE DEF c
    <2>4. Rising(stdin', queued, generations)
      BY <1>1, <1>4, <2>2, <2>3, RisingAppend
    <2> QED
      BY <1>1, <1>2, <1>3, <2>3, <2>4 DEF StreamInv, GenerationsInOrder
  <1>6. CASE ClientBegins
    <2> DEFINE c == Command("BeginGeneration", 0, generations + 1)
    <2>1. c \in Commands /\ c.kind = "BeginGeneration" /\ c.arg = generations + 1
      BY <1>4, CommandType DEF Command, CommandKinds
    <2>2. /\ stdin' = Append(stdin, c) /\ UNCHANGED work
          /\ generations' = generations + 1 /\ generations < MaxGenerations
      BY <1>4, <1>6, <2>1 DEF ClientBegins, ClientWrites
    <2> HIDE DEF c
    <2>3. Rising(stdin', queued, generations')
      BY <1>1, <1>4, <2>1, <2>2, RisingAppend
    <2> QED
      BY <1>1, <1>2, <1>3, <1>4, <2>2, <2>3 DEF StreamInv, GenerationsInOrder
  <1>7. CASE (\E kinds : ReaderTakes(kinds) /\ UNCHANGED work) /\ UNCHANGED generations
    <2>1. stdin # << >> /\ stdin' = Tail(stdin) /\ UNCHANGED work
      BY <1>7 DEF ReaderTakes
    <2>2. Rising(stdin', queued, generations)
      BY <1>1, <1>4, <2>1, RisingTail
    <2> QED
      BY <1>1, <1>2, <1>3, <1>7, <2>1, <2>2 DEF StreamInv, GenerationsInOrder
  <1>8. CASE ReaderQueues
    <2> DEFINE c == Head(stdin)
    <2>1. /\ stdin # << >> /\ stdin' = Tail(stdin) /\ work' = Append(work, c)
          /\ UNCHANGED generations
      BY <1>8 DEF ReaderQueues, ReaderTakes
    <2>2. c \in Commands /\ c.arg \in Nat
      <3>1. c \in Commands
        BY <1>4, <2>1, HeadAndTail
      <3> HIDE DEF c
      <3> QED
        BY <3>1 DEF Commands
    <2> HIDE DEF c
    <2>3. /\ Rising(stdin', queued, generations)
          /\ c.kind = "BeginGeneration" =>
               queued < c.arg /\ c.arg <= generations /\ Rising(stdin', c.arg, generations)
      BY <1>1, <1>4, <2>1, RisingTail DEF c
    <2>4. CASE c.kind # "BeginGeneration"
      <3>1. Rising(work', taken, queued)
        BY <1>1, <1>4, <2>1, <2>2, <2>4, RisingAppend
      <3> QED
        BY <1>1, <1>2, <1>3, <2>1, <2>3, <3>1 DEF StreamInv, GenerationsInOrder
    <2>5. CASE c.kind = "BeginGeneration"
      <3>1. Rising(work', taken, c.arg)
        BY <1>1, <1>4, <2>1, <2>2, <2>3, <2>5, RisingAppend
      <3>2. c.arg \in 0 .. MaxGenerations /\ taken <= c.arg
        BY <1>1, <1>4, <2>2, <2>3, <2>5
      <3> QED
        BY <1>1, <1>2, <1>3, <2>1, <2>3, <2>5, <3>1, <3>2
           DEF StreamInv, GenerationsInOrder
    <2> QED
      BY <2>4, <2>5
  <1> QED
    BY <1>5, <1>6, <1>7, <1>8

\* What the worker may have in its hands once it has called the tracker.
LEMMA CompletionInStep ==
  ASSUME TypeOK, TrackerInStep,
         outgoing' = CompletionEvents(tracker), tracker' = Complete(tracker),
         wpc' \in {"callbackSend", "finalSend"}, UNCHANGED emitted
  PROVE  /\ TrackerInStep' /\ OutgoingInStep'
         /\ tracker'.generation = tracker.generation
         /\ \A k \in 1 .. Len(outgoing') : outgoing'[k].gen <= tracker.generation
  <1> DEFINE g == tracker.generation
  <1>1. g \in Nat /\ tracker \in Trackers
    BY StreamTypes
  <1>2. CASE ~IsActive(tracker)
    <2>1. outgoing' = << >> /\ tracker' = tracker
      BY <1>2 DEF CompletionEvents, Complete
    <2> QED
      BY <1>1, <2>1, ReportUnchanged DEF TrackerInStep, OutgoingInStep
  <1>3. CASE IsActive(tracker)
    <2>1. g # NoGeneration /\ ~tracker.done
      BY <1>1, <1>3 DEF IsActive, ActiveGeneration
    <2>2. Stream!MayReport(g, {"stopped"}) /\ Stream!MayReport(g, {"done", "stopped"})
      BY <2>1 DEF TrackerInStep
    <2>3. tracker'.generation = g /\ tracker'.done
      BY <1>1, <1>3 DEF Complete, Trackers
    <2>4. TrackerInStep'
      BY <2>2, <2>3, ReportUnchanged DEF TrackerInStep
    <2>5. PICK e : \/ outgoing' = << DoneEvent(g) >>
                   \/ outgoing' = << e, DoneEvent(g) >> /\ e.kind = "Index" /\ e.gen = g
      <3> DEFINE d == DoneEvent(g)
                 i == IndexEvent(g, tracker.pending_indexes[Len(tracker.pending_indexes)], TRUE)
      <3>1. outgoing' = RecoveredIndex(tracker) \o << d >>
        BY <1>3 DEF CompletionEvents
      <3>2. RecoveredIndex(tracker) = << >> \/ RecoveredIndex(tracker) = << i >>
        BY DEF RecoveredIndex
      <3>3. i.kind = "Index" /\ i.gen = g
        BY DEF IndexEvent
      <3> HIDE DEF d, i
      <3>4. << >> \o << d >> = << d >> /\ << i >> \o << d >> = << i, d >>
        BY ShortConcat
      <3> QED
        BY <3>1, <3>2, <3>3, <3>4 DEF d
    <2>6. DoneEvent(g).kind = "Done" /\ DoneEvent(g).gen = g
      BY DEF DoneEvent
    <2> HIDE DEF g
    <2>7. CASE outgoing' = << DoneEvent(g) >>
      BY <1>1, <2>1, <2>2, <2>3, <2>4, <2>6, <2>7, ReportUnchanged
         DEF OutgoingInStep, Reportable, g
    <2>8. CASE outgoing' = << e, DoneEvent(g) >> /\ e.kind = "Index" /\ e.gen = g
      <3>1. /\ Len(outgoing') = 2 /\ outgoing'[1] = e /\ outgoing'[2] = DoneEvent(g)
            /\ \A k \in 1 .. Len(outgoing') : k = 1 \/ k = 2
        BY <2>8
      <3> QED
        BY <1>1, <2>1, <2>2, <2>3, <2>4, <2>6, <2>8, <3>1, ReportUnchanged
           DEF OutgoingInStep, Reportable, g
    <2> QED
      BY <2>5, <2>7, <2>8
  <1> QED
    BY <1>2, <1>3

\* An event that leaves the tracker active: audio or an index.
LEMMA ProgressInStep ==
  ASSUME TypeOK, TrackerInStep, NEW e,
         e.kind \in {"Audio", "Index"}, e.gen = tracker.generation,
         IsActive(tracker), outgoing' = << e >>,
         tracker'.generation = tracker.generation, tracker'.done = tracker.done,
         wpc' = "callbackSend", UNCHANGED emitted
  PROVE  /\ TrackerInStep' /\ OutgoingInStep'
         /\ \A k \in 1 .. Len(outgoing') : outgoing'[k].gen <= tracker.generation
  <1>1. tracker.generation \in Nat
    BY StreamTypes
  <1>2. tracker.generation # NoGeneration /\ ~tracker.done
    BY <1>1 DEF IsActive, ActiveGeneration
  <1>3. Len(outgoing') = 1 /\ outgoing'[1] = e /\ \A k \in 1 .. Len(outgoing') : k = 1
    OBVIOUS
  <1>4. TrackerInStep'
    BY ReportUnchanged DEF TrackerInStep
  <1> QED
    BY <1>1, <1>2, <1>3, <1>4, ReportUnchanged
       DEF TrackerInStep, OutgoingInStep, Reportable

\* The worker's hands are empty, and the tracker is no further than it was.
LEMMA QuietInStep ==
  ASSUME TypeOK, TrackerInStep, outgoing' = << >>, UNCHANGED emitted,
         \/ tracker' = tracker
         \/ tracker'.generation = tracker.generation /\ tracker'.done = tracker.done
         \/ tracker'.generation = NoGeneration
  PROVE  /\ TrackerInStep' /\ OutgoingInStep'
         /\ \A k \in 1 .. Len(outgoing') : outgoing'[k].gen <= tracker.generation
  BY ReportUnchanged DEF TrackerInStep, OutgoingInStep

\* Stopped comes last, and takes the generation with it.
LEMMA StopInStep ==
  ASSUME TypeOK, TrackerInStep,
         outgoing' = StopEvents(tracker), tracker' = StopTracker(tracker),
         wpc' = "finalSend", UNCHANGED emitted
  PROVE  /\ TrackerInStep' /\ OutgoingInStep' /\ tracker'.generation <= tracker.generation
         /\ \A k \in 1 .. Len(outgoing') : outgoing'[k].gen <= tracker.generation
  <1>1. tracker.generation \in Nat
    BY StreamTypes
  <1>2. CASE tracker.generation = NoGeneration
    BY <1>1, <1>2, QuietInStep DEF StopEvents, StopTracker
  <1>3. CASE tracker.generation # NoGeneration
    <2> DEFINE e == StoppedEvent(tracker.generation)
    <2>1. /\ outgoing' = << e >> /\ tracker'.generation = NoGeneration
          /\ e.kind = "Stopped" /\ e.gen = tracker.generation
      BY <1>3 DEF StopEvents, StopTracker, StoppedEvent
    <2> HIDE DEF e
    <2>2. Len(outgoing') = 1 /\ outgoing'[1] = e /\ \A k \in 1 .. Len(outgoing') : k = 1
      BY <2>1
    <2>3. Stream!MayReport(tracker.generation, {"stopped"})
      BY <1>3 DEF TrackerInStep
    <2>4. TrackerInStep'
      BY <2>1 DEF TrackerInStep
    <2> QED
      BY <1>1, <1>3, <2>1, <2>2, <2>3, <2>4, ReportUnchanged
         DEF OutgoingInStep, Reportable, NoGeneration
  <1> QED
    BY <1>2, <1>3

\* The order of the generations survives a step of the worker that begins none.
LEMMA OrderKept ==
  ASSUME TypeOK, TypeOK', GenerationsInOrder,
         UNCHANGED << stdin, generations, emitted >>, latest'.gen = latest.gen,
         work' = work \/ (work # << >> /\ work' = Tail(work)),
         tracker'.generation <= tracker.generation,
         \A k \in 1 .. Len(outgoing') : outgoing'[k].gen <= tracker.generation
  PROVE  GenerationsInOrder'
  <1>1. PICK taken \in 0 .. MaxGenerations, queued \in 0 .. MaxGenerations :
          /\ taken <= queued /\ queued <= generations /\ generations <= MaxGenerations
          /\ Rising(work, taken, queued) /\ Rising(stdin, queued, generations)
          /\ tracker.generation <= taken /\ ReportedGeneration <= taken
          /\ latest.gen <= taken
    BY DEF GenerationsInOrder
  <1>2. /\ taken \in Nat /\ queued \in Nat /\ work \in Seq(Commands)
        /\ tracker.generation \in Nat /\ tracker'.generation \in Nat
        /\ \A k \in 1 .. Len(outgoing') : outgoing'[k].gen \in Nat
    <2>1. taken \in Nat /\ queued \in Nat /\ work \in Seq(Commands) /\ tracker.generation \in Nat
      BY <1>1, StreamTypes
    <2>2. tracker' \in Trackers /\ outgoing' \in Seq(EngineEvents)
      BY DEF TypeOK, EngineTypeOK, WorkerTypeOK
    <2>3. \A k \in 1 .. Len(outgoing') : outgoing'[k] \in EngineEvents
      BY <2>2
    <2> QED
      BY <2>1, <2>2, <2>3 DEF Trackers, EngineEvents
  <1>3. Rising(work', taken, queued)
    BY <1>1, <1>2, RisingTail
  <1>4. ReportedGeneration' = ReportedGeneration
    BY ReportUnchanged
  <1>5. \A k \in 1 .. Len(outgoing') : outgoing'[k].gen <= taken
    BY <1>1, <1>2
  <1>6. tracker'.generation <= taken
    BY <1>1, <1>2
  <1> QED
    BY <1>1, <1>3, <1>4, <1>5, <1>6 DEF GenerationsInOrder

\* A generation becomes the tracker's when the worker takes its BeginGeneration.
LEMMA BeginInStep ==
  ASSUME TypeOK, StreamInv, WorkerBegins
  PROVE  StreamInv'
  <1>1. PICK taken \in 0 .. MaxGenerations, queued \in 0 .. MaxGenerations :
          /\ taken <= queued /\ queued <= generations /\ generations <= MaxGenerations
          /\ Rising(work, taken, queued) /\ Rising(stdin, queued, generations)
          /\ tracker.generation <= taken /\ ReportedGeneration <= taken
          /\ latest.gen <= taken
    BY DEF StreamInv, GenerationsInOrder
  <1> DEFINE g == Head(work).arg
  <1>2. /\ work # << >> /\ Head(work).kind = "BeginGeneration" /\ wpc = "recv"
        /\ work' = Tail(work) /\ tracker' = BeginGeneration(g) /\ latest'.gen = g
        /\ UNCHANGED << stdin, generations, outgoing, emitted >>
    BY DEF WorkerBegins, WorkerTakes, clientVars, eventVars
  <1>3. /\ taken \in Nat /\ queued \in Nat /\ work \in Seq(Commands)
        /\ ReportedGeneration \in Nat /\ MaxGenerations \in Nat /\ generations \in Nat
    BY <1>1, StreamTypes
  <1>4. g \in Nat
    <2>1. Head(work) \in Commands
      BY <1>2, <1>3, HeadAndTail
    <2> QED
      BY <2>1 DEF Commands
  <1> HIDE DEF g
  <1>5. taken < g /\ g <= queued /\ Rising(work', g, queued)
    BY <1>1, <1>2, <1>3, RisingTail DEF g
  <1>6. tracker'.generation = g /\ ~tracker'.done
    BY <1>2 DEF BeginGeneration
  <1>7. outgoing' = << >> /\ Len(outgoing') = 0
    BY <1>2 DEF StreamInv, OutgoingInStep
  <1>8. ReportedGeneration' = ReportedGeneration
    BY <1>2, ReportUnchanged
  <1>9. GenerationsInOrder'
    <2>1. g \in 0 .. MaxGenerations /\ ReportedGeneration <= g
      BY <1>1, <1>3, <1>4, <1>5
    <2> QED
      BY <1>1, <1>2, <1>5, <1>6, <1>7, <1>8, <2>1 DEF GenerationsInOrder
  <1>10. TrackerInStep'
    <2>1. g > ReportedGeneration'
      BY <1>1, <1>3, <1>4, <1>5, <1>8
    <2> QED
      BY <1>6, <2>1 DEF TrackerInStep, Stream!MayReport
  <1>11. OutgoingInStep'
    BY <1>7 DEF OutgoingInStep
  <1> QED
    BY <1>9, <1>10, <1>11 DEF StreamInv

\* The only step that reports: what it reports, the stream allows.
LEMMA SendInStep ==
  ASSUME TypeOK, TypeOK', StreamInv, WorkerTriesSend
  PROVE  StreamInv' /\ [Stream!Next]_(Stream!vars)
  <1> DEFINE e == Head(outgoing)
  <1>1. /\ outgoing \in Seq(EngineEvents) /\ outgoing # << >> /\ e = outgoing[1]
        /\ Len(outgoing) \in 1 .. 2 /\ Len(Tail(outgoing)) = Len(outgoing) - 1
        /\ \A k \in 1 .. Len(Tail(outgoing)) : k = 1 /\ Tail(outgoing)[k] = outgoing[2]
    <2>1. outgoing \in Seq(EngineEvents) /\ outgoing # << >> /\ Len(outgoing) <= 2
      BY StreamTypes DEF WorkerTriesSend, StreamInv, OutgoingInStep
    <2>2. e = outgoing[1]
      BY <2>1
    <2>3. Len(outgoing) \in 1 .. 2 /\ Len(Tail(outgoing)) = Len(outgoing) - 1
      <3>1. Len(outgoing) \in Nat /\ Len(outgoing) # 0
        BY <2>1
      <3>2. Len(Tail(outgoing)) = Len(outgoing) - 1
        BY <2>1
      <3> QED
        BY <2>1, <3>1, <3>2
    <2>4. \A k \in 1 .. Len(Tail(outgoing)) : k = 1 /\ Tail(outgoing)[k] = outgoing[2]
      BY <2>1, <2>3
    <2> QED
      BY <2>1, <2>2, <2>3, <2>4
  <1>2. UNCHANGED << stdin, generations, work, tracker, wpc >> /\ latest'.gen = latest.gen
    <2>1. latest \in [gen : Nat, index : Nat, lost : BOOLEAN]
      BY DEF TypeOK, HistoryTypeOK
    <2> QED
      BY <2>1 DEF WorkerTriesSend, clientVars, engineVars
  <1> HIDE DEF e
  <1>3. CASE outgoing' = << >> /\ UNCHANGED emitted
    <2>1. /\ TrackerInStep' /\ OutgoingInStep'
          /\ \A k \in 1 .. Len(outgoing') : outgoing'[k].gen <= tracker.generation
      BY <1>2, <1>3, QuietInStep DEF StreamInv
    <2>2. tracker'.generation <= tracker.generation
      BY <1>2, StreamTypes
    <2>3. GenerationsInOrder'
      BY <1>2, <1>3, <2>1, <2>2, OrderKept DEF StreamInv
    <2> QED
      BY <1>3, <2>1, <2>3, SilentStep DEF StreamInv
  <1>4. CASE IsProgress(e) /\ emitted' = Append(emitted, e) /\ outgoing' = Tail(outgoing)
    <2>1. /\ e \in EngineEvents /\ e.gen \in Nat /\ tracker.generation \in Nat
          /\ emitted \in Seq(EngineEvents) /\ MaxGenerations \in Nat
      BY <1>1, StreamTypes
    <2>2. emitted' # << >> /\ NewestReport' = e /\ Len(emitted)' = Len(emitted) + 1
      BY <1>4, <2>1 DEF NewestReport
    <2>3. /\ ReportedGeneration' = e.gen
          /\ ReportedPhase' = IF e.kind = "Stopped" THEN "stopped"
                              ELSE IF e.kind = "Done" THEN "done" ELSE "open"
      BY <2>2 DEF ReportedGeneration, ReportedPhase
    <2>4. /\ e.gen # NoGeneration /\ Reportable(e)
          /\ IF e.kind = "Stopped" THEN tracker.generation = NoGeneration
                                   ELSE e.gen = tracker.generation
          /\ e.kind = "Done" => tracker.done
      BY <1>1, <1>4 DEF StreamInv, OutgoingInStep
    <2>5. PICK taken \in 0 .. MaxGenerations, queued \in 0 .. MaxGenerations :
            /\ taken <= queued /\ queued <= generations /\ generations <= MaxGenerations
            /\ Rising(work, taken, queued) /\ Rising(stdin, queued, generations)
            /\ tracker.generation <= taken /\ ReportedGeneration <= taken
            /\ latest.gen <= taken
            /\ \A k \in 1 .. Len(outgoing) : outgoing[k].gen <= taken
      BY DEF StreamInv, GenerationsInOrder
    <2>6. e.gen \in 1 .. MaxGenerations
      BY <1>1, <2>1, <2>4, <2>5 DEF NoGeneration
    <2>7. Stream!Next
      <3>1. CASE e.kind = "Stopped"
        <4>1. Stream!Halt(e.gen)
          BY <2>2, <2>3, <2>4, <3>1 DEF Stream!Halt, Reportable
        <4> QED
          BY <2>6, <4>1 DEF Stream!Next
      <3>2. CASE e.kind = "Done"
        <4>1. Stream!Finish(e.gen)
          BY <2>2, <2>3, <2>4, <3>2 DEF Stream!Finish, Reportable
        <4> QED
          BY <2>6, <4>1 DEF Stream!Next
      <3>3. CASE e.kind \notin {"Stopped", "Done"}
        <4>1. Stream!Progress(e.gen)
          BY <2>2, <2>3, <2>4, <3>3 DEF Stream!Progress, Reportable
        <4> QED
          BY <2>6, <4>1 DEF Stream!Next
      <3> QED
        BY <3>1, <3>2, <3>3
    <2>8. TrackerInStep'
      BY <1>2, <2>1, <2>3, <2>4 DEF TrackerInStep, Stream!MayReport
    <2>9. OutgoingInStep'
      <3>1. CASE Len(outgoing) = 1
        <4>1. outgoing' = << >> /\ Len(outgoing') = 0
          BY <1>1, <1>4, <3>1
        <4> QED
          BY <4>1 DEF OutgoingInStep
      <3>2. CASE Len(outgoing) = 2
        <4>1. /\ Len(outgoing') = 1
              /\ \A k \in 1 .. Len(outgoing') : k = 1 /\ outgoing'[k] = outgoing[2]
          BY <1>1, <1>4, <3>2
        <4>2. e.kind = "Index" /\ outgoing[2].kind = "Done" /\ IsProgress(outgoing[2])
          BY <1>1, <3>2 DEF StreamInv, OutgoingInStep, IsProgress, ProgressKinds
        <4>3. /\ outgoing[2].gen # NoGeneration /\ outgoing[2].gen = tracker.generation
              /\ tracker.done
          BY <1>1, <3>2, <4>2 DEF StreamInv, OutgoingInStep
        <4>4. Stream!MayReport(tracker.generation, {"done", "stopped"})'
          BY <1>2, <2>3, <2>4, <4>2, <4>3 DEF Stream!MayReport
        <4>5. wpc' \in {"callbackSend", "finalSend"}
          BY <1>2 DEF WorkerTriesSend
        <4> QED
          BY <1>2, <4>1, <4>2, <4>3, <4>4, <4>5 DEF OutgoingInStep, Reportable
      <3> QED
        BY <1>1, <3>1, <3>2
    <2>10. GenerationsInOrder'
      <3>1. \A k \in 1 .. Len(outgoing') : outgoing'[k].gen <= taken
        BY <1>1, <1>4, <2>5
      <3>2. ReportedGeneration' <= taken
        BY <1>1, <2>3, <2>5
      <3> QED
        BY <1>2, <2>5, <3>1, <3>2 DEF GenerationsInOrder
    <2> QED
      BY <2>7, <2>8, <2>9, <2>10 DEF StreamInv
  <1>5. CASE ~IsProgress(e) /\ UNCHANGED emitted /\ outgoing' = Tail(outgoing)
    <2>1. Len(outgoing) # 2
      BY <1>1, <1>5 DEF StreamInv, OutgoingInStep, IsProgress, ProgressKinds
    <2>2. outgoing' = << >>
      BY <1>1, <1>5, <2>1
    <2> QED
      BY <1>3, <1>5, <2>2
  <1> QED
    BY <1>3, <1>4, <1>5 DEF WorkerTriesSend, e

\* Every step keeps the invariant and is a step or a stutter of the stream.
LEMMA StepStream ==
  TypeOK /\ TypeOK' /\ StreamInv /\ [Next]_vars
    => StreamInv' /\ [Stream!Next]_(Stream!vars)
  <1> SUFFICES ASSUME TypeOK, TypeOK', StreamInv, [Next]_vars
               PROVE  StreamInv' /\ [Stream!Next]_(Stream!vars)
    OBVIOUS
  <1> DEFINE Kept == UNCHANGED << stdin, generations, emitted >> /\ latest'.gen = latest.gen
             WorkKept == work' = work \/ (work # << >> /\ work' = Tail(work))
  <1>1. /\ GenerationsInOrder /\ TrackerInStep /\ OutgoingInStep
        /\ tracker \in Trackers /\ tracker.generation \in Nat
        /\ wpc \notin {"callbackSend", "finalSend"} => outgoing = << >>
    BY StreamTypes DEF StreamInv, OutgoingInStep
  <1>2. ASSUME UNCHANGED << stdin, work, generations, tracker, outgoing, emitted, latest >>,
               wpc' = wpc \/ outgoing = << >>
        PROVE  StreamInv' /\ [Stream!Next]_(Stream!vars)
    <2>1. GenerationsInOrder'
      BY <1>1, <1>2, ReportUnchanged DEF GenerationsInOrder
    <2>2. TrackerInStep'
      BY <1>1, <1>2, ReportUnchanged DEF TrackerInStep
    <2>3. OutgoingInStep'
      BY <1>1, <1>2, ReportUnchanged DEF OutgoingInStep, Reportable
    <2> QED
      BY <1>2, <2>1, <2>2, <2>3, SilentStep DEF StreamInv
  <1>3. ASSUME Kept, WorkKept, TrackerInStep', OutgoingInStep',
               tracker'.generation <= tracker.generation,
               \A k \in 1 .. Len(outgoing') : outgoing'[k].gen <= tracker.generation
        PROVE  StreamInv' /\ [Stream!Next]_(Stream!vars)
    <2>1. GenerationsInOrder'
      BY <1>1, <1>3, OrderKept
    <2> QED
      BY <1>3, <2>1, SilentStep DEF StreamInv
  <1> HIDE DEF Kept, WorkKept
  <1>4. ASSUME Kept, WorkKept, outgoing' = << >>,
               \/ tracker' = tracker
               \/ tracker'.generation = tracker.generation /\ tracker'.done = tracker.done
               \/ tracker'.generation = NoGeneration
        PROVE  StreamInv' /\ [Stream!Next]_(Stream!vars)
    <2>1. /\ TrackerInStep' /\ OutgoingInStep'
          /\ \A k \in 1 .. Len(outgoing') : outgoing'[k].gen <= tracker.generation
      BY <1>1, <1>4, QuietInStep DEF Kept
    <2>2. tracker'.generation <= tracker.generation
      BY <1>1, <1>4 DEF NoGeneration
    <2> QED
      BY <1>3, <1>4, <2>1, <2>2
  <1>5. ASSUME ClientRequests \/ ClientBegins \/ ReaderStop \/ ReaderRejects \/ ReaderQueues
        PROVE  StreamInv' /\ [Stream!Next]_(Stream!vars)
    <2>1. /\ ClientRequests \/ ClientBegins
               \/ (\E kinds : ReaderTakes(kinds) /\ UNCHANGED work) \/ ReaderQueues
          /\ UNCHANGED << tracker, outgoing, emitted, wpc, latest >>
          /\ UNCHANGED generations \/ ClientBegins
      BY <1>5
         DEF ClientRequests, ClientSends, ClientBegins, ReaderStop, ReaderRejects,
             ReaderQueues, workerVars, engineVars, eventVars, historyVars
    <2> QED
      BY <2>1, QueueSteps, SilentStep
  <1>6. ASSUME ClientReads \/ ClientCloses \/ Forwarder \/ Writer \/ Terminated
                 \/ ReaderLoadsHandle \/ ReaderCallsEciStop \/ ReaderReplies
                 \/ ReaderSeesEof \/ ReaderJoinsWorker \/ ReaderJoinsWriter
        PROVE  StreamInv' /\ [Stream!Next]_(Stream!vars)
    <2>1. UNCHANGED << stdin, work, generations, tracker, outgoing, emitted, wpc, latest >>
      BY <1>6
         DEF ClientReads, ClientCloses, historyVars, Forwarder, ForwarderReceives, ForwarderSends,
             ForwarderFails, Writer, WriterWrites, WriterFails, Terminated, vars,
             ReaderLoadsHandle, ReaderCallsEciStop, ReaderReplies, ReaderSeesEof,
             ReaderJoinsWorker, ReaderJoinsWriter, clientVars, workerVars, engineVars,
             eventVars
    <2> QED
      BY <1>2, <2>1
  <1>7. ASSUME EciCallback \/ EciSwallowsIndexes \/ CallbackReturns \/ EciSynchronized
                 \/ WorkerEndsSynthesis \/ WorkerResponds \/ WorkerDisconnects
                 \/ WorkerDropsEngine \/ WorkerJoinsForwarder
        PROVE  StreamInv' /\ [Stream!Next]_(Stream!vars)
    <2>1. /\ UNCHANGED << stdin, work, generations, tracker, outgoing, emitted, latest >>
          /\ wpc' = wpc \/ outgoing = << >>
      BY <1>1, <1>7
         DEF EciCallback, EciSwallowsIndexes, CallbackReturns, EciSynchronized,
             WorkerEndsSynthesis, WorkerResponds, WorkerDisconnects, WorkerDropsEngine,
             WorkerJoinsForwarder, clientVars, workerVars, engineVars, eventVars, historyVars
    <2> QED
      BY <1>2, <2>1
  <1>8. ASSUME WorkerInitializes \/ WorkerHasNoRuntime \/ WorkerHasNoGeneration
                 \/ WorkerAddsText \/ WorkerSetsVoiceParam \/ WorkerSynthesizes
                 \/ WorkerDeletes
        PROVE  StreamInv' /\ [Stream!Next]_(Stream!vars)
    <2>1. /\ wpc = "recv" /\ work # << >> /\ work' = Tail(work)
          /\ UNCHANGED << stdin, generations, outgoing, emitted, latest >>
      BY <1>8
         DEF WorkerInitializes, WorkerHasNoRuntime, WorkerHasNoGeneration, WorkerAddsText,
             WorkerSetsVoiceParam, WorkerSynthesizes, WorkerDeletes, WorkerTakes,
             clientVars, eventVars, historyVars
    <2>2. tracker' = tracker \/ tracker' = DefaultTracker
      BY <1>8
         DEF WorkerInitializes, WorkerHasNoRuntime, WorkerHasNoGeneration, WorkerAddsText,
             WorkerSetsVoiceParam, WorkerSynthesizes, WorkerDeletes, engineVars
    <2> QED
      BY <1>1, <1>4, <2>1, <2>2 DEF Kept, WorkKept, DefaultTracker
  <1>9. CASE WorkerInsertsIndex
    <2>1. /\ wpc = "recv" /\ work # << >> /\ work' = Tail(work)
          /\ UNCHANGED << stdin, generations, outgoing, emitted >>
          /\ latest'.gen = latest.gen
      <3>1. latest \in [gen : Nat, index : Nat, lost : BOOLEAN]
        BY DEF TypeOK, HistoryTypeOK
      <3> QED
        BY <1>9, <3>1 DEF WorkerInsertsIndex, WorkerTakes, clientVars, eventVars
    <2>2. tracker' = tracker \/ tracker' = TrackIndex(tracker, Head(work).arg)
      BY <1>9 DEF WorkerInsertsIndex
    <2>3. tracker'.generation = tracker.generation /\ tracker'.done = tracker.done
      BY <1>1, <2>2 DEF TrackIndex, Trackers
    <2> QED
      BY <1>1, <1>4, <2>1, <2>3 DEF Kept, WorkKept
  <1>10. CASE WorkerBegins
    BY <1>10, BeginInStep, SilentStep DEF WorkerBegins, eventVars
  <1>11. CASE HandleAudioCallback \/ HandleBadAudioCallback
    <2>1. /\ UNCHANGED << stdin, work, generations, emitted, tracker, latest >>
          /\ wpc' = "callbackSend"
      BY <1>11 DEF HandleAudioCallback, HandleBadAudioCallback, clientVars, engineVars,
                   eventVars, historyVars
    <2>2. CASE outgoing' = << >>
      BY <1>4, <2>1, <2>2 DEF Kept, WorkKept
    <2>3. CASE IsActive(tracker) /\ outgoing' = << AudioEvent(tracker.generation, callback.value) >>
      <3> DEFINE e == AudioEvent(tracker.generation, callback.value)
      <3>1. e.kind \in {"Audio", "Index"} /\ e.gen = tracker.generation
        BY DEF AudioEvent
      <3> HIDE DEF e
      <3>2. outgoing' = << e >>
        BY <2>3 DEF e
      <3>3. /\ TrackerInStep' /\ OutgoingInStep'
            /\ \A k \in 1 .. Len(outgoing') : outgoing'[k].gen <= tracker.generation
        BY <1>1, <2>1, <2>3, <3>1, <3>2, ProgressInStep
      <3> QED
        BY <1>1, <1>3, <2>1, <3>3 DEF Kept, WorkKept
    <2>4. CASE outgoing' = << CallbackErrorEvent >>
      <3>1. /\ Len(outgoing') = 1 /\ \A k \in 1 .. Len(outgoing') : outgoing'[k] = CallbackErrorEvent
            /\ ~IsProgress(CallbackErrorEvent) /\ CallbackErrorEvent.gen = NoGeneration
        <4>1. CallbackErrorEvent.kind = "CallbackError" /\ CallbackErrorEvent.gen = NoGeneration
          BY DEF CallbackErrorEvent
        <4>2. Len(outgoing') = 1 /\ outgoing'[1] = CallbackErrorEvent
          BY <2>4
        <4> QED
          BY <4>1, <4>2 DEF IsProgress, ProgressKinds
      <3>2. TrackerInStep'
        BY <1>1, <2>1, ReportUnchanged DEF TrackerInStep
      <3>3. OutgoingInStep'
        BY <2>1, <3>1 DEF OutgoingInStep
      <3>4. \A k \in 1 .. Len(outgoing') : outgoing'[k].gen <= tracker.generation
        BY <1>1, <3>1 DEF NoGeneration
      <3> QED
        BY <1>1, <1>3, <2>1, <3>2, <3>3, <3>4 DEF Kept, WorkKept
    <2> QED
      BY <1>11, <2>2, <2>3, <2>4 DEF HandleAudioCallback, HandleBadAudioCallback
  <1>12. CASE HandleIndexCallback
    <2>1. /\ UNCHANGED << stdin, work, generations, emitted, latest >>
          /\ wpc' = "callbackSend"
      BY <1>12 DEF HandleIndexCallback, clientVars, eventVars, historyVars
    <2>2. CASE outgoing' = CompletionEvents(tracker) /\ tracker' = Complete(tracker)
      BY <1>1, <1>3, <2>1, <2>2, CompletionInStep DEF Kept, WorkKept
    <2>3. CASE /\ outgoing' = EngineIndexEvents(tracker, callback.value)
               /\ tracker' = EngineIndex(tracker, callback.value)
      <3>1. tracker'.generation = tracker.generation /\ tracker'.done = tracker.done
        BY <1>1, <2>3 DEF EngineIndex, Trackers
      <3>2. CASE outgoing' = << >>
        BY <1>4, <2>1, <3>1, <3>2 DEF Kept, WorkKept
      <3>3. CASE outgoing' # << >>
        <4> DEFINE e == IndexEvent(tracker.generation, callback.value, FALSE)
        <4>1. e.kind \in {"Audio", "Index"} /\ e.gen = tracker.generation
          BY DEF IndexEvent
        <4>2. IsActive(tracker) /\ outgoing' = << e >>
          BY <2>3, <3>3, Zenon DEF EngineIndexEvents
        <4> HIDE DEF e
        <4>3. /\ TrackerInStep' /\ OutgoingInStep'
              /\ \A k \in 1 .. Len(outgoing') : outgoing'[k].gen <= tracker.generation
          BY <1>1, <2>1, <3>1, <4>1, <4>2, ProgressInStep
        <4> QED
          BY <1>1, <1>3, <2>1, <3>1, <4>3 DEF Kept, WorkKept
      <3> QED
        BY <3>2, <3>3
    <2> QED
      BY <1>12, <2>2, <2>3 DEF HandleIndexCallback
  <1>13. CASE WorkerTriesSend
    BY <1>13, SendInStep
  <1>14. CASE WorkerFinishes
    <2>1. /\ UNCHANGED << stdin, work, generations, emitted, latest >>
          /\ wpc' = "finalSend"
      BY <1>14 DEF WorkerFinishes, clientVars, eventVars, historyVars
    <2>2. CASE outgoing' = CompletionEvents(tracker) /\ tracker' = Complete(tracker)
      BY <1>1, <1>3, <2>1, <2>2, CompletionInStep DEF Kept, WorkKept
    <2>3. CASE outgoing' = StopEvents(tracker) /\ tracker' = StopTracker(tracker)
      BY <1>1, <1>3, <2>1, <2>3, StopInStep DEF Kept, WorkKept
    <2> QED
      BY <1>14, <2>2, <2>3 DEF WorkerFinishes
  <1>15. CASE UNCHANGED vars
    <2>1. UNCHANGED << stdin, work, generations, tracker, outgoing, emitted, wpc, latest >>
      BY <1>15 DEF vars, clientVars, workerVars, engineVars, eventVars, historyVars
    <2> QED
      BY <1>2, <2>1
  <1> QED
    BY <1>5, <1>6, <1>7, <1>8, <1>9, <1>10, <1>11, <1>12, <1>13, <1>14, <1>15
       DEF Next, Host, Client, Reader, Worker, WorkerDispatches

\* A host that has reported nothing is in step.
LEMMA RestStream ==
  ASSUME NEW last, NEW state, NEW used, HostAtRest(last, state, used)
  PROVE  StreamInv
  <1>1. /\ stdin = << >> /\ work = << >> /\ outgoing = << >> /\ emitted = << >>
        /\ generations = 0 /\ tracker.generation = 0 /\ latest.gen = 0
    BY DEF HostAtRest, DefaultTracker, NoGeneration
  <1>2. GenerationsInOrder
    <2>1. Rising(<< >>, 0, 0) /\ 0 \in 0 .. MaxGenerations
      BY BoundAssumption DEF Rising
    <2> QED
      BY <1>1, <2>1 DEF GenerationsInOrder, ReportedGeneration
  <1> QED
    BY <1>1, <1>2 DEF StreamInv, TrackerInStep, OutgoingInStep, NoGeneration

LEMMA InitStream == Init => StreamInv
  BY RestStream DEF Init

\* The progress the worker reports is the stream GenerationStream promises, for
\* every client, every capacity and everything ECI may answer: the detailed
\* host implements the abstract one.
THEOREM StreamImplemented == Spec => ImplementsStream
  <1>1. Init => StreamInv
    BY InitStream
  <1>2. Init => Stream!Init
    BY DEF Init, HostAtRest, Stream!Init, ReportedGeneration, ReportedPhase
  <1>3. TypeOK /\ TypeOK' /\ StreamInv /\ [Next]_vars
          => StreamInv' /\ [Stream!Next]_(Stream!vars)
    BY StepStream
  <1> QED
    BY <1>1, <1>2, <1>3, TypeCorrect, PTL DEF Spec, ImplementsStream, Stream!Spec

-----------------------------------------------------------------------------
(* What becomes of an inserted index, of a completion and of a Stop.       *)

Reported(e) == \E k \in 1 .. Len(emitted) : emitted[k] = e
Held(e)     == \E k \in 1 .. Len(outgoing) : outgoing[k] = e

\* latest is about the generation the tracker has, or had before a Stop took it,
\* and nothing was reported or stopped of a later one.
LatestInStep ==
  /\ tracker.generation # NoGeneration => tracker.generation = latest.gen
  /\ latest.index # FINAL_INDEX => latest.gen # NoGeneration
  /\ \A k \in 1 .. Len(emitted) : emitted[k].gen <= latest.gen
  /\ \A k \in 1 .. Len(outgoing) : outgoing[k].gen <= latest.gen
  /\ \A point \in stopped : point.gen # NoGeneration /\ point.gen <= latest.gen

\* The tracker is done once it has made the Done event, and not before.
DoneAccounted ==
  tracker.generation # NoGeneration =>
    IF tracker.done
      THEN \/ latest.lost
           \/ Reported(DoneEvent(tracker.generation))
           \/ Held(DoneEvent(tracker.generation))
      ELSE ~Reported(DoneEvent(tracker.generation))

IsLatest(e) == e.kind = "Index" /\ e.gen = latest.gen /\ e.value = latest.index

\* The newest index is reported; or it is held by the worker; or it is the last
\* one pending; or a Stop has forgotten it, and Done will not come.
IndexReported == \E k \in 1 .. Len(emitted) : IsLatest(emitted[k])
IndexHeld     == outgoing # << >> /\ IsLatest(outgoing[1])
IndexPending  ==
  /\ tracker.generation = latest.gen /\ ~tracker.done
  /\ tracker.pending_indexes # << >>
  /\ tracker.pending_indexes[Len(tracker.pending_indexes)] = latest.index

IndexAccounted ==
  latest.index # FINAL_INDEX /\ ~latest.lost =>
    \/ IndexReported
    \/ /\ ~Reported(DoneEvent(latest.gen))
       /\ \/ IndexHeld
          \/ /\ ~Held(DoneEvent(latest.gen))
             /\ IndexPending \/ tracker.generation = NoGeneration

\* Of a stopped generation, everything reported or held beyond the point of its
\* Stop is Stopped; while the tracker has it, the callbacks are cancelled.
StoppedAt(point) ==
  /\ \A k \in 1 .. Len(emitted) :
       (k > point.at /\ emitted[k].gen = point.gen) => emitted[k].kind = "Stopped"
  /\ \A k \in 1 .. Len(outgoing) :
       (Len(emitted) + k > point.at /\ outgoing[k].gen = point.gen)
         => outgoing[k].kind = "Stopped"
  /\ tracker.generation = point.gen =>
       /\ ~tracker.done
       /\ cancellation_requested
       /\ wpc = "callback" =>
            /\ Len(emitted) < point.at
            /\ callback # Message("index", FINAL_INDEX)

StopsAccounted == \A point \in stopped : StoppedAt(point)

ReportInv == LatestInStep /\ DoneAccounted /\ IndexAccounted /\ StopsAccounted

\* The types the proof of ReportInv relies on.
LEMMA ReportTypes ==
  ASSUME TypeOK
  PROVE  /\ emitted \in Seq(EngineEvents) /\ outgoing \in Seq(EngineEvents)
         /\ \A k \in 1 .. Len(emitted) : emitted[k] \in EngineEvents /\ emitted[k].gen \in Nat
         /\ \A k \in 1 .. Len(outgoing) : outgoing[k] \in EngineEvents /\ outgoing[k].gen \in Nat
         /\ tracker.generation \in Nat
         /\ tracker.pending_indexes \in Seq(Nat \ {FINAL_INDEX})
         /\ latest.gen \in Nat /\ latest.index \in Nat
         /\ \A point \in stopped : point.gen \in Nat /\ point.at \in Nat
  <1>1. /\ emitted \in Seq(EngineEvents) /\ outgoing \in Seq(EngineEvents)
        /\ tracker \in Trackers
        /\ latest \in [gen : Nat, index : Nat, lost : BOOLEAN]
        /\ stopped \subseteq [gen : Nat, at : Nat]
    BY DEF TypeOK, EngineTypeOK, WorkerTypeOK, HistoryTypeOK
  <1>2. \A e \in EngineEvents : e.gen \in Nat
    BY DEF EngineEvents
  <1>3. /\ \A k \in 1 .. Len(emitted) : emitted[k] \in EngineEvents
        /\ \A k \in 1 .. Len(outgoing) : outgoing[k] \in EngineEvents
    BY <1>1
  <1>4. tracker.generation \in Nat /\ tracker.pending_indexes \in Seq(Nat \ {FINAL_INDEX})
    BY <1>1 DEF Trackers
  <1>5. /\ latest.gen \in Nat /\ latest.index \in Nat
        /\ \A point \in stopped : point.gen \in Nat /\ point.at \in Nat
    BY <1>1
  <1> QED
    BY <1>1, <1>2, <1>3, <1>4, <1>5

\* The worker holds no event unless it is offering one.
LEMMA NothingHeld ==
  ASSUME OutgoingInStep, wpc \notin {"callbackSend", "finalSend"}
  PROVE  outgoing = << >> /\ Len(outgoing) = 0
  BY DEF OutgoingInStep

\* Most steps change nothing of this; a callback begins only when no
\* cancellation is requested.
Quiet ==
  /\ UNCHANGED << emitted, outgoing, tracker, latest, stopped, cancellation_requested >>
  /\ wpc' = "callback" => UNCHANGED << wpc, callback >> \/ ~cancellation_requested

\* A step is quiet, or one of those that change what was or will be reported.
LEMMA ReportingSteps ==
  ASSUME [Next]_vars
  PROVE  \/ Quiet \/ WorkerInitializes \/ ReaderStop \/ WorkerBegins \/ WorkerInsertsIndex
         \/ HandleAudioCallback \/ HandleBadAudioCallback \/ HandleIndexCallback
         \/ WorkerTriesSend \/ WorkerFinishes
  <1>1. ASSUME ClientRequests \/ ClientBegins \/ ClientReads \/ ClientCloses
                 \/ Forwarder \/ Writer \/ Terminated
        PROVE  Quiet
    BY <1>1
       DEF Quiet, ClientRequests, ClientSends, ClientBegins, ClientReads, ClientCloses,
           Forwarder, ForwarderReceives, ForwarderSends, ForwarderFails, Writer,
           WriterWrites, WriterFails, Terminated, vars, workerVars, engineVars, eciVars,
           eventVars, historyVars
  <1>2. ASSUME ReaderLoadsHandle \/ ReaderCallsEciStop \/ ReaderReplies \/ ReaderRejects
                 \/ ReaderQueues \/ ReaderSeesEof \/ ReaderJoinsWorker \/ ReaderJoinsWriter
        PROVE  Quiet
    BY <1>2
       DEF Quiet, ReaderLoadsHandle, ReaderCallsEciStop, ReaderReplies, ReaderRejects,
           ReaderQueues, ReaderSeesEof, ReaderJoinsWorker, ReaderJoinsWriter, workerVars,
           engineVars, eciVars, eventVars, historyVars
  <1>3. ASSUME EciSwallowsIndexes \/ CallbackReturns \/ EciSynchronized
                 \/ WorkerEndsSynthesis \/ WorkerResponds \/ WorkerDisconnects
                 \/ WorkerDropsEngine \/ WorkerJoinsForwarder
        PROVE  Quiet
    BY <1>3
       DEF Quiet, EciSwallowsIndexes, CallbackReturns, EciSynchronized, WorkerAnswers,
           WorkerEndsSynthesis, WorkerResponds, WorkerDisconnects, WorkerDropsEngine,
           WorkerJoinsForwarder, workerVars, engineVars, eciVars, eventVars, historyVars
  <1>4. ASSUME WorkerHasNoRuntime \/ WorkerHasNoGeneration \/ WorkerAddsText
                 \/ WorkerSetsVoiceParam \/ WorkerSynthesizes \/ WorkerDeletes
        PROVE  Quiet
    BY <1>4
       DEF Quiet, WorkerHasNoRuntime, WorkerHasNoGeneration, WorkerAddsText, WorkerAnswers,
           WorkerSetsVoiceParam, WorkerSynthesizes, WorkerDeletes, engineVars, eventVars,
           historyVars
  <1>5. ASSUME EciCallback
        PROVE  Quiet
    BY <1>5 DEF Quiet, EciCallback, CallbackAborts, engineVars, eventVars, historyVars
  <1>6. ASSUME UNCHANGED vars
        PROVE  Quiet
    BY <1>6 DEF Quiet, vars, workerVars, engineVars, eciVars, eventVars, historyVars
  <1> QED
    BY <1>1, <1>2, <1>3, <1>4, <1>5, <1>6
       DEF Next, Host, Client, Reader, Worker, WorkerDispatches

\* A quiet step keeps the accounts.
LEMMA QuietKeepsAccounts ==
  ASSUME ReportInv, Quiet
  PROVE  ReportInv'
  <1> USE DEF Quiet
  <1>1. \A e : Reported(e)' = Reported(e) /\ Held(e)' = Held(e)
    BY DEF Reported, Held
  <1>2. LatestInStep'
    BY DEF ReportInv, LatestInStep
  <1>3. DoneAccounted'
    BY <1>1 DEF ReportInv, DoneAccounted
  <1>4. IndexAccounted'
    BY <1>1 DEF ReportInv, IndexAccounted, IndexReported, IndexHeld, IndexPending, IsLatest
  <1>5. ASSUME NEW point \in stopped
        PROVE  StoppedAt(point)'
    <2>1. StoppedAt(point)
      BY <1>5 DEF ReportInv, StopsAccounted
    <2> QED
      BY <2>1 DEF StoppedAt
  <1> QED
    BY <1>2, <1>3, <1>4, <1>5 DEF ReportInv, StopsAccounted

\* Initialize finds the worker with no event and may forget the generation.
LEMMA InitializeKeepsAccounts ==
  ASSUME OutgoingInStep, ReportInv, WorkerInitializes
  PROVE  ReportInv'
  <1>1. /\ UNCHANGED << emitted, outgoing, latest, stopped >>
        /\ wpc = "recv" /\ wpc' = "respond"
        /\ UNCHANGED << tracker, cancellation_requested >> \/ tracker' = DefaultTracker
    BY DEF WorkerInitializes, WorkerTakes, WorkerAnswers, engineVars, eventVars, historyVars
  <1>2. outgoing = << >> /\ Len(outgoing) = 0
    BY <1>1, NothingHeld
  <1>3. CASE UNCHANGED << tracker, cancellation_requested >>
    BY <1>1, <1>3, QuietKeepsAccounts DEF Quiet
  <1>4. CASE tracker' = DefaultTracker
    <2>1. tracker'.generation = NoGeneration
      BY <1>4 DEF DefaultTracker
    <2>2. LatestInStep'
      BY <1>1, <2>1 DEF ReportInv, LatestInStep
    <2>3. DoneAccounted'
      BY <2>1 DEF DoneAccounted
    <2>4. IndexAccounted'
      BY <1>1, <1>2, <2>1
         DEF ReportInv, IndexAccounted, IndexReported, IndexHeld, IsLatest, Reported, Held
    <2>5. ASSUME NEW point \in stopped
          PROVE  StoppedAt(point)'
      <3>1. StoppedAt(point) /\ point.gen # NoGeneration
        BY <2>5 DEF ReportInv, StopsAccounted, LatestInStep
      <3> QED
        BY <1>1, <2>1, <3>1 DEF StoppedAt
    <2> QED
      BY <1>1, <2>2, <2>3, <2>4, <2>5 DEF ReportInv, StopsAccounted
  <1> QED
    BY <1>1, <1>3, <1>4

\* A Stop joins the accounts with whatever the worker holds at its arrival.
LEMMA StopKeepsAccounts ==
  ASSUME TypeOK, OutgoingInStep, ReportInv, ReaderStop
  PROVE  ReportInv'
  <1>1. UNCHANGED << emitted, outgoing, latest, tracker, wpc, callback >>
    BY DEF ReaderStop, workerVars, eciVars, eventVars
  <1>2. \/ UNCHANGED << cancellation_requested, stopped >>
        \/ cancellation_requested' = TRUE /\ stopped' = stopped \union StopPoints
    BY DEF ReaderStop
  <1>3. CASE UNCHANGED << cancellation_requested, stopped >>
    BY <1>1, <1>3, QuietKeepsAccounts DEF Quiet
  <1>4. CASE cancellation_requested' = TRUE /\ stopped' = stopped \union StopPoints
    <2>1. \A e : Reported(e)' = Reported(e) /\ Held(e)' = Held(e)
      BY <1>1 DEF Reported, Held
    <2>2. DoneAccounted'
      BY <1>1, <2>1 DEF ReportInv, DoneAccounted
    <2>3. IndexAccounted'
      BY <1>1, <2>1
         DEF ReportInv, IndexAccounted, IndexReported, IndexHeld, IndexPending, IsLatest
    <2>4. ASSUME NEW point \in stopped
          PROVE  StoppedAt(point)'
      <3>1. StoppedAt(point)
        BY <2>4 DEF ReportInv, StopsAccounted
      <3> QED
        BY <1>1, <1>4, <3>1 DEF StoppedAt
    <2>5. ASSUME NEW point \in StopPoints
          PROVE  /\ point.gen = tracker.generation /\ point.gen # NoGeneration
                 /\ StoppedAt(point)'
      <3>1. /\ point = [gen |-> tracker.generation, at |-> Len(emitted) + InFlight]
            /\ IsActive(tracker)
            /\ ~(wpc = "callback" /\ callback = Message("index", FINAL_INDEX))
        BY <2>5 DEF StopPoints
      <3>2. point.gen = tracker.generation /\ point.at = Len(emitted) + InFlight
        BY <3>1
      <3>3. ~tracker.done /\ tracker.generation # NoGeneration
        BY <3>1 DEF IsActive, ActiveGeneration
      <3>4. /\ Len(emitted) \in Nat /\ Len(outgoing) \in Nat
            /\ IF wpc = "callback" THEN Len(outgoing) = 0 /\ point.at = Len(emitted) + 1
                                   ELSE point.at = Len(emitted) + Len(outgoing)
        BY <3>2, NothingHeld, ReportTypes DEF InFlight
      <3>5. /\ \A k \in 1 .. Len(emitted) : ~(k > point.at)
            /\ \A k \in 1 .. Len(outgoing) : ~(Len(emitted) + k > point.at)
            /\ wpc = "callback" => Len(emitted) < point.at
        BY <3>4
      <3>6. StoppedAt(point)'
        BY <1>1, <1>4, <3>1, <3>3, <3>5 DEF StoppedAt
      <3> QED
        BY <3>2, <3>3, <3>6
    <2>6. LatestInStep'
      <3>1. \A point \in StopPoints : point.gen <= latest.gen
        BY <2>5, ReportTypes DEF ReportInv, LatestInStep
      <3> QED
        BY <1>1, <1>4, <2>5, <3>1 DEF ReportInv, LatestInStep
    <2>7. StopsAccounted'
      BY <1>4, <2>4, <2>5 DEF StopsAccounted
    <2> QED
      BY <2>2, <2>3, <2>6, <2>7 DEF ReportInv
  <1> QED
    BY <1>2, <1>3, <1>4

\* A new generation is newer than everything reported or stopped.
LEMMA BeginKeepsAccounts ==
  ASSUME TypeOK, GenerationsInOrder, OutgoingInStep, ReportInv, WorkerBegins
  PROVE  ReportInv'
  <1>0. PICK g : g = Head(work).arg
    OBVIOUS
  <1>1. /\ UNCHANGED << emitted, outgoing, stopped >>
        /\ wpc = "recv" /\ wpc' = "respond"
        /\ tracker' = BeginGeneration(g)
        /\ latest' = [gen |-> g, index |-> FINAL_INDEX, lost |-> FALSE]
        /\ work # << >> /\ Head(work).kind = "BeginGeneration"
    BY <1>0 DEF WorkerBegins, WorkerTakes, WorkerAnswers, eventVars
  <1>2. outgoing = << >> /\ Len(outgoing) = 0
    BY <1>1, NothingHeld
  <1>3. g \in Nat /\ latest.gen < g
    <2>1. PICK taken \in 0 .. MaxGenerations, queued \in 0 .. MaxGenerations :
            Rising(work, taken, queued) /\ latest.gen <= taken
      BY DEF GenerationsInOrder
    <2>2. /\ taken \in Nat /\ queued \in Nat /\ work \in Seq(Commands)
          /\ latest.gen \in Nat
      BY <2>1, StreamTypes, ReportTypes
    <2>3. Head(work) \in Commands
      BY <1>1, <2>2, HeadAndTail
    <2>4. g \in Nat
      BY <1>0, <2>3 DEF Commands
    <2>5. taken < g
      BY <1>0, <1>1, <2>1, <2>2, RisingTail
    <2> QED
      BY <2>1, <2>2, <2>4, <2>5
  <1>4. /\ tracker'.generation = g /\ ~tracker'.done
        /\ latest'.gen = g /\ latest'.index = FINAL_INDEX
    BY <1>1 DEF BeginGeneration
  <1>5. /\ \A k \in 1 .. Len(emitted) : emitted[k].gen < g
        /\ \A point \in stopped : point.gen < g
    BY <1>3, ReportTypes DEF ReportInv, LatestInStep
  <1>6. LatestInStep'
    <2>1. /\ \A k \in 1 .. Len(emitted) : emitted[k].gen <= g
          /\ \A point \in stopped : point.gen <= g
      BY <1>3, <1>5, ReportTypes
    <2> QED
      BY <1>1, <1>2, <1>4, <2>1 DEF ReportInv, LatestInStep
  <1>7. DoneAccounted'
    <2>1. \A k \in 1 .. Len(emitted) : emitted[k].gen # g
      BY <1>3, <1>5, ReportTypes
    <2>2. DoneEvent(g).gen = g
      BY DEF DoneEvent
    <2>3. ~Reported(DoneEvent(g))'
      BY <1>1, <2>1, <2>2 DEF Reported
    <2> QED
      BY <1>4, <2>3 DEF DoneAccounted
  <1>8. IndexAccounted'
    BY <1>4 DEF IndexAccounted
  <1>9. ASSUME NEW point \in stopped
        PROVE  StoppedAt(point)'
    <2>1. StoppedAt(point) /\ point.gen # g
      BY <1>3, <1>5, <1>9, ReportTypes DEF ReportInv, StopsAccounted
    <2> QED
      BY <1>1, <1>4, <2>1 DEF StoppedAt
  <1> QED
    BY <1>1, <1>6, <1>7, <1>8, <1>9 DEF ReportInv, StopsAccounted

\* An inserted index is the last one pending in a generation without a Done.
LEMMA InsertKeepsAccounts ==
  ASSUME TypeOK, OutgoingInStep, ReportInv, WorkerInsertsIndex
  PROVE  ReportInv'
  <1>1. /\ UNCHANGED << emitted, outgoing, stopped, cancellation_requested >>
        /\ wpc = "recv" /\ wpc' = "respond" /\ IsActive(tracker) /\ work # << >>
    BY DEF WorkerInsertsIndex, WorkerTakes, WorkerAnswers, eventVars
  <1>2. PICK v : v = Head(work).arg
    OBVIOUS
  <1>3. \/ UNCHANGED << tracker, latest >>
        \/ /\ v # FINAL_INDEX
           /\ tracker' = [tracker EXCEPT !.pending_indexes = Append(@, v)]
           /\ latest' = [latest EXCEPT !.index = v]
    BY <1>1, <1>2 DEF WorkerInsertsIndex, TrackIndex
  <1>4. CASE UNCHANGED << tracker, latest >>
    BY <1>1, <1>4, QuietKeepsAccounts DEF Quiet
  <1>5. CASE /\ v # FINAL_INDEX
             /\ tracker' = [tracker EXCEPT !.pending_indexes = Append(@, v)]
             /\ latest' = [latest EXCEPT !.index = v]
    <2>1. v \in Nat
      <3>1. work \in Seq(Commands)
        BY DEF TypeOK, WorkerTypeOK
      <3>2. Head(work) \in Commands
        BY <1>1, <3>1, HeadAndTail
      <3> QED
        BY <1>2, <3>2 DEF Commands
    <2>2. /\ tracker'.generation = tracker.generation
          /\ tracker'.done = tracker.done
          /\ tracker'.pending_indexes = Append(tracker.pending_indexes, v)
      BY <1>5 DEF TypeOK, EngineTypeOK, Trackers
    <2>3. latest'.gen = latest.gen /\ latest'.index = v /\ latest'.lost = latest.lost
      BY <1>5 DEF TypeOK, HistoryTypeOK
    <2>4. /\ tracker'.pending_indexes # << >>
          /\ tracker'.pending_indexes[Len(tracker'.pending_indexes)] = v
      <3>1. v \in Nat \ {FINAL_INDEX} /\ tracker.pending_indexes \in Seq(Nat \ {FINAL_INDEX})
        BY <1>5, <2>1, ReportTypes
      <3> QED
        BY <2>2, <3>1
    <2>5. tracker.generation # NoGeneration /\ ~tracker.done
      BY <1>1 DEF IsActive, ActiveGeneration
    <2>6. tracker.generation = latest.gen /\ ~Reported(DoneEvent(latest.gen))
      BY <2>5 DEF ReportInv, LatestInStep, DoneAccounted
    <2>7. Len(outgoing) = 0
      BY <1>1, NothingHeld
    <2>8. \A e : Reported(e)' = Reported(e) /\ Held(e)' = Held(e) /\ ~Held(e)
      BY <1>1, <2>7 DEF Reported, Held
    <2>9. LatestInStep'
      BY <1>1, <2>2, <2>3, <2>5, <2>6 DEF ReportInv, LatestInStep
    <2>10. DoneAccounted'
      BY <2>2, <2>5, <2>6, <2>8 DEF DoneAccounted
    <2>11. IndexAccounted'
      <3>1. IndexPending'
        BY <2>2, <2>3, <2>4, <2>5, <2>6 DEF IndexPending
      <3> QED
        BY <2>3, <2>6, <2>8, <3>1 DEF IndexAccounted
    <2>12. ASSUME NEW point \in stopped
           PROVE  StoppedAt(point)'
      <3>1. StoppedAt(point)
        BY <2>12 DEF ReportInv, StopsAccounted
      <3> QED
        BY <1>1, <2>2, <3>1 DEF StoppedAt
    <2> QED
      BY <1>1, <2>9, <2>10, <2>11, <2>12 DEF ReportInv, StopsAccounted
  <1> QED
    BY <1>3, <1>4, <1>5

\* What the events made at the end of a callback or of the synthesis, and the
\* tracker they leave, must be like.
MadeInOrder ==
  /\ \A k \in 1 .. Len(outgoing') : outgoing'[k].gen \in {NoGeneration, tracker.generation}
  /\ tracker'.generation \in {NoGeneration, tracker.generation}
  /\ tracker'.generation # NoGeneration =>
       \/ tracker'.done = tracker.done
       \/ tracker'.done /\ Held(DoneEvent(tracker.generation))'
  /\ tracker.generation = NoGeneration => ~Held(DoneEvent(latest.gen))'
  /\ IndexPending =>
       \/ IndexHeld'
       \/ ~Held(DoneEvent(latest.gen))' /\ (IndexPending' \/ tracker'.generation = NoGeneration)
  /\ \A point \in stopped : tracker.generation = point.gen =>
       /\ \A k \in 1 .. Len(outgoing') :
            outgoing'[k].gen = point.gen
              => outgoing'[k].kind = "Stopped" \/ Len(emitted) + k <= point.at
       /\ tracker'.generation = point.gen => ~tracker'.done

\* Events like that keep the accounts.
LEMMA MakingKeepsAccounts ==
  ASSUME TypeOK, OutgoingInStep, ReportInv, MadeInOrder,
         wpc \in {"callback", "finish"}, wpc' \in {"callbackSend", "finalSend"},
         UNCHANGED << emitted, latest, stopped, cancellation_requested >>
  PROVE  ReportInv'
  <1>1. outgoing = << >> /\ Len(outgoing) = 0
    BY NothingHeld
  <1>2. \A e : Reported(e)' = Reported(e) /\ ~Held(e)
    BY <1>1 DEF Reported, Held
  <1>3. /\ tracker.generation \in Nat /\ latest.gen \in Nat
        /\ tracker.generation # NoGeneration => tracker.generation = latest.gen
    BY ReportTypes DEF ReportInv, LatestInStep
  <1>4. LatestInStep'
    <2>1. \A k \in 1 .. Len(outgoing') : outgoing'[k].gen <= latest.gen
      BY <1>3 DEF MadeInOrder, NoGeneration
    <2>2. tracker'.generation # NoGeneration => tracker'.generation = latest.gen
      BY <1>3 DEF MadeInOrder
    <2> QED
      BY <2>1, <2>2 DEF ReportInv, LatestInStep
  <1>5. DoneAccounted'
    <2>1. CASE tracker'.generation = NoGeneration
      BY <2>1 DEF DoneAccounted
    <2>2. CASE tracker'.generation # NoGeneration
      <3>1. tracker'.generation = tracker.generation
        BY <2>2 DEF MadeInOrder
      <3>2. CASE tracker'.done = tracker.done
        BY <1>2, <2>2, <3>1, <3>2 DEF ReportInv, DoneAccounted
      <3>3. CASE tracker'.done /\ Held(DoneEvent(tracker.generation))'
        BY <3>1, <3>3 DEF DoneAccounted
      <3> QED
        BY <2>2, <3>2, <3>3 DEF MadeInOrder
    <2> QED
      BY <2>1, <2>2
  <1>6. IndexAccounted'
    <2> SUFFICES ASSUME latest.index # FINAL_INDEX, ~latest.lost,
                        ~IndexReported
                 PROVE  /\ ~Reported(DoneEvent(latest.gen))
                        /\ \/ IndexHeld'
                           \/ /\ ~Held(DoneEvent(latest.gen))'
                              /\ IndexPending' \/ tracker'.generation = NoGeneration
      <3>1. IndexReported' = IndexReported
        BY DEF IndexReported, IsLatest
      <3> QED
        BY <1>2, <3>1 DEF IndexAccounted
    <2>1. /\ ~Reported(DoneEvent(latest.gen))
          /\ IndexPending \/ tracker.generation = NoGeneration
      BY <1>1 DEF ReportInv, IndexAccounted, IndexHeld
    <2>2. CASE IndexPending
      BY <2>1, <2>2 DEF MadeInOrder
    <2>3. CASE tracker.generation = NoGeneration
      BY <2>1, <2>3 DEF MadeInOrder
    <2> QED
      BY <2>1, <2>2, <2>3
  <1>7. ASSUME NEW point \in stopped
        PROVE  StoppedAt(point)'
    <2>1. StoppedAt(point) /\ point.gen # NoGeneration /\ point.at \in Nat
      BY <1>7, ReportTypes DEF ReportInv, StopsAccounted, LatestInStep
    <2>2. CASE tracker.generation = point.gen
      <3>1. /\ \A k \in 1 .. Len(outgoing') :
                 outgoing'[k].gen = point.gen
                   => outgoing'[k].kind = "Stopped" \/ Len(emitted) + k <= point.at
            /\ tracker'.generation = point.gen => ~tracker'.done
        BY <1>7, <2>2 DEF MadeInOrder
      <3>2. \A k \in 1 .. Len(outgoing') :
              Len(emitted) + k <= point.at => ~(Len(emitted) + k > point.at)
        BY <2>1, ReportTypes
      <3> QED
        BY <2>1, <2>2, <3>1, <3>2 DEF StoppedAt
    <2>3. CASE tracker.generation # point.gen
      <3>1. /\ \A k \in 1 .. Len(outgoing') : outgoing'[k].gen # point.gen
            /\ tracker'.generation # point.gen
        BY <2>1, <2>3 DEF MadeInOrder
      <3> QED
        BY <2>1, <3>1 DEF StoppedAt
    <2> QED
      BY <2>2, <2>3
  <1> QED
    BY <1>4, <1>5, <1>6, <1>7 DEF ReportInv, StopsAccounted

\* Draining through an earlier index leaves the last one where it is.
LEMMA DrainKeepsLast ==
  ASSUME NEW S, NEW s \in Seq(S), NEW v, s # << >>, s[Len(s)] # v
  PROVE  LET rest == DrainThrough(s, v)
         IN  rest # << >> /\ rest[Len(rest)] = s[Len(s)]
  <1> DEFINE hits == {k \in 1 .. Len(s) : s[k] = v}
             first == CHOOSE k \in hits : \A j \in hits : k <= j
  <1>1. CASE hits = {}
    BY <1>1 DEF DrainThrough
  <1>2. CASE hits # {}
    <2>1. DrainThrough(s, v) = SubSeq(s, first + 1, Len(s))
      BY <1>2 DEF DrainThrough
    <2>2. hits \in SUBSET Nat /\ \A k \in hits : k \in 1 .. Len(s) /\ k # Len(s)
      OBVIOUS
    <2> HIDE DEF hits
    <2>3. \E k \in hits : \A j \in hits : k <= j
      BY <1>2, <2>2, LeastNumber
    <2>4. first \in hits
      BY <2>3
    <2>5. PICK f : f = first
      OBVIOUS
    <2>6. f \in 1 .. Len(s) /\ f # Len(s)
      BY <2>2, <2>4, <2>5
    <2> HIDE DEF first
    <2>7. PICK r : r = SubSeq(s, f + 1, Len(s))
      OBVIOUS
    <2>8. /\ Len(s) \in Nat /\ Len(r) = Len(s) - f
          /\ \A k \in 1 .. (Len(s) - f) : r[k] = s[f + k]
      BY <2>6, <2>7
    <2>9. Len(s) - f \in 1 .. (Len(s) - f) /\ f + (Len(s) - f) = Len(s)
      BY <2>6, <2>8
    <2>10. Len(r) # 0 /\ r[Len(r)] = s[Len(s)]
      BY <2>8, <2>9
    <2>11. DrainThrough(s, v) = r
      BY <2>1, <2>5, <2>7
    <2> QED
      BY <2>10, <2>11
  <1> QED
    BY <1>1, <1>2

\* The audio of a text, or the error that stands for it, is made in order.
LEMMA AudioMadeInOrder ==
  ASSUME TypeOK, OutgoingInStep, ReportInv, HandleAudioCallback \/ HandleBadAudioCallback
  PROVE  ReportInv'
  <1>1. /\ wpc = "callback" /\ wpc' = "callbackSend"
        /\ UNCHANGED << emitted, latest, stopped, cancellation_requested, tracker >>
    BY DEF HandleAudioCallback, HandleBadAudioCallback, engineVars, eventVars, historyVars
  <1>2. PICK e : /\ outgoing' = << >> \/ outgoing' = << e >>
                 /\ e.kind \in {"Audio", "CallbackError"}
                 /\ e.gen \in {NoGeneration, tracker.generation}
    <2>1. PICK audio : audio = AudioEvent(tracker.generation, callback.value)
      OBVIOUS
    <2>2. PICK error : error = CallbackErrorEvent
      OBVIOUS
    <2>3. \/ outgoing' = << >> \/ outgoing' = << audio >> \/ outgoing' = << error >>
      BY <2>1, <2>2 DEF HandleAudioCallback, HandleBadAudioCallback
    <2>4. /\ audio.kind = "Audio" /\ audio.gen = tracker.generation
          /\ error.kind = "CallbackError" /\ error.gen = NoGeneration
      BY <2>1, <2>2 DEF AudioEvent, CallbackErrorEvent
    <2> QED
      BY <2>3, <2>4
  <1>3. \A k \in 1 .. Len(outgoing') :
          /\ k = 1 /\ outgoing'[k].kind \in {"Audio", "CallbackError"}
          /\ outgoing'[k].gen \in {NoGeneration, tracker.generation}
    <2>1. outgoing' = << >> \/ outgoing' = << e >>
      BY <1>2
    <2>2. CASE outgoing' = << >>
      BY <2>2
    <2>3. CASE outgoing' = << e >>
      <3>1. \A k \in 1 .. Len(outgoing') : k = 1 /\ outgoing'[k] = e
        BY <2>3
      <3> QED
        BY <1>2, <3>1
    <2> QED
      BY <2>1, <2>2, <2>3
  <1>4. \A g : ~Held(DoneEvent(g))'
    BY <1>3 DEF Held, DoneEvent
  <1>5. IndexPending' = IndexPending
    BY <1>1 DEF IndexPending
  <1>6. ASSUME NEW point \in stopped, tracker.generation = point.gen
        PROVE  ~tracker.done /\ Len(emitted) + 1 <= point.at
    <2>1. ~tracker.done /\ Len(emitted) < point.at
      BY <1>1, <1>6 DEF ReportInv, StopsAccounted, StoppedAt
    <2>2. Len(emitted) \in Nat /\ point.at \in Nat
      BY <1>6, ReportTypes
    <2> QED
      BY <2>1, <2>2
  <1>7. MadeInOrder
    BY <1>1, <1>3, <1>4, <1>5, <1>6 DEF MadeInOrder
  <1> QED
    BY <1>1, <1>7, MakingKeepsAccounts

\* So is an index that ECI calls back: it is the newest one, or leaves that pending.
LEMMA IndexMadeInOrder ==
  ASSUME TypeOK, OutgoingInStep, ReportInv,
         wpc = "callback", wpc' = "callbackSend",
         UNCHANGED << emitted, latest, stopped, cancellation_requested >>,
         outgoing' = EngineIndexEvents(tracker, callback.value),
         tracker' = EngineIndex(tracker, callback.value)
  PROVE  ReportInv'
  <1>1. PICK v : v = callback.value
    OBVIOUS
  <1>2. CASE ~(IsActive(tracker) /\ v # FINAL_INDEX)
    <2>1. outgoing' = << >> /\ Len(outgoing') = 0 /\ tracker' = tracker
      BY <1>1, <1>2 DEF EngineIndexEvents, EngineIndex
    <2>2. \A g : ~Held(DoneEvent(g))'
      BY <2>1 DEF Held
    <2>3. IndexPending' = IndexPending
      BY <2>1 DEF IndexPending
    <2>4. \A point \in stopped : tracker.generation = point.gen => ~tracker.done
      BY DEF ReportInv, StopsAccounted, StoppedAt
    <2>5. MadeInOrder
      BY <2>1, <2>2, <2>3, <2>4 DEF MadeInOrder
    <2> QED
      BY <2>5, MakingKeepsAccounts
  <1>3. CASE IsActive(tracker) /\ v # FINAL_INDEX
    <2>1. PICK e : e = IndexEvent(tracker.generation, v, FALSE)
      OBVIOUS
    <2>2. e.kind = "Index" /\ e.gen = tracker.generation /\ e.value = v
      BY <2>1 DEF IndexEvent
    <2>3. /\ outgoing' = << e >> /\ outgoing' # << >> /\ outgoing'[1] = e
          /\ Len(outgoing') = 1 /\ \A k \in 1 .. Len(outgoing') : k = 1
      <3>1. outgoing' = << e >>
        BY <1>1, <1>3, <2>1 DEF EngineIndexEvents
      <3> QED
        BY <3>1
    <2>4. /\ tracker'.generation = tracker.generation
          /\ tracker'.done = tracker.done
          /\ tracker'.pending_indexes = DrainThrough(tracker.pending_indexes, v)
      BY <1>1, <1>3 DEF EngineIndex, TypeOK, EngineTypeOK, Trackers
    <2>5. \A g : ~Held(DoneEvent(g))'
      BY <2>2, <2>3 DEF Held, DoneEvent
    <2>6. ASSUME IndexPending
          PROVE  IndexHeld' \/ IndexPending'
      <3> DEFINE s == tracker.pending_indexes
      <3>1. CASE v = latest.index
        BY <2>2, <2>3, <2>6, <3>1 DEF IndexPending, IndexHeld, IsLatest
      <3>2. CASE v # latest.index
        <4>1. s \in Seq(Nat \ {FINAL_INDEX}) /\ s # << >> /\ s[Len(s)] = latest.index
          BY <2>6, ReportTypes DEF IndexPending
        <4> HIDE DEF s
        <4>2. DrainThrough(s, v) # << >> /\ DrainThrough(s, v)[Len(DrainThrough(s, v))] = latest.index
          BY <3>2, <4>1, DrainKeepsLast
        <4> QED
          BY <2>4, <2>6, <4>2 DEF IndexPending, s
      <3> QED
        BY <3>1, <3>2
    <2>7. ASSUME NEW point \in stopped, tracker.generation = point.gen
          PROVE  ~tracker.done /\ Len(emitted) + 1 <= point.at
      <3>1. ~tracker.done /\ Len(emitted) < point.at
        BY <2>7 DEF ReportInv, StopsAccounted, StoppedAt
      <3>2. Len(emitted) \in Nat /\ point.at \in Nat
        BY <2>7, ReportTypes
      <3> QED
        BY <3>1, <3>2
    <2>8. MadeInOrder
      BY <2>2, <2>3, <2>4, <2>5, <2>6, <2>7 DEF MadeInOrder
    <2> QED
      BY <2>8, MakingKeepsAccounts
  <1> QED
    BY <1>2, <1>3

\* Completion makes Done, behind the newest index if that is pending.
LEMMA CompletionMadeInOrder ==
  ASSUME TypeOK, OutgoingInStep, ReportInv,
         wpc \in {"callback", "finish"}, wpc' \in {"callbackSend", "finalSend"},
         UNCHANGED << emitted, latest, stopped, cancellation_requested >>,
         outgoing' = CompletionEvents(tracker), tracker' = Complete(tracker),
         \A point \in stopped : tracker.generation # point.gen
  PROVE  ReportInv'
  <1>1. CASE ~IsActive(tracker)
    <2>1. outgoing' = << >> /\ Len(outgoing') = 0 /\ tracker' = tracker
      BY <1>1 DEF CompletionEvents, Complete
    <2>2. \A g : ~Held(DoneEvent(g))'
      BY <2>1 DEF Held
    <2>3. IndexPending' = IndexPending
      BY <2>1 DEF IndexPending
    <2>4. MadeInOrder
      BY <2>1, <2>2, <2>3 DEF MadeInOrder
    <2> QED
      BY <2>4, MakingKeepsAccounts
  <1>2. CASE IsActive(tracker)
    <2>1. PICK g : g = tracker.generation
      OBVIOUS
    <2>2. PICK d : d = DoneEvent(g)
      OBVIOUS
    <2>3. PICK i : i = IndexEvent(g, tracker.pending_indexes[Len(tracker.pending_indexes)], TRUE)
      OBVIOUS
    <2>4. /\ d.gen = g /\ i.gen = g /\ i.kind = "Index"
          /\ i.value = tracker.pending_indexes[Len(tracker.pending_indexes)]
      BY <2>2, <2>3 DEF DoneEvent, IndexEvent
    <2>5. g # NoGeneration /\ tracker'.generation = g /\ tracker'.done
      BY <1>2, <2>1 DEF Complete, IsActive, ActiveGeneration, TypeOK, EngineTypeOK, Trackers
    <2>6. CASE tracker.pending_indexes = << >>
      <3>1. outgoing' = << d >>
        BY <1>2, <2>1, <2>2, <2>6, ShortConcat DEF CompletionEvents, RecoveredIndex
      <3>2. 1 \in 1 .. Len(outgoing') /\ outgoing'[1] = d /\ \A k \in 1 .. Len(outgoing') : k = 1
        BY <3>1
      <3>3. Held(DoneEvent(g))'
        BY <2>2, <3>2 DEF Held
      <3>4. ~IndexPending
        BY <2>6 DEF IndexPending
      <3>5. MadeInOrder
        BY <2>1, <2>4, <2>5, <3>2, <3>3, <3>4 DEF MadeInOrder
      <3> QED
        BY <3>5, MakingKeepsAccounts
    <2>7. CASE tracker.pending_indexes # << >>
      <3>1. outgoing' = << i, d >>
        BY <1>2, <2>1, <2>2, <2>3, <2>7, ShortConcat DEF CompletionEvents, RecoveredIndex
      <3>2. /\ 1 \in 1 .. Len(outgoing') /\ 2 \in 1 .. Len(outgoing')
            /\ outgoing' # << >> /\ outgoing'[1] = i /\ outgoing'[2] = d
            /\ \A k \in 1 .. Len(outgoing') : k = 1 \/ k = 2
        BY <3>1
      <3>3. Held(DoneEvent(g))'
        BY <2>2, <3>2 DEF Held
      <3>4. IndexPending => IndexHeld'
        BY <2>1, <2>4, <3>2 DEF IndexPending, IndexHeld, IsLatest
      <3>5. MadeInOrder
        BY <2>1, <2>4, <2>5, <3>2, <3>3, <3>4 DEF MadeInOrder
      <3> QED
        BY <3>5, MakingKeepsAccounts
    <2> QED
      BY <2>6, <2>7
  <1> QED
    BY <1>1, <1>2

\* Stopped ends a generation whose Done will not come.
LEMMA StoppedMadeInOrder ==
  ASSUME TypeOK, OutgoingInStep, ReportInv,
         wpc = "finish", wpc' = "finalSend",
         UNCHANGED << emitted, latest, stopped, cancellation_requested >>,
         outgoing' = StopEvents(tracker), tracker' = StopTracker(tracker)
  PROVE  ReportInv'
  <1>1. tracker'.generation = NoGeneration
    BY DEF StopTracker
  <1>2. PICK e : e = StoppedEvent(tracker.generation)
    OBVIOUS
  <1>3. e.kind = "Stopped" /\ e.gen = tracker.generation
    BY <1>2 DEF StoppedEvent
  <1>4. outgoing' = << >> \/ outgoing' = << e >>
    BY <1>2 DEF StopEvents
  <1>5. \A k \in 1 .. Len(outgoing') : k = 1 /\ outgoing'[k] = e
    BY <1>4
  <1>6. \A g : ~Held(DoneEvent(g))'
    BY <1>3, <1>5 DEF Held, DoneEvent
  <1>7. \A point \in stopped : point.gen # NoGeneration
    BY DEF ReportInv, LatestInStep
  <1>8. MadeInOrder
    BY <1>1, <1>3, <1>5, <1>6, <1>7 DEF MadeInOrder
  <1> QED
    BY <1>8, MakingKeepsAccounts

\* An event that is offered moves from what the worker holds to what is reported;
\* one that is refused is lost, and with it the rest.
LEMMA OfferKeepsAccounts ==
  ASSUME TypeOK, OutgoingInStep, ReportInv, WorkerTriesSend
  PROVE  ReportInv'
  <1>1. /\ UNCHANGED << stopped, cancellation_requested, tracker, wpc, callback >>
        /\ wpc \in {"callbackSend", "finalSend"} /\ outgoing # << >>
    BY DEF WorkerTriesSend, engineVars, eciVars
  <1>2. PICK e : e = Head(outgoing)
    OBVIOUS
  <1>3. /\ e \in EngineEvents /\ e = outgoing[1] /\ 1 \in 1 .. Len(outgoing)
        /\ Len(outgoing) \in Nat /\ Len(Tail(outgoing)) = Len(outgoing) - 1
        /\ \A k \in 1 .. Len(Tail(outgoing)) :
             k + 1 \in 1 .. Len(outgoing) /\ Tail(outgoing)[k] = outgoing[k + 1]
        /\ \A k \in 1 .. Len(outgoing) :
             k # 1 => k - 1 \in 1 .. Len(Tail(outgoing)) /\ Tail(outgoing)[k - 1] = outgoing[k]
    <2>1. outgoing \in Seq(EngineEvents) /\ outgoing # << >>
      BY <1>1, ReportTypes
    <2>2. e \in EngineEvents /\ e = outgoing[1] /\ 1 \in 1 .. Len(outgoing)
      BY <1>2, <2>1
    <2>3. Len(outgoing) \in Nat /\ Len(Tail(outgoing)) = Len(outgoing) - 1
      BY <2>1
    <2>4. \A k \in 1 .. Len(Tail(outgoing)) :
            k + 1 \in 1 .. Len(outgoing) /\ Tail(outgoing)[k] = outgoing[k + 1]
      BY <2>1, <2>3
    <2>5. \A k \in 1 .. Len(outgoing) :
            k # 1 => k - 1 \in 1 .. Len(Tail(outgoing)) /\ Tail(outgoing)[k - 1] = outgoing[k]
      <3>1. \A k \in 1 .. Len(outgoing) :
              k # 1 => k - 1 \in 1 .. Len(Tail(outgoing)) /\ (k - 1) + 1 = k
        BY <2>3
      <3> QED
        BY <2>4, <3>1
    <2> QED
      BY <2>2, <2>3, <2>4, <2>5
  <1>4. latest'.gen = latest.gen /\ latest'.index = latest.index
    BY DEF WorkerTriesSend, TypeOK, HistoryTypeOK
  <1>5. CASE /\ outgoing' = << >> /\ latest'.lost /\ UNCHANGED emitted
    <2>1. Len(outgoing') = 0
      BY <1>5
    <2>2. \A x : Reported(x)' = Reported(x)
      BY <1>5 DEF Reported
    <2>3. LatestInStep'
      BY <1>1, <1>4, <1>5, <2>1 DEF ReportInv, LatestInStep
    <2>4. DoneAccounted'
      BY <1>1, <1>5, <2>2 DEF ReportInv, DoneAccounted
    <2>5. IndexAccounted'
      BY <1>5 DEF IndexAccounted
    <2>6. ASSUME NEW point \in stopped
          PROVE  StoppedAt(point)'
      <3>1. StoppedAt(point)
        BY <2>6 DEF ReportInv, StopsAccounted
      <3> QED
        BY <1>1, <1>5, <2>1, <3>1 DEF StoppedAt
    <2> QED
      BY <1>1, <2>3, <2>4, <2>5, <2>6 DEF ReportInv, StopsAccounted
  <1>6. CASE /\ outgoing' = Tail(outgoing) /\ latest' = latest
             /\ ~IsProgress(e) /\ UNCHANGED emitted
    <2>1. e.kind \notin {"Index", "Done", "Stopped"}
      BY <1>6 DEF IsProgress, ProgressKinds
    <2>2. \A x : Reported(x)' = Reported(x)
      BY <1>6 DEF Reported
    <2>3. \A g : Held(DoneEvent(g)) = Held(DoneEvent(g))'
      <3>1. \A g : DoneEvent(g).kind = "Done"
        BY DEF DoneEvent
      <3>2. ASSUME NEW x, x.kind = "Done"
            PROVE  Held(x) <=> Held(x)'
        <4>1. \A k \in 1 .. Len(outgoing) : outgoing[k] = x => k # 1
          BY <1>3, <2>1, <3>2
        <4> QED
          BY <1>3, <1>6, <4>1 DEF Held
      <3>3. \A x : Held(x) \in BOOLEAN /\ Held(x)' \in BOOLEAN
        BY DEF Held
      <3> QED
        BY <3>1, <3>2, <3>3
    <2>4. LatestInStep'
      BY <1>1, <1>3, <1>4, <1>6 DEF ReportInv, LatestInStep
    <2>5. DoneAccounted'
      BY <1>1, <1>6, <2>2, <2>3 DEF ReportInv, DoneAccounted
    <2>6. IndexAccounted'
      BY <1>1, <1>3, <1>6, <2>1, <2>2, <2>3
         DEF ReportInv, IndexAccounted, IndexReported, IndexPending, IndexHeld, IsLatest
    <2>7. Len(outgoing) = 1
      <3>1. ~(Len(outgoing) = 2) /\ Len(outgoing) <= 2
        BY <1>3, <2>1 DEF OutgoingInStep
      <3>2. PICK n : n = Len(outgoing)
        OBVIOUS
      <3>3. n \in Nat /\ 1 <= n
        BY <1>3, <3>2
      <3>4. n # 2 /\ n <= 2
        BY <3>1, <3>2
      <3>5. n = 1
        BY <3>3, <3>4
      <3> QED
        BY <3>2, <3>5
    <2>8. ASSUME NEW point \in stopped
          PROVE  StoppedAt(point)'
      <3>1. StoppedAt(point)
        BY <2>8 DEF ReportInv, StopsAccounted
      <3>2. \A k \in 1 .. Len(outgoing') : FALSE
        BY <1>3, <1>6, <2>7
      <3> QED
        BY <1>1, <1>6, <3>1, <3>2 DEF StoppedAt
    <2> QED
      BY <1>1, <2>4, <2>5, <2>6, <2>8 DEF ReportInv, StopsAccounted
  <1>7. CASE /\ outgoing' = Tail(outgoing) /\ latest' = latest
             /\ IsProgress(e) /\ emitted' = Append(emitted, e)
    <2>1. /\ Len(emitted) \in Nat /\ Len(emitted') = Len(emitted) + 1
          /\ emitted'[Len(emitted) + 1] = e
          /\ \A k \in 1 .. Len(emitted) : emitted'[k] = emitted[k]
          /\ \A k \in 1 .. Len(emitted') : k \in 1 .. Len(emitted) \/ k = Len(emitted) + 1
          /\ Len(emitted) + 1 \in 1 .. Len(emitted')
          /\ \A k \in 1 .. Len(emitted) : k \in 1 .. Len(emitted')
      <3>1. emitted \in Seq(EngineEvents)
        BY ReportTypes
      <3>2. /\ Len(emitted) \in Nat /\ Len(emitted') = Len(emitted) + 1
            /\ emitted'[Len(emitted) + 1] = e
            /\ \A k \in 1 .. Len(emitted) : emitted'[k] = emitted[k]
        BY <1>3, <1>7, <3>1
      <3> QED
        BY <3>2
    <2>2. \A x : (Reported(x) => Reported(x)') /\ (Reported(x)' => Reported(x) \/ x = e)
      BY <2>1 DEF Reported
    <2>3. Reported(e)'
      BY <2>1 DEF Reported
    <2>4. \A x : (Held(x) => Held(x)' \/ x = e) /\ (Held(x)' => Held(x))
      BY <1>3, <1>7 DEF Held
    <2>5. LatestInStep'
      <3>1. \A k \in 1 .. Len(emitted') : emitted'[k].gen <= latest.gen
        <4>1. e.gen <= latest.gen
          BY <1>3 DEF ReportInv, LatestInStep
        <4> QED
          BY <2>1, <4>1 DEF ReportInv, LatestInStep
      <3>2. \A k \in 1 .. Len(outgoing') : outgoing'[k].gen <= latest.gen
        BY <1>3, <1>7 DEF ReportInv, LatestInStep
      <3> QED
        BY <1>1, <1>7, <3>1, <3>2 DEF ReportInv, LatestInStep
    <2>6. \A g : e = DoneEvent(g) => tracker.generation = g /\ tracker.done
      <3>1. \A g : DoneEvent(g).kind = "Done" /\ DoneEvent(g).gen = g
        BY DEF DoneEvent
      <3>2. e.kind = "Done" => e.gen = tracker.generation /\ tracker.done
        BY <1>3, <1>7 DEF OutgoingInStep
      <3> QED
        BY <3>1, <3>2
    <2>7. DoneAccounted'
      BY <1>1, <1>7, <2>2, <2>3, <2>4, <2>6 DEF ReportInv, DoneAccounted
    <2>8. IndexAccounted'
      <3>1. IndexReported => IndexReported'
        BY <1>7, <2>1 DEF IndexReported, IsLatest
      <3>2. IndexHeld => IndexReported'
        BY <1>3, <1>7, <2>1 DEF IndexReported, IndexHeld, IsLatest
      <3>3. IndexPending' = IndexPending
        BY <1>1, <1>7 DEF IndexPending
      <3>4. ~Held(DoneEvent(latest.gen)) => e # DoneEvent(latest.gen)
        BY <1>3 DEF Held
      <3>5. PICK d : d = DoneEvent(latest.gen) /\ d = DoneEvent(latest'.gen)
        BY <1>7
      <3>6. (Reported(d)' => Reported(d) \/ e = d) /\ (Held(d)' => Held(d))
        BY <2>2, <2>4
      <3>7. /\ Reported(DoneEvent(latest.gen))'
                 => Reported(DoneEvent(latest.gen)) \/ e = DoneEvent(latest.gen)
            /\ Held(DoneEvent(latest.gen))' => Held(DoneEvent(latest.gen))
        BY <3>5, <3>6
      <3> QED
        BY <1>1, <1>7, <3>1, <3>2, <3>3, <3>4, <3>7 DEF ReportInv, IndexAccounted
    <2>9. ASSUME NEW point \in stopped
          PROVE  StoppedAt(point)'
      <3>1. StoppedAt(point) /\ point.at \in Nat
        BY <2>9, ReportTypes DEF ReportInv, StopsAccounted
      <3>2. ASSUME NEW k \in 1 .. Len(emitted'), k > point.at, emitted'[k].gen = point.gen
            PROVE  emitted'[k].kind = "Stopped"
        BY <1>3, <2>1, <3>1, <3>2 DEF StoppedAt
      <3>3. ASSUME NEW k \in 1 .. Len(outgoing'),
                   Len(emitted') + k > point.at, outgoing'[k].gen = point.gen
            PROVE  outgoing'[k].kind = "Stopped"
        <4>1. k + 1 \in 1 .. Len(outgoing) /\ outgoing'[k] = outgoing[k + 1]
          BY <1>3, <1>7, <3>3
        <4>2. Len(emitted) + (k + 1) > point.at
          BY <2>1, <3>1, <3>3
        <4> QED
          BY <3>1, <3>3, <4>1, <4>2 DEF StoppedAt
      <3> QED
        BY <1>1, <3>1, <3>2, <3>3 DEF StoppedAt
    <2> QED
      BY <1>1, <2>5, <2>7, <2>8, <2>9 DEF ReportInv, StopsAccounted
  <1>8. latest'.lost \/ latest' = latest
    BY DEF WorkerTriesSend, TypeOK, HistoryTypeOK
  <1> QED
    BY <1>2, <1>5, <1>6, <1>7, <1>8 DEF WorkerTriesSend, TypeOK, HistoryTypeOK

\* Every step keeps the accounts.
LEMMA StepReports ==
  ASSUME TypeOK, GenerationsInOrder, OutgoingInStep, ReportInv, [Next]_vars
  PROVE  ReportInv'
  <1>1. CASE HandleIndexCallback
    <2>1. /\ wpc = "callback" /\ wpc' = "callbackSend" /\ callback.kind = "index"
          /\ UNCHANGED << emitted, latest, stopped, cancellation_requested >>
      BY <1>1 DEF HandleIndexCallback, eventVars, historyVars
    <2>2. CASE callback.value = FINAL_INDEX
      <3>1. outgoing' = CompletionEvents(tracker) /\ tracker' = Complete(tracker)
        BY <1>1, <2>2 DEF HandleIndexCallback
      <3>2. callback = Message("index", FINAL_INDEX)
        BY <2>1, <2>2 DEF TypeOK, EngineTypeOK, Messages, Message
      <3>3. \A point \in stopped : tracker.generation # point.gen
        BY <2>1, <3>2 DEF ReportInv, StopsAccounted, StoppedAt
      <3> QED
        BY <2>1, <3>1, <3>3, CompletionMadeInOrder
    <2>3. CASE callback.value # FINAL_INDEX
      BY <1>1, <2>1, <2>3, IndexMadeInOrder DEF HandleIndexCallback
    <2> QED
      BY <2>2, <2>3
  <1>2. CASE WorkerFinishes
    <2>1. /\ wpc = "finish" /\ wpc' = "finalSend"
          /\ UNCHANGED << emitted, latest, stopped, cancellation_requested >>
      BY <1>2 DEF WorkerFinishes, eventVars, historyVars
    <2>2. CASE cancellation_requested
      BY <1>2, <2>1, <2>2, StoppedMadeInOrder DEF WorkerFinishes
    <2>3. CASE ~cancellation_requested
      <3>1. \A point \in stopped : tracker.generation # point.gen
        BY <2>3 DEF ReportInv, StopsAccounted, StoppedAt
      <3> QED
        BY <1>2, <2>1, <2>3, <3>1, CompletionMadeInOrder DEF WorkerFinishes
    <2> QED
      BY <2>2, <2>3
  <1> QED
    BY <1>1, <1>2, ReportingSteps, QuietKeepsAccounts, InitializeKeepsAccounts,
       StopKeepsAccounts, BeginKeepsAccounts, InsertKeepsAccounts, AudioMadeInOrder,
       OfferKeepsAccounts

\* The accounts are in order in every reachable state.
LEMMA Accounts == Spec => [](TypeOK /\ OutgoingInStep /\ ReportInv)
  <1>1. Init => StreamInv /\ ReportInv
    <2> SUFFICES ASSUME Init PROVE StreamInv /\ ReportInv
      OBVIOUS
    <2>1. /\ Len(emitted) = 0 /\ Len(outgoing) = 0 /\ stopped = {}
          /\ tracker.generation = NoGeneration /\ latest.index = FINAL_INDEX
      BY DEF Init, HostAtRest, DefaultTracker
    <2> QED
      BY <2>1, InitStream
         DEF ReportInv, LatestInStep, DoneAccounted, IndexAccounted, StopsAccounted
  <1>2. TypeOK /\ TypeOK' /\ StreamInv /\ ReportInv /\ [Next]_vars => StreamInv' /\ ReportInv'
    BY StepStream, StepReports DEF StreamInv
  <1>3. StreamInv => OutgoingInStep
    BY DEF StreamInv
  <1> QED
    BY <1>1, <1>2, <1>3, TypeCorrect, PTL DEF Spec

\* Completing a synthesis reports Done, whatever ECI and the client do meanwhile,
\* unless the event channel refused an event of the generation.
THEOREM CompletionsAreReported == Spec => []CompletionReported
  <1>1. TypeOK /\ OutgoingInStep /\ ReportInv => CompletionReported
    <2> SUFFICES ASSUME TypeOK, OutgoingInStep, ReportInv,
                        wpc = "respond", ~latest.lost,
                        tracker.done, tracker.generation # NoGeneration
                 PROVE  \E k \in DOMAIN emitted : emitted[k] = DoneEvent(tracker.generation)
      BY DEF CompletionReported
    <2>1. Len(outgoing) = 0
      BY NothingHeld
    <2>2. Reported(DoneEvent(tracker.generation))
      BY <2>1 DEF ReportInv, DoneAccounted, Held
    <2>3. DOMAIN emitted = 1 .. Len(emitted)
      BY ReportTypes
    <2> QED
      BY <2>2, <2>3 DEF Reported
  <1> QED
    BY <1>1, Accounts, PTL

\* Before a generation's Done comes the newest index inserted into it, even when
\* ECI did not call it back, unless the event channel refused an event.
THEOREM LastIndexIsReported == Spec => []LastIndexBeforeDone
  <1>1. TypeOK /\ OutgoingInStep /\ ReportInv => LastIndexBeforeDone
    <2> SUFFICES ASSUME TypeOK, ReportInv,
                        DoneEvent(latest.gen) \in {emitted[k] : k \in DOMAIN emitted},
                        latest.index # FINAL_INDEX, ~latest.lost
                 PROVE  \E k \in DOMAIN emitted : IsLatest(emitted[k])
      BY DEF LastIndexBeforeDone, IsLatest
    <2>1. DOMAIN emitted = 1 .. Len(emitted)
      BY ReportTypes
    <2>2. Reported(DoneEvent(latest.gen))
      BY <2>1 DEF Reported
    <2> QED
      BY <2>1, <2>2 DEF ReportInv, IndexAccounted, IndexReported
  <1> QED
    BY <1>1, Accounts, PTL

\* A Stop that meets a generation in progress is the end of it.
THEOREM StopsEndGenerations == Spec => []CancellationIsPrompt
  <1>1. TypeOK /\ OutgoingInStep /\ ReportInv => CancellationIsPrompt
    <2> SUFFICES ASSUME TypeOK, ReportInv PROVE CancellationIsPrompt
      OBVIOUS
    <2>1. DOMAIN emitted = 1 .. Len(emitted)
      BY ReportTypes
    <2> QED
      BY <2>1 DEF ReportInv, StopsAccounted, StoppedAt, CancellationIsPrompt
  <1> QED
    BY <1>1, Accounts, PTL

-----------------------------------------------------------------------------
(* The client reads the progress in the order in which it was made.        *)

\* f gathers the progress of s, frame by frame.
Gathers(f, s) ==
  f = [n \in 0 .. Len(s) |->
         IF n = 0 THEN << >>
         ELSE IF IsProgress(s[n]) THEN Append(f[n - 1], s[n]) ELSE f[n - 1]]

\* What such a function is, value by value.
LEMMA GathersStepwise ==
  ASSUME NEW s, Len(s) \in Nat, NEW f
  PROVE  Gathers(f, s) <=>
           /\ f = [n \in 0 .. Len(s) |-> f[n]]
           /\ f[0] = << >>
           /\ \A n \in 1 .. Len(s) :
                f[n] = IF IsProgress(s[n]) THEN Append(f[n - 1], s[n]) ELSE f[n - 1]
  <1>1. ASSUME Gathers(f, s)
        PROVE  /\ f = [n \in 0 .. Len(s) |-> f[n]]
               /\ f[0] = << >>
               /\ \A n \in 1 .. Len(s) :
                    f[n] = IF IsProgress(s[n]) THEN Append(f[n - 1], s[n]) ELSE f[n - 1]
    <2> DEFINE next(n) == IF IsProgress(s[n]) THEN Append(f[n - 1], s[n]) ELSE f[n - 1]
    <2>1. f = [n \in 0 .. Len(s) |-> IF n = 0 THEN << >> ELSE next(n)]
      BY <1>1 DEF Gathers
    <2> HIDE DEF next
    <2>2. /\ f = [n \in 0 .. Len(s) |-> f[n]]
          /\ f[0] = << >>
          /\ \A n \in 1 .. Len(s) : f[n] = next(n)
      BY <2>1
    <2> QED
      BY <2>2 DEF next
  <1>2. ASSUME /\ f = [n \in 0 .. Len(s) |-> f[n]]
               /\ f[0] = << >>
               /\ \A n \in 1 .. Len(s) :
                    f[n] = IF IsProgress(s[n]) THEN Append(f[n - 1], s[n]) ELSE f[n - 1]
        PROVE  Gathers(f, s)
    <2> DEFINE g == [n \in 0 .. Len(s) |->
                       IF n = 0 THEN << >>
                       ELSE IF IsProgress(s[n]) THEN Append(f[n - 1], s[n]) ELSE f[n - 1]]
    <2>1. \A n \in 0 .. Len(s) : g[n] = f[n]
      BY <1>2
    <2>2. DOMAIN f = 0 .. Len(s) /\ DOMAIN g = 0 .. Len(s)
      BY <1>2
    <2>3. g = [n \in 0 .. Len(s) |-> g[n]]
      OBVIOUS
    <2> HIDE DEF g
    <2>4. f = g
      BY <1>2, <2>1, <2>3
    <2> QED
      BY <2>4 DEF Gathers, g
  <1> QED
    BY <1>1, <1>2

\* Two of them agree as far as their sequences do.
LEMMA GathersUnique ==
  ASSUME NEW s, NEW t, Len(s) \in Nat, Len(t) \in Nat, Len(s) <= Len(t),
         \A n \in 1 .. Len(s) : t[n] = s[n],
         NEW f, NEW g, Gathers(f, s), Gathers(g, t)
  PROVE  \A n \in 0 .. Len(s) : f[n] = g[n]
  <1> DEFINE Differ == {n \in 0 .. Len(s) : f[n] # g[n]}
  <1> SUFFICES ASSUME Differ # {} PROVE FALSE
    OBVIOUS
  <1>1. Differ \in SUBSET Nat
    OBVIOUS
  <1>2. PICK n \in Differ : \A m \in Differ : n <= m
    <2> HIDE DEF Differ
    <2> QED
      BY <1>1, LeastNumber
  <1>3. f[0] = << >> /\ g[0] = << >>
    BY GathersStepwise
  <1>4. n # 0 /\ n \in 1 .. Len(s) /\ n \in 1 .. Len(t)
    BY <1>3
  <1>5. f[n - 1] = g[n - 1]
    BY <1>2, <1>4
  <1>6. /\ f[n] = IF IsProgress(s[n]) THEN Append(f[n - 1], s[n]) ELSE f[n - 1]
        /\ g[n] = IF IsProgress(t[n]) THEN Append(g[n - 1], t[n]) ELSE g[n - 1]
    BY <1>4, GathersStepwise
  <1>7. f[n] = g[n]
    BY <1>4, <1>5, <1>6
  <1> QED
    BY <1>7

\* There is one for every sequence.
LEMMA GathersExists ==
  ASSUME NEW S, NEW s \in Seq(S)
  PROVE  \E f : Gathers(f, s)
  <1> DEFINE Partial(f, k) ==
               /\ f[0] = << >>
               /\ \A n \in 1 .. k :
                    f[n] = IF IsProgress(s[n]) THEN Append(f[n - 1], s[n]) ELSE f[n - 1]
             Missing == {k \in Nat : ~ \E f : Partial(f, k)}
  <1>1. Missing = {}
    <2> SUFFICES ASSUME Missing # {} PROVE FALSE
      OBVIOUS
    <2>1. PICK k \in Missing : \A m \in Missing : k <= m
      <3>1. Missing \in SUBSET Nat
        OBVIOUS
      <3> HIDE DEF Missing
      <3> QED
        BY <3>1, LeastNumber
    <2>2. k # 0
      <3>1. Partial([n \in {0} |-> << >>], 0)
        OBVIOUS
      <3> HIDE DEF Partial
      <3> QED
        BY <3>1
    <2>3. PICK f : Partial(f, k - 1)
      <3>1. k - 1 \in Nat /\ ~(k <= k - 1)
        BY <2>2
      <3>2. k - 1 \notin Missing
        BY <2>1, <3>1
      <3> HIDE DEF Partial
      <3> QED
        BY <3>1, <3>2
    <2> DEFINE last == IF IsProgress(s[k]) THEN Append(f[k - 1], s[k]) ELSE f[k - 1]
               g == [n \in 0 .. k |-> IF n = k THEN last ELSE f[n]]
    <2>4. g[0] = f[0] /\ g[k] = last /\ \A n \in 1 .. k : g[n - 1] = f[n - 1]
      BY <2>2
    <2>5. \A n \in 1 .. k : n # k => n \in 1 .. (k - 1) /\ g[n] = f[n]
      BY <2>2
    <2> HIDE DEF g
    <2>6. Partial(g, k)
      BY <2>2, <2>3, <2>4, <2>5
    <2> HIDE DEF Partial
    <2> QED
      BY <2>6
  <1>2. PICK f : Partial(f, Len(s))
    <2>1. Len(s) \in Nat
      OBVIOUS
    <2> HIDE DEF Partial
    <2> QED
      BY <1>1, <2>1
  <1> DEFINE g == [n \in 0 .. Len(s) |-> f[n]]
  <1>3. /\ g = [n \in 0 .. Len(s) |-> g[n]]
        /\ g[0] = f[0] /\ \A n \in 1 .. Len(s) : g[n] = f[n] /\ g[n - 1] = f[n - 1]
    OBVIOUS
  <1> HIDE DEF g
  <1>4. Gathers(g, s)
    BY <1>2, <1>3, GathersStepwise
  <1> QED
    BY <1>4

\* ProgressIn is the last value of such a function.
LEMMA ProgressGathered ==
  ASSUME NEW S, NEW s \in Seq(S)
  PROVE  \E f : Gathers(f, s) /\ ProgressIn(s) = f[Len(s)]
  <1> DEFINE f == CHOOSE first : Gathers(first, s)
  <1>1. Gathers(f, s)
    BY GathersExists
  <1>2. ProgressIn(s) = f[Len(s)]
    BY DEF ProgressIn, Gathers
  <1> HIDE DEF f
  <1> QED
    BY <1>1, <1>2

\* One more frame at the end adds itself if it is progress.
LEMMA ProgressOfAppend ==
  ASSUME NEW S, NEW s \in Seq(S), NEW e \in S
  PROVE  ProgressIn(Append(s, e)) =
           IF IsProgress(e) THEN Append(ProgressIn(s), e) ELSE ProgressIn(s)
  <1>1. PICK t : t = Append(s, e)
    OBVIOUS
  <1>2. /\ t \in Seq(S) /\ Len(s) \in Nat /\ Len(t) = Len(s) + 1 /\ t[Len(t)] = e
        /\ \A n \in 1 .. Len(s) : t[n] = s[n]
    BY <1>1
  <1>3. PICK f : Gathers(f, s) /\ ProgressIn(s) = f[Len(s)]
    BY ProgressGathered
  <1>4. PICK g : Gathers(g, t) /\ ProgressIn(t) = g[Len(t)]
    BY <1>2, ProgressGathered
  <1>5. f[Len(s)] = g[Len(s)]
    <2>1. Len(s) <= Len(t) /\ Len(t) \in Nat /\ Len(s) \in 0 .. Len(s)
      BY <1>2
    <2> QED
      BY <1>2, <1>3, <1>4, <2>1, GathersUnique
  <1>6. g[Len(t)] = IF IsProgress(e) THEN Append(g[Len(s)], e) ELSE g[Len(s)]
    <2>1. Len(t) \in Nat /\ Len(t) \in 1 .. Len(t) /\ Len(t) - 1 = Len(s)
      BY <1>2
    <2> QED
      BY <1>2, <1>4, <2>1, GathersStepwise
  <1> QED
    BY <1>1, <1>3, <1>4, <1>5, <1>6

\* What is gathered is a sequence of the frames.
LEMMA GathersType ==
  ASSUME NEW S, NEW s \in Seq(S), NEW f, Gathers(f, s)
  PROVE  \A n \in 0 .. Len(s) : f[n] \in Seq(S)
  <1>1. /\ f[0] = << >>
        /\ \A n \in 1 .. Len(s) :
             f[n] = IF IsProgress(s[n]) THEN Append(f[n - 1], s[n]) ELSE f[n - 1]
    BY GathersStepwise
  <1> DEFINE Untyped == {n \in 0 .. Len(s) : f[n] \notin Seq(S)}
  <1> SUFFICES ASSUME Untyped # {} PROVE FALSE
    OBVIOUS
  <1>2. PICK n \in Untyped : \A m \in Untyped : n <= m
    <2>1. Untyped \in SUBSET Nat
      OBVIOUS
    <2> HIDE DEF Untyped
    <2> QED
      BY <2>1, LeastNumber
  <1>3. n # 0 /\ n \in 1 .. Len(s)
    <2>1. f[0] \in Seq(S)
      BY <1>1
    <2> QED
      BY <2>1
  <1>4. f[n - 1] \in Seq(S)
    BY <1>2, <1>3
  <1>5. s[n] \in S
    BY <1>3
  <1>6. f[n] \in Seq(S)
    BY <1>1, <1>3, <1>4, <1>5, AppendType
  <1> QED
    BY <1>6

\* No frames, no progress; and progress is a sequence of frames.
LEMMA ProgressType ==
  ASSUME NEW S
  PROVE  /\ ProgressIn(<< >>) = << >>
         /\ \A s \in Seq(S) : ProgressIn(s) \in Seq(S)
  <1>1. ProgressIn(<< >>) = << >>
    <2>1. << >> \in Seq(S) /\ Len(<< >>) = 0
      OBVIOUS
    <2>2. PICK f : Gathers(f, << >>) /\ ProgressIn(<< >>) = f[Len(<< >>)]
      BY <2>1, ProgressGathered
    <2> QED
      BY <2>1, <2>2, GathersStepwise
  <1>2. ASSUME NEW s \in Seq(S)
        PROVE  ProgressIn(s) \in Seq(S)
    <2>1. PICK f : Gathers(f, s) /\ ProgressIn(s) = f[Len(s)]
      BY ProgressGathered
    <2>2. Len(s) \in 0 .. Len(s)
      OBVIOUS
    <2> QED
      BY <2>1, <2>2, GathersType
  <1> QED
    BY <1>1, <1>2

\* One sequence followed by another, for the steps that need not look inside.
u ++ v == u \o v

\* Appending to the second of two sequences appends to both.
LEMMA AppendBehind ==
  ASSUME NEW S, NEW u \in Seq(S), NEW v \in Seq(S), NEW e \in S
  PROVE  Append(u ++ v, e) = u ++ Append(v, e)
  BY DEF ++

\* The first frame comes first among the progress, if it is progress.
LEMMA ProgressOfHead ==
  ASSUME NEW S, NEW s \in Seq(S), s # << >>
  PROVE  ProgressIn(s) =
           (IF IsProgress(Head(s)) THEN << Head(s) >> ELSE << >>) \o ProgressIn(Tail(s))
  <1>1. PICK t : t = Tail(s)
    OBVIOUS
  <1>2. /\ t \in Seq(S) /\ Len(s) \in Nat /\ Len(t) \in Nat /\ Len(s) = Len(t) + 1
        /\ Head(s) = s[1] /\ s[1] \in S
        /\ \A n \in 1 .. Len(t) : t[n] = s[n + 1] /\ t[n] \in S
    BY <1>1
  <1>3. PICK f : Gathers(f, t) /\ ProgressIn(t) = f[Len(t)]
    BY <1>2, ProgressGathered
  <1>4. PICK g : Gathers(g, s) /\ ProgressIn(s) = g[Len(s)]
    BY ProgressGathered
  <1>5. PICK first : first = IF IsProgress(Head(s)) THEN << Head(s) >> ELSE << >>
    OBVIOUS
  <1>6. first \in Seq(S)
    BY <1>2, <1>5
  <1>7. /\ f[0] = << >>
        /\ \A n \in 1 .. Len(t) :
             f[n] = IF IsProgress(t[n]) THEN Append(f[n - 1], t[n]) ELSE f[n - 1]
        /\ \A n \in 0 .. Len(t) : f[n] \in Seq(S)
    BY <1>2, <1>3, GathersStepwise, GathersType
  <1>8. /\ g[0] = << >>
        /\ \A n \in 1 .. Len(s) :
             g[n] = IF IsProgress(s[n]) THEN Append(g[n - 1], s[n]) ELSE g[n - 1]
    BY <1>2, <1>4, GathersStepwise
  <1> DEFINE Differ == {n \in 0 .. Len(t) : g[n + 1] # first ++ f[n]}
  <1>9. Differ = {}
    <2> SUFFICES ASSUME Differ # {} PROVE FALSE
      OBVIOUS
    <2>1. PICK n \in Differ : \A m \in Differ : n <= m
      <3>1. Differ \in SUBSET Nat
        OBVIOUS
      <3> HIDE DEF Differ
      <3> QED
        BY <3>1, LeastNumber
    <2>2. n # 0
      <3>1. 1 \in 1 .. Len(s) /\ 1 - 1 = 0
        BY <1>2
      <3>2. g[1] = IF IsProgress(s[1]) THEN Append(g[0], s[1]) ELSE g[0]
        BY <1>8, <3>1
      <3>3. Append(<< >>, s[1]) = << s[1] >>
        OBVIOUS
      <3>4. g[1] = first
        BY <1>2, <1>5, <1>8, <3>2, <3>3
      <3>5. first ++ << >> = first
        BY <1>6, ConcatEmptySeq DEF ++
      <3>6. g[0 + 1] = first ++ f[0]
        BY <1>7, <3>4, <3>5
      <3> QED
        BY <3>6
    <2>3. /\ n \in 1 .. Len(t) /\ n - 1 \in 0 .. Len(t) /\ (n - 1) + 1 = n
          /\ n + 1 \in 1 .. Len(s) /\ (n + 1) - 1 = n /\ ~(n <= n - 1)
      BY <1>2, <2>2
    <2>4. g[n] = first ++ f[n - 1]
      <3>1. n - 1 \notin Differ
        BY <2>1, <2>3
      <3>2. g[(n - 1) + 1] = first ++ f[n - 1]
        BY <2>3, <3>1
      <3> QED
        BY <2>3, <3>2
    <2>5. g[n + 1] = IF IsProgress(s[n + 1]) THEN Append(g[n], s[n + 1]) ELSE g[n]
      BY <1>8, <2>3
    <2>6. t[n] = s[n + 1] /\ t[n] \in S /\ f[n - 1] \in Seq(S)
      BY <1>2, <1>7, <2>3
    <2>7. Append(first ++ f[n - 1], t[n]) = first ++ Append(f[n - 1], t[n])
      <3>1. PICK v, e : v = f[n - 1] /\ e = t[n]
        OBVIOUS
      <3>2. v \in Seq(S) /\ e \in S
        BY <2>6, <3>1
      <3>3. Append(first ++ v, e) = first ++ Append(v, e)
        BY <1>6, <3>2, AppendBehind
      <3> QED
        BY <3>1, <3>3
    <2>8. f[n] = IF IsProgress(t[n]) THEN Append(f[n - 1], t[n]) ELSE f[n - 1]
      BY <1>7, <2>3
    <2>9. g[n + 1] = first ++ f[n]
      BY <2>4, <2>5, <2>6, <2>7, <2>8
    <2> QED
      BY <2>9
  <1>10. g[Len(t) + 1] = first ++ f[Len(t)]
    BY <1>2, <1>9
  <1> QED
    BY <1>1, <1>2, <1>3, <1>4, <1>5, <1>10 DEF ++

\* A frame that moves from one channel to the next one stays in its place.
LEMMA ProgressMoved ==
  ASSUME NEW S, NEW a \in Seq(S), NEW b \in Seq(S), b # << >>
  PROVE  ProgressIn(Append(a, Head(b))) \o ProgressIn(Tail(b)) = ProgressIn(a) \o ProgressIn(b)
  <1>1. PICK h : h = Head(b)
    OBVIOUS
  <1>2. h \in S /\ Tail(b) \in Seq(S)
    BY <1>1
  <1>3. PICK p, q : p = ProgressIn(a) /\ q = ProgressIn(Tail(b))
    OBVIOUS
  <1>4. p \in Seq(S) /\ q \in Seq(S) /\ << h >> \in Seq(S)
    <2>1. p \in Seq(S) /\ q \in Seq(S)
      BY <1>2, <1>3, ProgressType, Zenon
    <2> QED
      BY <1>2, <2>1
  <1>5. ProgressIn(b) = (IF IsProgress(h) THEN << h >> ELSE << >>) \o q
    BY <1>1, <1>3, ProgressOfHead
  <1>6. ProgressIn(Append(a, h)) = IF IsProgress(h) THEN Append(p, h) ELSE p
    BY <1>2, <1>3, ProgressOfAppend
  <1>7. Append(p, h) = p \o << h >>
    BY <1>2, <1>4, AppendIsConcat
  <1>8. (p \o << h >>) \o q = p \o (<< h >> \o q) /\ << >> \o q = q
    BY <1>4, ConcatAssociative, ConcatEmptySeq
  <1> QED
    BY <1>1, <1>3, <1>5, <1>6, <1>7, <1>8

\* A frame that is no progress may come to the end of a channel, or leave it.
LEMMA ResponseIgnored ==
  ASSUME NEW S, NEW s \in Seq(S)
  PROVE  /\ \A e \in S : ~IsProgress(e) => ProgressIn(Append(s, e)) = ProgressIn(s)
         /\ s # << >> /\ ~IsProgress(Head(s)) => ProgressIn(Tail(s)) = ProgressIn(s)
  <1>1. \A e \in S : ~IsProgress(e) => ProgressIn(Append(s, e)) = ProgressIn(s)
    BY ProgressOfAppend
  <1>2. ASSUME s # << >>, ~IsProgress(Head(s))
        PROVE  ProgressIn(Tail(s)) = ProgressIn(s)
    <2>1. ProgressIn(s) = << >> \o ProgressIn(Tail(s))
      BY <1>2, ProgressOfHead
    <2>2. Tail(s) \in Seq(S)
      BY <1>2
    <2>3. PICK p : p = ProgressIn(Tail(s))
      OBVIOUS
    <2>4. p \in Seq(S)
      BY <2>2, <2>3, ProgressType, Zenon
    <2> QED
      BY <2>1, <2>3, <2>4, ConcatEmptySeq
  <1> QED
    BY <1>1, <1>2

\* What the client has read, and what is on its way to it, nearest first.
Line == ProgressIn(heard) ++ (ProgressIn(stdout) ++ (ProgressIn(outbound)
          ++ (ProgressIn(forwarding) ++ ProgressIn(events))))

\* Sequences of frames are concatenated into sequences of frames.
LEMMA FramesConcat == \A u, v \in Seq(Frames) : u ++ v \in Seq(Frames)
  BY ConcatProperties DEF ++

\* Three channels are one line, however they are put together.
LEMMA FramesRegroup == \A u, v, w \in Seq(Frames) : (u ++ v) ++ w = u ++ (v ++ w)
  BY ConcatAssociative DEF ++

\* A frame appended to the second of two channels comes to the end of both.
LEMMA FramesAppend ==
  \A u, v \in Seq(Frames) : \A h \in Frames :
    Append(v, h) \in Seq(Frames) /\ Append(u ++ v, h) = u ++ Append(v, h)
  <1>1. ASSUME NEW u \in Seq(Frames), NEW v \in Seq(Frames), NEW h \in Frames
        PROVE  Append(v, h) \in Seq(Frames) /\ Append(u ++ v, h) = u ++ Append(v, h)
    BY DEF ++
  <1> QED
    BY <1>1

\* A frame may move between two channels that others follow.
LEMMA Exchanged ==
  ASSUME NEW b, NEW c, NEW r, NEW y, NEW z, y ++ z = b ++ c,
         b \in Seq(Frames), c \in Seq(Frames), r \in Seq(Frames),
         y \in Seq(Frames), z \in Seq(Frames)
  PROVE  y ++ (z ++ r) = b ++ (c ++ r)
  <1>1. (y ++ z) ++ r = y ++ (z ++ r)
    BY FramesRegroup
  <1>2. (b ++ c) ++ r = b ++ (c ++ r)
    BY FramesRegroup
  <1> QED
    BY <1>1, <1>2

\* The line, written as the invariant writes it.
LEMMA LineAsWritten ==
  ASSUME NEW a, NEW b, NEW c, NEW d, NEW e, a \in Seq(Frames), b \in Seq(Frames),
         c \in Seq(Frames), d \in Seq(Frames), e \in Seq(Frames)
  PROVE  a ++ b ++ c ++ d ++ e = a ++ (b ++ (c ++ (d ++ e)))
  <1>1. PICK ab, de : ab = a ++ b /\ de = d ++ e
    OBVIOUS
  <1>2. ab \in Seq(Frames) /\ de \in Seq(Frames)
    BY <1>1, FramesConcat
  <1>3. PICK abc, cde : abc = ab ++ c /\ cde = c ++ de
    OBVIOUS
  <1>4. abc \in Seq(Frames) /\ cde \in Seq(Frames)
    BY <1>2, <1>3, FramesConcat
  <1>5. (abc ++ d) ++ e = abc ++ de
    BY <1>1, <1>4, FramesRegroup
  <1>6. abc ++ de = ab ++ cde
    BY <1>2, <1>3, FramesRegroup
  <1>7. ab ++ cde = a ++ (b ++ cde)
    BY <1>1, <1>4, FramesRegroup
  <1> QED
    BY <1>1, <1>3, <1>5, <1>6, <1>7

\* An element appended to the last channel comes to the end of the line.
LEMMA AppendToLine ==
  ASSUME NEW a, NEW b, NEW c, NEW d, NEW e, NEW h, a \in Seq(Frames), b \in Seq(Frames),
         c \in Seq(Frames), d \in Seq(Frames), e \in Seq(Frames), h \in Frames
  PROVE  Append(a ++ (b ++ (c ++ (d ++ e))), h) = a ++ (b ++ (c ++ (d ++ Append(e, h))))
  <1>1. PICK v : v = d ++ e
    OBVIOUS
  <1>2. v \in Seq(Frames) /\ Append(v, h) = d ++ Append(e, h)
    BY <1>1, FramesConcat, FramesAppend
  <1>3. PICK w : w = c ++ v
    OBVIOUS
  <1>4. w \in Seq(Frames) /\ Append(w, h) = c ++ Append(v, h)
    BY <1>2, <1>3, FramesConcat, FramesAppend
  <1>5. PICK x : x = b ++ w
    OBVIOUS
  <1>6. x \in Seq(Frames) /\ Append(x, h) = b ++ Append(w, h)
    BY <1>4, <1>5, FramesConcat, FramesAppend
  <1>7. Append(a ++ x, h) = a ++ Append(x, h)
    BY <1>6, FramesAppend
  <1> QED
    BY <1>1, <1>2, <1>3, <1>4, <1>5, <1>6, <1>7

\* The channels of the line hold frames.
LEMMA LineTypes ==
  ASSUME TypeOK
  PROVE  /\ heard \in Seq(Frames) /\ stdout \in Seq(Frames) /\ outbound \in Seq(Frames)
         /\ forwarding \in Seq(Frames) /\ events \in Seq(Frames)
         /\ ProgressIn(heard) \in Seq(Frames) /\ ProgressIn(stdout) \in Seq(Frames)
         /\ ProgressIn(outbound) \in Seq(Frames)
         /\ ProgressIn(forwarding) \in Seq(Frames) /\ ProgressIn(events) \in Seq(Frames)
         /\ \A f \in Responses : f \in Frames /\ ~IsProgress(f)
         /\ \A f \in Frames : IsProgress(f) => f.kind \notin ResponseKinds
  <1>1. /\ heard \in Seq(Frames) /\ stdout \in Seq(Frames) /\ outbound \in Seq(Frames)
        /\ forwarding \in Seq(EngineEvents) /\ events \in Seq(EngineEvents)
    BY DEF TypeOK, ChannelTypeOK, HistoryTypeOK
  <1>2. forwarding \in Seq(Frames) /\ events \in Seq(Frames)
    BY <1>1, FrameType
  <1>3. \A f \in Responses : f \in Frames /\ ~IsProgress(f)
    BY FrameType DEF Responses, ResponseKinds, IsProgress, ProgressKinds
  <1>4. \A f \in Frames : IsProgress(f) => f.kind \notin ResponseKinds
    BY DEF ResponseKinds, IsProgress, ProgressKinds
  <1> QED
    BY <1>1, <1>2, <1>3, <1>4, ProgressType, Zenon

\* While the writer runs, the line ends where the worker's emissions do.
LineRetained == writer => Line = emitted

\* The invariant speaks of this line.
LEMMA LineSpelled ==
  ASSUME TypeOK
  PROVE  LineRetained => OrderRetained
  <1>1. PICK a, b, c, d, e :
          /\ a = ProgressIn(heard) /\ b = ProgressIn(stdout) /\ c = ProgressIn(outbound)
          /\ d = ProgressIn(forwarding) /\ e = ProgressIn(events)
    OBVIOUS
  <1>2. /\ a \in Seq(Frames) /\ b \in Seq(Frames) /\ c \in Seq(Frames)
        /\ d \in Seq(Frames) /\ e \in Seq(Frames)
    BY <1>1, LineTypes
  <1>3. a ++ b ++ c ++ d ++ e = a ++ (b ++ (c ++ (d ++ e)))
    BY <1>2, LineAsWritten
  <1>4. Line = a ++ b ++ c ++ d ++ e
    BY <1>1, <1>3 DEF Line
  <1> QED
    BY <1>1, <1>4 DEF OrderRetained, LineRetained, ++

\* A response joins the outbound frames, or none does.
LEMMA SendingKeepsLine ==
  ASSUME TypeOK, NEW f \in Responses, SendsOutbound(f),
         UNCHANGED << heard, stdout, forwarding, events >>
  PROVE  Line' = Line
  <1>1. outbound' = outbound \/ outbound' = Append(outbound, f)
    BY DEF SendsOutbound
  <1>2. ProgressIn(outbound') = ProgressIn(outbound)
    <2>1. outbound \in Seq(Frames) /\ f \in Frames /\ ~IsProgress(f)
      BY LineTypes
    <2> QED
      BY <1>1, <2>1, ResponseIgnored
  <1> QED
    BY <1>2 DEF Line

\* The client takes the head of stdout; if it is progress, it has heard it.
LEMMA ReadingKeepsLine ==
  ASSUME TypeOK, TypeOK', ClientReads
  PROVE  Line' = Line
  <1>1. /\ stdout # << >> /\ stdout' = Tail(stdout)
        /\ UNCHANGED << outbound, forwarding, events >>
        /\ IF Head(stdout).kind \in ResponseKinds THEN heard' = heard
                                                  ELSE heard' = Append(heard, Head(stdout))
    BY DEF ClientReads, ReadsFrame, eventVars
  <1>2. Head(stdout) \in Frames
    BY <1>1, LineTypes, HeadAndTail
  <1>3. ProgressIn(heard') ++ ProgressIn(stdout') = ProgressIn(heard) ++ ProgressIn(stdout)
    <2>1. CASE Head(stdout).kind \in ResponseKinds
      <3>1. ~IsProgress(Head(stdout))
        BY <1>2, <2>1, LineTypes
      <3>2. ProgressIn(Tail(stdout)) = ProgressIn(stdout)
        BY <1>1, <3>1, LineTypes, ResponseIgnored
      <3> QED
        BY <1>1, <2>1, <3>2
    <2>2. CASE ~(Head(stdout).kind \in ResponseKinds)
      <3>1. ProgressIn(Append(heard, Head(stdout))) ++ ProgressIn(Tail(stdout))
              = ProgressIn(heard) ++ ProgressIn(stdout)
        BY <1>1, LineTypes, ProgressMoved DEF ++
      <3> QED
        BY <1>1, <2>2, <3>1
    <2> QED
      BY <2>1, <2>2
  <1>4. PICK tail : tail = ProgressIn(outbound) ++ (ProgressIn(forwarding) ++ ProgressIn(events))
    OBVIOUS
  <1>5. PICK a, b, y, z :
          /\ a = ProgressIn(heard) /\ b = ProgressIn(stdout)
          /\ y = ProgressIn(heard') /\ z = ProgressIn(stdout')
    OBVIOUS
  <1>6. /\ a \in Seq(Frames) /\ b \in Seq(Frames) /\ y \in Seq(Frames) /\ z \in Seq(Frames)
        /\ tail \in Seq(Frames)
    <2>1. tail \in Seq(Frames)
      <3>1. ProgressIn(forwarding) ++ ProgressIn(events) \in Seq(Frames)
        BY LineTypes, FramesConcat
      <3> QED
        BY <1>4, <3>1, LineTypes, FramesConcat
    <2>2. heard' \in Seq(Frames) /\ stdout' \in Seq(Frames)
      BY DEF TypeOK, ChannelTypeOK, HistoryTypeOK
    <2>3. y \in Seq(Frames) /\ z \in Seq(Frames)
      BY <1>5, <2>2, ProgressType, Zenon
    <2> QED
      BY <1>5, <2>1, <2>3, LineTypes
  <1>7. y ++ (z ++ tail) = a ++ (b ++ tail)
    <2>1. y ++ z = a ++ b
      BY <1>3, <1>5
    <2> QED
      BY <1>6, <2>1, Exchanged
  <1> QED
    BY <1>1, <1>4, <1>5, <1>7 DEF Line

\* The writer moves a frame from the outbound channel to stdout.
LEMMA WritingKeepsLine ==
  ASSUME TypeOK, TypeOK', WriterWrites
  PROVE  Line' = Line
  <1>1. /\ outbound # << >> /\ outbound' = Tail(outbound)
        /\ stdout' = Append(stdout, Head(outbound))
        /\ UNCHANGED << heard, forwarding, events >>
    BY DEF WriterWrites, eventVars, historyVars
  <1>2. PICK a, b, c, d, e :
          /\ a = ProgressIn(heard) /\ b = ProgressIn(stdout) /\ c = ProgressIn(outbound)
          /\ d = ProgressIn(forwarding) /\ e = ProgressIn(events)
    OBVIOUS
  <1>3. PICK y, z : y = ProgressIn(stdout') /\ z = ProgressIn(outbound')
    OBVIOUS
  <1>4. y ++ z = b ++ c
    BY <1>1, <1>2, <1>3, LineTypes, ProgressMoved DEF ++
  <1>5. /\ a \in Seq(Frames) /\ b \in Seq(Frames) /\ c \in Seq(Frames) /\ d \in Seq(Frames)
        /\ e \in Seq(Frames) /\ y \in Seq(Frames) /\ z \in Seq(Frames)
    <2>1. stdout' \in Seq(Frames) /\ outbound' \in Seq(Frames)
      BY DEF TypeOK, ChannelTypeOK
    <2>2. y \in Seq(Frames) /\ z \in Seq(Frames)
      BY <1>3, <2>1, ProgressType, Zenon
    <2> QED
      BY <1>2, <2>2, LineTypes
  <1>6. y ++ (z ++ (d ++ e)) = b ++ (c ++ (d ++ e))
    <2>1. d ++ e \in Seq(Frames)
      BY <1>5, FramesConcat
    <2> QED
      BY <1>4, <1>5, <2>1, Exchanged
  <1> QED
    BY <1>1, <1>2, <1>3, <1>6 DEF Line

\* The forwarder moves an event from its hands to the outbound channel.
LEMMA ForwardingKeepsLine ==
  ASSUME TypeOK, TypeOK', Len(forwarding) <= 1, ForwarderSends
  PROVE  Line' = Line
  <1>1. /\ forwarding # << >> /\ forwarding' = Tail(forwarding)
        /\ outbound' = Append(outbound, Head(forwarding))
        /\ UNCHANGED << heard, stdout, events >>
    <2>1. forwarding # << >> /\ forwarding' = << >>
      BY DEF ForwarderSends
    <2>2. forwarding \in Seq(Frames)
      BY LineTypes
    <2>3. Tail(forwarding) = << >>
      BY <2>1, <2>2
    <2> QED
      BY <2>1, <2>3 DEF ForwarderSends, historyVars
  <1>2. PICK a, b, c, d, e :
          /\ a = ProgressIn(heard) /\ b = ProgressIn(stdout) /\ c = ProgressIn(outbound)
          /\ d = ProgressIn(forwarding) /\ e = ProgressIn(events)
    OBVIOUS
  <1>3. PICK y, z : y = ProgressIn(outbound') /\ z = ProgressIn(forwarding')
    OBVIOUS
  <1>4. y ++ z = c ++ d
    BY <1>1, <1>2, <1>3, LineTypes, ProgressMoved DEF ++
  <1>5. /\ a \in Seq(Frames) /\ b \in Seq(Frames) /\ c \in Seq(Frames) /\ d \in Seq(Frames)
        /\ e \in Seq(Frames) /\ y \in Seq(Frames) /\ z \in Seq(Frames)
    <2>1. outbound' \in Seq(Frames) /\ forwarding' \in Seq(Frames)
      BY <1>1, LineTypes DEF TypeOK, ChannelTypeOK
    <2>2. y \in Seq(Frames) /\ z \in Seq(Frames)
      BY <1>3, <2>1, ProgressType, Zenon
    <2> QED
      BY <1>2, <2>2, LineTypes
  <1>6. y ++ (z ++ e) = c ++ (d ++ e)
    BY <1>4, <1>5, Exchanged
  <1> QED
    BY <1>1, <1>2, <1>3, <1>6 DEF Line

\* The forwarder takes an event into its empty hands.
LEMMA ReceivingKeepsLine ==
  ASSUME TypeOK, TypeOK', ForwarderReceives
  PROVE  Line' = Line
  <1>1. /\ events # << >> /\ events' = Tail(events)
        /\ forwarding' = Append(forwarding, Head(events))
        /\ UNCHANGED << heard, stdout, outbound >>
    <2>1. forwarding = << >> /\ forwarding' = << Head(events) >>
      BY DEF ForwarderReceives
    <2>2. Append(<< >>, Head(events)) = << Head(events) >>
      OBVIOUS
    <2> QED
      BY <2>1, <2>2 DEF ForwarderReceives, outVars, historyVars
  <1>2. PICK a, b, c, d, e :
          /\ a = ProgressIn(heard) /\ b = ProgressIn(stdout) /\ c = ProgressIn(outbound)
          /\ d = ProgressIn(forwarding) /\ e = ProgressIn(events)
    OBVIOUS
  <1>3. PICK y, z : y = ProgressIn(forwarding') /\ z = ProgressIn(events')
    OBVIOUS
  <1>4. y ++ z = d ++ e
    BY <1>1, <1>2, <1>3, LineTypes, ProgressMoved DEF ++
  <1> QED
    BY <1>1, <1>2, <1>3, <1>4 DEF Line

\* The worker's event goes to the end of the line, and of what it has emitted.
LEMMA EmittingKeepsOrder ==
  ASSUME TypeOK, LineRetained, WorkerTriesSend
  PROVE  LineRetained'
  <1>1. UNCHANGED << heard, stdout, outbound, forwarding, writer, forwarder >>
    BY DEF WorkerTriesSend, outVars
  <1> SUFFICES ASSUME writer
               PROVE  Line' = emitted'
    BY <1>1 DEF LineRetained
  <1>2. Line = emitted
    BY <1>1 DEF LineRetained
  <1>3. PICK h : h = Head(outgoing)
    OBVIOUS
  <1>4. h \in EngineEvents /\ h \in Frames
    <2>1. outgoing \in Seq(EngineEvents) /\ outgoing # << >>
      BY DEF TypeOK, WorkerTypeOK, WorkerTriesSend
    <2> QED
      BY <1>3, <2>1, FrameType
  <1>5. CASE Accepts
    <2>1. /\ events' = Append(events, h)
          /\ emitted' = IF IsProgress(h) THEN Append(emitted, h) ELSE emitted
      BY <1>3, <1>5 DEF WorkerTriesSend
    <2>2. ProgressIn(events') = IF IsProgress(h) THEN Append(ProgressIn(events), h)
                                                 ELSE ProgressIn(events)
      BY <1>4, <2>1, LineTypes, ProgressOfAppend
    <2>3. CASE ~IsProgress(h)
      BY <1>1, <1>2, <2>1, <2>2, <2>3 DEF Line
    <2>4. CASE IsProgress(h)
      <3>1. PICK a, b, c, d, e :
              /\ a = ProgressIn(heard) /\ b = ProgressIn(stdout) /\ c = ProgressIn(outbound)
              /\ d = ProgressIn(forwarding) /\ e = ProgressIn(events)
        OBVIOUS
      <3>2. /\ a \in Seq(Frames) /\ b \in Seq(Frames) /\ c \in Seq(Frames)
            /\ d \in Seq(Frames) /\ e \in Seq(Frames)
        BY <3>1, LineTypes
      <3>3. Append(a ++ (b ++ (c ++ (d ++ e))), h) = a ++ (b ++ (c ++ (d ++ Append(e, h))))
        BY <1>4, <3>2, AppendToLine
      <3>4. Line' = a ++ (b ++ (c ++ (d ++ Append(e, h))))
        BY <1>1, <2>2, <2>4, <3>1 DEF Line
      <3>5. Line = a ++ (b ++ (c ++ (d ++ e)))
        BY <3>1 DEF Line
      <3> QED
        BY <1>2, <2>1, <2>4, <3>3, <3>4, <3>5
    <2> QED
      BY <2>3, <2>4
  <1>6. CASE ~Accepts
    BY <1>1, <1>2, <1>6 DEF WorkerTriesSend, Line
  <1> QED
    BY <1>5, <1>6

\* Every other step leaves the channels of the line alone.
OffTheLine == UNCHANGED << eventVars, outVars, heard >>

LEMMA LineSteps ==
  ASSUME [Next]_vars
  PROVE  \/ OffTheLine \/ ClientReads \/ WriterWrites \/ WriterFails
         \/ ForwarderReceives \/ ForwarderSends \/ ForwarderFails
         \/ ReaderReplies \/ WorkerResponds \/ WorkerTriesSend \/ WorkerJoinsForwarder
  <1>1. ASSUME ClientRequests \/ ClientBegins \/ ClientCloses \/ Terminated
        PROVE  OffTheLine
    BY <1>1
       DEF OffTheLine, ClientRequests, ClientSends, ClientBegins, ClientCloses, Terminated,
           vars, historyVars
  <1>2. ASSUME ReaderStop \/ ReaderLoadsHandle \/ ReaderCallsEciStop \/ ReaderRejects
                 \/ ReaderQueues \/ ReaderSeesEof \/ ReaderJoinsWorker \/ ReaderJoinsWriter
        PROVE  OffTheLine
    BY <1>2
       DEF OffTheLine, ReaderStop, ReaderLoadsHandle, ReaderCallsEciStop, ReaderRejects,
           ReaderQueues, ReaderSeesEof, ReaderJoinsWorker, ReaderJoinsWriter, historyVars
  <1>3. ASSUME EciSwallowsIndexes \/ CallbackReturns \/ EciSynchronized \/ EciCallback
                 \/ HandleAudioCallback \/ HandleBadAudioCallback \/ HandleIndexCallback
                 \/ WorkerFinishes \/ WorkerEndsSynthesis \/ WorkerDisconnects
                 \/ WorkerDropsEngine
        PROVE  OffTheLine
    BY <1>3
       DEF OffTheLine, EciSwallowsIndexes, CallbackReturns, EciSynchronized, EciCallback,
           HandleAudioCallback, HandleBadAudioCallback, HandleIndexCallback,
           WorkerFinishes, WorkerEndsSynthesis, WorkerDisconnects, WorkerDropsEngine,
           historyVars
  <1>4. ASSUME WorkerDispatches
        PROVE  OffTheLine
    BY <1>4
       DEF OffTheLine, WorkerDispatches, WorkerInitializes, WorkerHasNoRuntime,
           WorkerBegins, WorkerHasNoGeneration, WorkerAddsText, WorkerInsertsIndex,
           WorkerSetsVoiceParam, WorkerSynthesizes, WorkerDeletes, historyVars
  <1>5. ASSUME UNCHANGED vars
        PROVE  OffTheLine
    BY <1>5 DEF OffTheLine, vars, historyVars
  <1> QED
    BY <1>1, <1>2, <1>3, <1>4, <1>5
       DEF Next, Host, Client, Reader, Worker, Forwarder, Writer

\* The client reads the progress in the order in which the callbacks made it.
LEMMA StepOrder ==
  ASSUME TypeOK, TypeOK', QueuesBounded, LineRetained, [Next]_vars
  PROVE  LineRetained'
  <1>1. ASSUME UNCHANGED << emitted, writer >>, Line' = Line
        PROVE  LineRetained'
    BY <1>1 DEF LineRetained
  <1>2. CASE OffTheLine
    BY <1>1, <1>2 DEF OffTheLine, Line, eventVars, outVars
  <1>3. CASE ClientReads
    BY <1>1, <1>3, ReadingKeepsLine DEF ClientReads, eventVars
  <1>4. CASE WriterWrites
    BY <1>1, <1>4, WritingKeepsLine DEF WriterWrites, eventVars
  <1>5. CASE ForwarderReceives
    BY <1>1, <1>5, ReceivingKeepsLine DEF ForwarderReceives, outVars
  <1>6. CASE ForwarderSends
    <2>1. Len(forwarding) <= 1
      BY DEF QueuesBounded
    <2> QED
      BY <1>1, <1>6, <2>1, ForwardingKeepsLine DEF ForwarderSends
  <1>7. CASE ReaderReplies
    <2>1. reply \in Responses
      BY DEF TypeOK, ReaderTypeOK
    <2>2. /\ SendsOutbound(reply)
          /\ UNCHANGED << heard, stdout, forwarding, events, emitted, writer, forwarder >>
      BY <1>7 DEF ReaderReplies, eventVars, historyVars
    <2> QED
      BY <1>1, <2>1, <2>2, SendingKeepsLine
  <1>8. CASE WorkerResponds
    <2>1. PICK f : f = Response(outcome, item.id)
      OBVIOUS
    <2>2. f \in Responses
      <3>1. item.id \in Nat
        BY DEF TypeOK, WorkerTypeOK, Commands
      <3> QED
        BY <2>1, <3>1 DEF Response, Responses, ResponseKinds
    <2>3. /\ SendsOutbound(f)
          /\ UNCHANGED << heard, stdout, forwarding, events, emitted, writer, forwarder >>
      BY <1>8, <2>1 DEF WorkerResponds, eventVars, historyVars
    <2> QED
      BY <1>1, <2>2, <2>3, SendingKeepsLine
  <1>9. CASE WorkerTriesSend
    BY <1>9, EmittingKeepsOrder
  <1>10. CASE WriterFails \/ ForwarderFails
    <2>1. ~writer'
      BY <1>10 DEF WriterFails, ForwarderFails, outVars
    <2> QED
      BY <2>1 DEF LineRetained
  <1>11. CASE WorkerJoinsForwarder
    BY <1>1, <1>11 DEF WorkerJoinsForwarder, Line, outVars, historyVars
  <1> QED
    BY <1>2, <1>3, <1>4, <1>5, <1>6, <1>7, <1>8, <1>9, <1>10, <1>11, LineSteps

\* The line of a host with nothing under way is empty.
LEMMA RestLine ==
  ASSUME NEW last, NEW state, NEW used, HostAtRest(last, state, used)
  PROVE  LineRetained
  <1>1. /\ heard = << >> /\ stdout = << >> /\ outbound = << >> /\ forwarding = << >>
        /\ events = << >> /\ emitted = << >>
    BY DEF HostAtRest
  <1>2. ProgressIn(<< >>) = << >>
    BY ProgressType
  <1>3. << >> ++ << >> = << >>
    BY DEF ++
  <1> QED
    BY <1>1, <1>2, <1>3 DEF LineRetained, Line

\* In every behaviour of the host, the client reads the progress of the engine
\* in the order in which the callbacks made it, nothing dropped or doubled on
\* the way through the event channel, the forwarder, the outbound channel, the
\* writer and stdout.
THEOREM ProgressKeepsOrder == Spec => []OrderRetained
  <1>1. Init => LineRetained
    BY RestLine DEF Init
  <1>2. TypeOK /\ TypeOK' /\ QueuesBounded /\ LineRetained /\ [Next]_vars
          => LineRetained'
    BY StepOrder
  <1>3. TypeOK /\ LineRetained => OrderRetained
    BY LineSpelled
  <1> QED
    BY <1>1, <1>2, <1>3, TypeCorrect, Bounded, PTL DEF Spec

-----------------------------------------------------------------------------
(* No request is answered twice: its number is in one place at a time, on  *)
(* its way from stdin to the responses the client has read.                *)

\* The request of a command or of a response; 0 for what no request is of.
RequestOf(x) == IF x.kind \in CommandKinds \union ResponseKinds THEN x.id ELSE 0

\* The requests on a channel.
RequestsIn(s) == {RequestOf(s[k]) : k \in 1 .. Len(s)} \ {0}

\* No request is twice on a channel.
EachOnce(s) ==
  \A j, k \in 1 .. Len(s) :
    RequestOf(s[j]) # 0 /\ RequestOf(s[j]) = RequestOf(s[k]) => j = k

\* What the reader and the worker have in their hands.
WithReader ==
  IF rpc \in {"handle", "eciStop", "reply"} THEN {reply.id} \ {0} ELSE {}
WithWorker ==
  IF wpc \in {"recv", "drop", "join", "exited"} THEN {} ELSE {item.id} \ {0}

Places == {"stdin", "reader", "work", "worker", "outbound", "stdout", "answered"}
RequestsAt ==
  [p \in Places |->
     IF p = "stdin" THEN RequestsIn(stdin)
     ELSE IF p = "reader" THEN WithReader
     ELSE IF p = "work" THEN RequestsIn(work)
     ELSE IF p = "worker" THEN WithWorker
     ELSE IF p = "outbound" THEN RequestsIn(outbound)
     ELSE IF p = "stdout" THEN RequestsIn(stdout)
     ELSE answered \ {0}]

Apart(at, last) ==
  /\ \A p \in Places : at[p] \subseteq 1 .. last
  /\ \A p, q \in Places : p # q => at[p] \intersect at[q] = {}

OneByOne == EachOnce(stdin) /\ EachOnce(work) /\ EachOnce(outbound) /\ EachOnce(stdout)

RequestInv == Apart(RequestsAt, requests) /\ OneByOne

\* A number that comes to one place, and is in no other, leaves the places apart.
LEMMA MovedApart ==
  ASSUME NEW at, NEW then, NEW last \in Nat, NEW later \in Nat, last <= later,
         Apart(at, last), NEW q \in Places, NEW x \in 0 .. later,
         \A p \in Places \ {q} : then[p] \subseteq at[p] \ {x},
         then[q] \subseteq (at[q] \union {x}) \ {0}
  PROVE  Apart(then, later)
  <1>1. \A p \in Places : then[p] \subseteq 1 .. later
    <2> SUFFICES ASSUME NEW p \in Places, NEW y \in then[p] PROVE y \in 1 .. later
      OBVIOUS
    <2>1. CASE y \in at[p]
      BY <2>1 DEF Apart
    <2>2. CASE p = q /\ y = x /\ y # 0
      BY <2>2
    <2> QED
      BY <2>1, <2>2
  <1>2. ASSUME NEW p1 \in Places, NEW p2 \in Places, p1 # p2, NEW y \in then[p1],
               y \in then[p2]
        PROVE  FALSE
    <2>1. CASE y \in at[p1] /\ y \in at[p2]
      BY <1>2, <2>1 DEF Apart
    <2>2. CASE y = x
      BY <1>2, <2>2
    <2> QED
      BY <1>2, <2>1, <2>2
  <1> QED
    BY <1>1, <1>2 DEF Apart

\* Taking the head off a channel takes its request off it.
LEMMA RequestsOfTail ==
  ASSUME NEW S, NEW s \in Seq(S), s # << >>, EachOnce(s)
  PROVE  /\ RequestsIn(Tail(s)) \subseteq RequestsIn(s) \ {RequestOf(Head(s))}
         /\ EachOnce(Tail(s))
         /\ RequestOf(Head(s)) \in RequestsIn(s) \union {0}
  <1>1. /\ 1 \in 1 .. Len(s) /\ Head(s) = s[1] /\ Len(Tail(s)) = Len(s) - 1
        /\ \A k \in 1 .. Len(Tail(s)) :
             Tail(s)[k] = s[k + 1] /\ k + 1 \in 1 .. Len(s) /\ k \in Nat /\ k + 1 # 1
    OBVIOUS
  <1>2. RequestsIn(Tail(s)) \subseteq RequestsIn(s) \ {RequestOf(Head(s))}
    <2> SUFFICES ASSUME NEW k \in 1 .. Len(Tail(s)), RequestOf(Tail(s)[k]) # 0
                 PROVE  /\ RequestOf(Tail(s)[k]) \in RequestsIn(s)
                        /\ RequestOf(Tail(s)[k]) # RequestOf(Head(s))
      BY DEF RequestsIn
    <2>1. Tail(s)[k] = s[k + 1] /\ k + 1 \in 1 .. Len(s) /\ k + 1 # 1
      BY <1>1
    <2> QED
      BY <1>1, <2>1 DEF RequestsIn, EachOnce
  <1>3. EachOnce(Tail(s))
    <2> SUFFICES ASSUME NEW j \in 1 .. Len(Tail(s)), NEW k \in 1 .. Len(Tail(s)),
                        RequestOf(Tail(s)[j]) # 0,
                        RequestOf(Tail(s)[j]) = RequestOf(Tail(s)[k])
                 PROVE  j = k
      BY DEF EachOnce
    <2>1. /\ Tail(s)[j] = s[j + 1] /\ j + 1 \in 1 .. Len(s)
          /\ Tail(s)[k] = s[k + 1] /\ k + 1 \in 1 .. Len(s)
      BY <1>1
    <2>2. j + 1 = k + 1
      BY <2>1 DEF EachOnce
    <2> QED
      BY <2>2
  <1>4. RequestOf(Head(s)) \in RequestsIn(s) \union {0}
    BY <1>1 DEF RequestsIn
  <1> QED
    BY <1>2, <1>3, <1>4

\* Putting an item behind a channel adds its request, which was not on it.
LEMMA RequestsOfAppend ==
  ASSUME NEW S, NEW s \in Seq(S), NEW e \in S, EachOnce(s),
         RequestOf(e) \notin RequestsIn(s)
  PROVE  /\ RequestsIn(Append(s, e)) \subseteq (RequestsIn(s) \union {RequestOf(e)}) \ {0}
         /\ EachOnce(Append(s, e))
  <1> DEFINE t == Append(s, e)
  <1>1. /\ Len(t) = Len(s) + 1 /\ t[Len(t)] = e /\ Len(s) \in Nat
        /\ \A k \in 1 .. Len(t) : k # Len(t) => t[k] = s[k] /\ k \in 1 .. Len(s)
    OBVIOUS
  <1> HIDE DEF t
  <1>2. RequestsIn(t) \subseteq (RequestsIn(s) \union {RequestOf(e)}) \ {0}
    BY <1>1 DEF RequestsIn
  <1>3. EachOnce(t)
    <2> SUFFICES ASSUME NEW j \in 1 .. Len(t), NEW k \in 1 .. Len(t),
                        RequestOf(t[j]) # 0, RequestOf(t[j]) = RequestOf(t[k])
                 PROVE  j = k
      BY DEF EachOnce
    <2>1. CASE j # Len(t) /\ k # Len(t)
      BY <1>1, <2>1 DEF EachOnce
    <2>2. CASE j = Len(t) /\ k # Len(t)
      BY <1>1, <2>2 DEF RequestsIn
    <2>3. CASE j # Len(t) /\ k = Len(t)
      BY <1>1, <2>3 DEF RequestsIn
    <2> QED
      BY <2>1, <2>2, <2>3
  <1> QED
    BY <1>2, <1>3 DEF t

\* What the requests of commands, responses and events are.
LEMMA RequestIds ==
  /\ \A c \in Commands : RequestOf(c) = c.id
  /\ \A r \in Responses : RequestOf(r) = r.id
  /\ \A e \in EngineEvents : RequestOf(e) = 0
  /\ \A f \in Frames : f.kind \in ResponseKinds => RequestOf(f) = f.id
  /\ \A f \in Frames : f.kind \notin ResponseKinds => RequestOf(f) = 0
  BY DEF RequestOf, Commands, Responses, EngineEvents, Frames, CommandKinds, ResponseKinds

\* A step that moves no request.
RequestsStay ==
  UNCHANGED << stdin, requests, work, outbound, stdout, answered, WithReader, WithWorker >>

\* The steps that move one.
LEMMA RequestSteps ==
  ASSUME [Next]_vars
  PROVE  \/ RequestsStay \/ ClientRequests \/ ClientBegins \/ ClientReads
         \/ ReaderStop \/ ReaderReplies \/ ReaderRejects \/ ReaderQueues
         \/ WorkerDispatches \/ WorkerResponds \/ ForwarderSends \/ WriterWrites
         \/ WriterFails
  <1>1. ASSUME ClientCloses \/ Terminated
        PROVE  RequestsStay
    BY <1>1
       DEF RequestsStay, WithReader, WithWorker, ClientCloses, Terminated, vars, clientVars,
           readerVars, workerVars, outVars, historyVars
  <1>2. ASSUME ReaderLoadsHandle \/ ReaderCallsEciStop \/ ReaderSeesEof
                 \/ ReaderJoinsWorker \/ ReaderJoinsWriter
        PROVE  RequestsStay
    <2>1. /\ UNCHANGED << stdin, requests, work, outbound, stdout, answered, wpc, item >>
          /\ rpc \in {"handle", "eciStop", "reply"} <=> rpc' \in {"handle", "eciStop", "reply"}
          /\ reply'.id = reply.id
      BY <1>2
         DEF ReaderLoadsHandle, ReaderCallsEciStop, ReaderSeesEof, ReaderJoinsWorker,
             ReaderJoinsWriter, Response, clientVars, workerVars, outVars, historyVars
    <2> QED
      BY <2>1 DEF RequestsStay, WithReader, WithWorker
  <1>3. ASSUME EciSwallowsIndexes \/ CallbackReturns \/ EciSynchronized \/ EciCallback
                 \/ HandleAudioCallback \/ HandleBadAudioCallback \/ HandleIndexCallback
                 \/ WorkerFinishes \/ WorkerEndsSynthesis
        PROVE  RequestsStay
    BY <1>3
       DEF RequestsStay, WithReader, WithWorker, EciSwallowsIndexes, CallbackReturns,
           EciSynchronized, EciCallback, HandleAudioCallback, HandleBadAudioCallback,
           HandleIndexCallback, WorkerFinishes, WorkerEndsSynthesis, WorkerAnswers,
           clientVars, readerVars, workerVars, outVars, historyVars
  <1>4. ASSUME WorkerTriesSend \/ WorkerDisconnects \/ WorkerDropsEngine
                 \/ WorkerJoinsForwarder
        PROVE  RequestsStay
    BY <1>4
       DEF RequestsStay, WithReader, WithWorker, WorkerTriesSend, WorkerDisconnects,
           WorkerDropsEngine, WorkerJoinsForwarder, clientVars, readerVars, workerVars,
           outVars, historyVars
  <1>5. ASSUME ForwarderReceives \/ ForwarderFails
        PROVE  RequestsStay
    BY <1>5
       DEF RequestsStay, WithReader, WithWorker, ForwarderReceives, ForwarderFails,
           clientVars, readerVars, workerVars, outVars, historyVars
  <1>6. ASSUME UNCHANGED vars
        PROVE  RequestsStay
    BY <1>6
       DEF RequestsStay, WithReader, WithWorker, vars, clientVars, readerVars, workerVars,
           outVars, historyVars
  <1> QED
    BY <1>1, <1>2, <1>3, <1>4, <1>5, <1>6
       DEF Next, Host, Client, Reader, Worker, Forwarder, Writer

\* The requests at each place, before and after a step.
LEMMA PlacesSpelled ==
  /\ RequestsAt["stdin"] = RequestsIn(stdin) /\ RequestsAt["reader"] = WithReader
  /\ RequestsAt["work"] = RequestsIn(work) /\ RequestsAt["worker"] = WithWorker
  /\ RequestsAt["outbound"] = RequestsIn(outbound)
  /\ RequestsAt["stdout"] = RequestsIn(stdout) /\ RequestsAt["answered"] = answered \ {0}
  /\ RequestsAt'["stdin"] = RequestsIn(stdin') /\ RequestsAt'["reader"] = WithReader'
  /\ RequestsAt'["work"] = RequestsIn(work') /\ RequestsAt'["worker"] = WithWorker'
  /\ RequestsAt'["outbound"] = RequestsIn(outbound')
  /\ RequestsAt'["stdout"] = RequestsIn(stdout') /\ RequestsAt'["answered"] = answered' \ {0}
  BY DEF RequestsAt, Places

\* A request the host has is one of the client's.
LEMMA RequestsNumbered ==
  ASSUME TypeOK, RequestInv, NEW p \in Places, NEW x \in RequestsAt[p] \union {0}
  PROVE  /\ x \in 0 .. requests
         /\ \A q \in Places \ {p} : x \notin RequestsAt[q]
  <1>1. requests \in Nat
    BY DEF TypeOK, ClientTypeOK
  <1>2. \A q \in Places : RequestsAt[q] \subseteq 1 .. requests
    BY DEF RequestInv, Apart
  <1> QED
    BY <1>1, <1>2 DEF RequestInv, Apart

\* A request that goes from one place to another, or is new, or is lost.
LEMMA RequestMoves ==
  ASSUME TypeOK, TypeOK', RequestInv, OneByOne', requests <= requests',
         NEW q \in Places, NEW x \in 0 .. requests',
         \A p \in Places \ {q} : RequestsAt'[p] \subseteq RequestsAt[p] \ {x},
         RequestsAt'[q] \subseteq (RequestsAt[q] \union {x}) \ {0}
  PROVE  RequestInv'
  <1>1. requests \in Nat /\ requests' \in Nat /\ Apart(RequestsAt, requests)
    BY DEF TypeOK, ClientTypeOK, RequestInv
  <1>2. Apart(RequestsAt', requests')
    BY <1>1, MovedApart
  <1> QED
    BY <1>2 DEF RequestInv, Apart

\* The client makes a request with a number it has not used; a BeginGeneration
\* has no number.
LEMMA RequestMade ==
  ASSUME TypeOK, TypeOK', RequestInv, ClientRequests \/ ClientBegins
  PROVE  RequestInv'
  <1>1. PICK c \in Commands :
          /\ stdin' = Append(stdin, c)
          /\ \/ c.id = requests + 1 /\ requests' = requests + 1
             \/ c.id = 0 /\ requests' = requests
          /\ UNCHANGED << work, outbound, stdout, answered, WithReader, WithWorker >>
    <2>1. ASSUME NEW kind \in CommandKinds, NEW arg \in Nat, ClientSends(kind, arg)
          PROVE  \E c \in Commands :
                   /\ stdin' = Append(stdin, c)
                   /\ c.id = requests + 1 /\ requests' = requests + 1
                   /\ UNCHANGED << work, outbound, stdout, answered, WithReader, WithWorker >>
      <3>1. PICK c : c = Command(kind, requests + 1, arg)
        OBVIOUS
      <3>2. c \in Commands /\ c.id = requests + 1
        BY <3>1 DEF Command, Commands, TypeOK, ClientTypeOK
      <3>3. stdin' = stdin \o << c >>
        BY <2>1, <3>1 DEF ClientSends, ClientWrites
      <3>4. stdin' = Append(stdin, c)
        BY <3>2, <3>3 DEF TypeOK, ClientTypeOK
      <3>5. /\ requests' = requests + 1
            /\ UNCHANGED << work, outbound, stdout, answered, WithReader, WithWorker >>
        BY <2>1
           DEF ClientSends, WithReader, WithWorker, readerVars, workerVars, outVars,
               historyVars
      <3> QED
        BY <3>2, <3>4, <3>5
    <2>2. ASSUME ClientBegins
          PROVE  \E c \in Commands :
                   /\ stdin' = Append(stdin, c)
                   /\ c.id = 0 /\ requests' = requests
                   /\ UNCHANGED << work, outbound, stdout, answered, WithReader, WithWorker >>
      <3>1. PICK c : c = Command("BeginGeneration", 0, generations + 1)
        OBVIOUS
      <3>2. c \in Commands /\ c.id = 0
        BY <3>1 DEF Command, Commands, CommandKinds, TypeOK, ClientTypeOK
      <3>3. stdin' = stdin \o << c >>
        BY <2>2, <3>1 DEF ClientBegins, ClientWrites
      <3>4. stdin' = Append(stdin, c)
        BY <3>2, <3>3 DEF TypeOK, ClientTypeOK
      <3>5. /\ requests' = requests
            /\ UNCHANGED << work, outbound, stdout, answered, WithReader, WithWorker >>
        BY <2>2
           DEF ClientBegins, WithReader, WithWorker, readerVars, workerVars, outVars,
               historyVars
      <3> QED
        BY <3>2, <3>4, <3>5
    <2>3. CASE ClientRequests
      <3>1. PICK kind \in CommandKinds, arg \in Nat : ClientSends(kind, arg)
        BY <2>3, ClientAssumption, IndexAssumption
           DEF ClientRequests, CommandKinds, TypeOK, ClientTypeOK
      <3> QED
        BY <2>1, <3>1
    <2> QED
      BY <2>2, <2>3
  <1>2. /\ RequestOf(c) = c.id /\ stdin \in Seq(Commands) /\ requests \in Nat
        /\ c.id \in 0 .. requests' /\ requests <= requests'
    BY <1>1, RequestIds DEF TypeOK, ClientTypeOK
  <1>3. \A p \in Places : c.id \notin RequestsAt[p]
    BY <1>1, <1>2 DEF RequestInv, Apart
  <1>4. /\ RequestsIn(stdin') \subseteq (RequestsIn(stdin) \union {c.id}) \ {0}
        /\ EachOnce(stdin')
    BY <1>1, <1>2, <1>3, PlacesSpelled, RequestsOfAppend DEF RequestInv, OneByOne, Places
  <1>5. OneByOne'
    BY <1>1, <1>4 DEF RequestInv, OneByOne
  <1>6. \A p \in Places \ {"stdin"} : RequestsAt'[p] \subseteq RequestsAt[p] \ {c.id}
    BY <1>1, <1>3, PlacesSpelled DEF Places
  <1>7. RequestsAt'["stdin"] \subseteq (RequestsAt["stdin"] \union {c.id}) \ {0}
    BY <1>4, PlacesSpelled
  <1> QED
    BY <1>2, <1>5, <1>6, <1>7, RequestMoves DEF Places

\* The head of a channel, and what is left when it is taken.
LEMMA HeadRequest ==
  ASSUME TypeOK, RequestInv, NEW S, NEW s \in Seq(S), s # << >>, NEW p \in Places,
         RequestsAt[p] = RequestsIn(s), EachOnce(s)
  PROVE  /\ RequestOf(Head(s)) \in 0 .. requests
         /\ \A q \in Places \ {p} : RequestOf(Head(s)) \notin RequestsAt[q]
         /\ RequestsIn(Tail(s)) \subseteq RequestsIn(s) \ {RequestOf(Head(s))}
         /\ EachOnce(Tail(s))
  BY RequestsOfTail, RequestsNumbered

\* The reader takes a request it answers, or puts it on the work channel.
LEMMA RequestRead ==
  ASSUME TypeOK, TypeOK', RequestInv, ReaderStop \/ ReaderRejects \/ ReaderQueues
  PROVE  RequestInv'
  <1>1. PICK kinds : ReaderTakes(kinds)
    BY DEF ReaderStop, ReaderRejects, ReaderQueues
  <1>2. PICK x : x = RequestOf(Head(stdin))
    OBVIOUS
  <1>3. /\ stdin \in Seq(Commands) /\ work \in Seq(Commands)
        /\ rpc = "read" /\ stdin # << >> /\ stdin' = Tail(stdin)
        /\ Head(stdin) \in Commands /\ requests' = requests /\ requests \in Nat
        /\ UNCHANGED << outbound, stdout, answered, WithWorker >>
    BY <1>1, WaitingType
       DEF TypeOK, ClientTypeOK, WorkerTypeOK, ReaderTakes, ReaderStop, ReaderRejects,
           ReaderQueues, WithWorker, workerVars, outVars, historyVars
  <1>4. x = Head(stdin).id
    BY <1>2, <1>3, RequestIds
  <1>5. /\ x \in 0 .. requests
        /\ \A q \in Places \ {"stdin"} : x \notin RequestsAt[q]
        /\ RequestsIn(stdin') \subseteq RequestsIn(stdin) \ {x}
        /\ EachOnce(stdin')
    BY <1>2, <1>3, HeadRequest, PlacesSpelled DEF RequestInv, OneByOne, Places
  <1>6. WithReader = {}
    BY <1>3 DEF WithReader
  <1>7. CASE ReaderStop \/ ReaderRejects
    <2>1. work' = work /\ reply'.id = x
      BY <1>4, <1>7 DEF ReaderStop, ReaderRejects, Response
    <2>2. WithReader' \subseteq {x} \ {0}
      BY <2>1 DEF WithReader
    <2>3. OneByOne'
      BY <1>3, <1>5, <2>1 DEF RequestInv, OneByOne
    <2>4. \A p \in Places \ {"reader"} : RequestsAt'[p] \subseteq RequestsAt[p] \ {x}
      BY <1>3, <1>5, <2>1, PlacesSpelled DEF Places
    <2>5. RequestsAt'["reader"] \subseteq (RequestsAt["reader"] \union {x}) \ {0}
      BY <1>6, <2>2, PlacesSpelled
    <2> QED
      BY <1>3, <1>5, <2>3, <2>4, <2>5, RequestMoves DEF Places
  <1>8. CASE ReaderQueues
    <2>1. work' = Append(work, Head(stdin))
      BY <1>8 DEF ReaderQueues
    <2>2. rpc' \in {"joinWorker", "read"}
      BY <1>8 DEF ReaderQueues, AfterQueuing
    <2>3. WithReader' = {}
      BY <2>2 DEF WithReader
    <2>4. x \notin RequestsIn(work)
      BY <1>5, PlacesSpelled DEF Places
    <2>5. /\ RequestsIn(work') \subseteq (RequestsIn(work) \union {x}) \ {0}
          /\ EachOnce(work')
      BY <1>2, <1>3, <2>1, <2>4, RequestsOfAppend DEF RequestInv, OneByOne
    <2>6. OneByOne'
      BY <1>3, <1>5, <2>5 DEF RequestInv, OneByOne
    <2>7. \A p \in Places \ {"work"} : RequestsAt'[p] \subseteq RequestsAt[p] \ {x}
      BY <1>3, <1>5, <1>6, <2>3, PlacesSpelled DEF Places
    <2>8. RequestsAt'["work"] \subseteq (RequestsAt["work"] \union {x}) \ {0}
      BY <2>5, PlacesSpelled
    <2> QED
      BY <1>3, <1>5, <2>6, <2>7, <2>8, RequestMoves DEF Places
  <1> QED
    BY <1>7, <1>8

\* The worker takes a request off the work channel.
LEMMA RequestTaken ==
  ASSUME TypeOK, TypeOK', RequestInv, WorkerDispatches
  PROVE  RequestInv'
  <1>1. \E kinds : WorkerTakes(kinds)
    BY DEF WorkerDispatches, WorkerInitializes, WorkerHasNoRuntime, WorkerBegins,
           WorkerHasNoGeneration, WorkerAddsText, WorkerInsertsIndex,
           WorkerSetsVoiceParam, WorkerSynthesizes, WorkerDeletes
  <1>2. PICK x : x = RequestOf(Head(work))
    OBVIOUS
  <1>3. UNCHANGED << stdin, requests, outbound, stdout, answered, WithReader >>
    BY DEF WorkerDispatches, WorkerInitializes, WorkerHasNoRuntime, WorkerBegins,
           WorkerHasNoGeneration, WorkerAddsText, WorkerInsertsIndex,
           WorkerSetsVoiceParam, WorkerSynthesizes, WorkerDeletes, WithReader,
           clientVars, readerVars, outVars, historyVars
  <1>4. /\ work \in Seq(Commands) /\ work # << >> /\ work' = Tail(work)
        /\ wpc = "recv" /\ item' = Head(work)
        /\ Head(work) \in Commands /\ requests \in Nat
    BY <1>1, WaitingType DEF TypeOK, ClientTypeOK, WorkerTypeOK, WorkerTakes
  <1>5. item'.id = x /\ WithWorker = {}
    BY <1>2, <1>4, RequestIds DEF WithWorker
  <1>6. /\ x \in 0 .. requests
        /\ \A q \in Places \ {"work"} : x \notin RequestsAt[q]
        /\ RequestsIn(work') \subseteq RequestsIn(work) \ {x}
        /\ EachOnce(work')
    BY <1>2, <1>4, HeadRequest, PlacesSpelled DEF RequestInv, OneByOne, Places
  <1>7. WithWorker' \subseteq {x} \ {0}
    BY <1>5 DEF WithWorker
  <1>8. OneByOne'
    BY <1>3, <1>6 DEF RequestInv, OneByOne
  <1>9. \A p \in Places \ {"worker"} : RequestsAt'[p] \subseteq RequestsAt[p] \ {x}
    BY <1>3, <1>6, PlacesSpelled DEF Places
  <1>10. RequestsAt'["worker"] \subseteq (RequestsAt["worker"] \union {x}) \ {0}
    BY <1>5, <1>7, PlacesSpelled
  <1> QED
    BY <1>3, <1>4, <1>6, <1>8, <1>9, <1>10, RequestMoves DEF Places

\* A frame with a request of the place from, or of none, reaches the outbound
\* channel; nothing else moves.
LEMMA RequestOutbound ==
  ASSUME TypeOK, TypeOK', RequestInv, NEW f \in Frames, NEW from \in {"reader", "worker"},
         RequestOf(f) \in RequestsAt[from] \union {0},
         outbound' = Append(outbound, f),
         UNCHANGED << stdin, requests, work, stdout, answered >>,
         WithReader' \subseteq WithReader \ {RequestOf(f)},
         WithWorker' \subseteq WithWorker \ {RequestOf(f)}
  PROVE  RequestInv'
  <1>1. PICK x : x = RequestOf(f)
    OBVIOUS
  <1>2. /\ x \in 0 .. requests
        /\ \A q \in Places \ {from} : x \notin RequestsAt[q]
    BY <1>1, RequestsNumbered DEF Places
  <1>3. outbound \in Seq(Frames) /\ requests \in Nat
    BY DEF TypeOK, ClientTypeOK, ChannelTypeOK
  <1>4. x \notin RequestsIn(outbound)
    BY <1>2, PlacesSpelled DEF Places
  <1>5. /\ RequestsIn(outbound') \subseteq (RequestsIn(outbound) \union {x}) \ {0}
        /\ EachOnce(outbound')
    BY <1>1, <1>3, <1>4, RequestsOfAppend DEF RequestInv, OneByOne
  <1>6. OneByOne'
    BY <1>5 DEF RequestInv, OneByOne
  <1>7. \A p \in Places \ {"outbound"} : RequestsAt'[p] \subseteq RequestsAt[p] \ {x}
    BY <1>1, <1>2, PlacesSpelled DEF Places
  <1>8. RequestsAt'["outbound"] \subseteq (RequestsAt["outbound"] \union {x}) \ {0}
    BY <1>5, PlacesSpelled
  <1> QED
    BY <1>2, <1>3, <1>6, <1>7, <1>8, RequestMoves DEF Places

\* Losing requests moves none.
LEMMA RequestLost ==
  ASSUME TypeOK, TypeOK', RequestInv, OneByOne', requests' = requests,
         \A p \in Places : RequestsAt'[p] \subseteq RequestsAt[p]
  PROVE  RequestInv'
  <1>1. requests \in Nat
    BY DEF TypeOK, ClientTypeOK
  <1>2. Apart(RequestsAt', requests')
    BY <1>1 DEF RequestInv, Apart
  <1> QED
    BY <1>2 DEF RequestInv

\* A response leaves the reader, the worker or the forwarder; it is lost once
\* the writer has failed.
LEMMA RequestSent ==
  ASSUME TypeOK, TypeOK', RequestInv,
         ReaderReplies \/ WorkerResponds \/ ForwarderSends
  PROVE  RequestInv'
  <1>1. UNCHANGED << stdin, requests, work, stdout, answered >>
    BY DEF ReaderReplies, WorkerResponds, ForwarderSends, clientVars, workerVars, historyVars
  <1>2. /\ Responses \subseteq Frames /\ EngineEvents \subseteq Frames
        /\ \A q \in Places : 0 \notin RequestsAt[q]
    BY FrameType DEF RequestInv, Apart
  <1>3. 0 \notin WithReader /\ 0 \notin WithWorker
    BY DEF WithReader, WithWorker
  <1>4. CASE ReaderReplies
    <2>1. /\ rpc = "reply" /\ rpc' = "read" /\ SendsOutbound(reply)
          /\ WithWorker' = WithWorker
      BY <1>4 DEF ReaderReplies, WithWorker, workerVars
    <2>2. reply \in Responses /\ RequestOf(reply) = reply.id
      BY RequestIds DEF TypeOK, ReaderTypeOK
    <2>3. WithReader = {reply.id} \ {0} /\ WithReader' = {}
      BY <2>1 DEF WithReader
    <2>4. RequestOf(reply) \in RequestsAt["reader"] \union {0}
      BY <2>2, <2>3, PlacesSpelled
    <2>5. RequestOf(reply) \notin WithWorker
      BY <1>3, <2>4, PlacesSpelled, RequestsNumbered DEF Places
    <2>6. CASE outbound' = Append(outbound, reply)
      BY <1>1, <1>2, <2>1, <2>2, <2>3, <2>4, <2>5, <2>6, RequestOutbound
    <2>7. CASE outbound' = outbound
      <3>1. OneByOne'
        BY <1>1, <2>7 DEF RequestInv, OneByOne
      <3>2. \A p \in Places : RequestsAt'[p] \subseteq RequestsAt[p]
        BY <1>1, <2>1, <2>3, <2>7, PlacesSpelled DEF Places
      <3> QED
        BY <1>1, <3>1, <3>2, RequestLost
    <2> QED
      BY <2>1, <2>6, <2>7 DEF SendsOutbound
  <1>5. CASE WorkerResponds
    <2>1. PICK f : f = Response(outcome, item.id)
      OBVIOUS
    <2>2. /\ wpc = "respond" /\ wpc' \in {"recv", "drop"} /\ SendsOutbound(f)
          /\ WithReader' = WithReader
      BY <1>5, <2>1 DEF WorkerResponds, WithReader, readerVars
    <2>3. f \in Responses /\ RequestOf(f) = item.id
      BY <2>1, WaitingType, RequestIds DEF Response, Responses, ResponseKinds
    <2>4. WithWorker = {item.id} \ {0} /\ WithWorker' = {}
      BY <2>2 DEF WithWorker
    <2>5. RequestOf(f) \in RequestsAt["worker"] \union {0}
      BY <2>3, <2>4, PlacesSpelled
    <2>6. RequestOf(f) \notin WithReader
      BY <1>3, <2>5, PlacesSpelled, RequestsNumbered DEF Places
    <2>7. CASE outbound' = Append(outbound, f)
      BY <1>1, <1>2, <2>2, <2>3, <2>4, <2>5, <2>6, <2>7, RequestOutbound
    <2>8. CASE outbound' = outbound
      <3>1. OneByOne'
        BY <1>1, <2>8 DEF RequestInv, OneByOne
      <3>2. \A p \in Places : RequestsAt'[p] \subseteq RequestsAt[p]
        BY <1>1, <2>2, <2>4, <2>8, PlacesSpelled DEF Places
      <3> QED
        BY <1>1, <3>1, <3>2, RequestLost
    <2> QED
      BY <2>2, <2>7, <2>8 DEF SendsOutbound
  <1>6. CASE ForwarderSends
    <2>1. PICK f : f = Head(forwarding)
      OBVIOUS
    <2>2. /\ outbound' = Append(outbound, f) /\ WithReader' = WithReader
          /\ WithWorker' = WithWorker /\ forwarding # << >>
      BY <1>6, <2>1 DEF ForwarderSends, WithReader, WithWorker, readerVars, workerVars
    <2>3. f \in EngineEvents /\ RequestOf(f) = 0
      BY <2>1, <2>2, HeadAndTail, RequestIds DEF TypeOK, ChannelTypeOK
    <2> QED
      BY <1>1, <1>2, <1>3, <2>2, <2>3, RequestOutbound
  <1> QED
    BY <1>4, <1>5, <1>6

\* A response goes from the outbound channel to stdout.
LEMMA RequestWritten ==
  ASSUME TypeOK, TypeOK', RequestInv, WriterWrites
  PROVE  RequestInv'
  <1>1. PICK x : x = RequestOf(Head(outbound))
    OBVIOUS
  <1>2. /\ outbound # << >> /\ outbound' = Tail(outbound)
        /\ stdout' = Append(stdout, Head(outbound))
        /\ UNCHANGED << stdin, requests, work, answered, WithReader, WithWorker >>
    BY DEF WriterWrites, WithReader, WithWorker, clientVars, readerVars, workerVars,
           historyVars
  <1>3. /\ outbound \in Seq(Frames) /\ stdout \in Seq(Frames) /\ requests \in Nat
        /\ Head(outbound) \in Frames
    BY <1>2, HeadAndTail DEF TypeOK, ClientTypeOK, ChannelTypeOK
  <1>4. /\ x \in 0 .. requests
        /\ \A q \in Places \ {"outbound"} : x \notin RequestsAt[q]
        /\ RequestsIn(outbound') \subseteq RequestsIn(outbound) \ {x}
        /\ EachOnce(outbound')
    BY <1>1, <1>2, <1>3, HeadRequest, PlacesSpelled DEF RequestInv, OneByOne, Places
  <1>5. x \notin RequestsIn(stdout)
    BY <1>4, PlacesSpelled DEF Places
  <1>6. /\ RequestsIn(stdout') \subseteq (RequestsIn(stdout) \union {x}) \ {0}
        /\ EachOnce(stdout')
    BY <1>1, <1>2, <1>3, <1>5, RequestsOfAppend DEF RequestInv, OneByOne
  <1>7. OneByOne'
    BY <1>2, <1>4, <1>6 DEF RequestInv, OneByOne
  <1>8. \A p \in Places \ {"stdout"} : RequestsAt'[p] \subseteq RequestsAt[p] \ {x}
    BY <1>2, <1>4, PlacesSpelled DEF Places
  <1>9. RequestsAt'["stdout"] \subseteq (RequestsAt["stdout"] \union {x}) \ {0}
    BY <1>6, PlacesSpelled
  <1> QED
    BY <1>2, <1>3, <1>4, <1>7, <1>8, <1>9, RequestMoves DEF Places

\* The client reads a response, and has not read one of that request before.
LEMMA RequestAnswered ==
  ASSUME TypeOK, TypeOK', RequestInv, ClientReads
  PROVE  RequestInv'
  <1>1. PICK x : x = RequestOf(Head(stdout))
    OBVIOUS
  <1>2. /\ stdout # << >> /\ stdout' = Tail(stdout)
        /\ UNCHANGED << stdin, requests, work, outbound, WithReader, WithWorker >>
    BY DEF ClientReads, ReadsFrame, WithReader, WithWorker, clientVars, readerVars,
           workerVars
  <1>3. stdout \in Seq(Frames) /\ requests \in Nat /\ Head(stdout) \in Frames
    BY <1>2, HeadAndTail DEF TypeOK, ClientTypeOK, ChannelTypeOK
  <1>4. /\ x \in 0 .. requests
        /\ \A q \in Places \ {"stdout"} : x \notin RequestsAt[q]
        /\ RequestsIn(stdout') \subseteq RequestsIn(stdout) \ {x}
        /\ EachOnce(stdout')
    BY <1>1, <1>2, <1>3, HeadRequest, PlacesSpelled DEF RequestInv, OneByOne, Places
  <1>5. answered' \subseteq answered \union {x}
    <2>1. Head(stdout).kind \in ResponseKinds => Head(stdout).id = x
      BY <1>1, <1>3, RequestIds
    <2> QED
      BY <2>1 DEF ClientReads, ReadsFrame
  <1>6. OneByOne'
    BY <1>2, <1>4 DEF RequestInv, OneByOne
  <1>7. \A p \in Places \ {"answered"} : RequestsAt'[p] \subseteq RequestsAt[p] \ {x}
    BY <1>2, <1>4, PlacesSpelled DEF Places
  <1>8. RequestsAt'["answered"] \subseteq (RequestsAt["answered"] \union {x}) \ {0}
    BY <1>5, PlacesSpelled
  <1> QED
    BY <1>2, <1>3, <1>4, <1>6, <1>7, <1>8, RequestMoves DEF Places

\* Every step of the host and of its client keeps each request in one place.
LEMMA StepRequests ==
  ASSUME TypeOK, TypeOK', RequestInv, [Next]_vars
  PROVE  RequestInv'
  <1>1. CASE RequestsStay
    <2>1. \A p \in Places : RequestsAt'[p] \subseteq RequestsAt[p]
      BY <1>1, PlacesSpelled DEF Places, RequestsStay
    <2>2. OneByOne' /\ requests' = requests
      BY <1>1 DEF RequestInv, OneByOne, RequestsStay
    <2> QED
      BY <2>1, <2>2, RequestLost
  <1>2. CASE WriterFails
    <2>1. /\ outbound' = << >>
          /\ UNCHANGED << stdin, requests, work, stdout, answered, WithReader, WithWorker >>
      BY <1>2 DEF WriterFails, WithReader, WithWorker, clientVars, readerVars, workerVars,
                  historyVars
    <2>2. RequestsIn(outbound') = {} /\ EachOnce(outbound')
      BY <2>1 DEF RequestsIn, EachOnce
    <2>3. OneByOne'
      BY <2>1, <2>2 DEF RequestInv, OneByOne
    <2>4. \A p \in Places : RequestsAt'[p] \subseteq RequestsAt[p]
      BY <2>1, <2>2, PlacesSpelled DEF Places
    <2> QED
      BY <2>1, <2>3, <2>4, RequestLost
  <1> QED
    BY <1>1, <1>2, RequestSteps, RequestMade, RequestRead, RequestTaken, RequestSent,
       RequestWritten, RequestAnswered

\* A host that has answered all the requests so far has no other.
LEMMA RestRequests ==
  ASSUME NEW last, NEW state, NEW used \in Nat, HostAtRest(last, state, used)
  PROVE  RequestInv
  <1>1. /\ stdin = << >> /\ work = << >> /\ outbound = << >> /\ stdout = << >>
        /\ requests = used /\ rpc = "read" /\ wpc = "recv" /\ answered = 1 .. used
    BY DEF HostAtRest
  <1>2. RequestsIn(<< >>) = {} /\ EachOnce(<< >>)
    BY DEF RequestsIn, EachOnce
  <1>3. WithReader = {} /\ WithWorker = {} /\ OneByOne
    BY <1>1, <1>2 DEF WithReader, WithWorker, OneByOne
  <1>4. Apart(RequestsAt, requests)
    BY <1>1, <1>2, <1>3, PlacesSpelled DEF Apart, Places
  <1> QED
    BY <1>3, <1>4 DEF RequestInv

\* A step reads a response only of a request that has none yet.
LEMMA AnswersNew ==
  ASSUME TypeOK, TypeOK', RequestInv, Len(stdout') < Len(stdout),
         Head(stdout).kind \in ResponseKinds
  PROVE  Head(stdout).id \notin answered \ {0}
  <1>1. stdout \in Seq(Frames) /\ stdout # << >>
    <2>1. stdout \in Seq(Frames) /\ stdout' \in Seq(Frames)
      BY DEF TypeOK, ChannelTypeOK
    <2> QED
      BY <2>1
  <1>2. RequestOf(Head(stdout)) = Head(stdout).id
    BY <1>1, HeadAndTail, RequestIds
  <1>3. RequestOf(Head(stdout)) \notin RequestsAt["answered"]
    BY <1>1, HeadRequest, PlacesSpelled DEF RequestInv, OneByOne, Places
  <1> QED
    BY <1>2, <1>3, PlacesSpelled

\* In every behaviour of the host, whichever thread answers - the reader, which
\* overtakes the queue with a Stop, or the worker - no request is answered twice.
THEOREM RequestsAnsweredOnce == Spec => AnsweredOnce
  <1>1. Init => RequestInv
    BY RestRequests DEF Init
  <1>2. TypeOK /\ TypeOK' /\ RequestInv /\ [Next]_vars => RequestInv'
    BY StepRequests
  <1>3. TypeOK /\ TypeOK' /\ RequestInv /\ [Next]_vars
          => [(Len(stdout') < Len(stdout) /\ Head(stdout).kind \in ResponseKinds)
                => Head(stdout).id \notin answered \ {0}]_vars
    BY AnswersNew
  <1> QED
    BY <1>1, <1>2, <1>3, TypeCorrect, PTL DEF Spec, AnsweredOnce
=============================================================================
