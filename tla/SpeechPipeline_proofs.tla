------------------------ MODULE SpeechPipeline_proofs ------------------------
(***************************************************************************)
(* Theorems about SpeechPipeline for every capacity, every program of      *)
(* utterances, any number of cancellations and timeouts, and every answer  *)
(* of ECI.  The last two are about utterances as speak() ends them, with   *)
(* an ECI whose calls succeed; they name these hypotheses.  The host's     *)
(* part of a step is that of EloquenceHost, so that the lemmas about it    *)
(* are cited from EloquenceHost_proofs.                                    *)
(***************************************************************************)
EXTENDS SpeechPipeline, EloquenceHost_proofs, FiniteSetTheorems

-----------------------------------------------------------------------------
(* What a send does to the connection and to stdin.                        *)

\* The fields of the connection after a command has been sent.
LEMMA AfterSendFields ==
  ASSUME NEW c \in Connections, NEW kind, NEW next, next = AfterSend(c, kind)
  PROVE  /\ next \in Connections
         /\ next.generation = IF Opens(c, kind) THEN c.generation + 1 ELSE c.generation
         /\ kind # "Stop" => next.cancelled = c.cancelled
         /\ kind # "Stop" => next.active_generation =
              IF Opens(c, kind) THEN c.generation + 1 ELSE c.active_generation
         /\ kind = "Stop" => next.cancelled = TRUE
         /\ kind = "Stop" => next.active_generation = NoActive
         /\ kind = "Stop" => ~Opens(c, kind)
  <1>1. PICK sent : sent = IF Opens(c, kind) THEN Opened(c) ELSE c
    OBVIOUS
  <1>2. /\ sent \in Connections /\ sent.cancelled = c.cancelled
        /\ sent.generation = IF Opens(c, kind) THEN c.generation + 1 ELSE c.generation
        /\ sent.active_generation =
             IF Opens(c, kind) THEN c.generation + 1 ELSE c.active_generation
    <2>1. CASE Opens(c, kind)
      <3>1. sent = [c EXCEPT !.generation = @ + 1, !.active_generation = c.generation + 1,
                             !.generation_open = TRUE]
        BY <1>1, <2>1 DEF Opened
      <3>2. c.generation + 1 \in Nat
        BY DEF Connections
      <3>3. sent \in Connections
        BY <3>1, <3>2, Zenon DEF Connections
      <3>4. sent.cancelled = c.cancelled
        BY <3>1, Zenon DEF Connections
      <3>5. sent.generation = c.generation + 1 /\ sent.active_generation = c.generation + 1
        BY <3>1 DEF Connections
      <3> QED
        BY <2>1, <3>3, <3>4, <3>5
    <2>2. CASE ~Opens(c, kind)
      BY <1>1, <2>2
    <2> QED
      BY <2>1, <2>2
  <1>3. kind = "Stop" => ~Opens(c, kind)
    BY DEF Opens
  <1>4. CASE kind = "Synthesize"
    <2>1. next = [sent EXCEPT !.generation_open = FALSE]
      BY <1>1, <1>4 DEF AfterSend
    <2> QED
      BY <1>2, <1>4, <2>1 DEF Connections
  <1>5. CASE kind = "Stop"
    <2>1. next = [sent EXCEPT !.generation_open = FALSE, !.active_generation = NoActive,
                              !.cancelled = TRUE]
      BY <1>1, <1>5 DEF AfterSend
    <2>2. /\ next \in Connections /\ next.generation = sent.generation
          /\ next.cancelled = TRUE /\ next.active_generation = NoActive
      <3>1. NoActive \in Nat
        BY DEF NoActive
      <3>2. next \in Connections
        BY <1>2, <2>1, <3>1, Zenon DEF Connections
      <3>3. next.cancelled = TRUE
        BY <1>2, <2>1, Zenon DEF Connections
      <3>4. next.generation = sent.generation /\ next.active_generation = NoActive
        BY <1>2, <2>1, Zenon DEF Connections
      <3> QED
        BY <3>2, <3>3, <3>4
    <2> QED
      BY <1>2, <1>3, <1>5, <2>2
  <1>6. CASE kind \notin {"Synthesize", "Stop"}
    <2>1. next = sent
      BY <1>1, <1>6 DEF AfterSend
    <2> QED
      BY <1>2, <1>6, <2>1
  <1> QED
    BY <1>4, <1>5, <1>6

\* Which generation is active then.
LEMMA SendActivates ==
  ASSUME NEW c \in Connections, NEW kind, NEW next, next = AfterSend(c, kind)
  PROVE  next.active_generation =
           IF kind = "Stop" THEN NoActive
           ELSE IF Opens(c, kind) THEN c.generation + 1 ELSE c.active_generation
  <1>1. CASE kind = "Stop"
    <2>1. next.active_generation = NoActive
      BY <1>1, AfterSendFields
    <2> QED
      BY <1>1, <2>1
  <1>2. CASE kind # "Stop"
    <2>1. next.active_generation =
            IF Opens(c, kind) THEN c.generation + 1 ELSE c.active_generation
      BY <1>2, AfterSendFields
    <2> QED
      BY <1>2, <2>1
  <1> QED
    BY <1>1, <1>2

\* A send appends its command to stdin, behind a BeginGeneration if it opens one.
LEMMA SendAppends ==
  ASSUME TypeOK, conn \in Connections,
         NEW kind \in CommandKinds \ {"BeginGeneration"}, NEW arg \in Nat, Sends(kind, arg)
  PROVE  \E c \in Commands :
           /\ c.kind = kind /\ c.arg = arg
           /\ IF Opens(conn, kind)
                THEN \E b \in Commands :
                       /\ b.kind = "BeginGeneration" /\ b.arg = conn.generation + 1
                       /\ stdin' = Append(Append(stdin, b), c)
                ELSE stdin' = Append(stdin, c)
  <1>1. requests \in Nat /\ conn.generation \in Nat /\ stdin \in Seq(Commands)
    BY DEF TypeOK, ClientTypeOK, Connections
  <1>2. PICK b, c : /\ b = [kind |-> "BeginGeneration", id |-> 0, arg |-> conn.generation + 1]
                    /\ c = [kind |-> kind, id |-> requests + 1, arg |-> arg]
    OBVIOUS
  <1>3. b \in Commands /\ c \in Commands
    BY <1>1, <1>2 DEF Commands, CommandKinds
  <1>4. stdin' = stdin \o ((IF Opens(conn, kind) THEN << b >> ELSE << >>) \o << c >>)
    BY <1>2 DEF Sends, ClientWrites, FramesFor
  <1>5. CASE Opens(conn, kind)
    <2>1. stdin' = stdin \o (<< b >> \o << c >>)
      BY <1>4, <1>5
    <2>2. stdin \o (<< b >> \o << c >>) = Append(Append(stdin, b), c)
      BY <1>1, <1>3
    <2> QED
      BY <1>2, <1>3, <1>5, <2>1, <2>2
  <1>6. CASE ~Opens(conn, kind)
    <2>1. stdin' = stdin \o (<< >> \o << c >>)
      BY <1>4, <1>6
    <2>2. stdin \o (<< >> \o << c >>) = Append(stdin, c)
      BY <1>1, <1>3
    <2> QED
      BY <1>2, <1>3, <1>6, <2>1, <2>2
  <1> QED
    BY <1>5, <1>6

-----------------------------------------------------------------------------
(* The host's part of a step.                                              *)

\* What is known of the host while the client keeps its pipes open.
HostPart ==
  /\ TypeOK /\ QueuesBounded /\ StreamInv /\ LineRetained
  /\ writer /\ ~inputClosed

\* A step of the host leaves the client's side alone.
LEMMA HostLeaves ==
  ASSUME Host, ~inputClosed, writer
  PROVE  /\ UNCHANGED << inputClosed, requests, generations, heard, answered >>
         /\ writer'
  <1>1. CASE Reader
    BY <1>1
       DEF Reader, ReaderStop, ReaderLoadsHandle, ReaderCallsEciStop, ReaderReplies,
           ReaderRejects, ReaderQueues, ReaderSeesEof, ReaderJoinsWorker,
           ReaderJoinsWriter, ReaderTakes, clientVars, outVars, historyVars
  <1>2. CASE WorkerDispatches
    BY <1>2
       DEF WorkerDispatches, WorkerInitializes, WorkerHasNoRuntime, WorkerBegins,
           WorkerHasNoGeneration, WorkerAddsText, WorkerInsertsIndex,
           WorkerSetsVoiceParam, WorkerSynthesizes, WorkerDeletes, clientVars, outVars,
           historyVars
  <1>3. CASE EciCallback \/ EciSwallowsIndexes \/ HandleAudioCallback
               \/ HandleBadAudioCallback \/ HandleIndexCallback \/ WorkerTriesSend
               \/ CallbackReturns \/ EciSynchronized \/ WorkerFinishes
               \/ WorkerEndsSynthesis \/ WorkerResponds \/ WorkerDisconnects
               \/ WorkerDropsEngine \/ WorkerJoinsForwarder
    BY <1>3
       DEF EciCallback, EciSwallowsIndexes, HandleAudioCallback, HandleBadAudioCallback,
           HandleIndexCallback, WorkerTriesSend, CallbackReturns, EciSynchronized,
           WorkerFinishes, WorkerEndsSynthesis, WorkerResponds, WorkerDisconnects,
           WorkerDropsEngine, WorkerJoinsForwarder, clientVars, outVars, historyVars
  <1>4. CASE Forwarder \/ Writer
    BY <1>4
       DEF Forwarder, ForwarderReceives, ForwarderSends, ForwarderFails, Writer,
           WriterWrites, WriterFails, clientVars, outVars, historyVars
  <1> QED
    BY <1>1, <1>2, <1>3, <1>4 DEF Host, Worker

\* A step that leaves the host's variables alone keeps what is known of it.
LEMMA StillTyped == TypeOK /\ UNCHANGED vars => TypeOK'
  BY StepType

LEMMA StillKeepsPart == HostPart /\ UNCHANGED vars => HostPart'
  <1> SUFFICES ASSUME HostPart, UNCHANGED vars PROVE HostPart'
    OBVIOUS
  <1>1. [Next]_vars
    OBVIOUS
  <1>2. TypeOK' /\ QueuesBounded' /\ StreamInv' /\ LineRetained'
    BY <1>1, StepType, StepBounded, StepStream, StepOrder DEF HostPart
  <1>3. writer' /\ ~inputClosed'
    <2>1. inputClosed' = inputClosed /\ writer' = writer
      BY DEF vars, clientVars, outVars
    <2> QED
      BY <2>1, Zenon DEF HostPart
  <1> QED
    BY <1>2, <1>3 DEF HostPart

\* The host keeps what is known of it, and so does the client when it reads.
LEMMA HostKeepsPart ==
  ASSUME HostPart, Host \/ ClientReads
  PROVE  HostPart'
  <1>1. [Next]_vars
    BY DEF Next, Client
  <1>2. TypeOK'
    BY <1>1, StepType DEF HostPart
  <1>3. QueuesBounded' /\ StreamInv' /\ LineRetained'
    BY <1>1, <1>2, StepBounded, StepStream, StepOrder DEF HostPart
  <1>4. writer' /\ ~inputClosed'
    <2>1. inputClosed' = inputClosed /\ writer'
      <3>1. CASE Host
        BY <3>1, HostLeaves DEF HostPart
      <3>2. CASE ClientReads
        <4>1. inputClosed' = inputClosed /\ writer' = writer
          BY <3>2 DEF ClientReads, clientVars
        <4> QED
          BY <4>1, Zenon DEF HostPart
      <3> QED
        BY <3>1, <3>2
    <2> QED
      BY <2>1, Zenon DEF HostPart
  <1> QED
    BY <1>2, <1>3, <1>4 DEF HostPart

\* A send keeps the type of the host.
LEMMA SendType ==
  ASSUME TypeOK, conn \in Connections, conn.generation = generations,
         NEW kind \in CommandKinds \ {"BeginGeneration"}, NEW arg \in Nat, Sends(kind, arg)
  PROVE  TypeOK' /\ conn' \in Connections /\ conn'.generation = generations'
  <1>1. PICK next : next = AfterSend(conn, kind)
    OBVIOUS
  <1>2. /\ next \in Connections /\ next.generation \in Nat
    BY <1>1, AfterSendFields DEF Connections
  <1>3. conn' = next /\ generations' = next.generation /\ requests' = requests + 1
    BY <1>1 DEF Sends
  <1>4. stdin' \in Seq(Commands)
    <2>1. stdin \in Seq(Commands)
      BY DEF TypeOK, ClientTypeOK
    <2> QED
      BY <2>1, SendAppends, AppendType
  <1>5. ClientTypeOK'
    BY <1>2, <1>3, <1>4 DEF TypeOK, ClientTypeOK, Sends
  <1>6. UNCHANGED << hostVars, outVars, historyVars >>
    BY DEF Sends
  <1>7. ReaderTypeOK' /\ WorkerTypeOK'
    BY <1>6 DEF TypeOK, ReaderTypeOK, WorkerTypeOK, hostVars, readerVars, workerVars
  <1>8. EngineTypeOK' /\ ChannelTypeOK'
    BY <1>6 DEF TypeOK, EngineTypeOK, ChannelTypeOK, hostVars, engineVars, eciVars,
                eventVars, outVars
  <1>9. HistoryTypeOK'
    BY <1>6 DEF TypeOK, HistoryTypeOK, hostVars, eventVars, historyVars
  <1> QED
    BY <1>2, <1>3, <1>5, <1>7, <1>8, <1>9 DEF TypeOK

\* A send keeps the generations in order: the one it opens is the highest.
LEMMA SendKeepsPart ==
  ASSUME HostPart, conn \in Connections, conn.generation = generations,
         NEW kind \in CommandKinds \ {"BeginGeneration"}, NEW arg \in Nat, Sends(kind, arg)
  PROVE  HostPart'
  <1>1. TypeOK'
    BY SendType DEF HostPart
  <1>2. UNCHANGED << inputClosed, work, tracker, outgoing, emitted, wpc, latest, events,
                     forwarding, forwarder, outbound, writer, stdout, heard >>
    BY DEF Sends, hostVars, workerVars, engineVars, eventVars, outVars, historyVars
  <1>3. QueuesBounded'
    BY <1>2 DEF HostPart, QueuesBounded
  <1>4. LineRetained'
    BY <1>2 DEF HostPart, LineRetained, Line
  <1>5. TrackerInStep' /\ OutgoingInStep'
    BY <1>2, ReportUnchanged DEF HostPart, StreamInv, TrackerInStep, OutgoingInStep, Reportable
  <1>6. PICK taken \in 0 .. MaxGenerations, queued \in 0 .. MaxGenerations :
          /\ taken <= queued /\ queued <= generations /\ generations <= MaxGenerations
          /\ Rising(work, taken, queued) /\ Rising(stdin, queued, generations)
          /\ tracker.generation <= taken /\ ReportedGeneration <= taken
          /\ latest.gen <= taken
          /\ \A k \in 1 .. Len(outgoing) : outgoing[k].gen <= taken
    BY DEF HostPart, StreamInv, GenerationsInOrder
  <1>7. /\ tracker'.generation <= taken /\ ReportedGeneration' <= taken
        /\ latest'.gen <= taken
        /\ \A k \in 1 .. Len(outgoing') : outgoing'[k].gen <= taken
    BY <1>2, <1>6, ReportUnchanged
  <1>8. /\ queued \in Nat /\ generations \in Nat /\ stdin \in Seq(Commands)
        /\ conn.generation + 1 = generations + 1
    BY <1>6, StreamTypes DEF HostPart
  <1>9. PICK c \in Commands :
          /\ c.kind = kind
          /\ IF Opens(conn, kind)
               THEN \E b \in Commands :
                      /\ b.kind = "BeginGeneration" /\ b.arg = conn.generation + 1
                      /\ stdin' = Append(Append(stdin, b), c)
               ELSE stdin' = Append(stdin, c)
    BY SendAppends DEF HostPart
  <1>10. generations' = IF Opens(conn, kind) THEN generations + 1 ELSE generations
    <2>1. PICK next : next = AfterSend(conn, kind)
      OBVIOUS
    <2>2. generations' = next.generation
      BY <2>1 DEF Sends
    <2> QED
      BY <1>8, <2>1, <2>2, AfterSendFields
  <1>11. generations' <= MaxGenerations
    BY DEF Sends
  <1>12. Rising(stdin', queued, generations')
    <2>1. CASE Opens(conn, kind)
      <3>1. PICK b \in Commands :
              /\ b.kind = "BeginGeneration" /\ b.arg = generations + 1
              /\ stdin' = Append(Append(stdin, b), c)
        BY <1>8, <1>9, <2>1
      <3>2. PICK s : s = Append(stdin, b)
        OBVIOUS
      <3>3. s \in Seq(Commands)
        BY <1>8, <3>2, AppendType
      <3>4. Rising(s, queued, generations + 1)
        BY <1>6, <1>8, <3>1, <3>2, RisingAppend
      <3>5. generations + 1 \in Nat /\ queued <= generations + 1
        BY <1>6, <1>8
      <3>6. Rising(Append(s, c), queued, generations + 1)
        BY <1>8, <1>9, <3>3, <3>4, <3>5, RisingAppend
      <3> QED
        BY <1>10, <2>1, <3>1, <3>2, <3>6
    <2>2. CASE ~Opens(conn, kind)
      BY <1>6, <1>8, <1>9, <1>10, <2>2, RisingAppend
    <2> QED
      BY <2>1, <2>2
  <1>13. queued <= generations'
    BY <1>6, <1>8, <1>10
  <1>14. GenerationsInOrder'
    BY <1>2, <1>6, <1>7, <1>11, <1>12, <1>13 DEF GenerationsInOrder
  <1> QED
    BY <1>1, <1>2, <1>3, <1>4, <1>5, <1>14 DEF HostPart, StreamInv

-----------------------------------------------------------------------------
(* The client hears the progress generation by generation.                 *)

\* One report may come before another one.
Precedes(e, f) ==
  \/ e.gen < f.gen
  \/ e.gen = f.gen /\ (e.kind # "Done" \/ f.kind = "Stopped")

EmittedInOrder ==
  /\ \A k \in 1 .. Len(emitted) : emitted[k].gen # NoGeneration
  /\ \A j, k \in 1 .. Len(emitted) : j < k => Precedes(emitted[j], emitted[k])

\* What the stream allows comes after all that was reported.
LEMMA ReportFollows ==
  ASSUME TypeOK, EmittedInOrder, NEW e \in EngineEvents, Reportable(e),
         NEW j \in 1 .. Len(emitted)
  PROVE  Precedes(emitted[j], e)
  <1>1. PICK n : n = Len(emitted)
    OBVIOUS
  <1>2. /\ n \in Nat /\ n # 0 /\ j \in 1 .. n /\ n \in 1 .. n /\ emitted # << >>
        /\ \A k \in 1 .. n : emitted[k].gen \in Nat
    <2>1. emitted \in Seq(EngineEvents)
      BY DEF TypeOK, HistoryTypeOK
    <2>2. \A k \in 1 .. n : emitted[k] \in EngineEvents
      BY <1>1, <2>1
    <2> QED
      BY <1>1, <2>1, <2>2 DEF EngineEvents
  <1>3. ReportedGeneration = emitted[n].gen /\ e.gen \in Nat
    BY <1>1, <1>2 DEF ReportedGeneration, NewestReport, EngineEvents
  <1>4. emitted[j].gen <= emitted[n].gen
    BY <1>1, <1>2 DEF EmittedInOrder, Precedes
  <1>5. CASE e.gen > ReportedGeneration
    BY <1>2, <1>3, <1>4, <1>5 DEF Precedes
  <1>6. CASE e.gen = ReportedGeneration /\ emitted[j].gen = e.gen /\ e.kind # "Stopped"
    <2>1. ReportedPhase \notin {"done", "stopped"}
      BY <1>2, <1>3, <1>6 DEF Reportable, Stream!MayReport
    <2>2. emitted[n].kind \notin {"Done", "Stopped"}
      BY <1>1, <1>2, <2>1 DEF ReportedPhase, NewestReport
    <2>3. emitted[j].kind # "Done"
      BY <1>1, <1>2, <1>3, <1>6, <2>2 DEF EmittedInOrder, Precedes
    <2> QED
      BY <1>6, <2>3 DEF Precedes
  <1>7. e.gen > ReportedGeneration \/ e.gen = ReportedGeneration
    BY DEF Reportable, Stream!MayReport
  <1> QED
    BY <1>2, <1>3, <1>4, <1>5, <1>6, <1>7 DEF Precedes

\* Reports are made in order.
LEMMA StepEmitted ==
  ASSUME TypeOK, StreamInv, EmittedInOrder, [Next]_vars
  PROVE  EmittedInOrder'
  <1>1. CASE UNCHANGED emitted
    BY <1>1 DEF EmittedInOrder
  <1>2. CASE WorkerTriesSend
    <2>1. PICK e : e = Head(outgoing)
      OBVIOUS
    <2>2. /\ outgoing \in Seq(EngineEvents) /\ outgoing # << >>
          /\ emitted \in Seq(EngineEvents)
      BY <1>2 DEF WorkerTriesSend, TypeOK, WorkerTypeOK, HistoryTypeOK
    <2>3. e \in EngineEvents /\ e = outgoing[1] /\ 1 \in 1 .. Len(outgoing)
      BY <2>1, <2>2
    <2>4. CASE IsProgress(e) /\ emitted' = Append(emitted, e)
      <3>1. Reportable(e) /\ e.gen # NoGeneration
        BY <2>3, <2>4 DEF StreamInv, OutgoingInStep
      <3>2. \A j \in 1 .. Len(emitted) : Precedes(emitted[j], e)
        BY <2>3, <3>1, ReportFollows
      <3>3. /\ Len(emitted') = Len(emitted) + 1 /\ emitted'[Len(emitted) + 1] = e
            /\ \A k \in 1 .. Len(emitted) : emitted'[k] = emitted[k]
            /\ \A k \in 1 .. Len(emitted') : k \in 1 .. Len(emitted) \/ k = Len(emitted) + 1
            /\ \A j, k \in 1 .. Len(emitted') : j < k => j \in 1 .. Len(emitted)
        BY <2>2, <2>3, <2>4
      <3> QED
        BY <3>1, <3>2, <3>3, Zenon DEF EmittedInOrder
    <2>5. CASE UNCHANGED emitted
      BY <1>1, <2>5
    <2> QED
      BY <1>2, <2>1, <2>4, <2>5 DEF WorkerTriesSend
  <1>3. UNCHANGED emitted \/ WorkerTriesSend
    BY LineSteps
       DEF OffTheLine, eventVars, ClientReads, WriterWrites, WriterFails,
           ForwarderReceives, ForwarderSends, ForwarderFails, ReaderReplies,
           WorkerResponds, WorkerJoinsForwarder
  <1> QED
    BY <1>1, <1>2, <1>3

\* What has been gathered stays at its place.
LEMMA GathersGrow ==
  ASSUME NEW S, NEW s \in Seq(S), NEW f, Gathers(f, s), NEW i \in 0 .. Len(s)
  PROVE  \A m \in i .. Len(s) :
           /\ Len(f[i]) <= Len(f[m])
           /\ \A k \in 1 .. Len(f[i]) : f[m][k] = f[i][k]
  <1>1. \A n \in 1 .. Len(s) :
          f[n] = IF IsProgress(s[n]) THEN Append(f[n - 1], s[n]) ELSE f[n - 1]
    BY GathersStepwise
  <1>2. \A n \in 0 .. Len(s) : f[n] \in Seq(S)
    BY GathersType
  <1> DEFINE Grown(m) == /\ Len(f[i]) <= Len(f[m])
                         /\ \A k \in 1 .. Len(f[i]) : f[m][k] = f[i][k]
             Lost == {m \in i .. Len(s) : ~Grown(m)}
  <1> SUFFICES ASSUME Lost # {} PROVE FALSE
    OBVIOUS
  <1>3. PICK m \in Lost : \A n \in Lost : m <= n
    <2>1. Lost \in SUBSET Nat
      OBVIOUS
    <2> HIDE DEF Lost
    <2> QED
      BY <2>1, LeastNumber
  <1>4. Grown(i)
    BY <1>2
  <1>5. /\ m # i /\ m \in 1 .. Len(s) /\ m - 1 \in i .. Len(s) /\ m - 1 \in 0 .. Len(s)
        /\ ~(m <= m - 1)
    <2>1. m # i
      BY <1>4
    <2> QED
      BY <2>1
  <1>6. Grown(m - 1)
    <2> HIDE DEF Grown
    <2> QED
      BY <1>3, <1>5
  <1>7. f[m - 1] \in Seq(S) /\ f[i] \in Seq(S) /\ s[m] \in S
    BY <1>2, <1>5
  <1>8. PICK u : u = f[m - 1]
    OBVIOUS
  <1>9. f[m] = u \/ f[m] = Append(u, s[m])
    BY <1>1, <1>5, <1>8
  <1>10. /\ Len(u) <= Len(f[m])
         /\ \A k \in 1 .. Len(u) : f[m][k] = u[k]
    BY <1>7, <1>8, <1>9
  <1>11. Len(f[i]) \in Nat /\ Len(u) \in Nat /\ Len(f[m]) \in Nat
    BY <1>2, <1>5, <1>7, <1>8
  <1>12. Grown(m)
    <2>1. PICK v, w : v = f[i] /\ w = f[m]
      OBVIOUS
    <2>2. /\ Len(v) \in Nat /\ Len(u) \in Nat /\ Len(w) \in Nat
          /\ Len(v) <= Len(u) /\ Len(u) <= Len(w)
          /\ \A k \in 1 .. Len(v) : u[k] = v[k]
          /\ \A k \in 1 .. Len(u) : w[k] = u[k]
      BY <1>6, <1>8, <1>10, <1>11, <2>1
    <2>3. \A k \in 1 .. Len(v) : k \in 1 .. Len(u)
      BY <2>2
    <2>4. Len(v) <= Len(w) /\ \A k \in 1 .. Len(v) : w[k] = v[k]
      BY <2>2, <2>3
    <2> QED
      BY <2>1, <2>4
  <1> QED
    BY <1>12

\* Progress keeps its order when it is gathered.
LEMMA ProgressPlaces ==
  ASSUME NEW S, NEW s \in Seq(S), NEW j \in 1 .. Len(s), IsProgress(s[j])
  PROVE  \E b \in 1 .. Len(ProgressIn(s)) :
           /\ ProgressIn(s)[b] = s[j]
           /\ \A i \in 1 .. (j - 1) : IsProgress(s[i]) =>
                \E a \in 1 .. (b - 1) : ProgressIn(s)[a] = s[i]
  <1>1. PICK f : Gathers(f, s) /\ ProgressIn(s) = f[Len(s)]
    BY ProgressGathered
  <1>2. /\ \A n \in 0 .. Len(s) : f[n] \in Seq(S) /\ Len(f[n]) \in Nat
        /\ \A n \in 1 .. Len(s) :
             f[n] = IF IsProgress(s[n]) THEN Append(f[n - 1], s[n]) ELSE f[n - 1]
    <2>1. \A n \in 0 .. Len(s) : f[n] \in Seq(S)
      BY <1>1, GathersType
    <2> QED
      BY <1>1, <2>1, GathersStepwise
  <1>3. \A n \in 1 .. Len(s) : IsProgress(s[n]) =>
          Len(f[n]) = Len(f[n - 1]) + 1 /\ f[n][Len(f[n])] = s[n] /\ Len(f[n]) # 0
    <2> SUFFICES ASSUME NEW n \in 1 .. Len(s), IsProgress(s[n])
                 PROVE  Len(f[n]) = Len(f[n - 1]) + 1 /\ f[n][Len(f[n])] = s[n]
                          /\ Len(f[n]) # 0
      OBVIOUS
    <2>1. n - 1 \in 0 .. Len(s) /\ s[n] \in S
      OBVIOUS
    <2>2. f[n] = Append(f[n - 1], s[n]) /\ f[n - 1] \in Seq(S)
      BY <1>2, <2>1
    <2> QED
      BY <2>1, <2>2
  <1>4. PICK p, b : p = ProgressIn(s) /\ b = Len(f[j])
    OBVIOUS
  <1>5. b \in 1 .. Len(p) /\ p[b] = s[j] /\ b \in Nat
    <2>1. j \in 0 .. Len(s) /\ Len(s) \in j .. Len(s) /\ Len(s) \in 0 .. Len(s)
      OBVIOUS
    <2>2. Len(f[j]) <= Len(p) /\ \A k \in 1 .. Len(f[j]) : p[k] = f[j][k]
      BY <1>1, <1>4, <2>1, GathersGrow
    <2>3. Len(f[j]) \in 1 .. Len(f[j]) /\ Len(p) \in Nat /\ Len(f[j]) \in Nat
      BY <1>1, <1>2, <1>3, <1>4, <2>1
    <2>4. f[j][b] = s[j] /\ b # 0
      BY <1>3, <1>4
    <2>5. b \in Nat /\ b <= Len(p) /\ Len(p) \in Nat /\ p[b] = f[j][b]
      BY <1>4, <2>2, <2>3
    <2> QED
      BY <2>4, <2>5
  <1>6. ASSUME NEW i \in 1 .. (j - 1), IsProgress(s[i])
        PROVE  \E a \in 1 .. (b - 1) : p[a] = s[i]
    <2>1. /\ i \in 1 .. Len(s) /\ i \in 0 .. Len(s) /\ j - 1 \in i .. Len(s)
          /\ Len(s) \in i .. Len(s) /\ j - 1 \in 0 .. Len(s)
      OBVIOUS
    <2>2. Len(f[i]) <= Len(f[j - 1])
      BY <1>1, <2>1, GathersGrow
    <2>3. Len(f[i]) <= Len(p) /\ \A k \in 1 .. Len(f[i]) : p[k] = f[i][k]
      BY <1>1, <1>4, <2>1, GathersGrow
    <2>4. /\ Len(f[i]) \in Nat /\ Len(f[i]) # 0 /\ f[i][Len(f[i])] = s[i]
          /\ b = Len(f[j - 1]) + 1 /\ Len(f[j - 1]) \in Nat
      BY <1>2, <1>3, <1>4, <1>6, <2>1
    <2>5. Len(f[i]) \in 1 .. (b - 1) /\ Len(f[i]) \in 1 .. Len(f[i])
      BY <2>2, <2>4
    <2> QED
      BY <2>3, <2>4, <2>5
  <1> QED
    BY <1>4, <1>5, <1>6

HeardInOrder ==
  \A j \in 1 .. Len(heard) : IsProgress(heard[j]) =>
    /\ heard[j].gen # NoGeneration
    /\ \A i \in 1 .. (j - 1) : IsProgress(heard[i]) => Precedes(heard[i], heard[j])

\* What the client has heard is the beginning of what was emitted, in order.
LEMMA HearsInOrder == HostPart /\ EmittedInOrder => HeardInOrder
  <1> SUFFICES ASSUME HostPart, EmittedInOrder,
                      NEW j \in 1 .. Len(heard), IsProgress(heard[j])
               PROVE  /\ heard[j].gen # NoGeneration
                      /\ \A i \in 1 .. (j - 1) :
                           IsProgress(heard[i]) => Precedes(heard[i], heard[j])
    BY DEF HeardInOrder
  <1>1. PICK p, rest :
          /\ p = ProgressIn(heard)
          /\ rest = ProgressIn(stdout) ++ (ProgressIn(outbound)
                      ++ (ProgressIn(forwarding) ++ ProgressIn(events)))
    OBVIOUS
  <1>2. p \in Seq(Frames) /\ rest \in Seq(Frames) /\ heard \in Seq(Frames)
    <2>1. ProgressIn(forwarding) ++ ProgressIn(events) \in Seq(Frames)
      BY LineTypes, FramesConcat DEF HostPart
    <2>2. ProgressIn(outbound) ++ (ProgressIn(forwarding) ++ ProgressIn(events)) \in Seq(Frames)
      BY <2>1, LineTypes, FramesConcat DEF HostPart
    <2> QED
      BY <1>1, <2>2, LineTypes, FramesConcat DEF HostPart
  <1>3. emitted = p \o rest
    BY <1>1 DEF HostPart, LineRetained, Line, ++
  <1>4. \A a \in 1 .. Len(p) : a \in 1 .. Len(emitted) /\ emitted[a] = p[a]
    BY <1>2, <1>3
  <1>5. PICK b \in 1 .. Len(p) :
          /\ p[b] = heard[j]
          /\ \A i \in 1 .. (j - 1) : IsProgress(heard[i]) =>
               \E a \in 1 .. (b - 1) : p[a] = heard[i]
    BY <1>1, <1>2, ProgressPlaces
  <1>6. b \in 1 .. Len(emitted) /\ emitted[b] = heard[j]
    BY <1>4, <1>5
  <1>7. ASSUME NEW i \in 1 .. (j - 1), IsProgress(heard[i])
        PROVE  Precedes(heard[i], heard[j])
    <2>1. PICK a \in 1 .. (b - 1) : p[a] = heard[i]
      BY <1>5, <1>7
    <2>2. a \in 1 .. Len(p) /\ a < b
      BY <1>2
    <2>3. a \in 1 .. Len(emitted) /\ emitted[a] = heard[i]
      BY <1>4, <2>1, <2>2
    <2> QED
      BY <1>6, <2>2, <2>3 DEF EmittedInOrder
  <1> QED
    BY <1>6, <1>7 DEF EmittedInOrder

-----------------------------------------------------------------------------
(* The client's part of a step.                                            *)

\* The threads of the client: what an item and the worker are about, and how far
\* the main thread's count of cancellations is ahead of the Stops sent.
Threads ==
  /\ \A k \in 1 .. Len(synthQueue) :
       synthQueue[k].utterance \in DOMAIN Programs /\ synthQueue[k].seq <= stopSent
  /\ currentSeq <= stopSent
  /\ cpc # "get" => current.utterance \in DOMAIN Programs
  /\ cpc = "send" => position <= Len(Program)
  /\ sequence = cancels
  /\ sequence = IF mpc = "idle" THEN stopSent ELSE stopSent + 1

\* The receiver's event and the chunks are of generations that were begun.
Reception ==
  /\ rcpc = "clear" => message.kind \in {"Done", "Stopped"}
  /\ rcpc = "tag" => message.kind \in {"Audio", "Index", "Done"}
  /\ rcpc # "recv" => message.gen \in 1 .. generations
  /\ conn.active_generation <= generations
  /\ \A k \in 1 .. Len(audioQueue) : audioQueue[k].gen \in 1 .. generations

\* Since the newest Stop the connection has been closed to what was before it:
\* the worker opens a generation only for a later item, and only the generation
\* of a later item is active.
Guarded ==
  /\ cpc = "send" /\ ~conn.cancelled => stopSent <= current.seq
  /\ conn.active_generation # NoActive => stopSent <= owner[conn.active_generation].seq

ClientPart == PipelineTypeOK /\ Threads /\ Reception /\ Guarded

\* A step that leaves the client's variables alone keeps what is known of them.
LEMMA StillKeepsClient ==
  ASSUME ClientPart, TypeOK', UNCHANGED << requests, generations >>,
         UNCHANGED << mainVars, synthQueue, synthVars, conn, receiverVars, clientHistory >>
  PROVE  ClientPart'
  <1> USE DEF ClientPart, mainVars, synthVars, receiverVars, clientHistory
  <1>1. PipelineTypeOK'
    BY DEF PipelineTypeOK
  <1>2. Threads'
    BY DEF Threads, Program
  <1>3. Reception' /\ Guarded'
    BY DEF Reception, Guarded
  <1> QED
    BY <1>1, <1>2, <1>3

\* NVDA queues an utterance with the sequence of the moment.
LEMMA SpeakKeepsClient ==
  ASSUME ClientPart, TypeOK', Speak
  PROVE  ClientPart'
  <1> USE DEF ClientPart
  <1>1. PICK new : new = [utterance |-> spoken + 1, seq |-> sequence]
    OBVIOUS
  <1>2. /\ mpc = "idle" /\ spoken < Len(Programs) /\ spoken' = spoken + 1
        /\ synthQueue' = Append(synthQueue, new)
        /\ UNCHANGED << sequence, mpc, cancels, synthVars, conn, receiverVars,
                        clientHistory, requests, generations >>
    BY <1>1 DEF Speak, vars, clientVars
  <1>3. /\ Len(Programs) \in Nat /\ spoken \in 0 .. Len(Programs) /\ sequence \in Nat
        /\ synthQueue \in Seq(Items) /\ DOMAIN Programs = 1 .. Len(Programs)
    BY ProgramAssumption DEF PipelineTypeOK
  <1>4. new \in Items /\ new.utterance \in DOMAIN Programs /\ new.seq = sequence
    BY <1>1, <1>2, <1>3 DEF Items
  <1>5. /\ synthQueue' \in Seq(Items)
        /\ \A k \in 1 .. Len(synthQueue') :
             \/ synthQueue'[k] = new
             \/ k \in 1 .. Len(synthQueue) /\ synthQueue'[k] = synthQueue[k]
    BY <1>2, <1>3, <1>4
  <1>6. PipelineTypeOK'
    BY <1>2, <1>3, <1>5
       DEF PipelineTypeOK, synthVars, receiverVars, clientHistory
  <1>7. Threads'
    <2>1. sequence = stopSent /\ stopSent \in Nat
      BY <1>2, <1>3 DEF Threads, PipelineTypeOK
    <2>2. stopSent' = stopSent
      BY <1>2 DEF clientHistory
    <2>3. \A k \in 1 .. Len(synthQueue') :
            synthQueue'[k].utterance \in DOMAIN Programs /\ synthQueue'[k].seq <= stopSent'
      BY <1>4, <1>5, <2>1, <2>2 DEF Threads
    <2> QED
      BY <1>2, <2>3 DEF Threads, Program, synthVars, clientHistory
  <1>8. Reception' /\ Guarded'
    BY <1>2 DEF Reception, Guarded, synthVars, receiverVars, clientHistory
  <1> QED
    BY <1>6, <1>7, <1>8

\* NVDA cancels: the sequence moves one ahead of the Stops that are sent.
LEMMA CancelKeepsClient ==
  ASSUME ClientPart, TypeOK', Cancel
  PROVE  ClientPart'
  <1> USE DEF ClientPart
  <1>1. /\ mpc = "idle" /\ mpc' = "stopping" /\ sequence' = sequence + 1
        /\ cancels' = cancels + 1
        /\ UNCHANGED << spoken, synthQueue, synthVars, conn, receiverVars,
                        clientHistory, requests, generations >>
    BY DEF Cancel, vars, clientVars
  <1>2. /\ sequence \in Nat /\ stopSent \in 0 .. sequence
        /\ sequence = cancels /\ sequence = stopSent
    BY <1>1 DEF PipelineTypeOK, Threads
  <1>3. PipelineTypeOK'
    BY <1>1, <1>2 DEF PipelineTypeOK, synthVars, receiverVars, clientHistory
  <1>4. Threads'
    BY <1>1, <1>2 DEF Threads, Program, synthVars, clientHistory
  <1>5. Reception' /\ Guarded'
    BY <1>1 DEF Reception, Guarded, synthVars, receiverVars, clientHistory
  <1> QED
    BY <1>3, <1>4, <1>5

\* The synth worker takes an item, or drops it.
LEMMA GetsKeepsClient ==
  ASSUME ClientPart, TypeOK', SynthGets
  PROVE  ClientPart'
  <1> USE DEF ClientPart
  <1>1. PICK new : new = Head(synthQueue)
    OBVIOUS
  <1>2. /\ cpc = "get" /\ synthQueue # << >> /\ synthQueue' = Tail(synthQueue)
        /\ UNCHANGED << mainVars, position, awaited, timeouts, conn, receiverVars,
                        clientHistory, requests, generations >>
        /\ \/ UNCHANGED << cpc, current, currentSeq >>
           \/ cpc' = "prepare" /\ current' = new /\ currentSeq' = new.seq
    BY <1>1 DEF SynthGets, vars, clientVars
  <1>3. synthQueue \in Seq(Items)
    BY DEF PipelineTypeOK
  <1>4. /\ new \in Items /\ synthQueue' \in Seq(Items)
        /\ new = synthQueue[1] /\ 1 \in 1 .. Len(synthQueue)
        /\ \A k \in 1 .. Len(synthQueue') :
             k + 1 \in 1 .. Len(synthQueue) /\ synthQueue'[k] = synthQueue[k + 1]
    BY <1>1, <1>2, <1>3
  <1>5. new.utterance \in DOMAIN Programs /\ new.seq <= stopSent /\ new.seq \in Nat
    BY <1>4 DEF Threads, Items
  <1>6. PipelineTypeOK'
    BY <1>2, <1>4, <1>5 DEF PipelineTypeOK, mainVars, receiverVars, clientHistory
  <1>7. Threads'
    <2>1. /\ \A k \in 1 .. Len(synthQueue') :
               synthQueue'[k].utterance \in DOMAIN Programs /\ synthQueue'[k].seq <= stopSent
      BY <1>4 DEF Threads
    <2>2. currentSeq' <= stopSent /\ (cpc' # "get" => current'.utterance \in DOMAIN Programs)
      BY <1>2, <1>5 DEF Threads
    <2>3. cpc' # "send"
      BY <1>2
    <2> QED
      BY <1>2, <2>1, <2>2, <2>3 DEF Threads, mainVars, clientHistory
  <1>8. Reception' /\ Guarded'
    BY <1>2 DEF Reception, Guarded, receiverVars, clientHistory
  <1> QED
    BY <1>6, <1>7, <1>8

\* The synth worker prepares a generation, checks whether its item is stale, or
\* stops waiting.
LEMMA WorkerKeepsClient ==
  ASSUME ClientPart, TypeOK', SynthPrepares \/ SynthChecks \/ SynthAnswered \/ SynthTimesOut
  PROVE  ClientPart'
  <1> USE DEF ClientPart
  <1>1. /\ UNCHANGED << mainVars, synthQueue, currentSeq, current, awaited, receiverVars,
                        clientHistory, requests, generations >>
        /\ cpc # "get"
        /\ cpc' \in {"get", "check", "send"} /\ position' \in {1, position}
    BY DEF SynthPrepares, SynthChecks, SynthAnswered, SynthTimesOut, vars, clientVars
  <1>2. /\ conn' \in Connections /\ conn'.generation = conn.generation
        /\ conn'.active_generation = conn.active_generation
        /\ conn' = conn \/ cpc' = "check"
    <2>1. conn' = conn \/ (conn' = Prepared(conn) /\ cpc' = "check")
      BY DEF SynthPrepares, SynthChecks, SynthAnswered, SynthTimesOut
    <2>2. conn \in Connections
      BY DEF PipelineTypeOK
    <2>3. PICK p : p = Prepared(conn)
      OBVIOUS
    <2>4. p \in Connections
      BY <2>2, <2>3, Zenon DEF Connections, Prepared
    <2>5. p.generation = conn.generation /\ p.active_generation = conn.active_generation
      BY <2>2, <2>3 DEF Connections, Prepared
    <2> QED
      BY <2>1, <2>2, <2>3, <2>4, <2>5
  <1>3. cpc' = "send" => position' <= Len(Program) /\ sequence <= current.seq /\ UNCHANGED conn
    <2>1. cpc' = "send" => SynthChecks
      BY DEF SynthPrepares, SynthChecks, SynthAnswered, SynthTimesOut
    <2>2. SynthChecks /\ cpc' = "send" =>
            /\ ~(position > Len(Program)) /\ ~(current.seq < sequence)
            /\ position' = position /\ UNCHANGED conn
      BY DEF SynthChecks, Stale
    <2>3. current.seq \in Nat /\ sequence \in Nat /\ position \in Nat
      BY DEF PipelineTypeOK, Items
    <2>4. Len(Program) \in Nat
      <3>1. current.utterance \in DOMAIN Programs
        BY <1>1 DEF Threads
      <3> QED
        BY <3>1, ProgramAssumption DEF Program
    <2> QED
      BY <2>1, <2>2, <2>3, <2>4
  <1>4. PipelineTypeOK'
    BY <1>1, <1>2 DEF PipelineTypeOK, mainVars, receiverVars, clientHistory
  <1>5. Threads'
    BY <1>1, <1>3 DEF Threads, Program, mainVars, clientHistory
  <1>6. Reception'
    BY <1>1, <1>2 DEF Reception, receiverVars
  <1>7. Guarded'
    <2>1. cpc' = "send" => stopSent <= current.seq
      BY <1>1, <1>3 DEF PipelineTypeOK, Items
    <2> QED
      BY <1>1, <1>2, <2>1 DEF Guarded, clientHistory
  <1> QED
    BY <1>4, <1>5, <1>6, <1>7

\* Stop closes the connection to everything the item before it left over.
LEMMA StopKeepsClient ==
  ASSUME HostPart, ClientPart, SendStop
  PROVE  ClientPart'
  <1> USE DEF ClientPart
  <1>1. PICK next : next = AfterSend(conn, "Stop")
    OBVIOUS
  <1>2. /\ next \in Connections /\ next.generation = conn.generation
        /\ next.cancelled = TRUE /\ next.active_generation = NoActive
    BY <1>1, AfterSendFields DEF PipelineTypeOK
  <1>3. TypeOK'
    BY SendType DEF HostPart, PipelineTypeOK, SendStop, CommandKinds
  <1>4. /\ mpc = "stopping" /\ mpc' = "idle" /\ stopSent' = sequence
        /\ conn' = next /\ generations' = next.generation /\ requests' = requests + 1
        /\ UNCHANGED << sequence, spoken, cancels, synthQueue, synthVars, receiverVars, owner >>
    BY <1>1 DEF SendStop, Sends
  <1>5. /\ sequence \in Nat /\ stopSent \in Nat /\ sequence = stopSent + 1
        /\ requests \in Nat /\ generations' = generations /\ synthQueue \in Seq(Items)
        /\ \A k \in 1 .. Len(synthQueue) : synthQueue[k].seq \in Nat
        /\ currentSeq \in Nat
    <2>1. synthQueue \in Seq(Items)
      BY DEF PipelineTypeOK
    <2>2. \A k \in 1 .. Len(synthQueue) : synthQueue[k] \in Items
      BY <2>1
    <2>3. /\ sequence \in Nat /\ stopSent \in Nat /\ sequence = stopSent + 1
          /\ currentSeq \in Nat
      BY <1>4 DEF PipelineTypeOK, Threads
    <2>4. requests \in Nat /\ generations' = generations
      BY <1>2, <1>4 DEF PipelineTypeOK, HostPart, TypeOK, ClientTypeOK
    <2> QED
      BY <2>1, <2>2, <2>3, <2>4 DEF Items
  <1>6. PipelineTypeOK'
    <2>1. awaited' \in 0 .. requests'
      BY <1>4, <1>5 DEF PipelineTypeOK, synthVars
    <2>2. stopSent' \in 0 .. sequence'
      BY <1>4, <1>5
    <2>3. conn' \in Connections /\ conn'.generation = generations'
      BY <1>2, <1>4
    <2> QED
      BY <1>3, <1>4, <1>5, <2>1, <2>2, <2>3 DEF PipelineTypeOK, synthVars, receiverVars
  <1>7. Threads'
    <2>1. \A k \in 1 .. Len(synthQueue) : synthQueue[k].seq <= sequence
      BY <1>5 DEF Threads
    <2>2. currentSeq <= sequence
      BY <1>5 DEF Threads
    <2> QED
      BY <1>4, <2>1, <2>2 DEF Threads, Program, synthVars
  <1>8. Reception'
    BY <1>2, <1>4, <1>5 DEF Reception, receiverVars, NoActive, HostPart, TypeOK, ClientTypeOK
  <1>9. Guarded'
    BY <1>2, <1>4 DEF Guarded
  <1> QED
    BY <1>6, <1>7, <1>8, <1>9

\* The commands of a program can be sent.
LEMMA ProgramSteps ==
  ASSUME ClientPart, cpc = "send"
  PROVE  /\ Program[position].kind \in CommandKinds \ {"BeginGeneration"}
         /\ Program[position].arg \in Nat
  <1>1. PICK p : p = Program
    OBVIOUS
  <1>2. current.utterance \in DOMAIN Programs /\ position \in Nat \ {0} /\ position <= Len(p)
    BY <1>1 DEF ClientPart, Threads, PipelineTypeOK
  <1>3. p \in Seq([kind : CommandKinds \ {"BeginGeneration"}, arg : Nat])
    <2> DEFINE steps == [kind : CommandKinds \ {"BeginGeneration"}, arg : Nat]
    <2>1. Programs \in Seq(Seq(steps))
      BY ProgramAssumption
    <2> HIDE DEF steps
    <2>2. p \in Seq(steps)
      BY <1>1, <1>2, <2>1 DEF Program
    <2> QED
      BY <2>2 DEF steps
  <1>4. p[position] \in [kind : CommandKinds \ {"BeginGeneration"}, arg : Nat]
    <2> DEFINE steps == [kind : CommandKinds \ {"BeginGeneration"}, arg : Nat]
    <2>1. p \in Seq(steps)
      BY <1>3
    <2> HIDE DEF steps
    <2>2. p[position] \in steps
      BY <1>2, <2>1
    <2> QED
      BY <2>2 DEF steps
  <1>5. PICK s : s = p[position]
    OBVIOUS
  <1>6. s.kind \in CommandKinds \ {"BeginGeneration"} /\ s.arg \in Nat
    BY <1>4, <1>5
  <1> QED
    BY <1>1, <1>5, <1>6

\* The synth worker sends a command, and may open a generation for its item.
LEMMA SendKeepsClient ==
  ASSUME HostPart, ClientPart, SynthSends
  PROVE  /\ ClientPart'
         /\ generations' > generations => stopSent <= current.seq
  <1> USE DEF ClientPart
  <1>1. PICK kind, arg, next :
          /\ kind = Program[position].kind /\ arg = Program[position].arg
          /\ next = AfterSend(conn, kind)
    OBVIOUS
  <1>2. /\ cpc = "send" /\ kind \in CommandKinds \ {"BeginGeneration"} /\ arg \in Nat
        /\ Sends(kind, arg)
    BY <1>1, ProgramSteps DEF SynthSends
  <1>3. TypeOK' /\ conn' \in Connections /\ conn'.generation = generations'
    BY <1>2, SendType DEF HostPart, PipelineTypeOK
  <1>4. /\ conn' = next /\ requests' = requests + 1
        /\ next.generation = IF Opens(conn, kind) THEN conn.generation + 1 ELSE conn.generation
        /\ kind # "Stop" => next.active_generation =
             IF Opens(conn, kind) THEN conn.generation + 1 ELSE conn.active_generation
        /\ kind = "Stop" => next.active_generation = NoActive /\ ~Opens(conn, kind)
    <2>1. conn' = next /\ requests' = requests + 1
      BY <1>1, <1>2 DEF Sends
    <2>2. conn \in Connections
      BY DEF PipelineTypeOK
    <2>3. next.generation = IF Opens(conn, kind) THEN conn.generation + 1 ELSE conn.generation
      BY <1>1, <2>2, AfterSendFields
    <2>4. kind # "Stop" => next.active_generation =
            IF Opens(conn, kind) THEN conn.generation + 1 ELSE conn.active_generation
      BY <1>1, <2>2, SendActivates
    <2>5. kind = "Stop" => next.active_generation = NoActive
      BY <1>1, <2>2, SendActivates
    <2>6. kind = "Stop" => ~Opens(conn, kind)
      BY DEF Opens
    <2> QED
      BY <2>1, <2>3, <2>4, <2>5, <2>6
  <1>5. /\ position' = position + 1 /\ cpc' \in {"check", "wait"}
        /\ awaited' = awaited \/ awaited' = requests + 1
        /\ owner' = IF Opens(conn, kind) THEN Append(owner, current) ELSE owner
        /\ UNCHANGED << mainVars, synthQueue, currentSeq, current, timeouts, receiverVars,
                        stopSent >>
    BY <1>1 DEF SynthSends
  <1>6. /\ requests \in Nat /\ generations \in Nat /\ conn.generation = generations
        /\ owner \in Seq(Items) /\ Len(owner) = generations /\ current \in Items
        /\ position \in Nat \ {0} /\ awaited \in 0 .. requests
    BY DEF PipelineTypeOK, HostPart, TypeOK, ClientTypeOK
  <1>7. /\ generations' = IF Opens(conn, kind) THEN generations + 1 ELSE generations
        /\ generations <= generations' /\ generations' \in Nat
        /\ owner' \in Seq(Items) /\ Len(owner') = generations'
        /\ \A g \in 1 .. generations : g \in 1 .. generations' /\ owner'[g] = owner[g]
        /\ Opens(conn, kind) => owner'[generations + 1] = current
    <2>1. CASE Opens(conn, kind)
      BY <1>3, <1>4, <1>5, <1>6, <2>1
    <2>2. CASE ~Opens(conn, kind)
      BY <1>3, <1>4, <1>5, <1>6, <2>2
    <2> QED
      BY <2>1, <2>2
  <1>8. Opens(conn, kind) => stopSent <= current.seq
    BY <1>2 DEF Guarded, Opens
  <1>9. PipelineTypeOK'
    <2>1. awaited' \in 0 .. requests' /\ position' \in Nat \ {0}
      BY <1>4, <1>5, <1>6
    <2> QED
      BY <1>3, <1>5, <1>7, <2>1 DEF PipelineTypeOK, mainVars, receiverVars
  <1>10. Threads'
    BY <1>2, <1>5 DEF Threads, mainVars
  <1>11. Reception'
    <2>1. next.active_generation <= generations'
      <3>1. conn.active_generation <= generations /\ conn.active_generation \in Nat
        BY DEF Reception, PipelineTypeOK, Connections
      <3> QED
        BY <1>4, <1>6, <1>7, <3>1 DEF NoActive
    <2>2. /\ rcpc # "recv" => message.gen \in 1 .. generations'
          /\ \A k \in 1 .. Len(audioQueue) : audioQueue[k].gen \in 1 .. generations'
      BY <1>7 DEF Reception
    <2> QED
      BY <1>4, <1>5, <2>1, <2>2 DEF Reception, receiverVars
  <1>12. Guarded'
    <2>1. cpc' # "send"
      BY <1>5
    <2>2. ASSUME next.active_generation # NoActive
          PROVE  stopSent <= owner'[next.active_generation].seq
      <3>1. CASE Opens(conn, kind)
        BY <1>4, <1>6, <1>7, <1>8, <2>2, <3>1
      <3>2. CASE ~Opens(conn, kind)
        <4>1. next.active_generation = conn.active_generation
          BY <1>4, <2>2, <3>2
        <4>2. conn.active_generation \in 1 .. generations
          BY <1>6, <2>2, <4>1 DEF Reception, PipelineTypeOK, Connections, NoActive
        <4> QED
          BY <1>7, <2>2, <4>1, <4>2 DEF Guarded
      <3> QED
        BY <3>1, <3>2
    <2> QED
      BY <1>4, <1>5, <2>1, <2>2 DEF Guarded
  <1> QED
    BY <1>6, <1>7, <1>8, <1>9, <1>10, <1>11, <1>12


-----------------------------------------------------------------------------
(* The receiver's part of a step.                                          *)

\* What the receiver reads, it hears; what passes is of the active generation.
LEMMA WhatIsRead ==
  ASSUME HostPart, HostPart', HeardInOrder', PipelineTypeOK, ReceiverReads
  PROVE  /\ rcpc = "recv"
         /\ \/ UNCHANGED << message, rcpc >>
            \/ /\ message' \in EngineEvents /\ IsProgress(message')
               /\ message'.gen = conn.active_generation /\ message'.gen # NoGeneration
               /\ heard' # << >> /\ message' = heard'[Len(heard')]
               /\ rcpc' = IF Clears(message') THEN "clear" ELSE "tag"
         /\ Len(heard) <= Len(heard')
         /\ \A k \in 1 .. Len(heard) : heard'[k] = heard[k]
         /\ ~(UNCHANGED << message, rcpc >>) => Len(heard') = Len(heard) + 1
  <1>1. PICK f : f = Head(stdout)
    OBVIOUS
  <1>2. /\ rcpc = "recv" /\ stdout # << >>
        /\ IF f.kind \in ResponseKinds THEN heard' = heard ELSE heard' = Append(heard, f)
        /\ IF IsProgress(f) /\ Passes(conn, f)
             THEN message' = f /\ rcpc' = IF Clears(f) THEN "clear" ELSE "tag"
             ELSE UNCHANGED << message, rcpc >>
    BY <1>1 DEF ReceiverReads, ReadsFrame
  <1>3. stdout \in Seq(Frames) /\ heard \in Seq(Frames)
    BY DEF HostPart, TypeOK, ChannelTypeOK, HistoryTypeOK
  <1>4. f \in Frames
    BY <1>1, <1>2, <1>3
  <1>5. IsProgress(f) => f \in EngineEvents /\ f.kind \notin ResponseKinds
    BY <1>4 DEF Frames, Responses, ResponseKinds, IsProgress, ProgressKinds
  <1>6. /\ Len(heard) \in Nat /\ Len(heard) <= Len(heard')
        /\ \A k \in 1 .. Len(heard) : heard'[k] = heard[k]
    BY <1>2, <1>3, <1>4
  <1>7. CASE IsProgress(f) /\ Passes(conn, f)
    <2>1. message' = f /\ rcpc' = IF Clears(f) THEN "clear" ELSE "tag"
      BY <1>2, <1>7
    <2>2. heard' = Append(heard, f)
      BY <1>2, <1>5, <1>7
    <2>3. /\ heard' # << >> /\ Len(heard') = Len(heard) + 1 /\ heard'[Len(heard')] = f
          /\ Len(heard') \in 1 .. Len(heard')
      BY <1>3, <1>4, <2>2
    <2>4. f.gen # NoGeneration
      BY <1>7, <2>3 DEF HeardInOrder
    <2>5. f.gen = conn.active_generation
      BY <1>7 DEF Passes
    <2> QED
      BY <1>2, <1>5, <1>6, <1>7, <2>1, <2>3, <2>4, <2>5
  <1>8. CASE ~(IsProgress(f) /\ Passes(conn, f))
    BY <1>2, <1>6, <1>8
  <1> QED
    BY <1>7, <1>8

\* What passes is of a generation that was begun.
LEMMA ReadKeepsClient ==
  ASSUME HostPart, HostPart', HeardInOrder', ClientPart, ReceiverReads
  PROVE  ClientPart'
  <1> USE DEF ClientPart
  <1>1. UNCHANGED << clientVars, mainVars, synthQueue, synthVars, conn, audioQueue,
                     clientHistory >>
    BY DEF ReceiverReads
  <1>2. UNCHANGED << requests, generations >>
    BY <1>1 DEF clientVars
  <1>3. UNCHANGED << message, rcpc >> \/
          /\ message' \in EngineEvents /\ IsProgress(message')
          /\ message'.gen = conn.active_generation /\ message'.gen # NoGeneration
          /\ rcpc' = IF Clears(message') THEN "clear" ELSE "tag"
    BY WhatIsRead
  <1>4. PipelineTypeOK'
    BY <1>1, <1>2, <1>3
       DEF HostPart, PipelineTypeOK, mainVars, synthVars, receiverVars, clientHistory
  <1>5. Threads'
    BY <1>1 DEF Threads, Program, mainVars, synthVars, clientHistory
  <1>6. Reception'
    <2>1. conn.active_generation \in Nat /\ conn.active_generation <= generations
          /\ generations \in Nat
      BY DEF PipelineTypeOK, Connections, Reception, HostPart, TypeOK, ClientTypeOK
    <2>2. CASE UNCHANGED << message, rcpc >>
      BY <1>1, <1>2, <2>2 DEF Reception
    <2>3. CASE /\ message' \in EngineEvents /\ IsProgress(message')
               /\ message'.gen = conn.active_generation /\ message'.gen # NoGeneration
               /\ rcpc' = IF Clears(message') THEN "clear" ELSE "tag"
      <3>1. message'.gen \in 1 .. generations
        BY <2>1, <2>3 DEF NoGeneration
      <3>2. /\ rcpc' = "clear" => message'.kind \in {"Done", "Stopped"}
            /\ rcpc' = "tag" => message'.kind \in {"Audio", "Index", "Done"}
        BY <2>3 DEF Clears, IsProgress, ProgressKinds
      <3> QED
        BY <1>1, <1>2, <3>1, <3>2 DEF Reception
    <2> QED
      BY <1>3, <2>2, <2>3
  <1>7. Guarded'
    BY <1>1 DEF Guarded, synthVars, clientHistory
  <1> QED
    BY <1>4, <1>5, <1>6, <1>7

\* Done and Stopped clear the active generation.
LEMMA ClearKeepsClient ==
  ASSUME HostPart, ClientPart, ReceiverClears
  PROVE  ClientPart' /\ conn'.generation = conn.generation
  <1> USE DEF ClientPart
  <1>1. /\ rcpc = "clear" /\ conn' = Cleared(conn)
        /\ rcpc' = IF message.kind = "Done" THEN "tag" ELSE "recv"
        /\ UNCHANGED << vars, mainVars, synthQueue, synthVars, message, audioQueue,
                        clientHistory >>
    BY DEF ReceiverClears
  <1>2. PICK c : c = Cleared(conn)
    OBVIOUS
  <1>3. conn \in Connections /\ conn.generation = generations
    BY DEF PipelineTypeOK
  <1>4. c \in Connections
    BY <1>2, <1>3, Zenon DEF Connections, Cleared, NoActive
  <1>5. c.generation = conn.generation /\ c.active_generation = NoActive
    BY <1>2, <1>3 DEF Connections, Cleared
  <1>6. UNCHANGED << requests, generations >>
    BY <1>1 DEF vars, clientVars
  <1>7. TypeOK'
    BY <1>1, StillTyped DEF HostPart
  <1>8. PipelineTypeOK'
    BY <1>1, <1>2, <1>3, <1>4, <1>5, <1>6, <1>7
       DEF PipelineTypeOK, mainVars, synthVars, clientHistory
  <1>9. Threads'
    BY <1>1 DEF Threads, Program, mainVars, synthVars, clientHistory
  <1>10. Reception'
    <2>1. generations \in Nat
      BY DEF HostPart, TypeOK, ClientTypeOK
    <2> QED
      BY <1>1, <1>2, <1>5, <1>6, <2>1 DEF Reception, NoActive
  <1>11. Guarded'
    <2>1. conn'.active_generation = NoActive
      BY <1>1, <1>2, <1>5
    <2>2. cpc' = "send" => cpc = "send" /\ conn'.cancelled = conn.cancelled
      <3>1. conn'.cancelled = conn.cancelled
        BY <1>1, <1>3, Zenon DEF Connections, Cleared
      <3> QED
        BY <1>1, <3>1 DEF synthVars
    <2> QED
      BY <1>1, <2>1, <2>2 DEF Guarded, synthVars, clientHistory
  <1> QED
    BY <1>1, <1>2, <1>5, <1>8, <1>9, <1>10, <1>11

\* The chunk of an event is of the event's generation.
LEMMA TagKeepsClient ==
  ASSUME HostPart, ClientPart, ReceiverTags
  PROVE  ClientPart'
  <1> USE DEF ClientPart
  <1>1. PICK new : new = [gen |-> message.gen, kind |-> message.kind,
                          value |-> message.value, seq |-> currentSeq]
    OBVIOUS
  <1>2. /\ rcpc = "tag" /\ rcpc' = "recv" /\ audioQueue' = Append(audioQueue, new)
        /\ UNCHANGED << vars, mainVars, synthQueue, synthVars, conn, message,
                        clientHistory >>
    BY <1>1 DEF ReceiverTags
  <1>3. UNCHANGED << requests, generations >>
    BY <1>2 DEF vars, clientVars
  <1>4. TypeOK'
    BY <1>2, StillTyped DEF HostPart
  <1>5. message.kind \in {"Audio", "Index", "Done"} /\ message.gen \in 1 .. generations
    BY <1>2 DEF Reception
  <1>6. new \in Chunks /\ new.gen \in 1 .. generations
    BY <1>1, <1>5 DEF PipelineTypeOK, Chunks, EngineEvents
  <1>7. audioQueue \in Seq(Chunks)
    BY DEF PipelineTypeOK
  <1>8. /\ audioQueue' \in Seq(Chunks)
        /\ \A k \in 1 .. Len(audioQueue') :
             \/ audioQueue'[k] = new
             \/ k \in 1 .. Len(audioQueue) /\ audioQueue'[k] = audioQueue[k]
    BY <1>2, <1>6, <1>7
  <1>9. PipelineTypeOK'
    BY <1>2, <1>3, <1>4, <1>8 DEF PipelineTypeOK, mainVars, synthVars, clientHistory
  <1>10. Threads'
    BY <1>2 DEF Threads, Program, mainVars, synthVars, clientHistory
  <1>11. Reception'
    BY <1>2, <1>3, <1>6, <1>8 DEF Reception
  <1>12. Guarded'
    BY <1>2 DEF Guarded, synthVars, clientHistory
  <1> QED
    BY <1>9, <1>10, <1>11, <1>12

-----------------------------------------------------------------------------
(* Every step keeps the host's part and the client's.                      *)

\* The steps of the pipeline, by what they leave alone.
LEMMA PipelineSteps ==
  ASSUME [PipelineNext]_pipelineVars
  PROVE  \/ UNCHANGED pipelineVars
         \/ HostStep \/ SendStop \/ SynthSends \/ ReceiverReads \/ ReceiverClears
         \/ ReceiverTags
         \/ (Speak \/ Cancel \/ SynthGets \/ SynthPrepares \/ SynthChecks
               \/ SynthAnswered \/ SynthTimesOut)
  BY DEF PipelineNext, MainThread, SynthWorker, SynthSteps, Receiver, AtRest

\* The host's part of a step of the pipeline is a step of the host, of its
\* client as it reads, or a send.
LEMMA PipelineKeepsHost ==
  ASSUME HostPart, EmittedInOrder, ClientPart, [PipelineNext]_pipelineVars
  PROVE  HostPart' /\ EmittedInOrder'
  <1>1. CASE Host \/ ClientReads
    <2>1. [Next]_vars
      BY <1>1 DEF Next, Client
    <2>2. HostPart'
      BY <1>1, HostKeepsPart
    <2>3. EmittedInOrder'
      BY <2>1, StepEmitted DEF HostPart
    <2> QED
      BY <2>2, <2>3
  <1>2. CASE UNCHANGED vars
    <2>1. HostPart'
      BY <1>2, StillKeepsPart
    <2>2. EmittedInOrder'
      BY <1>2 DEF EmittedInOrder, vars, historyVars, eventVars
    <2> QED
      BY <2>1, <2>2
  <1>3. ASSUME NEW kind \in CommandKinds \ {"BeginGeneration"}, NEW arg \in Nat,
               Sends(kind, arg)
        PROVE  HostPart' /\ EmittedInOrder'
    <2>1. HostPart'
      BY <1>3, SendKeepsPart DEF ClientPart, PipelineTypeOK
    <2>2. emitted' = emitted
      BY <1>3 DEF Sends, hostVars, eventVars, historyVars
    <2> QED
      BY <2>1, <2>2 DEF EmittedInOrder
  <1>4. CASE HostStep
    BY <1>1, <1>4 DEF HostStep
  <1>5. CASE SendStop
    <2>1. "Stop" \in CommandKinds \ {"BeginGeneration"} /\ 0 \in Nat
      BY DEF CommandKinds
    <2> QED
      BY <1>3, <1>5, <2>1 DEF SendStop
  <1>6. CASE SynthSends
    <2>1. cpc = "send"
      BY <1>6 DEF SynthSends
    <2>2. /\ Program[position].kind \in CommandKinds \ {"BeginGeneration"}
          /\ Program[position].arg \in Nat
      BY <2>1, ProgramSteps
    <2> QED
      BY <1>3, <1>6, <2>2 DEF SynthSends
  <1>7. CASE ReceiverReads
    <2>1. ClientReads
      BY <1>7 DEF ReceiverReads, ClientReads, hostVars
    <2> QED
      BY <1>1, <2>1
  <1>8. CASE ReceiverClears \/ ReceiverTags
    BY <1>2, <1>8 DEF ReceiverClears, ReceiverTags
  <1>9. CASE Speak \/ Cancel \/ SynthGets \/ SynthPrepares \/ SynthChecks
               \/ SynthAnswered \/ SynthTimesOut
    <2>1. UNCHANGED vars
      BY <1>9 DEF Speak, Cancel, SynthGets, SynthPrepares, SynthChecks, SynthAnswered,
                  SynthTimesOut
    <2> QED
      BY <1>2, <2>1
  <1>10. CASE UNCHANGED pipelineVars
    BY <1>2, <1>10 DEF pipelineVars
  <1> QED
    BY <1>4, <1>5, <1>6, <1>7, <1>8, <1>9, <1>10, PipelineSteps

LEMMA PipelineKeepsClient ==
  ASSUME HostPart, HostPart', HeardInOrder', ClientPart, [PipelineNext]_pipelineVars
  PROVE  ClientPart'
  <1>1. TypeOK'
    BY DEF HostPart
  <1>2. CASE HostStep
    <2>1. UNCHANGED << requests, generations >>
      BY <1>2, HostLeaves DEF HostStep, HostPart
    <2> QED
      BY <1>1, <1>2, <2>1, StillKeepsClient DEF HostStep
  <1>3. CASE SendStop \/ SynthSends
    BY <1>3, StopKeepsClient, SendKeepsClient
  <1>4. CASE ReceiverReads \/ ReceiverClears \/ ReceiverTags
    BY <1>4, ReadKeepsClient, ClearKeepsClient, TagKeepsClient
  <1>5. CASE Speak \/ Cancel \/ SynthGets
    BY <1>1, <1>5, SpeakKeepsClient, CancelKeepsClient, GetsKeepsClient
  <1>6. CASE SynthPrepares \/ SynthChecks \/ SynthAnswered \/ SynthTimesOut
    BY <1>1, <1>6, WorkerKeepsClient
  <1>7. CASE UNCHANGED pipelineVars
    <2>1. /\ UNCHANGED << requests, generations >>
          /\ UNCHANGED << mainVars, synthQueue, synthVars, conn, receiverVars, clientHistory >>
      BY <1>7 DEF pipelineVars, vars, clientVars
    <2> QED
      BY <1>1, <2>1, StillKeepsClient
  <1> QED
    BY <1>2, <1>3, <1>4, <1>5, <1>6, <1>7, PipelineSteps

-----------------------------------------------------------------------------
(* What the client has heard, and what it has put on the audio queue.      *)

\* The event in the receiver's hands is the last one heard, and every chunk was
\* an event heard before it.
HeardBefore ==
  /\ rcpc # "recv" =>
       heard # << >> /\ message = heard[Len(heard)] /\ IsProgress(message)
  /\ \A k \in 1 .. Len(audioQueue) : \E i \in 1 .. Len(heard) :
       /\ IsProgress(heard[i])
       /\ heard[i].gen = audioQueue[k].gen /\ heard[i].kind = audioQueue[k].kind
       /\ rcpc # "recv" => i < Len(heard)

\* Only the receiver hears anything, takes an event or queues a chunk.
LEMMA OthersHearNothing ==
  ASSUME HostPart, [PipelineNext]_pipelineVars,
         ~ReceiverReads, ~ReceiverClears, ~ReceiverTags
  PROVE  UNCHANGED << heard, rcpc, message, audioQueue >>
  <1>1. CASE HostStep
    BY <1>1, HostLeaves DEF HostStep, HostPart, receiverVars
  <1>2. CASE SendStop \/ SynthSends
    BY <1>2 DEF SendStop, SynthSends, Sends, historyVars, receiverVars
  <1>3. CASE Speak \/ Cancel \/ SynthGets \/ SynthPrepares \/ SynthChecks
               \/ SynthAnswered \/ SynthTimesOut
    BY <1>3 DEF Speak, Cancel, SynthGets, SynthPrepares, SynthChecks, SynthAnswered,
                SynthTimesOut, vars, historyVars, receiverVars
  <1>4. CASE UNCHANGED pipelineVars
    BY <1>4 DEF pipelineVars, vars, historyVars, receiverVars
  <1> QED
    BY <1>1, <1>2, <1>3, <1>4, PipelineSteps

LEMMA StepHeard ==
  ASSUME HostPart, HostPart', HeardInOrder', ClientPart, HeardBefore,
         [PipelineNext]_pipelineVars
  PROVE  HeardBefore'
  <1>1. PICK n : n = Len(heard)
    OBVIOUS
  <1>2. n \in Nat /\ audioQueue \in Seq(Chunks) /\ heard \in Seq(Frames)
    BY <1>1 DEF ClientPart, PipelineTypeOK, HostPart, TypeOK, HistoryTypeOK
  <1>3. CASE ReceiverReads
    <2>1. /\ rcpc = "recv" /\ n <= Len(heard')
          /\ \A k \in 1 .. n : heard'[k] = heard[k]
          /\ ~(UNCHANGED << message, rcpc >>) => Len(heard') = n + 1
          /\ \/ UNCHANGED << message, rcpc >>
             \/ IsProgress(message') /\ heard' # << >> /\ message' = heard'[Len(heard')]
      BY <1>1, <1>3, WhatIsRead DEF ClientPart
    <2>2. Len(heard') \in Nat
      BY DEF HostPart, TypeOK, HistoryTypeOK
    <2>3. rcpc' # "recv" => /\ n < Len(heard')
                            /\ IsProgress(message') /\ heard' # << >>
                            /\ message' = heard'[Len(heard')]
      BY <1>2, <2>1, <2>2
    <2>4. audioQueue' = audioQueue
      BY <1>3 DEF ReceiverReads
    <2>5. ASSUME NEW k \in 1 .. Len(audioQueue)
          PROVE  \E i \in 1 .. Len(heard') :
                   /\ IsProgress(heard'[i])
                   /\ heard'[i].gen = audioQueue[k].gen
                   /\ heard'[i].kind = audioQueue[k].kind
                   /\ rcpc' # "recv" => i < Len(heard')
      <3>1. PICK i \in 1 .. n : /\ IsProgress(heard[i])
                                /\ heard[i].gen = audioQueue[k].gen
                                /\ heard[i].kind = audioQueue[k].kind
        BY <1>1 DEF HeardBefore
      <3>2. i \in 1 .. Len(heard') /\ (rcpc' # "recv" => i < Len(heard'))
        BY <1>2, <2>1, <2>2, <2>3
      <3>3. heard'[i] = heard[i]
        BY <2>1
      <3> QED
        BY <3>1, <3>2, <3>3
    <2> QED
      BY <2>3, <2>4, <2>5 DEF HeardBefore
  <1>4. CASE ReceiverClears
    BY <1>4 DEF ReceiverClears, HeardBefore, vars, historyVars
  <1>5. CASE ReceiverTags
    <2>1. /\ rcpc = "tag" /\ rcpc' = "recv" /\ heard' = heard
          /\ audioQueue' = Append(audioQueue, [gen |-> message.gen, kind |-> message.kind,
                                               value |-> message.value, seq |-> currentSeq])
      BY <1>5 DEF ReceiverTags, vars, historyVars
    <2>2. PICK new : /\ audioQueue' = Append(audioQueue, new)
                     /\ new.gen = message.gen /\ new.kind = message.kind
      BY <2>1
    <2>3. \A k \in 1 .. Len(audioQueue') :
            \/ audioQueue'[k] = new
            \/ k \in 1 .. Len(audioQueue) /\ audioQueue'[k] = audioQueue[k]
      BY <1>2, <2>2
    <2>4. heard # << >> /\ message = heard[n] /\ IsProgress(message) /\ n \in 1 .. n
      BY <1>1, <1>2, <2>1 DEF HeardBefore
    <2> QED
      BY <1>1, <2>1, <2>2, <2>3, <2>4 DEF HeardBefore
  <1>6. CASE ~ReceiverReads /\ ~ReceiverClears /\ ~ReceiverTags
    BY <1>6, OthersHearNothing DEF HeardBefore
  <1> QED
    BY <1>3, <1>4, <1>5, <1>6

\* A chunk is queued behind those of the events heard before its own.
LEMMA StepCompletion ==
  ASSUME HostPart, HeardInOrder, ClientPart, HeardBefore, OneCompletion,
         [PipelineNext]_pipelineVars
  PROVE  OneCompletion'
  <1>1. CASE ReceiverTags
    <2>1. PICK new : /\ audioQueue' = Append(audioQueue, new)
                     /\ new.gen = message.gen /\ new.kind = message.kind
      BY <1>1 DEF ReceiverTags
    <2>2. PICK n : n = Len(audioQueue)
      OBVIOUS
    <2>3. audioQueue \in Seq(Chunks) /\ n \in Nat
      BY <2>2 DEF ClientPart, PipelineTypeOK
    <2>4. /\ DOMAIN audioQueue' = 1 .. (n + 1) /\ audioQueue'[n + 1] = new
          /\ \A k \in 1 .. n : k \in DOMAIN audioQueue /\ audioQueue'[k] = audioQueue[k]
      BY <2>1, <2>2, <2>3
    <2>5. /\ message = heard[Len(heard)] /\ IsProgress(message) /\ Len(heard) \in 1 .. Len(heard)
          /\ message.kind # "Stopped" /\ rcpc = "tag"
      <3>1. rcpc = "tag" /\ message.kind # "Stopped"
        BY <1>1 DEF ReceiverTags, ClientPart, Reception
      <3>2. heard \in Seq(Frames) /\ heard # << >>
        BY <3>1 DEF HeardBefore, HostPart, TypeOK, HistoryTypeOK
      <3>3. Len(heard) \in 1 .. Len(heard)
        BY <3>2
      <3> QED
        BY <3>1, <3>3 DEF HeardBefore
    <2>6. ASSUME NEW j \in 1 .. n
          PROVE  \/ audioQueue[j].gen < new.gen
                 \/ audioQueue[j].gen = new.gen /\ audioQueue[j].kind # "Done"
      <3>1. PICK i \in 1 .. Len(heard) :
              /\ IsProgress(heard[i]) /\ i < Len(heard)
              /\ heard[i].gen = audioQueue[j].gen /\ heard[i].kind = audioQueue[j].kind
        BY <2>2, <2>5 DEF HeardBefore
      <3>2. i \in 1 .. (Len(heard) - 1)
        BY <3>1
      <3>3. Precedes(heard[i], message)
        BY <2>5, <3>1, <3>2 DEF HeardInOrder
      <3> QED
        BY <2>1, <2>5, <3>1, <3>3 DEF Precedes
    <2>7. ASSUME NEW j \in DOMAIN audioQueue', NEW k \in DOMAIN audioQueue', j < k
          PROVE  \/ audioQueue'[j].gen < audioQueue'[k].gen
                 \/ audioQueue'[j].gen = audioQueue'[k].gen /\ audioQueue'[j].kind # "Done"
      <3>1. j \in 1 .. n /\ (k \in 1 .. n \/ k = n + 1)
        BY <2>3, <2>4, <2>7
      <3>2. CASE k \in 1 .. n
        BY <2>4, <2>7, <3>1, <3>2 DEF OneCompletion
      <3>3. CASE k = n + 1
        BY <2>4, <2>6, <3>1, <3>3
      <3> QED
        BY <3>1, <3>2, <3>3
    <2> QED
      BY <2>7 DEF OneCompletion
  <1>2. CASE ~ReceiverTags
    <2>1. audioQueue' = audioQueue
      BY <1>2, OthersHearNothing DEF ReceiverReads, ReceiverClears
    <2> QED
      BY <2>1 DEF OneCompletion
  <1> QED
    BY <1>1, <1>2

-----------------------------------------------------------------------------
(* Each Stop lets one event of a cancelled utterance pass.                 *)

\* The event in the receiver's hands may be of an utterance a Stop has ended.
Doubtful == IF rcpc # "recv" /\ owner[message.gen].seq < stopSent THEN 1 ELSE 0

Counted ==
  /\ IsFiniteSet(Mistagged)
  /\ Cardinality(Mistagged) + Doubtful <= stopSent

\* Generations keep their owners, so that chunks keep theirs.
LEMMA SameMistagged ==
  ASSUME ClientPart, audioQueue' = audioQueue,
         \A g \in 1 .. generations : owner'[g] = owner[g]
  PROVE  Mistagged' = Mistagged
  <1>1. \A k \in DOMAIN audioQueue : audioQueue[k].gen \in 1 .. generations
    BY DEF ClientPart, Reception, PipelineTypeOK
  <1> QED
    BY <1>1 DEF Mistagged

\* Only Stop moves the mark, by one, and only an opened generation gets an owner.
LEMMA MarkMoves ==
  ASSUME HostPart, ClientPart, [PipelineNext]_pipelineVars
  PROVE  /\ stopSent' = stopSent \/ stopSent' = stopSent + 1
         /\ \A g \in 1 .. generations : owner'[g] = owner[g]
         /\ ~SendStop => stopSent' = stopSent
  <1>1. CASE SendStop
    <2>1. stopSent' = sequence /\ owner' = owner /\ mpc = "stopping"
      BY <1>1 DEF SendStop
    <2> QED
      BY <1>1, <2>1 DEF ClientPart, Threads
  <1>2. CASE SynthSends
    <2>1. stopSent' = stopSent /\ (owner' = owner \/ owner' = Append(owner, current))
      BY <1>2 DEF SynthSends
    <2>2. owner \in Seq(Items) /\ Len(owner) = generations /\ current \in Items
      BY DEF ClientPart, PipelineTypeOK
    <2> QED
      BY <2>1, <2>2
  <1>3. CASE UNCHANGED clientHistory
    BY <1>3 DEF clientHistory
  <1>4. UNCHANGED clientHistory \/ SendStop \/ SynthSends
    BY PipelineSteps
       DEF HostStep, ReceiverReads, ReceiverClears, ReceiverTags, Speak, Cancel,
           SynthGets, SynthPrepares, SynthChecks, SynthAnswered, SynthTimesOut,
           pipelineVars
  <1> QED
    BY <1>1, <1>2, <1>3, <1>4

LEMMA StepCounted ==
  ASSUME HostPart, HostPart', HeardInOrder', ClientPart, Counted, [PipelineNext]_pipelineVars
  PROVE  Counted'
  <1>1. /\ stopSent \in Nat /\ generations \in Nat /\ audioQueue \in Seq(Chunks)
        /\ currentSeq \in Nat /\ currentSeq <= stopSent
        /\ \A g \in 1 .. generations : owner[g].seq \in Nat
    <2>1. owner \in Seq(Items) /\ Len(owner) = generations
      BY DEF ClientPart, PipelineTypeOK
    <2>2. \A g \in 1 .. generations : owner[g] \in Items
      BY <2>1
    <2> QED
      BY <2>2 DEF ClientPart, PipelineTypeOK, Threads, HostPart, TypeOK, ClientTypeOK, Items
  <1>2. Cardinality(Mistagged) \in Nat /\ IsFiniteSet(Mistagged)
    BY FS_CardinalityType DEF Counted
  <1>3. Doubtful \in {0, 1} /\ Doubtful' \in {0, 1}
    BY DEF Doubtful
  <1>4. /\ stopSent' = stopSent \/ stopSent' = stopSent + 1
        /\ \A g \in 1 .. generations : owner'[g] = owner[g]
        /\ ~SendStop => stopSent' = stopSent
    BY MarkMoves
  <1>5. CASE ReceiverReads
    <2>1. /\ Mistagged' = Mistagged /\ stopSent' = stopSent /\ owner' = owner
      BY <1>4, <1>5, SameMistagged DEF ReceiverReads, clientHistory
    <2>2. Doubtful' = 0
      <3>1. CASE UNCHANGED << message, rcpc >>
        BY <1>5, <3>1 DEF Doubtful, ReceiverReads
      <3>2. CASE message'.gen = conn.active_generation /\ message'.gen # NoGeneration
        <4>1. conn.active_generation # NoActive /\ conn.active_generation \in 1 .. generations
          BY <1>1, <3>2
             DEF NoActive, NoGeneration, ClientPart, Reception, PipelineTypeOK, Connections
        <4>2. stopSent <= owner[message'.gen].seq
          BY <3>2, <4>1 DEF ClientPart, Guarded
        <4> QED
          BY <1>1, <2>1, <3>2, <4>1, <4>2 DEF Doubtful
      <3> QED
        BY <1>5, <3>1, <3>2, WhatIsRead DEF ClientPart
    <2> QED
      BY <1>1, <1>2, <1>3, <2>1, <2>2 DEF Counted
  <1>6. CASE ReceiverTags
    <2>1. PICK new : /\ audioQueue' = Append(audioQueue, new)
                     /\ new.gen = message.gen /\ new.seq = currentSeq
      BY <1>6 DEF ReceiverTags
    <2>2. PICK n : n = Len(audioQueue)
      OBVIOUS
    <2>3. /\ stopSent' = stopSent /\ owner' = owner /\ rcpc = "tag" /\ rcpc' = "recv"
          /\ n \in Nat
      BY <1>1, <1>6, <2>2 DEF ReceiverTags, clientHistory
    <2>4. /\ DOMAIN audioQueue = 1 .. n /\ DOMAIN audioQueue' = 1 .. (n + 1)
          /\ audioQueue'[n + 1] = new
          /\ \A k \in 1 .. n : audioQueue'[k] = audioQueue[k]
          /\ n + 1 \notin 1 .. n /\ 1 .. (n + 1) = (1 .. n) \union {n + 1}
      BY <1>1, <2>1, <2>2, <2>3
    <2>5. message.gen \in 1 .. generations
      BY <2>3 DEF ClientPart, Reception
    <2>6. Doubtful' = 0
      BY <2>3 DEF Doubtful
    <2>7. CASE currentSeq > owner[message.gen].seq
      <3>1. Doubtful = 1
        BY <1>1, <2>3, <2>5, <2>7 DEF Doubtful
      <3>2. Mistagged' = Mistagged \union {n + 1}
        BY <2>1, <2>3, <2>4, <2>7 DEF Mistagged
      <3>3. n + 1 \notin Mistagged
        BY <2>4 DEF Mistagged
      <3>4. IsFiniteSet(Mistagged') /\ Cardinality(Mistagged') = Cardinality(Mistagged) + 1
        BY <1>2, <3>2, <3>3, FS_AddElement
      <3> QED
        BY <1>1, <1>2, <2>3, <2>6, <3>1, <3>4 DEF Counted
    <2>8. CASE ~(currentSeq > owner[message.gen].seq)
      <3>1. Mistagged' = Mistagged
        BY <2>1, <2>3, <2>4, <2>8 DEF Mistagged
      <3> QED
        BY <1>1, <1>2, <1>3, <2>3, <2>6, <3>1 DEF Counted
    <2> QED
      BY <2>7, <2>8
  <1>7. CASE ReceiverClears
    <2>1. Mistagged' = Mistagged /\ stopSent' = stopSent /\ owner' = owner
      BY <1>4, <1>7, SameMistagged DEF ReceiverClears, clientHistory
    <2>2. Doubtful' <= Doubtful
      <3>1. message' = message /\ rcpc = "clear"
        BY <1>7 DEF ReceiverClears
      <3> QED
        BY <1>3, <2>1, <3>1 DEF Doubtful
    <2> QED
      BY <1>1, <1>2, <1>3, <2>1, <2>2 DEF Counted
  <1>8. CASE ~ReceiverReads /\ ~ReceiverTags /\ ~ReceiverClears
    <2>1. UNCHANGED << rcpc, message, audioQueue >>
      BY <1>8, OthersHearNothing
    <2>2. Mistagged' = Mistagged
      BY <1>4, <2>1, SameMistagged
    <2>3. CASE stopSent' = stopSent
      <3>1. rcpc # "recv" => owner'[message.gen] = owner[message.gen]
        BY <1>4 DEF ClientPart, Reception
      <3>2. Doubtful' = Doubtful
        BY <2>1, <2>3, <3>1 DEF Doubtful
      <3> QED
        BY <1>2, <2>2, <2>3, <3>2 DEF Counted
    <2>4. CASE stopSent' = stopSent + 1
      BY <1>1, <1>2, <1>3, <2>2, <2>4 DEF Counted
    <2> QED
      BY <1>4, <2>3, <2>4
  <1> QED
    BY <1>5, <1>6, <1>7, <1>8

-----------------------------------------------------------------------------
(* The theorems.                                                           *)

PipelineInv ==
  /\ HostPart /\ EmittedInOrder /\ ClientPart
  /\ HeardBefore /\ OneCompletion /\ Counted

\* The client starts on a host with nothing under way.
LEMMA InitPipeline == PipelineInit => PipelineInv
  <1> SUFFICES ASSUME PipelineInit PROVE PipelineInv
    OBVIOUS
  <1> DEFINE last == Command("Initialize", 1, 0)
  <1>1. HostAtRest(last, "live", 1) /\ last \in Commands
    BY CommandType DEF PipelineInit, ReadyInit, CommandKinds
  <1> HIDE DEF last
  <1>2. HostPart
    <2>1. TypeOK /\ StreamInv /\ LineRetained
      BY <1>1, RestType, RestStream, RestLine
    <2>2. QueuesBounded
      BY <1>1, CapacityAssumption DEF HostAtRest, QueuesBounded
    <2>3. writer /\ ~inputClosed
      BY <1>1, Zenon DEF HostAtRest
    <2> QED
      BY <2>1, <2>2, <2>3 DEF HostPart
  <1>3. emitted = << >> /\ heard = << >> /\ generations = 0 /\ requests = 1
    BY <1>1 DEF HostAtRest
  <1>4. EmittedInOrder
    BY <1>3 DEF EmittedInOrder
  <1>5. /\ sequence = 0 /\ spoken = 0 /\ mpc = "idle" /\ cancels = 0
        /\ synthQueue = << >> /\ currentSeq = 0 /\ cpc = "get" /\ current = NoSynthItem
        /\ position = 1 /\ awaited = 0 /\ conn = NewConnection
        /\ rcpc = "recv" /\ message = CallbackErrorEvent /\ audioQueue = << >>
        /\ owner = << >> /\ stopSent = 0
    BY DEF PipelineInit
  <1>6. NewConnection \in Connections /\ NewConnection.generation = 0
        /\ NewConnection.active_generation = 0
    <2>1. NewConnection \in Connections
      BY Zenon, SMT DEF NewConnection, Connections, NoActive
    <2> QED
      BY <2>1 DEF NewConnection, NoActive
  <1>7. PipelineTypeOK
    <2>1. CallbackErrorEvent \in EngineEvents
      BY EventType DEF CallbackErrorEvent, NoGeneration
    <2>2. NoSynthItem \in Items /\ Len(Programs) \in Nat
      BY ProgramAssumption DEF NoSynthItem, Items
    <2> QED
      BY <1>2, <1>3, <1>5, <1>6, <2>1, <2>2 DEF PipelineTypeOK, HostPart
  <1>8. Threads /\ Reception /\ Guarded
    BY <1>3, <1>5, <1>6 DEF Threads, Reception, Guarded, NoActive
  <1>9. HeardBefore /\ OneCompletion
    BY <1>5 DEF HeardBefore, OneCompletion
  <1>10. Counted
    <2>1. Mistagged = {} /\ Doubtful = 0
      BY <1>5 DEF Mistagged, Doubtful
    <2> QED
      BY <1>5, <2>1, FS_EmptySet DEF Counted
  <1> QED
    BY <1>2, <1>4, <1>7, <1>8, <1>9, <1>10 DEF PipelineInv, ClientPart

LEMMA StepPipeline ==
  PipelineInv /\ HeardInOrder /\ HostPart' /\ HeardInOrder' /\ [PipelineNext]_pipelineVars
    => PipelineInv'
  <1> SUFFICES ASSUME PipelineInv, HeardInOrder, HostPart', HeardInOrder',
                      [PipelineNext]_pipelineVars
               PROVE  PipelineInv'
    OBVIOUS
  <1>1. EmittedInOrder'
    BY PipelineKeepsHost DEF PipelineInv
  <1>2. ClientPart'
    BY PipelineKeepsClient DEF PipelineInv
  <1>3. HeardBefore' /\ OneCompletion'
    BY StepHeard, StepCompletion DEF PipelineInv
  <1>4. Counted'
    BY StepCounted DEF PipelineInv
  <1> QED
    BY <1>1, <1>2, <1>3, <1>4 DEF PipelineInv

LEMMA PipelineKept == PipelineSpec => []PipelineInv
  <1>1. PipelineInv /\ [PipelineNext]_pipelineVars => HostPart' /\ EmittedInOrder'
    BY PipelineKeepsHost DEF PipelineInv
  <1>2. PipelineInv => HostPart /\ EmittedInOrder
    BY DEF PipelineInv
  <1> QED
    BY <1>1, <1>2, InitPipeline, HearsInOrder, StepPipeline, PTL DEF PipelineSpec

\* In every behaviour of the client and the host the client's state keeps its
\* type: in particular the connection's generation is the newest that was begun,
\* each generation has one owner, and no Stop is ahead of its cancellation.
THEOREM PipelineTypes == PipelineSpec => []PipelineTypeOK
  <1>1. PipelineInv => PipelineTypeOK
    BY DEF PipelineInv, ClientPart
  <1> QED
    BY <1>1, PipelineKept, PTL

\* However cancellations, Stops, Done and the next utterance interleave, chunks
\* reach the audio queue generation by generation, and none of a generation
\* follows its Done.
THEOREM CompletesOnce == PipelineSpec => []OneCompletion
  <1>1. PipelineInv => OneCompletion
    BY DEF PipelineInv
  <1> QED
    BY <1>1, PipelineKept, PTL

\* However many cancellations race the receiver, each lets one chunk of the
\* cancelled utterance pass for one of the next at most.
THEOREM FewStaleChunks == PipelineSpec => []StaleChunksBounded
  <1>1. PipelineInv => StaleChunksBounded
    <2> SUFFICES ASSUME PipelineInv PROVE StaleChunksBounded
      OBVIOUS
    <2>1. Cardinality(Mistagged) \in Nat /\ Doubtful \in {0, 1}
      BY FS_CardinalityType DEF PipelineInv, Counted, Doubtful
    <2>2. stopSent \in 0 .. sequence /\ sequence \in Nat /\ sequence = cancels
      BY DEF PipelineInv, ClientPart, PipelineTypeOK, Threads
    <2>3. Cardinality(Mistagged) + Doubtful <= stopSent
      BY DEF PipelineInv, Counted
    <2> QED
      BY <2>1, <2>2, <2>3 DEF StaleChunksBounded
  <1> QED
    BY <1>1, PipelineKept, PTL

\* Once the Stop of a cancelled utterance is on the wire, no generation is begun
\* for it, although the synth worker checks, prepares and sends in separate steps.
THEOREM StopsBeginNothing == PipelineSpec => NoGenerationAfterStop
  <1>1. PipelineInv /\ [PipelineNext]_pipelineVars
          => (generations' > generations => current.seq >= stopSent)
    <2> SUFFICES ASSUME PipelineInv, [PipelineNext]_pipelineVars, generations' > generations
                 PROVE  current.seq >= stopSent
      OBVIOUS
    <2>1. generations \in Nat /\ HostPart /\ ClientPart
      BY DEF PipelineInv, HostPart, TypeOK, ClientTypeOK
    <2>2. current.seq \in Nat /\ stopSent \in Nat
      BY DEF PipelineInv, ClientPart, PipelineTypeOK, Items
    <2>3. CASE SynthSends
      BY <2>1, <2>2, <2>3, SendKeepsClient
    <2>4. CASE SendStop
      <3>1. PICK next : next = AfterSend(conn, "Stop")
        OBVIOUS
      <3>2. generations' = next.generation
        BY <2>4, <3>1 DEF SendStop, Sends
      <3>3. conn \in Connections /\ conn.generation = generations
        BY <2>1 DEF ClientPart, PipelineTypeOK
      <3>4. next.generation = generations
        BY <3>1, <3>3, AfterSendFields DEF Opens
      <3> QED
        BY <2>1, <3>2, <3>4
    <2>5. CASE HostStep
      BY <2>1, <2>5, HostLeaves DEF HostStep, HostPart
    <2>6. CASE ~SynthSends /\ ~SendStop /\ ~HostStep
      <3>1. UNCHANGED generations
        BY <2>6, PipelineSteps
           DEF ReceiverReads, ReceiverClears, ReceiverTags, Speak, Cancel, SynthGets,
               SynthPrepares, SynthChecks, SynthAnswered, SynthTimesOut, pipelineVars,
               vars, clientVars
      <3> QED
        BY <2>1, <3>1
    <2> QED
      BY <2>3, <2>4, <2>5, <2>6
  <1> QED
    BY <1>1, PipelineKept, PTL DEF PipelineSpec, NoGenerationAfterStop

-----------------------------------------------------------------------------
(* The command line: what the commands in flight mean for whoever executes *)
(* them.                                                                   *)

\* Where one is on the command line: in which generation, and whether that still
\* takes texts and indexes.
Scans(owners) ==
  {a \in [gen : 0 .. Len(owners), phase : {"open", "closed"}] :
     a.gen = 0 => a.phase = "closed"}

\* A text is that of the utterance.
PartOf(command, u) == command.kind = "AddText" => command.arg = u

\* A command leads from a to b.  Of what is sent before any generation is begun
\* nothing is taken; a Stop is sent only there.
Leads(owners, a, command, b) ==
  \/ /\ command.kind = "BeginGeneration" /\ command.arg = a.gen + 1
     /\ a.phase = "closed"
     /\ b = [gen |-> a.gen + 1, phase |-> "open"]
  \/ /\ command.kind \in {"AddText", "InsertIndex"}
     /\ a.phase = "open"
     /\ PartOf(command, owners[a.gen].utterance)
     /\ b = a
  \/ command.kind = "Synthesize" /\ b = [gen |-> a.gen, phase |-> "closed"]
  \/ command.kind = "SetVoiceParam" /\ b = a
  \/ command.kind \in {"AddText", "InsertIndex", "Stop"} /\ a.gen = 0 /\ b = a

\* The commands lead from a to b, by way of f.
Route(owners, commands, a, b, f) ==
  /\ f \in [0 .. Len(commands) -> Scans(owners)]
  /\ f[0] = a /\ f[Len(commands)] = b
  /\ \A i, j \in 0 .. Len(commands) : i <= j => f[i].gen <= f[j].gen
  /\ \A i \in 1 .. Len(commands) : Leads(owners, f[i - 1], commands[i], f[i])

Conveys(owners, commands, a, b) == \E f : Route(owners, commands, a, b, f)

\* The fields of a scan.
LEMMA ScanFields ==
  ASSUME NEW owners, NEW a \in Scans(owners), Len(owners) \in Nat
  PROVE  /\ a.gen \in Nat /\ a.gen <= Len(owners) /\ a.gen \in 0 .. Len(owners)
         /\ a.phase \in {"open", "closed"}
         /\ a.gen = 0 => a.phase = "closed"
         /\ a = [gen |-> a.gen, phase |-> a.phase]
  BY DEF Scans

LEMMA ScanMade ==
  ASSUME NEW owners, Len(owners) \in Nat, NEW g \in 1 .. Len(owners),
         NEW p \in {"open", "closed"}
  PROVE  [gen |-> g, phase |-> p] \in Scans(owners)
  BY DEF Scans

\* What a command may lead to.
LEMMA LeadsTo ==
  ASSUME NEW owners, NEW a \in Scans(owners), NEW b, NEW command, Len(owners) \in Nat,
         Leads(owners, a, command, b)
  PROVE  a.gen <= b.gen /\ b.gen \in Nat
  BY ScanFields DEF Leads

\* No command, no way.
LEMMA ConveysNothing ==
  ASSUME NEW owners, NEW a \in Scans(owners), Len(owners) \in Nat
  PROVE  Conveys(owners, << >>, a, a)
  <1>1. PICK f : f = [i \in 0 .. 0 |-> a]
    OBVIOUS
  <1>2. Len(<< >>) = 0 /\ a.gen <= a.gen
    BY ScanFields
  <1>3. Route(owners, << >>, a, a, f)
    BY <1>1, <1>2 DEF Route
  <1> QED
    BY <1>3 DEF Conveys

LEMMA NothingConveys ==
  ASSUME NEW owners, NEW a, NEW b, Conveys(owners, << >>, a, b)
  PROVE  a = b
  <1>1. PICK f : Route(owners, << >>, a, b, f)
    BY DEF Conveys
  <1> QED
    BY <1>1 DEF Route

\* Generations rise on the way.
LEMMA ConveysForward ==
  ASSUME NEW owners, NEW s, Len(s) \in Nat, NEW a, NEW b, Conveys(owners, s, a, b)
  PROVE  a.gen <= b.gen
  <1>1. PICK f : Route(owners, s, a, b, f)
    BY DEF Conveys
  <1> QED
    BY <1>1 DEF Route

\* The first command of the line is executed.
LEMMA ConveysHead ==
  ASSUME NEW owners, NEW S, NEW s \in Seq(S), s # << >>, NEW a, NEW b,
         Conveys(owners, s, a, b)
  PROVE  \E x \in Scans(owners) :
           /\ a \in Scans(owners)
           /\ Leads(owners, a, Head(s), x) /\ Conveys(owners, Tail(s), x, b)
  <1>1. PICK f : Route(owners, s, a, b, f)
    BY DEF Conveys
  <1>2. PICK n \in Nat : n + 1 = Len(s) /\ n = Len(Tail(s))
    <2>1. PICK k, n : k = Len(s) /\ n = Len(Tail(s))
      OBVIOUS
    <2>2. k \in Nat /\ k # 0 /\ n = k - 1
      BY <2>1
    <2> QED
      BY <2>1, <2>2
  <1>3. PICK g : g = [i \in 0 .. n |-> f[i + 1]]
    OBVIOUS
  <1>4. \A i \in 1 .. n : Tail(s)[i] = s[i + 1]
    BY <1>2
  <1>5. /\ \A i \in 0 .. n : i + 1 \in 0 .. (n + 1) /\ g[i] = f[i + 1]
        /\ \A i \in 1 .. n : i + 1 \in 1 .. (n + 1) /\ g[i - 1] = f[(i + 1) - 1]
    BY <1>2, <1>3
  <1>6. Route(owners, Tail(s), f[1], b, g)
    <2>1. g \in [0 .. n -> Scans(owners)]
      BY <1>1, <1>2, <1>3 DEF Route
    <2>2. g[0] = f[1] /\ g[n] = b
      BY <1>1, <1>2, <1>3 DEF Route
    <2>3. \A i, j \in 0 .. n : i <= j => g[i].gen <= g[j].gen
      BY <1>1, <1>2, <1>5 DEF Route
    <2>4. \A i \in 1 .. n : Leads(owners, g[i - 1], Tail(s)[i], g[i])
      BY <1>1, <1>2, <1>4, <1>5 DEF Route
    <2> QED
      BY <1>2, <2>1, <2>2, <2>3, <2>4 DEF Route
  <1>7. Leads(owners, a, Head(s), f[1]) /\ f[1] \in Scans(owners) /\ a \in Scans(owners)
    <2>1. 1 \in 1 .. Len(s) /\ 1 - 1 = 0 /\ Head(s) = s[1] /\ 0 \in 0 .. Len(s)
          /\ 1 \in 0 .. Len(s)
      BY <1>2
    <2> QED
      BY <1>1, <2>1 DEF Route
  <1> QED
    BY <1>6, <1>7 DEF Conveys

\* A command is added at the end of the line.
LEMMA ConveysAppend ==
  ASSUME NEW owners, NEW S, NEW s \in Seq(S), NEW e \in S, NEW a, NEW b,
         NEW c \in Scans(owners), Len(owners) \in Nat,
         Conveys(owners, s, a, b), Leads(owners, b, e, c)
  PROVE  Conveys(owners, Append(s, e), a, c)
  <1>1. PICK f : Route(owners, s, a, b, f)
    BY DEF Conveys
  <1>2. PICK n \in Nat : n = Len(s)
    OBVIOUS
  <1>3. PICK t : t = Append(s, e)
    OBVIOUS
  <1>4. Len(t) = n + 1 /\ t[n + 1] = e /\ \A i \in 1 .. n : t[i] = s[i]
    BY <1>2, <1>3
  <1>5. PICK g : g = [i \in 0 .. (n + 1) |-> IF i = n + 1 THEN c ELSE f[i]]
    OBVIOUS
  <1>6. g[n + 1] = c /\ \A i \in 0 .. n : g[i] = f[i] /\ f[i] \in Scans(owners)
    BY <1>1, <1>2, <1>5 DEF Route
  <1>7. b = f[n] /\ b \in Scans(owners) /\ b.gen <= c.gen /\ c.gen \in Nat
    BY <1>1, <1>2, <1>6, LeadsTo DEF Route
  <1>8. g \in [0 .. (n + 1) -> Scans(owners)]
    BY <1>5, <1>6
  <1>9. \A i, j \in 0 .. (n + 1) : i <= j => g[i].gen <= g[j].gen
    <2> SUFFICES ASSUME NEW i \in 0 .. (n + 1), NEW j \in 0 .. (n + 1), i <= j
                 PROVE  g[i].gen <= g[j].gen
      OBVIOUS
    <2>1. CASE j \in 0 .. n
      <3>1. i \in 0 .. n
        BY <2>1
      <3> QED
        BY <1>1, <1>2, <1>6, <2>1, <3>1 DEF Route
    <2>2. CASE j = n + 1 /\ i \in 0 .. n
      <3>1. f[i].gen <= f[n].gen /\ f[i].gen \in Nat /\ f[n].gen \in Nat
        <4>1. n \in 0 .. Len(s) /\ i \in 0 .. Len(s) /\ i <= n
          BY <1>2, <2>2
        <4>2. f[i].gen <= f[n].gen
          BY <1>1, <4>1 DEF Route
        <4> QED
          BY <1>6, <2>2, <4>2, ScanFields
      <3> QED
        BY <1>6, <1>7, <2>2, <3>1
    <2>3. CASE j = n + 1 /\ i = n + 1
      BY <1>6, <1>7, <2>3
    <2> QED
      BY <2>1, <2>2, <2>3
  <1>10. \A i \in 1 .. (n + 1) : Leads(owners, g[i - 1], t[i], g[i])
    <2> SUFFICES ASSUME NEW i \in 1 .. (n + 1)
                 PROVE  Leads(owners, g[i - 1], t[i], g[i])
      OBVIOUS
    <2>1. CASE i \in 1 .. n
      <3>1. g[i - 1] = f[i - 1] /\ g[i] = f[i] /\ t[i] = s[i]
        BY <1>4, <1>6, <2>1
      <3> QED
        BY <1>1, <1>2, <2>1, <3>1 DEF Route
    <2>2. CASE i = n + 1
      <3>1. g[i - 1] = b /\ g[i] = c /\ t[i] = e
        BY <1>4, <1>6, <1>7, <2>2
      <3> QED
        BY <3>1
    <2> QED
      BY <2>1, <2>2
  <1>11. g[0] = a
    BY <1>1, <1>6 DEF Route
  <1>12. Route(owners, t, a, c, g)
    BY <1>4, <1>6, <1>8, <1>9, <1>10, <1>11 DEF Route
  <1> QED
    BY <1>3, <1>12 DEF Conveys

\* Generations keep their owners when another one is begun, and the line its meaning.
LEMMA ConveysStill ==
  ASSUME NEW old \in Seq(Items), NEW added \in Items, NEW new, new = Append(old, added),
         NEW s, Len(s) \in Nat, NEW a, NEW b, Conveys(old, s, a, b)
  PROVE  Conveys(new, s, a, b)
  <1>1. PICK f : Route(old, s, a, b, f)
    BY DEF Conveys
  <1>2. /\ Len(old) \in Nat /\ Len(new) = Len(old) + 1
        /\ \A g \in 1 .. Len(old) : new[g] = old[g]
    OBVIOUS
  <1>3. Scans(old) \subseteq Scans(new)
    BY <1>2 DEF Scans
  <1>4. ASSUME NEW i \in 1 .. Len(s)
        PROVE  Leads(new, f[i - 1], s[i], f[i])
    <2>1. PICK x, y, e : x = f[i - 1] /\ y = f[i] /\ e = s[i]
      OBVIOUS
    <2>2. Leads(old, x, e, y) /\ x \in Scans(old)
      <3>1. i - 1 \in 0 .. Len(s)
        OBVIOUS
      <3> QED
        BY <1>1, <2>1, <3>1 DEF Route
    <2>3. x.phase = "open" => new[x.gen] = old[x.gen]
      BY <1>2, <2>2 DEF Scans
    <2>4. Leads(new, x, e, y)
      BY <2>2, <2>3 DEF Leads
    <2> QED
      BY <2>1, <2>4
  <1>5. f \in [0 .. Len(s) -> Scans(new)]
    BY <1>1, <1>3 DEF Route
  <1>6. Route(new, s, a, b, f)
    BY <1>1, <1>4, <1>5 DEF Route
  <1> QED
    BY <1>6 DEF Conveys

-----------------------------------------------------------------------------
(* What holds as long as no cancellation has met a generation.             *)

\* Nothing has been cancelled yet, or nothing begun, or the one generation that was
\* begun has not been cancelled since.
Clean ==
  \/ cancels = 0
  \/ Len(owner) = 0
  \/ Len(owner) = 1 /\ owner[1].seq = sequence

\* The host takes texts and indexes into the generation.
OpenAtHost == IsActive(tracker) /\ wpc \in {"recv", "respond"}

\* The worker is at h; what it has queued leads to m, what is in the pipe to c,
\* which is where the client is.
LinedUp(h, m, c) ==
  /\ h \in Scans(owner) /\ m \in Scans(owner) /\ c \in Scans(owner)
  /\ h.gen = tracker.generation /\ (h.phase = "open" <=> OpenAtHost)
  /\ c.gen = Len(owner) /\ (c.phase = "open" <=> conn.generation_open)
  /\ Conveys(owner, work, h, m) /\ Conveys(owner, stdin, m, c)
  /\ rpc \in {"handle", "eciStop"} => m.gen = 0

\* The client keeps a generation open for the item it works on only.
Sending ==
  /\ conn.cancelled => Len(owner) = 0
  /\ conn.generation_open =>
       /\ Len(owner) # 0 /\ owner[Len(owner)] = current
       /\ cpc \in {"check", "send", "wait"}
  /\ cpc \in {"check", "wait"} /\ position > Len(Program) => ~conn.generation_open

\* The host executes its commands one by one and runs until all is spoken.
Running ==
  /\ rpc \in {"read", "handle", "eciStop", "reply"}
  /\ wpc \in {"recv", "respond", "synchronize", "callback", "callbackSend", "finish",
              "finalSend"}
  /\ engine = "live" /\ item.kind # "Delete" /\ forwarder
  /\ cancellation_requested => tracker.generation = 0
  /\ tracker.generation = 0 => wpc \in {"recv", "respond"}
  /\ wpc = "finalSend" => ~IsActive(tracker)
  /\ OpenAtHost \/ eciInput = << >>
  /\ wpc \in {"synchronize", "callback", "callbackSend"} \/ eciSpeaking = << >>

\* A text in ECI's hands is that of the utterance generation g was begun for.
SpokenFor(owners, g, part) ==
  part.kind = "text" => g \in 1 .. Len(owners) /\ part.value = owners[g].utterance

\* So is the audio of a report or a chunk.
Rendered(owners, report) ==
  report.kind = "Audio" =>
    report.gen \in 1 .. Len(owners) /\ report.value = owners[report.gen].utterance

EciRenders ==
  /\ \A k \in 1 .. Len(eciInput) : SpokenFor(owner, tracker.generation, eciInput[k])
  /\ \A k \in 1 .. Len(eciSpeaking) : SpokenFor(owner, tracker.generation, eciSpeaking[k])
  /\ wpc = "callback" => SpokenFor(owner, tracker.generation, callback)
ReportsRendered ==
  /\ \A k \in 1 .. Len(outgoing) : Rendered(owner, outgoing[k])
  /\ \A k \in 1 .. Len(emitted) : Rendered(owner, emitted[k])
ChunksRendered == \A k \in 1 .. Len(audioQueue) : Rendered(owner, audioQueue[k])

\* The tracker's view of the generation.
LEMMA ActiveTracker ==
  ASSUME NEW t
  PROVE  /\ IsActive(t) <=> ~t.done /\ t.generation # 0
         /\ \A g : BeginGeneration(g).generation = g /\ ~BeginGeneration(g).done
         /\ t \in Trackers => \A n :
              /\ TrackIndex(t, n).generation = t.generation
              /\ TrackIndex(t, n).done = t.done
              /\ EngineIndex(t, n).generation = t.generation
              /\ EngineIndex(t, n).done = t.done
         /\ t \in Trackers =>
              /\ Complete(t).generation = t.generation
              /\ ~IsActive(Complete(t))
  <1>1. IsActive(t) <=> ~t.done /\ t.generation # 0
    BY DEF IsActive, ActiveGeneration, NoGeneration
  <1>2. \A g : BeginGeneration(g).generation = g /\ ~BeginGeneration(g).done
    BY DEF BeginGeneration
  <1>3. ASSUME t \in Trackers, NEW n
        PROVE  /\ TrackIndex(t, n).generation = t.generation
               /\ TrackIndex(t, n).done = t.done
               /\ EngineIndex(t, n).generation = t.generation
               /\ EngineIndex(t, n).done = t.done
    BY <1>3 DEF TrackIndex, EngineIndex, Trackers
  <1>4. ASSUME t \in Trackers
        PROVE  Complete(t).generation = t.generation /\ ~IsActive(Complete(t))
    <2>1. CASE IsActive(t)
      <3>1. Complete(t) = [t EXCEPT !.pending_indexes = << >>, !.done = TRUE]
        BY <2>1 DEF Complete
      <3>2. Complete(t).generation = t.generation /\ Complete(t).done
        BY <1>4, <3>1 DEF Trackers
      <3> QED
        BY <3>2 DEF IsActive, ActiveGeneration
    <2>2. CASE ~IsActive(t)
      BY <2>2 DEF Complete
    <2> QED
      BY <2>1, <2>2
  <1> QED
    BY <1>1, <1>2, <1>3, <1>4

\* The steps a host takes that is asked for nothing else.
LEMMA RunningSteps ==
  ASSUME HostPart, Running, NEW h, NEW m, NEW c, LinedUp(h, m, c), EciResults = {TRUE}, Host
  PROVE  \/ ReaderStop \/ ReaderQueues \/ ReaderLoadsHandle \/ ReaderCallsEciStop
         \/ ReaderReplies
         \/ WorkerBegins \/ WorkerHasNoGeneration \/ WorkerAddsText
         \/ WorkerInsertsIndex \/ WorkerSetsVoiceParam \/ WorkerSynthesizes
         \/ EciCallback \/ EciSwallowsIndexes \/ HandleAudioCallback
         \/ HandleIndexCallback \/ WorkerTriesSend \/ CallbackReturns
         \/ EciSynchronized \/ WorkerFinishes \/ WorkerEndsSynthesis \/ WorkerResponds
         \/ ForwarderReceives \/ ForwarderSends \/ WriterWrites
  <1>1. writer /\ ~inputClosed /\ work \in Seq(Commands) /\ stdin \in Seq(Commands)
    BY DEF HostPart, TypeOK, ClientTypeOK, WorkerTypeOK
  <1>2. stdin # << >> => Head(stdin).kind # "Hello"
    <2> SUFFICES ASSUME stdin # << >> PROVE Head(stdin).kind # "Hello"
      OBVIOUS
    <2>1. PICK x : Leads(owner, m, Head(stdin), x)
      BY <1>1, ConveysHead DEF LinedUp
    <2> QED
      BY <2>1 DEF Leads
  <1>3. work # << >> => Head(work).kind \notin {"Initialize", "Delete"}
    <2> SUFFICES ASSUME work # << >> PROVE Head(work).kind \notin {"Initialize", "Delete"}
      OBVIOUS
    <2>1. PICK x : Leads(owner, h, Head(work), x)
      BY <1>1, ConveysHead DEF LinedUp
    <2> QED
      BY <2>1 DEF Leads
  <1>4. ~ReaderRejects /\ ~ReaderSeesEof /\ ~ReaderJoinsWorker /\ ~ReaderJoinsWriter
    BY <1>1, <1>2
       DEF Running, ReaderRejects, ReaderTakes, ReaderSeesEof, ReaderJoinsWorker,
           ReaderJoinsWriter
  <1>5. ~WorkerInitializes /\ ~WorkerDeletes /\ ~WorkerHasNoRuntime
    BY <1>3 DEF Running, WorkerInitializes, WorkerDeletes, WorkerTakes, WorkerHasNoRuntime
  <1>6. /\ ~HandleBadAudioCallback /\ ~WorkerDisconnects /\ ~WorkerDropsEngine
        /\ ~WorkerJoinsForwarder
    BY DEF Running, HandleBadAudioCallback, WorkerDisconnects, WorkerDropsEngine,
           WorkerJoinsForwarder, ReaderLeftLoop
  <1>7. ~ForwarderFails /\ ~WriterFails
    BY <1>1 DEF ForwarderFails, WriterFails
  <1>8. CASE Reader
    BY <1>4, <1>8 DEF Reader
  <1>9. CASE Worker
    BY <1>5, <1>6, <1>9 DEF Worker, WorkerDispatches
  <1>10. CASE Forwarder \/ Writer
    BY <1>7, <1>10 DEF Forwarder, Writer
  <1> QED
    BY <1>8, <1>9, <1>10 DEF Host

-----------------------------------------------------------------------------
(* The host moves along the command line.                                  *)

HostsPartOfLine == << owner, conn, position >>

\* The worker takes the first command of its queue and is where that leads.
LEMMA WorkerOnLine ==
  ASSUME HostPart, ClientPart, Running, NEW h, NEW m, NEW c, LinedUp(h, m, c),
         EciResults = {TRUE}, UNCHANGED HostsPartOfLine,
         \/ WorkerBegins \/ WorkerHasNoGeneration \/ WorkerAddsText
         \/ WorkerInsertsIndex \/ WorkerSetsVoiceParam \/ WorkerSynthesizes
  PROVE  \E x : Leads(owner, h, Head(work), x) /\ LinedUp(x, m, c)'
  <1>1. /\ work # << >> /\ work' = Tail(work) /\ wpc = "recv"
        /\ UNCHANGED << stdin, rpc, owner, conn, position >>
    BY DEF WorkerBegins, WorkerHasNoGeneration, WorkerAddsText, WorkerInsertsIndex,
           WorkerSetsVoiceParam, WorkerSynthesizes, WorkerTakes, clientVars, readerVars,
           HostsPartOfLine
  <1>2. work \in Seq(Commands) /\ tracker \in Trackers /\ Len(owner) \in Nat
    BY DEF HostPart, TypeOK, WorkerTypeOK, EngineTypeOK, ClientPart, PipelineTypeOK
  <1>3. PICK x \in Scans(owner) :
          Leads(owner, h, Head(work), x) /\ Conveys(owner, Tail(work), x, m)
    BY <1>1, <1>2, ConveysHead DEF LinedUp
  <1>4. PICK t, u, k : t = tracker /\ u = tracker' /\ k = Head(work)
    OBVIOUS
  <1>5. /\ h \in Scans(owner) /\ h.gen = t.generation /\ Leads(owner, h, k, x)
        /\ h.phase = "open" <=> IsActive(t)
    BY <1>1, <1>3, <1>4 DEF LinedUp, OpenAtHost
  <1>6. /\ h = [gen |-> h.gen, phase |-> h.phase] /\ h.gen \in Nat
        /\ h.phase \in {"open", "closed"} /\ (h.gen = 0 => h.phase = "closed")
    BY <1>2, <1>5, ScanFields
  <1>7. SUFFICES x.gen = u.generation /\ (x.phase = "open" <=> OpenAtHost')
    <2>1. LinedUp(x, m, c)'
      BY <1>1, <1>3, <1>4, <1>7 DEF LinedUp
    <2> QED
      BY <1>3, <2>1
  <1>8. CASE WorkerBegins
    <2>1. k.kind = "BeginGeneration" /\ u = BeginGeneration(k.arg) /\ wpc' = "respond"
      BY <1>4, <1>8 DEF WorkerBegins, WorkerTakes, WorkerAnswers
    <2>2. x = [gen |-> h.gen + 1, phase |-> "open"] /\ k.arg = h.gen + 1
      BY <1>5, <2>1 DEF Leads
    <2>3. u.generation = h.gen + 1 /\ ~u.done
      BY <2>1, <2>2, ActiveTracker
    <2>4. IsActive(u)
      BY <1>6, <2>3, ActiveTracker
    <2> QED
      BY <1>4, <2>1, <2>2, <2>3, <2>4 DEF OpenAtHost
  <1>9. CASE WorkerHasNoGeneration
    <2>1. /\ k.kind \in {"AddText", "InsertIndex", "Synthesize"} /\ u = t /\ ~IsActive(t)
      BY <1>4, <1>9 DEF WorkerHasNoGeneration, WorkerTakes, engineVars
    <2>2. h.phase = "closed"
      BY <1>5, <1>6, <2>1
    <2>3. x = h
      BY <1>5, <1>6, <2>1, <2>2 DEF Leads
    <2> QED
      BY <1>4, <1>5, <2>1, <2>2, <2>3 DEF OpenAtHost
  <1>10. CASE WorkerAddsText \/ WorkerInsertsIndex
    <2>1. /\ k.kind \in {"AddText", "InsertIndex"} /\ IsActive(t) /\ wpc' = "respond"
          /\ u = t \/ \E n : u = TrackIndex(t, n)
      BY <1>4, <1>10 DEF WorkerAddsText, WorkerInsertsIndex, WorkerTakes, WorkerAnswers,
                         engineVars
    <2>2. h.phase = "open" /\ h.gen # 0
      BY <1>5, <1>6, <2>1
    <2>3. x.gen = h.gen /\ x.phase = "open"
      BY <1>5, <2>1, <2>2 DEF Leads
    <2>4. u.generation = t.generation /\ u.done = t.done
      BY <1>2, <1>4, <2>1, ActiveTracker
    <2>5. IsActive(u)
      BY <2>1, <2>4, ActiveTracker
    <2> QED
      BY <1>4, <1>5, <2>1, <2>3, <2>4, <2>5 DEF OpenAtHost
  <1>11. CASE WorkerSetsVoiceParam
    <2>1. k.kind = "SetVoiceParam" /\ u = t /\ wpc' = "respond"
      BY <1>4, <1>11 DEF WorkerSetsVoiceParam, WorkerTakes, WorkerAnswers, engineVars
    <2>2. x = h
      BY <1>5, <2>1 DEF Leads
    <2> QED
      BY <1>4, <1>5, <2>1, <2>2 DEF OpenAtHost
  <1>12. CASE WorkerSynthesizes
    <2>1. k.kind = "Synthesize" /\ u = t /\ wpc' \in {"synchronize", "finish"}
      BY <1>4, <1>12 DEF WorkerSynthesizes, WorkerTakes, engineVars
    <2>2. x.gen = h.gen /\ x.phase = "closed"
      BY <1>5, <2>1 DEF Leads
    <2> QED
      BY <1>4, <1>5, <2>1, <2>2 DEF OpenAtHost
  <1> QED
    BY <1>8, <1>9, <1>10, <1>11, <1>12

\* The reader takes the first command of the pipe, or queues it.
LEMMA ReaderOnLine ==
  ASSUME HostPart, ClientPart, Running, NEW h, NEW m, NEW c, LinedUp(h, m, c),
         UNCHANGED HostsPartOfLine, ReaderStop \/ ReaderQueues
  PROVE  /\ \E x : LinedUp(h, x, c)'
         /\ ReaderStop => tracker.generation = 0
  <1>1. stdin # << >> /\ stdin' = Tail(stdin) /\ rpc = "read"
        /\ UNCHANGED << tracker, wpc, owner, conn, position >>
    BY DEF ReaderStop, ReaderQueues, ReaderTakes, workerVars, engineVars, HostsPartOfLine
  <1>2. /\ work \in Seq(Commands) /\ stdin \in Seq(Commands) /\ Len(owner) \in Nat
        /\ Head(stdin) \in Commands
    BY <1>1, HeadAndTail
       DEF HostPart, TypeOK, ClientTypeOK, WorkerTypeOK, ClientPart, PipelineTypeOK
  <1>3. PICK x \in Scans(owner) :
          /\ m \in Scans(owner)
          /\ Leads(owner, m, Head(stdin), x) /\ Conveys(owner, Tail(stdin), x, c)
    BY <1>1, <1>2, ConveysHead DEF LinedUp
  <1>4. OpenAtHost' <=> OpenAtHost
    BY <1>1 DEF OpenAtHost
  <1>5. CASE ReaderStop
    <2>1. Head(stdin).kind = "Stop" /\ work' = work
      BY <1>5 DEF ReaderStop, ReaderTakes
    <2>2. m.gen = 0 /\ x = m
      BY <1>3, <2>1 DEF Leads
    <2>3. LinedUp(h, m, c)'
      BY <1>1, <1>3, <1>4, <2>1, <2>2 DEF LinedUp
    <2>4. h.gen = 0
      <3>1. h.gen <= m.gen /\ h.gen \in Nat
        BY <1>2, ConveysForward, ScanFields DEF LinedUp
      <3> QED
        BY <2>2, <3>1
    <2> QED
      BY <2>3, <2>4 DEF LinedUp
  <1>6. CASE ReaderQueues
    <2>1. work' = Append(work, Head(stdin)) /\ rpc' \notin {"handle", "eciStop"}
      BY <1>6 DEF ReaderQueues, AfterQueuing
    <2>2. Conveys(owner, Append(work, Head(stdin)), h, x)
      BY <1>2, <1>3, ConveysAppend DEF LinedUp
    <2>3. LinedUp(h, x, c)'
      BY <1>1, <1>3, <1>4, <2>1, <2>2 DEF LinedUp
    <2>4. ~ReaderStop
      BY <1>6 DEF ReaderStop, ReaderQueues, ReaderTakes
    <2> QED
      BY <2>3, <2>4
  <1> QED
    BY <1>5, <1>6

\* The other steps of the host move nothing along it.
LEMMA HostStaysOnLine ==
  ASSUME HostPart, Running, NEW h, NEW m, NEW c, LinedUp(h, m, c),
         UNCHANGED HostsPartOfLine,
         \/ ReaderLoadsHandle \/ ReaderCallsEciStop \/ ReaderReplies
         \/ EciCallback \/ EciSwallowsIndexes \/ HandleAudioCallback
         \/ HandleIndexCallback \/ WorkerTriesSend \/ CallbackReturns
         \/ EciSynchronized \/ WorkerFinishes \/ WorkerEndsSynthesis \/ WorkerResponds
         \/ ForwarderReceives \/ ForwarderSends \/ WriterWrites
  PROVE  /\ LinedUp(h, m, c)'
         /\ tracker'.generation = tracker.generation
         /\ OpenAtHost' <=> OpenAtHost
  <1>1. UNCHANGED << work, stdin, owner, conn, position >>
    BY DEF ReaderLoadsHandle, ReaderCallsEciStop, ReaderReplies, EciCallback,
           EciSwallowsIndexes, HandleAudioCallback, HandleIndexCallback, WorkerTriesSend,
           CallbackReturns, EciSynchronized, WorkerFinishes, WorkerEndsSynthesis,
           WorkerResponds, ForwarderReceives, ForwarderSends, WriterWrites, clientVars,
           HostsPartOfLine
  <1>2. rpc' \in {"handle", "eciStop"} => rpc \in {"handle", "eciStop"}
    BY DEF ReaderLoadsHandle, ReaderCallsEciStop, ReaderReplies, EciCallback,
           EciSwallowsIndexes, HandleAudioCallback, HandleIndexCallback, WorkerTriesSend,
           CallbackReturns, EciSynchronized, WorkerFinishes, WorkerEndsSynthesis,
           WorkerResponds, ForwarderReceives, ForwarderSends, WriterWrites, readerVars
  <1>3. tracker'.generation = tracker.generation /\ (OpenAtHost' <=> OpenAtHost)
    <2>1. CASE WorkerFinishes
      <3>1. wpc = "finish" /\ wpc' = "finalSend"
        BY <2>1 DEF WorkerFinishes
      <3>2. ~cancellation_requested
        BY <3>1 DEF Running
      <3>3. tracker' = Complete(tracker)
        BY <2>1, <3>2 DEF WorkerFinishes
      <3>4. tracker \in Trackers
        BY DEF HostPart, TypeOK, EngineTypeOK
      <3> QED
        BY <3>1, <3>3, <3>4, ActiveTracker DEF OpenAtHost
    <2>2. CASE HandleIndexCallback
      <3>1. wpc = "callback" /\ wpc' = "callbackSend"
            /\ (tracker' = Complete(tracker) \/ tracker' = EngineIndex(tracker, callback.value))
        BY <2>2 DEF HandleIndexCallback
      <3>2. tracker \in Trackers
        BY DEF HostPart, TypeOK, EngineTypeOK
      <3> QED
        BY <3>1, <3>2, ActiveTracker DEF OpenAtHost
    <2>3. CASE WorkerEndsSynthesis
      <3>1. wpc = "finalSend" /\ wpc' = "respond" /\ tracker' = tracker
        BY <2>3 DEF WorkerEndsSynthesis, WorkerAnswers, engineVars
      <3>2. ~IsActive(tracker)
        BY <3>1 DEF Running
      <3> QED
        BY <3>1, <3>2 DEF OpenAtHost
    <2>4. CASE WorkerResponds
      <3>1. wpc = "respond" /\ wpc' = "recv" /\ tracker' = tracker
        BY <2>4 DEF WorkerResponds, engineVars, Running
      <3> QED
        BY <3>1 DEF OpenAtHost
    <2>5. CASE \/ EciCallback \/ EciSwallowsIndexes \/ HandleAudioCallback
               \/ CallbackReturns \/ EciSynchronized
      <3>1. /\ wpc \notin {"recv", "respond"} /\ wpc' \notin {"recv", "respond"}
            /\ tracker' = tracker
        BY <2>5 DEF EciCallback, EciSwallowsIndexes, HandleAudioCallback, CallbackReturns,
                    EciSynchronized, engineVars, workerVars
      <3> QED
        BY <3>1 DEF OpenAtHost
    <2>6. CASE \/ ReaderLoadsHandle \/ ReaderCallsEciStop \/ ReaderReplies
               \/ WorkerTriesSend \/ ForwarderReceives \/ ForwarderSends \/ WriterWrites
      <3>1. wpc' = wpc /\ tracker' = tracker
        BY <2>6 DEF ReaderLoadsHandle, ReaderCallsEciStop, ReaderReplies, WorkerTriesSend,
                    ForwarderReceives, ForwarderSends, WriterWrites, engineVars, workerVars
      <3> QED
        BY <3>1 DEF OpenAtHost
    <2> QED
      BY <2>1, <2>2, <2>3, <2>4, <2>5, <2>6
  <1>4. LinedUp(h, m, c)'
    <2>1. PICK u : u = tracker'
      OBVIOUS
    <2>2. u.generation = tracker.generation
      BY <1>3, <2>1
    <2> QED
      BY <1>1, <1>2, <1>3, <2>1, <2>2 DEF LinedUp
  <1> QED
    BY <1>3, <1>4

-----------------------------------------------------------------------------
(* The host keeps running, and says what it was told.                      *)

\* The places of a sequence that is taken from, or added to.
LEMMA TailPlaces ==
  ASSUME NEW S, NEW s \in Seq(S), s # << >>
  PROVE  /\ 1 \in 1 .. Len(s) /\ Head(s) = s[1]
         /\ \A k \in 1 .. Len(Tail(s)) : k + 1 \in 1 .. Len(s) /\ Tail(s)[k] = s[k + 1]
  OBVIOUS

LEMMA AppendPlaces ==
  ASSUME NEW S, NEW s \in Seq(S), NEW e
  PROVE  \A k \in 1 .. Len(Append(s, e)) :
           \/ Append(s, e)[k] = e
           \/ k \in 1 .. Len(s) /\ Append(s, e)[k] = s[k]
  OBVIOUS

\* A reader's step of a host that runs.
LEMMA ReaderKeepsRunning ==
  ASSUME HostPart, ClientPart, Running, NEW h, NEW m, NEW c, LinedUp(h, m, c),
         UNCHANGED HostsPartOfLine,
         ReaderStop \/ ReaderQueues \/ ReaderLoadsHandle \/ ReaderCallsEciStop \/ ReaderReplies
  PROVE  Running' /\ (EciRenders /\ ReportsRendered => EciRenders' /\ ReportsRendered')
  <1>1. UNCHANGED << wpc, item, engine, forwarder, tracker, callback, outgoing, emitted, owner >>
    BY DEF ReaderStop, ReaderQueues, ReaderLoadsHandle, ReaderCallsEciStop, ReaderReplies,
           workerVars, engineVars, eciVars, eventVars, HostsPartOfLine
  <1>2. cancellation_requested' => tracker.generation = 0
    <2>1. CASE ReaderStop
      BY <2>1, ReaderOnLine
    <2>2. CASE cancellation_requested' = cancellation_requested
      BY <2>2 DEF Running
    <2> QED
      BY <2>1, <2>2
         DEF ReaderQueues, ReaderLoadsHandle, ReaderCallsEciStop, ReaderReplies, engineVars
  <1>3. rpc' \in {"read", "handle", "eciStop", "reply"}
    <2>1. CASE ReaderQueues
      <3>1. stdin \in Seq(Commands) /\ stdin # << >> /\ rpc' = AfterQueuing(Head(stdin).kind)
        BY <2>1 DEF ReaderQueues, ReaderTakes, HostPart, TypeOK, ClientTypeOK
      <3>2. PICK x : Leads(owner, m, Head(stdin), x)
        BY <3>1, ConveysHead DEF LinedUp
      <3>3. Head(stdin).kind # "Delete"
        BY <3>2 DEF Leads
      <3> QED
        BY <3>1, <3>3 DEF AfterQueuing
    <2>2. CASE ReaderStop \/ ReaderLoadsHandle \/ ReaderCallsEciStop \/ ReaderReplies
      BY <2>2 DEF ReaderStop, ReaderLoadsHandle, ReaderCallsEciStop, ReaderReplies
    <2> QED
      BY <2>1, <2>2
  <1>4. \/ UNCHANGED << eciInput, eciSpeaking >>
        \/ eciInput' = << >> /\ eciSpeaking' = << >>
    BY DEF ReaderStop, ReaderQueues, ReaderLoadsHandle, ReaderCallsEciStop, ReaderReplies,
           eciVars
  <1>5. Running'
    <2>1. IsActive(tracker') <=> IsActive(tracker)
      BY <1>1
    <2> QED
      BY <1>1, <1>2, <1>3, <1>4, <2>1 DEF Running, OpenAtHost
  <1>6. EciRenders => EciRenders'
    BY <1>1, <1>4 DEF EciRenders
  <1>7. ReportsRendered => ReportsRendered'
    BY <1>1 DEF ReportsRendered
  <1> QED
    BY <1>5, <1>6, <1>7

\* The worker takes a command.
LEMMA WorkerKeepsRunning ==
  ASSUME HostPart, ClientPart, Running, NEW h, NEW m, NEW c, LinedUp(h, m, c),
         EciResults = {TRUE}, UNCHANGED HostsPartOfLine,
         \/ WorkerBegins \/ WorkerHasNoGeneration \/ WorkerAddsText
         \/ WorkerInsertsIndex \/ WorkerSetsVoiceParam \/ WorkerSynthesizes
  PROVE  Running' /\ (EciRenders /\ ReportsRendered => EciRenders' /\ ReportsRendered')
  <1>1. /\ work # << >> /\ item' = Head(work) /\ wpc = "recv"
        /\ UNCHANGED << rpc, engine, forwarder, outgoing, emitted, owner, callback >>
    BY DEF WorkerBegins, WorkerHasNoGeneration, WorkerAddsText, WorkerInsertsIndex,
           WorkerSetsVoiceParam, WorkerSynthesizes, WorkerTakes, readerVars, engineVars,
           eciVars, eventVars, HostsPartOfLine
  <1>2. /\ work \in Seq(Commands) /\ tracker \in Trackers /\ Len(owner) \in Nat
        /\ eciInput \in Seq(Messages)
    BY DEF HostPart, TypeOK, WorkerTypeOK, EngineTypeOK, ClientPart, PipelineTypeOK
  <1>3. PICK x \in Scans(owner) : h \in Scans(owner) /\ Leads(owner, h, Head(work), x)
    BY <1>1, <1>2, ConveysHead DEF LinedUp
  <1>4. PICK k : k = Head(work)
    OBVIOUS
  <1>5. k.kind # "Delete" /\ h.gen = tracker.generation /\ h.gen \in 0 .. Len(owner)
        /\ (h.phase = "open" <=> IsActive(tracker)) /\ eciSpeaking = << >>
    BY <1>1, <1>2, <1>3, <1>4, ScanFields DEF Leads, LinedUp, OpenAtHost, Running
  <1>6. ReportsRendered => ReportsRendered'
    BY <1>1 DEF ReportsRendered
  <1>7. SUFFICES /\ cancellation_requested' => tracker'.generation = 0
                 /\ tracker'.generation = 0 => wpc' = "respond"
                 /\ wpc' \in {"respond", "synchronize"}
                 /\ OpenAtHost' \/ eciInput' = << >>
                 /\ wpc' = "synchronize" \/ eciSpeaking' = << >>
                 /\ EciRenders => EciRenders'
    BY <1>1, <1>4, <1>5, <1>6, <1>7 DEF Running
  <1>8. CASE WorkerBegins
    <2>1. /\ k.kind = "BeginGeneration" /\ tracker' = BeginGeneration(k.arg)
          /\ wpc' = "respond" /\ ~cancellation_requested'
          /\ UNCHANGED << eciInput, eciSpeaking >>
      BY <1>4, <1>8 DEF WorkerBegins, WorkerTakes, WorkerAnswers, eciVars
    <2>2. k.arg = h.gen + 1 /\ h.phase = "closed"
      BY <1>3, <1>4, <2>1 DEF Leads
    <2>3. eciInput = << >>
      BY <1>5, <2>2 DEF Running, OpenAtHost
    <2> QED
      BY <1>5, <2>1, <2>3 DEF EciRenders
  <1>9. CASE WorkerHasNoGeneration \/ WorkerSetsVoiceParam
    <2>1. /\ UNCHANGED << tracker, cancellation_requested, eciInput, eciSpeaking >>
          /\ wpc' = "respond"
      BY <1>9 DEF WorkerHasNoGeneration, WorkerSetsVoiceParam, WorkerAnswers, engineVars,
                  eciVars
    <2> QED
      BY <1>1, <1>5, <2>1 DEF Running, OpenAtHost, EciRenders
  <1>10. CASE WorkerAddsText \/ WorkerInsertsIndex
    <2>1. PICK part :
            /\ eciInput' = Append(eciInput, part)
            /\ k.kind = "AddText" => part = Message("text", k.arg)
            /\ k.kind # "AddText" => part.kind = "index"
            /\ k.kind \in {"AddText", "InsertIndex"} /\ IsActive(tracker)
            /\ wpc' = "respond" /\ UNCHANGED << cancellation_requested, eciSpeaking >>
            /\ tracker' = tracker \/ \E n : tracker' = TrackIndex(tracker, n)
      BY <1>4, <1>10
         DEF WorkerAddsText, WorkerInsertsIndex, WorkerTakes, WorkerAnswers, engineVars,
             Message
    <2>2. tracker'.generation = tracker.generation /\ tracker'.done = tracker.done
      BY <1>2, <2>1, ActiveTracker
    <2>3. OpenAtHost'
      <3>1. PICK u : u = tracker'
        OBVIOUS
      <3>2. IsActive(u)
        BY <2>1, <2>2, <3>1, ActiveTracker
      <3> QED
        BY <2>1, <3>1, <3>2 DEF OpenAtHost
    <2>4. SpokenFor(owner, tracker.generation, part)
      <3>1. h.phase = "open" /\ h.gen # 0
        BY <1>5, <2>1, ActiveTracker
      <3>2. PartOf(k, owner[h.gen].utterance)
        BY <1>3, <1>4, <2>1, <3>1 DEF Leads
      <3> QED
        BY <1>5, <2>1, <3>1, <3>2 DEF SpokenFor, PartOf, Message
    <2>5. EciRenders => \A j \in 1 .. Len(eciInput') :
            SpokenFor(owner, tracker.generation, eciInput'[j])
      <3>1. \A j \in 1 .. Len(eciInput') :
              \/ eciInput'[j] = part
              \/ j \in 1 .. Len(eciInput) /\ eciInput'[j] = eciInput[j]
        BY <1>2, <2>1, AppendPlaces
      <3> QED
        BY <2>4, <3>1 DEF EciRenders
    <2>6. EciRenders => EciRenders'
      BY <1>1, <1>5, <2>1, <2>2, <2>5 DEF EciRenders
    <2> QED
      BY <1>5, <2>1, <2>2, <2>3, <2>6 DEF Running
  <1>11. CASE WorkerSynthesizes
    <2>1. /\ wpc' = "synchronize" /\ eciSpeaking' = eciInput /\ eciInput' = << >>
          /\ UNCHANGED << tracker, cancellation_requested >> /\ IsActive(tracker)
      BY <1>11 DEF WorkerSynthesizes, engineVars
    <2>2. tracker.generation # 0
      BY <2>1, ActiveTracker
    <2> QED
      BY <1>1, <2>1, <2>2 DEF EciRenders, Running
  <1> QED
    BY <1>8, <1>9, <1>10, <1>11

\* Reports of indexes and of the completion render nothing.
LEMMA CompletionRenders ==
  ASSUME NEW t, NEW n, NEW s, s \in {EngineIndexEvents(t, n), CompletionEvents(t)}
  PROVE  \A k \in 1 .. Len(s) : s[k].kind \in {"Index", "Done"}
  <1>1. CASE s = EngineIndexEvents(t, n)
    BY <1>1 DEF EngineIndexEvents, IndexEvent
  <1>2. CASE s = CompletionEvents(t)
    <2>1. PICK d, i : /\ d = DoneEvent(t.generation)
                      /\ i = IndexEvent(t.generation, t.pending_indexes[Len(t.pending_indexes)], TRUE)
      OBVIOUS
    <2>2. d.kind = "Done" /\ i.kind = "Index"
      BY <2>1 DEF DoneEvent, IndexEvent
    <2>3. s = << >> \/ s = << >> \o << d >> \/ s = << i >> \o << d >>
      BY <1>2, <2>1 DEF CompletionEvents, RecoveredIndex
    <2>4. s = << >> \/ s = << d >> \/ s = << i, d >>
      BY <2>3, ShortConcat
    <2> QED
      BY <2>2, <2>4
  <1> QED
    BY <1>1, <1>2

\* ECI calls back, and the worker reports.
LEMMA EngineKeepsRunning ==
  ASSUME HostPart, ClientPart, Running, NEW h, NEW m, NEW c, LinedUp(h, m, c),
         EciResults = {TRUE}, UNCHANGED HostsPartOfLine,
         \/ EciCallback \/ EciSwallowsIndexes \/ HandleAudioCallback
         \/ HandleIndexCallback \/ WorkerTriesSend \/ CallbackReturns
         \/ EciSynchronized \/ WorkerFinishes \/ WorkerEndsSynthesis \/ WorkerResponds
         \/ ForwarderReceives \/ ForwarderSends \/ WriterWrites
  PROVE  Running' /\ (EciRenders /\ ReportsRendered => EciRenders' /\ ReportsRendered')
  <1>1. /\ tracker'.generation = tracker.generation /\ (OpenAtHost' <=> OpenAtHost)
        /\ UNCHANGED << rpc, engine, item, forwarder, cancellation_requested, owner >>
    <2>1. tracker'.generation = tracker.generation /\ (OpenAtHost' <=> OpenAtHost)
      BY HostStaysOnLine
    <2> QED
      BY <2>1
         DEF EciCallback, EciSwallowsIndexes, HandleAudioCallback, HandleIndexCallback,
             WorkerTriesSend, CallbackReturns, EciSynchronized, WorkerFinishes,
             WorkerEndsSynthesis, WorkerResponds, ForwarderReceives, ForwarderSends,
             WriterWrites, readerVars, workerVars, engineVars, eventVars, HostsPartOfLine
  <1>2. /\ tracker \in Trackers /\ tracker.generation \in 0 .. Len(owner)
        /\ eciSpeaking \in Seq(Messages) /\ outgoing \in Seq(EngineEvents)
        /\ emitted \in Seq(EngineEvents)
    <2>1. h \in Scans(owner) /\ h.gen = tracker.generation /\ Len(owner) \in Nat
      BY DEF LinedUp, ClientPart, PipelineTypeOK
    <2> QED
      BY <2>1, ScanFields DEF HostPart, TypeOK, WorkerTypeOK, EngineTypeOK, HistoryTypeOK
  <1>3. CASE EciCallback
    <2>1. /\ wpc = "synchronize" /\ eciSpeaking # << >> /\ callback' = Head(eciSpeaking)
          /\ \/ eciSpeaking' = << >> /\ eciInput' = << >> /\ wpc' = wpc
             \/ eciSpeaking' = Tail(eciSpeaking) /\ wpc' = "callback" /\ eciInput' = eciInput
          /\ UNCHANGED << outgoing, emitted, tracker >>
      BY <1>3 DEF EciCallback, engineVars, eventVars
    <2>2. /\ 1 \in 1 .. Len(eciSpeaking) /\ Head(eciSpeaking) = eciSpeaking[1]
          /\ \A k \in 1 .. Len(Tail(eciSpeaking)) :
               k + 1 \in 1 .. Len(eciSpeaking) /\ Tail(eciSpeaking)[k] = eciSpeaking[k + 1]
      BY <1>2, <2>1, TailPlaces
    <2>3. Running'
      BY <1>1, <2>1 DEF Running, OpenAtHost
    <2>4. EciRenders => EciRenders'
      <3> SUFFICES ASSUME EciRenders PROVE EciRenders'
        OBVIOUS
      <3>1. SpokenFor(owner, tracker.generation, Head(eciSpeaking))
        BY <2>2 DEF EciRenders
      <3>2. \A k \in 1 .. Len(Tail(eciSpeaking)) :
              SpokenFor(owner, tracker.generation, Tail(eciSpeaking)[k])
        BY <2>2 DEF EciRenders
      <3>3. CASE eciSpeaking' = << >> /\ eciInput' = << >> /\ wpc' = wpc
        BY <1>1, <2>1, <3>3 DEF EciRenders
      <3>4. CASE eciSpeaking' = Tail(eciSpeaking) /\ wpc' = "callback" /\ eciInput' = eciInput
        BY <1>1, <2>1, <3>1, <3>2, <3>4 DEF EciRenders
      <3> QED
        BY <2>1, <3>3, <3>4
    <2>5. ReportsRendered => ReportsRendered'
      BY <1>1, <2>1 DEF ReportsRendered
    <2> QED
      BY <2>3, <2>4, <2>5
  <1>4. CASE EciSwallowsIndexes \/ EciSynchronized \/ CallbackReturns
    <2>1. /\ wpc' # "callback" /\ UNCHANGED << outgoing, emitted, tracker >>
          /\ eciSpeaking' = eciSpeaking \/ eciSpeaking' = << >>
          /\ eciInput' = eciInput \/ eciInput' = << >>
      BY <1>4 DEF EciSwallowsIndexes, EciSynchronized, CallbackReturns, workerVars,
                  engineVars, eciVars, eventVars
    <2>2. /\ wpc \in {"synchronize", "callbackSend"} /\ wpc' \in {"synchronize", "finish"}
          /\ wpc' = "synchronize" \/ eciSpeaking' = << >>
      BY <1>4 DEF EciSwallowsIndexes, EciSynchronized, CallbackReturns, workerVars, eciVars
    <2>3. Running'
      BY <1>1, <2>1, <2>2 DEF Running, OpenAtHost
    <2>4. EciRenders => EciRenders'
      BY <1>1, <2>1 DEF EciRenders
    <2>5. ReportsRendered => ReportsRendered'
      BY <1>1, <2>1 DEF ReportsRendered
    <2> QED
      BY <2>3, <2>4, <2>5
  <1>5. CASE HandleAudioCallback
    <2>1. /\ wpc = "callback" /\ wpc' = "callbackSend" /\ callback.kind = "text"
          /\ outgoing' = << >> \/ outgoing' = << AudioEvent(tracker.generation, callback.value) >>
          /\ UNCHANGED << eciInput, eciSpeaking, tracker, emitted >>
      BY <1>5 DEF HandleAudioCallback, engineVars, eciVars, eventVars
    <2>2. Running'
      BY <1>1, <2>1 DEF Running, OpenAtHost
    <2>3. EciRenders => EciRenders'
      BY <1>1, <2>1 DEF EciRenders
    <2>4. EciRenders /\ ReportsRendered => ReportsRendered'
      <3> SUFFICES ASSUME EciRenders, ReportsRendered PROVE ReportsRendered'
        OBVIOUS
      <3>1. SpokenFor(owner, tracker.generation, callback)
        BY <2>1 DEF EciRenders
      <3>2. Rendered(owner, AudioEvent(tracker.generation, callback.value))
        BY <2>1, <3>1 DEF SpokenFor, Rendered, AudioEvent
      <3>3. \A k \in 1 .. Len(outgoing') : Rendered(owner, outgoing'[k])
        BY <2>1, <3>2
      <3> QED
        BY <1>1, <2>1, <3>3 DEF ReportsRendered
    <2> QED
      BY <2>2, <2>3, <2>4
  <1>6. CASE HandleIndexCallback \/ WorkerFinishes
    <2>1. wpc \in {"callback", "finish"} /\ ~cancellation_requested
      <3>1. wpc \in {"callback", "finish"}
        BY <1>6 DEF HandleIndexCallback, WorkerFinishes
      <3> QED
        BY <3>1 DEF Running
    <2>2. /\ wpc' \in {"callbackSend", "finalSend"}
          /\ wpc' = "finalSend" => wpc = "finish" /\ tracker' = Complete(tracker)
          /\ wpc = "finish" => wpc' = "finalSend"
          /\ outgoing' \in {EngineIndexEvents(tracker, callback.value), CompletionEvents(tracker)}
          /\ UNCHANGED << eciInput, eciSpeaking, emitted >>
      BY <1>6, <2>1 DEF HandleIndexCallback, WorkerFinishes, eciVars, eventVars
    <2>3. ~IsActive(Complete(tracker))
      BY <1>2, ActiveTracker
    <2>4. Running'
      <3>1. wpc' = "finalSend" => ~IsActive(tracker')
        BY <2>2, <2>3
      <3>2. tracker'.generation # 0
        BY <1>1, <2>1 DEF Running
      <3> QED
        BY <1>1, <2>1, <2>2, <3>1, <3>2 DEF Running
    <2>5. EciRenders => EciRenders'
      BY <1>1, <2>2 DEF EciRenders
    <2>6. ReportsRendered => ReportsRendered'
      <3>1. \A k \in 1 .. Len(outgoing') : outgoing'[k].kind \in {"Index", "Done"}
        BY <2>2, CompletionRenders
      <3> QED
        BY <1>1, <2>2, <3>1 DEF ReportsRendered, Rendered
    <2> QED
      BY <2>4, <2>5, <2>6
  <1>7. CASE WorkerTriesSend
    <2>1. /\ UNCHANGED << wpc, tracker, eciInput, eciSpeaking, callback >>
          /\ outgoing # << >>
          /\ outgoing' = << >> \/ outgoing' = Tail(outgoing)
          /\ emitted' = emitted \/ emitted' = Append(emitted, Head(outgoing))
      BY <1>7 DEF WorkerTriesSend, engineVars, eciVars
    <2>2. Running'
      <3>1. IsActive(tracker') <=> IsActive(tracker)
        BY <2>1
      <3> QED
        BY <1>1, <2>1, <3>1 DEF Running
    <2>3. EciRenders => EciRenders'
      BY <1>1, <2>1 DEF EciRenders
    <2>4. ReportsRendered => ReportsRendered'
      <3> SUFFICES ASSUME ReportsRendered PROVE ReportsRendered'
        OBVIOUS
      <3>1. /\ 1 \in 1 .. Len(outgoing) /\ Head(outgoing) = outgoing[1]
            /\ \A k \in 1 .. Len(Tail(outgoing)) :
                 k + 1 \in 1 .. Len(outgoing) /\ Tail(outgoing)[k] = outgoing[k + 1]
        BY <1>2, <2>1, TailPlaces
      <3>2. Rendered(owner, Head(outgoing))
        BY <3>1 DEF ReportsRendered
      <3>3. \A k \in 1 .. Len(outgoing') : Rendered(owner, outgoing'[k])
        BY <2>1, <3>1 DEF ReportsRendered
      <3>4. \A k \in 1 .. Len(emitted') :
              \/ emitted'[k] = Head(outgoing)
              \/ k \in 1 .. Len(emitted) /\ emitted'[k] = emitted[k]
        BY <1>2, <2>1, AppendPlaces
      <3>5. \A k \in 1 .. Len(emitted') : Rendered(owner, emitted'[k])
        BY <3>2, <3>4 DEF ReportsRendered
      <3> QED
        BY <1>1, <3>3, <3>5 DEF ReportsRendered
    <2> QED
      BY <2>2, <2>3, <2>4
  <1>8. CASE WorkerEndsSynthesis \/ WorkerResponds
    <2>1. /\ wpc \in {"finalSend", "respond"} /\ wpc' \in {"respond", "recv"}
          /\ UNCHANGED << tracker, eciInput, eciSpeaking, outgoing, emitted >>
      BY <1>8 DEF WorkerEndsSynthesis, WorkerAnswers, WorkerResponds, Running, engineVars,
                  eciVars, eventVars
    <2>2. Running'
      BY <1>1, <2>1 DEF Running
    <2>3. EciRenders => EciRenders'
      BY <1>1, <2>1 DEF EciRenders
    <2>4. ReportsRendered => ReportsRendered'
      BY <1>1, <2>1 DEF ReportsRendered
    <2> QED
      BY <2>2, <2>3, <2>4
  <1>9. CASE ForwarderReceives \/ ForwarderSends \/ WriterWrites
    <2>1. UNCHANGED << wpc, tracker, eciInput, eciSpeaking, callback, outgoing, emitted >>
      BY <1>9 DEF ForwarderReceives, ForwarderSends, WriterWrites, workerVars, engineVars,
                  eciVars, eventVars
    <2>2. Running'
      <3>1. IsActive(tracker') <=> IsActive(tracker)
        BY <2>1
      <3> QED
        BY <1>1, <2>1, <3>1 DEF Running
    <2>3. EciRenders => EciRenders'
      BY <1>1, <2>1 DEF EciRenders
    <2>4. ReportsRendered => ReportsRendered'
      BY <1>1, <2>1 DEF ReportsRendered
    <2> QED
      BY <2>2, <2>3, <2>4
  <1> QED
    BY <1>3, <1>4, <1>5, <1>6, <1>7, <1>8, <1>9

-----------------------------------------------------------------------------
(* The client goes on where the line ends.                                 *)

\* The items of generations are no newer than the newest Stop on the wire, and of
\* utterances NVDA has queued.
Dated ==
  /\ cpc # "get" => current.seq <= stopSent
  /\ \A g \in 1 .. Len(owner) :
       owner[g].seq <= stopSent /\ owner[g].utterance \in DOMAIN Programs

LEMMA OwnersTyped ==
  ASSUME ClientPart
  PROVE  /\ owner \in Seq(Items) /\ Len(owner) \in Nat /\ Len(owner) = generations
         /\ conn.generation = generations
         /\ \A g \in 1 .. Len(owner) :
              owner[g] \in Items /\ owner[g].seq \in Nat /\ owner[g].utterance \in Nat
         /\ current \in Items /\ current.seq \in Nat /\ current.utterance \in Nat
  <1>1. /\ owner \in Seq(Items) /\ Len(owner) = generations /\ current \in Items
        /\ conn.generation = generations
    BY DEF ClientPart, PipelineTypeOK
  <1>2. \A g \in 1 .. Len(owner) : owner[g] \in Items
    BY <1>1
  <1>3. \A i \in Items : i.seq \in Nat /\ i.utterance \in Nat
    BY DEF Items
  <1> QED
    BY <1>1, <1>2, <1>3

\* Only sends change who owns a generation, and only the worker takes items.
LEMMA StepDated ==
  ASSUME HostPart, ClientPart, Dated, [PipelineNext]_pipelineVars
  PROVE  Dated'
  <1>1. /\ stopSent \in Nat /\ sequence \in Nat /\ stopSent <= sequence
        /\ owner \in Seq(Items) /\ current \in Items /\ synthQueue \in Seq(Items)
        /\ Len(owner) \in Nat
    BY DEF ClientPart, PipelineTypeOK
  <1>2. /\ \A g \in 1 .. Len(owner) : owner[g].seq \in Nat
        /\ current.seq \in Nat
    BY OwnersTyped
  <1>3. CASE SendStop
    <2>1. stopSent' = sequence /\ UNCHANGED << owner, cpc, current >>
      BY <1>3 DEF SendStop, synthVars
    <2> QED
      BY <1>1, <1>2, <2>1 DEF Dated
  <1>4. CASE SynthSends
    <2>1. /\ cpc = "send" /\ current' = current /\ stopSent' = stopSent
          /\ owner' = owner \/ owner' = Append(owner, current)
      BY <1>4 DEF SynthSends
    <2>2. \A g \in 1 .. Len(owner') :
            \/ owner'[g] = current
            \/ g \in 1 .. Len(owner) /\ owner'[g] = owner[g]
      BY <1>1, <2>1, AppendPlaces
    <2>3. current.utterance \in DOMAIN Programs
      BY <2>1 DEF ClientPart, Threads
    <2> QED
      BY <2>1, <2>2, <2>3 DEF Dated
  <1>5. CASE SynthGets
    <2>1. /\ synthQueue # << >> /\ UNCHANGED << stopSent, owner >>
          /\ UNCHANGED << cpc, current >> \/ current' = Head(synthQueue)
      BY <1>5 DEF SynthGets, clientHistory
    <2>2. 1 \in 1 .. Len(synthQueue) /\ Head(synthQueue) = synthQueue[1]
      BY <1>1, <2>1
    <2>3. Head(synthQueue).seq <= stopSent
      BY <2>2 DEF ClientPart, Threads
    <2> QED
      BY <2>1, <2>3 DEF Dated
  <1>6. CASE SynthPrepares \/ SynthChecks \/ SynthAnswered \/ SynthTimesOut
    <2>1. cpc # "get" /\ UNCHANGED << current, stopSent, owner >>
      BY <1>6 DEF SynthPrepares, SynthChecks, SynthAnswered, SynthTimesOut, clientHistory
    <2> QED
      BY <2>1 DEF Dated
  <1>7. CASE \/ HostStep \/ ReceiverReads \/ ReceiverClears \/ ReceiverTags \/ Speak \/ Cancel
             \/ UNCHANGED pipelineVars
    <2>1. UNCHANGED << cpc, current, stopSent, owner >>
      BY <1>7 DEF HostStep, ReceiverReads, ReceiverClears, ReceiverTags, Speak, Cancel,
                  pipelineVars, synthVars, clientHistory
    <2> QED
      BY <2>1 DEF Dated
  <1> QED
    BY <1>3, <1>4, <1>5, <1>6, <1>7, PipelineSteps

\* What is clean after a step was clean before it.
LEMMA CleanBefore ==
  ASSUME HostPart, ClientPart, Dated, [PipelineNext]_pipelineVars, Clean'
  PROVE  Clean
  <1>1. /\ stopSent \in Nat /\ sequence \in Nat /\ stopSent <= sequence
        /\ sequence = cancels
        /\ owner \in Seq(Items) /\ Len(owner) \in Nat
        /\ \A g \in 1 .. Len(owner) : owner[g].seq \in Nat
    BY OwnersTyped DEF ClientPart, PipelineTypeOK, Threads
  <1>2. CASE Cancel
    <2>1. cancels' = cancels + 1 /\ sequence' = sequence + 1 /\ owner' = owner
      BY <1>2 DEF Cancel, clientHistory
    <2>2. ~(Len(owner) = 1 /\ owner[1].seq = sequence + 1)
      BY <1>1 DEF Dated
    <2> QED
      BY <1>1, <2>1, <2>2 DEF Clean
  <1>3. CASE SynthSends
    <2>1. UNCHANGED << cancels, sequence >> /\ (owner' = owner \/ owner' = Append(owner, current))
      BY <1>3 DEF SynthSends, mainVars
    <2>2. owner' # owner => Len(owner') = Len(owner) + 1
      BY <1>1, <2>1
    <2> QED
      BY <1>1, <2>1, <2>2 DEF Clean
  <1>4. CASE ~Cancel /\ ~SynthSends
    <2>1. UNCHANGED << cancels, sequence, owner >>
      BY <1>4, PipelineSteps
         DEF HostStep, SendStop, ReceiverReads, ReceiverClears, ReceiverTags, Speak,
             SynthGets, SynthPrepares, SynthChecks, SynthAnswered, SynthTimesOut,
             pipelineVars, mainVars, clientHistory
    <2> QED
      BY <2>1 DEF Clean
  <1> QED
    BY <1>2, <1>3, <1>4

\* Whether a generation is open after a send.
LEMMA SendLeavesOpen ==
  ASSUME NEW c \in Connections, NEW kind, NEW next, next = AfterSend(c, kind)
  PROVE  next.generation_open <=>
           kind \notin {"Synthesize", "Stop"} /\ (c.generation_open \/ Opens(c, kind))
  <1>1. PICK sent : sent = IF Opens(c, kind) THEN Opened(c) ELSE c
    OBVIOUS
  <1>2. sent \in Connections /\ (sent.generation_open <=> c.generation_open \/ Opens(c, kind))
    <2>1. CASE Opens(c, kind)
      <3>1. sent = [c EXCEPT !.generation = @ + 1, !.active_generation = c.generation + 1,
                             !.generation_open = TRUE]
        BY <1>1, <2>1 DEF Opened
      <3>2. c.generation + 1 \in Nat
        BY DEF Connections
      <3>3. sent \in Connections /\ sent.generation_open = TRUE
        BY <3>1, <3>2, Zenon DEF Connections
      <3> QED
        BY <2>1, <3>3
    <2>2. CASE ~Opens(c, kind)
      BY <1>1, <2>2
    <2> QED
      BY <2>1, <2>2
  <1>3. CASE kind = "Synthesize"
    <2>1. next = [sent EXCEPT !.generation_open = FALSE]
      BY <1>1, <1>3 DEF AfterSend
    <2>2. next.generation_open = FALSE
      BY <1>2, <2>1, Zenon DEF Connections
    <2> QED
      BY <1>3, <2>2
  <1>4. CASE kind = "Stop"
    <2>1. next = [sent EXCEPT !.generation_open = FALSE, !.active_generation = NoActive,
                              !.cancelled = TRUE]
      BY <1>1, <1>4 DEF AfterSend
    <2>2. next.generation_open = FALSE
      BY <1>2, <2>1, Zenon DEF Connections
    <2> QED
      BY <1>4, <2>2
  <1>5. CASE kind \notin {"Synthesize", "Stop"}
    <2>1. next = sent
      BY <1>1, <1>5 DEF AfterSend
    <2> QED
      BY <1>2, <1>5, <2>1
  <1> QED
    BY <1>3, <1>4, <1>5

\* Stop is sent where nothing has been begun.
LEMMA StopBeforeAny ==
  ASSUME HostPart, ClientPart, Dated, SendStop, Clean'
  PROVE  Len(owner) = 0
  <1>1. /\ stopSent \in Nat /\ sequence = stopSent + 1 /\ sequence = cancels
        /\ owner \in Seq(Items)
    BY DEF SendStop, ClientPart, PipelineTypeOK, Threads
  <1>2. UNCHANGED << cancels, sequence, owner >>
    BY DEF SendStop
  <1>3. ~(Len(owner) = 1 /\ owner[1].seq = sequence)
    <2> SUFFICES ASSUME Len(owner) = 1 PROVE owner[1].seq # sequence
      OBVIOUS
    <2>1. owner[1].seq \in Nat /\ owner[1].seq <= stopSent
      BY OwnersTyped DEF Dated
    <2> QED
      BY <1>1, <2>1
  <1> QED
    BY <1>1, <1>2, <1>3 DEF Clean

LEMMA StopOnLine ==
  ASSUME HostPart, ClientPart, Dated, NEW h, NEW m, NEW c, LinedUp(h, m, c), Sending,
         SendStop, Clean'
  PROVE  LinedUp(h, m, c)' /\ Sending'
  <1>1. Len(owner) = 0
    BY StopBeforeAny
  <1>2. PICK next : next = AfterSend(conn, "Stop")
    OBVIOUS
  <1>3. conn \in Connections /\ stdin \in Seq(Commands)
    BY DEF ClientPart, PipelineTypeOK, HostPart, TypeOK, ClientTypeOK
  <1>4. conn' = next /\ ~next.generation_open
    BY <1>2, <1>3, SendLeavesOpen DEF SendStop, Sends
  <1>5. PICK e \in Commands : e.kind = "Stop" /\ stdin' = Append(stdin, e)
    <2>1. Sends("Stop", 0) /\ "Stop" \in CommandKinds \ {"BeginGeneration"} /\ 0 \in Nat
      BY DEF SendStop, CommandKinds
    <2>2. ~Opens(conn, "Stop")
      BY DEF Opens
    <2> QED
      BY <1>3, <2>1, <2>2, SendAppends DEF HostPart
  <1>6. /\ UNCHANGED << owner, work, rpc, tracker, wpc >>
        /\ UNCHANGED << cpc, current, position, sequence >> /\ stopSent' = sequence
    BY DEF SendStop, Sends, hostVars, readerVars, workerVars, engineVars, synthVars
  <1>7. Leads(owner, c, e, c) /\ c \in Scans(owner) /\ c.gen = 0 /\ c.phase = "closed"
    <2>1. c \in Scans(owner) /\ c.gen = 0
      BY <1>1 DEF LinedUp
    <2>2. c.phase = "closed"
      BY <1>1, <2>1, ScanFields
    <2> QED
      BY <1>5, <2>1, <2>2 DEF Leads
  <1>8. Conveys(owner, Append(stdin, e), m, c)
    BY <1>1, <1>3, <1>7, ConveysAppend DEF LinedUp
  <1>9. LinedUp(h, m, c)'
    <2>1. OpenAtHost' <=> OpenAtHost
      BY <1>6 DEF OpenAtHost
    <2>2. ~conn'.generation_open
      BY <1>4
    <2> QED
      BY <1>5, <1>6, <1>7, <1>8, <2>1, <2>2 DEF LinedUp
  <1>10. Sending'
    <2>1. ~conn'.generation_open
      BY <1>4
    <2> QED
      BY <1>1, <1>6, <2>1 DEF Sending
  <1> QED
    BY <1>9, <1>10

\* What the worker sends of an utterance as speak() queues it.
LEMMA UtteranceSteps ==
  ASSUME UtterancesEnd, ClientPart, cpc = "send", NEW kind, NEW arg, NEW u,
         kind = Program[position].kind, arg = Program[position].arg, u = current.utterance
  PROVE  /\ kind \in {"AddText", "InsertIndex", "SetVoiceParam", "Synthesize"}
         /\ \A e : e.kind = kind /\ e.arg = arg => PartOf(e, u)
         /\ u \in DOMAIN Programs /\ Len(Programs[u]) \in Nat /\ Program = Programs[u]
         /\ position \in Nat /\ 1 <= position /\ position <= Len(Programs[u])
         /\ kind # "Synthesize" => position + 1 <= Len(Programs[u])
  <1>1. PICK p : p = Programs[u]
    OBVIOUS
  <1>2. Program = p /\ u \in DOMAIN Programs
    BY <1>1 DEF Program, ClientPart, Threads
  <1>3. Len(p) \in Nat
    <2> DEFINE steps == [kind : CommandKinds \ {"BeginGeneration"}, arg : Nat]
    <2>1. Programs \in Seq(Seq(steps))
      BY ProgramAssumption
    <2> HIDE DEF steps
    <2>2. p \in Seq(steps)
      BY <1>1, <1>2, <2>1
    <2> QED
      BY <2>2
  <1>4. position \in Nat /\ 1 <= position /\ position <= Len(p) /\ position \in 1 .. Len(p)
    BY <1>2, <1>3 DEF ClientPart, Threads, PipelineTypeOK
  <1>5. /\ kind \in {"AddText", "InsertIndex", "SetVoiceParam", "Synthesize"}
        /\ kind = "AddText" => arg = u
    BY <1>1, <1>2, <1>4 DEF UtterancesEnd
  <1>6. kind # "Synthesize" => position # Len(p)
    <2>1. p # << >>
      BY <1>4
    <2>2. p[Len(p)].kind = "Synthesize"
      BY <1>1, <1>2, <2>1 DEF UtterancesEnd
    <2> QED
      BY <1>2, <2>2
  <1> QED
    BY <1>1, <1>2, <1>3, <1>4, <1>5, <1>6 DEF PartOf

\* Only Stop closes the connection to leftovers.
LEMMA SendKeepsCancelled ==
  ASSUME NEW c \in Connections, NEW kind, kind # "Stop",
         NEW next, next = AfterSend(c, kind)
  PROVE  next.cancelled = c.cancelled
  <1>1. kind # "Stop" => next.cancelled = c.cancelled
    BY AfterSendFields
  <1> QED
    BY <1>1

\* A send of the worker, by what it appends to the pipe.
LEMMA SynthAppends ==
  ASSUME HostPart, ClientPart, SynthSends, NEW kind, kind = Program[position].kind
  PROVE  /\ \E e \in Commands :
              /\ e.kind = kind /\ e.arg = Program[position].arg
              /\ IF Opens(conn, kind)
                   THEN \E b \in Commands :
                          /\ b.kind = "BeginGeneration" /\ b.arg = Len(owner) + 1
                          /\ stdin' = Append(Append(stdin, b), e)
                   ELSE stdin' = Append(stdin, e)
         /\ conn'.generation_open <=>
              kind \notin {"Synthesize", "Stop"} /\ (conn.generation_open \/ Opens(conn, kind))
         /\ kind # "Stop" => conn'.cancelled = conn.cancelled
         /\ owner' = IF Opens(conn, kind) THEN Append(owner, current) ELSE owner
         /\ UNCHANGED << hostVars, outVars, historyVars, sequence, cancels, current,
                         audioQueue, stopSent >>
         /\ cpc = "send" /\ cpc' \in {"check", "wait"} /\ position' = position + 1
         /\ stdin \in Seq(Commands) /\ conn \in Connections
  <1>1. /\ conn \in Connections /\ conn.generation = Len(owner) /\ stdin \in Seq(Commands)
        /\ TypeOK
    BY OwnersTyped DEF ClientPart, PipelineTypeOK, HostPart, TypeOK, ClientTypeOK
  <1>2. PICK arg, next : arg = Program[position].arg /\ next = AfterSend(conn, kind)
    OBVIOUS
  <1>3. cpc = "send" /\ Sends(kind, arg)
    BY <1>2 DEF SynthSends
  <1>4. kind \in CommandKinds \ {"BeginGeneration"} /\ arg \in Nat
    BY <1>2, <1>3, ProgramSteps
  <1>5. PICK e \in Commands :
          /\ e.kind = kind /\ e.arg = arg
          /\ IF Opens(conn, kind)
               THEN \E b \in Commands :
                      /\ b.kind = "BeginGeneration" /\ b.arg = conn.generation + 1
                      /\ stdin' = Append(Append(stdin, b), e)
               ELSE stdin' = Append(stdin, e)
    <2>1. TypeOK /\ conn \in Connections /\ Sends(kind, arg)
      BY <1>1, <1>3
    <2> QED
      BY <1>4, <2>1, SendAppends
  <1>6. conn' = next
    BY <1>2, <1>3 DEF Sends
  <1>7. next.generation_open <=>
              kind \notin {"Synthesize", "Stop"} /\ (conn.generation_open \/ Opens(conn, kind))
    BY <1>1, <1>2, SendLeavesOpen
  <1>8. kind # "Stop" => next.cancelled = conn.cancelled
    <2> SUFFICES ASSUME kind # "Stop" PROVE next.cancelled = conn.cancelled
      OBVIOUS
    <2>1. conn \in Connections /\ next = AfterSend(conn, kind)
      BY <1>1, <1>2
    <2> QED
      BY <2>1, SendKeepsCancelled
  <1>11. \E b \in Commands : Opens(conn, kind) =>
           /\ b.kind = "BeginGeneration" /\ b.arg = Len(owner) + 1
           /\ stdin' = Append(Append(stdin, b), e)
    BY <1>1, <1>5
  <1>9. /\ owner' = IF Opens(conn, kind) THEN Append(owner, current) ELSE owner
        /\ UNCHANGED << sequence, cancels, current, audioQueue, stopSent >>
        /\ cpc' \in {"check", "wait"} /\ position' = position + 1
    BY DEF SynthSends, mainVars, receiverVars
  <1>10. UNCHANGED << hostVars, outVars, historyVars >>
    BY <1>3 DEF Sends
  <1>12. stdin' = Append(stdin, e) \/ Opens(conn, kind)
    BY <1>5
  <1>13. conn'.generation_open <=>
              kind \notin {"Synthesize", "Stop"} /\ (conn.generation_open \/ Opens(conn, kind))
    BY <1>6, <1>7
  <1>14. kind # "Stop" => conn'.cancelled = conn.cancelled
    BY <1>6, <1>8
  <1>15. \E f \in Commands :
              /\ f.kind = kind /\ f.arg = Program[position].arg
              /\ IF Opens(conn, kind)
                   THEN \E b \in Commands :
                          /\ b.kind = "BeginGeneration" /\ b.arg = Len(owner) + 1
                          /\ stdin' = Append(Append(stdin, b), f)
                   ELSE stdin' = Append(stdin, f)
    <2>1. e.kind = kind /\ e.arg = Program[position].arg
      BY <1>2, <1>5
    <2> QED
      BY <2>1, <1>11, <1>12
  <1> QED
    BY <1>1, <1>3, <1>9, <1>10, <1>13, <1>14, <1>15

\* A text, an index or another command of the item goes behind what it has sent.
LEMMA SynthOnLine ==
  ASSUME HostPart, ClientPart, NEW h, NEW m, NEW c, LinedUp(h, m, c), Sending,
         UtterancesEnd, SynthSends
  PROVE  \E x : LinedUp(h, m, x)'
  <1>1. PICK kind, u : kind = Program[position].kind /\ u = current.utterance
    OBVIOUS
  <1>2. PICK e \in Commands :
          /\ e.kind = kind /\ e.arg = Program[position].arg
          /\ IF Opens(conn, kind)
               THEN \E b \in Commands :
                      /\ b.kind = "BeginGeneration" /\ b.arg = Len(owner) + 1
                      /\ stdin' = Append(Append(stdin, b), e)
               ELSE stdin' = Append(stdin, e)
    BY <1>1, SynthAppends
  <1>3. /\ conn'.generation_open <=>
              kind \notin {"Synthesize", "Stop"} /\ (conn.generation_open \/ Opens(conn, kind))
        /\ owner' = IF Opens(conn, kind) THEN Append(owner, current) ELSE owner
        /\ cpc = "send" /\ position' = position + 1 /\ stdin \in Seq(Commands)
    BY <1>1, SynthAppends
  <1>4. UNCHANGED << work, rpc, tracker, wpc >>
    <2>1. UNCHANGED hostVars
      BY <1>1, SynthAppends
    <2> QED
      BY <2>1 DEF hostVars, readerVars, workerVars, engineVars
  <1>5. /\ kind \in {"AddText", "InsertIndex", "SetVoiceParam", "Synthesize"}
        /\ PartOf(e, u)
    BY <1>1, <1>2, <1>3, UtteranceSteps
  <1>6. /\ owner \in Seq(Items) /\ Len(owner) \in Nat /\ current \in Items
        /\ work \in Seq(Commands)
    BY OwnersTyped DEF HostPart, TypeOK, WorkerTypeOK
  <1>7. /\ h \in Scans(owner) /\ m \in Scans(owner) /\ c \in Scans(owner)
        /\ c = [gen |-> c.gen, phase |-> c.phase]
        /\ c.gen = Len(owner) /\ c.phase \in {"open", "closed"}
        /\ c.gen = 0 => c.phase = "closed"
        /\ c.phase = "open" <=> conn.generation_open
        /\ Conveys(owner, work, h, m) /\ Conveys(owner, stdin, m, c)
    BY <1>6, ScanFields DEF LinedUp
  <1>8. ASSUME NEW x \in Scans(owner'),
               x.gen = Len(owner'), x.phase = "open" <=> conn'.generation_open,
               Scans(owner) \subseteq Scans(owner'),
               Conveys(owner', work, h, m), Conveys(owner', stdin', m, x)
        PROVE  LinedUp(h, m, x)'
    <2>1. OpenAtHost' <=> OpenAtHost
      BY <1>4 DEF OpenAtHost
    <2> QED
      BY <1>4, <1>7, <1>8, <2>1 DEF LinedUp
  <1>9. CASE Opens(conn, kind)
    <2>1. kind \in {"AddText", "InsertIndex"} /\ ~conn.generation_open
      BY <1>9 DEF Opens
    <2>2. owner' = Append(owner, current)
      BY <1>3, <1>9
    <2>3. PICK new : new = Append(owner, current)
      OBVIOUS
    <2>4. /\ new \in Seq(Items) /\ Len(new) = Len(owner) + 1 /\ new[Len(owner) + 1] = current
          /\ Scans(owner) \subseteq Scans(new)
      BY <1>6, <2>3 DEF Scans
    <2>5. PICK b \in Commands :
            /\ b.kind = "BeginGeneration" /\ b.arg = Len(owner) + 1
            /\ stdin' = Append(Append(stdin, b), e)
      BY <1>2, <1>9
    <2>6. Conveys(new, work, h, m) /\ Conveys(new, stdin, m, c)
      <3>1. Len(work) \in Nat /\ Len(stdin) \in Nat
        BY <1>3, <1>6
      <3> QED
        BY <1>6, <1>7, <2>3, <3>1, ConveysStill
    <2>7. PICK g, x : g = Len(owner) + 1 /\ x = [gen |-> g, phase |-> "open"]
      OBVIOUS
    <2>8. g \in 1 .. Len(new) /\ Len(new) \in Nat /\ g = Len(new)
      BY <1>6, <2>4, <2>7
    <2>9. x \in Scans(new)
      BY <2>7, <2>8, ScanMade
    <2>10. Leads(new, c, b, x)
      BY <1>7, <2>1, <2>5, <2>7 DEF Leads
    <2>11. Leads(new, x, e, x)
      <3>1. new[x.gen].utterance = u /\ x.phase = "open"
        BY <1>1, <2>4, <2>7
      <3> QED
        BY <1>2, <1>5, <2>1, <3>1 DEF Leads
    <2>12. PICK s : s = Append(stdin, b)
      OBVIOUS
    <2>13. s \in Seq(Commands)
      BY <1>3, <2>12, AppendType
    <2>14. Conveys(new, s, m, x)
      BY <1>3, <2>6, <2>8, <2>9, <2>10, <2>12, ConveysAppend
    <2>15. Conveys(new, Append(s, e), m, x)
      BY <2>8, <2>9, <2>11, <2>13, <2>14, ConveysAppend
    <2>16. LinedUp(h, m, x)'
      <3>1. x.gen = Len(new) /\ x.phase = "open"
        BY <2>7, <2>8
      <3>2. conn'.generation_open
        BY <1>3, <1>9, <2>1
      <3> QED
        BY <1>3, <1>8, <2>2, <2>3, <2>4, <2>5, <2>6, <2>9, <2>12, <2>15, <3>1, <3>2
    <2> QED
      BY <2>16
  <1>10. CASE ~Opens(conn, kind)
    <2>1. owner' = owner /\ stdin' = Append(stdin, e)
      BY <1>2, <1>3, <1>10
    <2>2. SUFFICES \E x \in Scans(owner) :
                     /\ x.gen = Len(owner) /\ (x.phase = "open" <=> conn'.generation_open)
                     /\ Leads(owner, c, e, x)
      <3>1. PICK x \in Scans(owner) :
              /\ x.gen = Len(owner) /\ (x.phase = "open" <=> conn'.generation_open)
              /\ Leads(owner, c, e, x)
        BY <2>2
      <3>2. Conveys(owner, Append(stdin, e), m, x)
        BY <1>3, <1>6, <1>7, <3>1, ConveysAppend
      <3>3. LinedUp(h, m, x)'
        BY <1>3, <1>7, <1>8, <2>1, <3>1, <3>2
      <3> QED
        BY <3>3
    <2>3. CASE kind \in {"AddText", "InsertIndex"} /\ conn.generation_open
      <3>1. c.phase = "open" /\ owner[c.gen].utterance = u
        BY <1>1, <1>7, <2>3 DEF Sending
      <3>2. Leads(owner, c, e, c)
        BY <1>2, <1>5, <2>3, <3>1 DEF Leads
      <3>3. conn'.generation_open
        BY <1>3, <2>3
      <3> QED
        BY <1>7, <3>1, <3>2, <3>3
    <2>4. CASE kind \in {"AddText", "InsertIndex"} /\ ~conn.generation_open
      <3>1. conn.cancelled
        BY <1>10, <2>4 DEF Opens
      <3>2. c.gen = 0
        BY <1>7, <3>1 DEF Sending
      <3>3. Leads(owner, c, e, c)
        BY <1>2, <2>4, <3>2 DEF Leads
      <3> QED
        BY <1>3, <1>7, <1>10, <2>4, <3>3
    <2>5. CASE kind = "SetVoiceParam"
      <3>1. Leads(owner, c, e, c)
        BY <1>2, <2>5 DEF Leads
      <3>2. conn'.generation_open <=> conn.generation_open
        BY <1>3, <1>10, <2>5
      <3> QED
        BY <1>7, <3>1, <3>2
    <2>6. CASE kind = "Synthesize"
      <3>1. PICK x : x = [gen |-> c.gen, phase |-> "closed"]
        OBVIOUS
      <3>2. x \in Scans(owner)
        BY <1>6, <1>7, <3>1 DEF Scans
      <3>3. Leads(owner, c, e, x)
        BY <1>2, <2>6, <3>1 DEF Leads
      <3>4. ~conn'.generation_open /\ x.gen = Len(owner) /\ x.phase = "closed"
        BY <1>3, <1>7, <2>6, <3>1
      <3> QED
        BY <3>2, <3>3, <3>4
    <2> QED
      BY <1>5, <2>3, <2>4, <2>5, <2>6
  <1> QED
    BY <1>9, <1>10

\* The worker has sent the next command of its item.
LEMMA SynthGoesOn ==
  ASSUME HostPart, ClientPart, Sending, UtterancesEnd, SynthSends
  PROVE  Sending'
  <1>1. PICK kind, u : kind = Program[position].kind /\ u = current.utterance
    OBVIOUS
  <1>2. /\ conn'.generation_open <=>
              kind \notin {"Synthesize", "Stop"} /\ (conn.generation_open \/ Opens(conn, kind))
        /\ kind # "Stop" => conn'.cancelled = conn.cancelled
        /\ owner' = IF Opens(conn, kind) THEN Append(owner, current) ELSE owner
        /\ current' = current
        /\ cpc = "send" /\ cpc' \in {"check", "wait"} /\ position' = position + 1
    BY <1>1, SynthAppends
  <1>3. /\ kind \in {"AddText", "InsertIndex", "SetVoiceParam", "Synthesize"}
        /\ Program = Programs[u] /\ Len(Program) \in Nat /\ position \in Nat
        /\ kind # "Synthesize" => position + 1 <= Len(Program)
    BY <1>1, <1>2, UtteranceSteps
  <1>4. owner \in Seq(Items) /\ Len(owner) \in Nat /\ current \in Items
    BY OwnersTyped
  <1>5. conn'.cancelled => Len(owner') = 0
    <2> SUFFICES ASSUME conn'.cancelled PROVE Len(owner') = 0
      OBVIOUS
    <2>1. conn.cancelled
      <3>1. conn'.cancelled = conn.cancelled
        BY <1>2, <1>3
      <3> QED
        BY <3>1
    <2>2. ~Opens(conn, kind)
      BY <2>1 DEF Opens
    <2> QED
      BY <1>2, <2>1, <2>2 DEF Sending
  <1>6. conn'.generation_open => Len(owner') # 0 /\ owner'[Len(owner')] = current
    <2>1. CASE Opens(conn, kind)
      BY <1>2, <1>4, <2>1
    <2>2. CASE ~Opens(conn, kind)
      BY <1>2, <2>2 DEF Sending
    <2> QED
      BY <2>1, <2>2
  <1>7. position' > Len(Program') => ~conn'.generation_open
    <2>1. Program' = Program
      BY <1>2 DEF Program
    <2> QED
      BY <1>2, <1>3, <2>1
  <1> QED
    BY <1>2, <1>5, <1>6, <1>7 DEF Sending

\* The other steps of the client move nothing along the line: an item is left, and
\* another one prepared, only when its generation has been closed.
LEMMA ClientStaysOnLine ==
  ASSUME HostPart, ClientPart, Clean, NEW h, NEW m, NEW c, LinedUp(h, m, c), Sending,
         \/ ReceiverReads \/ ReceiverClears \/ ReceiverTags \/ Speak \/ Cancel \/ SynthGets
         \/ SynthPrepares \/ SynthChecks \/ SynthAnswered \/ SynthTimesOut
         \/ UNCHANGED pipelineVars
  PROVE  LinedUp(h, m, c)' /\ Sending'
  <1>1. UNCHANGED << stdin, work, rpc, tracker, wpc, owner >>
    BY DEF ReceiverReads, ReceiverClears, ReceiverTags, Speak, Cancel, SynthGets,
           SynthPrepares, SynthChecks, SynthAnswered, SynthTimesOut, pipelineVars, vars,
           clientVars, hostVars, readerVars, workerVars, engineVars, clientHistory
  <1>2. /\ conn'.generation_open <=> conn.generation_open
        /\ conn'.cancelled => conn.cancelled
    <2>1. conn \in Connections
      BY DEF ClientPart, PipelineTypeOK
    <2>2. CASE SynthPrepares
      <3>1. PICK p : p = Prepared(conn)
        OBVIOUS
      <3>2. p.generation_open = conn.generation_open /\ p.cancelled = FALSE
        BY <2>1, <3>1, Zenon DEF Prepared, Connections
      <3>3. conn' = p
        BY <2>2, <3>1 DEF SynthPrepares
      <3> QED
        BY <3>2, <3>3
    <2>3. CASE ReceiverClears
      <3>1. PICK p : p = Cleared(conn)
        OBVIOUS
      <3>2. p.generation_open = conn.generation_open /\ p.cancelled = conn.cancelled
        BY <2>1, <3>1, Zenon DEF Cleared, Connections
      <3>3. conn' = p
        BY <2>3, <3>1 DEF ReceiverClears
      <3> QED
        BY <3>2, <3>3
    <2>4. CASE conn' = conn
      BY <2>4
    <2> QED
      BY <2>2, <2>3, <2>4
         DEF ReceiverReads, ReceiverTags, Speak, Cancel, SynthGets, SynthChecks,
             SynthAnswered, SynthTimesOut, pipelineVars
  <1>3. CASE SynthGets \/ SynthPrepares
    <2>1. cpc \in {"get", "prepare"}
      BY <1>3 DEF SynthGets, SynthPrepares
    <2>2. ~conn.generation_open
      BY <2>1 DEF Sending
    <2>3. OpenAtHost' <=> OpenAtHost
      BY <1>1 DEF OpenAtHost
    <2> QED
      BY <1>1, <1>2, <2>2, <2>3 DEF LinedUp, Sending
  <1>4. CASE SynthChecks
    <2>1. cpc = "check" /\ UNCHANGED << position, current >>
          /\ cpc' = IF position > Len(Program) \/ Stale(current.seq) THEN "get" ELSE "send"
      BY <1>4 DEF SynthChecks
    <2>2. Stale(current.seq) => ~conn.generation_open
      <3> SUFFICES ASSUME Stale(current.seq), conn.generation_open PROVE FALSE
        OBVIOUS
      <3>1. Len(owner) # 0 /\ owner[Len(owner)] = current
        BY DEF Sending
      <3>2. current.seq < sequence /\ current.seq \in Nat /\ sequence \in Nat
            /\ sequence = cancels
        BY OwnersTyped DEF Stale, ClientPart, PipelineTypeOK, Threads
      <3> QED
        BY <3>1, <3>2 DEF Clean
    <2>3. cpc' = "get" => ~conn.generation_open
      BY <2>1, <2>2 DEF Sending
    <2>4. OpenAtHost' <=> OpenAtHost
      BY <1>1 DEF OpenAtHost
    <2>5. LinedUp(h, m, c)'
      BY <1>1, <1>2, <2>1, <2>4 DEF LinedUp
    <2>6. Sending'
      BY <1>1, <1>2, <2>1, <2>3 DEF Sending
    <2> QED
      BY <2>5, <2>6
  <1>5. CASE \/ ReceiverReads \/ ReceiverClears \/ ReceiverTags \/ Speak \/ Cancel
             \/ SynthAnswered \/ SynthTimesOut \/ UNCHANGED pipelineVars
    <2>1. /\ UNCHANGED << position, current >>
          /\ cpc' = cpc \/ (cpc = "wait" /\ cpc' = "check")
      BY <1>5
         DEF ReceiverReads, ReceiverClears, ReceiverTags, Speak, Cancel, SynthAnswered,
             SynthTimesOut, pipelineVars, synthVars
    <2>2. OpenAtHost' <=> OpenAtHost
      BY <1>1 DEF OpenAtHost
    <2>3. LinedUp(h, m, c)'
      BY <1>1, <1>2, <2>1, <2>2 DEF LinedUp
    <2>4. Program' = Program
      BY <2>1 DEF Program
    <2>5. Sending'
      BY <1>1, <1>2, <2>1, <2>4 DEF Sending
    <2> QED
      BY <2>3, <2>5
  <1> QED
    BY <1>3, <1>4, <1>5

-----------------------------------------------------------------------------
(* What is rendered stays rendered, and is what the client plays.          *)

\* The generations of the old owners are those of the new ones.
LEMMA RenderedStill ==
  ASSUME ClientPart, NEW new, new = owner \/ new = Append(owner, current)
  PROVE  /\ \A g, part : SpokenFor(owner, g, part) => SpokenFor(new, g, part)
         /\ \A report : Rendered(owner, report) => Rendered(new, report)
  <1>1. owner \in Seq(Items) /\ Len(owner) \in Nat /\ current \in Items
    BY OwnersTyped
  <1>2. \A g \in 1 .. Len(owner) : g \in 1 .. Len(new) /\ new[g] = owner[g]
    BY <1>1
  <1>3. ASSUME NEW g, NEW part, SpokenFor(owner, g, part)
        PROVE  SpokenFor(new, g, part)
    BY <1>2, <1>3 DEF SpokenFor
  <1>4. ASSUME NEW report, Rendered(owner, report)
        PROVE  Rendered(new, report)
    BY <1>2, <1>4 DEF Rendered
  <1> QED
    BY <1>3, <1>4

LEMMA ClientKeepsRunning ==
  ASSUME ClientPart, Running, EciRenders, ReportsRendered, UNCHANGED hostVars,
         owner' = owner \/ owner' = Append(owner, current)
  PROVE  Running' /\ EciRenders' /\ ReportsRendered'
  <1>1. UNCHANGED << rpc, wpc, item, engine, forwarder, cancellation_requested, tracker,
                     eciInput, eciSpeaking, callback, outgoing, emitted >>
    BY DEF hostVars, readerVars, workerVars, engineVars, eciVars, eventVars
  <1>2. PICK new : new = owner'
    OBVIOUS
  <1>3. /\ \A g, part : SpokenFor(owner, g, part) => SpokenFor(new, g, part)
        /\ \A report : Rendered(owner, report) => Rendered(new, report)
    BY <1>2, RenderedStill
  <1>4. Running'
    <2>1. OpenAtHost' <=> OpenAtHost
      BY <1>1 DEF OpenAtHost
    <2>2. IsActive(tracker') <=> IsActive(tracker)
      BY <1>1
    <2> QED
      BY <1>1, <2>1, <2>2 DEF Running
  <1>5. EciRenders'
    BY <1>1, <1>2, <1>3 DEF EciRenders
  <1>6. ReportsRendered'
    BY <1>1, <1>2, <1>3 DEF ReportsRendered
  <1> QED
    BY <1>4, <1>5, <1>6

\* What is heard of the progress has been reported.
LEMMA HeardEmitted ==
  ASSUME HostPart, NEW j \in 1 .. Len(heard), IsProgress(heard[j])
  PROVE  \E b \in 1 .. Len(emitted) : emitted[b] = heard[j]
  <1>1. PICK p, rest :
          /\ p = ProgressIn(heard)
          /\ rest = ProgressIn(stdout) ++ (ProgressIn(outbound)
                      ++ (ProgressIn(forwarding) ++ ProgressIn(events)))
    OBVIOUS
  <1>2. p \in Seq(Frames) /\ rest \in Seq(Frames) /\ heard \in Seq(Frames)
    <2>1. ProgressIn(forwarding) ++ ProgressIn(events) \in Seq(Frames)
      BY LineTypes, FramesConcat DEF HostPart
    <2>2. ProgressIn(outbound) ++ (ProgressIn(forwarding) ++ ProgressIn(events)) \in Seq(Frames)
      BY <2>1, LineTypes, FramesConcat DEF HostPart
    <2> QED
      BY <1>1, <2>2, LineTypes, FramesConcat DEF HostPart
  <1>3. emitted = p \o rest
    BY <1>1 DEF HostPart, LineRetained, Line, ++
  <1>4. \A a \in 1 .. Len(p) : a \in 1 .. Len(emitted) /\ emitted[a] = p[a]
    BY <1>2, <1>3
  <1>5. PICK b \in 1 .. Len(p) : p[b] = heard[j]
    BY <1>1, <1>2, ProgressPlaces
  <1> QED
    BY <1>4, <1>5

\* The chunk the receiver queues is a report it has heard.
LEMMA StepChunks ==
  ASSUME HostPart, ClientPart, HeardBefore, ReportsRendered, ChunksRendered,
         [PipelineNext]_pipelineVars
  PROVE  ChunksRendered'
  <1>1. CASE ReceiverTags
    <2>1. PICK new : /\ audioQueue' = Append(audioQueue, new)
                     /\ new.gen = message.gen /\ new.kind = message.kind
                     /\ new.value = message.value
      BY <1>1 DEF ReceiverTags
    <2>2. /\ rcpc = "tag" /\ owner' = owner /\ audioQueue \in Seq(Chunks)
      BY <1>1 DEF ReceiverTags, clientHistory, ClientPart, PipelineTypeOK
    <2>3. PICK n : n = Len(heard)
      OBVIOUS
    <2>4. message = heard[n] /\ IsProgress(message) /\ n \in 1 .. n
      <3>1. heard \in Seq(Frames) /\ heard # << >>
        BY <2>2 DEF HeardBefore, HostPart, TypeOK, HistoryTypeOK
      <3> QED
        BY <2>2, <2>3, <3>1 DEF HeardBefore
    <2>5. PICK b \in 1 .. Len(emitted) : emitted[b] = message
      BY <2>3, <2>4, HeardEmitted
    <2>6. Rendered(owner, message)
      BY <2>5 DEF ReportsRendered
    <2>7. Rendered(owner, new)
      BY <2>1, <2>6 DEF Rendered
    <2>8. \A k \in 1 .. Len(audioQueue') :
            \/ audioQueue'[k] = new
            \/ k \in 1 .. Len(audioQueue) /\ audioQueue'[k] = audioQueue[k]
      BY <2>1, <2>2, AppendPlaces
    <2> QED
      BY <2>2, <2>7, <2>8 DEF ChunksRendered
  <1>2. CASE ~ReceiverTags
    <2>1. audioQueue' = audioQueue
      BY <1>2, OthersHearNothing DEF ReceiverReads, ReceiverClears
    <2>2. owner' = owner \/ owner' = Append(owner, current)
      BY PipelineSteps
         DEF HostStep, SendStop, SynthSends, ReceiverReads, ReceiverClears, ReceiverTags,
             Speak, Cancel, SynthGets, SynthPrepares, SynthChecks, SynthAnswered,
             SynthTimesOut, pipelineVars, clientHistory
    <2>3. PICK new : new = owner'
      OBVIOUS
    <2>4. \A report : Rendered(owner, report) => Rendered(new, report)
      BY <2>2, <2>3, RenderedStill
    <2> QED
      BY <2>1, <2>3, <2>4 DEF ChunksRendered
  <1> QED
    BY <1>1, <1>2

-----------------------------------------------------------------------------
(* A step of a client and a host that nothing has come between.            *)

OnLine(h, m, c) == LinedUp(h, m, c) /\ Sending /\ Running /\ EciRenders /\ ReportsRendered

HostCommands ==
  \/ WorkerBegins \/ WorkerHasNoGeneration \/ WorkerAddsText
  \/ WorkerInsertsIndex \/ WorkerSetsVoiceParam \/ WorkerSynthesizes

\* The worker is at x after a step; it moves when it takes a command.
Moves(h, x) ==
  IF HostStep /\ HostCommands THEN Leads(owner, h, Head(work), x) ELSE x = h

CleanInv == Clean => (\E h, m, c : OnLine(h, m, c)) /\ ChunksRendered

LEMMA StepOnLine ==
  ASSUME HostPart, ClientPart, Dated, UtterancesEnd, EciResults = {TRUE},
         [PipelineNext]_pipelineVars, Clean', NEW h, NEW m, NEW c, OnLine(h, m, c)
  PROVE  \E x, y, z : OnLine(x, y, z)' /\ Moves(h, x)
  <1>1. /\ LinedUp(h, m, c) /\ Sending /\ Running /\ EciRenders /\ ReportsRendered
        /\ Clean
    BY CleanBefore DEF OnLine
  <1>2. CASE HostStep
    <2>1. Host /\ UNCHANGED HostsPartOfLine /\ Sending'
      <3>1. UNCHANGED << owner, conn, position, cpc, current >> /\ Host
        BY <1>2 DEF HostStep, synthVars, clientHistory
      <3>2. Program' = Program
        BY <3>1 DEF Program
      <3> QED
        BY <1>1, <3>1, <3>2 DEF Sending, HostsPartOfLine
    <2>2. CASE HostCommands
      <3>1. PICK x : Leads(owner, h, Head(work), x) /\ LinedUp(x, m, c)'
        BY <1>1, <2>1, <2>2, WorkerOnLine DEF HostCommands
      <3>2. Running' /\ EciRenders' /\ ReportsRendered'
        BY <1>1, <2>1, <2>2, WorkerKeepsRunning DEF HostCommands
      <3> QED
        BY <1>2, <2>1, <2>2, <3>1, <3>2 DEF OnLine, Moves
    <2>3. CASE ~HostCommands /\ (ReaderStop \/ ReaderQueues)
      <3>1. PICK x : LinedUp(h, x, c)'
        BY <1>1, <2>1, <2>3, ReaderOnLine
      <3>2. Running' /\ EciRenders' /\ ReportsRendered'
        BY <1>1, <2>1, <2>3, ReaderKeepsRunning
      <3> QED
        BY <2>3, <2>1, <3>1, <3>2 DEF OnLine, Moves
    <2>4. CASE ~HostCommands /\ (ReaderLoadsHandle \/ ReaderCallsEciStop \/ ReaderReplies)
      <3>1. LinedUp(h, m, c)'
        BY <1>1, <2>1, <2>4, HostStaysOnLine
      <3>2. Running' /\ EciRenders' /\ ReportsRendered'
        BY <1>1, <2>1, <2>4, ReaderKeepsRunning
      <3> QED
        BY <2>4, <2>1, <3>1, <3>2 DEF OnLine, Moves
    <2>5. CASE /\ ~HostCommands
               /\ \/ EciCallback \/ EciSwallowsIndexes \/ HandleAudioCallback
                  \/ HandleIndexCallback \/ WorkerTriesSend \/ CallbackReturns
                  \/ EciSynchronized \/ WorkerFinishes \/ WorkerEndsSynthesis
                  \/ WorkerResponds \/ ForwarderReceives \/ ForwarderSends \/ WriterWrites
      <3>1. LinedUp(h, m, c)'
        BY <1>1, <2>1, <2>5, HostStaysOnLine
      <3>2. Running' /\ EciRenders' /\ ReportsRendered'
        BY <1>1, <2>1, <2>5, EngineKeepsRunning
      <3> QED
        BY <2>5, <2>1, <3>1, <3>2 DEF OnLine, Moves
    <2> QED
      BY <1>1, <2>1, <2>2, <2>3, <2>4, <2>5, RunningSteps DEF HostCommands
  <1>3. CASE ~HostStep /\ SynthSends
    <2>1. PICK x : LinedUp(h, m, x)'
      BY <1>1, <1>3, SynthOnLine
    <2>2. Sending'
      BY <1>1, <1>3, SynthGoesOn
    <2>3. UNCHANGED hostVars /\ (owner' = owner \/ owner' = Append(owner, current))
      BY <1>3 DEF SynthSends, Sends
    <2>4. Running' /\ EciRenders' /\ ReportsRendered'
      BY <1>1, <2>3, ClientKeepsRunning
    <2> QED
      BY <1>3, <2>1, <2>2, <2>4 DEF OnLine, Moves
  <1>4. CASE ~HostStep /\ SendStop
    <2>1. LinedUp(h, m, c)' /\ Sending'
      BY <1>1, <1>4, StopOnLine
    <2>2. UNCHANGED hostVars /\ owner' = owner
      BY <1>4 DEF SendStop, Sends
    <2>3. Running' /\ EciRenders' /\ ReportsRendered'
      BY <1>1, <2>2, ClientKeepsRunning
    <2> QED
      BY <1>4, <2>1, <2>3 DEF OnLine, Moves
  <1>5. CASE /\ ~HostStep
             /\ \/ ReceiverReads \/ ReceiverClears \/ ReceiverTags \/ Speak \/ Cancel
                \/ SynthGets \/ SynthPrepares \/ SynthChecks \/ SynthAnswered
                \/ SynthTimesOut \/ UNCHANGED pipelineVars
    <2>1. LinedUp(h, m, c)' /\ Sending'
      BY <1>1, <1>5, ClientStaysOnLine
    <2>2. UNCHANGED hostVars /\ owner' = owner
      BY <1>5
         DEF ReceiverReads, ReceiverClears, ReceiverTags, Speak, Cancel, SynthGets,
             SynthPrepares, SynthChecks, SynthAnswered, SynthTimesOut, pipelineVars, vars,
             hostVars, clientHistory
    <2>3. Running' /\ EciRenders' /\ ReportsRendered'
      BY <1>1, <2>2, ClientKeepsRunning
    <2> QED
      BY <1>5, <2>1, <2>3 DEF OnLine, Moves
  <1> QED
    BY <1>2, <1>3, <1>4, <1>5, PipelineSteps

LEMMA StepClean ==
  ASSUME PipelineInv, Dated, CleanInv, UtterancesEnd, EciResults = {TRUE},
         [PipelineNext]_pipelineVars
  PROVE  CleanInv'
  <1> SUFFICES ASSUME Clean' PROVE (\E h, m, c : OnLine(h, m, c)') /\ ChunksRendered'
    BY DEF CleanInv
  <1>1. HostPart /\ ClientPart /\ HeardBefore
    BY DEF PipelineInv
  <1>2. Clean
    BY <1>1, CleanBefore
  <1>3. PICK h, m, c : OnLine(h, m, c)
    BY <1>2 DEF CleanInv
  <1>4. \E x, y, z : OnLine(x, y, z)'
    BY <1>1, <1>3, StepOnLine
  <1>5. ChunksRendered'
    BY <1>1, <1>2, <1>3, StepChunks DEF CleanInv, OnLine
  <1> QED
    BY <1>4, <1>5

LEMMA InitClean == PipelineInit => Dated /\ CleanInv
  <1> SUFFICES ASSUME PipelineInit PROVE Dated /\ CleanInv
    OBVIOUS
  <1> DEFINE last == Command("Initialize", 1, 0)
  <1>1. HostAtRest(last, "live", 1) /\ last.kind # "Delete"
    BY DEF PipelineInit, ReadyInit, Command
  <1> HIDE DEF last
  <1>2. /\ cpc = "get" /\ conn = NewConnection /\ audioQueue = << >> /\ owner = << >>
        /\ Len(owner) = 0
    BY DEF PipelineInit
  <1>3. /\ stdin = << >> /\ rpc = "read" /\ work = << >> /\ wpc = "recv" /\ item = last
        /\ outgoing = << >> /\ engine = "live" /\ ~cancellation_requested
        /\ tracker = DefaultTracker /\ eciInput = << >> /\ eciSpeaking = << >>
        /\ forwarder /\ emitted = << >>
    BY <1>1, Zenon DEF HostAtRest
  <1>4. tracker.generation = 0 /\ ~IsActive(tracker)
    BY <1>3 DEF DefaultTracker, IsActive, ActiveGeneration, NoGeneration
  <1>5. ~conn.generation_open /\ ~conn.cancelled
    BY <1>2, Zenon DEF NewConnection
  <1>6. PICK a : a = [gen |-> 0, phase |-> "closed"]
    OBVIOUS
  <1>7. a \in Scans(owner)
    BY <1>2, <1>6 DEF Scans
  <1>8. LinedUp(a, a, a)
    <2>1. Conveys(owner, << >>, a, a)
      BY <1>2, <1>7, ConveysNothing
    <2> QED
      BY <1>2, <1>3, <1>4, <1>5, <1>6, <1>7, <2>1 DEF LinedUp, OpenAtHost
  <1>9. Sending
    BY <1>2, <1>5 DEF Sending
  <1>10. Running
    BY <1>1, <1>3, <1>4 DEF Running
  <1>11. EciRenders /\ ReportsRendered /\ ChunksRendered
    BY <1>2, <1>3 DEF EciRenders, ReportsRendered, ChunksRendered
  <1>12. Dated
    BY <1>2 DEF Dated
  <1> QED
    BY <1>8, <1>9, <1>10, <1>11, <1>12 DEF OnLine, CleanInv

\* As long as nothing is cancelled, the audio of a generation renders the text of the
\* utterance it was begun for: even when a response comes late, and the next
\* utterance is sent while the host still speaks the last.
THEOREM SpeaksItsOwnText ==
  ASSUME UtterancesEnd, EciResults = {TRUE}
  PROVE  PipelineSpec => []OwnTextWithoutCancel
  <1>1. PipelineInv /\ Dated /\ [PipelineNext]_pipelineVars => Dated'
    BY StepDated DEF PipelineInv
  <1>2. PipelineInv /\ Dated /\ CleanInv /\ [PipelineNext]_pipelineVars => CleanInv'
    BY StepClean
  <1>3. PipelineInv /\ CleanInv => OwnTextWithoutCancel
    <2> SUFFICES ASSUME PipelineInv, CleanInv, cancels = 0,
                        NEW k \in DOMAIN audioQueue, audioQueue[k].kind = "Audio"
                 PROVE  audioQueue[k].value = owner[audioQueue[k].gen].utterance
      BY DEF OwnTextWithoutCancel, OwnTextOnly
    <2>1. audioQueue \in Seq(Chunks)
      BY DEF PipelineInv, ClientPart, PipelineTypeOK
    <2>2. k \in 1 .. Len(audioQueue) /\ ChunksRendered
      BY <2>1 DEF CleanInv, Clean
    <2> QED
      BY <2>2 DEF ChunksRendered, Rendered
  <1> QED
    BY <1>1, <1>2, <1>3, InitClean, PipelineKept, PTL DEF PipelineSpec

-----------------------------------------------------------------------------
(* What a single generation makes the engine report.                       *)

\* A report of the first generation that is no end by Stop.
Sound(report) == report.kind \in {"Audio", "Index", "Done"} /\ report.gen = 1
DoneIn(reports) == \E k \in 1 .. Len(reports) : reports[k].kind = "Done"

\* Done is among the reports once the tracker is done, unless one was refused.
Reporting ==
  /\ \A k \in 1 .. Len(outgoing) : Sound(outgoing[k])
  /\ \A k \in 1 .. Len(emitted) : Sound(emitted[k])
  /\ outgoing = << >> \/ wpc \in {"callbackSend", "finalSend"}
  /\ tracker.generation = 0 => emitted = << >>
  /\ tracker.generation # 0 /\ tracker.done /\ ~latest.lost
       => DoneIn(emitted) \/ DoneIn(outgoing)

\* What a completion and an index callback make of a tracker of the first generation.
LEMMA CompletionMade ==
  ASSUME NEW t \in Trackers, t.generation = 1, NEW s, s = CompletionEvents(t)
  PROVE  /\ \A k \in 1 .. Len(s) : Sound(s[k])
         /\ IsActive(t) => DoneIn(s)
         /\ ~IsActive(t) => s = << >> /\ Complete(t) = t
  <1>1. CASE IsActive(t)
    <2>1. PICK d, i : /\ d = DoneEvent(1)
                      /\ i = IndexEvent(1, t.pending_indexes[Len(t.pending_indexes)], TRUE)
      OBVIOUS
    <2>2. Sound(d) /\ Sound(i) /\ d.kind = "Done"
      BY <2>1 DEF Sound, DoneEvent, IndexEvent
    <2>3. s = RecoveredIndex(t) \o << d >>
          /\ RecoveredIndex(t) = IF t.pending_indexes = << >> THEN << >> ELSE << i >>
      BY <1>1, <2>1 DEF CompletionEvents, RecoveredIndex
    <2>4. s = IF t.pending_indexes = << >> THEN << d >> ELSE << i, d >>
      BY <2>3, ShortConcat
    <2>5. /\ \A k \in 1 .. Len(s) : s[k] \in {d, i}
          /\ s[Len(s)] = d /\ Len(s) \in 1 .. Len(s)
      BY <2>4
    <2> QED
      BY <1>1, <2>2, <2>5 DEF DoneIn
  <1>2. CASE ~IsActive(t)
    BY <1>2 DEF CompletionEvents, Complete
  <1> QED
    BY <1>1, <1>2

LEMMA IndexMade ==
  ASSUME NEW t \in Trackers, t.generation = 1, NEW n, NEW s, s = EngineIndexEvents(t, n)
  PROVE  \A k \in 1 .. Len(s) : Sound(s[k])
  <1>1. PICK i : i = IndexEvent(1, n, FALSE)
    OBVIOUS
  <1>2. Sound(i)
    BY <1>1 DEF Sound, IndexEvent
  <1>3. s = << >> \/ s = << i >>
    BY <1>1 DEF EngineIndexEvents
  <1> QED
    BY <1>2, <1>3

\* What is gathered is among the frames.
LEMMA FromProgress ==
  ASSUME NEW S, NEW s \in Seq(S)
  PROVE  \A a \in 1 .. Len(ProgressIn(s)) : \E i \in 1 .. Len(s) : ProgressIn(s)[a] = s[i]
  <1> DEFINE T == {s[i] : i \in 1 .. Len(s)}
  <1>1. s \in Seq(T)
    OBVIOUS
  <1>2. T = {s[i] : i \in 1 .. Len(s)}
    OBVIOUS
  <1> HIDE DEF T
  <1>3. PICK p : p = ProgressIn(s)
    OBVIOUS
  <1>4. p \in Seq(T)
    BY <1>1, <1>3, ProgressType
  <1>5. \A a \in 1 .. Len(p) : p[a] \in T
    BY <1>4
  <1> QED
    BY <1>2, <1>3, <1>5

\* The worker takes a command: what it has reported stands.
LEMMA CommandReports ==
  ASSUME HostPart, Running, NEW h, NEW m, NEW c, NEW x, LinedUp(h, m, c),
         Leads(owner, h, Head(work), x), x.gen <= 1,
         HostCommands, Reporting
  PROVE  Reporting'
  <1>1. /\ wpc = "recv" /\ UNCHANGED << outgoing, emitted >>
        /\ latest' = latest \/ WorkerBegins \/ WorkerInsertsIndex
    BY DEF HostCommands, WorkerBegins, WorkerHasNoGeneration, WorkerAddsText,
           WorkerInsertsIndex, WorkerSetsVoiceParam, WorkerSynthesizes, WorkerTakes,
           eventVars, historyVars
  <1>2. tracker \in Trackers /\ latest \in [gen : Nat, index : Nat, lost : BOOLEAN]
    BY DEF HostPart, TypeOK, EngineTypeOK, HistoryTypeOK
  <1>3. outgoing = << >> /\ outgoing' = << >>
    BY <1>1 DEF Reporting
  <1>4. CASE WorkerBegins
    <2>1. PICK u, g : /\ tracker' = u /\ u = BeginGeneration(g) /\ g = Head(work).arg
                      /\ Head(work).kind = "BeginGeneration"
      BY <1>4 DEF WorkerBegins, WorkerTakes
    <2>2. ~u.done /\ u.generation = g
      BY <2>1, ActiveTracker
    <2>3. g = tracker.generation + 1 /\ tracker.generation \in Nat
      BY <1>2, <2>1 DEF Leads, LinedUp, Trackers
    <2>4. g # 0
      BY <2>3
    <2> QED
      BY <1>1, <1>3, <2>1, <2>2, <2>4 DEF Reporting
  <1>5. CASE ~WorkerBegins
    <2>1. tracker'.generation = tracker.generation /\ tracker'.done = tracker.done
      <3>1. tracker' = tracker \/ \E n : tracker' = TrackIndex(tracker, n)
        BY <1>5 DEF HostCommands, WorkerHasNoGeneration, WorkerAddsText,
                    WorkerInsertsIndex, WorkerSetsVoiceParam, WorkerSynthesizes, engineVars
      <3> QED
        BY <1>2, <3>1, ActiveTracker
    <2>2. latest'.lost = latest.lost
      <3>1. CASE latest' = latest
        BY <3>1
      <3>2. CASE WorkerInsertsIndex
        <4>1. \/ latest' = latest
              \/ \E n : latest' = [latest EXCEPT !.index = n]
          BY <3>2 DEF WorkerInsertsIndex
        <4> QED
          BY <1>2, <4>1
      <3> QED
        BY <1>1, <1>5, <3>1, <3>2
    <2> QED
      BY <1>1, <1>3, <2>1, <2>2 DEF Reporting
  <1> QED
    BY <1>4, <1>5

\* What ECI calls back is reported, or refused.
LEMMA HostReports ==
  ASSUME HostPart, ClientPart, Running, Len(owner) <= 1,
         NEW h, NEW m, NEW c, LinedUp(h, m, c), Reporting,
         \/ ReaderStop \/ ReaderQueues \/ ReaderLoadsHandle \/ ReaderCallsEciStop
         \/ ReaderReplies
         \/ EciCallback \/ EciSwallowsIndexes \/ HandleAudioCallback
         \/ HandleIndexCallback \/ WorkerTriesSend \/ CallbackReturns
         \/ EciSynchronized \/ WorkerFinishes \/ WorkerEndsSynthesis \/ WorkerResponds
         \/ ForwarderReceives \/ ForwarderSends \/ WriterWrites
  PROVE  Reporting'
  <1>1. /\ tracker \in Trackers /\ tracker.generation \in {0, 1}
        /\ latest \in [gen : Nat, index : Nat, lost : BOOLEAN]
    <2>1. Len(owner) \in Nat /\ h \in Scans(owner) /\ h.gen = tracker.generation
      BY DEF LinedUp, ClientPart, PipelineTypeOK
    <2>2. tracker \in Trackers /\ latest \in [gen : Nat, index : Nat, lost : BOOLEAN]
      BY DEF HostPart, TypeOK, EngineTypeOK, HistoryTypeOK
    <2>3. PICK g, n : g = h.gen /\ n = Len(owner)
      OBVIOUS
    <2>4. g \in Nat /\ n \in Nat /\ g <= n /\ n <= 1
      BY <2>1, <2>3, ScanFields
    <2>5. g = 0 \/ g = 1
      BY <2>4
    <2> QED
      BY <2>1, <2>2, <2>3, <2>5
  <1>2. wpc \notin {"recv", "respond"} => tracker.generation = 1 /\ ~cancellation_requested
    BY <1>1 DEF Running
  <1>3. CASE \/ ReaderStop \/ ReaderQueues \/ ReaderLoadsHandle \/ ReaderCallsEciStop
             \/ ReaderReplies \/ ForwarderReceives \/ ForwarderSends \/ WriterWrites
    <2>1. UNCHANGED << outgoing, emitted, tracker, wpc, latest >>
      BY <1>3 DEF ReaderStop, ReaderQueues, ReaderLoadsHandle, ReaderCallsEciStop,
                  ReaderReplies, ForwarderReceives, ForwarderSends, WriterWrites,
                  workerVars, engineVars, eventVars, historyVars
    <2> QED
      BY <2>1 DEF Reporting
  <1>4. CASE \/ EciCallback \/ EciSwallowsIndexes \/ CallbackReturns \/ EciSynchronized
             \/ WorkerEndsSynthesis \/ WorkerResponds
    <2>1. /\ UNCHANGED << outgoing, emitted, tracker, latest >>
          /\ outgoing = << >> \/ wpc \notin {"callbackSend", "finalSend"}
      BY <1>4 DEF EciCallback, CallbackAborts, EciSwallowsIndexes, CallbackReturns,
                  EciSynchronized, WorkerEndsSynthesis, WorkerResponds, WorkerAnswers,
                  workerVars, engineVars, eventVars, historyVars
    <2>2. outgoing = << >> /\ outgoing' = << >>
      BY <2>1 DEF Reporting
    <2> QED
      BY <2>1, <2>2 DEF Reporting
  <1>5. ASSUME /\ wpc \in {"callback", "finish"} /\ wpc' \in {"callbackSend", "finalSend"}
               /\ UNCHANGED << emitted, latest >>
               /\ tracker'.generation = tracker.generation
               /\ \A k \in 1 .. Len(outgoing') : Sound(outgoing'[k])
               /\ tracker'.done = tracker.done \/ DoneIn(outgoing')
        PROVE  Reporting'
    <2>1. outgoing = << >> /\ Len(<< >>) = 0
      BY <1>5 DEF Reporting
    <2>2. ~DoneIn(outgoing)
      BY <2>1 DEF DoneIn
    <2> QED
      BY <1>5, <2>2 DEF Reporting
  <1>6. ASSUME /\ wpc \in {"callback", "finish"} /\ wpc' \in {"callbackSend", "finalSend"}
               /\ UNCHANGED << emitted, latest >>
               /\ outgoing' = CompletionEvents(tracker) /\ tracker' = Complete(tracker)
        PROVE  Reporting'
    <2>1. PICK s, u : s = CompletionEvents(tracker) /\ u = Complete(tracker)
      OBVIOUS
    <2>2. tracker.generation = 1
      BY <1>2, <1>6
    <2>3. /\ \A k \in 1 .. Len(s) : Sound(s[k])
          /\ DoneIn(s) \/ u = tracker
      BY <1>1, <2>1, <2>2, CompletionMade
    <2>4. u.generation = tracker.generation
      BY <1>1, <2>1, ActiveTracker
    <2>5. outgoing' = s /\ tracker' = u
      BY <1>6, <2>1
    <2> QED
      BY <1>5, <1>6, <2>3, <2>4, <2>5
  <1>7. CASE HandleAudioCallback
    <2>1. /\ wpc = "callback" /\ wpc' = "callbackSend"
          /\ UNCHANGED << emitted, tracker, latest >>
          /\ outgoing' = << >> \/ outgoing' = << AudioEvent(tracker.generation, callback.value) >>
      BY <1>7 DEF HandleAudioCallback, engineVars, eventVars, historyVars
    <2>2. PICK e : e = AudioEvent(tracker.generation, callback.value)
      OBVIOUS
    <2>3. Sound(e)
      BY <1>2, <2>1, <2>2 DEF Sound, AudioEvent
    <2>4. \A k \in 1 .. Len(outgoing') : Sound(outgoing'[k])
      BY <2>1, <2>2, <2>3
    <2> QED
      BY <1>5, <2>1, <2>4
  <1>8. CASE HandleIndexCallback
    <2>1. /\ wpc = "callback" /\ wpc' = "callbackSend"
          /\ UNCHANGED << emitted, latest >>
          /\ \/ outgoing' = CompletionEvents(tracker) /\ tracker' = Complete(tracker)
             \/ /\ outgoing' = EngineIndexEvents(tracker, callback.value)
                /\ tracker' = EngineIndex(tracker, callback.value)
      BY <1>8 DEF HandleIndexCallback, eventVars, historyVars
    <2>2. CASE outgoing' = CompletionEvents(tracker) /\ tracker' = Complete(tracker)
      BY <1>6, <2>1, <2>2
    <2>3. CASE /\ outgoing' = EngineIndexEvents(tracker, callback.value)
               /\ tracker' = EngineIndex(tracker, callback.value)
      <3>1. PICK s, u, n : n = callback.value /\ s = EngineIndexEvents(tracker, n)
                           /\ u = EngineIndex(tracker, n)
        OBVIOUS
      <3>2. tracker.generation = 1
        BY <1>2, <2>1
      <3>3. \A k \in 1 .. Len(s) : Sound(s[k])
        BY <1>1, <3>1, <3>2, IndexMade
      <3>4. u.generation = tracker.generation /\ u.done = tracker.done
        BY <1>1, <3>1, ActiveTracker
      <3>5. outgoing' = s /\ tracker' = u
        BY <2>3, <3>1
      <3> QED
        BY <1>5, <2>1, <3>3, <3>4, <3>5
    <2> QED
      BY <2>1, <2>2, <2>3
  <1>9. CASE WorkerFinishes
    <2>1. /\ wpc = "finish" /\ wpc' = "finalSend"
          /\ UNCHANGED << emitted, latest >>
          /\ IF cancellation_requested THEN TRUE
             ELSE outgoing' = CompletionEvents(tracker) /\ tracker' = Complete(tracker)
      BY <1>9 DEF WorkerFinishes, eventVars, historyVars
    <2> QED
      BY <1>2, <1>6, <2>1
  <1>10. CASE WorkerTriesSend /\ ~Accepts
    <2>1. /\ UNCHANGED << tracker, emitted >> /\ outgoing' = << >>
          /\ latest' = [latest EXCEPT !.lost = TRUE]
      BY <1>10 DEF WorkerTriesSend, engineVars
    <2>2. latest'.lost
      BY <1>1, <2>1
    <2>3. Len(<< >>) = 0
      OBVIOUS
    <2> QED
      BY <2>1, <2>2, <2>3 DEF Reporting
  <1>11. CASE WorkerTriesSend /\ Accepts
    <2>1. /\ wpc \in {"callbackSend", "finalSend"} /\ outgoing # << >>
          /\ UNCHANGED << wpc, tracker, latest >>
      BY <1>11 DEF WorkerTriesSend, engineVars
    <2>2. tracker.generation = 1
      BY <1>2, <2>1
    <2>3. PICK e : e = Head(outgoing)
      OBVIOUS
    <2>4. /\ outgoing \in Seq(EngineEvents) /\ emitted \in Seq(EngineEvents)
      BY DEF HostPart, TypeOK, WorkerTypeOK, HistoryTypeOK
    <2>5. /\ 1 \in 1 .. Len(outgoing) /\ e = outgoing[1] /\ e \in EngineEvents
          /\ \A k \in 1 .. Len(Tail(outgoing)) :
               k + 1 \in 1 .. Len(outgoing) /\ Tail(outgoing)[k] = outgoing[k + 1]
      BY <2>1, <2>3, <2>4, TailPlaces, HeadAndTail
    <2>6. Sound(e)
      BY <2>5 DEF Reporting
    <2>7. IsProgress(e)
      BY <2>6 DEF Sound, IsProgress, ProgressKinds
    <2>8. emitted' = Append(emitted, e) /\ outgoing' = Tail(outgoing)
      BY <1>11, <2>3, <2>7 DEF WorkerTriesSend
    <2>9. Len(outgoing') = Len(outgoing) - 1 /\ Len(outgoing) \in Nat
      BY <2>1, <2>4, <2>5, <2>8, ChannelLengths
    <2>10. /\ \A k \in 1 .. Len(emitted') :
                \/ emitted'[k] = e
                \/ k \in 1 .. Len(emitted) /\ emitted'[k] = emitted[k]
           /\ \A k \in 1 .. Len(emitted) :
                k \in 1 .. Len(emitted') /\ emitted'[k] = emitted[k]
           /\ Len(emitted') \in 1 .. Len(emitted') /\ emitted'[Len(emitted')] = e
      <3>1. /\ \A k \in 1 .. Len(emitted') :
                \/ emitted'[k] = e
                \/ k \in 1 .. Len(emitted) /\ emitted'[k] = emitted[k]
        BY <2>4, <2>8, AppendPlaces
      <3>2. /\ \A k \in 1 .. Len(emitted) :
                k \in 1 .. Len(emitted') /\ emitted'[k] = emitted[k]
            /\ Len(emitted') \in 1 .. Len(emitted') /\ emitted'[Len(emitted')] = e
        BY <2>4, <2>5, <2>8
      <3> QED
        BY <3>1, <3>2
    <2>11. DoneIn(outgoing) => DoneIn(emitted') \/ DoneIn(outgoing')
      <3> SUFFICES ASSUME NEW k \in 1 .. Len(outgoing), outgoing[k].kind = "Done"
                   PROVE  DoneIn(emitted') \/ DoneIn(outgoing')
        BY DEF DoneIn
      <3>1. CASE k = 1
        BY <2>5, <2>10, <3>1 DEF DoneIn
      <3>2. CASE k # 1
        <4>1. k - 1 \in 1 .. Len(outgoing') /\ (k - 1) + 1 = k
          BY <2>9, <3>2
        <4>2. outgoing'[k - 1] = outgoing[k]
          BY <2>5, <2>8, <4>1
        <4> QED
          BY <4>1, <4>2 DEF DoneIn
      <3> QED
        BY <3>1, <3>2
    <2>12. DoneIn(emitted) => DoneIn(emitted')
      BY <2>10 DEF DoneIn
    <2>13. /\ \A k \in 1 .. Len(outgoing') : Sound(outgoing'[k])
           /\ \A k \in 1 .. Len(emitted') : Sound(emitted'[k])
      BY <2>5, <2>6, <2>8, <2>10 DEF Reporting
    <2> QED
      BY <2>1, <2>2, <2>11, <2>12, <2>13 DEF Reporting
  <1> QED
    BY <1>3, <1>4, <1>7, <1>8, <1>9, <1>10, <1>11

-----------------------------------------------------------------------------
(* The completion of a single generation is on its way, or has come.       *)

\* What the client has heard of the progress has been reported.
HeardReported ==
  \A j \in 1 .. Len(heard) : IsProgress(heard[j]) =>
    \E b \in 1 .. Len(emitted) : emitted[b] = heard[j]

\* The client waits for Done, takes it, or has put it on the audio queue.
Awaits == conn.active_generation = 1 /\ \A i \in 1 .. Len(heard) : heard[i].kind # "Done"
Takes == rcpc \in {"clear", "tag"} /\ message.kind = "Done" /\ message.gen = 1
Receiving == Len(owner) = 1 => Awaits \/ Takes \/ Completed(1)

LEMMA StepReceiving ==
  ASSUME HostPart, HeardReported, HeardReported', ClientPart, HeardBefore,
         Dated, UtterancesEnd, [PipelineNext]_pipelineVars, Clean', Len(owner') <= 1,
         NEW h, NEW m, NEW c, LinedUp(h, m, c), Reporting, Receiving
  PROVE  Receiving'
  <1> SUFFICES ASSUME Len(owner') = 1 PROVE Awaits' \/ Takes' \/ Completed(1)'
    BY DEF Receiving
  <1>1. /\ owner \in Seq(Items) /\ Len(owner) \in Nat /\ conn \in Connections
        /\ conn.generation = Len(owner) /\ audioQueue \in Seq(Chunks)
        /\ heard \in Seq(Frames)
    BY OwnersTyped DEF ClientPart, PipelineTypeOK, HostPart, TypeOK, HistoryTypeOK
  <1>2. CASE ReceiverReads
    <2>1. /\ rcpc = "recv" /\ stdout # << >>
          /\ UNCHANGED << owner, conn, audioQueue, emitted >>
      BY <1>2 DEF ReceiverReads, ReadsFrame, hostVars, eventVars, clientHistory
    <2>2. PICK f : f = Head(stdout)
      OBVIOUS
    <2>3. /\ heard' = heard \/ heard' = Append(heard, f)
          /\ IsProgress(f) /\ Passes(conn, f) =>
               message' = f /\ rcpc' = IF Clears(f) THEN "clear" ELSE "tag"
      BY <1>2, <2>2 DEF ReceiverReads, ReadsFrame
    <2>4. CASE Awaits /\ heard' = heard
      BY <2>1, <2>4 DEF Awaits
    <2>5. CASE Awaits /\ heard' = Append(heard, f)
      <3>1. /\ Len(heard') \in 1 .. Len(heard') /\ heard'[Len(heard')] = f
            /\ \A i \in 1 .. Len(heard') :
                 \/ heard'[i] = f
                 \/ i \in 1 .. Len(heard) /\ heard'[i] = heard[i]
        <4>1. f \in Frames
          BY <2>1, <2>2, HeadAndTail DEF HostPart, TypeOK, ChannelTypeOK
        <4> QED
          BY <1>1, <2>5, <4>1
      <3>2. CASE f.kind # "Done"
        BY <2>1, <2>5, <3>1, <3>2 DEF Awaits
      <3>3. CASE f.kind = "Done"
        <4>1. IsProgress(f)
          BY <3>3 DEF IsProgress, ProgressKinds
        <4>2. PICK b \in 1 .. Len(emitted) : emitted[b] = f
          BY <2>1, <3>1, <4>1 DEF HeardReported
        <4>3. f.gen = 1
          BY <4>2 DEF Reporting, Sound
        <4>4. message' = f /\ rcpc' = "clear"
          BY <2>3, <2>5, <3>3, <4>1, <4>3 DEF Awaits, Passes, Clears
        <4> QED
          BY <3>3, <4>3, <4>4 DEF Takes
      <3> QED
        BY <3>2, <3>3
    <2>6. CASE Completed(1)
      BY <2>1, <2>6 DEF Completed
    <2>7. ~Takes
      BY <2>1 DEF Takes
    <2> QED
      BY <2>1, <2>3, <2>4, <2>5, <2>6, <2>7 DEF Receiving
  <1>3. CASE ReceiverClears
    <2>1. /\ rcpc = "clear" /\ UNCHANGED << owner, audioQueue, message >>
          /\ rcpc' = IF message.kind = "Done" THEN "tag" ELSE "recv"
      BY <1>3 DEF ReceiverClears, clientHistory
    <2>2. ~Awaits
      <3>1. heard # << >> /\ message = heard[Len(heard)] /\ IsProgress(message)
        BY <2>1 DEF HeardBefore
      <3>2. Len(heard) \in 1 .. Len(heard)
        BY <1>1, <3>1
      <3>3. PICK b \in 1 .. Len(emitted) : emitted[b] = message
        BY <3>1, <3>2 DEF HeardReported
      <3>4. message.kind # "Stopped"
        BY <3>3 DEF Reporting, Sound
      <3>5. message.kind = "Done"
        BY <2>1, <3>4 DEF ClientPart, Reception
      <3> QED
        BY <3>1, <3>2, <3>5 DEF Awaits
    <2>3. CASE Takes
      BY <2>1, <2>3 DEF Takes
    <2>4. CASE Completed(1)
      BY <2>1, <2>4 DEF Completed
    <2> QED
      BY <2>1, <2>2, <2>3, <2>4 DEF Receiving
  <1>4. CASE ReceiverTags
    <2>1. /\ rcpc = "tag" /\ UNCHANGED << owner, conn, heard >>
          /\ audioQueue' = Append(audioQueue, [gen |-> message.gen, kind |-> message.kind,
                                               value |-> message.value, seq |-> currentSeq])
      BY <1>4 DEF ReceiverTags, vars, historyVars, clientHistory
    <2>2. PICK new : /\ audioQueue' = Append(audioQueue, new)
                     /\ new.gen = message.gen /\ new.kind = message.kind
      BY <2>1
    <2>3. /\ Len(audioQueue) + 1 \in DOMAIN audioQueue'
          /\ audioQueue'[Len(audioQueue) + 1] = new
          /\ \A k \in DOMAIN audioQueue :
               k \in DOMAIN audioQueue' /\ audioQueue'[k] = audioQueue[k]
      BY <1>1, <2>2
    <2>4. CASE Awaits
      BY <2>1, <2>4 DEF Awaits
    <2>5. CASE Takes
      BY <2>2, <2>3, <2>5 DEF Takes, Completed
    <2>6. CASE Completed(1)
      BY <2>3, <2>6 DEF Completed
    <2> QED
      BY <2>1, <2>4, <2>5, <2>6 DEF Receiving
  <1>5. CASE ~ReceiverReads /\ ~ReceiverClears /\ ~ReceiverTags
    <2>1. UNCHANGED << heard, rcpc, message, audioQueue >>
      BY <1>5, OthersHearNothing
    <2>2. SUFFICES \/ owner' = owner /\ conn'.active_generation = conn.active_generation
                   \/ Awaits'
      <3>1. CASE owner' = owner /\ conn'.active_generation = conn.active_generation
        BY <2>1, <3>1 DEF Receiving, Awaits, Takes, Completed
      <3> QED
        BY <2>2, <3>1
    <2>3. CASE SynthSends
      <3>1. PICK kind : kind = Program[position].kind
        OBVIOUS
      <3>2. /\ owner' = IF Opens(conn, kind) THEN Append(owner, current) ELSE owner
            /\ kind # "Stop" /\ current \in Items
        <4>1. cpc = "send"
          BY <2>3 DEF SynthSends
        <4> QED
          BY <2>3, <3>1, <4>1, SynthAppends, UtteranceSteps, OwnersTyped
      <3>3. PICK next : next = AfterSend(conn, kind)
        OBVIOUS
      <3>4. conn' = next
        BY <2>3, <3>1, <3>3 DEF SynthSends, Sends
      <3>5. next.active_generation =
              IF Opens(conn, kind) THEN conn.generation + 1 ELSE conn.active_generation
        <4>1. next.active_generation =
                IF kind = "Stop" THEN NoActive
                ELSE IF Opens(conn, kind) THEN conn.generation + 1 ELSE conn.active_generation
          BY <1>1, <3>3, SendActivates
        <4> QED
          BY <3>2, <4>1
      <3>6. CASE Opens(conn, kind)
        <4>1. Len(owner) = 0
          <5>1. Len(owner') = Len(owner) + 1
            BY <1>1, <3>2, <3>6, ChannelLengths
          <5> QED
            BY <1>1, <5>1
        <4>2. tracker.generation = 0
          <5>1. h \in Scans(owner) /\ h.gen = tracker.generation
            BY DEF LinedUp
          <5> QED
            BY <4>1, <5>1, ScanFields
        <4>3. Len(emitted) = 0
          <5>1. emitted = << >>
            BY <4>2 DEF Reporting
          <5> QED
            BY <5>1
        <4>4. \A i \in 1 .. Len(heard) : heard[i].kind # "Done"
          <5> SUFFICES ASSUME NEW i \in 1 .. Len(heard), heard[i].kind = "Done" PROVE FALSE
            OBVIOUS
          <5>1. IsProgress(heard[i])
            BY DEF IsProgress, ProgressKinds
          <5> QED
            BY <4>3, <5>1 DEF HeardReported
        <4>5. conn'.active_generation = 1
          BY <1>1, <3>4, <3>5, <3>6, <4>1
        <4> QED
          BY <2>1, <4>4, <4>5 DEF Awaits
      <3>7. CASE ~Opens(conn, kind)
        BY <3>2, <3>4, <3>5, <3>7
      <3> QED
        BY <3>6, <3>7
    <2>4. CASE SendStop
      <3>1. owner' = owner /\ Len(owner) = 0
        BY <2>4, StopBeforeAny DEF SendStop
      <3> QED
        BY <3>1
    <2>5. CASE SynthPrepares
      <3>1. PICK p : p = Prepared(conn)
        OBVIOUS
      <3>2. p.active_generation = conn.active_generation
        BY <1>1, <3>1, Zenon DEF Prepared, Connections
      <3>3. conn' = p /\ owner' = owner
        BY <2>5, <3>1 DEF SynthPrepares, clientHistory
      <3> QED
        BY <3>2, <3>3
    <2>6. CASE \/ HostStep \/ Speak \/ Cancel \/ SynthGets \/ SynthChecks \/ SynthAnswered
               \/ SynthTimesOut \/ UNCHANGED pipelineVars
      <3>1. UNCHANGED << owner, conn >>
        BY <2>6 DEF HostStep, Speak, Cancel, SynthGets, SynthChecks, SynthAnswered,
                    SynthTimesOut, pipelineVars, clientHistory
      <3> QED
        BY <3>1
    <2> QED
      BY <1>5, <2>3, <2>4, <2>5, <2>6, PipelineSteps
  <1> QED
    BY <1>2, <1>3, <1>4, <1>5

\* What is known of the single generation.
SoleInv ==
  Clean /\ Len(owner) <= 1 =>
    (\E h, m, c : OnLine(h, m, c)) /\ Reporting /\ Receiving

LEMMA HeardIsReported == HostPart => HeardReported
  BY HeardEmitted DEF HeardReported

LEMMA StepSole ==
  ASSUME PipelineInv, HeardReported, HeardReported', Dated, SoleInv,
         UtterancesEnd, EciResults = {TRUE}, [PipelineNext]_pipelineVars
  PROVE  SoleInv'
  <1> SUFFICES ASSUME Clean', Len(owner') <= 1
               PROVE  (\E h, m, c : OnLine(h, m, c)') /\ Reporting' /\ Receiving'
    BY DEF SoleInv
  <1>1. HostPart /\ ClientPart /\ HeardBefore
    BY DEF PipelineInv
  <1>2. /\ owner' = owner \/ (SynthSends /\ owner' = Append(owner, current))
        /\ Len(owner) \in Nat /\ owner \in Seq(Items) /\ current \in Items
    <2>1. owner' = owner \/ (SynthSends /\ owner' = Append(owner, current))
      BY PipelineSteps
         DEF HostStep, SendStop, SynthSends, ReceiverReads, ReceiverClears, ReceiverTags,
             Speak, Cancel, SynthGets, SynthPrepares, SynthChecks, SynthAnswered,
             SynthTimesOut, pipelineVars, clientHistory
    <2> QED
      BY <1>1, <2>1, OwnersTyped
  <1>3. Clean /\ Len(owner) <= 1 /\ (owner' # owner => Len(owner) = 0)
    <2>1. Clean
      BY <1>1, CleanBefore
    <2>2. owner' # owner => Len(owner') = Len(owner) + 1
      BY <1>2, ChannelLengths
    <2> QED
      BY <1>2, <2>1, <2>2
  <1>4. Reporting /\ Receiving /\ \E h, m, c : OnLine(h, m, c)
    BY <1>3 DEF SoleInv
  <1>5. PICK h, m, c : OnLine(h, m, c)
    BY <1>4
  <1>6. LinedUp(h, m, c) /\ Running
    BY <1>5 DEF OnLine
  <1>7. Receiving'
    BY <1>1, <1>4, <1>5, <1>6, StepReceiving
  <1>8. PICK x, y, z : OnLine(x, y, z)' /\ Moves(h, x)
    BY <1>1, <1>5, StepOnLine
  <1>9. SUFFICES Reporting'
    BY <1>7, <1>8, <1>9
  <1>10. CASE HostStep
    <2>1. Host /\ UNCHANGED HostsPartOfLine /\ owner' = owner
      BY <1>10 DEF HostStep, synthVars, clientHistory, HostsPartOfLine
    <2>2. CASE HostCommands
      <3>1. Leads(owner, h, Head(work), x)
        BY <1>8, <1>10, <2>2 DEF Moves
      <3>2. x.gen <= 1
        <4>1. x \in Scans(owner')
          BY <1>8 DEF OnLine, LinedUp
        <4>2. x.gen <= Len(owner) /\ x.gen \in Nat
          BY <1>2, <2>1, <4>1, ScanFields
        <4> QED
          BY <1>2, <1>3, <4>2
      <3> QED
        BY <1>1, <1>3, <1>4, <1>5, <1>6, <2>1, <2>2, <3>1, <3>2, CommandReports
    <2>3. CASE ~HostCommands
      <3>1. \/ ReaderStop \/ ReaderQueues \/ ReaderLoadsHandle \/ ReaderCallsEciStop
            \/ ReaderReplies
            \/ EciCallback \/ EciSwallowsIndexes \/ HandleAudioCallback
            \/ HandleIndexCallback \/ WorkerTriesSend \/ CallbackReturns
            \/ EciSynchronized \/ WorkerFinishes \/ WorkerEndsSynthesis \/ WorkerResponds
            \/ ForwarderReceives \/ ForwarderSends \/ WriterWrites
        BY <1>1, <1>6, <2>1, <2>3, RunningSteps DEF HostCommands
      <3> QED
        BY <1>1, <1>3, <1>4, <1>6, <3>1, HostReports
    <2> QED
      BY <2>2, <2>3
  <1>11. CASE ~HostStep
    <2>1. UNCHANGED << hostVars, latest >>
      BY <1>11, PipelineSteps
         DEF SendStop, SynthSends, Sends, ReceiverReads, ReceiverClears, ReceiverTags,
             Speak, Cancel, SynthGets, SynthPrepares, SynthChecks, SynthAnswered,
             SynthTimesOut, pipelineVars, vars, hostVars, historyVars
    <2>2. UNCHANGED << tracker, wpc, outgoing, emitted, latest >>
      BY <2>1 DEF hostVars, workerVars, engineVars, eventVars
    <2> QED
      BY <1>4, <2>2 DEF Reporting
  <1> QED
    BY <1>10, <1>11

LEMMA InitSole == PipelineInit => SoleInv
  <1> SUFFICES ASSUME PipelineInit PROVE SoleInv
    OBVIOUS
  <1> DEFINE last == Command("Initialize", 1, 0)
  <1>1. HostAtRest(last, "live", 1)
    BY DEF PipelineInit, ReadyInit
  <1> HIDE DEF last
  <1>2. /\ wpc = "recv" /\ outgoing = << >> /\ tracker = DefaultTracker
        /\ emitted = << >>
    BY <1>1 DEF HostAtRest
  <1>3. tracker.generation = 0
    BY <1>2 DEF DefaultTracker, NoGeneration
  <1>4. Reporting
    BY <1>2, <1>3 DEF Reporting
  <1>5. Len(owner) = 0 /\ Clean
    BY DEF PipelineInit, Clean
  <1>6. \E h, m, c : OnLine(h, m, c)
    BY <1>5, InitClean DEF CleanInv
  <1> QED
    BY <1>4, <1>5, <1>6 DEF SoleInv, Receiving

\* Where all is at rest, the generation is done, and Done has been heard.
LEMMA RestsCompleted ==
  ASSUME PipelineInv, SoleInv, Quiescent, Len(owner) = 1, owner[1].seq = sequence,
         ~latest.lost
  PROVE  Completed(1)
  <1>1. HostPart /\ ClientPart
    BY DEF PipelineInv
  <1>2. Reporting /\ Receiving /\ \E h, m, c : OnLine(h, m, c)
    BY DEF SoleInv, Clean
  <1>3. PICK h, m, c : OnLine(h, m, c)
    BY <1>2
  <1>4. /\ cpc = "get" /\ stdin = << >> /\ work = << >> /\ wpc = "recv"
        /\ events = << >> /\ forwarding = << >> /\ outbound = << >> /\ stdout = << >>
        /\ rcpc = "recv"
    BY DEF Quiescent
  <1>5. tracker.generation = 1 /\ ~IsActive(tracker)
    <2>1. /\ h.gen = tracker.generation /\ (h.phase = "open" <=> OpenAtHost)
          /\ c.gen = Len(owner) /\ (c.phase = "open" <=> conn.generation_open)
          /\ Conveys(owner, << >>, h, m) /\ Conveys(owner, << >>, m, c)
      BY <1>3, <1>4 DEF OnLine, LinedUp
    <2>2. h = m /\ m = c
      BY <2>1, NothingConveys
    <2>3. ~conn.generation_open
      BY <1>3, <1>4 DEF OnLine, Sending
    <2> QED
      BY <1>4, <2>1, <2>2, <2>3 DEF OpenAtHost
  <1>6. tracker.done
    BY <1>5, ActiveTracker
  <1>7. outgoing = << >> /\ Len(outgoing) = 0
    BY <1>2, <1>4 DEF Reporting
  <1>8. PICK b \in 1 .. Len(emitted) : emitted[b].kind = "Done"
    BY <1>2, <1>5, <1>6, <1>7 DEF Reporting, DoneIn
  <1>9. emitted = ProgressIn(heard)
    <2>1. PICK p, n : p = ProgressIn(heard) /\ n = ProgressIn(<< >>)
      OBVIOUS
    <2>2. emitted = p ++ (n ++ (n ++ (n ++ n)))
      BY <1>1, <1>4, <2>1 DEF HostPart, LineRetained, Line
    <2>3. n = << >> /\ p \in Seq(Frames)
      BY <1>1, <2>1, LineTypes, ProgressType DEF HostPart
    <2>4. << >> ++ << >> = << >> /\ p ++ << >> = p
      BY <2>3, ConcatEmptySeq DEF ++
    <2> QED
      BY <2>1, <2>2, <2>3, <2>4
  <1>10. PICK i \in 1 .. Len(heard) : emitted[b] = heard[i]
    <2>1. heard \in Seq(Frames)
      BY <1>1 DEF HostPart, TypeOK, HistoryTypeOK
    <2>2. b \in 1 .. Len(ProgressIn(heard))
      BY <1>9
    <2> QED
      BY <1>9, <2>1, <2>2, FromProgress
  <1>11. ~Awaits /\ ~Takes
    BY <1>4, <1>8, <1>10 DEF Awaits, Takes
  <1> QED
    BY <1>2, <1>11 DEF Receiving

\* A generation that no other one displaces, and no Stop ends, is delivered to its
\* completion: whenever all has come to rest, its Done has reached the audio queue's
\* reader, unless the event channel was full for one of its reports and refused it.
THEOREM SoleIsCompleted ==
  ASSUME UtterancesEnd, EciResults = {TRUE}
  PROVE  PipelineSpec => []SoleGenerationCompletes
  <1>1. PipelineInv /\ Dated /\ [PipelineNext]_pipelineVars => Dated'
    BY StepDated DEF PipelineInv
  <1>2. PipelineInv /\ HeardReported /\ HeardReported' /\ Dated /\ SoleInv
          /\ [PipelineNext]_pipelineVars => SoleInv'
    BY StepSole
  <1>3. PipelineInv => HostPart
    BY DEF PipelineInv
  <1>4. PipelineInv /\ SoleInv => SoleGenerationCompletes
    BY RestsCompleted DEF SoleGenerationCompletes
  <1>5. PipelineInit => Dated /\ SoleInv
    BY InitClean, InitSole
  <1> QED
    BY <1>1, <1>2, <1>3, <1>4, <1>5, HeardIsReported, PipelineKept, PTL DEF PipelineSpec
=============================================================================
