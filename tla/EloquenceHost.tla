---------------------------- MODULE EloquenceHost ----------------------------
(***************************************************************************)
(* The 32-bit Eloquence Host Process (native_host/src/server.rs and        *)
(* engine.rs), from the end of the handshake to its exit.                  *)
(*                                                                         *)
(* Four threads share the process.  The reader (server::run) takes frames  *)
(* from stdin; it answers Stop itself and queues every other command.  The *)
(* worker (engine_worker) executes the queue, one command at a time, and   *)
(* is the thread on which ECI calls back while eciSynchronize waits.  The  *)
(* event forwarder moves engine events to the outbound queue, where the    *)
(* worker and the reader also put their responses; the writer puts the     *)
(* outbound frames on stdout.                                              *)
(*                                                                         *)
(* ECI is external: its input buffer and the messages of the synthesis in  *)
(* progress are sequences of texts and indexes.  At the other end of the   *)
(* two pipes is any client that speaks the protocol.                       *)
(***************************************************************************)
EXTENDS Naturals, Sequences, ProgressTracker

CONSTANTS
  WorkCapacity,      \* capacity of the work channel (64 in the code)
  EventCapacity,     \* capacity of the engine event channel (64 in the code)
  OutboundCapacity,  \* capacity of the outbound frame channel (64 in the code)
  PipeCapacity,      \* frames an inherited pipe holds before a write blocks
  MaxRequests,       \* bound: requests the client makes
  MaxGenerations,    \* bound: Speech Generations the client begins
  ClientKinds,       \* bound: the kinds of request the client makes
  Indexes,           \* the Speech Indexes the client inserts
  EciResults         \* what a fallible ECI call may return

ASSUME CapacityAssumption ==
  /\ WorkCapacity \in Nat \ {0}
  /\ EventCapacity \in Nat \ {0}
  /\ OutboundCapacity \in Nat \ {0}
  /\ PipeCapacity \in Nat \ {0}
ASSUME BoundAssumption == MaxRequests \in Nat /\ MaxGenerations \in Nat
ASSUME IndexAssumption == Indexes \subseteq Nat
ASSUME EciAssumption == EciResults \subseteq BOOLEAN /\ TRUE \in EciResults

VARIABLES
  stdin,        \* frames written by the client and not yet read
  inputClosed,  \* the client has closed its ends of both pipes
  requests,     \* request ids the client has used
  generations,  \* Speech Generations the client has begun
  rpc,          \* where the reader is
  reply,        \* the response the reader is about to send
  work,         \* the work channel
  wpc,          \* where the worker is
  item,         \* the command the worker executes
  outcome,      \* whether that command has succeeded so far
  outgoing,     \* events the worker has yet to offer to the event channel
  abort,        \* the event channel refused one of them
  engine,       \* "none" until Initialize succeeds, "deleted" once dropped
  cancellation_requested,
  tracker,      \* the ProgressTracker
  eciInput,     \* ECI's input buffer
  eciSpeaking,  \* the messages ECI has yet to deliver
  callback,     \* the message being handled by eci_callback
  events,       \* the engine event channel
  forwarding,   \* the event in the forwarder's hands, if any
  forwarder,    \* whether the forwarder runs
  outbound,     \* the outbound frame channel
  writer,       \* whether the writer runs
  stdout,       \* frames written by the host and not yet read
  emitted,      \* history: the progress the event channel accepted
  heard,        \* history: the events the client has read
  answered,     \* history: the requests whose response the client has read
  stopped,      \* history: where a Stop met a generation in progress
  latest        \* history: the newest index inserted into the generation,
                \* and whether one of its events was refused

clientVars == << stdin, inputClosed, requests, generations >>
readerVars == << rpc, reply >>
workerVars == << wpc, item, outcome, outgoing, abort >>
engineVars == << engine, cancellation_requested, tracker >>
eciVars    == << eciInput, eciSpeaking, callback >>
eventVars  == << events, forwarding, forwarder, emitted >>
outVars    == << outbound, writer, stdout >>
historyVars == << heard, answered, stopped, latest >>
vars == << clientVars, readerVars, work, workerVars, engineVars, eciVars,
           eventVars, outVars, historyVars >>

-----------------------------------------------------------------------------
CommandKinds ==
  {"Initialize", "BeginGeneration", "AddText", "InsertIndex", "Synthesize",
   "SetVoiceParam", "Stop", "Delete", "Hello"}

ASSUME ClientAssumption == ClientKinds \subseteq CommandKinds \ {"BeginGeneration"}

\* arg is the generation, the index, or the text a command carries.  A text is
\* a number its client can tell from those of other utterances.
Commands == [kind : CommandKinds, id : Nat, arg : Nat]
Command(kind, id, arg) == [kind |-> kind, id |-> id, arg |-> arg]

Messages == [kind : {"text", "index"}, value : Nat]
Message(kind, value) == [kind |-> kind, value |-> value]

\* An outbound frame is a response to a request or an engine event.
ResponseKinds == {"Response", "ErrorResponse"}
Responses == [kind : ResponseKinds, id : Nat]
Response(ok, id) ==
  [kind |-> IF ok THEN "Response" ELSE "ErrorResponse", id |-> id]

NoItem  == Command("Hello", 0, 0)
NoReply == Response(TRUE, 0)
NoMessage == Message("text", 0)

\* The stop controller is published while the engine lives.
HasController == engine = "live"

\* Mutant of ReaderLeftLoop: the work channel stays open while the reader joins.
ReaderHasExited == rpc = "done"

ReaderLeftLoop == rpc \in {"joinWorker", "joinWriter", "done"}

\* The host with nothing under way, after it has executed the command last.
HostAtRest(last, state, used) ==
  /\ stdin = << >> /\ inputClosed = FALSE /\ requests = used /\ generations = 0
  /\ rpc = "read" /\ reply = NoReply
  /\ work = << >>
  /\ wpc = "recv" /\ item = last /\ outcome = TRUE
  /\ outgoing = << >> /\ abort = FALSE
  /\ engine = state /\ cancellation_requested = FALSE
  /\ tracker = DefaultTracker
  /\ eciInput = << >> /\ eciSpeaking = << >> /\ callback = NoMessage
  /\ events = << >> /\ forwarding = << >> /\ forwarder = TRUE
  /\ outbound = << >> /\ writer = TRUE /\ stdout = << >>
  /\ emitted = << >> /\ heard = << >> /\ answered = 1 .. used /\ stopped = {}
  /\ latest = [gen |-> NoGeneration, index |-> FINAL_INDEX, lost |-> FALSE]

Init == HostAtRest(NoItem, "none", 0)

\* The state Init leads to once the client's Initialize has been answered.
ReadyInit == HostAtRest(Command("Initialize", 1, 0), "live", 1)

-----------------------------------------------------------------------------
(* The client's ends of the pipes.                                         *)

\* Writing blocks while the pipe is full.
ClientWrites(frames) ==
  /\ ~inputClosed
  /\ Len(stdin) + Len(frames) <= PipeCapacity
  /\ stdin' = stdin \o frames

ClientSends(kind, arg) ==
  /\ requests < MaxRequests
  /\ ClientWrites(<< Command(kind, requests + 1, arg) >>)
  /\ requests' = requests + 1
  /\ UNCHANGED << inputClosed, generations, readerVars, work, workerVars,
                  engineVars, eciVars, eventVars, outVars, historyVars >>

\* BeginGeneration carries request id 0 and the next generation number.
ClientBegins ==
  /\ generations < MaxGenerations
  /\ ClientWrites(<< Command("BeginGeneration", 0, generations + 1) >>)
  /\ generations' = generations + 1
  /\ UNCHANGED << inputClosed, requests, readerVars, work, workerVars,
                  engineVars, eciVars, eventVars, outVars, historyVars >>

ClientRequests ==
  \/ \E kind \in ClientKinds \ {"AddText", "InsertIndex"} : ClientSends(kind, 0)
  \/ "AddText" \in ClientKinds /\ ClientSends("AddText", generations)
  \/ "InsertIndex" \in ClientKinds
       /\ \E index \in Indexes : ClientSends("InsertIndex", index)

ClientCloses ==
  /\ ~inputClosed
  /\ inputClosed' = TRUE
  /\ UNCHANGED << stdin, requests, generations, readerVars, work, workerVars,
                  engineVars, eciVars, eventVars, outVars, historyVars >>

\* Takes the next frame off stdout and remembers it.
ReadsFrame ==
  /\ ~inputClosed
  /\ stdout # << >>
  /\ stdout' = Tail(stdout)
  /\ IF Head(stdout).kind \in ResponseKinds
       THEN /\ answered' = answered \union {Head(stdout).id}
            /\ UNCHANGED heard
       ELSE /\ heard' = Append(heard, Head(stdout))
            /\ UNCHANGED answered

ClientReads ==
  /\ ReadsFrame
  /\ UNCHANGED << clientVars, readerVars, work, workerVars, engineVars, eciVars,
                  eventVars, outbound, writer, stopped, latest >>

-----------------------------------------------------------------------------
(* The reader thread: server::run.                                         *)

\* Mutant of SendsOutbound: try_send, a response is lost when the channel is full.
TriesOutbound(frame) ==
  IF writer /\ Len(outbound) < OutboundCapacity
    THEN outbound' = Append(outbound, frame)
    ELSE UNCHANGED outbound

\* SyncSender::send blocks while the channel is full; once the writer has
\* failed it returns an error, which is ignored.
SendsOutbound(frame) ==
  IF writer
    THEN /\ Len(outbound) < OutboundCapacity
         /\ outbound' = Append(outbound, frame)
    ELSE UNCHANGED outbound

ReaderTakes(kinds) ==
  /\ rpc = "read"
  /\ stdin # << >>
  /\ Head(stdin).kind \in kinds
  /\ stdin' = Tail(stdin)

\* How many events the callback in progress may still emit.
InFlight == IF wpc = "callback" THEN 1 ELSE Len(outgoing)

\* A Stop meets a generation in progress, unless its completion is under way.
StopPoints ==
  IF IsActive(tracker)
     /\ ~(wpc = "callback" /\ callback = Message("index", FINAL_INDEX))
    THEN {[gen |-> tracker.generation, at |-> Len(emitted) + InFlight]}
    ELSE {}

\* Stop overtakes the work channel.
ReaderStop ==
  /\ ReaderTakes({"Stop"})
  /\ reply' = Response(HasController, Head(stdin).id)
  /\ IF HasController
       THEN /\ rpc' = "handle"
            /\ cancellation_requested' = TRUE
            /\ stopped' = stopped \union StopPoints
       ELSE /\ rpc' = "reply"
            /\ UNCHANGED << cancellation_requested, stopped >>
  /\ UNCHANGED << inputClosed, requests, generations, work, workerVars, engine,
                  tracker, eciVars, eventVars, outVars, heard, answered, latest >>

\* The published handle is zero once the engine has been dropped.
ReaderLoadsHandle ==
  /\ rpc = "handle"
  /\ IF engine = "live"
       THEN rpc' = "eciStop" /\ UNCHANGED reply
       ELSE rpc' = "reply" /\ reply' = Response(FALSE, reply.id)
  /\ UNCHANGED << clientVars, work, workerVars, engineVars, eciVars, eventVars,
                  outVars, historyVars >>

\* eciStop is synchronous: it ends the synthesis and clears the input buffer.
ReaderCallsEciStop ==
  /\ rpc = "eciStop"
  /\ rpc' = "reply"
  /\ eciInput' = << >>
  /\ eciSpeaking' = << >>
  /\ UNCHANGED << clientVars, reply, work, workerVars, engineVars, callback,
                  eventVars, outVars, historyVars >>

ReaderReplies ==
  /\ rpc = "reply"
  /\ SendsOutbound(reply)
  /\ rpc' = "read"
  /\ UNCHANGED << clientVars, reply, work, workerVars, engineVars, eciVars,
                  eventVars, writer, stdout, historyVars >>

ReaderRejects ==
  /\ ReaderTakes({"Hello"})
  /\ reply' = Response(FALSE, Head(stdin).id)
  /\ rpc' = "reply"
  /\ UNCHANGED << inputClosed, requests, generations, work, workerVars,
                  engineVars, eciVars, eventVars, outVars, historyVars >>

\* Mutant of AfterQueuing: Delete does not end the loop.
KeepsReading(kind) == "read"

\* Delete ends the loop.
AfterQueuing(kind) == IF kind = "Delete" THEN "joinWorker" ELSE "read"

\* The send blocks while the channel is full.
ReaderQueues ==
  /\ ReaderTakes(CommandKinds \ {"Stop", "Hello"})
  /\ Len(work) < WorkCapacity
  /\ work' = Append(work, Head(stdin))
  /\ rpc' = AfterQueuing(Head(stdin).kind)
  /\ UNCHANGED << inputClosed, requests, generations, reply, workerVars,
                  engineVars, eciVars, eventVars, outVars, historyVars >>

ReaderSeesEof ==
  /\ rpc = "read"
  /\ stdin = << >>
  /\ inputClosed
  /\ rpc' = "joinWorker"
  /\ UNCHANGED << clientVars, reply, work, workerVars, engineVars, eciVars,
                  eventVars, outVars, historyVars >>

ReaderJoinsWorker ==
  /\ rpc = "joinWorker"
  /\ wpc = "exited"
  /\ rpc' = "joinWriter"
  /\ UNCHANGED << clientVars, reply, work, workerVars, engineVars, eciVars,
                  eventVars, outVars, historyVars >>

\* The writer ends when every sender is gone and the channel is empty.
ReaderJoinsWriter ==
  /\ rpc = "joinWriter"
  /\ outbound = << >>
  /\ rpc' = "done"
  /\ UNCHANGED << clientVars, reply, work, workerVars, engineVars, eciVars,
                  eventVars, outVars, historyVars >>

Reader ==
  \/ ReaderStop \/ ReaderLoadsHandle \/ ReaderCallsEciStop \/ ReaderReplies
  \/ ReaderRejects \/ ReaderQueues \/ ReaderSeesEof
  \/ ReaderJoinsWorker \/ ReaderJoinsWriter

-----------------------------------------------------------------------------
(* The worker thread: engine_worker and the engine calls it makes.         *)

\* Mutant of WorkerTakes: the command stays in the channel.
WorkerPeeks(kinds) ==
  /\ wpc = "recv"
  /\ work # << >>
  /\ Head(work).kind \in kinds
  /\ work' = work
  /\ item' = Head(work)

WorkerTakes(kinds) ==
  /\ wpc = "recv"
  /\ work # << >>
  /\ Head(work).kind \in kinds
  /\ work' = Tail(work)
  /\ item' = Head(work)

WorkerAnswers(ok) ==
  /\ wpc' = "respond"
  /\ outcome' = ok

\* A second Initialize is refused; a failed one leaves the runtime empty.
WorkerInitializes ==
  /\ WorkerTakes({"Initialize"})
  /\ IF engine = "none"
       THEN \E created \in EciResults :
              /\ WorkerAnswers(created)
              /\ IF created
                   THEN /\ engine' = "live"
                        /\ cancellation_requested' = FALSE
                        /\ tracker' = DefaultTracker
                   ELSE UNCHANGED engineVars
       ELSE /\ WorkerAnswers(FALSE)
            /\ UNCHANGED engineVars
  /\ UNCHANGED << clientVars, readerVars, outgoing, abort, eciVars, eventVars,
                  outVars, historyVars >>

EngineCommands ==
  {"BeginGeneration", "AddText", "InsertIndex", "Synthesize", "SetVoiceParam"}

WorkerHasNoRuntime ==
  /\ engine # "live"
  /\ WorkerTakes(EngineCommands)
  /\ WorkerAnswers(FALSE)
  /\ UNCHANGED << clientVars, readerVars, outgoing, abort, engineVars, eciVars,
                  eventVars, outVars, historyVars >>

\* A new generation forgets an earlier cancellation request.
WorkerBegins ==
  /\ engine = "live"
  /\ WorkerTakes({"BeginGeneration"})
  /\ cancellation_requested' = FALSE
  /\ tracker' = BeginGeneration(Head(work).arg)
  /\ latest' = [gen |-> Head(work).arg, index |-> FINAL_INDEX, lost |-> FALSE]
  /\ WorkerAnswers(TRUE)
  /\ UNCHANGED << clientVars, readerVars, outgoing, abort, engine, eciVars,
                  eventVars, outVars, heard, answered, stopped >>

\* require_active_generation
WorkerHasNoGeneration ==
  /\ engine = "live"
  /\ ~IsActive(tracker)
  /\ WorkerTakes({"AddText", "InsertIndex", "Synthesize"})
  /\ WorkerAnswers(FALSE)
  /\ UNCHANGED << clientVars, readerVars, outgoing, abort, engineVars, eciVars,
                  eventVars, outVars, historyVars >>

WorkerAddsText ==
  /\ engine = "live"
  /\ IsActive(tracker)
  /\ WorkerTakes({"AddText"})
  /\ \E added \in EciResults :
       /\ WorkerAnswers(added)
       /\ eciInput' = IF added THEN Append(eciInput, Message("text", Head(work).arg))
                               ELSE eciInput
  /\ UNCHANGED << clientVars, readerVars, outgoing, abort, engineVars,
                  eciSpeaking, callback, eventVars, outVars, historyVars >>

WorkerInsertsIndex ==
  /\ engine = "live"
  /\ IsActive(tracker)
  /\ WorkerTakes({"InsertIndex"})
  /\ \E inserted \in EciResults :
       /\ WorkerAnswers(inserted)
       /\ IF inserted
            THEN /\ eciInput' = Append(eciInput, Message("index", Head(work).arg))
                 /\ tracker' = TrackIndex(tracker, Head(work).arg)
                 /\ latest' = IF Head(work).arg = FINAL_INDEX THEN latest
                              ELSE [latest EXCEPT !.index = Head(work).arg]
            ELSE UNCHANGED << eciInput, tracker, latest >>
  /\ UNCHANGED << clientVars, readerVars, outgoing, abort, engine,
                  cancellation_requested, eciSpeaking, callback, eventVars,
                  outVars, heard, answered, stopped >>

\* Voice parameters live inside ECI.  The errors of the commands this stands for
\* change nothing here but the answer, and are left out.
WorkerSetsVoiceParam ==
  /\ engine = "live"
  /\ WorkerTakes({"SetVoiceParam"})
  /\ WorkerAnswers(TRUE)
  /\ UNCHANGED << clientVars, readerVars, outgoing, abort, engineVars, eciVars,
                  eventVars, outVars, historyVars >>

\* eciSynthesize hands the input buffer over, or fails and leaves it.
WorkerSynthesizes ==
  /\ engine = "live"
  /\ IsActive(tracker)
  /\ WorkerTakes({"Synthesize"})
  /\ \E synthesized \in EciResults :
       /\ outcome' = synthesized
       /\ IF synthesized
            THEN /\ wpc' = "synchronize"
                 /\ eciSpeaking' = eciInput
                 /\ eciInput' = << >>
            ELSE /\ wpc' = "finish"
                 /\ UNCHANGED << eciInput, eciSpeaking >>
  /\ UNCHANGED << clientVars, readerVars, outgoing, abort, engineVars, callback,
                  eventVars, outVars, historyVars >>

\* Mutant of CallbackAborts: a callback does not look at the flag.
CallbackIgnoresStop == FALSE

\* The first thing a callback looks at.
CallbackAborts == cancellation_requested

\* While eciSynchronize waits, ECI delivers its messages to eci_callback.
\* Aborting a callback ends the synthesis and clears the text buffer.
EciCallback ==
  /\ wpc = "synchronize"
  /\ eciSpeaking # << >>
  /\ callback' = Head(eciSpeaking)
  /\ IF CallbackAborts
       THEN /\ eciSpeaking' = << >>
            /\ eciInput' = << >>
            /\ UNCHANGED wpc
       ELSE /\ eciSpeaking' = Tail(eciSpeaking)
            /\ wpc' = "callback"
            /\ UNCHANGED eciInput
  /\ UNCHANGED << clientVars, readerVars, work, item, outcome, outgoing, abort,
                  engineVars, eventVars, outVars, historyVars >>

\* ECI may finish without calling back the indexes that trail the last text.
EciSwallowsIndexes ==
  /\ wpc = "synchronize"
  /\ eciSpeaking # << >>
  /\ \A k \in DOMAIN eciSpeaking : eciSpeaking[k].kind = "index"
  /\ eciSpeaking' = << >>
  /\ UNCHANGED << clientVars, readerVars, work, workerVars, engineVars,
                  eciInput, callback, eventVars, outVars, historyVars >>

\* One waveform buffer stands for the audio of a text.
HandleAudioCallback ==
  /\ wpc = "callback"
  /\ callback.kind = "text"
  /\ outgoing' = IF IsActive(tracker)
                   THEN << AudioEvent(tracker.generation, callback.value) >>
                   ELSE << >>
  /\ wpc' = "callbackSend"
  /\ UNCHANGED << clientVars, readerVars, work, item, outcome, abort, engineVars,
                  eciVars, eventVars, outVars, historyVars >>

\* A sample count the output buffer cannot hold is reported and aborts.
HandleBadAudioCallback ==
  /\ FALSE \in EciResults
  /\ wpc = "callback"
  /\ callback.kind = "text"
  /\ outgoing' = << CallbackErrorEvent >>
  /\ abort' = TRUE
  /\ wpc' = "callbackSend"
  /\ UNCHANGED << clientVars, readerVars, work, item, outcome, engineVars,
                  eciVars, eventVars, outVars, historyVars >>

HandleIndexCallback ==
  /\ wpc = "callback"
  /\ callback.kind = "index"
  /\ IF callback.value = FINAL_INDEX
       THEN /\ outgoing' = CompletionEvents(tracker)
            /\ tracker' = Complete(tracker)
       ELSE /\ outgoing' = EngineIndexEvents(tracker, callback.value)
            /\ tracker' = EngineIndex(tracker, callback.value)
  /\ wpc' = "callbackSend"
  /\ UNCHANGED << clientVars, readerVars, work, item, outcome, abort, engine,
                  cancellation_requested, eciVars, eventVars, outVars,
                  historyVars >>

\* try_send fails when the channel is full or the forwarder is gone, and the
\* events after the refused one are not offered any more.
ProgressKinds == {"Audio", "Index", "Done", "Stopped"}
IsProgress(frame) == frame.kind \in ProgressKinds

\* The progress among some frames: SelectSeq, as a function one can reason about.
ProgressIn(frames) ==
  LET first[n \in 0 .. Len(frames)] ==
        IF n = 0 THEN << >>
        ELSE IF IsProgress(frames[n]) THEN Append(first[n - 1], frames[n])
        ELSE first[n - 1]
  IN  first[Len(frames)]

Accepts == forwarder /\ Len(events) < EventCapacity

WorkerTriesSend ==
  /\ wpc \in {"callbackSend", "finalSend"}
  /\ outgoing # << >>
  /\ IF Accepts
       THEN /\ events' = Append(events, Head(outgoing))
            /\ emitted' = IF IsProgress(Head(outgoing))
                          THEN Append(emitted, Head(outgoing)) ELSE emitted
            /\ outgoing' = Tail(outgoing)
            /\ UNCHANGED << abort, latest >>
       ELSE /\ outgoing' = << >>
            /\ abort' = TRUE
            /\ latest' = [latest EXCEPT !.lost = TRUE]
            /\ UNCHANGED << events, emitted >>
  /\ UNCHANGED << clientVars, readerVars, work, wpc, item, outcome, engineVars,
                  eciVars, forwarding, forwarder, outVars, heard, answered,
                  stopped >>

CallbackReturns ==
  /\ wpc = "callbackSend"
  /\ outgoing = << >>
  /\ wpc' = "synchronize"
  /\ abort' = FALSE
  /\ IF abort
       THEN eciSpeaking' = << >> /\ eciInput' = << >>
       ELSE UNCHANGED << eciSpeaking, eciInput >>
  /\ UNCHANGED << clientVars, readerVars, work, item, outcome, outgoing,
                  engineVars, callback, eventVars, outVars, historyVars >>

\* eciSynchronize returns once ECI has nothing left to deliver.
EciSynchronized ==
  /\ wpc = "synchronize"
  /\ eciSpeaking = << >>
  /\ wpc' = "finish"
  /\ outcome' \in EciResults
  /\ UNCHANGED << clientVars, readerVars, work, item, outgoing, abort,
                  engineVars, eciVars, eventVars, outVars, historyVars >>

\* A requested cancellation turns the end of the synthesis into Stopped.
WorkerFinishes ==
  /\ wpc = "finish"
  /\ wpc' = "finalSend"
  /\ IF cancellation_requested
       THEN /\ outgoing' = StopEvents(tracker)
            /\ tracker' = StopTracker(tracker)
            /\ outcome' = TRUE
       ELSE /\ outgoing' = CompletionEvents(tracker)
            /\ tracker' = Complete(tracker)
            /\ UNCHANGED outcome
  /\ UNCHANGED << clientVars, readerVars, work, item, abort, engine,
                  cancellation_requested, eciVars, eventVars, outVars,
                  historyVars >>

\* A refused event makes the command fail.
WorkerEndsSynthesis ==
  /\ wpc = "finalSend"
  /\ outgoing = << >>
  /\ WorkerAnswers(outcome /\ ~abort)
  /\ abort' = FALSE
  /\ UNCHANGED << clientVars, readerVars, work, item, outgoing, engineVars,
                  eciVars, eventVars, outVars, historyVars >>

WorkerDeletes ==
  /\ WorkerTakes({"Delete"})
  /\ WorkerAnswers(TRUE)
  /\ UNCHANGED << clientVars, readerVars, outgoing, abort, engineVars, eciVars,
                  eventVars, outVars, historyVars >>

WorkerResponds ==
  /\ wpc = "respond"
  /\ SendsOutbound(Response(outcome, item.id))
  /\ wpc' = IF item.kind = "Delete" THEN "drop" ELSE "recv"
  /\ UNCHANGED << clientVars, readerVars, work, item, outcome, outgoing, abort,
                  engineVars, eciVars, eventVars, writer, stdout, historyVars >>

\* The reader has dropped its end of the work channel.
WorkerDisconnects ==
  /\ wpc = "recv"
  /\ work = << >>
  /\ ReaderLeftLoop
  /\ wpc' = "drop"
  /\ UNCHANGED << clientVars, readerVars, work, item, outcome, outgoing, abort,
                  engineVars, eciVars, eventVars, outVars, historyVars >>

\* The stop controller is withdrawn, then ECI is deleted under the handle lock.
WorkerDropsEngine ==
  /\ wpc = "drop"
  /\ wpc' = "join"
  /\ engine' = IF engine = "live" THEN "deleted" ELSE engine
  /\ UNCHANGED << clientVars, readerVars, work, item, outcome, outgoing, abort,
                  cancellation_requested, tracker, eciVars, eventVars, outVars,
                  historyVars >>

\* The forwarder ends when the event channel is closed and drained.
WorkerJoinsForwarder ==
  /\ wpc = "join"
  /\ ~forwarder \/ (events = << >> /\ forwarding = << >>)
  /\ wpc' = "exited"
  /\ forwarder' = FALSE
  /\ UNCHANGED << clientVars, readerVars, work, item, outcome, outgoing, abort,
                  engineVars, eciVars, events, forwarding, emitted, outVars,
                  historyVars >>

WorkerDispatches ==
  \/ WorkerInitializes \/ WorkerHasNoRuntime \/ WorkerBegins
  \/ WorkerHasNoGeneration \/ WorkerAddsText \/ WorkerInsertsIndex
  \/ WorkerSetsVoiceParam \/ WorkerSynthesizes \/ WorkerDeletes

Worker ==
  \/ WorkerDispatches
  \/ EciCallback \/ EciSwallowsIndexes
  \/ HandleAudioCallback \/ HandleBadAudioCallback \/ HandleIndexCallback
  \/ WorkerTriesSend \/ CallbackReturns
  \/ EciSynchronized \/ WorkerFinishes \/ WorkerEndsSynthesis
  \/ WorkerResponds
  \/ WorkerDisconnects \/ WorkerDropsEngine \/ WorkerJoinsForwarder

-----------------------------------------------------------------------------
(* The event forwarder and the writer.                                     *)

\* Mutant of ForwarderReceives: it does not wait for its last event to be sent.
ForwarderHurries ==
  /\ forwarder
  /\ events # << >>
  /\ forwarding' = << Head(events) >>
  /\ events' = Tail(events)
  /\ UNCHANGED << clientVars, readerVars, work, workerVars, engineVars, eciVars,
                  forwarder, emitted, outVars, historyVars >>

ForwarderReceives ==
  /\ forwarder
  /\ forwarding = << >>
  /\ events # << >>
  /\ forwarding' = << Head(events) >>
  /\ events' = Tail(events)
  /\ UNCHANGED << clientVars, readerVars, work, workerVars, engineVars, eciVars,
                  forwarder, emitted, outVars, historyVars >>

ForwarderSends ==
  /\ forwarder
  /\ forwarding # << >>
  /\ writer
  /\ Len(outbound) < OutboundCapacity
  /\ outbound' = Append(outbound, Head(forwarding))
  /\ forwarding' = << >>
  /\ UNCHANGED << clientVars, readerVars, work, workerVars, engineVars, eciVars,
                  events, forwarder, emitted, writer, stdout, historyVars >>

\* Once the writer is gone the forwarder's send fails and it drops its channel.
ForwarderFails ==
  /\ forwarder
  /\ forwarding # << >>
  /\ ~writer
  /\ forwarder' = FALSE
  /\ forwarding' = << >>
  /\ events' = << >>
  /\ UNCHANGED << clientVars, readerVars, work, workerVars, engineVars, eciVars,
                  emitted, outVars, historyVars >>

WriterWrites ==
  /\ writer
  /\ ~inputClosed
  /\ outbound # << >>
  /\ Len(stdout) < PipeCapacity
  /\ stdout' = Append(stdout, Head(outbound))
  /\ outbound' = Tail(outbound)
  /\ UNCHANGED << clientVars, readerVars, work, workerVars, engineVars, eciVars,
                  eventVars, writer, historyVars >>

\* Writing to a pipe the client has closed ends the writer.
WriterFails ==
  /\ writer
  /\ inputClosed
  /\ outbound # << >>
  /\ writer' = FALSE
  /\ outbound' = << >>
  /\ UNCHANGED << clientVars, readerVars, work, workerVars, engineVars, eciVars,
                  eventVars, stdout, historyVars >>

Forwarder == ForwarderReceives \/ ForwarderSends \/ ForwarderFails
Writer == WriterWrites \/ WriterFails

-----------------------------------------------------------------------------
Host == Reader \/ Worker \/ Forwarder \/ Writer

Client == ClientRequests \/ ClientBegins \/ ClientReads \/ ClientCloses

\* The process has exited.
Terminated == rpc = "done" /\ UNCHANGED vars

Next == Host \/ Client \/ Terminated

Spec == Init /\ [][Next]_vars

\* Every thread of the host keeps running.
Fairness ==
  /\ WF_vars(Reader)
  /\ WF_vars(Worker)
  /\ WF_vars(Forwarder)
  /\ WF_vars(Writer)

-----------------------------------------------------------------------------
(* Properties.                                                             *)

Frames == Responses \union EngineEvents

ClientTypeOK ==
  /\ stdin \in Seq(Commands) /\ inputClosed \in BOOLEAN
  /\ requests \in Nat /\ generations \in Nat

ReaderTypeOK ==
  /\ rpc \in {"read", "handle", "eciStop", "reply",
              "joinWorker", "joinWriter", "done"}
  /\ reply \in Responses

WorkerTypeOK ==
  /\ work \in Seq(Commands)
  /\ wpc \in {"recv", "synchronize", "callback", "callbackSend", "finish",
              "finalSend", "respond", "drop", "join", "exited"}
  /\ item \in Commands /\ outcome \in BOOLEAN
  /\ outgoing \in Seq(EngineEvents) /\ abort \in BOOLEAN

EngineTypeOK ==
  /\ engine \in {"none", "live", "deleted"}
  /\ cancellation_requested \in BOOLEAN
  /\ tracker \in Trackers
  /\ eciInput \in Seq(Messages) /\ eciSpeaking \in Seq(Messages)
  /\ callback \in Messages

ChannelTypeOK ==
  /\ events \in Seq(EngineEvents) /\ forwarding \in Seq(EngineEvents)
  /\ forwarder \in BOOLEAN
  /\ outbound \in Seq(Frames) /\ writer \in BOOLEAN
  /\ stdout \in Seq(Frames)

HistoryTypeOK ==
  /\ emitted \in Seq(EngineEvents)
  /\ heard \in Seq(Frames) /\ answered \subseteq Nat
  /\ stopped \subseteq [gen : Nat, at : Nat]
  /\ latest \in [gen : Nat, index : Nat, lost : BOOLEAN]

TypeOK ==
  /\ ClientTypeOK /\ ReaderTypeOK /\ WorkerTypeOK
  /\ EngineTypeOK /\ ChannelTypeOK /\ HistoryTypeOK

\* Every channel and pipe stays within its capacity, however slow the client:
\* the queues the host declares with sync_channel are its only memory of events.
QueuesBounded ==
  /\ Len(work) <= WorkCapacity
  /\ Len(events) <= EventCapacity
  /\ Len(forwarding) <= 1
  /\ Len(outbound) <= OutboundCapacity
  /\ Len(stdout) <= PipeCapacity
  /\ Len(outgoing) <= 2

\* The client reads the progress of the engine in the order in which the
\* callbacks made it, with nothing dropped or doubled by the two channels, the
\* forwarder and the writer it passes.
OrderRetained ==
  (writer /\ forwarder) =>
    ProgressIn(heard) \o ProgressIn(stdout) \o ProgressIn(outbound)
      \o ProgressIn(forwarding) \o ProgressIn(events) = emitted

\* A Done event is preceded by the newest index inserted into its generation,
\* called back by ECI or recovered, unless the event channel refused an event.
LastIndexBeforeDone ==
  /\ DoneEvent(latest.gen) \in {emitted[k] : k \in DOMAIN emitted}
  /\ latest.index # FINAL_INDEX
  /\ ~latest.lost
  => \E k \in DOMAIN emitted :
       /\ emitted[k].kind = "Index"
       /\ emitted[k].gen = latest.gen
       /\ emitted[k].value = latest.index

\* A Stop that meets a generation in progress is the end of it: besides the
\* event already in the hands of a callback, only Stopped follows.
CancellationIsPrompt ==
  \A point \in stopped : \A k \in DOMAIN emitted :
    (k > point.at /\ emitted[k].gen = point.gen) => emitted[k].kind = "Stopped"

\* Completing a synthesis reports Done: no response to Synthesize leaves a
\* completed generation without it, unless the event channel refused an event.
CompletionReported ==
  (/\ wpc = "respond" /\ item.kind = "Synthesize" /\ ~latest.lost
   /\ tracker.done /\ tracker.generation # NoGeneration)
  => \E k \in DOMAIN emitted : emitted[k] = DoneEvent(tracker.generation)

\* While the reader can still queue a command or call eciStop, the worker has
\* not let go of the engine.
ReaderUsesLiveWorker ==
  ~ReaderLeftLoop =>
     /\ wpc \notin {"drop", "join", "exited"}
     /\ engine # "deleted"

\* No request is answered twice.
AnsweredOnce ==
  [][(Len(stdout') < Len(stdout) /\ Head(stdout).kind \in ResponseKinds)
       => Head(stdout).id \notin answered \ {0}]_vars

\* The progress reported implements the promise of GenerationStream.
NewestReport == emitted[Len(emitted)]
ReportedGeneration == IF emitted = << >> THEN 0 ELSE NewestReport.gen
ReportedPhase ==
  IF emitted = << >> \/ NewestReport.kind = "Stopped" THEN "stopped"
  ELSE IF NewestReport.kind = "Done" THEN "done" ELSE "open"
Stream ==
  INSTANCE GenerationStream WITH
    Generations <- 1 .. MaxGenerations,
    current <- ReportedGeneration,
    phase   <- ReportedPhase,
    reports <- Len(emitted)
ImplementsStream == Stream!Spec

\* Every request is answered, unless the client closes the pipes or deletes
\* the engine first: no thread waits for ever on another one's channel.  There are
\* MaxRequests of them, so each is answered where none stays unanswered for ever.
Unanswered == {id \in 1 .. requests : id \notin answered}
EveryRequestAnswered ==
  (Unanswered # {}) ~> (Unanswered = {} \/ ReaderLeftLoop)

\* Once the client is gone the host exits, whatever its queues held and
\* whichever threads were blocked.
HostExits == inputClosed ~> (rpc = "done")
=============================================================================
