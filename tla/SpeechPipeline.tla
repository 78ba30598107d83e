--------------------------- MODULE SpeechPipeline ---------------------------
(***************************************************************************)
(* From NVDA's speak and cancel to the audio queue: the client of          *)
(* addon/synthDrivers/_eloquence.py and _eloquence_native.py, composed     *)
(* with the host.                                                          *)
(*                                                                         *)
(* Three client threads: NVDA's main thread queues utterances and cancels, *)
(* the synth worker sends the commands of one utterance after the other    *)
(* and waits for the response to Synthesize, and the receiver reads what   *)
(* the host writes and puts Audio Chunks on the audio queue.  They share   *)
(* _sequence, _current_seq and the fields of the connection; the command   *)
(* lock makes a send atomic, nothing else.                                 *)
(***************************************************************************)
EXTENDS EloquenceHost, HostConnection, FiniteSets

CONSTANTS
  Programs,    \* bound: the commands of each utterance, in order
  MaxCancels,  \* bound: how often NVDA cancels
  MaxTimeouts  \* bound: how often a response takes more than five seconds

\* Only send() itself writes BeginGeneration.
ASSUME ProgramAssumption ==
  Programs \in Seq(Seq([kind : CommandKinds \ {"BeginGeneration"}, arg : Nat]))

VARIABLES
  sequence,     \* _sequence
  currentSeq,   \* _current_seq
  synthQueue,   \* synth_queue: utterances with the sequence they were queued in
  spoken,       \* how many utterances NVDA has queued
  mpc,          \* where the main thread is in stop()
  cancels,      \* how often NVDA has cancelled
  cpc,          \* where the synth worker is
  current,      \* the item it works on
  position,     \* the command of that item it has come to
  awaited,      \* the request whose response it waits for
  timeouts,     \* how many responses it has given up
  conn,         \* the NativeHostConnection
  rcpc,         \* where the receiver is
  message,      \* the event it has decoded
  audioQueue,   \* history: the chunks put on the audio queue
  owner,        \* history: the item each generation was begun for
  stopSent      \* history: the sequence of the newest Stop on the wire

mainVars == << sequence, spoken, mpc, cancels >>
synthVars == << currentSeq, cpc, current, position, awaited, timeouts >>
receiverVars == << rcpc, message, audioQueue >>
clientHistory == << owner, stopSent >>
pipelineVars ==
  << vars, mainVars, synthQueue, synthVars, conn, receiverVars, clientHistory >>
hostVars == << readerVars, work, workerVars, engineVars, eciVars, eventVars >>

Items == [utterance : Nat, seq : Nat]
NoSynthItem == [utterance |-> 0, seq |-> 0]

Chunks == [gen : Nat, kind : {"Audio", "Index", "Done"}, value : Nat, seq : Nat]

PipelineInit ==
  /\ ReadyInit
  /\ sequence = 0 /\ spoken = 0 /\ mpc = "idle" /\ cancels = 0
  /\ synthQueue = << >>
  /\ currentSeq = 0 /\ cpc = "get" /\ current = NoSynthItem /\ position = 1
  /\ awaited = 0 /\ timeouts = 0
  /\ conn = NewConnection
  /\ rcpc = "recv" /\ message = CallbackErrorEvent /\ audioQueue = << >>
  /\ owner = << >> /\ stopSent = 0

-----------------------------------------------------------------------------
(* send_command up to the wait.  Under the command lock no other thread    *)
(* sends in between, so it is one step, although the frames are written    *)
(* one by one and the host may take the first before the last is there.    *)

Sends(kind, arg) ==
  /\ requests < MaxRequests
  /\ ClientWrites(FramesFor(conn, kind, requests + 1, arg))
  /\ conn' = AfterSend(conn, kind)
  /\ conn'.generation <= MaxGenerations
  /\ requests' = requests + 1
  /\ generations' = conn'.generation
  /\ UNCHANGED << inputClosed, hostVars, outVars, historyVars >>

-----------------------------------------------------------------------------
(* NVDA's main thread.                                                     *)

\* speak() queues the utterance with the sequence of the moment.
Speak ==
  /\ mpc = "idle"
  /\ spoken < Len(Programs)
  /\ spoken' = spoken + 1
  /\ synthQueue' = Append(synthQueue, [utterance |-> spoken + 1, seq |-> sequence])
  /\ UNCHANGED << vars, sequence, mpc, cancels, synthVars, conn, receiverVars,
                  clientHistory >>

\* stop() first makes every older item and chunk stale ...
Cancel ==
  /\ mpc = "idle"
  /\ cancels < MaxCancels
  /\ cancels' = cancels + 1
  /\ sequence' = sequence + 1
  /\ mpc' = "stopping"
  /\ UNCHANGED << vars, spoken, synthQueue, synthVars, conn, receiverVars,
                  clientHistory >>

\* ... then, with the player stopped, tells the host.
SendStop ==
  /\ mpc = "stopping"
  /\ mpc' = "idle"
  /\ Sends("Stop", 0)
  /\ stopSent' = sequence
  /\ UNCHANGED << sequence, spoken, cancels, synthQueue, synthVars,
                  receiverVars, owner >>

MainThread == Speak \/ Cancel \/ SendStop

-----------------------------------------------------------------------------
(* The synth worker: _synth_worker_loop.                                   *)

Stale(seq) == seq < sequence
Program == Programs[current.utterance]

\* A stale item is dropped; another one becomes current.
SynthGets ==
  /\ cpc = "get"
  /\ synthQueue # << >>
  /\ synthQueue' = Tail(synthQueue)
  /\ IF Stale(Head(synthQueue).seq)
       THEN UNCHANGED << cpc, current, currentSeq >>
       ELSE /\ cpc' = "prepare"
            /\ current' = Head(synthQueue)
            /\ currentSeq' = Head(synthQueue).seq
  /\ UNCHANGED << vars, mainVars, position, awaited, timeouts, conn,
                  receiverVars, clientHistory >>

SynthPrepares ==
  /\ cpc = "prepare"
  /\ cpc' = "check"
  /\ position' = 1
  /\ conn' = Prepared(conn)
  /\ UNCHANGED << vars, mainVars, synthQueue, currentSeq, current, awaited,
                  timeouts, receiverVars, clientHistory >>

\* The check before each command, and the end of the item.
SynthChecks ==
  /\ cpc = "check"
  /\ cpc' = IF position > Len(Program) \/ Stale(current.seq) THEN "get" ELSE "send"
  /\ UNCHANGED << vars, mainVars, synthQueue, currentSeq, current, position,
                  awaited, timeouts, conn, receiverVars, clientHistory >>

\* Texts and indexes are sent without waiting; the other commands wait.
SynthSends ==
  /\ cpc = "send"
  /\ Sends(Program[position].kind, Program[position].arg)
  /\ position' = position + 1
  /\ IF Program[position].kind \in {"AddText", "InsertIndex"}
       THEN cpc' = "check" /\ UNCHANGED awaited
       ELSE cpc' = "wait" /\ awaited' = requests + 1
  /\ owner' = IF Opens(conn, Program[position].kind)
                THEN Append(owner, current) ELSE owner
  /\ UNCHANGED << mainVars, synthQueue, currentSeq, current, timeouts,
                  receiverVars, stopSent >>

SynthAnswered ==
  /\ cpc = "wait"
  /\ awaited \in answered
  /\ cpc' = "check"
  /\ UNCHANGED << vars, mainVars, synthQueue, currentSeq, current, position,
                  awaited, timeouts, conn, receiverVars, clientHistory >>

\* The error is logged and the worker goes on.
SynthTimesOut ==
  /\ cpc = "wait"
  /\ awaited \notin answered
  /\ timeouts < MaxTimeouts
  /\ timeouts' = timeouts + 1
  /\ cpc' = "check"
  /\ UNCHANGED << vars, mainVars, synthQueue, currentSeq, current, position,
                  awaited, conn, receiverVars, clientHistory >>

SynthSteps ==
  SynthGets \/ SynthPrepares \/ SynthChecks \/ SynthSends \/ SynthAnswered

SynthWorker == SynthSteps \/ SynthTimesOut

-----------------------------------------------------------------------------
(* The receiver: _receiver_loop, recv, _decode_event and _handle_event.    *)

\* The generation check reads the connection without its lock.  A response
\* wakes whoever waits for it; the progress of another generation is dropped.
ReceiverReads ==
  /\ rcpc = "recv"
  /\ ReadsFrame
  /\ IF IsProgress(Head(stdout)) /\ Passes(conn, Head(stdout))
       THEN /\ message' = Head(stdout)
            /\ rcpc' = IF Clears(Head(stdout)) THEN "clear" ELSE "tag"
       ELSE UNCHANGED << message, rcpc >>
  /\ UNCHANGED << clientVars, hostVars, outbound, writer, stopped, latest,
                  mainVars, synthQueue, synthVars, conn, audioQueue,
                  clientHistory >>

\* Stopped makes no Audio Chunk.
ReceiverClears ==
  /\ rcpc = "clear"
  /\ conn' = Cleared(conn)
  /\ rcpc' = IF message.kind = "Done" THEN "tag" ELSE "recv"
  /\ UNCHANGED << vars, mainVars, synthQueue, synthVars, message, audioQueue,
                  clientHistory >>

\* The chunk gets the sequence that is current now.
ReceiverTags ==
  /\ rcpc = "tag"
  /\ rcpc' = "recv"
  /\ audioQueue' = Append(audioQueue, [gen |-> message.gen, kind |-> message.kind,
                                       value |-> message.value, seq |-> currentSeq])
  /\ UNCHANGED << vars, mainVars, synthQueue, synthVars, conn, message,
                  clientHistory >>

Receiver == ReceiverReads \/ ReceiverClears \/ ReceiverTags

-----------------------------------------------------------------------------
HostStep ==
  /\ Host
  /\ UNCHANGED << mainVars, synthQueue, synthVars, conn, receiverVars,
                  clientHistory >>

\* Every utterance has been queued and nothing is under way anywhere.
Quiescent ==
  /\ mpc = "idle" /\ spoken = Len(Programs)
  /\ cpc = "get" /\ synthQueue = << >>
  /\ stdin = << >> /\ rpc = "read"
  /\ work = << >> /\ wpc = "recv"
  /\ events = << >> /\ forwarding = << >> /\ outbound = << >>
  /\ stdout = << >> /\ rcpc = "recv"

AtRest == Quiescent /\ UNCHANGED pipelineVars

PipelineNext == HostStep \/ MainThread \/ SynthWorker \/ Receiver \/ AtRest

PipelineSpec == PipelineInit /\ [][PipelineNext]_pipelineVars

-----------------------------------------------------------------------------
(* Properties.                                                             *)

PipelineTypeOK ==
  /\ TypeOK
  /\ sequence \in Nat /\ currentSeq \in Nat
  /\ synthQueue \in Seq(Items) /\ spoken \in 0 .. Len(Programs)
  /\ mpc \in {"idle", "stopping"}
  /\ cpc \in {"get", "prepare", "check", "send", "wait"}
  /\ current \in Items /\ position \in Nat \ {0}
  /\ awaited \in 0 .. requests
  /\ conn \in Connections /\ conn.generation = generations
  /\ rcpc \in {"recv", "clear", "tag"}
  /\ message \in EngineEvents
  /\ audioQueue \in Seq(Chunks)
  /\ owner \in Seq(Items) /\ Len(owner) = generations
  /\ stopSent \in 0 .. sequence

\* Chunks reach the audio queue generation by generation, and none of a
\* generation follows its Done: NVDA never hears of a completion twice or of an
\* index after it, however Stop, Done and the next utterance interleave.
OneCompletion ==
  \A j, k \in DOMAIN audioQueue : j < k =>
    \/ audioQueue[j].gen < audioQueue[k].gen
    \/ audioQueue[j].gen = audioQueue[k].gen /\ audioQueue[j].kind # "Done"

\* Once the Stop of a cancelled utterance is on the wire, no generation is begun
\* for it, although the worker that sends its commands checks, prepares and
\* sends in separate steps.
NoGenerationAfterStop ==
  [][generations' > generations => current.seq >= stopSent]_pipelineVars

Completed(g) ==
  \E k \in DOMAIN audioQueue : audioQueue[k].gen = g /\ audioQueue[k].kind = "Done"

\* When everything has come to rest, each generation whose utterance was not
\* cancelled has reached the audio queue's reader with its completion.
EveryGenerationCompletes ==
  Quiescent =>
    \A g \in DOMAIN owner : owner[g].seq = sequence => Completed(g)

\* What speak() queues: texts of its own utterance, indexes and parameters, ended
\* by Synthesize.
UtterancesEnd ==
  \A u \in DOMAIN Programs :
    /\ \A k \in 1 .. Len(Programs[u]) :
         /\ Programs[u][k].kind \in {"AddText", "InsertIndex", "SetVoiceParam", "Synthesize"}
         /\ Programs[u][k].kind = "AddText" => Programs[u][k].arg = u
    /\ Programs[u] # << >> => Programs[u][Len(Programs[u])].kind = "Synthesize"

\* A generation that no other one displaces is delivered to its completion,
\* although utterances before and after it were cancelled; unless the event channel
\* was full for one of its reports, and it was refused.  This is of ECI calls that
\* succeed: an eciSynthesize that fails leaves the generation without its completion.
SoleGenerationCompletes ==
  (Quiescent /\ Len(owner) = 1 /\ owner[1].seq = sequence /\ ~latest.lost)
    => Completed(1)

\* The audio of a generation renders the text of the utterance it was begun for.
OwnTextOnly ==
  \A k \in DOMAIN audioQueue :
    audioQueue[k].kind = "Audio"
      => audioQueue[k].value = owner[audioQueue[k].gen].utterance

\* As long as nothing is cancelled that is so, even when a response comes late
\* and the next utterance is sent while the host still speaks the last.  This is of
\* ECI calls that succeed: an eciSynthesize that fails leaves its texts in ECI's
\* buffer, and the next generation speaks them.
OwnTextWithoutCancel == cancels = 0 => OwnTextOnly

\* The chunks the audio worker cannot recognise as stale: they are tagged with a
\* later sequence than their utterance has.
Mistagged ==
  {k \in DOMAIN audioQueue : audioQueue[k].seq > owner[audioQueue[k].gen].seq}

\* A cancellation lets one chunk of the cancelled utterance pass for one of the next
\* at most, the one the receiver has decoded already when Stop is sent.
StaleChunksBounded == Cardinality(Mistagged) <= cancels

\* The request the synth worker waits for, or has given up, is answered in the
\* end: no cycle of full pipes and channels, and no Stop, swallows the response.
SynthesisAnswered == (awaited # 0) ~> (awaited \in answered)
=============================================================================
