---------------------------- MODULE AudioPlayback ----------------------------
(***************************************************************************)
(* The Audio Chunks of addon/synthDrivers/_eloquence.py on their way from  *)
(* the audio queue to the ear, and the Speech Progress Notifications that  *)
(* NVDA gets on the way.                                                   *)
(*                                                                         *)
(* The audio worker holds one chunk back, so that an index that follows it *)
(* can ride on its completion callback.  NVDA's main thread cancels: it    *)
(* raises _sequence and then stops the player; it may also replace player, *)
(* queue and worker, as a change of the sound contour does.                *)
(*                                                                         *)
(* The WavePlayer is external: feed blocks while its buffers are full,     *)
(* sync and idle until they are empty; stop empties them, forgets their    *)
(* callbacks and so unblocks both.                                         *)
(***************************************************************************)
EXTENDS Naturals, Sequences

CONSTANTS
  Streams,         \* bound: for each utterance, what the host reports of it
  PlayerCapacity,  \* chunks the player buffers before feed blocks
  MaxCancels,      \* bound: how often NVDA cancels
  MaxRestarts      \* bound: how many of these replace the audio worker

Parts == {"audio", "index", "done"}

ASSUME StreamAssumption == Streams \in Seq(Seq(Parts))
ASSUME PlayerAssumption == PlayerCapacity \in Nat \ {0}
ASSUME CancelAssumption == MaxCancels \in Nat /\ MaxRestarts \in Nat

VARIABLES
  sequence,   \* _sequence
  origin,     \* the _sequence in which each utterance was spoken
  coming,     \* chunks the receiver has yet to put on the audio queue
  queue,      \* _audio_queue
  mpc,        \* where the main thread is in stop() or the restart
  restarting, \* this stop() is the beginning of a restart
  cancels, restarts,
  stopping,   \* _stopping of the audio worker, and not _running
  apc,        \* where the audio worker is
  chunk,      \* the chunk it took off the queue
  pending,    \* the chunk it holds back, if any
  player,     \* the buffers of the WavePlayer, with their callbacks
  silenced,   \* history: _sequence when the player was last stopped
  log         \* history: chunks played out and notifications made

mainVars == << sequence, origin, mpc, restarting, cancels, restarts, silenced >>
workerVars == << stopping, apc, chunk, pending >>
vars == << mainVars, coming, queue, workerVars, player, log >>

Chunks == [utt : Nat, part : Nat, kind : Parts, seq : Nat]
NoChunk == [utt |-> 0, part |-> 0, kind |-> "done", seq |-> 0]

\* stop() wakes the worker with None.
Marker == NoChunk

Buffers == [chunk : Chunks, onDone : Seq(Chunks)]

Init ==
  /\ sequence = 0 /\ origin = << >> /\ mpc = "idle" /\ restarting = FALSE
  /\ cancels = 0 /\ restarts = 0 /\ silenced = 0
  /\ coming = << >> /\ queue = << >>
  /\ stopping = FALSE /\ apc = "get" /\ chunk = NoChunk /\ pending = << >>
  /\ player = << >> /\ log = << >>

Stale(c) == c.seq < sequence

\* What NVDA hears or is told, and whether a cancellation already forbade it.
Entry(c) == [utt |-> c.utt, part |-> c.part, late |-> c.seq < silenced]

-----------------------------------------------------------------------------
(* The receiver and the host behind it.                                    *)

ReceiverPuts ==
  /\ coming # << >>
  /\ queue' = Append(queue, Head(coming))
  /\ coming' = Tail(coming)
  /\ UNCHANGED << mainVars, workerVars, player, log >>

\* What the host still had to report of a cancelled utterance may never come.
HostForgets ==
  /\ coming # << >>
  /\ Stale(Head(coming))
  /\ coming' = Tail(coming)
  /\ UNCHANGED << mainVars, queue, workerVars, player, log >>

-----------------------------------------------------------------------------
(* NVDA's main thread.                                                     *)

Tagged(u) ==
  [k \in DOMAIN Streams[u] |->
     [utt |-> u, part |-> k, kind |-> Streams[u][k], seq |-> sequence]]

Speak ==
  /\ mpc = "idle"
  /\ Len(origin) < Len(Streams)
  /\ origin' = Append(origin, sequence)
  /\ coming' = coming \o Tagged(Len(origin) + 1)
  /\ UNCHANGED << sequence, mpc, restarting, cancels, restarts, silenced, queue,
                  workerVars, player, log >>

Cancel ==
  /\ mpc = "idle"
  /\ cancels < MaxCancels
  /\ cancels' = cancels + 1
  /\ sequence' = sequence + 1
  /\ \E restart \in {r \in BOOLEAN : r => restarts < MaxRestarts} :
       /\ restarting' = restart
       /\ restarts' = IF restart THEN restarts + 1 ELSE restarts
  /\ mpc' = "stopPlayer"
  /\ UNCHANGED << origin, silenced, coming, queue, workerVars, player, log >>

StopsPlayer ==
  /\ mpc = "stopPlayer"
  /\ player' = << >>
  /\ silenced' = sequence
  /\ mpc' = IF restarting THEN "stopWorker" ELSE "idle"
  /\ UNCHANGED << sequence, origin, restarting, cancels, restarts, coming, queue,
                  workerVars, log >>

StopsWorker ==
  /\ mpc = "stopWorker"
  /\ stopping' = TRUE
  /\ queue' = Append(queue, Marker)
  /\ mpc' = "join"
  /\ UNCHANGED << sequence, origin, restarting, cancels, restarts, silenced,
                  coming, apc, chunk, pending, player, log >>

\* Mutant of NewQueue: the new worker shares the queue of the old one.
SharedQueue == queue

\* Markers and late audio stay with the previous worker.
NewQueue == << >>

\* The player is closed; the new worker has a queue of its own.
ReplacesWorker ==
  /\ mpc = "join"
  /\ apc = "exited"
  /\ player' = << >>
  /\ queue' = NewQueue
  /\ stopping' = FALSE /\ apc' = "get" /\ chunk' = NoChunk /\ pending' = << >>
  /\ mpc' = "idle"
  /\ UNCHANGED << sequence, origin, restarting, cancels, restarts, silenced,
                  coming, log >>

MainStops == StopsPlayer \/ StopsWorker \/ ReplacesWorker
MainThread == Speak \/ Cancel \/ MainStops

-----------------------------------------------------------------------------
(* The audio worker: _run_audio.                                           *)

\* A chunk held back for a cancelled utterance is dropped.
WorkerTakes ==
  /\ apc = "get"
  /\ queue # << >>
  /\ queue' = Tail(queue)
  /\ IF Head(queue) = Marker
       THEN /\ apc' = "exited"
            /\ UNCHANGED << chunk, pending >>
       ELSE /\ apc' = "check"
            /\ chunk' = Head(queue)
            /\ pending' = IF pending # << >> /\ Stale(pending[1]) THEN << >> ELSE pending
  /\ UNCHANGED << mainVars, coming, stopping, player, log >>

WorkerLeaves ==
  /\ apc = "get"
  /\ stopping
  /\ apc' = "exited"
  /\ UNCHANGED << mainVars, coming, queue, stopping, chunk, pending, player, log >>

\* Mutant of AfterCheck: progress does not wait for the chunk held back.
AfterHastyCheck ==
  CASE Stale(chunk) -> "get"
    [] ~Stale(chunk) /\ chunk.kind # "audio" -> "report"
    [] ~Stale(chunk) /\ chunk.kind = "audio" /\ pending # << >> -> "feed"
    [] OTHER -> "get"

AfterCheck ==
  CASE Stale(chunk) -> "get"
    [] ~Stale(chunk) /\ pending # << >> -> "feed"
    [] ~Stale(chunk) /\ pending = << >> /\ chunk.kind = "audio" -> "get"
    [] OTHER -> "report"

\* A stale chunk is dropped; an audio chunk with none before it is held back.
WorkerChecks ==
  /\ apc = "check"
  /\ apc' = AfterCheck
  /\ pending' = IF ~Stale(chunk) /\ pending = << >> /\ chunk.kind = "audio"
                  THEN << chunk >> ELSE pending
  /\ UNCHANGED << mainVars, coming, queue, stopping, chunk, player, log >>

\* Mutant of OnDone: the index is lost.
OnDoneOmitted == << >>

\* An index that follows the chunk held back becomes its callback.
OnDone == IF chunk.kind = "index" THEN << chunk >> ELSE << >>

\* Mutant of HasRoom: feed does not block.
AlwaysHasRoom == TRUE

HasRoom == Len(player) < PlayerCapacity

\* The chunk held back is fed.  (A feed that is blocked when the worker is stopped
\* ends in the code; the chunk, which is stale, is dropped here.)
WorkerFeeds ==
  /\ apc = "feed"
  /\ IF stopping
       THEN UNCHANGED player
       ELSE /\ HasRoom
            /\ player' = Append(player, [chunk |-> pending[1], onDone |-> OnDone])
  /\ pending' = IF chunk.kind = "audio" THEN << chunk >> ELSE << >>
  /\ apc' = IF chunk.kind = "done" THEN "report" ELSE "get"
  /\ UNCHANGED << mainVars, coming, queue, stopping, chunk, log >>

\* An index without audio of its own waits in sync(), the end in idle().
WorkerReports ==
  /\ apc = "report"
  /\ apc' = IF stopping THEN "get" ELSE "drain"
  /\ UNCHANGED << mainVars, coming, queue, stopping, chunk, pending, player, log >>

WorkerDrains ==
  /\ apc = "drain"
  /\ player = << >>
  /\ apc' = "notify"
  /\ UNCHANGED << mainVars, coming, queue, stopping, chunk, pending, player, log >>

WorkerNotifies ==
  /\ apc = "notify"
  /\ apc' = "get"
  /\ log' = IF stopping THEN log ELSE Append(log, Entry(chunk))
  /\ UNCHANGED << mainVars, coming, queue, stopping, chunk, pending, player >>

AudioWorker ==
  \/ WorkerTakes \/ WorkerLeaves \/ WorkerChecks \/ WorkerFeeds
  \/ WorkerReports \/ WorkerDrains \/ WorkerNotifies

\* A buffer has played out and its callback runs.
PlayerFinishes ==
  /\ player # << >>
  /\ player' = Tail(player)
  /\ log' = log \o << Entry(Head(player).chunk) >>
                \o [k \in DOMAIN Head(player).onDone |->
                      Entry(Head(player).onDone[k])]
  /\ UNCHANGED << mainVars, coming, queue, workerVars >>

-----------------------------------------------------------------------------
\* Everything has been spoken, delivered and played.
AtRest ==
  /\ mpc = "idle" /\ Len(origin) = Len(Streams)
  /\ coming = << >> /\ queue = << >> /\ apc = "get" /\ player = << >>
  /\ UNCHANGED vars

Next ==
  \/ MainThread \/ ReceiverPuts \/ HostForgets \/ AudioWorker \/ PlayerFinishes
  \/ AtRest

Spec == Init /\ [][Next]_vars

\* Threads run, and the device plays; NVDA need not speak or cancel.
Fairness ==
  /\ WF_vars(MainStops)
  /\ WF_vars(ReceiverPuts)
  /\ WF_vars(AudioWorker)
  /\ WF_vars(PlayerFinishes)

FairSpec == Spec /\ Fairness

-----------------------------------------------------------------------------
(* Properties.                                                             *)

TypeOK ==
  /\ sequence \in Nat /\ origin \in Seq(Nat) /\ Len(origin) <= Len(Streams)
  /\ coming \in Seq(Chunks) /\ queue \in Seq(Chunks)
  /\ mpc \in {"idle", "stopPlayer", "stopWorker", "join"}
  /\ restarting \in BOOLEAN /\ cancels \in 0 .. MaxCancels
  /\ restarts \in 0 .. MaxRestarts
  /\ stopping \in BOOLEAN
  /\ apc \in {"get", "check", "feed", "report", "drain", "notify", "exited"}
  /\ chunk \in Chunks /\ pending \in Seq(Chunks) /\ Len(pending) <= 1
  /\ player \in Seq(Buffers) /\ Len(player) <= PlayerCapacity
  /\ silenced \in 0 .. sequence
  /\ log \in Seq([utt : Nat, part : Nat, late : BOOLEAN])

\* Part p of the utterance of log entry k was heard before that entry.
HeardBefore(k, p) ==
  \E j \in 1 .. k - 1 : log[j].utt = log[k].utt /\ log[j].part = p /\ ~log[j].late

\* The chunks of an utterance play, and its notifications are made, one by one
\* in the order in which the host reported them, with none skipped: an index is
\* notified after all the audio before it and before any audio behind it,
\* whether it rode on a chunk or waited for the player.
PlaybackInOrder ==
  \A k \in DOMAIN log :
    ~log[k].late =>
      /\ \A p \in 1 .. log[k].part - 1 : HeardBefore(k, p)
      /\ \A j \in 1 .. k - 1 : log[j].utt = log[k].utt => log[j].part < log[k].part

\* Utterances do not overlap: nothing of an earlier one plays or is notified
\* after a later one has begun, the chunk held back between them included.
UtterancesInOrder ==
  \A j, k \in DOMAIN log : j < k => log[j].utt <= log[k].utt

\* What NVDA heard of utterance u before it was cancelled.
HeardOf(u) == SelectSeq(log, LAMBDA entry : entry.utt = u /\ ~entry.late)

\* Every utterance that the host completes and NVDA does not cancel is heard
\* and notified to its end, also after the worker has been replaced.
Ends(u) == \E k \in DOMAIN Streams[u] : Streams[u][k] = "done"
UtteranceFinishes ==
  \A u \in DOMAIN Streams :
    Ends(u) =>
      (Len(origin) = u) ~> \/ Len(HeardOf(u)) = Len(Streams[u])
                           \/ u \in DOMAIN origin /\ origin[u] < sequence

\* Once the player has been stopped NVDA gets no notification of the cancelled
\* utterance.
NoStaleNotification ==
  \A k \in DOMAIN log :
    log[k].late => Streams[log[k].utt][log[k].part] = "audio"
=============================================================================
