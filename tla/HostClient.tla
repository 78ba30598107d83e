------------------------------ MODULE HostClient ------------------------------
(***************************************************************************)
(* EloquenceHostClient of addon/synthDrivers/_eloquence.py: its calls to   *)
(* the host, and the life of the host process, of the receiver and of the  *)
(* synth worker that go with it.                                           *)
(*                                                                         *)
(* NVDA's main thread executes one operation after the other, each a list  *)
(* of steps.  It shares send_command with the synth workers; every host    *)
(* process has a receiver of its own, which wakes the callers.             *)
(*                                                                         *)
(* A host is external here: it answers its requests in order, or dies, or  *)
(* is wedged in ECI, reading no more; inbox stands for its stdin and its   *)
(* work channel.  A write blocks while that is full; closing the reader    *)
(* waits for a read in progress.  A timeout of send_command may end any    *)
(* wait, that of a join only one for a thread that is blocked.             *)
(***************************************************************************)
EXTENDS Naturals, Sequences, FiniteSets

CONSTANTS
  MaxHosts,      \* bound: host processes NVDA starts
  MaxWorkers,    \* bound: synth workers NVDA starts
  Scripts,       \* bound: what NVDA asks of the driver, operation by operation
  MaxFaults,     \* bound: hosts that die or wedge
  MaxTimeouts,   \* bound: answers and greetings that take more than five seconds
  PipeCapacity   \* requests a pipe holds before a write blocks

ASSUME HostClientAssumption ==
  /\ MaxHosts \in Nat /\ MaxWorkers \in Nat
  /\ MaxFaults \in Nat /\ MaxTimeouts \in Nat /\ PipeCapacity \in Nat \ {0}

VARIABLES
  host,        \* _host: the process in use, 0 for None
  process,     \* what each process does
  inbox,       \* the requests in its stdin
  outbox,      \* the responses in its stdout
  closed,      \* whether the client has closed its pipes
  receiver,    \* where the receiver of each process is
  held,        \* the ids it has to serve
  overlooked,  \* history: ids a receiver unregistered and served to nobody
  nextId,      \* _id_counter
  pending,     \* the ids in _pending
  responses,   \* the ids in _responses, with the process that answered
  signalled,   \* the ids whose event is set
  lock,        \* the thread that holds _command_lock
  call,        \* the call of send_command each thread makes
  todo,        \* the steps of its operation the main thread has before it
  script,      \* the operations that are left
  faults, timeouts,
  synthQueue,  \* synth_queue: utterances, current or stale, and None
  stopFlag,    \* _synth_worker_stop
  worker,      \* _synth_worker, 0 for None
  wpc,         \* where each synth worker is
  unanswered   \* history: calls that were woken and found no response

processVars == << process, inbox, outbox, closed, faults >>
receiverVars == << receiver, held, overlooked >>
tables == << pending, responses, signalled >>
callVars == << nextId, lock, call, unanswered >>
mainVars == << host, todo, script >>
workerVars == << synthQueue, stopFlag, worker, wpc >>
hostSide == << processVars, receiverVars >>
clientSide == << callVars, mainVars, timeouts, workerVars >>
aroundCalls == << host, script, synthQueue, stopFlag, worker >>
mainAlone == << receiverVars, tables, callVars, script, timeouts >>
vars == << processVars, receiverVars, tables, callVars, mainVars, timeouts, workerVars >>

Hosts == 1 .. MaxHosts
Workers == 1 .. MaxWorkers
Main == 0
Threads == {Main} \union Workers
Free == MaxWorkers + 1

Kinds == {"initialize", "setParam", "synthesize", "stop", "delete"}
Waits(kind) == kind # "stop"
NoCall == [pc |-> "idle", id |-> 0, kind |-> "stop"]

Init ==
  /\ host = 0 /\ process = [h \in Hosts |-> "none"]
  /\ inbox = [h \in Hosts |-> << >>] /\ outbox = [h \in Hosts |-> << >>]
  /\ closed = [h \in Hosts |-> FALSE]
  /\ receiver = [h \in Hosts |-> "none"] /\ held = [h \in Hosts |-> {}]
  /\ overlooked = {}
  /\ nextId = 1 /\ pending = {} /\ responses = {} /\ signalled = {}
  /\ lock = Free /\ call = [t \in Threads |-> NoCall]
  /\ todo = << >> /\ script \in Scripts /\ faults = 0 /\ timeouts = 0
  /\ synthQueue = << >> /\ stopFlag = FALSE
  /\ worker = 0 /\ wpc = [w \in Workers |-> "none"]
  /\ unanswered = {}

-----------------------------------------------------------------------------
(* The operations of the main thread as lists of steps.                    *)

StopWorker == << "stopWorker", "putNone", "joinWorker" >>
Stop == << "cancel", "stop" >>
Initialize == << "ensureStarted", "handshake", "initialize", "ensureWorker" >>
Shutdown == << "delete", "joinReceiver", "close", "terminate" >>

\* Mutant of Terminate: the synth worker is stopped while the host still works.
TerminateWorkerFirst == StopWorker \o << "shutdown" >>

Terminate == << "shutdown" >> \o StopWorker

\* The restart ends with commands that restore the voice.
SetSampleRate == Stop \o << "shutdown" >> \o Initialize \o << "setParam" >>

Operations ==
  [Initialize |-> Initialize, SetParam |-> << "setParam" >>, Stop |-> Stop,
   Speak |-> << "speak", "ensureWorker" >>, SetSampleRate |-> SetSampleRate,
   Terminate |-> Terminate]

ASSUME ScriptAssumption == Scripts \subseteq Seq(DOMAIN Operations)

\* initialize() cleans up behind whatever fails in it.
Failed == << "shutdown" >> \o StopWorker

Step(name) == todo # << >> /\ Head(todo) = name
Done == todo' = Tail(todo)

-----------------------------------------------------------------------------
(* send_command.                                                           *)

\* What follows the return of a call: the next step, or the worker's next item.
Returns(t, ok) ==
  IF t = Main
    THEN /\ todo' = IF Step("initialize") /\ ~ok THEN Failed ELSE Tail(todo)
         /\ UNCHANGED wpc
    ELSE /\ wpc' = [wpc EXCEPT ![t] = "get"]
         /\ UNCHANGED todo

CallBegins(t, kind) ==
  /\ call[t].pc = "idle"
  /\ IF host = 0
       THEN /\ Returns(t, FALSE)
            /\ UNCHANGED << nextId, lock, call, pending >>
       ELSE /\ lock = Free
            /\ lock' = t
            /\ nextId' = nextId + 1
            /\ call' = [call EXCEPT ![t] = [pc |-> "send", id |-> nextId, kind |-> kind]]
            /\ pending' = IF Waits(kind) THEN pending \union {nextId} ELSE pending
            /\ UNCHANGED << todo, wpc >>
  /\ UNCHANGED << hostSide, aroundCalls, responses, signalled, unanswered, timeouts >>

Reachable == host # 0 /\ process[host] # "exited" /\ ~closed[host]

\* Mutant of HasRoom: a write to the pipe never waits.
AlwaysHasRoom(h) == TRUE

HasRoom(h) == Len(inbox[h]) < PipeCapacity

\* The frame is written under the lock, which blocks while the pipe is full.
CallSends(t) ==
  /\ call[t].pc = "send"
  /\ Reachable
  /\ HasRoom(host)
  /\ inbox' = [inbox EXCEPT ![host] = Append(@, call[t])]
  /\ lock' = Free
  /\ IF Waits(call[t].kind)
       THEN /\ call' = [call EXCEPT ![t].pc = "wait"]
            /\ UNCHANGED << todo, wpc >>
       ELSE /\ call' = [call EXCEPT ![t] = NoCall]
            /\ Returns(t, TRUE)
  /\ UNCHANGED << process, outbox, closed, faults, receiverVars, tables, aroundCalls, nextId,
                  unanswered, timeouts >>

\* Mutant of LockAfterFailure: a write that fails keeps the command lock.
LockKept == lock

LockAfterFailure == Free

\* A broken pipe, or a connection that is gone.
CallFails(t) ==
  /\ call[t].pc = "send"
  /\ ~Reachable
  /\ lock' = LockAfterFailure
  /\ call' = [call EXCEPT ![t] = NoCall]
  /\ pending' = pending \ {call[t].id}
  /\ Returns(t, FALSE)
  /\ UNCHANGED << hostSide, aroundCalls, responses, signalled, nextId, unanswered, timeouts >>

\* A woken caller takes its response, or an error in place of it.
CallCollects(t) ==
  /\ call[t].pc = "wait"
  /\ call[t].id \in signalled
  /\ LET mine == {r \in responses : r.id = call[t].id}
     IN  /\ responses' = responses \ mine
         /\ unanswered' = IF mine = {} THEN unanswered \union {call[t].id} ELSE unanswered
         /\ Returns(t, \E r \in mine : r.from # 0)
  /\ call' = [call EXCEPT ![t] = NoCall]
  /\ UNCHANGED << hostSide, aroundCalls, pending, signalled, nextId, lock, timeouts >>

\* Five seconds pass.  What nobody will answer any more costs no timeout bound.
Unanswerable(id) ==
  \A h \in Hosts :
    /\ process[h] # "up" \/ \A k \in DOMAIN inbox[h] : inbox[h][k].id # id
    /\ \A k \in DOMAIN outbox[h] : outbox[h][k] # id
    /\ id \notin held[h]

TimePasses == timeouts < MaxTimeouts /\ timeouts' = timeouts + 1

\* Mutant of CallTimesOut: a wait that is over begins anew.
CallWaitsOn(t) == call[t].pc = "wait" /\ UNCHANGED vars

CallTimesOut(t) ==
  /\ call[t].pc = "wait"
  /\ call[t].id \notin signalled
  /\ \/ Unanswerable(call[t].id) /\ UNCHANGED timeouts
     \/ ~Unanswerable(call[t].id) /\ TimePasses
  /\ call' = [call EXCEPT ![t].pc = "giveUp"]
  /\ UNCHANGED << hostSide, aroundCalls, tables, nextId, lock, unanswered, todo, wpc >>

CallGivesUp(t) ==
  /\ call[t].pc = "giveUp"
  /\ call' = [call EXCEPT ![t] = NoCall]
  /\ pending' = pending \ {call[t].id}
  /\ Returns(t, FALSE)
  /\ UNCHANGED << hostSide, aroundCalls, responses, signalled, nextId, lock, unanswered,
                  timeouts >>

CallProceeds(t) ==
  CallSends(t) \/ CallFails(t) \/ CallCollects(t) \/ CallTimesOut(t) \/ CallGivesUp(t)

-----------------------------------------------------------------------------
(* The host process.                                                       *)

\* Delete is answered before the process exits.
HostAnswers(h) ==
  /\ process[h] = "up" /\ inbox[h] # << >>
  /\ inbox' = [inbox EXCEPT ![h] = Tail(@)]
  /\ outbox' = [outbox EXCEPT ![h] = Append(@, Head(inbox[h]).id)]
  /\ process' = [process EXCEPT ![h] =
                   IF Head(inbox[h]).kind = "delete" THEN "exited" ELSE @]
  /\ UNCHANGED << clientSide, tables, receiverVars, closed, faults >>

HostFaults(h) ==
  /\ process[h] = "up" /\ faults < MaxFaults
  /\ faults' = faults + 1
  /\ \E fault \in {"exited", "wedged"} : process' = [process EXCEPT ![h] = fault]
  /\ UNCHANGED << clientSide, tables, receiverVars, inbox, outbox, closed >>

-----------------------------------------------------------------------------
(* The receiver: _receiver_loop.                                           *)

\* The response of a call that is not registered any more is dropped.
ReceiverTakes(h) ==
  /\ receiver[h] = "recv" /\ ~closed[h] /\ outbox[h] # << >>
  /\ outbox' = [outbox EXCEPT ![h] = Tail(@)]
  /\ LET id == Head(outbox[h])
     IN  IF id \in pending
           THEN /\ pending' = pending \ {id}
                /\ held' = [held EXCEPT ![h] = {id}]
                /\ receiver' = [receiver EXCEPT ![h] = "store"]
           ELSE UNCHANGED << pending, receiverVars >>
  /\ UNCHANGED << clientSide, process, inbox, closed, faults, responses, signalled, overlooked >>

\* Mutant of Put: who waits is woken without a response.
PutNothing(ids, from) == UNCHANGED responses

Put(ids, from) == responses' = responses \union [id : ids, from : {from}]

ReceiverStores(h) ==
  /\ receiver[h] = "store"
  /\ receiver' = [receiver EXCEPT ![h] = "set"]
  /\ Put(held[h], h)
  /\ UNCHANGED << clientSide, processVars, held, pending, signalled, overlooked >>

ReceiverSets(h) ==
  /\ receiver[h] = "set"
  /\ receiver' = [receiver EXCEPT ![h] = "recv"]
  /\ held' = [held EXCEPT ![h] = {}]
  /\ signalled' = signalled \union held[h]
  /\ UNCHANGED << clientSide, processVars, pending, responses, overlooked >>

\* At the end of the stream the receiver looks up who is waiting ...
ReceiverSeesEnd(h) ==
  /\ receiver[h] = "recv"
  /\ closed[h] \/ (process[h] = "exited" /\ outbox[h] = << >>)
  /\ receiver' = [receiver EXCEPT ![h] = "fail"]
  /\ held' = [held EXCEPT ![h] = pending]
  /\ UNCHANGED << clientSide, processVars, tables, overlooked >>

\* ... gives each of them an error ...
ReceiverFails(h) ==
  /\ receiver[h] = "fail"
  /\ receiver' = [receiver EXCEPT ![h] = "clear"]
  /\ held' = [held EXCEPT ![h] = {}]
  /\ Put(held[h], 0)
  /\ signalled' = signalled \union held[h]
  /\ UNCHANGED << clientSide, processVars, pending, overlooked >>

\* ... and forgets all that is registered by then, calls to the next host among it.
ReceiverClears(h) ==
  /\ receiver[h] = "clear"
  /\ receiver' = [receiver EXCEPT ![h] = "done"]
  /\ pending' = {}
  /\ overlooked' = overlooked \union (pending \ signalled)
  /\ UNCHANGED << clientSide, processVars, held, responses, signalled >>

ReceiverSteps(h) ==
  \/ ReceiverTakes(h) \/ ReceiverStores(h) \/ ReceiverSets(h)
  \/ ReceiverSeesEnd(h) \/ ReceiverFails(h) \/ ReceiverClears(h)

\* The receiver is in a read that will bring nothing more by itself.
Reading(h) == receiver[h] = "recv" /\ outbox[h] = << >> /\ process[h] # "exited"

-----------------------------------------------------------------------------
(* The main thread.                                                        *)

Started == Cardinality({h \in Hosts : process[h] # "none"})
WorkersStarted == Cardinality({w \in Workers : wpc[w] # "none"})

\* Without a host NVDA has no driver to ask, but may initialize one.
NextOperation ==
  /\ todo = << >> /\ script # << >>
  /\ script' = Tail(script)
  /\ todo' = IF host = 0 /\ Head(script) # "Initialize" THEN << >>
             ELSE Operations[Head(script)]
  /\ UNCHANGED << hostSide, workerVars, callVars, tables, host, timeouts >>

\* The calls: all but Stop wait, and all but Initialize ignore an error.
MainCalls ==
  \E kind \in Kinds \ {"synthesize"} : Step(kind) /\ CallBegins(Main, kind)

Speaks ==
  /\ Step("speak") /\ Done
  /\ synthQueue' = Append(synthQueue, "utterance")
  /\ UNCHANGED << mainAlone, processVars, host, stopFlag, worker, wpc >>

\* A cancellation makes the utterances that are queued stale.
Cancels ==
  /\ Step("cancel") /\ Done
  /\ synthQueue' = [k \in DOMAIN synthQueue |->
                     IF synthQueue[k] = "utterance" THEN "stale" ELSE synthQueue[k]]
  /\ UNCHANGED << mainAlone, processVars, host, stopFlag, worker, wpc >>

\* ensure_started() keeps a host it has.
EnsuresStarted ==
  /\ Step("ensureStarted")
  /\ IF host # 0
       THEN /\ todo' = Tail(Tail(todo))
            /\ UNCHANGED process
       ELSE /\ Done
            /\ Started < MaxHosts
            /\ process' = [process EXCEPT ![Started + 1] = "up"]
  /\ UNCHANGED << mainAlone, workerVars, host, inbox, outbox, closed, faults >>

\* Mutant of AfterFailedHandshake: the process is left to itself.
LeftRunning(h) == process[h]

\* _terminate_process
AfterFailedHandshake(h) == "exited"

\* The newest process either greets in time or is terminated.
Handshakes ==
  /\ Step("handshake")
  /\ LET h == Started
     IN  \/ /\ process[h] = "up"
            /\ host' = h
            /\ receiver' = [receiver EXCEPT ![h] = "recv"]
            /\ Done
            /\ UNCHANGED << process, timeouts >>
         \/ /\ \/ process[h] # "up" /\ UNCHANGED timeouts
               \/ process[h] = "up" /\ TimePasses
            /\ process' = [process EXCEPT ![h] = AfterFailedHandshake(h)]
            /\ todo' = Failed
            /\ UNCHANGED << host, receiver >>
  /\ UNCHANGED << inbox, outbox, closed, faults, held, overlooked, tables, callVars, script,
                  workerVars >>

\* shutdown() returns at once when there is no host.
ShutsDown ==
  /\ Step("shutdown")
  /\ todo' = IF host = 0 THEN Tail(todo) ELSE Shutdown \o Tail(todo)
  /\ UNCHANGED << mainAlone, processVars, workerVars, host >>

\* The wait for the exit of the process ends with it or after three seconds, that
\* for the receiver with the receiver or when it still reads.
JoinsReceiver ==
  /\ Step("joinReceiver") /\ Done
  /\ receiver[host] = "done" \/ Reading(host)
  /\ UNCHANGED << mainAlone, processVars, workerVars, host >>

ClosesConnection ==
  /\ Step("close") /\ Done
  /\ ~Reading(host)
  /\ closed' = [closed EXCEPT ![host] = TRUE]
  /\ UNCHANGED << mainAlone, workerVars, host, process, inbox, outbox, faults >>

\* A host that is still up is terminated; in the end there is none.
Terminates ==
  /\ Step("terminate") /\ Done
  /\ process' = [process EXCEPT ![host] = "exited"]
  /\ host' = 0
  /\ UNCHANGED << mainAlone, workerVars, inbox, outbox, closed, faults >>

Alive(w) == w # 0 /\ wpc[w] # "exited"

EnsuresWorker ==
  /\ Step("ensureWorker") /\ Done
  /\ IF Alive(worker)
       THEN UNCHANGED << stopFlag, worker, wpc >>
       ELSE /\ WorkersStarted < MaxWorkers
            /\ stopFlag' = FALSE
            /\ worker' = WorkersStarted + 1
            /\ wpc' = [wpc EXCEPT ![worker'] = "get"]
  /\ UNCHANGED << mainAlone, processVars, host, synthQueue >>

StopsWorker ==
  /\ Step("stopWorker")
  /\ IF worker = 0
       THEN todo' = SubSeq(todo, 4, Len(todo)) /\ UNCHANGED stopFlag
       ELSE Done /\ stopFlag' = TRUE
  /\ UNCHANGED << mainAlone, processVars, host, synthQueue, worker, wpc >>

PutsNone ==
  /\ Step("putNone") /\ Done
  /\ synthQueue' = Append(synthQueue, "None")
  /\ UNCHANGED << mainAlone, processVars, host, stopFlag, worker, wpc >>

\* The worker waits for an answer that no receiver is about to bring.
WorkerBlocked(w) ==
  /\ call[w].pc = "wait" /\ call[w].id \notin signalled
  /\ \A h \in Hosts : receiver[h] \in {"none", "done"} \/ Reading(h)

\* The join takes no more than a second.
JoinsWorker ==
  /\ Step("joinWorker") /\ Done
  /\ wpc[worker] = "exited" \/ WorkerBlocked(worker)
  /\ worker' = 0
  /\ stopFlag' = FALSE
  /\ UNCHANGED << mainAlone, processVars, host, synthQueue, wpc >>

MainSteps ==
  \/ MainCalls \/ CallProceeds(Main) \/ Speaks \/ Cancels \/ EnsuresStarted \/ Handshakes
  \/ ShutsDown \/ JoinsReceiver \/ ClosesConnection \/ Terminates
  \/ EnsuresWorker \/ StopsWorker \/ PutsNone \/ JoinsWorker

-----------------------------------------------------------------------------
(* The synth workers: _synth_worker_loop.                                  *)

WorkerGets(w) ==
  /\ wpc[w] = "get"
  /\ synthQueue # << >>
  /\ synthQueue' = Tail(synthQueue)
  /\ wpc' = [wpc EXCEPT ![w] = CASE Head(synthQueue) = "None" -> "exited"
                                   [] Head(synthQueue) = "utterance" -> "call"
                                   [] OTHER -> "get"]
  /\ UNCHANGED << mainAlone, processVars, host, todo, stopFlag, worker >>

WorkerStops(w) ==
  /\ wpc[w] = "get"
  /\ synthQueue = << >>
  /\ stopFlag
  /\ wpc' = [wpc EXCEPT ![w] = "exited"]
  /\ UNCHANGED << mainAlone, processVars, host, todo, synthQueue, stopFlag, worker >>

\* An utterance waits for the host, which is what may block the worker.
WorkerCalls(w) == wpc[w] = "call" /\ CallBegins(w, "synthesize")

WorkerSteps(w) ==
  WorkerGets(w) \/ WorkerStops(w) \/ WorkerCalls(w) \/ CallProceeds(w)

-----------------------------------------------------------------------------
Next ==
  \/ NextOperation \/ MainSteps
  \/ \E w \in Workers : WorkerSteps(w)
  \/ \E h \in Hosts : HostAnswers(h) \/ HostFaults(h) \/ ReceiverSteps(h)

Spec == Init /\ [][Next]_vars

\* Threads run and healthy hosts answer.  A timeout is part of the thread that
\* waits, so that no wait is for ever.
Fairness ==
  /\ WF_vars(MainSteps)
  /\ \A w \in Workers : WF_vars(WorkerSteps(w))
  /\ \A h \in Hosts : WF_vars(HostAnswers(h)) /\ WF_vars(ReceiverSteps(h))

FairSpec == Spec /\ Fairness

-----------------------------------------------------------------------------
(* Properties.                                                             *)

Ids == 0 .. nextId
StepNames ==
  Kinds \union {"speak", "cancel", "ensureStarted", "handshake", "ensureWorker", "shutdown",
                "joinReceiver", "close", "terminate", "stopWorker",
                "putNone", "joinWorker"}

TypeOK ==
  /\ host \in 0 .. MaxHosts
  /\ process \in [Hosts -> {"none", "up", "wedged", "exited"}]
  /\ inbox \in [Hosts -> Seq([pc : {"send"}, id : Ids, kind : Kinds])]
  /\ outbox \in [Hosts -> Seq(Ids)]
  /\ \A h \in Hosts : Len(inbox[h]) <= PipeCapacity
  /\ closed \in [Hosts -> BOOLEAN]
  /\ receiver \in [Hosts -> {"none", "recv", "store", "set", "fail", "clear", "done"}]
  /\ held \in [Hosts -> SUBSET Ids]
  /\ nextId \in Nat /\ pending \subseteq Ids /\ signalled \subseteq Ids
  /\ overlooked \subseteq Ids
  /\ responses \subseteq [id : Ids, from : 0 .. MaxHosts]
  /\ lock \in Threads \union {Free}
  /\ call \in [Threads -> [pc : {"idle", "send", "wait", "giveUp"}, id : Ids, kind : Kinds]]
  /\ todo \in Seq(StepNames)
  /\ script \in Seq(DOMAIN Operations)
  /\ faults \in 0 .. MaxFaults /\ timeouts \in 0 .. MaxTimeouts
  /\ synthQueue \in Seq({"utterance", "stale", "None"}) /\ stopFlag \in BOOLEAN
  /\ worker \in 0 .. MaxWorkers
  /\ wpc \in [Workers -> {"none", "get", "call", "exited"}]
  /\ unanswered \subseteq Ids

\* A caller that is woken finds its response or its error in the table, whatever
\* the receivers of this host and the one before, the timeouts and the end of
\* the stream do to the two tables.
AnswersFound == unanswered = {}

\* No host process is left behind: there is at most one, and none when the main
\* thread rests without a host, after a failed start as after a shutdown.
Running == {h \in Hosts : process[h] \in {"up", "wedged"}}
NoHostLeftBehind ==
  /\ Cardinality(Running) <= 1
  /\ (todo = << >> /\ host = 0) => Running = {}

\* Two synth workers never send the commands of utterances at the same time,
\* although the join of an old one gives up after a second: by then the receivers
\* have woken it, unless one of them has overlooked a call.
SoleSynthWorker ==
  overlooked = {} => \A v, w \in Workers : (wpc[v] = "call" /\ wpc[w] = "call") => v = w

\* Calls return, answered or not, until none is left: also when the host dies,
\* wedges or is replaced, and when a receiver that ends overlooks a call.  Only the
\* write to the full pipe of a wedged host has no end.
CallsReturn ==
  (\E t \in Threads : call[t].pc # "idle")
    ~> \/ \A t \in Threads : call[t].pc = "idle"
       \/ \E h \in Hosts : process[h] = "wedged" /\ ~HasRoom(h)

\* Every operation of NVDA's main thread comes to its end, unless a host is
\* wedged: start, restart and shutdown wait for nobody who waits for them.
OperationsEnd ==
  (todo # << >>) ~> \/ todo = << >>
                    \/ \E h \in Hosts : process[h] = "wedged"

\* A host that is wedged in ECI is terminated by a shutdown, in the end.
LastResortReached == (Step("shutdown") /\ host # 0) ~> (host = 0)
=============================================================================
