--------------------------- MODULE HostClient_proofs ---------------------------
(***************************************************************************)
(* Theorems about HostClient: whatever NVDA asks, over any number of hosts,*)
(* workers, faults and timeouts, a woken caller finds its answer, no host  *)
(* process is left behind, and unless a receiver overlooks a call one      *)
(* synth worker at a time sends commands.                                  *)
(*                                                                         *)
(* The inductive invariant has two halves.  The main thread's operations   *)
(* are well ordered, so that a host is started only when there is none and *)
(* the worker is stopped only behind it.  And every call that waits is     *)
(* somewhere: registered with a receiver that serves it, in the hands of   *)
(* one, answered and signalled in this order, or overlooked.               *)
(***************************************************************************)
EXTENDS HostClient, FiniteSetTheorems, TLAPS

\* The processes NVDA has started are the first ones, one after the other.
StartedInOrder ==
  /\ Started \in 0 .. MaxHosts
  /\ \A h \in Hosts : process[h] # "none" <=> h <= Started

\* What may come next to a step of an operation, "end" being its end: a start is
\* followed by its handshake, the three steps that stop the worker belong
\* together and come behind the end of the host.
Follows(a, b) ==
  /\ a = "ensureStarted" <=> b = "handshake"
  /\ a = "stopWorker" <=> b = "putNone"
  /\ a = "putNone" <=> b = "joinWorker"
  /\ b = "stopWorker" => a \in {"shutdown", "terminate"}

First(s) == IF s = << >> THEN "end" ELSE s[1]
NextOf(s, k) == IF k < Len(s) THEN s[k + 1] ELSE "end"
WellOrdered(s) == s \in Seq(StepNames) /\ \A k \in DOMAIN s : Follows(s[k], NextOf(s, k))

\* The steps that are reached without a host only, and those that are reached
\* with a worker only.
Hostless == {"handshake", "stopWorker", "putNone", "joinWorker"}
WithWorker == {"putNone", "joinWorker"}

Operating ==
  /\ WellOrdered(todo)
  /\ First(todo) \in Hostless => host = 0
  /\ First(todo) = "handshake" => Started \in Hosts /\ receiver[Started] = "none"
  /\ First(todo) \in WithWorker => worker # 0

\* A process has a receiver from its handshake on; its stream has ended when the
\* receiver has seen the end; what a receiver holds it is about to serve.
Attended ==
  /\ host # 0 => receiver[host] # "none"
  /\ \A h \in Hosts :
       /\ receiver[h] # "none" => process[h] # "none"
       /\ receiver[h] \in {"fail", "clear", "done"} => closed[h] \/ process[h] = "exited"
       /\ receiver[h] \in {"none", "recv", "clear", "done"} => held[h] = {}

\* Only the host in use runs, or the one that has not greeted yet.
OnlyHost ==
  \A h \in Running : h = host \/ (First(todo) = "handshake" /\ h = Started)

Active(t) == call[t].pc # "idle"

\* Every call has an id of its own, which the counter has passed, as it has those
\* in the tables.
Given == 1 .. nextId - 1
OwnIds ==
  /\ nextId # 0
  /\ \A t \in Threads : Active(t) => call[t].id \in Given
  /\ \A t, u \in Threads : Active(t) /\ Active(u) /\ call[t].id = call[u].id => t = u
  /\ signalled \subseteq Given /\ pending \subseteq Given
  /\ \A h \in Hosts : held[h] \subseteq Given

\* The main thread calls in a step of its own, a worker with an utterance.
Calling ==
  /\ Active(Main) => First(todo) = call[Main].kind
  /\ \A w \in Workers : Active(w) => wpc[w] = "call" /\ call[w].kind = "synthesize"

\* An id that is signalled, or about to be, has its answer in the table.
Answered(id) == \E r \in responses : r.id = id
AnswersFirst ==
  /\ \A t \in Threads : Active(t) /\ call[t].id \in signalled => Answered(call[t].id)
  /\ \A t \in Threads, h \in Hosts :
       (Active(t) /\ receiver[h] = "set" /\ call[t].id \in held[h]) => Answered(call[t].id)

\* A call that is not woken yet is overlooked, or in the hands of a receiver, or
\* registered, and once it waits, registered with a receiver that serves it.
Awaiting(t) ==
  call[t].pc \in {"send", "wait"} /\ Waits(call[t].kind) /\ call[t].id \notin signalled
Served == \E h \in Hosts : receiver[h] \in {"recv", "store", "set"}
InHand(id) == \E h \in Hosts : id \in held[h]
Registered ==
  \A t \in Threads : Awaiting(t) =>
    \/ call[t].id \in overlooked
    \/ InHand(call[t].id)
    \/ call[t].id \in pending /\ (call[t].pc = "wait" => Served)

\* The workers are started one after the other as well, and until a call is
\* overlooked only the current one is at work.
WorkersInOrder ==
  /\ WorkersStarted \in 0 .. MaxWorkers
  /\ \A w \in Workers : wpc[w] # "none" <=> w <= WorkersStarted
OneWorker ==
  overlooked = {} => \A w \in Workers : w # worker => wpc[w] \in {"none", "exited"}

Processes == StartedInOrder /\ Operating /\ Attended /\ OnlyHost
Calls == OwnIds /\ Calling /\ AnswersFirst /\ Registered
WorkerLives == WorkersInOrder /\ OneWorker
ClientInv == TypeOK /\ Processes /\ Calls /\ WorkerLives /\ AnswersFound

-----------------------------------------------------------------------------
(* Sequences and sets.                                                     *)

LEMMA FirstOfSome ==
  ASSUME NEW S, NEW s \in Seq(S), s # << >>
  PROVE  First(s) = s[1] /\ Head(s) = s[1] /\ s[1] \in S /\ Len(s) \in Nat \ {0}
BY DEF First

LEMMA FirstIs ==
  ASSUME NEW S, NEW s \in Seq(S), NEW a, a # "end"
  PROVE  (s # << >> /\ Head(s) = a) <=> First(s) = a
BY DEF First

LEMMA TailOrdered ==
  ASSUME NEW s, WellOrdered(s), s # << >>
  PROVE  WellOrdered(Tail(s)) /\ Follows(First(s), First(Tail(s)))
<1>0. s \in Seq(StepNames) /\ Len(s) \in Nat \ {0} /\ DOMAIN s = 1 .. Len(s)
  BY DEF WellOrdered
<1> DEFINE t == Tail(s)
<1>1. t \in Seq(StepNames) /\ Len(t) = Len(s) - 1 /\ DOMAIN t = 1 .. Len(t)
  BY <1>0
<1>2. \A k \in DOMAIN t : t[k] = s[k + 1]
  BY <1>0
<1>3. t = << >> <=> Len(t) = 0
  BY <1>1
<1> HIDE DEF t
<1>4. \A k \in DOMAIN t : k + 1 \in DOMAIN s /\ NextOf(t, k) = NextOf(s, k + 1)
  BY <1>0, <1>1, <1>2 DEF NextOf
<1>5. WellOrdered(t)
  BY <1>1, <1>2, <1>4 DEF WellOrdered
<1>6. First(t) = NextOf(s, 1)
  BY <1>0, <1>1, <1>2, <1>3 DEF First, NextOf
<1>7. First(s) = s[1] /\ 1 \in DOMAIN s
  BY <1>0 DEF First
<1>8. Follows(s[1], NextOf(s, 1))
  BY <1>7 DEF WellOrdered
<1> QED
  BY <1>5, <1>6, <1>7, <1>8 DEF t

LEMMA JoinedOrdered ==
  ASSUME NEW s, NEW t, WellOrdered(s), WellOrdered(t), s # << >>,
         Follows(s[Len(s)], First(t))
  PROVE  /\ WellOrdered(s \o t) /\ s \o t # << >> /\ First(s \o t) = s[1]
         /\ t # << >> => (s \o t)[Len(s \o t)] = t[Len(t)]
<1>0. /\ s \in Seq(StepNames) /\ t \in Seq(StepNames)
      /\ DOMAIN s = 1 .. Len(s) /\ DOMAIN t = 1 .. Len(t)
      /\ Len(s) \in Nat \ {0} /\ Len(t) \in Nat
  BY DEF WellOrdered
<1> DEFINE j == s \o t
<1>1. j \in Seq(StepNames) /\ Len(j) = Len(s) + Len(t) /\ DOMAIN j = 1 .. Len(j)
  BY <1>0
<1>2. /\ \A k \in 1 .. Len(s) : j[k] = s[k]
      /\ \A k \in 1 .. Len(t) : j[Len(s) + k] = t[k]
  BY <1>0
<1>3. t = << >> <=> Len(t) = 0
  BY <1>0
<1> HIDE DEF j
<1>4. \A k \in 1 .. Len(s) - 1 : k \in DOMAIN s /\ NextOf(j, k) = NextOf(s, k)
  BY <1>0, <1>1, <1>2 DEF NextOf
<1>5. NextOf(j, Len(s)) = First(t)
  <2>1. CASE t = << >>
    BY <2>1, <1>0, <1>1, <1>3 DEF NextOf, First
  <2>2. CASE t # << >>
    <3>1. 1 \in 1 .. Len(t) /\ First(t) = t[1] /\ Len(s) < Len(j)
      BY <2>2, <1>0, <1>1, <1>3 DEF First
    <3>2. j[Len(s) + 1] = t[1]
      BY <3>1, <1>2
    <3> QED
      BY <3>1, <3>2 DEF NextOf
  <2> QED
    BY <2>1, <2>2
<1>6. \A k \in 1 .. Len(t) : NextOf(j, Len(s) + k) = NextOf(t, k)
  <2> SUFFICES ASSUME NEW k \in 1 .. Len(t) PROVE NextOf(j, Len(s) + k) = NextOf(t, k)
    OBVIOUS
  <2>1. CASE k < Len(t)
    <3>1. k + 1 \in 1 .. Len(t) /\ Len(s) + k < Len(j) /\ (Len(s) + k) + 1 = Len(s) + (k + 1)
      BY <2>1, <1>0, <1>1
    <3>2. j[Len(s) + (k + 1)] = t[k + 1]
      BY <3>1, <1>2
    <3> QED
      BY <2>1, <3>1, <3>2 DEF NextOf
  <2>2. CASE ~(k < Len(t))
    BY <2>2, <1>0, <1>1 DEF NextOf
  <2> QED
    BY <2>1, <2>2
<1>7. \A k \in DOMAIN j : Follows(j[k], NextOf(j, k))
  <2> SUFFICES ASSUME NEW k \in DOMAIN j PROVE Follows(j[k], NextOf(j, k))
    OBVIOUS
  <2>1. CASE k \in 1 .. Len(s) - 1
    <3>1. k \in DOMAIN s /\ j[k] = s[k] /\ NextOf(j, k) = NextOf(s, k)
      BY <2>1, <1>0, <1>2, <1>4
    <3> QED
      BY <3>1 DEF WellOrdered
  <2>2. CASE k = Len(s)
    BY <2>2, <1>0, <1>2, <1>5
  <2>3. CASE k \notin 1 .. Len(s)
    <3> DEFINE i == k - Len(s)
    <3>1. i \in 1 .. Len(t) /\ k = Len(s) + i
      BY <2>3, <1>0, <1>1
    <3> HIDE DEF i
    <3>2. j[k] = t[i] /\ NextOf(j, k) = NextOf(t, i) /\ i \in DOMAIN t
      BY <3>1, <1>0, <1>2, <1>6
    <3> QED
      BY <3>2 DEF WellOrdered
  <2> QED
    BY <1>0, <2>1, <2>2, <2>3
<1>8. First(j) = s[1] /\ j # << >>
  BY <1>0, <1>1, <1>2 DEF First
<1>9. t # << >> => j[Len(j)] = t[Len(t)]
  BY <1>0, <1>1, <1>2, <1>3
<1> QED
  BY <1>1, <1>7, <1>8, <1>9 DEF WellOrdered, j

LEMMA SameSequence ==
  ASSUME NEW S, NEW c \in Seq(S), NEW d \in Seq(S), Len(c) = Len(d),
         \A k \in 1 .. Len(c) : c[k] = d[k]
  PROVE  c = d
OBVIOUS

LEMMA ThirdTail ==
  ASSUME NEW S, NEW s \in Seq(S), s # << >>, Tail(s) # << >>, Tail(Tail(s)) # << >>
  PROVE  SubSeq(s, 4, Len(s)) = Tail(Tail(Tail(s)))
<1> DEFINE a == Tail(s)
           b == Tail(a)
           c == Tail(b)
           d == SubSeq(s, 4, Len(s))
<1>1. Len(s) \in Nat \ {0} /\ a \in Seq(S) /\ Len(a) = Len(s) - 1
      /\ \A k \in 1 .. Len(a) : a[k] = s[k + 1]
  OBVIOUS
<1>2. a # << >>
  OBVIOUS
<1> HIDE DEF a
<1>3. Len(a) \in Nat \ {0} /\ b \in Seq(S) /\ Len(b) = Len(a) - 1
      /\ \A k \in 1 .. Len(b) : b[k] = a[k + 1]
  BY <1>1, <1>2
<1>4. b # << >>
  BY DEF a
<1> HIDE DEF b
<1>5. Len(b) \in Nat \ {0} /\ c \in Seq(S) /\ Len(c) = Len(b) - 1
      /\ \A k \in 1 .. Len(c) : c[k] = b[k + 1]
  BY <1>3, <1>4
<1> HIDE DEF c
<1>6. \A k \in 1 .. Len(c) : c[k] = s[k + 3]
  <2> SUFFICES ASSUME NEW k \in 1 .. Len(c) PROVE c[k] = s[k + 3]
    OBVIOUS
  <2>1. k + 1 \in 1 .. Len(b) /\ k + 2 \in 1 .. Len(a) /\ (k + 1) + 1 = k + 2 /\ (k + 2) + 1 = k + 3
    BY <1>1, <1>3, <1>5
  <2> QED
    BY <2>1, <1>1, <1>3, <1>5
<1>7. Len(c) \in Nat /\ Len(c) = Len(s) - 3
  BY <1>1, <1>3, <1>5
<1>8. d \in Seq(S) /\ Len(d) = Len(s) - 3 /\ \A k \in 1 .. Len(d) : d[k] = s[k + 3]
  BY <1>7
<1> HIDE DEF d
<1>9. c \in Seq(S) /\ d \in Seq(S) /\ Len(c) = Len(d) /\ \A k \in 1 .. Len(c) : c[k] = d[k]
  BY <1>5, <1>6, <1>7, <1>8
<1>10. c = d
  BY <1>9, SameSequence
<1> QED
  BY <1>10 DEF a, b, c, d

LEMMA OneOrdered ==
  ASSUME NEW a \in StepNames, Follows(a, "end")
  PROVE  WellOrdered(<< a >>) /\ First(<< a >>) = a
BY DEF WellOrdered, NextOf, First

\* How many there are when they are the first n.
LEMMA CountOfFirst ==
  ASSUME NEW N \in Nat, NEW f, NEW n \in 0 .. N,
         \A k \in 1 .. N : f[k] # "none" <=> k <= n
  PROVE  Cardinality({k \in 1 .. N : f[k] # "none"}) = n
<1>1. {k \in 1 .. N : f[k] # "none"} = 1 .. n
  OBVIOUS
<1>2. Cardinality(1 .. n) = n
  BY FS_Interval
<1> QED
  BY <1>1, <1>2

LEMMA CountType ==
  ASSUME NEW N \in Nat, NEW f
  PROVE  Cardinality({k \in 1 .. N : f[k] # "none"}) \in Nat
<1>1. IsFiniteSet(1 .. N)
  BY FS_Interval
<1>2. IsFiniteSet({k \in 1 .. N : f[k] # "none"})
  BY <1>1, FS_Subset
<1> QED
  BY <1>2, FS_CardinalityType

-----------------------------------------------------------------------------
(* The operations are well ordered and begin without needing anything.     *)

LEMMA StopWorkerOrdered == WellOrdered(StopWorker) /\ StopWorker # << >> /\ First(StopWorker) = "stopWorker"
BY DEF StopWorker, WellOrdered, StepNames, NextOf, First, Follows

LEMMA ShutdownOrdered ==
  /\ WellOrdered(Shutdown) /\ Shutdown # << >>
  /\ First(Shutdown) = "delete" /\ Shutdown[1] = "delete" /\ Shutdown[Len(Shutdown)] = "terminate"
BY DEF Shutdown, WellOrdered, StepNames, Kinds, NextOf, First, Follows

LEMMA StopOrdered ==
  /\ WellOrdered(Stop) /\ Stop # << >>
  /\ First(Stop) = "cancel" /\ Stop[1] = "cancel" /\ Stop[Len(Stop)] = "stop"
BY DEF Stop, WellOrdered, StepNames, Kinds, NextOf, First, Follows

LEMMA InitializeOrdered ==
  /\ WellOrdered(Initialize) /\ Initialize # << >>
  /\ First(Initialize) = "ensureStarted" /\ Initialize[1] = "ensureStarted"
  /\ Initialize[Len(Initialize)] = "ensureWorker"
BY DEF Initialize, WellOrdered, StepNames, Kinds, NextOf, First, Follows

LEMMA OneStep ==
  ASSUME NEW a
  PROVE  << a >> # << >> /\ Len(<< a >>) = 1 /\ << a >>[1] = a
OBVIOUS

LEMMA FailedOrdered == WellOrdered(Failed) /\ First(Failed) = "shutdown"
<1>1. WellOrdered(<< "shutdown" >>)
  BY OneOrdered DEF StepNames, Follows
<1>2. Follows("shutdown", First(StopWorker))
  BY StopWorkerOrdered DEF Follows
<1> DEFINE s == << "shutdown" >>
<1>3. s # << >> /\ Len(s) = 1 /\ s[1] = "shutdown"
  BY OneStep
<1> HIDE DEF s
<1>4. WellOrdered(s)
  BY <1>1 DEF s
<1>5. WellOrdered(s \o StopWorker) /\ First(s \o StopWorker) = "shutdown"
  BY <1>2, <1>3, <1>4, StopWorkerOrdered, JoinedOrdered
<1> QED
  BY <1>5 DEF Failed, s

LEMMA SetSampleRateOrdered == WellOrdered(SetSampleRate) /\ First(SetSampleRate) = "cancel"
<1> DEFINE s == << "shutdown" >>
           p == << "setParam" >>
<1>1. /\ s # << >> /\ Len(s) = 1 /\ s[1] = "shutdown" /\ First(s) = "shutdown"
      /\ p # << >> /\ Len(p) = 1 /\ p[1] = "setParam" /\ First(p) = "setParam"
  BY OneStep DEF First
<1>2. WellOrdered(s) /\ WellOrdered(p)
  BY OneOrdered DEF StepNames, Kinds, Follows
<1> HIDE DEF s, p
<1> DEFINE a == Stop \o s
           b == a \o Initialize
<1>3. WellOrdered(a) /\ a # << >> /\ First(a) = "cancel" /\ a[Len(a)] = "shutdown"
  <2>1. Follows(Stop[Len(Stop)], First(s))
    BY <1>1, StopOrdered DEF Follows
  <2>2. /\ WellOrdered(Stop \o s) /\ Stop \o s # << >> /\ First(Stop \o s) = Stop[1]
        /\ (Stop \o s)[Len(Stop \o s)] = s[Len(s)]
    BY <1>1, <1>2, <2>1, StopOrdered, JoinedOrdered
  <2> QED
    BY <1>1, <2>2, StopOrdered
<1> HIDE DEF a
<1>4. WellOrdered(b) /\ b # << >> /\ First(b) = a[1] /\ b[Len(b)] = "ensureWorker"
  <2>1. Follows(a[Len(a)], First(Initialize))
    BY <1>3, InitializeOrdered DEF Follows
  <2>2. /\ WellOrdered(a \o Initialize) /\ a \o Initialize # << >>
        /\ First(a \o Initialize) = a[1]
        /\ (a \o Initialize)[Len(a \o Initialize)] = Initialize[Len(Initialize)]
    BY <1>3, <2>1, InitializeOrdered, JoinedOrdered
  <2> QED
    BY <2>2, InitializeOrdered
<1> HIDE DEF b
<1>5. WellOrdered(b \o p) /\ First(b \o p) = b[1]
  <2>1. Follows(b[Len(b)], First(p))
    BY <1>1, <1>4 DEF Follows
  <2> QED
    BY <1>2, <1>4, <2>1, JoinedOrdered
<1>6. First(a) = a[1] /\ First(b) = b[1]
  BY <1>3, <1>4 DEF First
<1> QED
  BY <1>3, <1>4, <1>5, <1>6 DEF SetSampleRate, a, b, s, p

LEMMA OperationsOrdered ==
  ASSUME NEW o \in DOMAIN Operations
  PROVE  WellOrdered(Operations[o]) /\ First(Operations[o]) \notin Hostless
<1>1. CASE o = "Initialize"
  BY <1>1, InitializeOrdered DEF Operations, Hostless
<1>2. CASE o = "SetParam"
  <2>1. WellOrdered(<< "setParam" >>) /\ First(<< "setParam" >>) = "setParam"
    BY OneOrdered DEF StepNames, Kinds, Follows
  <2> QED
    BY <1>2, <2>1 DEF Operations, Hostless
<1>3. CASE o = "Stop"
  BY <1>3, StopOrdered DEF Operations, Hostless
<1>4. CASE o = "Speak"
  <2>1. WellOrdered(<< "speak", "ensureWorker" >>) /\ First(<< "speak", "ensureWorker" >>) = "speak"
    BY DEF WellOrdered, StepNames, NextOf, First, Follows
  <2> QED
    BY <1>4, <2>1 DEF Operations, Hostless
<1>5. CASE o = "SetSampleRate"
  BY <1>5, SetSampleRateOrdered DEF Operations, Hostless
<1>6. CASE o = "Terminate"
  BY <1>6, FailedOrdered DEF Operations, Hostless, Terminate, Failed
<1> QED
  BY <1>1, <1>2, <1>3, <1>4, <1>5, <1>6 DEF Operations

-----------------------------------------------------------------------------
(* Types.                                                                  *)

LEMMA OneMore ==
  ASSUME NEW S, NEW s \in Seq(S), NEW e \in S
  PROVE  Append(s, e) \in Seq(S) /\ Len(Append(s, e)) = Len(s) + 1 /\ Len(s) \in Nat
OBVIOUS

LEMMA OneLess ==
  ASSUME NEW S, NEW s \in Seq(S), s # << >>
  PROVE  Tail(s) \in Seq(S) /\ Head(s) \in S /\ Len(Tail(s)) = Len(s) - 1 /\ Len(s) \in Nat \ {0}
OBVIOUS

LEMMA SameLength ==
  ASSUME NEW S, NEW s \in Seq(S), NEW f(_), \A k \in DOMAIN s : f(k) \in S
  PROVE  [k \in DOMAIN s |-> f(k)] \in Seq(S)
OBVIOUS

LEMMA Wider ==
  ASSUME NEW S, NEW T, S \subseteq T, NEW s \in Seq(S)
  PROVE  s \in Seq(T)
OBVIOUS

LEMMA Put_Type ==
  ASSUME NEW I, NEW N, NEW R \in SUBSET [id : I, from : N], NEW ids \in SUBSET I, NEW f \in N
  PROVE  R \union [id : ids, from : {f}] \in SUBSET [id : I, from : N]
OBVIOUS

Requests == [pc : {"send"}, id : Ids, kind : Kinds]
CallStates == [pc : {"idle", "send", "wait", "giveUp"}, id : Ids, kind : Kinds]

HostTypes ==
  /\ host \in 0 .. MaxHosts
  /\ process \in [Hosts -> {"none", "up", "wedged", "exited"}]
  /\ closed \in [Hosts -> BOOLEAN]
  /\ receiver \in [Hosts -> {"none", "recv", "store", "set", "fail", "clear", "done"}]
  /\ faults \in 0 .. MaxFaults /\ timeouts \in 0 .. MaxTimeouts

PipeTypes ==
  /\ inbox \in [Hosts -> Seq(Requests)] /\ outbox \in [Hosts -> Seq(Ids)]
  /\ \A h \in Hosts : Len(inbox[h]) <= PipeCapacity

TableTypes ==
  /\ nextId \in Nat /\ held \in [Hosts -> SUBSET Ids]
  /\ pending \subseteq Ids /\ signalled \subseteq Ids /\ overlooked \subseteq Ids
  /\ responses \subseteq [id : Ids, from : 0 .. MaxHosts]
  /\ unanswered \subseteq Ids

CallTypes == lock \in Threads \union {Free} /\ call \in [Threads -> CallStates]

MainTypes == todo \in Seq(StepNames) /\ script \in Seq(DOMAIN Operations)

WorkerTypes ==
  /\ synthQueue \in Seq({"utterance", "stale", "None"}) /\ stopFlag \in BOOLEAN
  /\ worker \in 0 .. MaxWorkers
  /\ wpc \in [Workers -> {"none", "get", "call", "exited"}]

LEMMA TypeParts ==
  TypeOK <=> HostTypes /\ PipeTypes /\ TableTypes /\ CallTypes /\ MainTypes /\ WorkerTypes
BY DEF TypeOK, HostTypes, PipeTypes, TableTypes, CallTypes, MainTypes, WorkerTypes,
       Requests, CallStates

LEMMA InitTypes == Init => TypeOK
<1> SUFFICES ASSUME Init PROVE TypeOK
  OBVIOUS
<1>1. HostTypes
  BY HostClientAssumption DEF Init, HostTypes
<1>2. PipeTypes
  <2>1. << >> \in Seq(Requests) /\ << >> \in Seq(Ids) /\ Len(<< >>) = 0
    OBVIOUS
  <2> QED
    BY <2>1, HostClientAssumption DEF Init, PipeTypes
<1>3. TableTypes
  BY DEF Init, TableTypes
<1>4. CallTypes
  BY DEF Init, CallTypes, NoCall, CallStates, Kinds, Ids, Threads
<1>5. MainTypes
  BY ScriptAssumption DEF Init, MainTypes
<1>6. WorkerTypes
  <2>1. synthQueue \in Seq({"utterance", "stale", "None"})
    BY DEF Init
  <2>2. worker \in 0 .. MaxWorkers /\ wpc \in [Workers -> {"none", "get", "call", "exited"}]
    BY HostClientAssumption DEF Init
  <2>3. stopFlag \in BOOLEAN
    BY DEF Init
  <2> QED
    BY <2>1, <2>2, <2>3 DEF WorkerTypes
<1> QED
  BY <1>1, <1>2, <1>3, <1>4, <1>5, <1>6, TypeParts

-----------------------------------------------------------------------------
(* What a call does to the steps before its thread.                        *)

\* The call returns, and its thread goes on to its next step, or to clean up.
Returned(t) ==
  IF t = Main
    THEN /\ todo' = Tail(todo) \/ (First(todo) = "initialize" /\ todo' = Failed)
         /\ wpc' = wpc
    ELSE wpc' = [wpc EXCEPT ![t] = "get"] /\ todo' = todo
NotReturned == todo' = todo /\ wpc' = wpc

Begins(t, kind) ==
  CallBegins(t, kind) /\ IF t = Main THEN Step(kind)
                         ELSE wpc[t] = "call" /\ kind = "synthesize"

LEMMA ReturnsReturned ==
  ASSUME NEW t, NEW ok, todo \in Seq(StepNames), Returns(t, ok)
  PROVE  Returned(t)
<1>1. Step("initialize") => First(todo) = "initialize"
  BY FirstIs DEF Step
<1> QED
  BY <1>1 DEF Returns, Returned

LEMMA CallSteps ==
  ASSUME todo \in Seq(StepNames), NEW t \in Threads
  PROVE  /\ \A kind : CallBegins(t, kind) => (host = 0 /\ Returned(t)) \/ (host # 0 /\ NotReturned)
         /\ CallSends(t) => Returned(t) \/ NotReturned
         /\ CallSends(t) /\ ~Waits(call[t].kind) => Returned(t)
         /\ CallFails(t) => Returned(t)
         /\ CallCollects(t) => Returned(t)
         /\ CallTimesOut(t) => NotReturned
         /\ CallGivesUp(t) => Returned(t)
<1>1. ASSUME NEW kind, CallBegins(t, kind) PROVE (host = 0 /\ Returned(t)) \/ (host # 0 /\ NotReturned)
  BY <1>1, ReturnsReturned DEF CallBegins, NotReturned
<1>2. ASSUME CallSends(t) PROVE (Returned(t) \/ NotReturned) /\ (~Waits(call[t].kind) => Returned(t))
  BY <1>2, ReturnsReturned DEF CallSends, NotReturned
<1>3. ASSUME CallFails(t) PROVE Returned(t)
  BY <1>3, ReturnsReturned DEF CallFails
<1>4. ASSUME CallCollects(t) PROVE Returned(t)
  BY <1>4, ReturnsReturned DEF CallCollects
<1>5. ASSUME CallTimesOut(t) PROVE NotReturned
  BY <1>5 DEF CallTimesOut, NotReturned
<1>6. ASSUME CallGivesUp(t) PROVE Returned(t)
  BY <1>6, ReturnsReturned DEF CallGivesUp
<1> QED
  BY <1>1, <1>2, <1>3, <1>4, <1>5, <1>6

LEMMA TypePartsThen ==
  (HostTypes' /\ PipeTypes' /\ TableTypes' /\ CallTypes' /\ MainTypes' /\ WorkerTypes') => TypeOK'
BY DEF TypeOK, HostTypes, PipeTypes, TableTypes, CallTypes, MainTypes, WorkerTypes,
       Requests, CallStates

LEMMA ReturnTypes ==
  ASSUME MainTypes, WorkerTypes, NEW t \in Threads, Returned(t) \/ NotReturned,
         t = Main => todo # << >>, UNCHANGED aroundCalls
  PROVE  MainTypes' /\ WorkerTypes'
<1>1. Failed \in Seq(StepNames)
  BY FailedOrdered DEF WellOrdered
<1>2. todo' \in Seq(StepNames)
  BY <1>1, OneLess DEF MainTypes, Returned, NotReturned
<1>3. wpc' \in [Workers -> {"none", "get", "call", "exited"}]
  BY DEF WorkerTypes, Returned, NotReturned, Threads, Main
<1> QED
  BY <1>2, <1>3 DEF MainTypes, WorkerTypes, aroundCalls

LEMMA CallTypesThen ==
  ASSUME TypeOK, NEW t \in Threads, t = Main => todo # << >>,
         (\E kind \in Kinds : CallBegins(t, kind)) \/ CallProceeds(t)
  PROVE  TypeOK'
<1> USE DEF hostSide, processVars, receiverVars, aroundCalls, tables
<1>0. HostTypes /\ PipeTypes /\ TableTypes /\ CallTypes /\ MainTypes /\ WorkerTypes
  BY TypeParts
<1>1. ASSUME NEW kind \in Kinds, CallBegins(t, kind) PROVE TypeOK'
  <2>6. /\ nextId \in Nat /\ nextId' \in {nextId, nextId + 1}
        /\ nextId' = nextId \/ (host # 0 /\ nextId' = nextId + 1)
        /\ host = 0 => nextId' = nextId
    BY <1>0, <1>1 DEF CallBegins, TableTypes
  <2>0. Ids \subseteq Ids' /\ nextId \in Ids' /\ nextId' \in Nat
    BY <2>6 DEF Ids
  <2>1. HostTypes'
    BY <1>0, <1>1 DEF CallBegins, HostTypes
  <2>2. PipeTypes'
    <3>1. Requests \subseteq Requests'
      BY <2>0 DEF Requests
    <3>2. \A h \in Hosts : inbox[h] \in Seq(Requests') /\ outbox[h] \in Seq(Ids')
      BY <1>0, <2>0, <3>1, Wider DEF PipeTypes
    <3>3. inbox' = inbox /\ outbox' = outbox
      BY <1>1 DEF CallBegins
    <3> QED
      BY <1>0, <3>2, <3>3 DEF PipeTypes
  <2>3. TableTypes'
    <3>1. held' = held /\ overlooked' = overlooked /\ responses' = responses /\ signalled' = signalled /\ unanswered' = unanswered
      BY <1>1 DEF CallBegins
    <3>2. pending' \subseteq pending \union {nextId}
      BY <1>1 DEF CallBegins
    <3> QED
      BY <1>0, <2>0, <3>1, <3>2 DEF TableTypes
  <2>4. CallTypes'
    <3>1. CallStates \subseteq CallStates'
      BY <2>0 DEF CallStates
    <3>2. lock' \in {lock, t}
      BY <1>1 DEF CallBegins
    <3>3. \/ call' = call
          \/ call' = [call EXCEPT ![t] = [pc |-> "send", id |-> nextId, kind |-> kind]]
      BY <1>1 DEF CallBegins
    <3>4. [pc |-> "send", id |-> nextId, kind |-> kind] \in CallStates'
      BY <2>0 DEF CallStates
    <3> QED
      BY <1>0, <3>1, <3>2, <3>3, <3>4 DEF CallTypes
  <2>5. MainTypes' /\ WorkerTypes'
    <3>1. Returned(t) \/ NotReturned
      BY <1>0, <1>1, CallSteps DEF MainTypes
    <3> QED
      BY <1>0, <1>1, <3>1, ReturnTypes DEF CallBegins
  <2> QED
    BY <2>1, <2>2, <2>3, <2>4, <2>5, TypePartsThen
<1>2. ASSUME CallProceeds(t) PROVE TypeOK'
  <2>1. CallSends(t) \/ CallFails(t) \/ CallCollects(t) \/ CallTimesOut(t) \/ CallGivesUp(t)
    BY <1>2 DEF CallProceeds
  <2>2. nextId' = nextId /\ Ids' = Ids
    BY <2>1 DEF CallSends, CallFails, CallCollects, CallTimesOut, CallGivesUp, Ids
  <2>3. Requests' = Requests /\ CallStates' = CallStates
    BY <2>2 DEF Requests, CallStates
  <2>4. HostTypes'
    <3>0. timeouts' = timeouts \/ TimePasses
      BY <2>1 DEF CallSends, CallFails, CallCollects, CallTimesOut, CallGivesUp
    <3>1. timeouts' \in 0 .. MaxTimeouts
      BY <1>0, <3>0, HostClientAssumption DEF HostTypes, TimePasses
    <3> QED
      BY <1>0, <2>1, <3>1 DEF CallSends, CallFails, CallCollects, CallTimesOut, CallGivesUp, HostTypes
  <2>5. PipeTypes'
    <3>1. CASE CallSends(t)
      <4>1. host \in Hosts
        BY <1>0, <3>1 DEF CallSends, Reachable, HostTypes, Hosts
      <4>2. call[t] \in Requests
        BY <1>0, <3>1 DEF CallSends, CallTypes, CallStates, Requests
      <4>3. Len(inbox[host]) < PipeCapacity /\ inbox[host] \in Seq(Requests)
        BY <1>0, <3>1, <4>1 DEF CallSends, HasRoom, PipeTypes
      <4>4. inbox' = [inbox EXCEPT ![host] = Append(inbox[host], call[t])] /\ outbox' = outbox
        BY <3>1 DEF CallSends
      <4>5. /\ Append(inbox[host], call[t]) \in Seq(Requests)
            /\ Len(Append(inbox[host], call[t])) <= PipeCapacity
        BY <4>2, <4>3, OneMore, HostClientAssumption
      <4> QED
        BY <1>0, <2>2, <2>3, <4>4, <4>5 DEF PipeTypes
    <3>2. CASE ~CallSends(t)
      BY <1>0, <2>1, <2>2, <2>3, <3>2 DEF CallFails, CallCollects, CallTimesOut, CallGivesUp, PipeTypes
    <3> QED
      BY <3>1, <3>2
  <2>6. TableTypes'
    <3>1. /\ held' = held /\ overlooked' = overlooked /\ signalled' = signalled
          /\ pending' \subseteq pending /\ responses' \subseteq responses
      BY <2>1 DEF CallSends, CallFails, CallCollects, CallTimesOut, CallGivesUp
    <3>2. unanswered' \subseteq unanswered \union {call[t].id}
      BY <2>1 DEF CallSends, CallFails, CallCollects, CallTimesOut, CallGivesUp
    <3>3. call[t].id \in Ids
      BY <1>0 DEF CallTypes, CallStates
    <3> QED
      BY <1>0, <2>2, <3>1, <3>2, <3>3 DEF TableTypes
  <2>7. CallTypes'
    <3>1. lock' \in {lock, Free}
      BY <2>1 DEF CallSends, CallFails, CallCollects, CallTimesOut, CallGivesUp, LockAfterFailure
    <3>2. \E p \in {"wait", "giveUp"} : call' \in {[call EXCEPT ![t].pc = p], [call EXCEPT ![t] = NoCall]}
      BY <2>1 DEF CallSends, CallFails, CallCollects, CallTimesOut, CallGivesUp
    <3>3. NoCall \in CallStates
      BY <1>0 DEF NoCall, CallStates, Kinds, Ids, TableTypes
    <3>4. \A p \in {"wait", "giveUp"} : [call[t] EXCEPT !.pc = p] \in CallStates
      BY <1>0 DEF CallTypes, CallStates
    <3> QED
      BY <1>0, <2>3, <3>1, <3>2, <3>3, <3>4 DEF CallTypes
  <2>8. MainTypes' /\ WorkerTypes'
    <3>1. Returned(t) \/ NotReturned
      BY <1>0, <2>1, CallSteps DEF MainTypes
    <3>2. UNCHANGED aroundCalls
      BY <2>1 DEF CallSends, CallFails, CallCollects, CallTimesOut, CallGivesUp
    <3> QED
      BY <1>0, <3>1, <3>2, ReturnTypes
  <2> QED
    BY <2>4, <2>5, <2>6, <2>7, <2>8, TypePartsThen
<1> QED
  BY <1>1, <1>2

LEMMA StepIs ==
  ASSUME todo \in Seq(StepNames)
  PROVE  /\ \A name : name # "end" => (Step(name) <=> First(todo) = name)
         /\ \A name : Step(name) => todo # << >>
BY FirstIs DEF Step

MainMoves ==
  \/ NextOperation \/ Speaks \/ Cancels \/ EnsuresStarted \/ Handshakes \/ ShutsDown
  \/ JoinsReceiver \/ ClosesConnection \/ Terminates \/ EnsuresWorker \/ StopsWorker
  \/ PutsNone \/ JoinsWorker

LEMMA MainFrames ==
  ASSUME MainMoves
  PROVE  /\ UNCHANGED << inbox, outbox, faults, held, overlooked, tables, callVars >>
         /\ ~(EnsuresStarted \/ Handshakes \/ ClosesConnection \/ Terminates)
              => UNCHANGED << host, process, closed, receiver, timeouts >>
         /\ ~(EnsuresWorker \/ StopsWorker \/ JoinsWorker) => UNCHANGED << stopFlag, worker, wpc >>
         /\ ~(Speaks \/ Cancels \/ PutsNone) => UNCHANGED synthQueue
         /\ ~NextOperation => UNCHANGED script
<1> USE DEF processVars, receiverVars, tables, callVars, workerVars, hostSide, mainAlone
<1>1. NextOperation => /\ UNCHANGED << hostSide, workerVars, callVars, tables, host, timeouts >>
  BY DEF NextOperation
<1>2. Speaks \/ Cancels \/ PutsNone => UNCHANGED << mainAlone, processVars, host, stopFlag, worker, wpc >>
  BY DEF Speaks, Cancels, PutsNone
<1>3. EnsuresStarted => UNCHANGED << mainAlone, workerVars, host, inbox, outbox, closed, faults >>
  BY DEF EnsuresStarted
<1>4. Handshakes => UNCHANGED << inbox, outbox, closed, faults, held, overlooked, tables, callVars,
                                 script, workerVars >>
  BY DEF Handshakes
<1>5. ShutsDown \/ JoinsReceiver => UNCHANGED << mainAlone, processVars, workerVars, host >>
  BY DEF ShutsDown, JoinsReceiver
<1>6. ClosesConnection => UNCHANGED << mainAlone, workerVars, host, process, inbox, outbox, faults >>
  BY DEF ClosesConnection
<1>7. Terminates => UNCHANGED << mainAlone, workerVars, inbox, outbox, closed, faults >>
  BY DEF Terminates
<1>8. EnsuresWorker \/ JoinsWorker => UNCHANGED << mainAlone, processVars, host, synthQueue >>
  BY DEF EnsuresWorker, JoinsWorker
<1>9. StopsWorker => UNCHANGED << mainAlone, processVars, host, synthQueue, worker, wpc >>
  BY DEF StopsWorker
<1> QED
  BY <1>1, <1>2, <1>3, <1>4, <1>5, <1>6, <1>7, <1>8, <1>9 DEF MainMoves

\* What is before the main thread, after a step of its own.
LEMMA TodoThen ==
  ASSUME TypeOK, WellOrdered(todo), MainMoves
  PROVE  WellOrdered(todo')
<1>1. CASE NextOperation
  <2>1. /\ script # << >> /\ script \in Seq(DOMAIN Operations)
        /\ todo = << >> /\ todo' \in {<< >>, Operations[Head(script)]}
    BY <1>1 DEF NextOperation, TypeOK
  <2>2. Head(script) \in DOMAIN Operations
    BY <2>1, OneLess
  <2>3. WellOrdered(<< >>)
    BY DEF WellOrdered
  <2> QED
    BY <2>1, <2>2, <2>3, OperationsOrdered
<1>2. CASE EnsuresStarted
  <2>1. todo # << >> /\ First(todo) = "ensureStarted"
    BY <1>2, StepIs DEF EnsuresStarted, WellOrdered
  <2>2. WellOrdered(Tail(todo)) /\ First(Tail(todo)) = "handshake"
    BY <2>1, TailOrdered DEF Follows
  <2>3. Tail(todo) # << >>
    BY <2>2 DEF First
  <2>4. WellOrdered(Tail(Tail(todo)))
    BY <2>2, <2>3, TailOrdered
  <2>5. todo' \in {Tail(todo), Tail(Tail(todo))}
    BY <1>2 DEF EnsuresStarted, Done
  <2> QED
    BY <2>2, <2>4, <2>5
<1>3. CASE Handshakes
  <2>1. todo # << >> /\ todo' \in {Tail(todo), Failed}
    BY <1>3 DEF Handshakes, Step, Done
  <2> QED
    BY <2>1, TailOrdered, FailedOrdered
<1>4. CASE ShutsDown
  <2>1. todo # << >> /\ First(todo) = "shutdown" /\ todo' \in {Tail(todo), Shutdown \o Tail(todo)}
    BY <1>4, StepIs DEF ShutsDown, WellOrdered
  <2>2. WellOrdered(Tail(todo)) /\ Follows("shutdown", First(Tail(todo)))
    BY <2>1, TailOrdered
  <2>3. Follows("terminate", First(Tail(todo)))
    BY <2>2 DEF Follows
  <2> QED
    BY <2>1, <2>2, <2>3, ShutdownOrdered, JoinedOrdered
<1>5. CASE StopsWorker
  <2>1. todo # << >> /\ First(todo) = "stopWorker"
    BY <1>5, StepIs DEF StopsWorker, WellOrdered
  <2>2. WellOrdered(Tail(todo)) /\ First(Tail(todo)) = "putNone"
    BY <2>1, TailOrdered DEF Follows
  <2>3. Tail(todo) # << >>
    BY <2>2 DEF First
  <2>4. WellOrdered(Tail(Tail(todo))) /\ First(Tail(Tail(todo))) = "joinWorker"
    BY <2>2, <2>3, TailOrdered DEF Follows
  <2>5. Tail(Tail(todo)) # << >>
    BY <2>4 DEF First
  <2>6. WellOrdered(Tail(Tail(Tail(todo))))
    BY <2>4, <2>5, TailOrdered
  <2>7. SubSeq(todo, 4, Len(todo)) = Tail(Tail(Tail(todo)))
    BY <2>1, <2>3, <2>5, ThirdTail DEF WellOrdered
  <2>8. todo' \in {Tail(todo), SubSeq(todo, 4, Len(todo))}
    BY <1>5 DEF StopsWorker, Done
  <2> QED
    BY <2>2, <2>6, <2>7, <2>8
<1>6. CASE Speaks \/ Cancels \/ JoinsReceiver \/ ClosesConnection \/ Terminates \/ EnsuresWorker
           \/ PutsNone \/ JoinsWorker
  <2>1. todo # << >> /\ todo' = Tail(todo)
    BY <1>6 DEF Speaks, Cancels, JoinsReceiver, ClosesConnection, Terminates, EnsuresWorker,
       PutsNone, JoinsWorker, Step, Done
  <2> QED
    BY <2>1, TailOrdered
<1> QED
  BY <1>1, <1>2, <1>3, <1>4, <1>5, <1>6 DEF MainMoves

LEMMA MainTypesThen ==
  ASSUME TypeOK, StartedInOrder, Operating, MainMoves
  PROVE  TypeOK'
<1>0. HostTypes /\ PipeTypes /\ TableTypes /\ CallTypes /\ MainTypes /\ WorkerTypes
  BY TypeParts
<1>1. UNCHANGED << inbox, outbox, faults, held, overlooked, tables, callVars >>
  BY MainFrames
<1>2. Ids' = Ids /\ Requests' = Requests /\ CallStates' = CallStates
  BY <1>1 DEF Ids, Requests, CallStates, callVars
<1>3. PipeTypes' /\ TableTypes' /\ CallTypes'
  BY <1>0, <1>1, <1>2 DEF PipeTypes, TableTypes, CallTypes, callVars, tables
<1>4. HostTypes'
  <2>1. ASSUME EnsuresStarted PROVE HostTypes'
    <3>1. /\ UNCHANGED << host, closed, receiver, faults, timeouts >>
          /\ process' \in {process, [process EXCEPT ![Started + 1] = "up"]}
      BY <2>1 DEF EnsuresStarted, mainAlone, receiverVars
    <3> QED
      BY <1>0, <3>1 DEF HostTypes
  <2>2. ASSUME Handshakes PROVE HostTypes'
    <3>1. /\ UNCHANGED << closed, faults >>
          /\ process' \in {process, [process EXCEPT ![Started] = "exited"]}
          /\ receiver' \in {receiver, [receiver EXCEPT ![Started] = "recv"]}
          /\ host' \in {host, Started}
          /\ timeouts' = timeouts \/ TimePasses
      BY <2>2 DEF Handshakes, AfterFailedHandshake
    <3>2. host' \in 0 .. MaxHosts
      BY <1>0, <3>1 DEF HostTypes, StartedInOrder
    <3>3. timeouts' \in 0 .. MaxTimeouts
      BY <1>0, <3>1, HostClientAssumption DEF HostTypes, TimePasses
    <3> QED
      BY <1>0, <3>1, <3>2, <3>3 DEF HostTypes
  <2>3. ASSUME ClosesConnection PROVE HostTypes'
    <3>1. /\ UNCHANGED << host, process, receiver, faults, timeouts >>
          /\ closed' = [closed EXCEPT ![host] = TRUE]
      BY <2>3 DEF ClosesConnection, mainAlone, receiverVars
    <3> QED
      BY <1>0, <3>1 DEF HostTypes
  <2>4. ASSUME Terminates PROVE HostTypes'
    <3>1. /\ UNCHANGED << closed, receiver, faults, timeouts >> /\ host' = 0
          /\ process' = [process EXCEPT ![host] = "exited"]
      BY <2>4 DEF Terminates, mainAlone, receiverVars
    <3>2. host' \in 0 .. MaxHosts
      BY <3>1, HostClientAssumption
    <3>3. process' \in [Hosts -> {"none", "up", "wedged", "exited"}]
      BY <1>0, <3>1 DEF HostTypes
    <3> QED
      BY <1>0, <3>1, <3>2, <3>3 DEF HostTypes
  <2>5. CASE ~(EnsuresStarted \/ Handshakes \/ ClosesConnection \/ Terminates)
    <3>1. UNCHANGED << host, process, closed, receiver, faults, timeouts >>
      BY <1>1, <2>5, MainFrames
    <3> QED
      BY <1>0, <3>1 DEF HostTypes
  <2> QED
    BY <2>1, <2>2, <2>3, <2>4, <2>5
<1>5. MainTypes'
  <2>1. script' \in Seq(DOMAIN Operations)
    <3>1. CASE NextOperation
      BY <1>0, <3>1, OneLess DEF NextOperation, MainTypes
    <3>2. CASE ~NextOperation
      BY <1>0, <3>2, MainFrames DEF MainTypes
    <3> QED
      BY <3>1, <3>2
  <2>2. todo' \in Seq(StepNames)
    BY TodoThen DEF WellOrdered, Operating
  <2> QED
    BY <2>1, <2>2 DEF MainTypes
<1>6. WorkerTypes'
  <2>1. synthQueue' \in Seq({"utterance", "stale", "None"})
    <3>1. CASE Speaks \/ PutsNone
      <4>1. \E e \in {"utterance", "None"} : synthQueue' = Append(synthQueue, e)
        BY <3>1 DEF Speaks, PutsNone
      <4> QED
        BY <1>0, <4>1, OneMore DEF WorkerTypes
    <3>2. CASE Cancels
      BY <1>0, <3>2 DEF Cancels, WorkerTypes
    <3>3. CASE ~(Speaks \/ Cancels \/ PutsNone)
      BY <1>0, <3>3, MainFrames DEF WorkerTypes
    <3> QED
      BY <3>1, <3>2, <3>3
  <2>2. stopFlag' \in BOOLEAN
    <3>1. stopFlag' \in {stopFlag, TRUE, FALSE}
      BY MainFrames DEF EnsuresWorker, StopsWorker, JoinsWorker
    <3> QED
      BY <1>0, <3>1 DEF WorkerTypes
  <2>3. worker' \in 0 .. MaxWorkers /\ wpc' \in [Workers -> {"none", "get", "call", "exited"}]
    <3>1. CASE EnsuresWorker
      <4>1. WorkersStarted \in Nat
        BY CountType, HostClientAssumption DEF WorkersStarted, Workers
      <4>2. \/ UNCHANGED << worker, wpc >>
            \/ /\ WorkersStarted < MaxWorkers /\ worker' = WorkersStarted + 1
               /\ wpc' = [wpc EXCEPT ![WorkersStarted + 1] = "get"]
        BY <3>1 DEF EnsuresWorker
      <4> QED
        BY <1>0, <4>1, <4>2, HostClientAssumption DEF WorkerTypes
    <3>2. CASE StopsWorker \/ JoinsWorker
      <4>1. worker' \in {worker, 0} /\ wpc' = wpc
        BY <3>2 DEF StopsWorker, JoinsWorker
      <4> QED
        BY <1>0, <4>1, HostClientAssumption DEF WorkerTypes
    <3>3. CASE ~(EnsuresWorker \/ StopsWorker \/ JoinsWorker)
      BY <1>0, <3>3, MainFrames DEF WorkerTypes
    <3> QED
      BY <3>1, <3>2, <3>3
  <2> QED
    BY <2>1, <2>2, <2>3 DEF WorkerTypes
<1> QED
  BY <1>3, <1>4, <1>5, <1>6, TypePartsThen

HostSteps(h) == HostAnswers(h) \/ HostFaults(h) \/ ReceiverSteps(h)

LEMMA HostTypesThen ==
  ASSUME TypeOK, NEW h \in Hosts, HostSteps(h)
  PROVE  TypeOK'
<1> USE DEF clientSide, callVars, mainVars, workerVars, processVars, receiverVars, tables
<1>0. HostTypes /\ PipeTypes /\ TableTypes /\ CallTypes /\ MainTypes /\ WorkerTypes
  BY TypeParts
<1>1. UNCHANGED clientSide
  BY DEF HostSteps, HostAnswers, HostFaults, ReceiverSteps, ReceiverTakes, ReceiverStores,
     ReceiverSets, ReceiverSeesEnd, ReceiverFails, ReceiverClears
<1>2. Ids' = Ids /\ Requests' = Requests /\ CallStates' = CallStates
  BY <1>1 DEF Ids, Requests, CallStates
<1>3. CallTypes' /\ MainTypes' /\ WorkerTypes'
  BY <1>0, <1>1, <1>2 DEF CallTypes, MainTypes, WorkerTypes
<1>4. ASSUME HostAnswers(h) PROVE HostTypes' /\ PipeTypes' /\ TableTypes'
  <2>1. /\ inbox[h] # << >> /\ inbox[h] \in Seq(Requests) /\ outbox[h] \in Seq(Ids)
        /\ Len(inbox[h]) <= PipeCapacity
    BY <1>0, <1>4 DEF HostAnswers, PipeTypes
  <2>2. /\ Tail(inbox[h]) \in Seq(Requests) /\ Len(Tail(inbox[h])) <= PipeCapacity
        /\ Head(inbox[h]) \in Requests
    BY <2>1, OneLess, HostClientAssumption
  <2>7. Head(inbox[h]).id \in Ids
    BY <2>2 DEF Requests
  <2>3. Append(outbox[h], Head(inbox[h]).id) \in Seq(Ids)
    BY <2>1, <2>7, OneMore
  <2>4. PipeTypes'
    BY <1>0, <1>2, <1>4, <2>2, <2>3 DEF PipeTypes, HostAnswers
  <2>5. process' \in [Hosts -> {"none", "up", "wedged", "exited"}]
    BY <1>0, <1>4 DEF HostTypes, HostAnswers
  <2>6. UNCHANGED << closed, receiver, faults, tables, held, overlooked >>
    BY <1>4 DEF HostAnswers
  <2> QED
    BY <1>0, <1>1, <1>2, <2>4, <2>5, <2>6 DEF HostTypes, TableTypes
<1>5. ASSUME HostFaults(h) PROVE HostTypes' /\ PipeTypes' /\ TableTypes'
  <2>1. process' \in [Hosts -> {"none", "up", "wedged", "exited"}] /\ faults' \in 0 .. MaxFaults
    BY <1>0, <1>5, HostClientAssumption DEF HostTypes, HostFaults
  <2>2. UNCHANGED << closed, receiver, tables, held, overlooked, inbox, outbox >>
    BY <1>5 DEF HostFaults
  <2> QED
    BY <1>0, <1>1, <1>2, <2>1, <2>2 DEF HostTypes, TableTypes, PipeTypes
<1>6. ASSUME ReceiverSteps(h) PROVE HostTypes' /\ PipeTypes' /\ TableTypes'
  <2> USE DEF ReceiverTakes, ReceiverStores, ReceiverSets, ReceiverSeesEnd, ReceiverFails, ReceiverClears
  <2>1. /\ UNCHANGED << process, inbox, closed, faults >>
        /\ ~ReceiverTakes(h) => outbox' = outbox
        /\ \E p \in {"recv", "store", "set", "fail", "clear", "done"} :
             receiver' \in {receiver, [receiver EXCEPT ![h] = p]}
    BY <1>6 DEF ReceiverSteps
  <2>2. HostTypes'
    BY <1>0, <1>1, <2>1 DEF HostTypes
  <2>3. PipeTypes'
    <3>1. CASE ReceiverTakes(h)
      <4>1. outbox[h] \in Seq(Ids) /\ outbox[h] # << >>
        BY <1>0, <3>1 DEF PipeTypes
      <4>2. Tail(outbox[h]) \in Seq(Ids)
        BY <4>1, OneLess
      <4> QED
        BY <1>0, <1>2, <2>1, <3>1, <4>2 DEF PipeTypes
    <3>2. CASE ~ReceiverTakes(h)
      BY <1>0, <1>2, <2>1, <3>2 DEF PipeTypes
    <3> QED
      BY <3>1, <3>2
  <2>4. held' \in [Hosts -> SUBSET Ids]
    <3>1. CASE ReceiverTakes(h)
      BY <1>0, <3>1 DEF TableTypes
    <3>2. CASE ~ReceiverTakes(h)
      <4>1. held' \in {held, [held EXCEPT ![h] = {}], [held EXCEPT ![h] = pending]}
        BY <1>6, <3>2 DEF ReceiverSteps
      <4> QED
        BY <1>0, <4>1 DEF TableTypes
    <3> QED
      BY <3>1, <3>2
  <2>5. pending' \subseteq pending
    BY <1>6 DEF ReceiverSteps
  <2>6. signalled' \in {signalled, signalled \union held[h]}
    BY <1>6 DEF ReceiverSteps
  <2>7. overlooked' \in {overlooked, overlooked \union (pending \ signalled)}
    BY <1>6 DEF ReceiverSteps
  <2>8. responses' \subseteq [id : Ids, from : 0 .. MaxHosts]
    <3>1. \E f \in {0, h} : responses' \in {responses, responses \union [id : held[h], from : {f}]}
      BY <1>6 DEF ReceiverSteps, Put
    <3>2. {0, h} \subseteq 0 .. MaxHosts /\ held[h] \subseteq Ids
      BY <1>0, HostClientAssumption DEF Hosts, TableTypes
    <3> QED
      BY <1>0, <3>1, <3>2, Put_Type DEF TableTypes
  <2>9. TableTypes'
    BY <1>0, <1>1, <1>2, <2>4, <2>5, <2>6, <2>7, <2>8 DEF TableTypes
  <2> QED
    BY <2>2, <2>3, <2>9
<1> QED
  BY <1>3, <1>4, <1>5, <1>6, TypePartsThen DEF HostSteps

LEMMA WorkerTypesThen ==
  ASSUME TypeOK, NEW w \in Workers, WorkerGets(w) \/ WorkerStops(w)
  PROVE  TypeOK'
<1> USE DEF mainAlone, processVars, receiverVars, tables, callVars
<1>0. HostTypes /\ PipeTypes /\ TableTypes /\ CallTypes /\ MainTypes /\ WorkerTypes
  BY TypeParts
<1>1. UNCHANGED << mainAlone, processVars, host, todo, stopFlag, worker >>
  BY DEF WorkerGets, WorkerStops
<1>2. Ids' = Ids /\ Requests' = Requests /\ CallStates' = CallStates
  BY <1>1 DEF Ids, Requests, CallStates
<1>3. /\ synthQueue' = synthQueue \/ (synthQueue # << >> /\ synthQueue' = Tail(synthQueue))
      /\ \E p \in {"exited", "call", "get"} : wpc' = [wpc EXCEPT ![w] = p]
  BY DEF WorkerGets, WorkerStops
<1>4. synthQueue' \in Seq({"utterance", "stale", "None"})
  BY <1>0, <1>3, OneLess DEF WorkerTypes
<1>5. WorkerTypes'
  BY <1>0, <1>1, <1>3, <1>4 DEF WorkerTypes
<1>6. HostTypes' /\ PipeTypes' /\ TableTypes' /\ CallTypes' /\ MainTypes'
  BY <1>0, <1>1, <1>2 DEF HostTypes, PipeTypes, TableTypes, CallTypes, MainTypes
<1> QED
  BY <1>5, <1>6, TypePartsThen

-----------------------------------------------------------------------------
(* The calls of Next, with what is known of their thread.                  *)

CallStep(t) == (\E kind \in Kinds : Begins(t, kind)) \/ CallProceeds(t)

WorkerMoves(w) == WorkerGets(w) \/ WorkerStops(w)

LEMMA StepsOfNext ==
  ASSUME [Next]_vars, Calling, todo \in Seq(StepNames)
  PROVE  \/ \E t \in Threads : CallStep(t)
         \/ MainMoves
         \/ \E w \in Workers : WorkerMoves(w)
         \/ \E h \in Hosts : HostSteps(h)
         \/ UNCHANGED vars
<1>1. Main \in Threads /\ Workers \subseteq Threads /\ (\A w \in Workers : w # Main)
  BY DEF Threads, Main, Workers
<1>2. MainCalls => \E t \in Threads : CallStep(t)
  BY <1>1 DEF MainCalls, CallStep, Begins
<1>3. CallProceeds(Main) => \E t \in Threads : CallStep(t)
  BY <1>1 DEF CallStep
<1>4. ASSUME NEW w \in Workers, WorkerSteps(w)
      PROVE  (\E t \in Threads : CallStep(t)) \/ WorkerMoves(w)
  <2>1. WorkerCalls(w) => \E t \in Threads : CallStep(t)
    BY <1>1 DEF WorkerCalls, CallStep, Begins, Kinds
  <2> QED
    BY <1>1, <1>4, <2>1 DEF WorkerSteps, CallStep, WorkerMoves
<1>5. Next => \/ \E t \in Threads : CallStep(t)
              \/ MainMoves
              \/ \E w \in Workers : WorkerMoves(w)
              \/ \E h \in Hosts : HostSteps(h)
  BY <1>2, <1>3, <1>4 DEF Next, MainSteps, MainMoves, HostSteps
<1> QED
  BY <1>5

\* A call of the main thread is the step it is at, one of a worker its utterance.
LEMMA Callers ==
  ASSUME TypeOK, Calling, NEW t \in Threads, CallStep(t)
  PROVE  /\ t = Main => todo # << >> /\ First(todo) \in Kinds
         /\ t # Main => t \in Workers /\ wpc[t] = "call"
<1>0. todo \in Seq(StepNames) /\ call[t].kind \in Kinds /\ First(<< >>) \notin Kinds
  BY DEF TypeOK, First, Kinds
<1>1. CASE \E kind \in Kinds : Begins(t, kind)
  <2>1. PICK kind \in Kinds : Begins(t, kind)
    BY <1>1
  <2>2. kind # "end"
    BY DEF Kinds
  <2> QED
    BY <1>0, <2>1, <2>2, StepIs DEF Begins, Step, Threads
<1>2. CASE CallProceeds(t)
  <2>1. Active(t)
    BY <1>2 DEF CallProceeds, CallSends, CallFails, CallCollects, CallTimesOut, CallGivesUp, Active
  <2> QED
    BY <1>0, <2>1 DEF Calling, Threads
<1> QED
  BY <1>1, <1>2 DEF CallStep

LEMMA TypesThen ==
  ASSUME TypeOK, StartedInOrder, Operating, Calling, [Next]_vars
  PROVE  TypeOK'
<1>0. todo \in Seq(StepNames)
  BY DEF TypeOK
<1>1. ASSUME NEW t \in Threads, CallStep(t) PROVE TypeOK'
  <2>1. t = Main => todo # << >>
    BY <1>1, Callers
  <2>2. (\E kind \in Kinds : CallBegins(t, kind)) \/ CallProceeds(t)
    BY <1>1 DEF CallStep, Begins
  <2> QED
    BY <2>1, <2>2, CallTypesThen
<1>2. MainMoves => TypeOK'
  BY MainTypesThen
<1>3. ASSUME NEW w \in Workers, WorkerMoves(w) PROVE TypeOK'
  BY <1>3, WorkerTypesThen DEF WorkerMoves
<1>4. ASSUME NEW h \in Hosts, HostSteps(h) PROVE TypeOK'
  BY <1>4, HostTypesThen
<1>5. CASE UNCHANGED vars
  BY <1>5 DEF TypeOK, vars, processVars, receiverVars, tables, callVars, mainVars, workerVars, Ids
<1> QED
  BY <1>0, <1>1, <1>2, <1>3, <1>4, <1>5, StepsOfNext

-----------------------------------------------------------------------------
(* Processes: how hosts come and go.                                       *)

LEMMA CallProcesses ==
  ASSUME TypeOK, Processes, Calling, NEW t \in Threads, CallStep(t)
  PROVE  Processes'
<1> USE DEF hostSide, processVars, receiverVars, aroundCalls
<1>0. todo \in Seq(StepNames) /\ WellOrdered(todo)
  BY DEF TypeOK, Processes, Operating
<1>1. UNCHANGED << process, closed, receiver, held, host, worker >>
  BY DEF CallStep, Begins, CallBegins, CallProceeds, CallSends, CallFails, CallCollects,
     CallTimesOut, CallGivesUp
<1>2. Returned(t) \/ NotReturned
  <2>1. ASSUME NEW kind \in Kinds, Begins(t, kind) PROVE Returned(t) \/ NotReturned
    BY <1>0, <2>1, CallSteps DEF Begins
  <2>2. CallProceeds(t) => Returned(t) \/ NotReturned
    BY <1>0, CallSteps DEF CallProceeds
  <2> QED
    BY <2>1, <2>2 DEF CallStep
<1>3. /\ WellOrdered(todo')
      /\ todo' = todo \/ (First(todo) \in Kinds /\ First(todo') \notin Hostless)
  <2>1. CASE todo' = todo
    BY <1>0, <2>1
  <2>2. CASE todo' # todo
    <3>1. t = Main /\ (todo' = Tail(todo) \/ todo' = Failed)
      BY <1>2, <2>2 DEF Returned, NotReturned
    <3>2. todo # << >> /\ First(todo) \in Kinds
      BY <3>1, Callers
    <3>3. WellOrdered(Tail(todo)) /\ Follows(First(todo), First(Tail(todo)))
      BY <1>0, <3>2, TailOrdered
    <3>4. First(Tail(todo)) \notin Hostless
      BY <3>2, <3>3 DEF Follows, Kinds, Hostless
    <3>5. WellOrdered(Failed) /\ First(Failed) \notin Hostless
      BY FailedOrdered DEF Hostless
    <3> QED
      BY <3>1, <3>2, <3>3, <3>4, <3>5
  <2> QED
    BY <2>1, <2>2
<1>4. Started' = Started /\ Running' = Running
  BY <1>1 DEF Started, Running
<1>5. StartedInOrder' /\ Attended'
  BY <1>1, <1>4 DEF Processes, StartedInOrder, Attended
<1>6. Operating'
  BY <1>1, <1>3, <1>4 DEF Processes, Operating, Hostless, WithWorker
<1>7. First(todo) \in Kinds => First(todo) # "handshake"
  BY DEF Kinds
<1>8. OnlyHost'
  BY <1>1, <1>3, <1>4, <1>7 DEF Processes, OnlyHost, Hostless
<1> QED
  BY <1>5, <1>6, <1>8 DEF Processes

LEMMA WorkerProcesses ==
  ASSUME Processes, NEW w \in Workers, WorkerMoves(w)
  PROVE  Processes'
<1>1. UNCHANGED << process, closed, receiver, held, host, worker, todo >>
  BY DEF WorkerMoves, WorkerGets, WorkerStops, mainAlone, receiverVars, processVars
<1> QED
  BY <1>1 DEF Processes, StartedInOrder, Operating, Attended, OnlyHost, Started, Running

LEMMA HostProcesses ==
  ASSUME TypeOK, Processes, NEW h \in Hosts, HostSteps(h)
  PROVE  Processes'
<1> USE DEF clientSide, mainVars, workerVars, processVars, receiverVars, tables
<1>1. UNCHANGED << host, worker, todo, closed >>
  BY DEF HostSteps, HostAnswers, HostFaults, ReceiverSteps, ReceiverTakes, ReceiverStores,
     ReceiverSets, ReceiverSeesEnd, ReceiverFails, ReceiverClears
<1>2. \A g \in Hosts :
        /\ process'[g] = process[g] \/ (process[g] = "up" /\ process'[g] \in {"exited", "wedged"})
        /\ process[g] = "exited" => process'[g] = "exited"
  BY DEF HostSteps, HostAnswers, HostFaults, ReceiverSteps, ReceiverTakes, ReceiverStores,
     ReceiverSets, ReceiverSeesEnd, ReceiverFails, ReceiverClears, TypeOK
<1>3. \A g \in Hosts : process'[g] = "none" <=> process[g] = "none"
  BY <1>2
<1>4. Started' = Started
  BY <1>3 DEF Started
<1>5. StartedInOrder'
  BY <1>3, <1>4 DEF Processes, StartedInOrder
<1>6. \A g \in Hosts : receiver'[g] = "none" <=> receiver[g] = "none"
  BY DEF HostSteps, HostAnswers, HostFaults, ReceiverSteps, ReceiverTakes, ReceiverStores,
     ReceiverSets, ReceiverSeesEnd, ReceiverFails, ReceiverClears, TypeOK
<1>7. Operating'
  BY <1>1, <1>4, <1>6 DEF Processes, Operating
<1>8. OnlyHost'
  BY <1>1, <1>2, <1>4 DEF Processes, OnlyHost, Running
<1>9. Attended'
  <2>1. (host # 0 => receiver[host] # "none")'
    BY <1>1, <1>6 DEF Processes, Attended, TypeOK, Hosts
  <2>2. ASSUME NEW g \in Hosts
        PROVE  /\ receiver'[g] # "none" => process'[g] # "none"
               /\ receiver'[g] \in {"fail", "clear", "done"} => closed'[g] \/ process'[g] = "exited"
               /\ receiver'[g] \in {"none", "recv", "clear", "done"} => held'[g] = {}
    BY <1>1, <1>2, <1>3, <1>6 DEF HostSteps, HostAnswers, HostFaults, ReceiverSteps, ReceiverTakes,
       ReceiverStores, ReceiverSets, ReceiverSeesEnd, ReceiverFails, ReceiverClears, TypeOK, Processes, Attended
  <2> QED
    BY <2>1, <2>2 DEF Attended
<1> QED
  BY <1>5, <1>7, <1>8, <1>9 DEF Processes

\* A new process, or the host that is kept.
LEMMA StartProcesses ==
  ASSUME TypeOK, Processes, EnsuresStarted
  PROVE  Processes'
<1>0. /\ WellOrdered(todo) /\ todo # << >> /\ First(todo) = "ensureStarted"
      /\ process \in [Hosts -> {"none", "up", "wedged", "exited"}]
  BY StepIs DEF TypeOK, Processes, Operating, EnsuresStarted
<1>1. UNCHANGED << host, closed, receiver, held, worker >>
  BY DEF EnsuresStarted, mainAlone, receiverVars, workerVars
<1>2. WellOrdered(Tail(todo)) /\ First(Tail(todo)) = "handshake"
  BY <1>0, TailOrdered DEF Follows
<1>3. CASE host # 0
  <2>1. process' = process /\ todo' = Tail(Tail(todo))
    BY <1>3 DEF EnsuresStarted
  <2>2. Tail(todo) # << >>
    BY <1>2 DEF First
  <2>3. WellOrdered(todo') /\ Follows("handshake", First(todo'))
    BY <1>2, <2>1, <2>2, TailOrdered
  <2>4. First(todo') \notin Hostless
    BY <2>3 DEF Follows, Hostless
  <2>5. Started' = Started /\ Running' = Running
    BY <2>1 DEF Started, Running
  <2> QED
    BY <1>0, <1>1, <2>1, <2>3, <2>4, <2>5 DEF Processes, StartedInOrder, Operating, Attended, OnlyHost,
       Hostless, WithWorker
<1>4. CASE host = 0
  <2>1. /\ Started < MaxHosts /\ todo' = Tail(todo)
        /\ process' = [process EXCEPT ![Started + 1] = "up"]
    BY <1>4 DEF EnsuresStarted, Done
  <2> DEFINE n == Started + 1
  <2>2. Started \in 0 .. MaxHosts /\ n \in Hosts /\ n \in 0 .. MaxHosts
    BY <2>1, HostClientAssumption DEF Processes, StartedInOrder, Hosts
  <2>3. process[n] = "none" /\ receiver[n] = "none"
    BY <1>0, <2>2 DEF Processes, StartedInOrder, Attended, Hosts
  <2>4. \A h \in Hosts : process'[h] # "none" <=> h <= n
    BY <1>0, <2>1, <2>2 DEF Processes, StartedInOrder, Hosts
  <2>5. \A h \in Hosts : process'[h] = IF h = n THEN "up" ELSE process[h]
    BY <1>0, <2>1
  <2> HIDE DEF n
  <2>6. Started' = n
    BY <2>2, <2>4, CountOfFirst, HostClientAssumption DEF Started, Hosts
  <2>7. StartedInOrder'
    BY <2>2, <2>4, <2>6 DEF StartedInOrder
  <2>8. Operating'
    BY <1>1, <1>2, <1>4, <2>1, <2>2, <2>3, <2>6 DEF Operating, WithWorker
  <2>9. Attended'
    BY <1>1, <2>3, <2>5 DEF Processes, Attended
  <2>10. Running = {}
    BY <1>0, <1>4 DEF Processes, OnlyHost, Running, Hosts
  <2>11. Running' \subseteq {n}
    BY <2>5, <2>10 DEF Running
  <2>12. OnlyHost'
    BY <1>2, <2>1, <2>6, <2>11 DEF OnlyHost
  <2> QED
    BY <2>7, <2>8, <2>9, <2>12 DEF Processes
<1> QED
  BY <1>3, <1>4

\* The newest process becomes the host, or exits.
LEMMA HandshakeProcesses ==
  ASSUME TypeOK, Processes, Handshakes
  PROVE  Processes'
<1>0. /\ WellOrdered(todo) /\ todo # << >> /\ First(todo) = "handshake"
      /\ process \in [Hosts -> {"none", "up", "wedged", "exited"}]
      /\ receiver \in [Hosts -> {"none", "recv", "store", "set", "fail", "clear", "done"}]
  BY StepIs DEF TypeOK, Processes, Operating, Handshakes
<1>1. UNCHANGED << closed, held, worker >>
  BY DEF Handshakes, workerVars
<1>2. host = 0 /\ Started \in Hosts /\ receiver[Started] = "none"
  BY <1>0 DEF Processes, Operating, Hostless
<1>3. process[Started] # "none" /\ held[Started] = {} /\ Started # 0
  BY <1>2, HostClientAssumption DEF Processes, StartedInOrder, Attended, Hosts
<1>4. Running \subseteq {Started}
  BY <1>2 DEF Processes, OnlyHost, Running, Hosts
<1>5. CASE /\ process[Started] = "up" /\ host' = Started
           /\ receiver' = [receiver EXCEPT ![Started] = "recv"] /\ Done
           /\ UNCHANGED << process, timeouts >>
  <2>1. WellOrdered(todo') /\ First(todo') \notin Hostless
    BY <1>0, <1>5, TailOrdered DEF Done, Follows, Hostless
  <2>2. Started' = Started /\ Running' = Running
    BY <1>5 DEF Started, Running
  <2>3. StartedInOrder' /\ Operating'
    BY <1>5, <2>1, <2>2 DEF Processes, StartedInOrder, Operating, Hostless, WithWorker
  <2>4. Attended'
    BY <1>0, <1>1, <1>2, <1>3, <1>5 DEF Processes, Attended
  <2>5. OnlyHost'
    BY <1>4, <1>5, <2>2 DEF OnlyHost
  <2> QED
    BY <2>3, <2>4, <2>5 DEF Processes
<1>6. CASE /\ process' = [process EXCEPT ![Started] = "exited"] /\ todo' = Failed
           /\ UNCHANGED << host, receiver >>
  <2>1. WellOrdered(todo') /\ First(todo') \notin Hostless
    BY <1>6, FailedOrdered DEF Hostless
  <2>2. \A h \in Hosts : process'[h] = IF h = Started THEN "exited" ELSE process[h]
    BY <1>0, <1>6
  <2>3. \A h \in Hosts : process'[h] # "none" <=> process[h] # "none"
    BY <1>3, <2>2
  <2>4. Started' = Started
    BY <2>3 DEF Started
  <2>5. StartedInOrder' /\ Operating'
    BY <1>6, <2>1, <2>3, <2>4 DEF Processes, StartedInOrder, Operating, Hostless, WithWorker
  <2>6. Attended'
    BY <1>1, <1>2, <1>6, <2>2, <2>3 DEF Processes, Attended
  <2>7. Running' = {}
    BY <1>4, <2>2 DEF Running
  <2> QED
    BY <2>5, <2>6, <2>7 DEF Processes, OnlyHost
<1> QED
  BY <1>5, <1>6 DEF Handshakes, AfterFailedHandshake

LEMMA EndProcesses ==
  ASSUME TypeOK, Processes, ClosesConnection \/ Terminates
  PROVE  Processes'
<1>0. /\ WellOrdered(todo) /\ todo # << >> /\ First(todo) \in {"close", "terminate"}
      /\ process \in [Hosts -> {"none", "up", "wedged", "exited"}]
      /\ closed \in [Hosts -> BOOLEAN] /\ host \in 0 .. MaxHosts
  BY StepIs DEF TypeOK, Processes, Operating, ClosesConnection, Terminates
<1>1. UNCHANGED << receiver, held, worker >>
  BY DEF ClosesConnection, Terminates, mainAlone, receiverVars, workerVars
<1>2. WellOrdered(Tail(todo)) /\ Follows(First(todo), First(Tail(todo))) /\ todo' = Tail(todo)
  BY <1>0, TailOrdered DEF ClosesConnection, Terminates, Done
<1>3. CASE ClosesConnection
  <2>1. /\ UNCHANGED << host, process >> /\ closed' = [closed EXCEPT ![host] = TRUE]
        /\ First(todo) = "close"
    BY <1>0, <1>3, StepIs DEF ClosesConnection, WellOrdered
  <2>2. \A h \in Hosts : closed[h] => closed'[h]
    BY <1>0, <2>1, Zenon
  <2>3. First(todo') \notin Hostless
    BY <1>2, <2>1 DEF Follows, Hostless
  <2>4. Started' = Started /\ Running' = Running
    BY <2>1 DEF Started, Running
  <2>5. Attended'
    BY <1>1, <2>1, <2>2 DEF Processes, Attended
  <2> QED
    BY <1>0, <1>1, <1>2, <2>1, <2>3, <2>4, <2>5 DEF Processes, StartedInOrder, Operating, OnlyHost,
       Hostless, WithWorker
<1>4. CASE Terminates
  <2>1. /\ closed' = closed /\ process' = [process EXCEPT ![host] = "exited"] /\ host' = 0
        /\ First(todo) = "terminate"
    BY <1>0, <1>4, StepIs DEF Terminates, WellOrdered
  <2>2. First(todo') \notin {"handshake", "putNone", "joinWorker"}
    BY <1>2, <2>1 DEF Follows
  <2>3. \A h \in Hosts : process'[h] = IF h = host THEN "exited" ELSE process[h]
    BY <1>0, <2>1
  <2>4. \A h \in Hosts : process'[h] # "none" <=> process[h] # "none"
    BY <2>3 DEF Processes, Attended, Hosts
  <2>5. Started' = Started
    BY <2>4 DEF Started
  <2>6. StartedInOrder' /\ Operating'
    BY <1>2, <2>1, <2>2, <2>4, <2>5 DEF Processes, StartedInOrder, Operating, WithWorker
  <2>7. Attended'
    BY <1>1, <2>1, <2>3, <2>4 DEF Processes, Attended
  <2>8. Running \subseteq {host}
    BY <1>0 DEF Processes, OnlyHost
  <2>9. Running' = {}
    BY <2>3, <2>8 DEF Running
  <2> QED
    BY <2>6, <2>7, <2>9 DEF Processes, OnlyHost
<1> QED
  BY <1>3, <1>4

\* The steps of the main thread that leave the processes alone.
LEMMA OtherProcesses ==
  ASSUME TypeOK, Processes, MainMoves,
         ~(EnsuresStarted \/ Handshakes \/ ClosesConnection \/ Terminates)
  PROVE  Processes'
<1>0. WellOrdered(todo) /\ WellOrdered(todo') /\ todo \in Seq(StepNames)
  BY TodoThen DEF Processes, Operating, WellOrdered
<1>1. UNCHANGED << host, process, closed, receiver, held >>
  BY MainFrames
<1>2. Started' = Started /\ Running' = Running
  BY <1>1 DEF Started, Running
<1>3. StartedInOrder' /\ Attended'
  BY <1>1, <1>2 DEF Processes, StartedInOrder, Attended
<1>4. First(<< >>) = "end"
  BY DEF First
<1>5. /\ First(todo') \in Hostless => host = 0
      /\ First(todo') # "handshake" /\ First(todo) # "handshake"
      /\ First(todo') \in WithWorker => worker' # 0
  <2>1. CASE NextOperation
    <3>1. /\ script # << >> /\ script \in Seq(DOMAIN Operations)
          /\ todo = << >> /\ todo' \in {<< >>, Operations[Head(script)]}
      BY <2>1 DEF NextOperation, TypeOK
    <3>2. Head(script) \in DOMAIN Operations
      BY <3>1, OneLess
    <3>3. First(todo') \notin Hostless
      BY <1>4, <3>1, <3>2, OperationsOrdered DEF Hostless
    <3> QED
      BY <1>4, <3>1, <3>3 DEF Hostless, WithWorker
  <2>2. CASE ShutsDown
    <3>1. First(todo) = "shutdown" /\ todo # << >>
      BY <1>0, <2>2, StepIs DEF ShutsDown
    <3>2. WellOrdered(Tail(todo)) /\ Follows("shutdown", First(Tail(todo)))
      BY <1>0, <3>1, TailOrdered
    <3>3. CASE host = 0
      <4>1. todo' = Tail(todo)
        BY <2>2, <3>3 DEF ShutsDown
      <4> QED
        BY <3>1, <3>2, <3>3, <4>1 DEF Follows, WithWorker
    <3>4. CASE host # 0
      <4>1. todo' = Shutdown \o Tail(todo)
        BY <2>2, <3>4 DEF ShutsDown
      <4>2. Follows("terminate", First(Tail(todo)))
        BY <3>2 DEF Follows
      <4>3. First(todo') = "delete"
        BY <3>2, <4>1, <4>2, ShutdownOrdered, JoinedOrdered
      <4> QED
        BY <3>1, <4>3 DEF Hostless, WithWorker
    <3> QED
      BY <3>3, <3>4
  <2>3. CASE StopsWorker
    <3>1. First(todo) = "stopWorker" /\ todo # << >>
      BY <1>0, <2>3, StepIs DEF StopsWorker
    <3>2. host = 0
      BY <3>1 DEF Processes, Operating, Hostless
    <3>3. WellOrdered(Tail(todo)) /\ First(Tail(todo)) = "putNone"
      BY <1>0, <3>1, TailOrdered DEF Follows
    <3>4. worker' = worker
      BY <2>3 DEF StopsWorker
    <3>5. CASE worker # 0
      <4>1. todo' = Tail(todo)
        BY <2>3, <3>5 DEF StopsWorker, Done
      <4> QED
        BY <3>1, <3>2, <3>3, <3>4, <3>5, <4>1
    <3>6. CASE worker = 0
      <4>1. Tail(todo) # << >>
        BY <3>3 DEF First
      <4>2. WellOrdered(Tail(Tail(todo))) /\ First(Tail(Tail(todo))) = "joinWorker"
        BY <3>3, <4>1, TailOrdered DEF Follows
      <4>3. Tail(Tail(todo)) # << >>
        BY <4>2 DEF First
      <4>4. Follows("joinWorker", First(Tail(Tail(Tail(todo)))))
        BY <4>2, <4>3, TailOrdered
      <4>5. todo' = Tail(Tail(Tail(todo)))
        BY <1>0, <2>3, <3>1, <3>6, <4>1, <4>3, ThirdTail DEF StopsWorker
      <4> QED
        BY <3>1, <4>4, <4>5 DEF Follows, WithWorker, Hostless
    <3> QED
      BY <3>5, <3>6
  <2>4. CASE PutsNone
    <3>1. First(todo) = "putNone" /\ todo # << >> /\ todo' = Tail(todo) /\ worker' = worker
      BY <1>0, <2>4, StepIs DEF PutsNone, Done
    <3>2. host = 0 /\ worker # 0
      BY <3>1 DEF Processes, Operating, Hostless, WithWorker
    <3>3. First(todo') = "joinWorker"
      BY <1>0, <3>1, TailOrdered DEF Follows
    <3> QED
      BY <3>1, <3>2, <3>3
  <2>5. CASE JoinsWorker
    <3>1. First(todo) = "joinWorker" /\ todo # << >> /\ todo' = Tail(todo)
      BY <1>0, <2>5, StepIs DEF JoinsWorker, Done
    <3>2. Follows("joinWorker", First(todo'))
      BY <1>0, <3>1, TailOrdered
    <3> QED
      BY <3>1, <3>2 DEF Follows, WithWorker, Hostless
  <2>6. CASE Speaks \/ Cancels \/ JoinsReceiver \/ EnsuresWorker
    <3>1. /\ First(todo) \in {"speak", "cancel", "joinReceiver", "ensureWorker"}
          /\ todo # << >> /\ todo' = Tail(todo)
      BY <1>0, <2>6, StepIs DEF Speaks, Cancels, JoinsReceiver, EnsuresWorker, Done
    <3>2. Follows(First(todo), First(todo'))
      BY <1>0, <3>1, TailOrdered
    <3> QED
      BY <3>1, <3>2 DEF Follows, WithWorker, Hostless
  <2> QED
    BY <2>1, <2>2, <2>3, <2>4, <2>5, <2>6 DEF MainMoves
<1>6. Operating'
  BY <1>0, <1>1, <1>5 DEF Operating
<1>7. OnlyHost'
  BY <1>1, <1>2, <1>5 DEF Processes, OnlyHost
<1> QED
  BY <1>3, <1>6, <1>7 DEF Processes

LEMMA ProcessesThen ==
  ASSUME TypeOK, Processes, Calling, [Next]_vars
  PROVE  Processes'
<1>1. MainMoves => Processes'
  BY StartProcesses, HandshakeProcesses, EndProcesses, OtherProcesses
<1>2. CASE UNCHANGED vars
  BY <1>2 DEF vars, processVars, receiverVars, mainVars, workerVars,
     Processes, StartedInOrder, Operating, Attended, OnlyHost, Started, Running
<1>3. todo \in Seq(StepNames)
  BY DEF TypeOK
<1> QED
  BY <1>1, <1>2, <1>3, StepsOfNext, CallProcesses, WorkerProcesses, HostProcesses

-----------------------------------------------------------------------------
(* Workers: how they come and go.                                          *)

\* Steps that start no worker leave those that have started in their order.
LEMMA SameWorkers ==
  ASSUME WorkersInOrder, \A w \in Workers : wpc'[w] = "none" <=> wpc[w] = "none"
  PROVE  WorkersInOrder'
<1>1. WorkersStarted' = WorkersStarted
  BY DEF WorkersStarted
<1> QED
  BY <1>1 DEF WorkersInOrder

\* Behind the end of the host nobody serves a call that is registered: a worker
\* whose join gives up waits for an answer to a call that was overlooked.
LEMMA AbandonedIsOverlooked ==
  ASSUME TypeOK, Processes, Calls, JoinsWorker, wpc[worker] # "exited"
  PROVE  overlooked # {}
<1>0. /\ First(todo) = "joinWorker" /\ worker \in Workers /\ Workers \subseteq Threads
      /\ host = 0
  BY StepIs DEF JoinsWorker, TypeOK, Processes, Operating, Hostless, WithWorker, Workers, Threads
<1>1. call[worker].pc = "wait" /\ call[worker].id \notin signalled
  BY DEF JoinsWorker, WorkerBlocked
<1>2. call[worker].kind = "synthesize"
  BY <1>0, <1>1 DEF Calls, Calling, Active
<1>3. Awaiting(worker)
  BY <1>1, <1>2 DEF Awaiting, Waits
<1>4. \A h \in Hosts : process[h] \notin {"up", "wedged"}
  BY <1>0 DEF Processes, OnlyHost, Running, Hosts
<1>5. \A h \in Hosts : process[h] \in {"none", "exited"}
  BY <1>4 DEF TypeOK
<1>6. \A h \in Hosts : receiver[h] \in {"none", "done"}
  BY <1>5 DEF JoinsWorker, WorkerBlocked, Reading, Processes, Attended
<1>7. ~Served /\ ~InHand(call[worker].id)
  BY <1>6 DEF Served, InHand, Processes, Attended
<1> QED
  BY <1>0, <1>1, <1>3, <1>7 DEF Calls, Registered

LEMMA WorkerLivesThen ==
  ASSUME TypeOK, Processes, Calls, WorkerLives, [Next]_vars
  PROVE  WorkerLives'
<1>0. todo \in Seq(StepNames) /\ wpc \in [Workers -> {"none", "get", "call", "exited"}] /\ Calling
  BY DEF TypeOK, Calls
<1>1. ASSUME NEW t \in Threads, CallStep(t) PROVE WorkerLives'
  <2>1. UNCHANGED << overlooked, worker >>
    BY <1>1 DEF CallStep, Begins, CallBegins, CallProceeds, CallSends, CallFails, CallCollects,
       CallTimesOut, CallGivesUp, hostSide, receiverVars, aroundCalls
  <2>2. \/ wpc' = wpc
        \/ t # Main /\ wpc' = [wpc EXCEPT ![t] = "get"]
    <3>1. ASSUME NEW kind \in Kinds, Begins(t, kind) PROVE Returned(t) \/ NotReturned
      BY <1>0, <3>1, CallSteps DEF Begins
    <3>2. CallProceeds(t) => Returned(t) \/ NotReturned
      BY <1>0, CallSteps DEF CallProceeds
    <3>3. Returned(t) \/ NotReturned
      BY <1>1, <3>1, <3>2 DEF CallStep
    <3> QED
      BY <3>3 DEF Returned, NotReturned
  <2>3. t # Main => t \in Workers /\ wpc[t] = "call"
    BY <1>0, <1>1, Callers
  <2>4. \A w \in Workers : wpc'[w] = wpc[w] \/ (wpc[w] = "call" /\ wpc'[w] = "get")
    BY <1>0, <2>2, <2>3
  <2>5. WorkersInOrder'
    BY <2>4, SameWorkers DEF WorkerLives
  <2> QED
    BY <2>1, <2>4, <2>5 DEF WorkerLives, OneWorker
<1>2. ASSUME NEW w \in Workers, WorkerMoves(w) PROVE WorkerLives'
  <2>1. UNCHANGED << overlooked, worker >>
    BY <1>2 DEF WorkerMoves, WorkerGets, WorkerStops, mainAlone, receiverVars
  <2>2. /\ wpc[w] = "get"
        /\ \E p \in {"exited", "call", "get"} : wpc' = [wpc EXCEPT ![w] = p]
    BY <1>2 DEF WorkerMoves, WorkerGets, WorkerStops
  <2>3. \A v \in Workers : wpc'[v] = wpc[v] \/ (wpc[v] = "get" /\ wpc'[v] # "none")
    BY <1>0, <2>2
  <2>4. WorkersInOrder'
    BY <2>3, SameWorkers DEF WorkerLives
  <2>5. \A v \in Workers : wpc[v] \in {"none", "exited"} => wpc'[v] = wpc[v]
    BY <2>3
  <2> QED
    BY <2>1, <2>4, <2>5 DEF WorkerLives, OneWorker
<1>3. ASSUME NEW h \in Hosts, HostSteps(h) PROVE WorkerLives'
  <2>1. UNCHANGED << worker, wpc >> /\ overlooked \subseteq overlooked'
    BY <1>3 DEF HostSteps, HostAnswers, HostFaults, ReceiverSteps, ReceiverTakes, ReceiverStores,
       ReceiverSets, ReceiverSeesEnd, ReceiverFails, ReceiverClears, clientSide, workerVars, receiverVars
  <2> QED
    BY <2>1, SameWorkers DEF WorkerLives, OneWorker
<1>4. ASSUME MainMoves PROVE WorkerLives'
  <2>1. overlooked' = overlooked
    BY <1>4, MainFrames
  <2>2. CASE EnsuresWorker
    <3>1. CASE Alive(worker)
      BY <2>1, <2>2, <3>1, SameWorkers DEF EnsuresWorker, WorkerLives, OneWorker
    <3>2. CASE ~Alive(worker)
      <4> DEFINE n == WorkersStarted + 1
      <4>1. /\ WorkersStarted < MaxWorkers /\ worker' = n
            /\ wpc' = [wpc EXCEPT ![n] = "get"]
        BY <2>2, <3>2 DEF EnsuresWorker
      <4>2. n \in Workers /\ n \in 0 .. MaxWorkers /\ WorkersStarted \in 0 .. MaxWorkers
        BY <4>1, HostClientAssumption DEF WorkerLives, WorkersInOrder, Workers
      <4>3. \A w \in Workers : wpc'[w] = IF w = n THEN "get" ELSE wpc[w]
        BY <1>0, <4>1
      <4>4. \A w \in Workers : wpc'[w] # "none" <=> w <= n
        BY <4>2, <4>3 DEF WorkerLives, WorkersInOrder, Workers
      <4> HIDE DEF n
      <4>5. WorkersStarted' = n
        BY <4>2, <4>4, CountOfFirst, HostClientAssumption DEF WorkersStarted, Workers
      <4>6. WorkersInOrder'
        BY <4>2, <4>4, <4>5 DEF WorkersInOrder
      <4>7. worker = 0 \/ wpc[worker] = "exited"
        BY <3>2 DEF Alive
      <4>8. OneWorker'
        BY <2>1, <4>1, <4>3, <4>7 DEF WorkerLives, OneWorker, Workers
      <4> QED
        BY <4>6, <4>8 DEF WorkerLives
    <3> QED
      BY <3>1, <3>2
  <2>3. CASE JoinsWorker
    <3>1. wpc' = wpc
      BY <2>3 DEF JoinsWorker
    <3>2. overlooked = {} => wpc[worker] = "exited"
      BY <2>3, AbandonedIsOverlooked
    <3>3. OneWorker'
      BY <2>1, <3>1, <3>2 DEF WorkerLives, OneWorker
    <3> QED
      BY <3>1, <3>3, SameWorkers DEF WorkerLives
  <2>4. CASE ~(EnsuresWorker \/ JoinsWorker)
    <3>1. UNCHANGED << worker, wpc >>
      BY <1>4, <2>4, MainFrames DEF StopsWorker
    <3> QED
      BY <2>1, <3>1, SameWorkers DEF WorkerLives, OneWorker
  <2> QED
    BY <2>2, <2>3, <2>4
<1>5. CASE UNCHANGED vars
  BY <1>5 DEF vars, receiverVars, workerVars, WorkerLives, WorkersInOrder, OneWorker, WorkersStarted
<1> QED
  BY <1>0, <1>1, <1>2, <1>3, <1>4, <1>5, StepsOfNext

-----------------------------------------------------------------------------
(* Calls: ids, answers and registrations.                                  *)

\* A thread that is the main thread's is not calling at a step of another kind.
LEMMA MainCalls_Not ==
  ASSUME TypeOK, Calling, MainMoves
  PROVE  ~Active(Main)
<1>0. todo \in Seq(StepNames) /\ call[Main].kind \in Kinds
  BY DEF TypeOK, Threads
<1>1. First(todo) \notin Kinds
  <2>1. CASE NextOperation
    BY <2>1 DEF NextOperation, First, Kinds
  <2>2. CASE ~NextOperation
    <3>1. First(todo) \in StepNames \ Kinds
      BY <1>0, <2>2, StepIs DEF MainMoves, Speaks, Cancels, EnsuresStarted, Handshakes, ShutsDown,
         JoinsReceiver, ClosesConnection, Terminates, EnsuresWorker, StopsWorker, PutsNone, JoinsWorker,
         StepNames, Kinds
    <3> QED
      BY <3>1
  <2> QED
    BY <2>1, <2>2
<1> QED
  BY <1>0, <1>1 DEF Calling

LEMMA MainMovesCalls ==
  ASSUME TypeOK, Processes, Calls, WorkerLives, MainMoves
  PROVE  Calls'
<1>1. UNCHANGED << held, overlooked, pending, responses, signalled, nextId, call >>
  BY MainFrames DEF tables, callVars
<1>2. ~Active(Main)
  BY MainCalls_Not DEF Calls
<1>3. \A t \in Threads : Active(t)' <=> Active(t)
  BY <1>1 DEF Active
<1>4. OwnIds'
  BY <1>1, <1>3 DEF Calls, OwnIds, Given
<1>5. \A w \in Workers : wpc[w] # "none" => wpc'[w] = wpc[w]
  <2>1. CASE EnsuresWorker
    <3>1. \/ wpc' = wpc
          \/ WorkersStarted < MaxWorkers /\ wpc' = [wpc EXCEPT ![WorkersStarted + 1] = "get"]
      BY <2>1 DEF EnsuresWorker
    <3>2. WorkersStarted \in Nat
      BY DEF WorkerLives, WorkersInOrder
    <3>3. \A w \in Workers : wpc[w] # "none" => w # WorkersStarted + 1
      BY <3>2, HostClientAssumption DEF WorkerLives, WorkersInOrder, Workers
    <3>4. wpc \in [Workers -> {"none", "get", "call", "exited"}]
      BY DEF TypeOK
    <3> QED
      BY <3>1, <3>3, <3>4
  <2>2. CASE ~EnsuresWorker
    BY <2>2, MainFrames DEF StopsWorker, JoinsWorker
  <2> QED
    BY <2>1, <2>2
<1>6. Calling'
  <2>1. Main \in Threads /\ Workers \subseteq Threads
    BY DEF Threads
  <2> QED
    BY <1>1, <1>2, <1>3, <1>5, <2>1 DEF Calls, Calling
<1>7. receiver \in [Hosts -> {"none", "recv", "store", "set", "fail", "clear", "done"}]
  BY DEF TypeOK
<1>8. \A h \in Hosts : receiver'[h] = receiver[h] \/ (receiver[h] = "none" /\ receiver'[h] = "recv")
  <2>1. CASE Handshakes
    <3>1. First(todo) = "handshake"
      BY <2>1, StepIs DEF Handshakes, TypeOK
    <3>2. Started \in Hosts /\ receiver[Started] = "none"
      BY <3>1 DEF Processes, Operating
    <3> QED
      BY <1>7, <2>1, <3>2 DEF Handshakes
  <2>2. CASE ~Handshakes
    BY <2>2, MainFrames DEF EnsuresStarted, ClosesConnection, Terminates, mainAlone, receiverVars
  <2> QED
    BY <2>1, <2>2
<1>9. AnswersFirst'
  BY <1>1, <1>3, <1>8 DEF Calls, AnswersFirst, Answered
<1>10. Registered'
  <2>1. Served => Served'
    BY <1>8 DEF Served
  <2> QED
    BY <1>1, <2>1 DEF Calls, Registered, Awaiting, InHand
<1> QED
  BY <1>4, <1>6, <1>9, <1>10 DEF Calls

\* A worker that is at its queue has no call under way.
LEMMA WorkerMovesCalls ==
  ASSUME TypeOK, Calls, NEW w \in Workers, WorkerMoves(w)
  PROVE  Calls'
<1>1. UNCHANGED << receiver, held, overlooked, pending, responses, signalled, nextId, call, todo >>
  BY DEF WorkerMoves, WorkerGets, WorkerStops, mainAlone, receiverVars, tables, callVars
<1>2. \A t \in Threads : Active(t)' <=> Active(t)
  BY <1>1 DEF Active
<1>3. \A v \in Workers : wpc[v] = "call" => wpc'[v] = "call"
  BY DEF WorkerMoves, WorkerGets, WorkerStops, TypeOK
<1>4. Main \in Threads /\ Workers \subseteq Threads
  BY DEF Threads
<1>5. Calling'
  BY <1>1, <1>2, <1>3, <1>4 DEF Calls, Calling
<1>6. OwnIds' /\ AnswersFirst' /\ Registered'
  BY <1>1, <1>2 DEF Calls, OwnIds, Given, AnswersFirst, Answered, Registered, Awaiting, Served, InHand
<1> QED
  BY <1>5, <1>6 DEF Calls

\* The host's own steps touch no call.
LEMMA HostMovesCalls ==
  ASSUME Calls, NEW h \in Hosts, HostAnswers(h) \/ HostFaults(h)
  PROVE  Calls'
<1>1. UNCHANGED << receiver, held, overlooked, pending, responses, signalled, nextId, call, todo, wpc >>
  BY DEF HostAnswers, HostFaults, clientSide, receiverVars, tables, callVars, mainVars, workerVars
<1> QED
  BY <1>1 DEF Calls, Calling, Active, OwnIds, Given, AnswersFirst, Answered, Registered, Awaiting,
     Served, InHand

LEMMA ReceiverCalls ==
  ASSUME TypeOK, Attended, Calls, NEW h \in Hosts, ReceiverSteps(h)
  PROVE  Calls'
<1> USE DEF clientSide, processVars, receiverVars, tables, callVars, mainVars, workerVars
<1>0. /\ receiver \in [Hosts -> {"none", "recv", "store", "set", "fail", "clear", "done"}]
      /\ held \in [Hosts -> SUBSET Ids]
  BY DEF TypeOK
<1>1. UNCHANGED << nextId, call, todo, wpc >>
  BY DEF ReceiverSteps, ReceiverTakes, ReceiverStores, ReceiverSets, ReceiverSeesEnd, ReceiverFails,
     ReceiverClears
<1>2. Calling' /\ (\A t \in Threads : Active(t)' <=> Active(t)) /\ Given' = Given
  BY <1>1 DEF Calls, Calling, Active, Given
<1>3. ASSUME signalled' \subseteq Given, pending' \subseteq Given, \A g \in Hosts : held'[g] \subseteq Given
      PROVE  OwnIds'
  BY <1>1, <1>2, <1>3 DEF Calls, OwnIds
<1>4. signalled \subseteq Given /\ pending \subseteq Given /\ \A g \in Hosts : held[g] \subseteq Given
  BY DEF Calls, OwnIds
<1>5. ASSUME ReceiverTakes(h) PROVE Calls'
  <2>1. /\ receiver[h] = "recv" /\ held[h] = {} /\ UNCHANGED << responses, signalled, overlooked >>
    BY <1>5 DEF ReceiverTakes, Attended
  <2>2. CASE UNCHANGED << pending, receiver, held >>
    BY <1>1, <1>2, <2>1, <2>2 DEF Calls, OwnIds, AnswersFirst, Answered, Registered, Awaiting, Served, InHand, Active
  <2>3. CASE ~UNCHANGED << pending, receiver, held >>
    <3>1. PICK i \in pending :
            /\ pending' = pending \ {i} /\ held' = [held EXCEPT ![h] = {i}]
            /\ receiver' = [receiver EXCEPT ![h] = "store"]
      BY <1>5, <2>3 DEF ReceiverTakes
    <3>2. \A g \in Hosts : /\ held'[g] = IF g = h THEN {i} ELSE held[g]
                           /\ receiver'[g] = IF g = h THEN "store" ELSE receiver[g]
      BY <1>0, <3>1
    <3>3. OwnIds'
      BY <1>3, <1>4, <2>1, <3>1, <3>2
    <3>4. AnswersFirst'
      BY <1>1, <1>2, <2>1, <3>2 DEF Calls, AnswersFirst, Answered
    <3>5. Served' /\ (\A id : InHand(id) => InHand(id)') /\ InHand(i)'
      BY <2>1, <3>2 DEF Served, InHand
    <3>6. Registered'
      BY <1>1, <2>1, <3>1, <3>5 DEF Calls, Registered, Awaiting
    <3> QED
      BY <1>2, <3>3, <3>4, <3>6 DEF Calls
  <2> QED
    BY <2>2, <2>3
<1>6. ASSUME ReceiverStores(h) PROVE Calls'
  <2>1. /\ UNCHANGED << held, pending, signalled, overlooked >>
        /\ receiver[h] = "store" /\ receiver' = [receiver EXCEPT ![h] = "set"]
        /\ responses' = responses \union [id : held[h], from : {h}]
    BY <1>6 DEF ReceiverStores, Put
  <2>2. \A g \in Hosts : receiver'[g] = IF g = h THEN "set" ELSE receiver[g]
    BY <1>0, <2>1
  <2>3. \A id \in held[h] : Answered(id)'
    <3> SUFFICES ASSUME NEW id \in held[h] PROVE Answered(id)'
      OBVIOUS
    <3>1. [id |-> id, from |-> h] \in responses'
      BY <2>1
    <3> QED
      BY <3>1 DEF Answered
  <2>4. \A id : Answered(id) => Answered(id)'
    BY <2>1 DEF Answered
  <2>5. AnswersFirst'
    BY <1>1, <1>2, <2>1, <2>2, <2>3, <2>4 DEF Calls, AnswersFirst
  <2>6. (Served <=> Served') /\ (\A id : InHand(id) <=> InHand(id)')
    BY <2>1, <2>2 DEF Served, InHand
  <2>7. Registered'
    BY <1>1, <2>1, <2>6 DEF Calls, Registered, Awaiting
  <2> QED
    BY <1>2, <1>3, <1>4, <2>1, <2>5, <2>7 DEF Calls
<1>7. ASSUME ReceiverSets(h) PROVE Calls'
  <2>1. /\ UNCHANGED << pending, responses, overlooked >>
        /\ receiver[h] = "set" /\ receiver' = [receiver EXCEPT ![h] = "recv"]
        /\ held' = [held EXCEPT ![h] = {}] /\ signalled' = signalled \union held[h]
    BY <1>7 DEF ReceiverSets
  <2>2. \A g \in Hosts : /\ receiver'[g] = IF g = h THEN "recv" ELSE receiver[g]
                         /\ held'[g] = IF g = h THEN {} ELSE held[g]
    BY <1>0, <2>1
  <2>3. OwnIds'
    BY <1>3, <1>4, <2>1, <2>2
  <2>4. AnswersFirst'
    BY <1>1, <1>2, <2>1, <2>2 DEF Calls, AnswersFirst, Answered
  <2>5. Served' /\ (\A id : InHand(id) => InHand(id)' \/ id \in signalled')
    BY <2>1, <2>2 DEF Served, InHand
  <2>6. Registered'
    BY <1>1, <2>1, <2>5 DEF Calls, Registered, Awaiting
  <2> QED
    BY <1>2, <2>3, <2>4, <2>6 DEF Calls
<1>8. ASSUME ReceiverSeesEnd(h) PROVE Calls'
  <2>1. /\ UNCHANGED << pending, responses, signalled, overlooked >>
        /\ receiver[h] = "recv" /\ receiver' = [receiver EXCEPT ![h] = "fail"]
        /\ held' = [held EXCEPT ![h] = pending] /\ held[h] = {}
    BY <1>8 DEF ReceiverSeesEnd, Attended
  <2>2. \A g \in Hosts : /\ receiver'[g] = IF g = h THEN "fail" ELSE receiver[g]
                         /\ held'[g] = IF g = h THEN pending ELSE held[g]
    BY <1>0, <2>1
  <2>3. OwnIds'
    BY <1>3, <1>4, <2>1, <2>2
  <2>4. AnswersFirst'
    BY <1>1, <1>2, <2>1, <2>2 DEF Calls, AnswersFirst, Answered
  <2>5. \A id : InHand(id) \/ id \in pending => InHand(id)'
    BY <2>1, <2>2 DEF InHand
  <2>6. Registered'
    BY <1>1, <2>1, <2>5 DEF Calls, Registered, Awaiting
  <2> QED
    BY <1>2, <2>3, <2>4, <2>6 DEF Calls
<1>9. ASSUME ReceiverFails(h) PROVE Calls'
  <2>1. /\ UNCHANGED << pending, overlooked >>
        /\ receiver[h] = "fail" /\ receiver' = [receiver EXCEPT ![h] = "clear"]
        /\ held' = [held EXCEPT ![h] = {}] /\ signalled' = signalled \union held[h]
        /\ responses' = responses \union [id : held[h], from : {0}]
    BY <1>9 DEF ReceiverFails, Put
  <2>2. \A g \in Hosts : /\ receiver'[g] = IF g = h THEN "clear" ELSE receiver[g]
                         /\ held'[g] = IF g = h THEN {} ELSE held[g]
    BY <1>0, <2>1
  <2>3. OwnIds'
    BY <1>3, <1>4, <2>1, <2>2
  <2>4. \A id \in held[h] : Answered(id)'
    <3> SUFFICES ASSUME NEW id \in held[h] PROVE Answered(id)'
      OBVIOUS
    <3>1. [id |-> id, from |-> 0] \in responses'
      BY <2>1
    <3> QED
      BY <3>1 DEF Answered
  <2>5. \A id : Answered(id) => Answered(id)'
    BY <2>1 DEF Answered
  <2>6. AnswersFirst'
    BY <1>1, <1>2, <2>1, <2>2, <2>4, <2>5 DEF Calls, AnswersFirst
  <2>7. (Served => Served') /\ (\A id : InHand(id) => InHand(id)' \/ id \in signalled')
    BY <2>1, <2>2 DEF Served, InHand
  <2>8. Registered'
    BY <1>1, <2>1, <2>7 DEF Calls, Registered, Awaiting
  <2> QED
    BY <1>2, <2>3, <2>6, <2>8 DEF Calls
<1>10. ASSUME ReceiverClears(h) PROVE Calls'
  <2>1. /\ UNCHANGED << held, responses, signalled >>
        /\ receiver[h] = "clear" /\ receiver' = [receiver EXCEPT ![h] = "done"]
        /\ pending' = {} /\ overlooked' = overlooked \union (pending \ signalled)
    BY <1>10 DEF ReceiverClears
  <2>2. \A g \in Hosts : receiver'[g] = IF g = h THEN "done" ELSE receiver[g]
    BY <1>0, <2>1
  <2>3. AnswersFirst'
    BY <1>1, <1>2, <2>1, <2>2 DEF Calls, AnswersFirst, Answered
  <2>4. \A id : InHand(id) => InHand(id)'
    BY <2>1 DEF InHand
  <2>5. Registered'
    BY <1>1, <2>1, <2>4 DEF Calls, Registered, Awaiting
  <2> QED
    BY <1>2, <1>3, <1>4, <2>1, <2>3, <2>5 DEF Calls
<1> QED
  BY <1>5, <1>6, <1>7, <1>8, <1>9, <1>10 DEF ReceiverSteps

\* A call that begins takes an id that is in no table yet.
LEMMA CallBeginsCalls ==
  ASSUME TypeOK, Calls, NEW t \in Threads, NEW kind \in Kinds, Begins(t, kind)
  PROVE  Calls'
<1>0. /\ todo \in Seq(StepNames) /\ call \in [Threads -> CallStates] /\ nextId \in Nat \ {0}
      /\ ~Active(t)
  BY DEF TypeOK, CallStates, Calls, OwnIds, Begins, CallBegins, Active
<1>1. UNCHANGED << receiver, held, overlooked, responses, signalled >>
  BY DEF Begins, CallBegins, hostSide, receiverVars
<1>2. First(todo) = kind \/ (t # Main /\ t \in Workers /\ wpc[t] = "call" /\ kind = "synthesize")
  BY <1>0, StepIs DEF Begins, Kinds, Threads
<1>3. CASE host = 0
  <2>1. UNCHANGED << nextId, call, pending >> /\ Returned(t)
    BY <1>0, <1>3, CallSteps DEF Begins, CallBegins
  <2>2. Calling'
    <3>1. ~Active(t)' /\ \A u \in Threads : Active(u)' <=> Active(u)
      BY <1>0, <2>1 DEF Active
    <3>2. t = Main => wpc' = wpc
      BY <2>1 DEF Returned
    <3>3. t # Main => todo' = todo /\ wpc' = [wpc EXCEPT ![t] = "get"]
      BY <2>1 DEF Returned
    <3>4. \A w \in Workers : w # t => wpc'[w] = wpc[w]
      BY <3>2, <3>3 DEF TypeOK
    <3>5. Main \in Threads /\ Workers \subseteq Threads
      BY DEF Threads
    <3> QED
      BY <2>1, <3>1, <3>2, <3>3, <3>4, <3>5 DEF Calls, Calling
  <2>3. OwnIds' /\ AnswersFirst' /\ Registered'
    BY <1>1, <2>1 DEF Calls, OwnIds, Given, Active, AnswersFirst, Answered, Registered, Awaiting, Served, InHand
  <2> QED
    BY <2>2, <2>3 DEF Calls
<1>4. CASE host # 0
  <2>1. /\ nextId' = nextId + 1 /\ UNCHANGED << todo, wpc >>
        /\ call' = [call EXCEPT ![t] = [pc |-> "send", id |-> nextId, kind |-> kind]]
        /\ pending' = IF Waits(kind) THEN pending \union {nextId} ELSE pending
    BY <1>4 DEF Begins, CallBegins
  <2>2. Given \subseteq Given' /\ nextId \in Given' /\ nextId \notin Given /\ nextId' # 0
    BY <1>0, <2>1 DEF Given
  <2>3. \A u \in Threads :
          call'[u] = IF u = t THEN [pc |-> "send", id |-> nextId, kind |-> kind] ELSE call[u]
    BY <1>0, <2>1
  <2>4. \A u \in Threads : u # t => (Active(u)' <=> Active(u))
    BY <2>3 DEF Active
  <2>5. OwnIds'
    <3>1. \A u \in Threads : Active(u)' => call'[u].id \in Given'
      BY <2>2, <2>3, <2>4 DEF Calls, OwnIds
    <3>2. \A u, v \in Threads : Active(u)' /\ Active(v)' /\ call'[u].id = call'[v].id => u = v
      BY <2>2, <2>3, <2>4 DEF Calls, OwnIds
    <3>3. signalled' \subseteq Given' /\ pending' \subseteq Given' /\ \A h \in Hosts : held'[h] \subseteq Given'
      BY <1>1, <2>1, <2>2 DEF Calls, OwnIds
    <3> QED
      BY <2>2, <3>1, <3>2, <3>3 DEF OwnIds
  <2>6. nextId \notin signalled /\ \A h \in Hosts : nextId \notin held[h]
    BY <2>2 DEF Calls, OwnIds
  <2>7. Calling'
    BY <1>2, <2>1, <2>3, <2>4 DEF Calls, Calling, Threads, Begins, Main, Workers
  <2>8. AnswersFirst'
    BY <1>1, <2>3, <2>4, <2>6 DEF Calls, AnswersFirst, Answered
  <2>9. Registered'
    <3>1. \A u \in Threads : u # t => (Awaiting(u)' <=> Awaiting(u))
      BY <1>1, <2>3 DEF Awaiting
    <3>2. Awaiting(t)' => call'[t].id \in pending' /\ call'[t].pc # "wait"
      BY <2>1, <2>3 DEF Awaiting
    <3>3. pending \subseteq pending' /\ (Served' <=> Served) /\ (\A id : InHand(id)' <=> InHand(id))
      BY <1>1, <2>1 DEF Served, InHand
    <3> QED
      BY <1>1, <2>3, <3>1, <3>2, <3>3 DEF Calls, Registered
  <2> QED
    BY <2>5, <2>7, <2>8, <2>9 DEF Calls
<1> QED
  BY <1>3, <1>4

\* A call that returns takes only what has its own id from the tables.
LEMMA CallEnds ==
  ASSUME TypeOK, Calls, NEW t \in Threads, Active(t), Returned(t),
         call' = [call EXCEPT ![t] = NoCall],
         pending' \in {pending, pending \ {call[t].id}},
         responses' \in {responses, responses \ {r \in responses : r.id = call[t].id}},
         UNCHANGED << receiverVars, signalled, nextId >>
  PROVE  Calls'
<1>0. call \in [Threads -> CallStates] /\ wpc \in [Workers -> {"none", "get", "call", "exited"}]
  BY DEF TypeOK, CallStates
<1>1. \A u \in Threads : call'[u] = IF u = t THEN NoCall ELSE call[u]
  BY <1>0
<1>2. /\ ~Active(t)' /\ ~Awaiting(t)'
      /\ \A u \in Threads : u # t => (Active(u)' <=> Active(u)) /\ (Awaiting(u)' <=> Awaiting(u))
  BY <1>1 DEF Active, Awaiting, NoCall
<1>3. \A u \in Threads : Active(u) /\ u # t => call[u].id # call[t].id
  BY DEF Calls, OwnIds
<1>4. UNCHANGED << receiver, held, overlooked, signalled, nextId >>
  BY DEF receiverVars
<1>5. OwnIds'
  BY <1>1, <1>2, <1>4 DEF Calls, OwnIds, Given
<1>6. Calling'
  <2>1. t = Main => wpc' = wpc
    BY DEF Returned
  <2>2. t # Main => todo' = todo /\ wpc' = [wpc EXCEPT ![t] = "get"]
    BY DEF Returned
  <2>3. \A w \in Workers : w # t => wpc'[w] = wpc[w]
    BY <1>0, <2>1, <2>2
  <2>4. Main \in Threads /\ Workers \subseteq Threads
    BY DEF Threads
  <2> QED
    BY <1>1, <1>2, <2>1, <2>2, <2>3, <2>4 DEF Calls, Calling
<1>7. AnswersFirst'
  <2>1. \A u \in Threads : u # t /\ Active(u) /\ Answered(call[u].id) => Answered(call[u].id)'
    <3> SUFFICES ASSUME NEW u \in Threads, u # t, Active(u), Answered(call[u].id)
                 PROVE  Answered(call[u].id)'
      OBVIOUS
    <3>1. PICK r \in responses : r.id = call[u].id
      BY DEF Answered
    <3>2. r \in responses' /\ call'[u] = call[u]
      BY <1>1, <1>3, <3>1
    <3> QED
      BY <3>1, <3>2 DEF Answered
  <2>2. \A u \in Threads : u # t => call'[u] = call[u]
    BY <1>1
  <2>3. ASSUME NEW u \in Threads, Active(u)', call'[u].id \in signalled' PROVE Answered(call[u].id)'
    BY <1>2, <1>4, <2>1, <2>2, <2>3 DEF Calls, AnswersFirst
  <2>4. ASSUME NEW u \in Threads, NEW h \in Hosts, Active(u)', receiver'[h] = "set", call'[u].id \in held'[h]
        PROVE  Answered(call[u].id)'
    BY <1>2, <1>4, <2>1, <2>2, <2>4 DEF Calls, AnswersFirst
  <2> QED
    BY <2>3, <2>4 DEF AnswersFirst
<1>8. Registered'
  <2>1. (Served' <=> Served) /\ (\A id : InHand(id)' <=> InHand(id))
    BY <1>4 DEF Served, InHand
  <2>2. \A u \in Threads : Awaiting(u) => Active(u)
    BY DEF Awaiting, Active
  <2>3. \A u \in Threads : u # t /\ Active(u) /\ call[u].id \in pending => call[u].id \in pending'
    BY <1>3
  <2> QED
    BY <1>1, <1>2, <1>4, <2>1, <2>2, <2>3 DEF Calls, Registered
<1> QED
  BY <1>5, <1>6, <1>7, <1>8 DEF Calls

LEMMA CallProceedsCalls ==
  ASSUME TypeOK, Attended, Calls, AnswersFound, NEW t \in Threads, CallProceeds(t)
  PROVE  Calls' /\ AnswersFound'
<1> USE DEF hostSide, processVars, receiverVars, tables, aroundCalls
<1>0. /\ todo \in Seq(StepNames) /\ call \in [Threads -> CallStates] /\ Active(t)
      /\ host \in 0 .. MaxHosts
  BY DEF TypeOK, CallStates, Active, CallProceeds, CallSends, CallFails, CallCollects, CallTimesOut,
     CallGivesUp
<1>1. CASE CallSends(t) /\ Waits(call[t].kind)
  <2>1. /\ call' = [call EXCEPT ![t].pc = "wait"] /\ call[t].pc = "send"
        /\ UNCHANGED << receiver, held, overlooked, pending, responses, signalled, nextId, unanswered,
                        todo, wpc >>
    BY <1>1 DEF CallSends
  <2>2. /\ \A u \in Threads : u # t => call'[u] = call[u]
        /\ call'[t].pc = "wait" /\ call'[t].id = call[t].id /\ call'[t].kind = call[t].kind
    BY <1>0, <2>1 DEF CallStates
  <2>3. \A u \in Threads : /\ Active(u)' <=> Active(u)
                           /\ Awaiting(u)' <=> Awaiting(u)
                           /\ call'[u].id = call[u].id /\ call'[u].kind = call[u].kind
    BY <2>1, <2>2 DEF Active, Awaiting
  <2>4. Served
    <3>1. host \in Hosts /\ process[host] # "exited" /\ ~closed[host]
      BY <1>0, <1>1 DEF CallSends, Reachable, Hosts
    <3>2. receiver[host] \notin {"none", "fail", "clear", "done"}
      BY <3>1 DEF Attended, Hosts
    <3>3. receiver[host] \in {"none", "recv", "store", "set", "fail", "clear", "done"}
      BY <3>1 DEF TypeOK
    <3> QED
      BY <3>1, <3>2, <3>3 DEF Served
  <2>5. Served' /\ (\A id : InHand(id)' <=> InHand(id)) /\ (\A id : Answered(id)' <=> Answered(id))
    BY <2>1, <2>4 DEF Served, InHand, Answered
  <2>6. OwnIds'
    BY <2>1, <2>3 DEF Calls, OwnIds, Given
  <2>7. Calling'
    BY <2>1, <2>3 DEF Calls, Calling, Threads
  <2>8. AnswersFirst'
    BY <2>1, <2>3, <2>5 DEF Calls, AnswersFirst
  <2>9. Registered'
    BY <2>1, <2>3, <2>5 DEF Calls, Registered
  <2> QED
    BY <2>1, <2>6, <2>7, <2>8, <2>9 DEF Calls, AnswersFound
<1>2. CASE CallSends(t) /\ ~Waits(call[t].kind)
  <2>1. /\ call' = [call EXCEPT ![t] = NoCall]
        /\ UNCHANGED << receiverVars, pending, responses, signalled, nextId, unanswered >>
    BY <1>2 DEF CallSends
  <2>2. Returned(t)
    BY <1>0, <1>2, CallSteps
  <2> QED
    BY <1>0, <2>1, <2>2, CallEnds DEF AnswersFound
<1>3. CASE CallFails(t) \/ CallGivesUp(t)
  <2>1. /\ call' = [call EXCEPT ![t] = NoCall] /\ pending' = pending \ {call[t].id}
        /\ UNCHANGED << receiverVars, responses, signalled, nextId, unanswered >>
    BY <1>3 DEF CallFails, CallGivesUp
  <2>2. Returned(t)
    BY <1>0, <1>3, CallSteps
  <2> QED
    BY <1>0, <2>1, <2>2, CallEnds DEF AnswersFound
<1>4. CASE CallCollects(t)
  <2> DEFINE mine == {r \in responses : r.id = call[t].id}
  <2>1. /\ call' = [call EXCEPT ![t] = NoCall] /\ responses' = responses \ mine
        /\ unanswered' = IF mine = {} THEN unanswered \union {call[t].id} ELSE unanswered
        /\ UNCHANGED << receiverVars, pending, signalled, nextId >>
        /\ call[t].id \in signalled
    BY <1>4 DEF CallCollects
  <2>2. Returned(t)
    BY <1>0, <1>4, CallSteps
  <2>3. mine # {}
    BY <1>0, <2>1 DEF Calls, AnswersFirst, Answered
  <2>4. unanswered' = unanswered
    BY <2>1, <2>3
  <2> QED
    BY <1>0, <2>1, <2>2, <2>4, CallEnds DEF AnswersFound
<1>5. CASE CallTimesOut(t)
  <2>1. /\ call' = [call EXCEPT ![t].pc = "giveUp"] /\ call[t].pc = "wait"
        /\ UNCHANGED << receiver, held, overlooked, pending, responses, signalled, nextId, unanswered,
                        todo, wpc >>
    BY <1>5 DEF CallTimesOut
  <2>2. /\ \A u \in Threads : u # t => call'[u] = call[u]
        /\ call'[t].pc = "giveUp" /\ call'[t].id = call[t].id /\ call'[t].kind = call[t].kind
    BY <1>0, <2>1 DEF CallStates
  <2>3. \A u \in Threads : /\ Active(u)' <=> Active(u)
                           /\ Awaiting(u)' => Awaiting(u) /\ call'[u] = call[u]
                           /\ call'[u].id = call[u].id /\ call'[u].kind = call[u].kind
    BY <2>1, <2>2 DEF Active, Awaiting
  <2>4. /\ (Served' <=> Served) /\ (\A id : InHand(id)' <=> InHand(id))
        /\ (\A id : Answered(id)' <=> Answered(id))
    BY <2>1 DEF Served, InHand, Answered
  <2>5. OwnIds'
    BY <2>1, <2>3 DEF Calls, OwnIds, Given
  <2>6. Calling'
    BY <2>1, <2>3 DEF Calls, Calling, Threads
  <2>7. AnswersFirst'
    BY <2>1, <2>3, <2>4 DEF Calls, AnswersFirst
  <2>8. Registered'
    BY <2>1, <2>3, <2>4 DEF Calls, Registered
  <2> QED
    BY <2>1, <2>5, <2>6, <2>7, <2>8 DEF Calls, AnswersFound
<1> QED
  BY <1>1, <1>2, <1>3, <1>4, <1>5 DEF CallProceeds

LEMMA CallsThen ==
  ASSUME TypeOK, Processes, Calls, WorkerLives, AnswersFound, [Next]_vars
  PROVE  Calls' /\ AnswersFound'
<1>0. todo \in Seq(StepNames) /\ Calling /\ Attended
  BY DEF TypeOK, Calls, Processes
<1>1. ASSUME NEW t \in Threads, CallStep(t) PROVE Calls' /\ AnswersFound'
  <2>1. ASSUME NEW kind \in Kinds, Begins(t, kind) PROVE Calls' /\ AnswersFound'
    BY <2>1, CallBeginsCalls DEF Begins, CallBegins, AnswersFound
  <2> QED
    BY <1>0, <1>1, <2>1, CallProceedsCalls DEF CallStep
<1>2. ASSUME MainMoves PROVE Calls' /\ AnswersFound'
  BY <1>2, MainMovesCalls, MainFrames DEF callVars, AnswersFound
<1>3. ASSUME NEW w \in Workers, WorkerMoves(w) PROVE Calls' /\ AnswersFound'
  BY <1>3, WorkerMovesCalls DEF WorkerMoves, WorkerGets, WorkerStops, mainAlone, callVars, AnswersFound
<1>4. ASSUME NEW h \in Hosts, HostSteps(h) PROVE Calls' /\ AnswersFound'
  <2>1. unanswered' = unanswered
    BY <1>4 DEF HostSteps, HostAnswers, HostFaults, ReceiverSteps, ReceiverTakes, ReceiverStores,
       ReceiverSets, ReceiverSeesEnd, ReceiverFails, ReceiverClears, clientSide, callVars
  <2> QED
    BY <1>0, <1>4, <2>1, HostMovesCalls, ReceiverCalls DEF HostSteps, AnswersFound
<1>5. CASE UNCHANGED vars
  BY <1>5 DEF vars, receiverVars, tables, callVars, mainVars, workerVars, AnswersFound, Calls, Calling,
     Active, OwnIds, Given, AnswersFirst, Answered, Registered, Awaiting, Served, InHand
<1> QED
  BY <1>0, <1>1, <1>2, <1>3, <1>4, <1>5, StepsOfNext

-----------------------------------------------------------------------------
LEMMA InitInv == Init => ClientInv
<1> SUFFICES ASSUME Init PROVE ClientInv
  OBVIOUS
<1>1. TypeOK
  BY InitTypes
<1>2. Started = 0
  <2>1. 0 \in 0 .. MaxHosts /\ \A h \in 1 .. MaxHosts : process[h] # "none" <=> h <= 0
    BY HostClientAssumption DEF Init, Hosts
  <2> QED
    BY <2>1, CountOfFirst, HostClientAssumption DEF Started, Hosts
<1>3. WorkersStarted = 0
  <2>1. 0 \in 0 .. MaxWorkers /\ \A w \in 1 .. MaxWorkers : wpc[w] # "none" <=> w <= 0
    BY HostClientAssumption DEF Init, Workers
  <2> QED
    BY <2>1, CountOfFirst, HostClientAssumption DEF WorkersStarted, Workers
<1>4. StartedInOrder /\ WorkersInOrder
  BY <1>2, <1>3, HostClientAssumption DEF Init, StartedInOrder, WorkersInOrder, Hosts, Workers
<1>5. Operating
  <2>1. WellOrdered(todo) /\ First(todo) = "end"
    BY DEF Init, WellOrdered, First
  <2> QED
    BY <2>1 DEF Operating, Hostless, WithWorker
<1>6. Attended /\ OnlyHost
  BY DEF Init, Attended, OnlyHost, Running
<1>7. Calls
  <2>1. \A t \in Threads : ~Active(t) /\ ~Awaiting(t)
    BY DEF Init, Active, Awaiting, NoCall
  <2> QED
    BY <2>1 DEF Init, Calls, OwnIds, Given, Calling, AnswersFirst, Registered, Threads
<1>8. OneWorker /\ AnswersFound
  BY DEF Init, OneWorker, AnswersFound
<1> QED
  BY <1>1, <1>4, <1>5, <1>6, <1>7, <1>8 DEF ClientInv, Processes, WorkerLives

LEMMA StepInv == ClientInv /\ [Next]_vars => ClientInv'
<1> SUFFICES ASSUME ClientInv, [Next]_vars PROVE ClientInv'
  OBVIOUS
<1>1. Calling /\ StartedInOrder /\ Operating
  BY DEF ClientInv, Calls, Processes
<1> QED
  BY <1>1, TypesThen, ProcessesThen, CallsThen, WorkerLivesThen DEF ClientInv

LEMMA InvAlways == Spec => []ClientInv
BY InitInv, StepInv, PTL DEF Spec

\* Every variable of the client keeps its type, a pipe its capacity.
THEOREM ClientTypes == Spec => []TypeOK
<1>1. ClientInv => TypeOK
  BY DEF ClientInv
<1> QED
  BY <1>1, InvAlways, PTL

\* A caller of send_command that is woken finds its response or its error, however
\* many hosts come and go, and whatever times out.
THEOREM WokenFindAnswers == Spec => []AnswersFound
<1>1. ClientInv => AnswersFound
  BY DEF ClientInv
<1> QED
  BY <1>1, InvAlways, PTL

\* No host process outlives its shutdown or its failed start, in any sequence of
\* starts, restarts and ends.
THEOREM HostsAreEnded == Spec => []NoHostLeftBehind
<1>1. ClientInv => NoHostLeftBehind
  <2> SUFFICES ASSUME ClientInv PROVE NoHostLeftBehind
    OBVIOUS
  <2> DEFINE one == IF First(todo) = "handshake" THEN Started ELSE host
  <2>1. Running \subseteq {one}
    <3>1. First(todo) = "handshake" => host = 0
      BY DEF ClientInv, Processes, Operating, Hostless
    <3>2. \A h \in Running : h # 0
      BY DEF Running, Hosts
    <3> QED
      BY <3>1, <3>2 DEF ClientInv, Processes, OnlyHost
  <2> HIDE DEF one
  <2>2. Cardinality(Running) <= 1
    <3>1. Running = {} \/ Running = {one}
      BY <2>1
    <3>2. Cardinality({}) = 0 /\ Cardinality({one}) = 1
      BY FS_EmptySet, FS_Singleton
    <3> QED
      BY <3>1, <3>2
  <2>3. todo = << >> /\ host = 0 => Running = {}
    <3>1. todo = << >> => First(todo) # "handshake"
      BY DEF First
    <3>2. \A h \in Running : h # 0
      BY DEF Running, Hosts
    <3> QED
      BY <3>1, <3>2 DEF ClientInv, Processes, OnlyHost
  <2> QED
    BY <2>2, <2>3 DEF NoHostLeftBehind
<1> QED
  BY <1>1, InvAlways, PTL

\* Two synth workers never send commands at the same time as long as no receiver
\* has overlooked a call, although the join of the old one may give up.
THEOREM WorkersTakeTurns == Spec => []SoleSynthWorker
<1>1. ClientInv => SoleSynthWorker
  BY DEF ClientInv, WorkerLives, OneWorker, SoleSynthWorker
<1> QED
  BY <1>1, InvAlways, PTL
=============================================================================
