------------------------ MODULE AudioPlayback_proofs ------------------------
(***************************************************************************)
(* Proofs about AudioPlayback: its types, and the order in which chunks    *)
(* play and notifications are made.                                        *)
(***************************************************************************)
EXTENDS AudioPlayback, TLAPS

-----------------------------------------------------------------------------
(* Sequences.                                                              *)

LEMMA OneMore ==
  ASSUME NEW S, NEW s \in Seq(S), NEW e \in S
  PROVE  /\ Append(s, e) \in Seq(S) /\ Len(Append(s, e)) = Len(s) + 1
         /\ \A k \in DOMAIN s : Append(s, e)[k] = s[k]
         /\ Append(s, e)[Len(s) + 1] = e
         /\ DOMAIN s = 1 .. Len(s) /\ DOMAIN Append(s, e) = 1 .. Len(s) + 1
OBVIOUS

LEMMA OneLess ==
  ASSUME NEW S, NEW s \in Seq(S), s # << >>
  PROVE  /\ Tail(s) \in Seq(S) /\ Head(s) \in S /\ s[1] \in S /\ Head(s) = s[1]
         /\ Len(s) \in Nat \ {0} /\ Len(Tail(s)) = Len(s) - 1
         /\ DOMAIN s = 1 .. Len(s) /\ DOMAIN Tail(s) = 1 .. Len(s) - 1
         /\ \A k \in DOMAIN Tail(s) : Tail(s)[k] = s[k + 1]
OBVIOUS

LEMMA Joined ==
  ASSUME NEW S, NEW s \in Seq(S), NEW t \in Seq(S)
  PROVE  /\ s \o t \in Seq(S) /\ Len(s \o t) = Len(s) + Len(t)
         /\ DOMAIN s = 1 .. Len(s) /\ DOMAIN t = 1 .. Len(t)
         /\ DOMAIN (s \o t) = 1 .. Len(s) + Len(t)
         /\ \A k \in DOMAIN s : (s \o t)[k] = s[k]
         /\ \A k \in DOMAIN t : (s \o t)[Len(s) + k] = t[k]
OBVIOUS

LEMMA OneOnly ==
  ASSUME NEW S, NEW e \in S
  PROVE  /\ << e >> \in Seq(S) /\ Len(<< e >>) = 1 /\ << e >> # << >>
         /\ << >> \in Seq(S) /\ Len(<< >>) = 0
         /\ DOMAIN << e >> = {1} /\ << e >>[1] = e
OBVIOUS

LEMMA AtMostOne ==
  ASSUME NEW S, NEW s, s = << >> \/ \E e \in S : s = << e >>
  PROVE  s \in Seq(S) /\ Len(s) \in Nat /\ Len(s) <= 1
<1>1. CASE s = << >>
  BY <1>1
<1>2. CASE \E e \in S : s = << e >>
  BY <1>2
<1> QED
  BY <1>1, <1>2

LEMMA AtMostOneOnly ==
  ASSUME NEW S, NEW s \in Seq(S), Len(s) <= 1
  PROVE  s = << >> \/ (1 \in DOMAIN s /\ s[1] \in S /\ s = << s[1] >> /\ DOMAIN s = {1})
<1>1. Len(s) \in Nat /\ DOMAIN s = 1 .. Len(s)
  OBVIOUS
<1>2. CASE Len(s) = 0
  BY <1>2
<1>3. CASE Len(s) = 1
  BY <1>3
<1> QED
  BY <1>1, <1>2, <1>3

LEMMA JoinedOne ==
  ASSUME NEW S, NEW s \in Seq(S), NEW e \in S
  PROVE  s \o << e >> = Append(s, e) /\ s \o << >> = s
OBVIOUS

LEMMA SameLength ==
  ASSUME NEW S, NEW T, NEW s \in Seq(S), NEW t, t = [k \in DOMAIN s |-> t[k]],
         \A k \in DOMAIN s : t[k] \in T
  PROVE  t \in Seq(T) /\ Len(t) = Len(s) /\ DOMAIN t = DOMAIN s
OBVIOUS

-----------------------------------------------------------------------------
(* Types.                                                                  *)

Entries == [utt : Nat, part : Nat, late : BOOLEAN]

\* What the audio worker holds at each of its steps.
Phases ==
  /\ apc = "feed" => pending # << >>
  /\ apc \in {"report", "drain", "notify"} => pending = << >>
  /\ apc = "notify" => player = << >>

TypeInv == TypeOK /\ Phases

LEMMA NoChunkType == NoChunk \in Chunks
BY DEF NoChunk, Chunks, Parts

LEMMA ChunkFields ==
  ASSUME NEW c \in Chunks
  PROVE  c.utt \in Nat /\ c.part \in Nat /\ c.kind \in Parts /\ c.seq \in Nat
BY DEF Chunks

LEMMA EntryType ==
  ASSUME NEW c \in Chunks
  PROVE  Entry(c) \in Entries
<1>1. c.utt \in Nat /\ c.part \in Nat
  BY ChunkFields
<1>2. (c.seq < silenced) \in BOOLEAN
  OBVIOUS
<1> QED
  BY <1>1, <1>2 DEF Entry, Entries

LEMMA TaggedType ==
  ASSUME sequence \in Nat, NEW u \in DOMAIN Streams
  PROVE  /\ Tagged(u) \in Seq(Chunks) /\ Len(Tagged(u)) = Len(Streams[u])
         /\ DOMAIN Tagged(u) = DOMAIN Streams[u]
         /\ DOMAIN Streams[u] = 1 .. Len(Streams[u]) /\ Len(Streams[u]) \in Nat
<1>1. u \in Nat
  BY StreamAssumption
<1>2. Streams[u] \in Seq(Parts)
  BY StreamAssumption
<1> DEFINE t == Tagged(u)
           s == Streams[u]
<1>3. \A k \in DOMAIN s : t[k] = [utt |-> u, part |-> k, kind |-> s[k], seq |-> sequence]
  BY DEF Tagged
<1>4. \A k \in DOMAIN s : s[k] \in Parts /\ k \in Nat
  BY <1>2
<1>5. \A k \in DOMAIN s : t[k] \in Chunks
  <2> SUFFICES ASSUME NEW k \in DOMAIN s PROVE t[k] \in Chunks
    OBVIOUS
  <2>1. [utt |-> u, part |-> k, kind |-> s[k], seq |-> sequence] \in Chunks
    BY <1>1, <1>4 DEF Chunks
  <2> QED
    BY <1>3, <2>1
<1>6. t = [k \in DOMAIN s |-> t[k]]
  BY <1>3 DEF Tagged
<1>7. DOMAIN s = 1 .. Len(s) /\ Len(s) \in Nat
  BY <1>2
<1> HIDE DEF t, s
<1>8. t \in Seq(Chunks) /\ Len(t) = Len(s) /\ DOMAIN t = DOMAIN s
  BY <1>2, <1>5, <1>6, SameLength DEF s
<1> QED
  BY <1>7, <1>8 DEF t, s
-----------------------------------------------------------------------------
LEMMA InitTypes == Init => TypeInv
<1> SUFFICES ASSUME Init PROVE TypeInv
  OBVIOUS
<1>0. /\ origin = << >> /\ coming = << >> /\ queue = << >> /\ pending = << >>
      /\ player = << >> /\ log = << >>
  BY DEF Init
<1>1. /\ origin \in Seq(Nat) /\ coming \in Seq(Chunks) /\ queue \in Seq(Chunks)
      /\ player \in Seq(Buffers) /\ log \in Seq([utt : Nat, part : Nat, late : BOOLEAN])
  BY <1>0
<1>2. Len(Streams) \in Nat /\ Len(origin) <= Len(Streams)
  BY <1>0, StreamAssumption
<1>4. pending \in Seq(Chunks) /\ Len(pending) <= 1
  BY <1>0, AtMostOne
<1>5. Len(player) <= PlayerCapacity
  BY <1>0, PlayerAssumption
<1>6. /\ sequence \in Nat /\ silenced \in 0 .. sequence
      /\ cancels \in 0 .. MaxCancels /\ restarts \in 0 .. MaxRestarts
  BY CancelAssumption DEF Init
<1>7. chunk \in Chunks
  BY NoChunkType DEF Init
<1>8. /\ mpc \in {"idle", "stopPlayer", "stopWorker", "join"} /\ restarting \in BOOLEAN
      /\ apc \in {"get", "check", "feed", "report", "drain", "notify", "exited"}
      /\ stopping \in BOOLEAN
  BY DEF Init
<1>3. TypeOK
  BY <1>1, <1>2, <1>4, <1>5, <1>6, <1>7, <1>8 DEF TypeOK
<1> QED
  BY <1>3 DEF Init, Phases, TypeInv

\* The receiver, the host and NVDA's main thread.
LEMMA MainTypes ==
  ASSUME TypeInv, MainThread \/ ReceiverPuts \/ HostForgets
  PROVE  TypeInv'
<1> USE DEF TypeInv, TypeOK, Phases
<1>c. CASE ReceiverPuts
  <2>1. Head(coming) \in Chunks /\ Tail(coming) \in Seq(Chunks)
    BY <1>c, OneLess DEF ReceiverPuts
  <2>2. Append(queue, Head(coming)) \in Seq(Chunks)
    BY <2>1, OneMore
  <2> QED
    BY <1>c, <2>1, <2>2 DEF ReceiverPuts, mainVars, workerVars
<1>h. CASE HostForgets
  <2>1. Tail(coming) \in Seq(Chunks)
    BY <1>h, OneLess DEF HostForgets
  <2> QED
    BY <1>h, <2>1 DEF HostForgets, mainVars, workerVars
<1>s. CASE Speak
  <2>1. Append(origin, sequence) \in Seq(Nat) /\ Len(Append(origin, sequence)) = Len(origin) + 1
    BY OneMore
  <2>2. Len(origin) \in Nat /\ Len(Streams) \in Nat /\ DOMAIN Streams = 1 .. Len(Streams)
    BY StreamAssumption
  <2>3. Len(origin) + 1 \in DOMAIN Streams /\ Len(origin) + 1 <= Len(Streams)
    BY <1>s, <2>2 DEF Speak
  <2>4. Tagged(Len(origin) + 1) \in Seq(Chunks)
    BY <2>3, TaggedType
  <2>5. coming \o Tagged(Len(origin) + 1) \in Seq(Chunks)
    BY <2>4, Joined
  <2> QED
    BY <1>s, <2>1, <2>3, <2>5 DEF Speak, workerVars
<1>n. CASE Cancel
  <2>1. cancels' \in 0 .. MaxCancels /\ sequence' \in Nat /\ silenced \in 0 .. sequence'
    BY <1>n, CancelAssumption DEF Cancel
  <2>2. PICK restart \in {r \in BOOLEAN : r => restarts < MaxRestarts} :
          restarting' = restart /\ restarts' = IF restart THEN restarts + 1 ELSE restarts
    BY <1>n DEF Cancel
  <2>3. restarting' \in BOOLEAN
    BY <2>2
  <2>4. restarts' \in 0 .. MaxRestarts
    <3>1. CASE restart
      BY <2>2, <3>1, CancelAssumption
    <3>2. CASE ~restart
      BY <2>2, <3>2, CancelAssumption
    <3> QED
      BY <3>1, <3>2
  <2> QED
    BY <1>n, <2>1, <2>3, <2>4 DEF Cancel, workerVars
<1>p. CASE StopsPlayer
  <2>1. << >> \in Seq(Buffers) /\ Len(<< >>) = 0
    OBVIOUS
  <2> QED
    BY <1>p, <2>1, PlayerAssumption DEF StopsPlayer, workerVars
<1>w. CASE StopsWorker
  <2>1. Append(queue, Marker) \in Seq(Chunks)
    BY NoChunkType, OneMore DEF Marker
  <2> QED
    BY <1>w, <2>1 DEF StopsWorker
<1>r. CASE ReplacesWorker
  <2>1. player' = << >> /\ queue' = << >> /\ pending' = << >>
    BY <1>r DEF ReplacesWorker, NewQueue
  <2>2. player' \in Seq(Buffers) /\ Len(player') <= PlayerCapacity
    BY <2>1, PlayerAssumption
  <2>3. queue' \in Seq(Chunks) /\ pending' \in Seq(Chunks) /\ Len(pending') <= 1
    BY <2>1, AtMostOne
  <2> QED
    BY <1>r, <2>1, <2>2, <2>3, NoChunkType DEF ReplacesWorker
<1> QED
  BY <1>c, <1>h, <1>s, <1>n, <1>p, <1>w, <1>r DEF MainThread, MainStops

\* The audio worker.
LEMMA WorkerTypes ==
  ASSUME TypeInv, AudioWorker
  PROVE  TypeInv'
<1> USE DEF TypeInv, TypeOK, Phases
<1>e. << >> \in Seq(Chunks) /\ Len(<< >>) = 0
  OBVIOUS
<1>o. << chunk >> \in Seq(Chunks) /\ Len(<< chunk >>) = 1 /\ << chunk >> # << >>
  OBVIOUS
<1>t. CASE WorkerTakes
  <2>1. Head(queue) \in Chunks /\ Tail(queue) \in Seq(Chunks)
    BY <1>t, OneLess DEF WorkerTakes
  <2>2. CASE Head(queue) = Marker
    BY <1>t, <2>1, <2>2 DEF WorkerTakes, mainVars
  <2>3. CASE Head(queue) # Marker
    <3>1. pending' \in Seq(Chunks) /\ Len(pending') <= 1
      <4>1. pending' = << >> \/ pending' = pending
        BY <1>t, <2>3 DEF WorkerTakes
      <4>2. pending \in Seq(Chunks) /\ Len(pending) <= 1
        OBVIOUS
      <4>3. CASE pending' = << >>
        BY <4>3, AtMostOne
      <4>4. CASE pending' = pending
        BY <4>2, <4>4
      <4> QED
        BY <4>1, <4>3, <4>4
    <3>2. apc' = "check" /\ chunk' = Head(queue) /\ queue' = Tail(queue)
      BY <1>t, <2>3 DEF WorkerTakes
    <3>3. UNCHANGED << mainVars, coming, stopping, player, log >>
      BY <1>t DEF WorkerTakes
    <3> QED
      BY <2>1, <3>1, <3>2, <3>3 DEF mainVars
  <2> QED
    BY <2>2, <2>3
<1>l. CASE WorkerLeaves
  BY <1>l DEF WorkerLeaves, mainVars
<1>k. CASE WorkerChecks
  <2>1. pending' \in Seq(Chunks) /\ Len(pending') <= 1
    <3>1. pending' = << chunk >> \/ pending' = pending
      BY <1>k DEF WorkerChecks
    <3>2. pending \in Seq(Chunks) /\ Len(pending) <= 1 /\ chunk \in Chunks
      OBVIOUS
    <3>3. CASE pending' = << chunk >>
      BY <3>2, <3>3, AtMostOne
    <3>4. CASE pending' = pending
      BY <3>2, <3>4
    <3> QED
      BY <3>1, <3>3, <3>4
  <2>2. UNCHANGED << mainVars, coming, queue, stopping, chunk, player, log >>
    BY <1>k DEF WorkerChecks
  <2>3. /\ apc' \in {"get", "feed", "report"}
        /\ apc' = "feed" => pending' # << >>
        /\ apc' = "report" => pending' = << >>
    <3>1. CASE Stale(chunk)
      BY <1>k, <3>1 DEF WorkerChecks, AfterCheck
    <3>2. CASE ~Stale(chunk) /\ pending # << >>
      BY <1>k, <3>2 DEF WorkerChecks, AfterCheck
    <3>3. CASE ~Stale(chunk) /\ pending = << >> /\ chunk.kind = "audio"
      BY <1>k, <3>3 DEF WorkerChecks, AfterCheck
    <3>4. CASE ~Stale(chunk) /\ pending = << >> /\ chunk.kind # "audio"
      BY <1>k, <3>4 DEF WorkerChecks, AfterCheck
    <3> QED
      BY <3>1, <3>2, <3>3, <3>4
  <2> QED
    BY <2>1, <2>2, <2>3 DEF mainVars
<1>f. CASE WorkerFeeds
  <2>1. pending' \in Seq(Chunks) /\ Len(pending') <= 1
    <3>1. pending' = << chunk >> \/ pending' = << >>
      BY <1>f DEF WorkerFeeds
    <3>2. chunk \in Chunks
      OBVIOUS
    <3> QED
      BY <3>1, <3>2, AtMostOne
  <2>2. UNCHANGED << mainVars, coming, queue, stopping, chunk, log >>
    BY <1>f DEF WorkerFeeds
  <2>3. apc' \in {"get", "report"} /\ (apc' = "report" => pending' = << >>)
    BY <1>f DEF WorkerFeeds
  <2>4. player' \in Seq(Buffers) /\ Len(player') <= PlayerCapacity
    <3>1. CASE stopping
      BY <1>f, <3>1 DEF WorkerFeeds
    <3>2. CASE ~stopping
      <4>1. pending[1] \in Chunks
        BY <1>f, OneLess DEF WorkerFeeds
      <4>2. OnDone \in Seq(Chunks)
        BY <1>e, <1>o DEF OnDone
      <4>3. [chunk |-> pending[1], onDone |-> OnDone] \in Buffers
        BY <4>1, <4>2 DEF Buffers
      <4>4. player' = Append(player, [chunk |-> pending[1], onDone |-> OnDone])
        BY <1>f, <3>2 DEF WorkerFeeds
      <4>5. player' \in Seq(Buffers) /\ Len(player') = Len(player) + 1
        BY <4>3, <4>4, OneMore
      <4>6. Len(player) < PlayerCapacity
        BY <1>f, <3>2 DEF WorkerFeeds, HasRoom
      <4>7. Len(player) \in Nat
        OBVIOUS
      <4> QED
        BY <4>5, <4>6, <4>7, PlayerAssumption
    <3> QED
      BY <3>1, <3>2
  <2> QED
    BY <2>1, <2>2, <2>3, <2>4 DEF mainVars
<1>r. CASE WorkerReports
  BY <1>r DEF WorkerReports, mainVars
<1>d. CASE WorkerDrains
  BY <1>d DEF WorkerDrains, mainVars
<1>n. CASE WorkerNotifies
  <2>1. Entry(chunk) \in Entries
    BY EntryType
  <2>2. Append(log, Entry(chunk)) \in Seq(Entries)
    BY <2>1, OneMore DEF Entries
  <2>3. log' \in Seq(Entries)
    BY <1>n, <2>2 DEF WorkerNotifies, Entries
  <2> QED
    BY <1>n, <2>3 DEF WorkerNotifies, mainVars, Entries
<1> QED
  BY <1>t, <1>l, <1>k, <1>f, <1>r, <1>d, <1>n DEF AudioWorker

\* What a buffer that has played out adds to the log.
LEMMA PlayedType ==
  ASSUME NEW b \in Buffers
  PROVE  /\ b.chunk \in Chunks /\ b.onDone \in Seq(Chunks)
         /\ << Entry(b.chunk) >> \in Seq(Entries)
         /\ [k \in DOMAIN b.onDone |-> Entry(b.onDone[k])] \in Seq(Entries)
         /\ Len([k \in DOMAIN b.onDone |-> Entry(b.onDone[k])]) = Len(b.onDone)
<1>1. b.chunk \in Chunks /\ b.onDone \in Seq(Chunks)
  BY DEF Buffers
<1>2. Entry(b.chunk) \in Entries
  BY <1>1, EntryType
<1>3. << Entry(b.chunk) >> \in Seq(Entries)
  BY <1>2, OneOnly
<1> DEFINE s == b.onDone
           t == [k \in DOMAIN s |-> Entry(s[k])]
<1>4. \A k \in DOMAIN s : s[k] \in Chunks
  BY <1>1
<1>5. \A k \in DOMAIN s : t[k] \in Entries
  BY <1>4, EntryType
<1>6. t = [k \in DOMAIN s |-> t[k]]
  OBVIOUS
<1>s. s \in Seq(Chunks)
  BY <1>1
<1> HIDE DEF t, s
<1>7. t \in Seq(Entries) /\ Len(t) = Len(s)
  BY <1>s, <1>5, <1>6, SameLength
<1> QED
  BY <1>1, <1>3, <1>7 DEF t, s

LEMMA PlayerTypes ==
  ASSUME TypeInv, PlayerFinishes
  PROVE  TypeInv'
<1> USE DEF TypeInv, TypeOK, Phases
<1>1. /\ Head(player) \in Buffers /\ Tail(player) \in Seq(Buffers)
      /\ Len(Tail(player)) = Len(player) - 1 /\ Len(player) \in Nat
  BY OneLess DEF PlayerFinishes
<1> DEFINE b == Head(player)
           e == << Entry(b.chunk) >>
           t == [k \in DOMAIN b.onDone |-> Entry(b.onDone[k])]
<1>2. e \in Seq(Entries) /\ t \in Seq(Entries)
  BY <1>1, PlayedType
<1>3. log \in Seq(Entries) /\ log' = log \o e \o t
  BY DEF PlayerFinishes, Entries
<1> HIDE DEF e, t
<1>4. log' \in Seq(Entries)
  BY <1>2, <1>3, Joined
<1>5. player' \in Seq(Buffers) /\ Len(player') <= PlayerCapacity
  BY <1>1, PlayerAssumption DEF PlayerFinishes
<1> QED
  BY <1>4, <1>5 DEF PlayerFinishes, mainVars, workerVars, Entries

LEMMA Stutters ==
  ASSUME TypeInv, UNCHANGED vars
  PROVE  TypeInv'
BY DEF TypeInv, TypeOK, Phases, vars, mainVars, workerVars

LEMMA TypesKept == TypeInv /\ [Next]_vars => TypeInv'
<1> SUFFICES ASSUME TypeInv, [Next]_vars PROVE TypeInv'
  OBVIOUS
<1>1. AtRest => UNCHANGED vars
  BY DEF AtRest
<1> QED
  BY <1>1, MainTypes, WorkerTypes, PlayerTypes, Stutters DEF Next

\* Every variable keeps its type: among them, the worker holds back at most one
\* chunk, and the player never buffers more than it has room for.
THEOREM PlaybackTypes == Spec => []TypeOK
<1>1. TypeInv => TypeOK
  BY DEF TypeInv
<1> QED
  BY <1>1, InitTypes, TypesKept, PTL DEF Spec

-----------------------------------------------------------------------------
(* Order.  Every chunk is somewhere on the way from the host to the log:   *)
(* still to come, on the queue, in the worker's hand, held back, or in the *)
(* player.  What is further on was reported earlier.                       *)

Before(c, d) == c.utt < d.utt \/ (c.utt = d.utt /\ c.part < d.part)

AllBefore(A, B) == \A a \in A, b \in B : Before(a, b)

Ran(s) == {s[k] : k \in DOMAIN s}

\* The chunks on a queue, its markers left aside, are in order.
Sorted(s) ==
  \A i, j \in DOMAIN s : i < j /\ s[i] # Marker /\ s[j] # Marker => Before(s[i], s[j])

Rising(s) == \A i, j \in DOMAIN s : i < j => Before(s[i], s[j])

Played(b) == {b.chunk} \union Ran(b.onDone)

\* A buffer's callback follows its chunk, and both precede the next buffer.
PlayerSorted(p) ==
  /\ \A i \in DOMAIN p : Len(p[i].onDone) <= 1 /\ AllBefore({p[i].chunk}, Ran(p[i].onDone))
  /\ \A i, j \in DOMAIN p : i < j => AllBefore(Played(p[i]), Played(p[j]))

PlayedBy(p) == UNION {Played(p[i]) : i \in DOMAIN p}

Logged == Ran(log)
Playing == PlayedBy(player)
Held == Ran(pending)
InHand == IF apc \in {"check", "feed", "report", "drain", "notify"} THEN {chunk} ELSE {}
Queued == Ran(queue) \ {Marker}
Coming == Ran(coming)

\* The stations of the way, each with all that is behind it.
InLine(L, P, H, I, Q, C) ==
  /\ AllBefore(L, P \union H \union I \union Q \union C)
  /\ AllBefore(P, H \union I \union Q \union C)
  /\ AllBefore(H, I \union Q \union C)
  /\ AllBefore(I, Q \union C)
  /\ AllBefore(Q, C)

Way == Playing \union Held \union InHand \union Queued \union Coming

\* A chunk carries the utterance it belongs to and the sequence this was spoken in.
Tells(c) ==
  c \in Chunks /\ c.part # 0 /\ c.utt \in DOMAIN origin /\ c.seq = origin[c.utt]

Order ==
  /\ Rising(log)
  /\ Sorted(queue) /\ Sorted(coming) /\ PlayerSorted(player)
  /\ InLine(Logged, Playing, Held, InHand, Queued, Coming)
  /\ \A c \in Way : Tells(c)
  /\ \A k \in DOMAIN log : log[k].utt \in DOMAIN origin

LEMMA RanNone == Ran(<< >>) = {}
BY DEF Ran

LEMMA RanOne ==
  ASSUME NEW S, NEW e \in S
  PROVE  Ran(<< e >>) = {e}
BY OneOnly DEF Ran

LEMMA RanMore ==
  ASSUME NEW S, NEW s \in Seq(S), NEW e \in S
  PROVE  Ran(Append(s, e)) = Ran(s) \union {e}
<1> DEFINE t == Append(s, e)
<1>1. /\ \A k \in DOMAIN s : t[k] = s[k]
      /\ t[Len(s) + 1] = e /\ DOMAIN s = 1 .. Len(s) /\ DOMAIN t = 1 .. Len(s) + 1
      /\ Len(s) \in Nat
  BY OneMore
<1> HIDE DEF t
<1>2. Ran(t) = Ran(s) \union {e}
  <2>1. ASSUME NEW x \in Ran(t) PROVE x \in Ran(s) \union {e}
    <3>1. PICK k \in 1 .. Len(s) + 1 : x = t[k]
      BY <1>1 DEF Ran
    <3>2. k \in 1 .. Len(s) \/ k = Len(s) + 1
      BY <1>1
    <3> QED
      BY <1>1, <3>1, <3>2 DEF Ran
  <2>2. ASSUME NEW x \in Ran(s) PROVE x \in Ran(t)
    <3>1. PICK k \in 1 .. Len(s) : x = s[k]
      BY <1>1 DEF Ran
    <3>2. k \in 1 .. Len(s) + 1
      BY <1>1
    <3> QED
      BY <1>1, <3>1, <3>2 DEF Ran
  <2>3. e \in Ran(t)
    <3>1. Len(s) + 1 \in 1 .. Len(s) + 1
      BY <1>1
    <3> QED
      BY <1>1, <3>1 DEF Ran
  <2> QED
    BY <2>1, <2>2, <2>3
<1> QED
  BY <1>2 DEF t

LEMMA RanLess ==
  ASSUME NEW S, NEW s \in Seq(S), s # << >>
  PROVE  Ran(s) = {Head(s)} \union Ran(Tail(s))
<1> DEFINE t == Tail(s)
           h == Head(s)
<1>1. /\ h = s[1] /\ Len(s) \in Nat \ {0}
      /\ DOMAIN s = 1 .. Len(s) /\ DOMAIN t = 1 .. Len(s) - 1
      /\ \A k \in DOMAIN t : t[k] = s[k + 1]
  BY OneLess
<1> HIDE DEF t, h
<1>2. ASSUME NEW x \in Ran(s) PROVE x \in {h} \union Ran(t)
  <2>1. PICK k \in 1 .. Len(s) : x = s[k]
    BY <1>1 DEF Ran
  <2>2. CASE k = 1
    BY <1>1, <2>1, <2>2
  <2>3. CASE k # 1
    <3>1. k - 1 \in 1 .. Len(s) - 1 /\ (k - 1) + 1 = k
      BY <1>1, <2>3
    <3>2. t[k - 1] = x
      BY <1>1, <2>1, <3>1
    <3> QED
      BY <1>1, <3>1, <3>2 DEF Ran
  <2> QED
    BY <2>2, <2>3
<1>3. ASSUME NEW x \in Ran(t) PROVE x \in Ran(s)
  <2>1. PICK k \in 1 .. Len(s) - 1 : x = t[k]
    BY <1>1 DEF Ran
  <2>2. k + 1 \in 1 .. Len(s) /\ x = s[k + 1]
    BY <1>1, <2>1
  <2> QED
    BY <1>1, <2>2 DEF Ran
<1>4. h \in Ran(s)
  <2>1. 1 \in 1 .. Len(s)
    BY <1>1
  <2> QED
    BY <1>1, <2>1 DEF Ran
<1> QED
  BY <1>2, <1>3, <1>4 DEF t, h

LEMMA RanJoined ==
  ASSUME NEW S, NEW s \in Seq(S), NEW t \in Seq(S)
  PROVE  Ran(s \o t) = Ran(s) \union Ran(t)
<1> DEFINE u == s \o t
<1>1. /\ DOMAIN s = 1 .. Len(s) /\ DOMAIN t = 1 .. Len(t) /\ DOMAIN u = 1 .. Len(s) + Len(t)
      /\ \A k \in DOMAIN s : u[k] = s[k]
      /\ \A k \in DOMAIN t : u[Len(s) + k] = t[k]
      /\ Len(s) \in Nat /\ Len(t) \in Nat
  BY Joined
<1> HIDE DEF u
<1>2. ASSUME NEW x \in Ran(u) PROVE x \in Ran(s) \union Ran(t)
  <2>1. PICK k \in 1 .. Len(s) + Len(t) : x = u[k]
    BY <1>1 DEF Ran
  <2>2. CASE k <= Len(s)
    <3>1. k \in 1 .. Len(s) /\ x = s[k]
      BY <1>1, <2>1, <2>2
    <3> QED
      BY <1>1, <3>1 DEF Ran
  <2>3. CASE k > Len(s)
    <3>1. k - Len(s) \in 1 .. Len(t) /\ Len(s) + (k - Len(s)) = k
      BY <1>1, <2>3
    <3>2. x = t[k - Len(s)]
      BY <1>1, <2>1, <3>1
    <3> QED
      BY <1>1, <3>1, <3>2 DEF Ran
  <2> QED
    BY <1>1, <2>2, <2>3
<1>3. ASSUME NEW x \in Ran(s) PROVE x \in Ran(u)
  <2>1. PICK k \in 1 .. Len(s) : x = s[k]
    BY <1>1 DEF Ran
  <2>2. k \in 1 .. Len(s) + Len(t) /\ x = u[k]
    BY <1>1, <2>1
  <2> QED
    BY <1>1, <2>2 DEF Ran
<1>4. ASSUME NEW x \in Ran(t) PROVE x \in Ran(u)
  <2>1. PICK k \in 1 .. Len(t) : x = t[k]
    BY <1>1 DEF Ran
  <2>2. Len(s) + k \in 1 .. Len(s) + Len(t)
    <3>1. Len(s) \in Nat /\ Len(t) \in Nat /\ k \in 1 .. Len(t)
      BY <1>1
    <3> QED
      BY <3>1
  <2>3. x = u[Len(s) + k]
    BY <1>1, <2>1
  <2> QED
    BY <1>1, <2>2, <2>3 DEF Ran
<1> QED
  BY <1>2, <1>3, <1>4 DEF u

\* What joins the end of a queue behind all that is on it.
LEMMA SortedMore ==
  ASSUME NEW S, NEW s \in Seq(S), NEW e \in S, Sorted(s),
         e = Marker \/ AllBefore(Ran(s) \ {Marker}, {e})
  PROVE  Sorted(Append(s, e))
<1> DEFINE t == Append(s, e)
<1>1. /\ \A k \in DOMAIN s : t[k] = s[k]
      /\ t[Len(s) + 1] = e /\ DOMAIN s = 1 .. Len(s) /\ DOMAIN t = 1 .. Len(s) + 1
      /\ Len(s) \in Nat
  BY OneMore
<1> HIDE DEF t
<1>2. ASSUME NEW i \in DOMAIN t, NEW j \in DOMAIN t, i < j, t[i] # Marker, t[j] # Marker
      PROVE  Before(t[i], t[j])
  <2>1. i \in DOMAIN s /\ t[i] = s[i]
    BY <1>1, <1>2
  <2>2. CASE j \in DOMAIN s
    BY <1>1, <1>2, <2>1, <2>2 DEF Sorted
  <2>3. CASE j \notin DOMAIN s
    <3>1. j = Len(s) + 1
      BY <1>1, <2>3
    <3>2. t[i] \in Ran(s) \ {Marker} /\ t[j] = e
      BY <1>1, <1>2, <2>1, <3>1 DEF Ran
    <3> QED
      BY <1>2, <3>2 DEF AllBefore
  <2> QED
    BY <2>2, <2>3
<1>3. Sorted(t)
  BY <1>2 DEF Sorted
<1> QED
  BY <1>3 DEF t

\* The head of a queue precedes what is left of it.
LEMMA SortedLess ==
  ASSUME NEW S, NEW s \in Seq(S), s # << >>, Sorted(s)
  PROVE  /\ Sorted(Tail(s))
         /\ Head(s) # Marker => AllBefore({Head(s)}, Ran(Tail(s)) \ {Marker})
<1> DEFINE t == Tail(s)
           h == Head(s)
<1>1. /\ h = s[1] /\ Len(s) \in Nat \ {0}
      /\ DOMAIN s = 1 .. Len(s) /\ DOMAIN t = 1 .. Len(s) - 1
      /\ \A k \in DOMAIN t : t[k] = s[k + 1]
  BY OneLess
<1> HIDE DEF t, h
<1>2. ASSUME NEW i \in DOMAIN t, NEW j \in DOMAIN t, i < j, t[i] # Marker, t[j] # Marker
      PROVE  Before(t[i], t[j])
  <2>1. /\ i + 1 \in DOMAIN s /\ j + 1 \in DOMAIN s /\ i + 1 < j + 1
        /\ t[i] = s[i + 1] /\ t[j] = s[j + 1]
    BY <1>1, <1>2
  <2> QED
    BY <1>2, <2>1 DEF Sorted
<1>3. ASSUME h # Marker, NEW x \in Ran(t) \ {Marker} PROVE Before(h, x)
  <2>1. PICK k \in DOMAIN t : x = t[k]
    BY DEF Ran
  <2>2. /\ 1 \in DOMAIN s /\ k + 1 \in DOMAIN s /\ 1 < k + 1 /\ x = s[k + 1]
    BY <1>1, <2>1
  <2> QED
    BY <1>1, <1>3, <2>2 DEF Sorted
<1>4. Sorted(t)
  BY <1>2 DEF Sorted
<1> QED
  BY <1>3, <1>4 DEF t, h, AllBefore

LEMMA SortedJoined ==
  ASSUME NEW S, NEW s \in Seq(S), NEW t \in Seq(S), Sorted(s), Sorted(t),
         AllBefore(Ran(s), Ran(t))
  PROVE  Sorted(s \o t)
<1> DEFINE u == s \o t
<1>1. /\ DOMAIN s = 1 .. Len(s) /\ DOMAIN t = 1 .. Len(t) /\ DOMAIN u = 1 .. Len(s) + Len(t)
      /\ \A k \in DOMAIN s : u[k] = s[k]
      /\ \A k \in DOMAIN t : u[Len(s) + k] = t[k]
      /\ Len(s) \in Nat /\ Len(t) \in Nat
  BY Joined
<1> HIDE DEF u
<1>2. ASSUME NEW i \in DOMAIN u, NEW j \in DOMAIN u, i < j, u[i] # Marker, u[j] # Marker
      PROVE  Before(u[i], u[j])
  <2>1. CASE i <= Len(s) /\ j <= Len(s)
    BY <1>1, <1>2, <2>1 DEF Sorted
  <2>2. CASE i <= Len(s) /\ j > Len(s)
    <3>1. i \in DOMAIN s /\ u[i] = s[i]
      BY <1>1, <1>2, <2>2
    <3>2. j - Len(s) \in DOMAIN t /\ Len(s) + (j - Len(s)) = j
      BY <1>1, <1>2, <2>2
    <3>3. u[j] = t[j - Len(s)]
      BY <1>1, <3>2
    <3> QED
      BY <3>1, <3>2, <3>3 DEF Ran, AllBefore
  <2>3. CASE i > Len(s)
    <3>0. /\ i \in Nat /\ j \in Nat /\ Len(s) \in Nat /\ Len(t) \in Nat
          /\ i <= Len(s) + Len(t) /\ j <= Len(s) + Len(t)
      BY <1>1
    <3>1. /\ i - Len(s) \in 1 .. Len(t) /\ j - Len(s) \in 1 .. Len(t)
          /\ i - Len(s) < j - Len(s)
          /\ Len(s) + (i - Len(s)) = i /\ Len(s) + (j - Len(s)) = j
      BY <3>0, <1>2, <2>3
    <3>2. u[i] = t[i - Len(s)] /\ u[j] = t[j - Len(s)]
      BY <1>1, <3>1
    <3> QED
      BY <1>2, <3>1, <3>2 DEF Sorted
  <2> QED
    BY <1>1, <1>2, <2>1, <2>2, <2>3
<1>3. Sorted(u)
  BY <1>2 DEF Sorted
<1> QED
  BY <1>3 DEF u

\* The log, which holds no marker.
LEMMA RisingMore ==
  ASSUME NEW S, NEW s \in Seq(S), NEW e \in S, Rising(s), AllBefore(Ran(s), {e})
  PROVE  Rising(Append(s, e))
<1> DEFINE t == Append(s, e)
<1>1. /\ \A k \in DOMAIN s : t[k] = s[k]
      /\ t[Len(s) + 1] = e /\ DOMAIN s = 1 .. Len(s) /\ DOMAIN t = 1 .. Len(s) + 1
      /\ Len(s) \in Nat
  BY OneMore
<1> HIDE DEF t
<1>2. ASSUME NEW i \in DOMAIN t, NEW j \in DOMAIN t, i < j PROVE Before(t[i], t[j])
  <2>1. i \in DOMAIN s /\ t[i] = s[i]
    BY <1>1, <1>2
  <2>2. CASE j \in DOMAIN s
    BY <1>1, <1>2, <2>1, <2>2 DEF Rising
  <2>3. CASE j \notin DOMAIN s
    <3>1. j = Len(s) + 1
      BY <1>1, <2>3
    <3>2. t[i] \in Ran(s) /\ t[j] = e
      BY <1>1, <2>1, <3>1 DEF Ran
    <3> QED
      BY <3>2 DEF AllBefore
  <2> QED
    BY <2>2, <2>3
<1>3. Rising(t)
  BY <1>2 DEF Rising
<1> QED
  BY <1>3 DEF t

LEMMA PlayedByMore ==
  ASSUME NEW s \in Seq(Buffers), NEW e \in Buffers
  PROVE  PlayedBy(Append(s, e)) = PlayedBy(s) \union Played(e)
<1> DEFINE t == Append(s, e)
<1>1. /\ \A k \in DOMAIN s : t[k] = s[k]
      /\ t[Len(s) + 1] = e /\ DOMAIN s = 1 .. Len(s) /\ DOMAIN t = 1 .. Len(s) + 1
      /\ Len(s) \in Nat
  BY OneMore
<1> HIDE DEF t
<1>2. ASSUME NEW x \in PlayedBy(t) PROVE x \in PlayedBy(s) \union Played(e)
  <2>1. PICK k \in 1 .. Len(s) + 1 : x \in Played(t[k])
    BY <1>1 DEF PlayedBy
  <2>2. k \in 1 .. Len(s) \/ k = Len(s) + 1
    BY <1>1
  <2> QED
    BY <1>1, <2>1, <2>2 DEF PlayedBy
<1>3. ASSUME NEW x \in PlayedBy(s) PROVE x \in PlayedBy(t)
  <2>1. PICK k \in 1 .. Len(s) : x \in Played(s[k])
    BY <1>1 DEF PlayedBy
  <2>2. k \in 1 .. Len(s) + 1 /\ t[k] = s[k]
    BY <1>1
  <2> QED
    BY <1>1, <2>1, <2>2 DEF PlayedBy
<1>4. ASSUME NEW x \in Played(e) PROVE x \in PlayedBy(t)
  <2>1. Len(s) + 1 \in 1 .. Len(s) + 1
    BY <1>1
  <2> QED
    BY <1>1, <2>1 DEF PlayedBy
<1> QED
  BY <1>2, <1>3, <1>4 DEF t

LEMMA PlayedByLess ==
  ASSUME NEW s \in Seq(Buffers), s # << >>
  PROVE  PlayedBy(s) = Played(Head(s)) \union PlayedBy(Tail(s))
<1> DEFINE t == Tail(s)
           h == Head(s)
<1>1. /\ h = s[1] /\ Len(s) \in Nat \ {0}
      /\ DOMAIN s = 1 .. Len(s) /\ DOMAIN t = 1 .. Len(s) - 1
      /\ \A k \in DOMAIN t : t[k] = s[k + 1]
  BY OneLess
<1> HIDE DEF t, h
<1>2. ASSUME NEW x \in PlayedBy(s) PROVE x \in Played(h) \union PlayedBy(t)
  <2>1. PICK k \in 1 .. Len(s) : x \in Played(s[k])
    BY <1>1 DEF PlayedBy
  <2>2. CASE k = 1
    BY <1>1, <2>1, <2>2
  <2>3. CASE k # 1
    <3>1. k - 1 \in 1 .. Len(s) - 1 /\ (k - 1) + 1 = k
      BY <1>1, <2>3
    <3>2. t[k - 1] = s[k]
      BY <1>1, <3>1
    <3> QED
      BY <1>1, <2>1, <3>1, <3>2 DEF PlayedBy
  <2> QED
    BY <2>2, <2>3
<1>3. ASSUME NEW x \in PlayedBy(t) PROVE x \in PlayedBy(s)
  <2>1. PICK k \in 1 .. Len(s) - 1 : x \in Played(t[k])
    BY <1>1 DEF PlayedBy
  <2>2. k + 1 \in 1 .. Len(s) /\ t[k] = s[k + 1]
    BY <1>1, <2>1
  <2> QED
    BY <1>1, <2>1, <2>2 DEF PlayedBy
<1>4. ASSUME NEW x \in Played(h) PROVE x \in PlayedBy(s)
  <2>1. 1 \in 1 .. Len(s)
    BY <1>1
  <2> QED
    BY <1>1, <2>1 DEF PlayedBy
<1> QED
  BY <1>2, <1>3, <1>4 DEF t, h

LEMMA PlayerSortedMore ==
  ASSUME NEW s \in Seq(Buffers), NEW e \in Buffers, PlayerSorted(s),
         Len(e.onDone) <= 1, AllBefore({e.chunk}, Ran(e.onDone)),
         AllBefore(PlayedBy(s), Played(e))
  PROVE  PlayerSorted(Append(s, e))
<1> DEFINE t == Append(s, e)
<1>1. /\ \A k \in DOMAIN s : t[k] = s[k]
      /\ t[Len(s) + 1] = e /\ DOMAIN s = 1 .. Len(s) /\ DOMAIN t = 1 .. Len(s) + 1
      /\ Len(s) \in Nat
  BY OneMore
<1> HIDE DEF t
<1>2. ASSUME NEW i \in DOMAIN t
      PROVE  Len(t[i].onDone) <= 1 /\ AllBefore({t[i].chunk}, Ran(t[i].onDone))
  <2>1. CASE i \in DOMAIN s
    BY <1>1, <2>1 DEF PlayerSorted
  <2>2. CASE i \notin DOMAIN s
    <3>1. i = Len(s) + 1
      BY <1>1, <2>2
    <3>2. t[i] = e
      BY <1>1, <3>1
    <3> QED
      BY <3>2
  <2> QED
    BY <2>1, <2>2
<1>3. ASSUME NEW i \in DOMAIN t, NEW j \in DOMAIN t, i < j
      PROVE  AllBefore(Played(t[i]), Played(t[j]))
  <2>1. i \in DOMAIN s /\ t[i] = s[i]
    BY <1>1, <1>3
  <2>2. CASE j \in DOMAIN s
    <3>1. t[j] = s[j]
      BY <1>1, <2>2
    <3> QED
      BY <1>3, <2>1, <2>2, <3>1 DEF PlayerSorted
  <2>3. CASE j \notin DOMAIN s
    <3>1. j = Len(s) + 1
      BY <1>1, <2>3
    <3>2. t[j] = e
      BY <1>1, <3>1
    <3>3. Played(t[i]) \subseteq PlayedBy(s)
      BY <2>1 DEF PlayedBy
    <3> QED
      BY <3>2, <3>3 DEF AllBefore
  <2> QED
    BY <2>2, <2>3
<1>4. PlayerSorted(t)
  BY <1>2, <1>3 DEF PlayerSorted
<1> QED
  BY <1>4 DEF t

LEMMA PlayerSortedLess ==
  ASSUME NEW s \in Seq(Buffers), s # << >>, PlayerSorted(s)
  PROVE  /\ PlayerSorted(Tail(s)) /\ AllBefore(Played(Head(s)), PlayedBy(Tail(s)))
         /\ Len(Head(s).onDone) <= 1 /\ AllBefore({Head(s).chunk}, Ran(Head(s).onDone))
<1> DEFINE t == Tail(s)
           h == Head(s)
<1>1. /\ h = s[1] /\ Len(s) \in Nat \ {0}
      /\ DOMAIN s = 1 .. Len(s) /\ DOMAIN t = 1 .. Len(s) - 1
      /\ \A k \in DOMAIN t : t[k] = s[k + 1]
  BY OneLess
<1> HIDE DEF t, h
<1>2. ASSUME NEW i \in DOMAIN t
      PROVE  Len(t[i].onDone) <= 1 /\ AllBefore({t[i].chunk}, Ran(t[i].onDone))
  <2>1. i + 1 \in DOMAIN s /\ t[i] = s[i + 1]
    BY <1>1
  <2> QED
    BY <2>1 DEF PlayerSorted
<1>3. ASSUME NEW i \in DOMAIN t, NEW j \in DOMAIN t, i < j
      PROVE  AllBefore(Played(t[i]), Played(t[j]))
  <2>1. /\ i + 1 \in DOMAIN s /\ j + 1 \in DOMAIN s /\ i + 1 < j + 1
        /\ t[i] = s[i + 1] /\ t[j] = s[j + 1]
    BY <1>1, <1>3
  <2> QED
    BY <2>1 DEF PlayerSorted
<1>4. ASSUME NEW x \in PlayedBy(t) PROVE AllBefore(Played(h), {x})
  <2>1. PICK k \in DOMAIN t : x \in Played(t[k])
    BY DEF PlayedBy
  <2>2. 1 \in DOMAIN s /\ k + 1 \in DOMAIN s /\ 1 < k + 1 /\ t[k] = s[k + 1]
    BY <1>1
  <2>3. AllBefore(Played(s[1]), Played(s[k + 1]))
    BY <2>2 DEF PlayerSorted
  <2> QED
    BY <1>1, <2>1, <2>2, <2>3 DEF AllBefore
<1>5. PlayerSorted(t)
  BY <1>2, <1>3 DEF PlayerSorted
<1>6. AllBefore(Played(h), PlayedBy(t))
  BY <1>4 DEF AllBefore
<1>7. Len(h.onDone) <= 1 /\ AllBefore({h.chunk}, Ran(h.onDone))
  <2>1. 1 \in DOMAIN s
    BY <1>1
  <2> QED
    BY <1>1, <2>1 DEF PlayerSorted
<1> QED
  BY <1>5, <1>6, <1>7 DEF t, h

-----------------------------------------------------------------------------
(* The line as its chunks move on.                                         *)

LEMMA LineShrinks ==
  ASSUME NEW L, NEW P, NEW H, NEW I, NEW Q, NEW C, InLine(L, P, H, I, Q, C),
         NEW P2 \in SUBSET P, NEW H2 \in SUBSET H, NEW I2 \in SUBSET I,
         NEW Q2 \in SUBSET Q, NEW C2 \in SUBSET C
  PROVE  InLine(L, P2, H2, I2, Q2, C2)
BY DEF InLine, AllBefore

\* A new utterance joins the end.
LEMMA LineJoined ==
  ASSUME NEW L, NEW P, NEW H, NEW I, NEW Q, NEW C, InLine(L, P, H, I, Q, C),
         NEW N, AllBefore(L \union P \union H \union I \union Q \union C, N)
  PROVE  InLine(L, P, H, I, Q, C \union N)
BY DEF InLine, AllBefore

\* The first of the chunks to come is queued.
LEMMA LineQueues ==
  ASSUME NEW L, NEW P, NEW H, NEW I, NEW Q, NEW C, NEW x,
         InLine(L, P, H, I, Q, {x} \union C), AllBefore({x}, C)
  PROVE  InLine(L, P, H, I, Q \union {x}, C)
BY DEF InLine, AllBefore

\* The first chunk on the queue is taken.
LEMMA LineTakes ==
  ASSUME NEW L, NEW P, NEW H, NEW Q, NEW C, NEW x,
         InLine(L, P, H, {}, {x} \union Q, C), AllBefore({x}, Q)
  PROVE  InLine(L, P, H, {x}, Q, C)
BY DEF InLine, AllBefore

\* The chunk taken is held back, when nothing else is.
LEMMA LineHolds ==
  ASSUME NEW L, NEW P, NEW I, NEW Q, NEW C, InLine(L, P, {}, I, Q, C)
  PROVE  InLine(L, P, I, {}, Q, C)
BY DEF InLine, AllBefore

\* What is held back goes to the player.
LEMMA LineFeeds ==
  ASSUME NEW L, NEW P, NEW H, NEW I, NEW Q, NEW C, InLine(L, P, H, I, Q, C)
  PROVE  InLine(L, P \union H, {}, I, Q, C)
BY DEF InLine, AllBefore

\* The first of what plays is logged.
LEMMA LineLogs ==
  ASSUME NEW L, NEW P, NEW H, NEW I, NEW Q, NEW C, NEW x, NEW e,
         InLine(L, {x} \union P, H, I, Q, C), AllBefore({x}, P),
         e.utt = x.utt, e.part = x.part
  PROVE  InLine(L \union {e}, P, H, I, Q, C)
BY DEF InLine, AllBefore, Before

LEMMA StationsThen ==
  /\ Logged' = Ran(log') /\ Playing' = PlayedBy(player') /\ Held' = Ran(pending')
  /\ InHand' = IF apc' \in {"check", "feed", "report", "drain", "notify"} THEN {chunk'} ELSE {}
  /\ Queued' = Ran(queue') \ {Marker} /\ Coming' = Ran(coming')
  /\ Way' = Playing' \union Held' \union InHand' \union Queued' \union Coming'
BY DEF Logged, Playing, Held, InHand, Queued, Coming, Way

LEMMA TellsKept ==
  ASSUME Order, UNCHANGED origin, Way' \subseteq Way
  PROVE  \A c \in Way' : Tells(c)'
BY DEF Order, Tells

LEMMA OrderThen ==
  ASSUME Rising(log'), Sorted(queue'), Sorted(coming'), PlayerSorted(player'),
         InLine(Logged', Playing', Held', InHand', Queued', Coming'),
         \A c \in Way' : Tells(c)',
         \A k \in DOMAIN log' : log'[k].utt \in DOMAIN origin'
  PROVE  Order'
BY DEF Order, Rising, Sorted, PlayerSorted, InLine

LEMMA InitOrder == Init => Order
<1> SUFFICES ASSUME Init PROVE Order
  OBVIOUS
<1>1. /\ log = << >> /\ queue = << >> /\ coming = << >> /\ player = << >> /\ pending = << >>
      /\ apc = "get"
  BY DEF Init
<1>2. DOMAIN << >> = {}
  OBVIOUS
<1>3. PlayedBy(<< >>) = {}
  BY <1>2 DEF PlayedBy
<1>4. Logged = {} /\ Playing = {} /\ Held = {} /\ InHand = {} /\ Queued = {} /\ Coming = {}
  BY <1>1, <1>3, RanNone DEF Logged, Playing, Held, InHand, Queued, Coming
<1>5. Way = {}
  BY <1>4 DEF Way
<1>6. InLine(Logged, Playing, Held, InHand, Queued, Coming)
  BY <1>4 DEF InLine, AllBefore
<1>7. Rising(log) /\ Sorted(queue) /\ Sorted(coming) /\ PlayerSorted(player)
  BY <1>1, <1>2 DEF Rising, Sorted, PlayerSorted
<1> QED
  BY <1>1, <1>2, <1>5, <1>6, <1>7 DEF Order

\* The marker is no chunk of an utterance.
LEMMA NoMarker ==
  ASSUME Order
  PROVE  Marker \notin Way
BY DEF Order, Tells, Marker, NoChunk

LEMMA ReceiverOrder ==
  ASSUME TypeInv, Order, ReceiverPuts
  PROVE  Order'
<1> DEFINE h == Head(coming)
<1>1. /\ coming \in Seq(Chunks) /\ coming # << >> /\ queue \in Seq(Chunks)
      /\ queue' = Append(queue, h) /\ coming' = Tail(coming)
      /\ UNCHANGED << origin, apc, chunk, pending, player, log >>
  BY DEF TypeInv, TypeOK, ReceiverPuts, mainVars, workerVars
<1>2. h \in Chunks /\ Coming = {h} \union Ran(Tail(coming))
  BY <1>1, OneLess, RanLess DEF Coming
<1>3. h # Marker /\ Marker \notin Ran(Tail(coming))
  BY <1>2, NoMarker DEF Way
<1>4. Sorted(coming') /\ AllBefore({h}, Ran(Tail(coming)))
  <2>1. Sorted(coming)
    BY DEF Order
  <2>2. Sorted(Tail(coming)) /\ AllBefore({h}, Ran(Tail(coming)) \ {Marker})
    BY <1>1, <1>3, <2>1, SortedLess
  <2> QED
    BY <1>1, <1>3, <2>2
<1> HIDE DEF h
<1>5. Queued' = Queued \union {h} /\ Coming' = Ran(Tail(coming))
  <2>1. Ran(queue') = Ran(queue) \union {h}
    BY <1>1, <1>2, RanMore
  <2> QED
    BY <1>1, <1>3, <2>1, StationsThen DEF Queued
<1>6. Logged' = Logged /\ Playing' = Playing /\ Held' = Held /\ InHand' = InHand
  BY <1>1, StationsThen DEF Logged, Playing, Held, InHand
<1>7. InLine(Logged', Playing', Held', InHand', Queued', Coming')
  <2>1. InLine(Logged, Playing, Held, InHand, Queued, {h} \union Ran(Tail(coming)))
    BY <1>2 DEF Order
  <2>2. InLine(Logged, Playing, Held, InHand, Queued \union {h}, Ran(Tail(coming)))
    BY <1>4, <2>1, LineQueues
  <2> QED
    BY <1>5, <1>6, <2>2
<1>8. Sorted(queue')
  <2>1. AllBefore(Queued, {h})
    BY <1>2 DEF Order, InLine, AllBefore
  <2>2. Sorted(queue)
    BY DEF Order
  <2> QED
    BY <1>1, <1>2, <2>1, <2>2, SortedMore DEF Queued
<1>9. \A c \in Way' : Tells(c)'
  <2>1. Way' \subseteq Way
    BY <1>2, <1>5, <1>6, StationsThen DEF Way
  <2> QED
    BY <1>1, <2>1, TellsKept
<1>10. Rising(log') /\ PlayerSorted(player') /\ \A k \in DOMAIN log' : log'[k].utt \in DOMAIN origin'
  BY <1>1 DEF Order
<1> QED
  BY <1>4, <1>7, <1>8, <1>9, <1>10, OrderThen

\* A chunk, or all that the player holds, leaves the line.
LEMMA LeavingOrder ==
  ASSUME TypeInv, Order, UNCHANGED << origin, log >>,
         Sorted(queue'), Sorted(coming'), PlayerSorted(player'),
         Playing' \subseteq Playing, Held' \subseteq Held, InHand' \subseteq InHand,
         Queued' \subseteq Queued, Coming' \subseteq Coming
  PROVE  Order'
<1>1. Logged' = Logged
  BY DEF Logged
<1>2. InLine(Logged, Playing, Held, InHand, Queued, Coming)
  BY DEF Order
<1>3. InLine(Logged, Playing', Held', InHand', Queued', Coming')
  BY <1>2, LineShrinks
<1>4. Way' \subseteq Way
  BY StationsThen DEF Way
<1>5. \A c \in Way' : Tells(c)'
  BY <1>4, TellsKept
<1>6. Rising(log') /\ \A k \in DOMAIN log' : log'[k].utt \in DOMAIN origin'
  BY DEF Order
<1> QED
  BY <1>1, <1>3, <1>5, <1>6, OrderThen

LEMMA ForgetsOrder ==
  ASSUME TypeInv, Order, HostForgets
  PROVE  Order'
<1>1. /\ coming \in Seq(Chunks) /\ coming # << >> /\ coming' = Tail(coming)
      /\ UNCHANGED << origin, queue, apc, chunk, pending, player, log >>
  BY DEF TypeInv, TypeOK, HostForgets, mainVars, workerVars
<1>2. Coming' \subseteq Coming
  BY <1>1, RanLess, StationsThen DEF Coming
<1>3. Sorted(coming') /\ Sorted(queue') /\ PlayerSorted(player')
  BY <1>1, SortedLess DEF Order
<1>4. Playing' = Playing /\ Held' = Held /\ InHand' = InHand /\ Queued' = Queued
  BY <1>1, StationsThen DEF Playing, Held, InHand, Queued
<1> QED
  BY <1>1, <1>2, <1>3, <1>4, LeavingOrder

\* The chunks of a new utterance follow everything spoken before.
LEMMA SpeakOrder ==
  ASSUME TypeInv, Order, Speak
  PROVE  Order'
<1> DEFINE u == Len(origin) + 1
           new == Tagged(u)
<1>1. /\ sequence \in Nat /\ origin \in Seq(Nat) /\ coming \in Seq(Chunks)
      /\ origin' = Append(origin, sequence) /\ coming' = coming \o new
      /\ UNCHANGED << queue, apc, chunk, pending, player, log >>
      /\ log \in Seq(Entries)
  BY DEF TypeInv, TypeOK, Speak, workerVars, Entries
<1>2. u \in DOMAIN Streams /\ u \in Nat /\ u \notin DOMAIN origin
  <2>1. /\ Len(origin) \in Nat /\ Len(Streams) \in Nat /\ DOMAIN Streams = 1 .. Len(Streams)
        /\ DOMAIN origin = 1 .. Len(origin)
    BY <1>1, StreamAssumption
  <2>2. Len(origin) < Len(Streams)
    BY DEF Speak
  <2> QED
    BY <2>1, <2>2
<1>3. /\ new \in Seq(Chunks) /\ Len(new) = Len(Streams[u]) /\ DOMAIN new = 1 .. Len(Streams[u])
      /\ Len(Streams[u]) \in Nat /\ DOMAIN new = DOMAIN Streams[u]
  BY <1>1, <1>2, TaggedType
<1>4. \A k \in DOMAIN new : new[k].utt = u /\ new[k].part = k /\ new[k].seq = sequence
  BY <1>3 DEF Tagged
<1>5. /\ DOMAIN origin = 1 .. Len(origin) /\ Len(origin) \in Nat
      /\ DOMAIN origin' = 1 .. u /\ origin'[u] = sequence
      /\ \A k \in DOMAIN origin : origin'[k] = origin[k]
  BY <1>1, OneMore
<1> HIDE DEF u, new
<1>6. \A c \in Logged \union Way : c.utt \in DOMAIN origin
  BY DEF Order, Tells, Logged, Ran
<1>7. AllBefore(Logged \union Way, Ran(new))
  <2>1. ASSUME NEW c \in Logged \union Way, NEW k \in DOMAIN new PROVE Before(c, new[k])
    <3>1. c.utt \in 1 .. Len(origin) /\ new[k].utt = u /\ u = Len(origin) + 1
      BY <1>4, <1>5, <1>6 DEF u
    <3>2. c.utt < new[k].utt
      BY <3>1, <1>5
    <3> QED
      BY <3>2 DEF Before
  <2> QED
    BY <2>1 DEF AllBefore, Ran
<1>8. Marker \notin Ran(new)
  <2>1. \A k \in DOMAIN new : new[k].part # 0
    BY <1>3, <1>4
  <2> QED
    BY <2>1 DEF Ran, Marker, NoChunk
<1>9. Sorted(coming')
  <2>1. Sorted(new)
    BY <1>3, <1>4 DEF Sorted, Before
  <2>2. AllBefore(Ran(coming), Ran(new)) /\ Sorted(coming)
    BY <1>7 DEF AllBefore, Way, Coming, Order
  <2> QED
    BY <1>1, <1>3, <2>1, <2>2, SortedJoined
<1>10. /\ Logged' = Logged /\ Playing' = Playing /\ Held' = Held /\ InHand' = InHand
       /\ Queued' = Queued /\ Coming' = Coming \union Ran(new)
  <2>1. Ran(coming') = Ran(coming) \union Ran(new)
    BY <1>1, <1>3, RanJoined
  <2> QED
    BY <1>1, <2>1, StationsThen DEF Logged, Playing, Held, InHand, Queued, Coming
<1>11. InLine(Logged', Playing', Held', InHand', Queued', Coming')
  <2>1. InLine(Logged, Playing, Held, InHand, Queued, Coming)
    BY DEF Order
  <2>2. AllBefore(Logged \union Playing \union Held \union InHand \union Queued \union Coming,
                  Ran(new))
    BY <1>7 DEF Way, AllBefore
  <2>3. InLine(Logged, Playing, Held, InHand, Queued, Coming \union Ran(new))
    BY <2>1, <2>2, LineJoined
  <2> QED
    BY <1>10, <2>3
<1>12. ASSUME NEW c \in Way' PROVE Tells(c)'
  <2>1. c \in Way \/ c \in Ran(new)
    BY <1>10, StationsThen DEF Way
  <2>2. CASE c \in Way
    <3>1. Tells(c)
      BY <2>2 DEF Order
    <3>2. c.utt \in DOMAIN origin' /\ origin'[c.utt] = origin[c.utt]
      BY <3>1, <1>5 DEF Tells, u
    <3> QED
      BY <3>1, <3>2 DEF Tells
  <2>3. CASE c \in Ran(new)
    <3>1. PICK k \in DOMAIN new : c = new[k]
      BY <2>3 DEF Ran
    <3>2. c \in Chunks /\ c.part # 0
      BY <1>3, <1>4, <3>1
    <3>3. c.utt \in DOMAIN origin' /\ c.seq = origin'[c.utt]
      BY <1>4, <1>5, <3>1 DEF u
    <3> QED
      BY <3>2, <3>3 DEF Tells
  <2> QED
    BY <2>1, <2>2, <2>3
<1>13. /\ Rising(log') /\ Sorted(queue') /\ PlayerSorted(player')
       /\ \A k \in DOMAIN log' : log'[k].utt \in DOMAIN origin'
  <2>1. \A k \in DOMAIN log : log[k].utt \in DOMAIN origin'
    BY <1>5 DEF Order, u
  <2> QED
    BY <1>1, <2>1 DEF Order
<1> QED
  BY <1>9, <1>11, <1>12, <1>13, OrderThen

LEMMA MainOrder ==
  ASSUME TypeInv, Order, Cancel \/ MainStops
  PROVE  Order'
<1>0. /\ UNCHANGED << origin, log, coming >>
      /\ queue \in Seq(Chunks)
      /\ Sorted(queue) /\ Sorted(coming) /\ PlayerSorted(player)
  BY DEF TypeInv, TypeOK, Order, Cancel, MainStops, StopsPlayer, StopsWorker, ReplacesWorker
<1>1. PlayerSorted(<< >>) /\ Sorted(<< >>) /\ PlayedBy(<< >>) = {} /\ Ran(<< >>) = {}
  BY DEF PlayerSorted, Sorted, PlayedBy, Ran
<1>2. Coming' = Coming
  BY <1>0, StationsThen DEF Coming
<1>n. CASE Cancel
  <2>1. UNCHANGED << queue, apc, chunk, pending, player >>
    BY <1>n DEF Cancel, workerVars
  <2>2. Playing' = Playing /\ Held' = Held /\ InHand' = InHand /\ Queued' = Queued
    BY <2>1, StationsThen DEF Playing, Held, InHand, Queued
  <2> QED
    BY <1>0, <1>2, <2>1, <2>2, LeavingOrder
<1>p. CASE StopsPlayer
  <2>1. UNCHANGED << queue, apc, chunk, pending >> /\ player' = << >>
    BY <1>p DEF StopsPlayer, workerVars
  <2>2. Playing' = {} /\ Held' = Held /\ InHand' = InHand /\ Queued' = Queued
    BY <1>1, <2>1, StationsThen DEF Held, InHand, Queued
  <2> QED
    BY <1>0, <1>1, <1>2, <2>1, <2>2, LeavingOrder
<1>w. CASE StopsWorker
  <2>1. UNCHANGED << apc, chunk, pending, player >> /\ queue' = Append(queue, Marker)
    BY <1>w DEF StopsWorker
  <2>2. Sorted(queue') /\ Ran(queue') = Ran(queue) \union {Marker}
    BY <1>0, <2>1, NoChunkType, SortedMore, RanMore DEF Marker
  <2>3. Playing' = Playing /\ Held' = Held /\ InHand' = InHand /\ Queued' = Queued
    BY <2>1, <2>2, StationsThen DEF Playing, Held, InHand, Queued
  <2> QED
    BY <1>0, <1>2, <2>1, <2>2, <2>3, LeavingOrder
<1>r. CASE ReplacesWorker
  <2>1. player' = << >> /\ queue' = << >> /\ pending' = << >> /\ apc' = "get"
    BY <1>r DEF ReplacesWorker, NewQueue
  <2>2. Playing' = {} /\ Held' = {} /\ InHand' = {} /\ Queued' = {}
    BY <1>1, <2>1, StationsThen
  <2> QED
    BY <1>0, <1>1, <1>2, <2>1, <2>2, LeavingOrder
<1> QED
  BY <1>n, <1>p, <1>w, <1>r DEF MainStops

LEMMA TakesOrder ==
  ASSUME TypeInv, Order, WorkerTakes
  PROVE  Order'
<1> DEFINE h == Head(queue)
<1>1. /\ queue \in Seq(Chunks) /\ queue # << >> /\ queue' = Tail(queue) /\ apc = "get"
      /\ UNCHANGED << origin, coming, player, log >>
  BY DEF TypeInv, TypeOK, WorkerTakes, mainVars
<1>2. Ran(queue) = {h} \union Ran(Tail(queue)) /\ h \in Chunks
  BY <1>1, RanLess, OneLess
<1>3. Sorted(queue') /\ (h # Marker => AllBefore({h}, Ran(Tail(queue)) \ {Marker}))
  <2>1. Sorted(queue)
    BY DEF Order
  <2> QED
    BY <1>1, <2>1, SortedLess
<1>4. Sorted(coming') /\ PlayerSorted(player')
  BY <1>1 DEF Order
<1>5. InHand = {} /\ Playing' = Playing /\ Coming' = Coming /\ Logged' = Logged
  BY <1>1, StationsThen DEF InHand, Playing, Coming, Logged
<1>m. CASE h = Marker
  <2>1. apc' = "exited" /\ pending' = pending
    BY <1>m DEF WorkerTakes
  <2>2. Held' = Held /\ InHand' = {} /\ Queued' \subseteq Queued
    BY <1>1, <1>2, <2>1, StationsThen DEF Held, Queued
  <2> QED
    BY <1>1, <1>3, <1>4, <1>5, <2>2, LeavingOrder
<1>c. CASE h # Marker
  <2>1. apc' = "check" /\ chunk' = h /\ pending' \in {<< >>, pending}
    BY <1>c DEF WorkerTakes
  <2> HIDE DEF h
  <2>2. Held' \subseteq Held
    BY <2>1, RanNone, StationsThen DEF Held
  <2>3. InHand' = {h} /\ Queued = {h} \union Queued' /\ Queued' = Ran(Tail(queue)) \ {Marker}
    BY <1>1, <1>2, <1>c, <2>1, StationsThen DEF Queued
  <2>4. InLine(Logged', Playing', Held', InHand', Queued', Coming')
    <3>1. InLine(Logged, Playing, Held, {}, {h} \union Queued', Coming)
      BY <1>5, <2>3 DEF Order
    <3>2. InLine(Logged, Playing, Held', {}, {h} \union Queued', Coming)
      BY <2>2, <3>1, LineShrinks
    <3>3. AllBefore({h}, Queued')
      BY <1>3, <1>c, <2>3
    <3>4. InLine(Logged, Playing, Held', {h}, Queued', Coming)
      BY <3>2, <3>3, LineTakes
    <3> QED
      BY <1>5, <2>3, <3>4
  <2>5. Way' \subseteq Way
    BY <1>5, <2>2, <2>3, StationsThen DEF Way
  <2>6. \A c \in Way' : Tells(c)'
    BY <1>1, <2>5, TellsKept
  <2>7. Rising(log') /\ \A k \in DOMAIN log' : log'[k].utt \in DOMAIN origin'
    BY <1>1 DEF Order
  <2> QED
    BY <1>3, <1>4, <2>4, <2>6, <2>7, OrderThen
<1> QED
  BY <1>m, <1>c

LEMMA ChecksOrder ==
  ASSUME TypeInv, Order, WorkerChecks
  PROVE  Order'
<1>1. /\ apc = "check" /\ chunk \in Chunks
      /\ UNCHANGED << origin, coming, queue, chunk, player, log >>
  BY DEF TypeInv, TypeOK, WorkerChecks, mainVars
<1>2. Sorted(queue') /\ Sorted(coming') /\ PlayerSorted(player')
  BY <1>1 DEF Order
<1>3. /\ InHand = {chunk} /\ Playing' = Playing /\ Coming' = Coming /\ Logged' = Logged
      /\ Queued' = Queued
  BY <1>1, StationsThen DEF InHand, Playing, Coming, Logged, Queued
<1>4. InHand' \subseteq InHand
  BY <1>1, <1>3, StationsThen
<1>h. CASE ~Stale(chunk) /\ pending = << >> /\ chunk.kind = "audio"
  <2>1. apc' = "get" /\ pending' = << chunk >>
    BY <1>h DEF WorkerChecks, AfterCheck
  <2>2. Held = {} /\ Held' = {chunk} /\ InHand' = {}
    BY <1>h, <1>1, <2>1, RanNone, RanOne, StationsThen DEF Held
  <2>3. InLine(Logged', Playing', Held', InHand', Queued', Coming')
    <3>1. InLine(Logged, Playing, {}, {chunk}, Queued, Coming)
      BY <1>3, <2>2 DEF Order
    <3> QED
      BY <1>3, <2>2, <3>1, LineHolds
  <2>4. Way' \subseteq Way
    BY <1>3, <2>2, StationsThen DEF Way
  <2>5. \A c \in Way' : Tells(c)'
    BY <1>1, <2>4, TellsKept
  <2>6. Rising(log') /\ \A k \in DOMAIN log' : log'[k].utt \in DOMAIN origin'
    BY <1>1 DEF Order
  <2> QED
    BY <1>2, <2>3, <2>5, <2>6, OrderThen
<1>k. CASE ~(~Stale(chunk) /\ pending = << >> /\ chunk.kind = "audio")
  <2>1. pending' = pending
    BY <1>k DEF WorkerChecks
  <2>2. Held' = Held
    BY <2>1, StationsThen DEF Held
  <2> QED
    BY <1>1, <1>2, <1>3, <1>4, <2>2, LeavingOrder
<1> QED
  BY <1>h, <1>k

\* The buffer the worker feeds: the chunk it held back and what rides on it.
LEMMA FedBuffer ==
  ASSUME TypeInv, Order, apc = "feed"
  PROVE  /\ Held = {pending[1]} /\ InHand = {chunk} /\ pending[1] \in Chunks
         /\ [chunk |-> pending[1], onDone |-> OnDone] \in Buffers
         /\ Played([chunk |-> pending[1], onDone |-> OnDone])
              = Held \union (IF chunk.kind = "index" THEN InHand ELSE {})
         /\ PlayerSorted(Append(player, [chunk |-> pending[1], onDone |-> OnDone]))
<1>1. pending \in Seq(Chunks) /\ Len(pending) <= 1 /\ pending # << >> /\ chunk \in Chunks
  BY DEF TypeInv, TypeOK, Phases
<1>2. DOMAIN pending = {1} /\ pending[1] \in Chunks
  <2>1. pending[1] \in Chunks /\ Len(pending) \in Nat \ {0} /\ DOMAIN pending = 1 .. Len(pending)
    BY <1>1, OneLess
  <2>2. Len(pending) = 1
    BY <1>1, <2>1
  <2> QED
    BY <2>1, <2>2
<1>3. Held = {pending[1]}
  BY <1>2 DEF Held, Ran
<1>4. InHand = {chunk}
  BY DEF InHand
<1>5. OnDone \in Seq(Chunks) /\ Len(OnDone) <= 1
  BY <1>1, AtMostOne DEF OnDone
<1>6. Ran(OnDone) = IF chunk.kind = "index" THEN {chunk} ELSE {}
  BY <1>1, RanNone, RanOne DEF OnDone
<1> DEFINE e == [chunk |-> pending[1], onDone |-> OnDone]
<1>7. e \in Buffers
  BY <1>2, <1>5 DEF Buffers
<1>8. Played(e) = {pending[1]} \union Ran(OnDone) /\ e.chunk = pending[1] /\ e.onDone = OnDone
  BY DEF Played
<1> HIDE DEF e
<1>9. AllBefore({e.chunk}, Ran(e.onDone))
  <2>1. AllBefore(Held, InHand)
    BY DEF Order, InLine, AllBefore
  <2> QED
    BY <1>3, <1>4, <1>6, <1>8, <2>1 DEF AllBefore
<1>10. AllBefore(PlayedBy(player), Played(e))
  <2>1. AllBefore(Playing, Held \union InHand)
    BY DEF Order, InLine, AllBefore
  <2> QED
    BY <1>3, <1>4, <1>6, <1>8, <2>1 DEF AllBefore, Playing
<1>11. player \in Seq(Buffers) /\ PlayerSorted(player)
  BY DEF TypeInv, TypeOK, Order
<1>12. PlayerSorted(Append(player, e))
  BY <1>5, <1>7, <1>8, <1>9, <1>10, <1>11, PlayerSortedMore
<1> QED
  BY <1>2, <1>3, <1>4, <1>6, <1>7, <1>8, <1>12 DEF e

LEMMA FeedsOrder ==
  ASSUME TypeInv, Order, WorkerFeeds
  PROVE  Order'
<1>1. /\ apc = "feed" /\ chunk \in Chunks /\ player \in Seq(Buffers)
      /\ UNCHANGED << origin, coming, queue, chunk, log >>
      /\ pending' = (IF chunk.kind = "audio" THEN << chunk >> ELSE << >>)
      /\ apc' = (IF chunk.kind = "done" THEN "report" ELSE "get")
  BY DEF TypeInv, TypeOK, WorkerFeeds, mainVars
<1> DEFINE e == [chunk |-> pending[1], onDone |-> OnDone]
<1>2. /\ InHand = {chunk} /\ e \in Buffers /\ PlayerSorted(Append(player, e))
      /\ Played(e) = Held \union (IF chunk.kind = "index" THEN InHand ELSE {})
  BY <1>1, FedBuffer
<1>3. player' = player \/ player' = Append(player, e)
  BY DEF WorkerFeeds
<1> HIDE DEF e
<1>4. Sorted(queue') /\ Sorted(coming') /\ PlayerSorted(player')
  BY <1>1, <1>2, <1>3 DEF Order
<1>5. Coming' = Coming /\ Logged' = Logged /\ Queued' = Queued
  BY <1>1, StationsThen DEF Coming, Logged, Queued
<1>6. /\ Held' = (IF chunk.kind = "audio" THEN {chunk} ELSE {})
      /\ InHand' = (IF chunk.kind = "done" THEN {chunk} ELSE {})
  BY <1>1, RanNone, RanOne, StationsThen
<1>7. \/ Playing' = Playing
      \/ Playing' = Playing \union Held \union (IF chunk.kind = "index" THEN {chunk} ELSE {})
  <2>1. Playing' = PlayedBy(player')
    BY StationsThen
  <2>2. PlayedBy(Append(player, e)) = PlayedBy(player) \union Played(e)
    BY <1>1, <1>2, PlayedByMore
  <2> QED
    BY <1>2, <1>3, <2>1, <2>2 DEF Playing
<1>8. InLine(Logged, Playing \union Held, {}, {chunk}, Queued, Coming)
  BY <1>2, LineFeeds DEF Order
<1>9. InLine(Logged', Playing', Held', InHand', Queued', Coming')
  <2>a. CASE chunk.kind = "audio"
    <3>1. Held' = {chunk} /\ InHand' = {} /\ Playing' \subseteq Playing \union Held
      BY <1>6, <1>7, <2>a
    <3>2. InLine(Logged, Playing \union Held, {chunk}, {}, Queued, Coming)
      BY <1>8, LineHolds
    <3> QED
      BY <1>5, <3>1, <3>2, LineShrinks
  <2>i. CASE chunk.kind = "index"
    <3>1. Held' = {} /\ InHand' = {} /\ Playing' \subseteq (Playing \union Held) \union {chunk}
      BY <1>6, <1>7, <2>i
    <3>2. InLine(Logged, Playing \union Held, {chunk}, {}, Queued, Coming)
      BY <1>8, LineHolds
    <3>3. InLine(Logged, (Playing \union Held) \union {chunk}, {}, {}, Queued, Coming)
      BY <3>2, LineFeeds
    <3> QED
      BY <1>5, <3>1, <3>3, LineShrinks
  <2>d. CASE chunk.kind = "done"
    <3>1. Held' = {} /\ InHand' = {chunk} /\ Playing' \subseteq Playing \union Held
      BY <1>6, <1>7, <2>d
    <3> QED
      BY <1>5, <1>8, <3>1, LineShrinks
  <2> QED
    BY <1>1, <2>a, <2>i, <2>d, ChunkFields DEF Parts
<1>10. Way' \subseteq Way
  BY <1>2, <1>5, <1>6, <1>7, StationsThen DEF Way
<1>11. \A c \in Way' : Tells(c)'
  BY <1>1, <1>10, TellsKept
<1>12. Rising(log') /\ \A k \in DOMAIN log' : log'[k].utt \in DOMAIN origin'
  BY <1>1 DEF Order
<1> QED
  BY <1>4, <1>9, <1>11, <1>12, OrderThen

\* What is logged next follows everything logged before.
LEMMA LogMore ==
  ASSUME NEW l \in Seq(Entries), NEW e \in Entries, NEW c, Rising(l),
         AllBefore(Ran(l), {c}), e.utt = c.utt, e.part = c.part
  PROVE  /\ Append(l, e) \in Seq(Entries) /\ Rising(Append(l, e))
         /\ Ran(Append(l, e)) = Ran(l) \union {e}
<1>1. AllBefore(Ran(l), {e})
  BY DEF AllBefore, Before
<1> QED
  BY <1>1, OneMore, RanMore, RisingMore

LEMMA EntryOf ==
  ASSUME NEW c \in Chunks
  PROVE  /\ Entry(c) \in Entries /\ Entry(c).utt = c.utt /\ Entry(c).part = c.part
         /\ Entry(c).late <=> c.seq < silenced
BY EntryType DEF Entry

\* The utterances of the log are those the log's range tells.
LEMMA LogTells ==
  ASSUME NEW D
  PROVE  (\A k \in DOMAIN log' : log'[k].utt \in D) <=> (\A x \in Logged' : x.utt \in D)
BY StationsThen DEF Ran

LEMMA NotifiesOrder ==
  ASSUME TypeInv, Order, WorkerNotifies
  PROVE  Order'
<1>1. /\ apc = "notify" /\ apc' = "get" /\ chunk \in Chunks /\ log \in Seq(Entries)
      /\ player = << >> /\ pending = << >>
      /\ UNCHANGED << origin, coming, queue, chunk, pending, player >>
  BY DEF TypeInv, TypeOK, Phases, WorkerNotifies, mainVars, Entries
<1>2. Sorted(queue') /\ Sorted(coming') /\ PlayerSorted(player')
  BY <1>1 DEF Order
<1>3. /\ InHand = {chunk} /\ InHand' = {} /\ Playing' = Playing /\ Coming' = Coming
      /\ Held' = Held /\ Queued' = Queued
  BY <1>1, StationsThen DEF InHand, Playing, Coming, Held, Queued
<1>s. CASE stopping
  <2>1. log' = log
    BY <1>s DEF WorkerNotifies
  <2> QED
    BY <1>1, <1>2, <1>3, <2>1, LeavingOrder
<1>n. CASE ~stopping
  <2>1. log' = Append(log, Entry(chunk))
    BY <1>n DEF WorkerNotifies
  <2>2. /\ Entry(chunk) \in Entries /\ Entry(chunk).utt = chunk.utt
        /\ Entry(chunk).part = chunk.part
    BY <1>1, EntryOf
  <2>3. Playing = {} /\ Held = {}
    <3>1. DOMAIN << >> = {}
      OBVIOUS
    <3> QED
      BY <1>1, <3>1, RanNone DEF Playing, PlayedBy, Held
  <2>4. AllBefore(Logged, {chunk}) /\ Rising(log)
    BY <1>3 DEF Order, InLine, AllBefore
  <2>5. Rising(log') /\ Logged' = Logged \union {Entry(chunk)}
    BY <1>1, <2>1, <2>2, <2>4, LogMore, StationsThen DEF Logged
  <2>6. InLine(Logged', Playing', Held', InHand', Queued', Coming')
    <3>1. InLine(Logged, {}, {}, {chunk}, Queued, Coming)
      BY <1>3, <2>3 DEF Order
    <3>2. InLine(Logged, {}, {chunk}, {}, Queued, Coming)
      BY <3>1, LineHolds
    <3>3. InLine(Logged, {chunk}, {}, {}, Queued, Coming)
      <4>1. {} \union {chunk} = {chunk}
        OBVIOUS
      <4>2. InLine(Logged, {} \union {chunk}, {}, {}, Queued, Coming)
        BY <3>2, LineFeeds
      <4> QED
        BY <4>1, <4>2
    <3>4. {chunk} \union {} = {chunk} /\ AllBefore({chunk}, {})
      BY DEF AllBefore
    <3>5. InLine(Logged, {chunk} \union {}, {}, {}, Queued, Coming)
      BY <3>3, <3>4
    <3>6. InLine(Logged \union {Entry(chunk)}, {}, {}, {}, Queued, Coming)
      BY <2>2, <3>4, <3>5, LineLogs
    <3> QED
      BY <1>3, <2>3, <2>5, <3>6
  <2>7. Way' \subseteq Way /\ chunk \in Way
    BY <1>3, StationsThen DEF Way
  <2>8. \A c \in Way' : Tells(c)'
    BY <1>1, <2>7, TellsKept
  <2>9. \A k \in DOMAIN log' : log'[k].utt \in DOMAIN origin'
    <3>1. chunk.utt \in DOMAIN origin /\ \A x \in Logged : x.utt \in DOMAIN origin
      BY <2>7 DEF Order, Tells, Logged, Ran
    <3> QED
      BY <1>1, <2>2, <2>5, <3>1, LogTells
  <2> QED
    BY <1>2, <2>5, <2>6, <2>8, <2>9, OrderThen
<1> QED
  BY <1>s, <1>n

\* What a buffer that has played out adds to the log: its chunk, then its callback.
LEMMA PlayedLog ==
  ASSUME TypeInv, Order, PlayerFinishes
  PROVE  LET b == Head(player)
         IN  /\ b \in Buffers /\ b.chunk \in Chunks
             /\ \/ /\ b.onDone = << >> /\ Ran(b.onDone) = {}
                   /\ log' = Append(log, Entry(b.chunk))
                \/ /\ b.onDone[1] \in Chunks /\ Ran(b.onDone) = {b.onDone[1]}
                   /\ log' = Append(Append(log, Entry(b.chunk)), Entry(b.onDone[1]))
<1> DEFINE b == Head(player)
           s == b.onDone
           t == [k \in DOMAIN s |-> Entry(s[k])]
           e == Entry(b.chunk)
<1>1. /\ player \in Seq(Buffers) /\ player # << >> /\ PlayerSorted(player)
      /\ log \in Seq(Entries)
  BY DEF TypeInv, TypeOK, Order, PlayerFinishes, Entries
<1>2. b \in Buffers /\ Len(s) <= 1
  BY <1>1, OneLess, PlayerSortedLess
<1>3. b.chunk \in Chunks /\ s \in Seq(Chunks) /\ e \in Entries
  BY <1>2, EntryType DEF Buffers
<1>4. log' = log \o << e >> \o t
  BY DEF PlayerFinishes
<1>5. \A k \in DOMAIN s : t[k] = Entry(s[k])
  OBVIOUS
<1>6. t \in Seq(Entries) /\ Len(t) = Len(s) /\ DOMAIN t = DOMAIN s
  BY <1>2, PlayedType
<1>7. log \o << e >> = Append(log, e) /\ Append(log, e) \in Seq(Entries)
  BY <1>1, <1>3, JoinedOne, OneMore
<1> HIDE DEF b, t, e
<1> DEFINE l == Append(log, e)
<1>8. log' = l \o t /\ l \in Seq(Entries)
  BY <1>4, <1>7
<1> HIDE DEF l
<1>n. CASE s = << >>
  <2>1. Len(t) = 0
    BY <1>6, <1>n
  <2>2. t = << >>
    BY <1>6, <2>1
  <2>3. l \o << >> = l
    BY <1>3, <1>8, JoinedOne
  <2>4. log' = l
    BY <1>8, <2>2, <2>3
  <2> QED
    BY <1>2, <1>3, <1>n, <2>4, RanNone DEF l, b, e
<1>o. CASE s # << >>
  <2>1. 1 \in DOMAIN s /\ s[1] \in Chunks /\ s = << s[1] >>
    BY <1>2, <1>3, <1>o, AtMostOneOnly
  <2>2. Ran(s) = {s[1]}
    BY <2>1, RanOne
  <2>3. Entry(s[1]) \in Entries /\ t[1] = Entry(s[1])
    BY <1>5, <2>1, EntryType
  <2>4. t = << t[1] >>
    <3>1. Len(t) <= 1 /\ 1 \in DOMAIN t
      BY <1>2, <1>6, <2>1
    <3>2. t # << >>
      BY <3>1
    <3> QED
      BY <1>6, <3>1, <3>2, AtMostOneOnly
  <2>5. l \o << t[1] >> = Append(l, t[1])
    BY <1>8, <2>3, JoinedOne
  <2>6. log' = Append(l, Entry(s[1]))
    BY <1>8, <2>3, <2>4, <2>5
  <2> QED
    BY <1>2, <1>3, <2>1, <2>2, <2>6 DEF l, b, e
<1> QED
  BY <1>n, <1>o

LEMMA FinishesOrder ==
  ASSUME TypeInv, Order, PlayerFinishes
  PROVE  Order'
<1> DEFINE b == Head(player)
           c == b.chunk
           d == b.onDone[1]
           rest == PlayedBy(Tail(player))
           l == Append(log, Entry(c))
<1>1. /\ player \in Seq(Buffers) /\ player # << >> /\ player' = Tail(player)
      /\ log \in Seq(Entries)
      /\ UNCHANGED << origin, coming, queue, apc, chunk, pending >>
  BY DEF TypeInv, TypeOK, PlayerFinishes, mainVars, workerVars, Entries
<1>2. /\ b \in Buffers /\ c \in Chunks
      /\ \/ Ran(b.onDone) = {} /\ log' = l
         \/ d \in Chunks /\ Ran(b.onDone) = {d} /\ log' = Append(l, Entry(d))
  BY PlayedLog
<1>3. /\ PlayerSorted(player') /\ AllBefore(Played(b), rest) /\ AllBefore({c}, Ran(b.onDone))
      /\ Playing = Played(b) \union rest /\ Playing' = rest
  BY <1>1, PlayerSortedLess, PlayedByLess, StationsThen DEF Order, Playing
<1>4. Played(b) = {c} \union Ran(b.onDone)
  BY DEF Played
<1>5. Coming' = Coming /\ Held' = Held /\ InHand' = InHand /\ Queued' = Queued
  BY <1>1, StationsThen DEF InHand, Coming, Held, Queued
<1> HIDE DEF b, c, d, rest
<1>6. /\ Entry(c) \in Entries /\ Entry(c).utt = c.utt /\ Entry(c).part = c.part
  BY <1>2, EntryOf
<1>7. Rising(log) /\ AllBefore(Ran(log), {c}) /\ AllBefore(Ran(log), Ran(b.onDone))
  BY <1>3, <1>4 DEF Order, InLine, AllBefore, Logged
<1>8. l \in Seq(Entries) /\ Rising(l) /\ Ran(l) = Logged \union {Entry(c)}
  BY <1>1, <1>6, <1>7, LogMore DEF Logged
<1>9. InLine(Logged \union {Entry(c)}, Ran(b.onDone) \union rest, Held, InHand, Queued, Coming)
  <2>1. InLine(Logged, {c} \union (Ran(b.onDone) \union rest), Held, InHand, Queued, Coming)
    <3>1. Playing = {c} \union (Ran(b.onDone) \union rest)
      BY <1>3, <1>4
    <3> QED
      BY <3>1 DEF Order
  <2>2. AllBefore({c}, Ran(b.onDone) \union rest)
    BY <1>3, <1>4 DEF AllBefore
  <2> QED
    BY <1>6, <2>1, <2>2, LineLogs
<1> HIDE DEF l
<1>10. /\ Rising(log') /\ InLine(Logged', rest, Held, InHand, Queued, Coming)
       /\ \A x \in Logged' : x \in Logged \/ \E y \in Played(b) : x.utt = y.utt
  <2>1. CASE Ran(b.onDone) = {} /\ log' = l
    <3>1. Logged' = Logged \union {Entry(c)}
      BY <1>8, <2>1, StationsThen
    <3>2. Ran(b.onDone) \union rest = rest
      BY <2>1
    <3> QED
      BY <1>4, <1>6, <1>8, <1>9, <2>1, <3>1, <3>2
  <2>2. CASE d \in Chunks /\ Ran(b.onDone) = {d} /\ log' = Append(l, Entry(d))
    <3>1. Entry(d) \in Entries /\ Entry(d).utt = d.utt /\ Entry(d).part = d.part
      BY <2>2, EntryOf
    <3>2. AllBefore(Ran(l), {d})
      BY <1>8, <1>9, <2>2 DEF InLine, AllBefore
    <3>3. Rising(log') /\ Ran(log') = Ran(l) \union {Entry(d)}
      BY <1>8, <2>2, <3>1, <3>2, LogMore
    <3>4. Logged' = (Logged \union {Entry(c)}) \union {Entry(d)}
      BY <1>8, <3>3, StationsThen
    <3>5. AllBefore({d}, rest)
      BY <1>3, <1>4, <2>2 DEF AllBefore
    <3>6. InLine(Logged', rest, Held, InHand, Queued, Coming)
      BY <1>9, <2>2, <3>1, <3>4, <3>5, LineLogs
    <3> QED
      BY <1>4, <1>6, <2>2, <3>1, <3>3, <3>4, <3>6
  <2> QED
    BY <1>2, <2>1, <2>2
<1>11. Way' \subseteq Way /\ Played(b) \subseteq Way
  BY <1>3, <1>5, StationsThen DEF Way
<1>12. \A x \in Way' : Tells(x)'
  BY <1>1, <1>11, TellsKept
<1>13. \A k \in DOMAIN log' : log'[k].utt \in DOMAIN origin'
  <2>1. \A y \in Played(b) : y.utt \in DOMAIN origin
    BY <1>11 DEF Order, Tells
  <2>2. \A x \in Logged : x.utt \in DOMAIN origin
    BY DEF Order, Logged, Ran
  <2> QED
    BY <1>1, <1>10, <2>1, <2>2, LogTells
<1>14. Sorted(queue') /\ Sorted(coming')
  BY <1>1 DEF Order
<1> QED
  BY <1>3, <1>5, <1>10, <1>12, <1>13, <1>14, OrderThen

LEMMA OtherStepsOrder ==
  ASSUME TypeInv, Order, WorkerLeaves \/ WorkerReports \/ WorkerDrains \/ UNCHANGED vars
  PROVE  Order'
<1>1. UNCHANGED << origin, log, coming, queue, player, pending, chunk >>
  BY DEF WorkerLeaves, WorkerReports, WorkerDrains, vars, mainVars, workerVars
<1>2. \/ apc' = apc
      \/ apc = "get" /\ apc' = "exited"
      \/ apc = "report" /\ apc' \in {"get", "drain"}
      \/ apc = "drain" /\ apc' = "notify"
  BY DEF WorkerLeaves, WorkerReports, WorkerDrains, vars, workerVars
<1>3. InHand' \subseteq InHand
  BY <1>1, <1>2, StationsThen DEF InHand
<1>4. Playing' = Playing /\ Coming' = Coming /\ Held' = Held /\ Queued' = Queued
  BY <1>1, StationsThen DEF Playing, Coming, Held, Queued
<1>5. Sorted(queue') /\ Sorted(coming') /\ PlayerSorted(player')
  BY <1>1 DEF Order
<1> QED
  BY <1>1, <1>3, <1>4, <1>5, LeavingOrder

LEMMA OrderKept == TypeInv /\ Order /\ [Next]_vars => Order'
<1> SUFFICES ASSUME TypeInv, Order, [Next]_vars PROVE Order'
  OBVIOUS
<1>1. AtRest => UNCHANGED vars
  BY DEF AtRest
<1> QED
  BY <1>1, ReceiverOrder, ForgetsOrder, SpeakOrder, MainOrder, TakesOrder, ChecksOrder,
     FeedsOrder, NotifiesOrder, FinishesOrder, OtherStepsOrder DEF Next, MainThread, AudioWorker

\* Whatever the utterances and the cancellations, and however often the worker is
\* replaced: nothing of an utterance plays or is notified after a later one has begun.
THEOREM UtterancesDoNotOverlap == Spec => []UtterancesInOrder
<1>1. TypeInv /\ Order => UtterancesInOrder
  <2> SUFFICES ASSUME TypeInv, Order, NEW j \in DOMAIN log, NEW k \in DOMAIN log, j < k
               PROVE  log[j].utt <= log[k].utt
    BY DEF UtterancesInOrder
  <2>0. log \in Seq(Entries)
    BY DEF TypeInv, TypeOK, Entries
  <2>1. log[j] \in Entries /\ log[k] \in Entries
    BY <2>0
  <2>2. log[j].utt \in Nat /\ log[k].utt \in Nat
    BY <2>1 DEF Entries
  <2> QED
    BY <2>2 DEF Order, Rising, Before
<1> QED
  BY <1>1, InitTypes, TypesKept, InitOrder, OrderKept, PTL DEF Spec

-----------------------------------------------------------------------------
(* Nothing is skipped.                                                     *)

\* While the main thread is in stop() every utterance is a cancelled one, and from
\* when it has stopped the player on every notification is a late one.
Times ==
  /\ \A u \in DOMAIN origin : origin[u] <= sequence
  /\ mpc # "idle" => \A u \in DOMAIN origin : origin[u] < sequence
  /\ mpc \in {"stopWorker", "join"} => silenced = sequence
  /\ stopping => mpc = "join"
  /\ \A x \in Logged : x.late => origin[x.utt] < silenced

LEMMA InitTimes == Init => Times
<1> SUFFICES ASSUME Init PROVE Times
  OBVIOUS
<1>1. origin = << >> /\ log = << >> /\ mpc = "idle" /\ stopping = FALSE
  BY DEF Init
<1>2. DOMAIN origin = {} /\ Logged = {}
  BY <1>1, RanNone DEF Logged
<1> QED
  BY <1>1, <1>2 DEF Times

LEMMA OriginType ==
  ASSUME TypeInv, NEW u \in DOMAIN origin
  PROVE  origin[u] \in Nat /\ sequence \in Nat /\ silenced \in Nat /\ silenced <= sequence
BY DEF TypeInv, TypeOK

LEMMA MainTimes ==
  ASSUME TypeInv, Order, Times, MainThread
  PROVE  Times'
<1>0. sequence \in Nat /\ silenced \in 0 .. sequence /\ origin \in Seq(Nat)
  BY DEF TypeInv, TypeOK
<1>t. /\ \A u \in DOMAIN origin : origin[u] <= sequence /\ origin[u] \in Nat
      /\ mpc # "idle" => \A u \in DOMAIN origin : origin[u] < sequence
      /\ stopping => mpc = "join"
      /\ \A x \in Logged : x.late => origin[x.utt] < silenced
      /\ \A x \in Logged : x.utt \in DOMAIN origin
  BY OriginType DEF Times, Order, Logged, Ran
<1>s. CASE Speak
  <2>1. /\ origin' = Append(origin, sequence) /\ mpc = "idle"
        /\ UNCHANGED << sequence, silenced, mpc, stopping, log >>
    BY <1>s DEF Speak, workerVars
  <2>2. /\ DOMAIN origin' = 1 .. Len(origin) + 1 /\ origin'[Len(origin) + 1] = sequence
        /\ \A u \in DOMAIN origin : origin'[u] = origin[u]
        /\ DOMAIN origin = 1 .. Len(origin) /\ Len(origin) \in Nat
    BY <1>0, <2>1, OneMore
  <2>3. \A u \in DOMAIN origin' : u \in DOMAIN origin \/ u = Len(origin) + 1
    BY <2>2
  <2>4. \A u \in DOMAIN origin' : origin'[u] <= sequence
    BY <1>0, <1>t, <2>2, <2>3
  <2>5. Logged' = Logged
    BY <2>1 DEF Logged
  <2>6. \A x \in Logged : x.late => origin'[x.utt] < silenced
    BY <1>t, <2>2
  <2> QED
    BY <1>t, <2>1, <2>4, <2>5, <2>6 DEF Times
<1>n. CASE Cancel
  <2>1. /\ mpc = "idle" /\ mpc' = "stopPlayer" /\ sequence' = sequence + 1
        /\ UNCHANGED << origin, silenced, stopping, log >>
    BY <1>n DEF Cancel, workerVars
  <2>2. \A u \in DOMAIN origin : origin[u] < sequence + 1 /\ origin[u] <= sequence + 1
    BY <1>0, <1>t
  <2>3. Logged' = Logged
    BY <2>1 DEF Logged
  <2> QED
    BY <1>t, <2>1, <2>2, <2>3 DEF Times
<1>p. CASE StopsPlayer
  <2>1. /\ mpc = "stopPlayer" /\ mpc' \in {"stopWorker", "idle"} /\ silenced' = sequence
        /\ UNCHANGED << sequence, origin, stopping, log >>
    BY <1>p DEF StopsPlayer, workerVars
  <2>2. Logged' = Logged
    BY <2>1 DEF Logged
  <2>3. \A x \in Logged : origin[x.utt] < sequence
    BY <1>t, <2>1
  <2> QED
    BY <1>t, <2>1, <2>2, <2>3 DEF Times
<1>w. CASE StopsWorker
  <2>1. /\ mpc = "stopWorker" /\ mpc' = "join"
        /\ UNCHANGED << sequence, silenced, origin, log >>
    BY <1>w DEF StopsWorker
  <2>2. Logged' = Logged
    BY <2>1 DEF Logged
  <2> QED
    BY <1>t, <2>1, <2>2 DEF Times
<1>r. CASE ReplacesWorker
  <2>1. /\ mpc = "join" /\ mpc' = "idle" /\ stopping' = FALSE
        /\ UNCHANGED << sequence, silenced, origin, log >>
    BY <1>r DEF ReplacesWorker
  <2>2. Logged' = Logged
    BY <2>1 DEF Logged
  <2> QED
    BY <1>t, <2>1, <2>2 DEF Times
<1> QED
  BY <1>s, <1>n, <1>p, <1>w, <1>r DEF MainThread, MainStops

\* Outside NVDA's main thread time stands still; what is logged comes from the hand
\* of the worker or from the player.
LEMMA OtherTimes ==
  ASSUME TypeInv, Order, Times, UNCHANGED << mainVars, stopping >>,
         \A x \in Logged' : x \in Logged \/ \E c \in Way : x = Entry(c)
  PROVE  Times'
<1>1. UNCHANGED << sequence, origin, mpc, silenced, stopping >>
  BY DEF mainVars
<1>2. ASSUME NEW x \in Logged', x.late PROVE origin[x.utt] < silenced
  <2>1. CASE x \in Logged
    BY <1>2, <2>1 DEF Times
  <2>2. CASE \E c \in Way : x = Entry(c)
    <3>1. PICK c \in Way : x = Entry(c)
      BY <2>2
    <3>2. c \in Chunks /\ c.seq = origin[c.utt]
      BY DEF Order, Tells
    <3>3. x.utt = c.utt /\ (x.late <=> c.seq < silenced)
      BY <3>1, <3>2, EntryOf
    <3> QED
      BY <1>2, <3>2, <3>3
  <2> QED
    BY <2>1, <2>2
<1> QED
  BY <1>1, <1>2 DEF Times

HasPart(A, u, q) == \E x \in A : x.utt = u /\ x.part = q

\* Everything reported of its utterance before chunk d is among A.
WholeIn(d, A) == \A q \in 1 .. d.part - 1 : HasPart(A, d.utt, q)

\* The chunks the audio worker will not drop, unless it is stopped.
Committed == Playing \union Held \union (IF apc = "check" THEN {} ELSE InHand)

\* In a log, what was reported of an utterance before entry k was heard before it.
Complete(l) ==
  \A k \in DOMAIN l : ~l[k].late =>
    \A p \in 1 .. l[k].part - 1 :
      \E j \in 1 .. k - 1 : l[j].utt = l[k].utt /\ l[j].part = p /\ ~l[j].late

\* Of an utterance that is not cancelled nothing is missing, and of one that is,
\* nothing before a chunk that the worker has committed to since the player was
\* stopped: what is dropped is behind it.
Gapless ==
  /\ Complete(log)
  /\ \A d \in Way : d.seq = sequence => WholeIn(d, Logged \union Way)
  /\ ~stopping => \A d \in Committed : d.seq >= silenced => WholeIn(d, Logged \union Way)

LEMMA InitGapless == Init => Gapless
<1> SUFFICES ASSUME Init PROVE Gapless
  OBVIOUS
<1>1. /\ log = << >> /\ queue = << >> /\ coming = << >> /\ player = << >> /\ pending = << >>
      /\ apc = "get" /\ DOMAIN log = {}
  BY DEF Init
<1>2. PlayedBy(<< >>) = {}
  BY DEF PlayedBy
<1>3. Playing = {} /\ Held = {} /\ InHand = {} /\ Queued = {} /\ Coming = {}
  BY <1>1, <1>2, RanNone DEF Playing, Held, InHand, Queued, Coming
<1>4. Way = {} /\ Committed = {}
  BY <1>3 DEF Way, Committed
<1> QED
  BY <1>1, <1>4 DEF Gapless, Complete

\* A chunk keeps what it has before it, when what is lost does not precede it.
LEMMA WholeKept ==
  ASSUME NEW A, NEW B, NEW R, NEW d, WholeIn(d, A), d.part \in Nat,
         \A x \in A : x \in R \/ \E y \in B : y.utt = x.utt /\ y.part = x.part,
         \A x \in R : x.utt = d.utt => ~(x.part < d.part)
  PROVE  WholeIn(d, B)
<1> SUFFICES ASSUME NEW q \in 1 .. d.part - 1 PROVE HasPart(B, d.utt, q)
  BY DEF WholeIn
<1>1. PICK x \in A : x.utt = d.utt /\ x.part = q
  BY DEF WholeIn, HasPart
<1>2. x.part < d.part
  BY <1>1
<1>3. x \notin R
  BY <1>1, <1>2
<1> QED
  BY <1>1, <1>3 DEF HasPart

\* A chunk that is not cancelled.
LEMMA OnWay ==
  ASSUME TypeInv, Order, Times, NEW c \in Way
  PROVE  /\ c \in Chunks /\ c.utt \in Nat /\ c.part \in Nat /\ c.seq \in Nat
         /\ c.utt \in DOMAIN origin /\ c.seq = origin[c.utt] /\ c.seq <= sequence
         /\ Stale(c) <=> c.seq # sequence
         /\ mpc # "idle" => Stale(c)
         /\ sequence \in Nat /\ silenced \in Nat /\ silenced <= sequence
<1>1. c \in Chunks /\ c.utt \in DOMAIN origin /\ c.seq = origin[c.utt]
  BY DEF Order, Tells
<1>2. c.utt \in Nat /\ c.part \in Nat /\ c.seq \in Nat
  BY <1>1, ChunkFields
<1>3. sequence \in Nat /\ silenced \in Nat /\ silenced <= sequence
  BY <1>1, OriginType
<1>4. c.seq <= sequence /\ (mpc # "idle" => c.seq < sequence)
  BY <1>1 DEF Times
<1> QED
  BY <1>1, <1>2, <1>3, <1>4 DEF Stale

LEMMA CommittedOnWay == Committed \subseteq Way
BY DEF Committed, Way

\* A step outside the main thread, at which the chunks of R are dropped.
LEMMA GaplessThen ==
  ASSUME TypeInv, Order, Times, Gapless, UNCHANGED << mainVars, stopping >>,
         Complete(log'), Way' \subseteq Way, Logged \subseteq Logged',
         NEW R,
         stopping \/
           /\ \A x \in Way : x \in R \/ x \in Way' \/ Entry(x) \in Logged'
           /\ R \subseteq Way /\ \A x \in R : Stale(x)
           /\ AllBefore(Committed', R)
           /\ Committed' \subseteq Committed \union {d \in Way : d.seq = sequence}
  PROVE  Gapless'
<1>1. sequence' = sequence /\ silenced' = silenced /\ stopping' = stopping
  BY DEF mainVars
<1>s. CASE stopping
  <2>1. ASSUME NEW d \in Way' PROVE d.seq # sequence
    <3>1. mpc # "idle" /\ d \in Way
      BY <1>s DEF Times
    <3> QED
      BY <3>1, OnWay
  <2> QED
    BY <1>1, <1>s, <2>1 DEF Gapless, Complete
<1>r. CASE ~stopping
  <2> DEFINE A == Logged \union Way
             B == Logged' \union Way'
  <2>1. ASSUME NEW x \in A PROVE x \in R \/ \E y \in B : y.utt = x.utt /\ y.part = x.part
    <3>1. CASE x \in Logged
      BY <3>1
    <3>2. CASE x \in Way
      <4>1. Entry(x).utt = x.utt /\ Entry(x).part = x.part
        BY DEF Entry
      <4>2. x \in R \/ x \in Way' \/ Entry(x) \in Logged'
        BY <1>r, <3>2
      <4> QED
        BY <4>1, <4>2
    <3> QED
      BY <2>1, <3>1, <3>2
  <2>2. \A x \in R : x \in Way /\ Stale(x)
    BY <1>r
  <2>m. \A x \in A : x \in R \/ \E y \in B : y.utt = x.utt /\ y.part = x.part
    BY <2>1
  <2> HIDE DEF A, B
  <2>3. ASSUME NEW d \in Way, d.seq = sequence, WholeIn(d, A) PROVE WholeIn(d, B)
    <3>1. \A x \in R : x.utt # d.utt
      BY <2>2, <2>3, OnWay
    <3>2. d.part \in Nat
      BY OnWay
    <3>3. \A x \in R : x.utt = d.utt => ~(x.part < d.part)
      BY <3>1
    <3> QED
      BY ONLY <2>m, <2>3, <3>2, <3>3, WholeKept
  <2>4. ASSUME NEW d \in Way' , d.seq = sequence PROVE WholeIn(d, B)
    <3>1. d \in Way /\ WholeIn(d, A)
      BY <2>4 DEF Gapless, A
    <3> QED
      BY <2>3, <2>4, <3>1
  <2>5. ASSUME NEW d \in Committed', d.seq >= silenced PROVE WholeIn(d, B)
    <3>1. CASE d \in Committed
      <4>1. d \in Way /\ WholeIn(d, A)
        BY <1>r, <2>5, <3>1, CommittedOnWay DEF Gapless, A
      <4>2. d.utt \in Nat /\ d.part \in Nat
        BY <4>1, OnWay
      <4>3. ASSUME NEW x \in R, x.utt = d.utt PROVE ~(x.part < d.part)
        <5>1. Before(d, x)
          BY <1>r DEF AllBefore
        <5>2. x.utt \in Nat /\ x.part \in Nat
          BY <2>2, OnWay
        <5> QED
          BY <4>2, <4>3, <5>1, <5>2 DEF Before
      <4>4. \A x \in R : x.utt = d.utt => ~(x.part < d.part)
        BY <4>3
      <4>5. WholeIn(d, A) /\ d.part \in Nat
        BY <4>1, <4>2
      <4> QED
        BY ONLY <2>m, <4>4, <4>5, WholeKept
    <3>2. CASE d \in Way /\ d.seq = sequence
      <4>1. WholeIn(d, A)
        BY <3>2 DEF Gapless, A
      <4> QED
        BY <2>3, <3>2, <4>1
    <3> QED
      BY <1>r, <2>5, <3>1, <3>2
  <2> QED
    BY <1>1, <2>4, <2>5 DEF Gapless, Complete, B
<1> QED
  BY <1>s, <1>r

LEMMA MainGapless ==
  ASSUME TypeInv, Order, Times, Gapless, MainThread
  PROVE  Gapless'
<1>0. Complete(log) /\ log' = log
  BY DEF Gapless, MainThread, MainStops, Speak, Cancel, StopsPlayer, StopsWorker, ReplacesWorker
<1>l. Logged' = Logged
  BY <1>0 DEF Logged
<1>c. Complete(log')
  BY <1>0
<1>s. CASE Speak
  <2> DEFINE u == Len(origin) + 1
             new == Tagged(u)
  <2>1. /\ coming' = coming \o new /\ coming \in Seq(Chunks) /\ sequence \in Nat
        /\ UNCHANGED << sequence, silenced, stopping, queue, apc, chunk, pending, player >>
    BY <1>s DEF TypeInv, TypeOK, Speak, workerVars
  <2>2. u \in DOMAIN Streams
    <3>1. /\ Len(origin) \in Nat /\ Len(Streams) \in Nat /\ DOMAIN Streams = 1 .. Len(Streams)
          /\ Len(origin) < Len(Streams)
      BY <1>s, StreamAssumption DEF TypeInv, TypeOK, Speak
    <3> QED
      BY <3>1
  <2>3. /\ new \in Seq(Chunks) /\ DOMAIN new = 1 .. Len(Streams[u]) /\ Len(Streams[u]) \in Nat
        /\ DOMAIN new = DOMAIN Streams[u]
    BY <2>1, <2>2, TaggedType
  <2>4. \A k \in DOMAIN new : new[k].utt = u /\ new[k].part = k
    BY <2>3 DEF Tagged
  <2> HIDE DEF u, new
  <2>5. Ran(coming') = Ran(coming) \union Ran(new)
    BY <2>1, <2>3, RanJoined
  <2>6. /\ Playing' = Playing /\ Held' = Held /\ InHand' = InHand /\ Queued' = Queued
        /\ Coming' = Coming \union Ran(new)
    BY <2>1, <2>5, StationsThen DEF Playing, Held, InHand, Queued, Coming
  <2>7. Way' = Way \union Ran(new)
    BY <2>6, StationsThen DEF Way
  <2>8. Committed' = Committed
    BY <2>1, <2>6 DEF Committed
  <2>9. ASSUME NEW d, WholeIn(d, Logged \union Way) PROVE WholeIn(d, Logged' \union Way')
    BY <1>l, <2>7, <2>9 DEF WholeIn, HasPart
  <2>10. ASSUME NEW d \in Ran(new) PROVE WholeIn(d, Logged' \union Way')
    <3>1. PICK k \in DOMAIN new : d = new[k]
      BY <2>10 DEF Ran
    <3>2. ASSUME NEW q \in 1 .. d.part - 1 PROVE HasPart(Ran(new), d.utt, q)
      <4>1. q \in DOMAIN new
        BY <2>3, <2>4, <3>1
      <4>2. new[q] \in Ran(new) /\ new[q].utt = d.utt /\ new[q].part = q
        BY <2>4, <3>1, <4>1 DEF Ran
      <4> QED
        BY <4>2 DEF HasPart
    <3> QED
      BY <2>7, <3>2 DEF WholeIn, HasPart
  <2>11. \A d \in Way' : d.seq = sequence => WholeIn(d, Logged' \union Way')
    BY <2>7, <2>9, <2>10 DEF Gapless
  <2>12. ~stopping => \A d \in Committed' : d.seq >= silenced => WholeIn(d, Logged' \union Way')
    BY <2>8, <2>9 DEF Gapless
  <2> QED
    BY <1>c, <2>1, <2>11, <2>12 DEF Gapless, Complete
<1>n. CASE Cancel
  <2>1. /\ sequence' = sequence + 1 /\ sequence \in Nat
        /\ UNCHANGED << silenced, stopping, coming, queue, apc, chunk, pending, player >>
    BY <1>n DEF TypeInv, TypeOK, Cancel, workerVars
  <2>2. /\ Playing' = Playing /\ Held' = Held /\ InHand' = InHand /\ Queued' = Queued
        /\ Coming' = Coming
    BY <2>1, StationsThen DEF Playing, Held, InHand, Queued, Coming
  <2>3. Way' = Way
    BY <2>2, StationsThen DEF Way
  <2>4. Committed' = Committed
    BY <2>1, <2>2 DEF Committed
  <2>5. \A d \in Way : d.seq # sequence + 1
    <3> SUFFICES ASSUME NEW d \in Way PROVE d.seq # sequence + 1
      OBVIOUS
    <3>1. d.seq \in Nat /\ d.seq <= sequence
      BY OnWay
    <3> QED
      BY <2>1, <3>1
  <2> QED
    BY <1>c, <1>l, <2>1, <2>3, <2>4, <2>5 DEF Gapless, Complete
<1>m. CASE MainStops
  <2>1. /\ mpc # "idle" /\ UNCHANGED << sequence, coming >>
        /\ \/ silenced' = sequence
           \/ stopping'
           \/ player' = << >> /\ pending' = << >> /\ apc' = "get"
    BY <1>m DEF MainStops, StopsPlayer, StopsWorker, ReplacesWorker
  <2>2. Way' \subseteq Way
    <3>1. Coming' = Coming
      BY <2>1, StationsThen DEF Coming
    <3>2. PlayedBy(<< >>) = {} /\ Ran(<< >>) = {}
      BY DEF PlayedBy, Ran
    <3>p. CASE StopsPlayer
      <4>1. UNCHANGED << queue, apc, chunk, pending >> /\ player' = << >>
        BY <3>p DEF StopsPlayer, workerVars
      <4>2. Playing' = {} /\ Held' = Held /\ InHand' = InHand /\ Queued' = Queued
        BY <3>2, <4>1, StationsThen DEF Held, InHand, Queued
      <4> QED
        BY <3>1, <4>2, StationsThen DEF Way
    <3>w. CASE StopsWorker
      <4>1. UNCHANGED << apc, chunk, pending, player >> /\ queue' = Append(queue, Marker)
        BY <3>w DEF StopsWorker
      <4>2. Ran(queue') = Ran(queue) \union {Marker}
        BY <4>1, NoChunkType, RanMore DEF Marker, TypeInv, TypeOK
      <4>3. Playing' = Playing /\ Held' = Held /\ InHand' = InHand /\ Queued' = Queued
        BY <4>1, <4>2, StationsThen DEF Playing, Held, InHand, Queued
      <4> QED
        BY <3>1, <4>3, StationsThen DEF Way
    <3>r. CASE ReplacesWorker
      <4>1. player' = << >> /\ queue' = << >> /\ pending' = << >> /\ apc' = "get"
        BY <3>r DEF ReplacesWorker, NewQueue
      <4>2. Playing' = {} /\ Held' = {} /\ InHand' = {} /\ Queued' = {}
        BY <3>2, <4>1, StationsThen
      <4> QED
        BY <3>1, <4>2, StationsThen DEF Way
    <3> QED
      BY <1>m, <3>p, <3>w, <3>r DEF MainStops
  <2>3. ASSUME NEW d \in Way' PROVE d.seq < sequence /\ d.seq \in Nat /\ sequence \in Nat
    BY <2>1, <2>2, OnWay DEF Stale
  <2>4. CASE silenced' = sequence
    <3>1. \A d \in Committed' : ~(d.seq >= silenced')
      <4>1. Committed' \subseteq Way'
        BY StationsThen DEF Committed
      <4> QED
        BY <2>3, <2>4, <4>1
    <3> QED
      BY <1>c, <2>1, <2>3, <3>1 DEF Gapless, Complete
  <2>5. CASE stopping'
    BY <1>c, <2>1, <2>3, <2>5 DEF Gapless, Complete
  <2>6. CASE player' = << >> /\ pending' = << >> /\ apc' = "get"
    <3>1. PlayedBy(<< >>) = {} /\ Ran(<< >>) = {}
      BY DEF PlayedBy, Ran
    <3>2. Playing' = {} /\ Held' = {} /\ InHand' = {}
      BY <2>6, <3>1, StationsThen
    <3>3. Committed' = {}
      BY <3>2 DEF Committed
    <3> QED
      BY <1>c, <2>1, <2>3, <3>3 DEF Gapless, Complete
  <2> QED
    BY <2>1, <2>4, <2>5, <2>6
<1> QED
  BY <1>s, <1>n, <1>m DEF MainThread

LEMMA QueueGapless ==
  ASSUME TypeInv, Order, Times, Gapless, ReceiverPuts \/ HostForgets
  PROVE  Gapless'
<1> DEFINE h == Head(coming)
<1>1. /\ coming \in Seq(Chunks) /\ coming # << >> /\ queue \in Seq(Chunks)
      /\ coming' = Tail(coming) /\ UNCHANGED << mainVars, stopping, apc, chunk, pending, player, log >>
  BY DEF TypeInv, TypeOK, ReceiverPuts, HostForgets, workerVars
<1>2. h \in Chunks /\ Coming = {h} \union Coming'
  BY <1>1, OneLess, RanLess, StationsThen DEF Coming
<1>3. h # Marker /\ h \in Way
  BY <1>2, NoMarker DEF Way
<1>4. \/ queue' = Append(queue, h)
      \/ queue' = queue /\ Stale(h)
  BY DEF ReceiverPuts, HostForgets
<1> HIDE DEF h
<1>5. Playing' = Playing /\ Held' = Held /\ InHand' = InHand /\ Logged' = Logged
  BY <1>1, StationsThen DEF Playing, Held, InHand, Logged
<1>6. Committed' = Committed
  BY <1>1, <1>5 DEF Committed
<1>7. Complete(log')
  BY <1>1 DEF Gapless
<1>8. \/ Queued' = Queued \union {h}
      \/ Queued' = Queued /\ Stale(h)
  <2>1. Ran(Append(queue, h)) = Ran(queue) \union {h}
    BY <1>1, <1>2, RanMore
  <2> QED
    BY <1>3, <1>4, <2>1, StationsThen DEF Queued
<1> DEFINE R == IF Stale(h) THEN {h} ELSE {}
<1>9. Way' \subseteq Way /\ \A x \in Way : x \in R \/ x \in Way'
  BY <1>2, <1>5, <1>8, StationsThen DEF Way
<1>10. R \subseteq Way /\ \A x \in R : Stale(x)
  BY <1>3
<1>11. AllBefore(Committed', R)
  <2>1. AllBefore(Committed, Coming)
    BY DEF Order, InLine, AllBefore, Committed
  <2> QED
    BY <1>2, <1>6, <2>1 DEF AllBefore
<1>12. UNCHANGED << mainVars, stopping >>
  BY <1>1
<1> HIDE DEF R
<1> QED
  BY <1>5, <1>6, <1>7, <1>9, <1>10, <1>11, <1>12, GaplessThen

LEMMA TakesGapless ==
  ASSUME TypeInv, Order, Times, Gapless, WorkerTakes
  PROVE  Gapless'
<1> DEFINE h == Head(queue)
<1>1. /\ queue \in Seq(Chunks) /\ queue # << >> /\ queue' = Tail(queue) /\ apc = "get"
      /\ UNCHANGED << mainVars, stopping, coming, player, log >>
  BY DEF TypeInv, TypeOK, WorkerTakes
<1>2. Ran(queue) = {h} \union Ran(Tail(queue))
  BY <1>1, RanLess
<1>3. InHand = {} /\ Playing' = Playing /\ Coming' = Coming /\ Logged' = Logged
  BY <1>1, StationsThen DEF InHand, Playing, Coming, Logged
<1>4. Complete(log') /\ UNCHANGED << mainVars, stopping >>
  BY <1>1 DEF Gapless
<1>m. CASE h = Marker
  <2>1. apc' = "exited" /\ pending' = pending
    BY <1>m DEF WorkerTakes
  <2>2. Held' = Held /\ InHand' = {} /\ Queued' = Queued
    <3>1. Held' = Held /\ InHand' = {}
      BY <2>1, StationsThen DEF Held
    <3>2. Queued' = Ran(Tail(queue)) \ {Marker}
      BY <1>1, StationsThen
    <3> QED
      BY <1>2, <1>m, <3>1, <3>2 DEF Queued
  <2>3. Way' = Way
    BY <1>3, <2>2, StationsThen DEF Way
  <2>4. Committed' = Committed
    BY <1>1, <1>3, <2>1, <2>2 DEF Committed
  <2>5. AllBefore(Committed', {})
    BY DEF AllBefore
  <2> QED
    BY <1>3, <1>4, <2>3, <2>4, <2>5, GaplessThen
<1>c. CASE h # Marker
  <2>1. /\ apc' = "check" /\ chunk' = h
        /\ pending' = IF pending # << >> /\ Stale(pending[1]) THEN << >> ELSE pending
    BY <1>c DEF WorkerTakes
  <2> HIDE DEF h
  <2> DEFINE R == IF pending # << >> /\ Stale(pending[1]) THEN Held ELSE {}
  <2>2. pending # << >> => Held = {pending[1]}
    <3>1. pending \in Seq(Chunks) /\ Len(pending) <= 1
      BY DEF TypeInv, TypeOK
    <3>2. pending # << >> => DOMAIN pending = {1}
      BY <3>1, AtMostOneOnly
    <3> QED
      BY <3>2 DEF Held, Ran
  <2>3. Held' = Held \ R /\ R \subseteq Held
    BY <2>1, RanNone, StationsThen DEF Held
  <2>4. \A x \in R : Stale(x)
    BY <2>2
  <2> HIDE DEF R
  <2>5. InHand' = {h} /\ Queued = {h} \union Queued'
    BY <1>1, <1>2, <1>c, <2>1, StationsThen DEF Queued
  <2>6. Way' \subseteq Way /\ (\A x \in Way : x \in R \/ x \in Way') /\ R \subseteq Way
    BY <1>3, <2>3, <2>5, StationsThen DEF Way
  <2>7. Committed' = Playing \union (Held \ R) /\ Committed' \subseteq Committed
    BY <1>3, <2>1, <2>3 DEF Committed
  <2>8. AllBefore(Committed', R)
    <3>1. AllBefore(Playing, Held)
      BY DEF Order, InLine, AllBefore
    <3>2. Held = R \/ R = {}
      BY <2>3 DEF R
    <3> QED
      BY <2>3, <2>7, <3>1, <3>2 DEF AllBefore
  <2> QED
    BY <1>3, <1>4, <2>4, <2>6, <2>7, <2>8, GaplessThen
<1> QED
  BY <1>m, <1>c

LEMMA ChecksGapless ==
  ASSUME TypeInv, Order, Times, Gapless, WorkerChecks
  PROVE  Gapless'
<1>1. /\ apc = "check" /\ chunk \in Chunks
      /\ UNCHANGED << mainVars, stopping, coming, queue, chunk, player, log >>
  BY DEF TypeInv, TypeOK, WorkerChecks
<1>2. /\ InHand = {chunk} /\ Playing' = Playing /\ Coming' = Coming /\ Logged' = Logged
      /\ Queued' = Queued
  BY <1>1, StationsThen DEF InHand, Playing, Coming, Logged, Queued
<1>3. Complete(log') /\ UNCHANGED << mainVars, stopping >>
  BY <1>1 DEF Gapless
<1>4. chunk \in Way
  BY <1>2 DEF Way
<1>s. CASE Stale(chunk)
  <2>1. apc' = "get" /\ pending' = pending
    BY <1>s DEF WorkerChecks, AfterCheck
  <2>2. Held' = Held /\ InHand' = {}
    BY <2>1, StationsThen DEF Held
  <2>3. Way' \subseteq Way /\ (\A x \in Way : x \in {chunk} \/ x \in Way') /\ {chunk} \subseteq Way
    BY <1>2, <1>4, <2>2, StationsThen DEF Way
  <2>4. Committed' = Playing \union Held /\ Committed' \subseteq Committed
    BY <1>2, <2>1, <2>2 DEF Committed
  <2>5. AllBefore(Committed', {chunk})
    BY <1>2, <2>4 DEF Order, InLine, AllBefore
  <2> QED
    BY <1>2, <1>3, <1>s, <2>3, <2>4, <2>5, GaplessThen
<1>k. CASE ~Stale(chunk)
  <2>1. chunk.seq = sequence
    BY <1>4, <1>k, OnWay
  <2>2. /\ apc' # "check"
        /\ \/ apc' = "get" /\ pending = << >> /\ pending' = << chunk >>
           \/ apc' \in {"feed", "report"} /\ pending' = pending
    <3>1. CASE pending # << >>
      BY <1>k, <3>1 DEF WorkerChecks, AfterCheck
    <3>2. CASE pending = << >> /\ chunk.kind = "audio"
      BY <1>k, <3>2 DEF WorkerChecks, AfterCheck
    <3>3. CASE pending = << >> /\ chunk.kind # "audio"
      BY <1>k, <3>3 DEF WorkerChecks, AfterCheck
    <3> QED
      BY <3>1, <3>2, <3>3
  <2>3. Held' \union InHand' = Held \union {chunk}
    <3>1. CASE apc' = "get" /\ pending = << >> /\ pending' = << chunk >>
      BY <1>1, <3>1, RanNone, RanOne, StationsThen DEF Held
    <3>2. CASE apc' \in {"feed", "report"} /\ pending' = pending
      BY <1>1, <3>2, StationsThen DEF Held
    <3> QED
      BY <2>2, <3>1, <3>2
  <2>4. Way' = Way
    BY <1>2, <2>3, StationsThen DEF Way
  <2>5. Committed' \subseteq Committed \union {d \in Way : d.seq = sequence}
    <3>1. Committed' = Playing \union Held \union {chunk}
      BY <1>2, <2>2, <2>3 DEF Committed
    <3> QED
      BY <1>4, <2>1, <3>1 DEF Committed
  <2>6. AllBefore(Committed', {})
    BY DEF AllBefore
  <2> QED
    BY <1>2, <1>3, <2>4, <2>5, <2>6, GaplessThen
<1> QED
  BY <1>s, <1>k

LEMMA FeedsGapless ==
  ASSUME TypeInv, Order, Times, Gapless, WorkerFeeds
  PROVE  Gapless'
<1>1. /\ apc = "feed" /\ chunk \in Chunks /\ player \in Seq(Buffers)
      /\ UNCHANGED << mainVars, stopping, coming, queue, chunk, log >>
      /\ pending' = (IF chunk.kind = "audio" THEN << chunk >> ELSE << >>)
      /\ apc' = (IF chunk.kind = "done" THEN "report" ELSE "get")
  BY DEF TypeInv, TypeOK, WorkerFeeds
<1> DEFINE e == [chunk |-> pending[1], onDone |-> OnDone]
<1>2. /\ InHand = {chunk} /\ e \in Buffers
      /\ Played(e) = Held \union (IF chunk.kind = "index" THEN InHand ELSE {})
  BY <1>1, FedBuffer
<1>3. Coming' = Coming /\ Logged' = Logged /\ Queued' = Queued
  BY <1>1, StationsThen DEF Coming, Logged, Queued
<1>4. Complete(log') /\ UNCHANGED << mainVars, stopping >>
  BY <1>1 DEF Gapless
<1>5. /\ Held' = (IF chunk.kind = "audio" THEN {chunk} ELSE {})
      /\ InHand' = (IF chunk.kind = "done" THEN {chunk} ELSE {})
  BY <1>1, RanNone, RanOne, StationsThen
<1>s. CASE stopping
  <2>1. Playing' = Playing
    BY <1>s, StationsThen DEF WorkerFeeds, Playing
  <2>2. Way' \subseteq Way
    BY <1>2, <1>3, <1>5, <2>1, StationsThen DEF Way
  <2> QED
    BY <1>3, <1>4, <1>s, <2>2, GaplessThen
<1>f. CASE ~stopping
  <2>1. player' = Append(player, e)
    BY <1>f DEF WorkerFeeds
  <2> HIDE DEF e
  <2>2. Playing' = Playing \union Held \union (IF chunk.kind = "index" THEN {chunk} ELSE {})
    <3>1. PlayedBy(Append(player, e)) = PlayedBy(player) \union Played(e)
      BY <1>1, <1>2, PlayedByMore
    <3> QED
      BY <1>2, <2>1, <3>1, StationsThen DEF Playing
  <2>3. chunk.kind \in {"audio", "index", "done"}
    BY <1>1, ChunkFields DEF Parts
  <2>4. Playing' \union Held' \union InHand' = Playing \union Held \union InHand
    BY <1>2, <1>5, <2>2, <2>3
  <2>5. Way' = Way
    BY <1>3, <2>4, StationsThen DEF Way
  <2>6. Committed' \subseteq Committed
    BY <1>1, <2>4 DEF Committed
  <2>7. AllBefore(Committed', {})
    BY DEF AllBefore
  <2> QED
    BY <1>3, <1>4, <2>5, <2>6, <2>7, GaplessThen
<1> QED
  BY <1>s, <1>f

LEMMA OtherStepsGapless ==
  ASSUME TypeInv, Order, Times, Gapless,
         WorkerLeaves \/ WorkerReports \/ WorkerDrains \/ UNCHANGED vars
  PROVE  Gapless'
<1>1. UNCHANGED << mainVars, stopping, log, coming, queue, player, pending, chunk >>
  BY DEF WorkerLeaves, WorkerReports, WorkerDrains, vars, workerVars
<1>2. \/ apc' = apc
      \/ apc = "get" /\ apc' = "exited"
      \/ apc = "report" /\ (IF stopping THEN apc' = "get" ELSE apc' = "drain")
      \/ apc = "drain" /\ apc' = "notify"
  BY DEF WorkerLeaves, WorkerReports, WorkerDrains, vars, workerVars
<1>3. /\ Playing' = Playing /\ Coming' = Coming /\ Held' = Held /\ Queued' = Queued
      /\ Logged' = Logged
  BY <1>1, StationsThen DEF Playing, Coming, Held, Queued, Logged
<1>4. Complete(log') /\ UNCHANGED << mainVars, stopping >>
  BY <1>1 DEF Gapless
<1>s. CASE stopping
  <2>1. InHand' \subseteq InHand
    BY <1>1, <1>2, StationsThen DEF InHand
  <2>2. Way' \subseteq Way
    BY <1>3, <2>1, StationsThen DEF Way
  <2> QED
    BY <1>3, <1>4, <1>s, <2>2, GaplessThen
<1>k. CASE ~stopping
  <2>1. InHand' = InHand /\ (apc = "check" <=> apc' = "check")
    BY <1>1, <1>2, <1>k, StationsThen DEF InHand
  <2>2. Way' = Way /\ Committed' = Committed
    BY <1>3, <2>1, StationsThen DEF Way, Committed
  <2>3. AllBefore(Committed', {})
    BY DEF AllBefore
  <2> QED
    BY <1>3, <1>4, <2>2, <2>3, GaplessThen
<1> QED
  BY <1>s, <1>k

LEMMA CompleteMore ==
  ASSUME NEW l \in Seq(Entries), NEW e \in Entries, Complete(l),
         ~e.late => \A q \in 1 .. e.part - 1 :
                      \E x \in Ran(l) : x.utt = e.utt /\ x.part = q /\ ~x.late
  PROVE  Complete(Append(l, e))
<1> DEFINE t == Append(l, e)
<1>1. /\ \A k \in DOMAIN l : t[k] = l[k]
      /\ t[Len(l) + 1] = e /\ DOMAIN l = 1 .. Len(l) /\ DOMAIN t = 1 .. Len(l) + 1
      /\ Len(l) \in Nat
  BY OneMore
<1> HIDE DEF t
<1>2. ASSUME NEW k \in DOMAIN t, ~t[k].late, NEW q \in 1 .. t[k].part - 1
      PROVE  \E j \in 1 .. k - 1 : t[j].utt = t[k].utt /\ t[j].part = q /\ ~t[j].late
  <2>1. CASE k \in DOMAIN l
    <3>1. t[k] = l[k]
      BY <1>1, <2>1
    <3>2. PICK j \in 1 .. k - 1 : l[j].utt = l[k].utt /\ l[j].part = q /\ ~l[j].late
      BY <1>2, <2>1, <3>1 DEF Complete
    <3>3. j \in DOMAIN l
      BY <1>1, <2>1
    <3>4. t[j] = l[j]
      BY <1>1, <3>3
    <3> QED
      BY <3>1, <3>2, <3>4
  <2>2. CASE k \notin DOMAIN l
    <3>1. k = Len(l) + 1
      BY <1>1, <2>2
    <3>2. t[k] = e
      BY <1>1, <3>1
    <3>3. PICK x \in Ran(l) : x.utt = e.utt /\ x.part = q /\ ~x.late
      BY <1>2, <3>2
    <3>4. PICK j \in DOMAIN l : x = l[j]
      BY DEF Ran
    <3>5. j \in 1 .. k - 1 /\ t[j] = x
      BY <1>1, <3>1, <3>4
    <3> QED
      BY <3>2, <3>3, <3>5
  <2> QED
    BY <2>1, <2>2
<1>3. Complete(t)
  BY <1>2 DEF Complete
<1> QED
  BY <1>3 DEF t

\* The chunk that is logged next: what has been logged before it, those of the
\* same step in X, is all that precedes it.
LEMMA NextLogged ==
  ASSUME TypeInv, Order, Times, Gapless, NEW c \in Committed,
         NEW X, \A x \in Way : x \in X \/ x = c \/ Before(c, x),
         NEW l \in Seq(Entries), Complete(l), Logged \subseteq Ran(l),
         \A x \in X : Entry(x) \in Ran(l)
  PROVE  Complete(Append(l, Entry(c)))
<1>1. c \in Way
  BY CommittedOnWay
<1>2. /\ c \in Chunks /\ c.utt \in Nat /\ c.part \in Nat /\ c.seq \in Nat /\ silenced \in Nat
      /\ c.utt \in DOMAIN origin /\ c.seq = origin[c.utt] /\ c.seq <= sequence
  BY <1>1, OnWay
<1>3. /\ Entry(c) \in Entries /\ Entry(c).utt = c.utt /\ Entry(c).part = c.part
      /\ Entry(c).late <=> c.seq < silenced
  BY <1>2, EntryOf
<1>4. ASSUME ~Entry(c).late, NEW q \in 1 .. c.part - 1
      PROVE  \E x \in Ran(l) : x.utt = c.utt /\ x.part = q /\ ~x.late
  <2>1. c.seq >= silenced
    BY <1>2, <1>3, <1>4
  <2>2. ~stopping
    <3>1. SUFFICES ASSUME stopping PROVE FALSE
      OBVIOUS
    <3>2. mpc # "idle" /\ silenced = sequence
      BY <3>1 DEF Times
    <3>3. Stale(c)
      BY <1>1, <3>2, OnWay
    <3> QED
      BY <1>2, <2>1, <3>2, <3>3 DEF Stale
  <2>3. WholeIn(c, Logged \union Way)
    BY <2>1, <2>2 DEF Gapless
  <2>4. PICK x \in Logged \union Way : x.utt = c.utt /\ x.part = q
    BY <1>4, <2>3 DEF WholeIn, HasPart
  <2>5. CASE x \in Logged
    <3>1. x.late => origin[x.utt] < silenced
      BY <2>5 DEF Times
    <3>2. ~x.late
      BY <1>2, <2>1, <2>4, <3>1
    <3> QED
      BY <2>4, <2>5, <3>2
  <2>6. CASE x \in Way
    <3>1. x.part < c.part
      BY <1>2, <2>4
    <3>2. x \in X
      BY <1>2, <2>4, <2>6, <3>1 DEF Before
    <3>3. /\ x \in Chunks /\ x.seq = origin[x.utt]
      BY <2>6, OnWay
    <3>4. /\ Entry(x).utt = x.utt /\ Entry(x).part = x.part
          /\ Entry(x).late <=> x.seq < silenced
      BY <3>3, EntryOf
    <3>5. ~Entry(x).late
      BY <1>2, <2>1, <2>4, <3>3, <3>4
    <3> QED
      BY <2>4, <3>2, <3>4, <3>5
  <2> QED
    BY <2>4, <2>5, <2>6
<1>5. ~Entry(c).late => \A q \in 1 .. Entry(c).part - 1 :
                          \E x \in Ran(l) : x.utt = Entry(c).utt /\ x.part = q /\ ~x.late
  BY <1>3, <1>4
<1> HIDE DEF Entry
<1> QED
  BY <1>3, <1>5, CompleteMore

LEMMA NotifiesGapless ==
  ASSUME TypeInv, Order, Times, Gapless, WorkerNotifies
  PROVE  Gapless' /\ \A x \in Logged' : x \in Logged \/ \E c \in Way : x = Entry(c)
<1>1. /\ apc = "notify" /\ apc' = "get" /\ chunk \in Chunks /\ log \in Seq(Entries)
      /\ player = << >> /\ pending = << >>
      /\ UNCHANGED << mainVars, stopping, coming, queue, chunk, pending, player >>
  BY DEF TypeInv, TypeOK, Phases, WorkerNotifies, Entries
<1>2. /\ InHand = {chunk} /\ InHand' = {} /\ Playing' = Playing /\ Coming' = Coming
      /\ Held' = Held /\ Queued' = Queued
  BY <1>1, StationsThen DEF InHand, Playing, Coming, Held, Queued
<1>3. chunk \in Committed /\ chunk \in Way
  BY <1>1, <1>2 DEF Committed, Way
<1>4. Way' \subseteq Way /\ \A x \in Way : x = chunk \/ x \in Way'
  BY <1>2, StationsThen DEF Way
<1>5. Committed' \subseteq Committed
  BY <1>2 DEF Committed
<1>6. UNCHANGED << mainVars, stopping >>
  BY <1>1
<1>s. CASE stopping
  <2>1. log' = log
    BY <1>s DEF WorkerNotifies
  <2>2. Complete(log') /\ Logged' = Logged
    BY <2>1, StationsThen DEF Gapless, Logged
  <2>3. Gapless'
    BY <1>4, <1>6, <1>s, <2>2, GaplessThen
  <2> QED
    BY <2>2, <2>3
<1>n. CASE ~stopping
  <2>1. log' = Append(log, Entry(chunk))
    BY <1>n DEF WorkerNotifies
  <2>2. Entry(chunk) \in Entries
    BY <1>1, EntryOf
  <2>3. Logged' = Logged \union {Entry(chunk)}
    BY <1>1, <2>1, <2>2, RanMore, StationsThen DEF Logged
  <2>4. \A x \in Way : x \in {} \/ x = chunk \/ Before(chunk, x)
    <3>1. Playing = {} /\ Held = {}
      BY <1>1, RanNone DEF Playing, PlayedBy, Held
    <3>2. AllBefore({chunk}, Queued \union Coming)
      BY <1>2 DEF Order, InLine
    <3> QED
      BY <1>2, <3>1, <3>2 DEF Way, AllBefore
  <2>5. Complete(log')
    <3> DEFINE X == {}
    <3>1. Complete(log) /\ Logged \subseteq Ran(log)
      BY DEF Gapless, Logged
    <3>2. \A x \in X : Entry(x) \in Ran(log)
      OBVIOUS
    <3>3. \A x \in Way : x \in X \/ x = chunk \/ Before(chunk, x)
      BY <2>4
    <3> HIDE DEF X
    <3> QED
      BY <1>1, <1>3, <2>1, <3>1, <3>2, <3>3, NextLogged
  <2>6. \A x \in Way : x \in {} \/ x \in Way' \/ Entry(x) \in Logged'
    BY <1>4, <2>3
  <2>7. AllBefore(Committed', {})
    BY DEF AllBefore
  <2>8. Gapless'
    BY <1>4, <1>5, <1>6, <2>3, <2>5, <2>6, <2>7, GaplessThen
  <2> QED
    BY <1>3, <2>3, <2>8
<1> QED
  BY <1>s, <1>n

LEMMA FinishesGapless ==
  ASSUME TypeInv, Order, Times, Gapless, PlayerFinishes
  PROVE  Gapless' /\ \A x \in Logged' : x \in Logged \/ \E c \in Way : x = Entry(c)
<1> DEFINE b == Head(player)
           c == b.chunk
           d == b.onDone[1]
           rest == PlayedBy(Tail(player))
           l == Append(log, Entry(c))
<1>1. /\ player \in Seq(Buffers) /\ player # << >> /\ player' = Tail(player)
      /\ log \in Seq(Entries)
      /\ UNCHANGED << mainVars, stopping, coming, queue, apc, chunk, pending >>
  BY DEF TypeInv, TypeOK, PlayerFinishes, workerVars, Entries
<1>2. /\ b \in Buffers /\ c \in Chunks
      /\ \/ Ran(b.onDone) = {} /\ log' = l
         \/ d \in Chunks /\ Ran(b.onDone) = {d} /\ log' = Append(l, Entry(d))
  BY PlayedLog
<1>3. /\ AllBefore(Played(b), rest) /\ AllBefore({c}, Ran(b.onDone))
      /\ Playing = Played(b) \union rest /\ Playing' = rest
  BY <1>1, PlayerSortedLess, PlayedByLess, StationsThen DEF Order, Playing
<1>4. Played(b) = {c} \union Ran(b.onDone)
  BY DEF Played
<1>5. Coming' = Coming /\ Held' = Held /\ InHand' = InHand /\ Queued' = Queued
  BY <1>1, StationsThen DEF InHand, Coming, Held, Queued
<1> HIDE DEF b, c, d, rest
<1>6. Played(b) \subseteq Committed /\ Played(b) \subseteq Way
  BY <1>3 DEF Committed, Way
<1>7. Way' \subseteq Way /\ \A x \in Way : x \in Played(b) \/ x \in Way'
  BY <1>3, <1>5, StationsThen DEF Way
<1>8. Committed' \subseteq Committed /\ UNCHANGED << mainVars, stopping >>
  BY <1>1, <1>3, <1>5 DEF Committed
<1>9. AllBefore(Played(b), Held \union InHand \union Queued \union Coming)
  BY <1>3 DEF Order, InLine, AllBefore
<1>10. /\ \A x \in Way : x \in {} \/ x = c \/ Before(c, x)
       /\ \A x \in Way, y \in Ran(b.onDone) :
            Ran(b.onDone) = {y} => x \in {c} \/ x = y \/ Before(y, x)
  BY <1>3, <1>4, <1>9 DEF Way, AllBefore
<1>11. Entry(c) \in Entries /\ c \in Committed
  BY <1>2, <1>4, <1>6, EntryOf
<1>12. l \in Seq(Entries) /\ Ran(l) = Logged \union {Entry(c)}
  BY <1>1, <1>11, OneMore, RanMore DEF Logged
<1>13. Complete(l)
  <2> DEFINE X == {}
  <2>1. Complete(log) /\ Logged \subseteq Ran(log)
    BY DEF Gapless, Logged
  <2>2. \A x \in X : Entry(x) \in Ran(log)
    OBVIOUS
  <2>3. \A x \in Way : x \in X \/ x = c \/ Before(c, x)
    BY <1>10
  <2> HIDE DEF X, l
  <2>4. Complete(Append(log, Entry(c)))
    BY <1>1, <1>11, <2>1, <2>2, <2>3, NextLogged
  <2> QED
    BY <2>4 DEF l
<1> HIDE DEF l
<1>14. Complete(log') /\ Logged' = Logged \union {Entry(y) : y \in Played(b)}
  <2>1. CASE Ran(b.onDone) = {} /\ log' = l
    <3>1. Logged' = Logged \union {Entry(c)} /\ Played(b) = {c}
      BY <1>4, <1>12, <2>1, StationsThen
    <3> QED
      BY <1>13, <2>1, <3>1
  <2>2. CASE d \in Chunks /\ Ran(b.onDone) = {d} /\ log' = Append(l, Entry(d))
    <3>1. Entry(d) \in Entries /\ d \in Committed
      BY <1>4, <1>6, <2>2, EntryOf
    <3>2. \A x \in Way : x \in {c} \/ x = d \/ Before(d, x)
      BY <1>10, <2>2
    <3>3. Logged \subseteq Ran(l) /\ \A x \in {c} : Entry(x) \in Ran(l)
      BY <1>12
    <3>4. Complete(log')
      BY <1>12, <1>13, <2>2, <3>1, <3>2, <3>3, NextLogged
    <3>5. Ran(log') = Ran(l) \union {Entry(d)}
      BY <1>12, <2>2, <3>1, RanMore
    <3>6. Logged' = (Logged \union {Entry(c)}) \union {Entry(d)} /\ Played(b) = {c, d}
      BY <1>4, <1>12, <2>2, <3>5, StationsThen
    <3> QED
      BY <3>4, <3>6
  <2> QED
    BY <1>2, <2>1, <2>2
<1>15. \A x \in Way : x \in {} \/ x \in Way' \/ Entry(x) \in Logged'
  BY <1>7, <1>14
<1>16. AllBefore(Committed', {}) /\ Logged \subseteq Logged'
  BY <1>14 DEF AllBefore
<1>17. Gapless'
  BY <1>7, <1>8, <1>14, <1>15, <1>16, GaplessThen
<1> QED
  BY <1>6, <1>14, <1>17

PlaybackInv == TypeInv /\ Order /\ Times /\ Gapless

LEMMA PlaybackInvInit == Init => PlaybackInv
BY InitTypes, InitOrder, InitTimes, InitGapless DEF PlaybackInv

LEMMA PlaybackInvKept == PlaybackInv /\ [Next]_vars => PlaybackInv'
<1> SUFFICES ASSUME TypeInv, Order, Times, Gapless, [Next]_vars PROVE Times' /\ Gapless'
  BY TypesKept, OrderKept DEF PlaybackInv
<1>m. CASE MainThread
  BY <1>m, MainTimes, MainGapless
<1>q. CASE ReceiverPuts \/ HostForgets \/ WorkerTakes \/ WorkerChecks \/ WorkerFeeds
  <2>1. UNCHANGED << mainVars, stopping, log >>
    BY <1>q DEF ReceiverPuts, HostForgets, WorkerTakes, WorkerChecks, WorkerFeeds, workerVars
  <2>2. Logged' = Logged
    BY <2>1 DEF Logged
  <2>3. Times'
    BY <2>1, <2>2, OtherTimes
  <2> QED
    BY <1>q, <2>3, QueueGapless, TakesGapless, ChecksGapless, FeedsGapless
<1>l. CASE WorkerNotifies \/ PlayerFinishes
  <2>1. UNCHANGED << mainVars, stopping >>
    BY <1>l DEF WorkerNotifies, PlayerFinishes, workerVars
  <2>2. Gapless' /\ \A x \in Logged' : x \in Logged \/ \E c \in Way : x = Entry(c)
    BY <1>l, NotifiesGapless, FinishesGapless
  <2> QED
    BY <2>1, <2>2, OtherTimes
<1>o. CASE WorkerLeaves \/ WorkerReports \/ WorkerDrains \/ UNCHANGED vars
  <2>1. UNCHANGED << mainVars, stopping, log >>
    BY <1>o DEF WorkerLeaves, WorkerReports, WorkerDrains, vars, workerVars
  <2>2. Logged' = Logged
    BY <2>1 DEF Logged
  <2>3. Times'
    BY <2>1, <2>2, OtherTimes
  <2> QED
    BY <1>o, <2>3, OtherStepsGapless
<1> QED
  BY <1>m, <1>q, <1>l, <1>o DEF Next, AudioWorker, AtRest

\* Whatever the utterances and the cancellations, and however often the worker is
\* replaced: until it is cancelled an utterance is heard and notified in the order in
\* which the host reported it, and nothing of it is skipped.
THEOREM PlaybackKeepsOrder == Spec => []PlaybackInOrder
<1>1. PlaybackInv => PlaybackInOrder
  <2> SUFFICES ASSUME PlaybackInv, NEW k \in DOMAIN log, ~log[k].late
               PROVE  /\ \A p \in 1 .. log[k].part - 1 : HeardBefore(k, p)
                      /\ \A j \in 1 .. k - 1 : log[j].utt = log[k].utt => log[j].part < log[k].part
    BY DEF PlaybackInOrder
  <2>1. \A p \in 1 .. log[k].part - 1 : HeardBefore(k, p)
    BY DEF PlaybackInv, Gapless, Complete, HeardBefore
  <2>2. ASSUME NEW j \in 1 .. k - 1, log[j].utt = log[k].utt PROVE log[j].part < log[k].part
    <3>1. log \in Seq(Entries)
      BY DEF PlaybackInv, TypeInv, TypeOK, Entries
    <3>2. j \in DOMAIN log /\ j < k /\ log[j] \in Entries /\ log[k] \in Entries
      BY <3>1
    <3>3. log[j].utt \in Nat /\ log[k].utt \in Nat
      BY <3>2 DEF Entries
    <3>4. Before(log[j], log[k])
      BY <3>2 DEF PlaybackInv, Order, Rising
    <3> QED
      BY <2>2, <3>3, <3>4 DEF Before
  <2> QED
    BY <2>1, <2>2
<1> QED
  BY <1>1, PlaybackInvInit, PlaybackInvKept, PTL DEF Spec
=============================================================================
