-------------------------- MODULE VoiceState_proofs --------------------------
(***************************************************************************)
(* Theorems about VoiceState for any voices, any values of the parameters  *)
(* and any number of requests.                                             *)
(***************************************************************************)
EXTENDS VoiceState, SequenceTheorems, TLAPS

Bases == {Pitch(p) : p \in Pitches}

\* The type invariant, and what keeps it: a thread has never saved a temporary value,
\* and each cancellation was one of NVDA's requests.
VoiceTypeInv ==
  /\ VoiceTypeOK
  /\ saved \in [Threads -> Bases]
  /\ sequence <= operations

-----------------------------------------------------------------------------
(* Commands and programs.                                                  *)

\* Each command has the shape of one.
LEMMA CommandTypes ==
  /\ \A raised \in BOOLEAN : Prosody(raised) \in Commands
  /\ \A v \in Voices : SetVoice(v) \in Commands /\ Notes(v) \in Commands /\ Adopts(v) \in Commands
  /\ \A v \in Voices, raised \in BOOLEAN : Text(v, raised) \in Commands
  /\ \A p \in Pitches : Sets(p) \in Commands
  BY VoiceAssumption
     DEF Prosody, SetVoice, Notes, Adopts, Text, Sets, Command, Commands

\* Sequences of a few items, and one behind the other.
LEMMA ShortPrograms ==
  ASSUME NEW S
  PROVE  /\ << >> \in Seq(S)
         /\ \A a \in S : << a >> \in Seq(S)
         /\ \A a, b \in S : << a, b >> \in Seq(S)
         /\ \A a, b, c \in S : << a, b, c >> \in Seq(S)
  OBVIOUS

LEMMA ConcatType ==
  ASSUME NEW S, NEW s \in Seq(S), NEW t \in Seq(S)
  PROVE  s \o t \in Seq(S)
  OBVIOUS

LEMMA SequencesOfMore ==
  ASSUME NEW S, NEW T, S \subseteq T, NEW s \in Seq(S)
  PROVE  s \in Seq(T)
  OBVIOUS

\* The head of a program is a command, what is left is a program.
LEMMA HeadAndTail ==
  ASSUME NEW S, NEW s \in Seq(S), s # << >>
  PROVE  /\ Head(s) \in S /\ Head(s) = s[1] /\ 1 \in DOMAIN s
         /\ Tail(s) \in Seq(S)
         /\ \A k \in DOMAIN Tail(s) : k + 1 \in DOMAIN s /\ Tail(s)[k] = s[k + 1]
         /\ \A k \in DOMAIN s : k # 1 => k - 1 \in DOMAIN Tail(s) /\ Tail(s)[k - 1] = s[k]
  OBVIOUS

\* The command a thread is at is a command.
LEMMA CurrentCommand ==
  ASSUME VoiceTypeInv, NEW t \in Threads, program[t] # << >>
  PROVE  Head(program[t]) \in Commands /\ Tail(program[t]) \in Seq(Commands)
  <1>1. program[t] \in Seq(Commands)
    BY DEF VoiceTypeInv, VoiceTypeOK
  <1> QED
    BY <1>1, HeadAndTail

\* What NVDA's requests have the two threads do.
LEMMA ProgramTypes ==
  ASSUME VoiceTypeInv
  PROVE  /\ Resets \in Seq(Commands) /\ ToDefault \in Seq(Commands)
         /\ Plain \in Seq(Commands) /\ Capital \in Seq(Commands)
         /\ Restored \in Seq(Commands)
         /\ \A v \in Voices : Foreign(v) \in Seq(Commands)
  <1>1. defaultVoice \in Voices /\ engineVoice \in Voices /\ variant \in Pitches
    BY DEF VoiceTypeInv, VoiceTypeOK
  <1>2. base.value \in Pitches
    BY DEF VoiceTypeInv, VoiceTypeOK, Pitch
  <1>3. Resets \in Seq(Commands)
    BY CommandTypes, ShortPrograms DEF Resets
  <1>4. ToDefault \in Seq(Commands)
    BY <1>1, CommandTypes, ShortPrograms DEF ToDefault
  <1>5. Plain \in Seq(Commands) /\ Capital \in Seq(Commands)
    BY <1>1, CommandTypes, ShortPrograms DEF Plain, Capital
  <1>6. Restored \in Seq(Commands)
    BY <1>1, <1>2, CommandTypes, ShortPrograms DEF Restored
  <1>7. \A v \in Voices : Foreign(v) \in Seq(Commands)
    BY CommandTypes, ShortPrograms DEF Foreign
  <1> QED
    BY <1>3, <1>4, <1>5, <1>6, <1>7

-----------------------------------------------------------------------------
(* The type invariant.                                                     *)

\* Values have the types of their variables.
LEMMA ValueTypes ==
  /\ Bases \subseteq PitchValues
  /\ \A p \in Pitches : Pitch(p) \in Bases
  /\ \A v \in PitchValues, raised \in BOOLEAN : [v EXCEPT !.raised = raised] \in PitchValues
  <1>1. Bases \subseteq PitchValues
    <2>1. \A p \in Pitches : Pitch(p) \in PitchValues
      BY DEF Pitch, PitchValues
    <2> QED
      BY <2>1 DEF Bases
  <1>2. \A p \in Pitches : Pitch(p) \in Bases
    BY DEF Bases
  <1>3. ASSUME NEW v \in PitchValues, NEW raised \in BOOLEAN
        PROVE  [v EXCEPT !.raised = raised] \in PitchValues
    <2>1. PICK p \in Pitches, b \in BOOLEAN : v = [value |-> p, raised |-> b]
      BY DEF PitchValues
    <2>2. [v EXCEPT !.raised = raised] = [value |-> p, raised |-> raised]
      BY <2>1
    <2> QED
      BY <2>2 DEF PitchValues
  <1> QED
    BY <1>1, <1>2, <1>3

\* Moving on to the next step of a command, or to the next command.
LEMMA ThreadMoves ==
  ASSUME VoiceTypeInv, NEW t \in Threads, program[t] # << >>
  PROVE  /\ Finishes(t) => program' \in [Threads -> Seq(Commands)]
                           /\ phase' \in [Threads -> 0 .. 3] /\ saved' = saved
         /\ Continues(t) /\ phase[t] < 3 => program' = program /\ phase' \in [Threads -> 0 .. 3]
  <1>1. phase \in [Threads -> 0 .. 3] /\ program \in [Threads -> Seq(Commands)]
    BY DEF VoiceTypeInv, VoiceTypeOK
  <1>2. ASSUME Finishes(t)
        PROVE  /\ program' \in [Threads -> Seq(Commands)]
               /\ phase' \in [Threads -> 0 .. 3] /\ saved' = saved
    BY <1>1, <1>2, CurrentCommand DEF Finishes
  <1>3. ASSUME Continues(t), phase[t] < 3
        PROVE  program' = program /\ phase' \in [Threads -> 0 .. 3]
    <2>1. phase[t] \in 0 .. 3
      BY <1>1
    <2>2. phase[t] + 1 \in 0 .. 3
      BY <1>3, <2>1
    <2>3. phase' = [phase EXCEPT ![t] = phase[t] + 1]
      BY <1>3 DEF Continues
    <2>4. phase' \in [Threads -> 0 .. 3]
      BY <1>1, <2>2, <2>3, Zenon
    <2> QED
      BY <1>3, <2>4 DEF Continues
  <1> QED
    BY <1>2, <1>3

\* The steps of the commands keep the type.
LEMMA CommandsKeepType ==
  ASSUME VoiceTypeInv, NEW t \in Threads,
         RunsCommand(t) \/ (t = "worker" /\ SendsText) \/ (t = "main" /\ NotesVoice)
  PROVE  VoiceTypeInv'
  <1>1. program[t] # << >> /\ Head(program[t]) \in Commands
    <2>1. program[t] # << >>
      BY DEF RunsCommand, ReadsBase, SendsProsody, SendsVoice, RestoresBase, PushesBase,
             SendsSetting, TakesAnswer, SendsText, NotesVoice, Starts, At
    <2> QED
      BY <2>1, CurrentCommand
  <1>2. saved[t] \in Bases /\ base \in Bases /\ saved[t] \in PitchValues
    BY ValueTypes DEF VoiceTypeInv, VoiceTypeOK, Bases
  <1>3. CASE ReadsBase(t)
    <2>1. Continues(t) /\ phase[t] < 3
      BY <1>3 DEF ReadsBase, Starts, At
    <2>2. saved' \in [Threads -> Bases]
      BY <1>2, <1>3 DEF ReadsBase, VoiceTypeInv
    <2>3. overlapped' \in BOOLEAN
      BY <1>3 DEF ReadsBase
    <2> QED
      BY <1>1, <1>3, <2>1, <2>2, <2>3, ThreadMoves, ValueTypes
         DEF ReadsBase, driverVars, VoiceTypeInv, VoiceTypeOK, Threads
  <1>4. CASE SendsProsody(t)
    <2>1. enginePitch' \in PitchValues
      BY <1>1, <1>2, <1>4, ValueTypes DEF SendsProsody, Commands
    <2> QED
      BY <1>1, <1>4, <2>1, ThreadMoves
         DEF SendsProsody, driverVars, VoiceTypeInv, VoiceTypeOK
  <1>5. CASE SendsVoice(t)
    <2>1. Continues(t) /\ phase[t] < 3
      BY <1>5 DEF SendsVoice, At
    <2>2. engineVoice' \in Voices
      BY <1>1, <1>5 DEF SendsVoice, Commands
    <2> QED
      BY <1>1, <1>5, <2>1, <2>2, ThreadMoves
         DEF SendsVoice, driverVars, VoiceTypeInv, VoiceTypeOK
  <1>6. CASE RestoresBase(t)
    <2>1. Continues(t) /\ phase[t] < 3
      BY <1>6 DEF RestoresBase, At
    <2>2. base' \in Bases
      BY <1>2, <1>6 DEF RestoresBase, SavedParameters
    <2> QED
      BY <1>1, <1>6, <2>1, <2>2, ThreadMoves
         DEF RestoresBase, driverVars, VoiceTypeInv, VoiceTypeOK, Bases
  <1>7. CASE PushesBase(t)
    BY <1>1, <1>2, <1>7, ThreadMoves
       DEF PushesBase, SavedParameters, driverVars, VoiceTypeInv, VoiceTypeOK
  <1>8. CASE SendsSetting(t)
    <2>1. Continues(t) /\ phase[t] < 3
      BY <1>8 DEF SendsSetting, Starts, At
    <2>2. enginePitch' \in Bases
      BY <1>1, <1>8, ValueTypes DEF SendsSetting, Commands
    <2>3. saved' \in [Threads -> Bases]
      BY <1>8, <2>2 DEF SendsSetting, VoiceTypeInv
    <2> QED
      BY <1>1, <1>8, <2>1, <2>2, <2>3, ThreadMoves, ValueTypes
         DEF SendsSetting, driverVars, VoiceTypeInv, VoiceTypeOK, Threads
  <1>9. CASE TakesAnswer(t)
    BY <1>1, <1>2, <1>9, ThreadMoves
       DEF TakesAnswer, driverVars, VoiceTypeInv, VoiceTypeOK, Bases
  <1>10. CASE t = "worker" /\ SendsText
    BY <1>1, <1>10, ThreadMoves
       DEF SendsText, driverVars, VoiceTypeInv, VoiceTypeOK
  <1>11. CASE t = "main" /\ NotesVoice
    <2>1. Finishes(t)
      BY <1>11 DEF NotesVoice
    <2>2. lastVoice' \in Voices /\ defaultVoice' \in Voices
      BY <1>1, <1>11 DEF NotesVoice, Commands, VoiceTypeInv, VoiceTypeOK
    <2> QED
      BY <1>1, <1>11, <2>1, <2>2, ThreadMoves
         DEF NotesVoice, VoiceTypeInv, VoiceTypeOK
  <1> QED
    BY <1>3, <1>4, <1>5, <1>6, <1>7, <1>8, <1>9, <1>10, <1>11 DEF RunsCommand

\* So do the worker's choice of an utterance, and NVDA's requests.
LEMMA UtterancesKeepType ==
  ASSUME VoiceTypeInv, TakesUtterance \/ LeavesUtterance \/ AtRest \/ UNCHANGED voiceVars
  PROVE  VoiceTypeInv'
  <1>1. CASE TakesUtterance
    <2>1. /\ Head(queue) \in [program : Seq(Commands), seq : 0 .. sequence]
          /\ Tail(queue) \in Seq([program : Seq(Commands), seq : 0 .. sequence])
      BY <1>1, HeadAndTail DEF TakesUtterance, VoiceTypeInv, VoiceTypeOK
    <2>2. /\ program' \in [Threads -> Seq(Commands)]
          /\ workerSeq' \in 0 .. sequence
      BY <1>1, <2>1 DEF TakesUtterance, VoiceTypeInv, VoiceTypeOK
    <2> QED
      BY <1>1, <2>1, <2>2 DEF TakesUtterance, VoiceTypeInv, VoiceTypeOK
  <1>2. CASE LeavesUtterance
    <2>1. program' \in [Threads -> Seq(Commands)]
      BY <1>2, ShortPrograms DEF LeavesUtterance, VoiceTypeInv, VoiceTypeOK
    <2> QED
      BY <1>2, <2>1 DEF LeavesUtterance, driverVars, VoiceTypeInv, VoiceTypeOK
  <1>3. CASE AtRest \/ UNCHANGED voiceVars
    BY <1>3 DEF AtRest, voiceVars, VoiceTypeInv, VoiceTypeOK
  <1> QED
    BY <1>1, <1>2, <1>3

\* A request is one more; the cancellation it may be is one, too.
LEMMA AskingCounts ==
  ASSUME VoiceTypeInv, Asks
  PROVE  /\ operations' \in 0 .. MaxOperations /\ sequence <= operations'
         /\ sequence + 1 <= operations' /\ sequence + 1 \in 0 .. MaxOperations
         /\ sequence \in 0 .. sequence + 1 /\ sequence \in 0 .. MaxOperations
         /\ 0 .. sequence \subseteq 0 .. sequence + 1
  BY VoiceAssumption DEF Asks, VoiceTypeInv, VoiceTypeOK

\* The queue's type allows for the sequences that are to come.
LEMMA QueueTypeGrows ==
  ASSUME VoiceTypeInv, sequence' = sequence + 1
  PROVE  queue \in Seq([program : Seq(Commands), seq : 0 .. sequence'])
  <1> DEFINE Now  == [program : Seq(Commands), seq : 0 .. sequence]
             Then == [program : Seq(Commands), seq : 0 .. sequence']
  <1>1. sequence \in Nat /\ 0 .. sequence \subseteq 0 .. sequence'
    BY DEF VoiceTypeInv, VoiceTypeOK
  <1>2. Now \subseteq Then
    BY <1>1
  <1>3. queue \in Seq(Now)
    BY DEF VoiceTypeInv, VoiceTypeOK
  <1> HIDE DEF Now, Then
  <1>4. queue \in Seq(Then)
    BY <1>2, <1>3, SequencesOfMore
  <1> QED
    BY <1>4 DEF Then

\* NVDA's requests.
LEMMA RequestsKeepType ==
  ASSUME VoiceTypeInv,
         \/ Speaks \/ SpeaksNothing \/ Cancels \/ Halts \/ RestartsHost
         \/ \E v \in Voices : ChangesVoice(v)
         \/ \E p \in Pitches : ChangesPitch(p)
  PROVE  VoiceTypeInv'
  <1> DEFINE Speech == [program : Seq(Commands), seq : 0 .. sequence]
  <1>1. ASSUME NEW speech \in Seq(Commands), NEW last \in Voices, Queues(speech, last)
        PROVE  VoiceTypeInv'
    <2>1. Resets \o ToDefault \o speech \in Seq(Commands)
      BY ProgramTypes, ConcatType
    <2>2. [program |-> Resets \o ToDefault \o speech, seq |-> sequence] \in Speech
      BY <2>1, AskingCounts, <1>1 DEF Queues, VoiceTypeInv, VoiceTypeOK
    <2>3. queue' \in Seq(Speech)
      BY <1>1, <2>2 DEF Queues, VoiceTypeInv, VoiceTypeOK
    <2> QED
      BY <1>1, <2>3, AskingCounts DEF Queues, VoiceTypeInv, VoiceTypeOK
  <1>2. CASE Speaks
    <2>1. defaultVoice \in Voices
      BY DEF VoiceTypeInv, VoiceTypeOK
    <2> QED
      BY <1>1, <1>2, <2>1, ProgramTypes DEF Speaks
  <1>3. ASSUME NEW commands \in Seq(Commands), Runs(commands)
        PROVE  program' \in [Threads -> Seq(Commands)]
    BY <1>3 DEF Runs, VoiceTypeInv, VoiceTypeOK
  <1>4. CASE SpeaksNothing
    <2>1. << Notes(defaultVoice) >> \in Seq(Commands)
      BY CommandTypes, ShortPrograms DEF VoiceTypeInv, VoiceTypeOK
    <2>2. Resets \o ToDefault \o << Notes(defaultVoice) >> \in Seq(Commands)
      BY <2>1, ProgramTypes, ConcatType
    <2>3. program' \in [Threads -> Seq(Commands)]
      BY <1>3, <1>4, <2>2 DEF SpeaksNothing
    <2>4. overtaken' \in BOOLEAN
      BY <1>4 DEF SpeaksNothing, Overtakes
    <2> QED
      BY <1>4, <2>3, <2>4, AskingCounts DEF SpeaksNothing, VoiceTypeInv, VoiceTypeOK
  <1>5. CASE Cancels
    BY <1>5, AskingCounts, QueueTypeGrows DEF Cancels, VoiceTypeInv, VoiceTypeOK
  <1>6. CASE Halts
    <2>1. overtaken' \in BOOLEAN
      BY <1>6 DEF Halts, Overtakes
    <2> QED
      BY <1>6, <2>1, AskingCounts, QueueTypeGrows DEF Halts, VoiceTypeInv, VoiceTypeOK
  <1>7. CASE RestartsHost
    <2>1. /\ engineVoice' \in Voices /\ enginePitch' \in PitchValues
          /\ base' \in {Pitch(p) : p \in Pitches}
      BY <1>7, VoiceAssumption, ValueTypes DEF RestartsHost, Bases
    <2>2. PICK commands \in {program["worker"], << >>} :
            /\ program' = [main |-> Restored, worker |-> commands]
            /\ phase' = [phase EXCEPT !["worker"] = IF commands = << >> THEN 0 ELSE @]
      BY <1>7 DEF RestartsHost
    <2>3. commands \in Seq(Commands)
      BY ShortPrograms DEF VoiceTypeInv, VoiceTypeOK, Threads
    <2>4. program' \in [Threads -> Seq(Commands)]
      BY <2>2, <2>3, ProgramTypes DEF Threads
    <2>5. phase' \in [Threads -> 0 .. 3]
      BY <2>2 DEF VoiceTypeInv, VoiceTypeOK, Threads
    <2>6. overtaken' \in BOOLEAN /\ overlapped' \in BOOLEAN
      BY <1>7 DEF RestartsHost, Overtakes
    <2> QED
      BY <1>7, <2>1, <2>4, <2>5, <2>6, AskingCounts, QueueTypeGrows
         DEF RestartsHost, VoiceTypeInv, VoiceTypeOK
  <1>8. ASSUME NEW v \in Voices, ChangesVoice(v)
        PROVE  VoiceTypeInv'
    <2>1. << SetVoice(v), Adopts(v) >> \in Seq(Commands)
      BY CommandTypes, ShortPrograms
    <2>2. program' \in [Threads -> Seq(Commands)]
      BY <1>3, <1>8, <2>1 DEF ChangesVoice
    <2>3. overtaken' \in BOOLEAN
      BY <1>8 DEF ChangesVoice, Overtakes
    <2> QED
      BY <1>8, <2>2, <2>3, AskingCounts DEF ChangesVoice, VoiceTypeInv, VoiceTypeOK
  <1>9. ASSUME NEW p \in Pitches, ChangesPitch(p)
        PROVE  VoiceTypeInv'
    <2>1. << Sets(p) >> \in Seq(Commands)
      BY CommandTypes, ShortPrograms
    <2>2. program' \in [Threads -> Seq(Commands)]
      BY <1>3, <1>9, <2>1 DEF ChangesPitch
    <2>3. /\ chosen' \in Pitches /\ variant' \in Pitches /\ overlapped' \in BOOLEAN
      BY <1>9 DEF ChangesPitch, InSetVoice, VoiceTypeInv, VoiceTypeOK
    <2> QED
      BY <1>9, <2>2, <2>3, AskingCounts DEF ChangesPitch, VoiceTypeInv, VoiceTypeOK
  <1> QED
    BY <1>2, <1>4, <1>5, <1>6, <1>7, <1>8, <1>9

\* The driver starts well typed.
LEMMA VoiceInitTyped ==
  VoiceInit => VoiceTypeInv
  <1> SUFFICES ASSUME VoiceInit PROVE VoiceTypeInv
    OBVIOUS
  <1>1. Pitch(InitialPitch) \in Bases /\ Pitch(InitialPitch) \in PitchValues
    BY VoiceAssumption, ValueTypes
  <1>2. queue \in Seq([program : Seq(Commands), seq : 0 .. sequence])
    BY ShortPrograms DEF VoiceInit
  <1>3. program \in [Threads -> Seq(Commands)] /\ phase \in [Threads -> 0 .. 3]
    BY ShortPrograms DEF VoiceInit
  <1>4. saved \in [Threads -> Bases] /\ saved \in [Threads -> PitchValues]
    BY <1>1 DEF VoiceInit
  <1>5. /\ engineVoice \in Voices /\ enginePitch \in PitchValues /\ base \in Bases
        /\ variant \in Pitches /\ chosen \in Pitches
        /\ defaultVoice \in Voices /\ lastVoice \in Voices \union {NoVoice}
    BY <1>1, VoiceAssumption DEF VoiceInit
  <1>6. /\ sequence \in 0 .. MaxOperations /\ workerSeq \in 0 .. sequence
        /\ operations \in 0 .. MaxOperations /\ sequence <= operations
    BY VoiceAssumption DEF VoiceInit
  <1>7. overtaken \in BOOLEAN /\ overlapped \in BOOLEAN
    BY DEF VoiceInit
  <1> QED
    BY <1>2, <1>3, <1>4, <1>5, <1>6, <1>7, Zenon DEF VoiceTypeInv, VoiceTypeOK, Bases

\* Every variable keeps its type, and voice_params is never the temporary value of a
\* capital letter (set_voice, _eloquence.py:773-776, restores what it has read
\* before; setVParam takes what it has sent).
THEOREM VoiceTypeCorrect == VoiceSpec => []VoiceTypeOK
  <1>1. VoiceTypeInv /\ [VoiceNext]_voiceVars => VoiceTypeInv'
    <2> SUFFICES ASSUME VoiceTypeInv, [VoiceNext]_voiceVars PROVE VoiceTypeInv'
      OBVIOUS
    <2>1. "worker" \in Threads /\ "main" \in Threads
      BY DEF Threads
    <2> QED
      BY <2>1, CommandsKeepType, UtterancesKeepType, RequestsKeepType DEF VoiceNext
  <1>2. VoiceTypeInv => VoiceTypeOK
    BY DEF VoiceTypeInv
  <1> QED
    BY <1>1, <1>2, VoiceInitTyped, PTL DEF VoiceSpec

-----------------------------------------------------------------------------
(* No text is spoken with the raised pitch of another's capital letter.    *)

Raises(c) == c.op = "prosody" /\ c.raised
Lowers(c) == c.op = "prosody" /\ ~c.raised

\* Before the k-th command of s runs, the pitch is not raised if it was not raised in
\* the beginning (raised), or a command before it has lowered it, and none behind that
\* one raises it again.
LoweredAt(s, k, raised) ==
  \E l \in 0 .. k - 1 :
    /\ IF l = 0 THEN ~raised ELSE Lowers(s[l])
    /\ \A m \in (l + 1) .. (k - 1) : ~Raises(s[m])

LowText(c) == c.op = "text" /\ ~c.raised

ProsodySafe(s, raised) == \A k \in DOMAIN s : LowText(s[k]) => LoweredAt(s, k, raised)

\* What is queued starts with a reset; what runs goes on from ECI's present pitch; and
\* the main thread raises no pitch.
ProsodyInv ==
  /\ ProsodySafe(program["worker"], enginePitch.raised)
  /\ \A k \in DOMAIN queue : ProsodySafe(queue[k].program, TRUE)
  /\ \A k \in DOMAIN program["main"] : ~Raises(program["main"][k])

\* A program that is safe with a raised pitch is safe with any.
LEMMA SafeAnyhow ==
  ASSUME NEW s \in Seq(Commands), NEW raised \in BOOLEAN, NEW other \in BOOLEAN,
         ProsodySafe(s, raised), other => raised
  PROVE  ProsodySafe(s, other)
  BY DEF ProsodySafe, LoweredAt

\* What is left of a safe program is safe for the pitch its first command leaves.
LEMMA SafeTail ==
  ASSUME NEW s \in Seq(Commands), s # << >>, NEW raised \in BOOLEAN, NEW other \in BOOLEAN,
         ProsodySafe(s, raised),
         ~Raises(Head(s)) /\ (~raised \/ Lowers(Head(s))) => ~other
  PROVE  ProsodySafe(Tail(s), other)
  <1> SUFFICES ASSUME NEW k \in DOMAIN Tail(s), LowText(Tail(s)[k])
               PROVE  LoweredAt(Tail(s), k, other)
    BY DEF ProsodySafe
  <1>1. /\ k \in Nat /\ k >= 1 /\ k + 1 \in DOMAIN s /\ Tail(s)[k] = s[k + 1]
        /\ Head(s) = s[1] /\ \A m \in 1 .. k : Tail(s)[m] = s[m + 1]
    OBVIOUS
  <1>2. PICK l \in 0 .. k :
          /\ IF l = 0 THEN ~raised ELSE Lowers(s[l])
          /\ \A m \in (l + 1) .. k : ~Raises(s[m])
    BY <1>1 DEF ProsodySafe, LoweredAt
  <1>3. CASE l <= 1
    <2>1. ~Raises(s[1]) /\ (~raised \/ Lowers(s[1]))
      BY <1>1, <1>2, <1>3 DEF Raises, Lowers
    <2>2. ~other
      BY <1>1, <2>1
    <2>3. \A m \in (0 + 1) .. (k - 1) : ~Raises(Tail(s)[m])
      <3> SUFFICES ASSUME NEW m \in (0 + 1) .. (k - 1) PROVE ~Raises(Tail(s)[m])
        OBVIOUS
      <3>1. m \in 1 .. k /\ m + 1 \in (l + 1) .. k /\ m + 1 \in Nat
        BY <1>1, <1>3
      <3> QED
        BY <1>1, <1>2, <3>1
    <2>4. 0 \in 0 .. k - 1
      BY <1>1
    <2> QED
      BY <2>2, <2>3, <2>4 DEF LoweredAt
  <1>4. CASE l > 1
    <2>1. l - 1 \in 0 .. k - 1 /\ l - 1 # 0 /\ Tail(s)[l - 1] = s[l]
      BY <1>1, <1>4
    <2>2. \A m \in ((l - 1) + 1) .. (k - 1) : ~Raises(Tail(s)[m])
      <3> SUFFICES ASSUME NEW m \in ((l - 1) + 1) .. (k - 1) PROVE ~Raises(Tail(s)[m])
        OBVIOUS
      <3>1. m \in 1 .. k /\ m + 1 \in (l + 1) .. k
        BY <1>1, <1>4
      <3> QED
        BY <1>1, <1>2, <3>1
    <2>3. Lowers(Tail(s)[l - 1])
      BY <1>2, <1>4, <2>1
    <2> QED
      BY <2>1, <2>2, <2>3 DEF LoweredAt
  <1> QED
    BY <1>3, <1>4

\* A command in front of a safe program.
LEMMA SafeBehind ==
  ASSUME NEW c \in Commands, NEW s \in Seq(Commands), c.op # "text",
         NEW raised \in BOOLEAN, NEW other \in BOOLEAN, ProsodySafe(s, other),
         ~other => (~raised /\ ~Raises(c)) \/ Lowers(c)
  PROVE  ProsodySafe(<< c >> \o s, raised)
  <1> DEFINE t == << c >> \o s
  <1> SUFFICES ASSUME NEW k \in DOMAIN t, LowText(t[k]) PROVE LoweredAt(t, k, raised)
    BY DEF ProsodySafe
  <1>1. /\ k \in Nat /\ k >= 1 /\ t[1] = c /\ \A m \in DOMAIN s : t[m + 1] = s[m]
        /\ k # 1 => k - 1 \in DOMAIN s
    OBVIOUS
  <1>2. k # 1 /\ LowText(s[k - 1])
    BY <1>1 DEF LowText
  <1>3. PICK l \in 0 .. k - 2 :
          /\ IF l = 0 THEN ~other ELSE Lowers(s[l])
          /\ \A m \in (l + 1) .. (k - 2) : ~Raises(s[m])
    BY <1>1, <1>2 DEF ProsodySafe, LoweredAt
  <1>4. \A m \in (l + 2) .. (k - 1) : ~Raises(t[m])
    <2> SUFFICES ASSUME NEW m \in (l + 2) .. (k - 1) PROVE ~Raises(t[m])
      OBVIOUS
    <2>1. m - 1 \in DOMAIN s /\ t[m] = s[m - 1] /\ m - 1 \in (l + 1) .. (k - 2)
      BY <1>1, <1>2
    <2> QED
      BY <1>3, <2>1
  <1> HIDE DEF t
  <1>5. CASE l # 0 \/ Lowers(c)
    <2>1. l + 1 \in 0 .. k - 1 /\ l + 1 # 0 /\ Lowers(t[l + 1])
      <3>1. CASE l = 0
        BY <1>1, <1>2, <1>3, <1>5, <3>1
      <3>2. CASE l # 0
        <4>1. l \in DOMAIN s
          BY <1>1, <1>2, <3>2
        <4> QED
          BY <1>1, <1>2, <1>3, <3>2, <4>1
      <3> QED
        BY <3>1, <3>2
    <2>2. \A m \in ((l + 1) + 1) .. (k - 1) : ~Raises(t[m])
      BY <1>4
    <2> QED
      BY <2>1, <2>2 DEF LoweredAt
  <1>6. CASE l = 0 /\ ~Lowers(c)
    <2>1. ~raised /\ ~Raises(t[1])
      BY <1>1, <1>3, <1>6
    <2>2. \A m \in (0 + 1) .. (k - 1) : ~Raises(t[m])
      BY <1>1, <1>4, <1>6, <2>1
    <2>3. 0 \in 0 .. k - 1
      BY <1>1
    <2> QED
      BY <2>1, <2>2, <2>3 DEF LoweredAt
  <1> QED
    BY <1>5, <1>6

\* Speech sequences raise the pitch for capital letters only.
LEMMA SafeSpeech ==
  /\ ProsodySafe(Plain, FALSE) /\ ProsodySafe(Capital, FALSE)
  /\ \A v \in Voices : ProsodySafe(Foreign(v), FALSE)
  <1>1. ProsodySafe(Plain, FALSE)
    BY DEF ProsodySafe, LoweredAt, LowText, Plain, Text, Command
  <1>2. ProsodySafe(Capital, FALSE)
    BY DEF ProsodySafe, LowText, Capital, Text, Prosody, Command
  <1>3. ASSUME NEW v \in Voices
        PROVE  ProsodySafe(Foreign(v), FALSE)
    <2> SUFFICES ASSUME NEW k \in DOMAIN Foreign(v), LowText(Foreign(v)[k])
                 PROVE  LoweredAt(Foreign(v), k, FALSE)
      BY DEF ProsodySafe
    <2>1. k \in 1 .. 2 /\ ~Raises(Foreign(v)[1])
      BY DEF Foreign, SetVoice, Text, Command, Raises
    <2> QED
      BY <2>1 DEF LoweredAt
  <1> QED
    BY <1>1, <1>2, <1>3

\* A queued utterance starts with a reset of the parameters.
LEMMA SafeQueued ==
  ASSUME VoiceTypeInv, NEW speech \in Seq(Commands), ProsodySafe(speech, FALSE)
  PROVE  ProsodySafe(Resets \o ToDefault \o speech, TRUE)
  <1>1. defaultVoice \in Voices
    BY DEF VoiceTypeInv, VoiceTypeOK
  <1>2. ProsodySafe(ToDefault \o speech, FALSE)
    <2>1. CASE lastVoice = defaultVoice
      <3>1. ToDefault \o speech = speech
        BY <2>1 DEF ToDefault
      <3> QED
        BY <3>1
    <2>2. CASE lastVoice # defaultVoice
      <3>1. /\ SetVoice(defaultVoice) \in Commands
            /\ SetVoice(defaultVoice).op # "text" /\ ~Raises(SetVoice(defaultVoice))
        BY <1>1, CommandTypes DEF SetVoice, Command, Raises
      <3>2. ToDefault = << SetVoice(defaultVoice) >>
        BY <2>2 DEF ToDefault
      <3> QED
        BY <3>1, <3>2, SafeBehind
    <2> QED
      BY <2>1, <2>2
  <1>3. Prosody(FALSE) \in Commands /\ Prosody(FALSE).op # "text" /\ Lowers(Prosody(FALSE))
    BY CommandTypes DEF Prosody, Command, Lowers
  <1>4. ToDefault \o speech \in Seq(Commands)
    BY ProgramTypes, ConcatType
  <1>5. ProsodySafe(Resets \o (ToDefault \o speech), TRUE)
    BY <1>2, <1>3, <1>4, SafeBehind DEF Resets
  <1>6. Resets \o (ToDefault \o speech) = (Resets \o ToDefault) \o speech
    <2>1. Resets \in Seq(Commands) /\ ToDefault \in Seq(Commands)
      BY ProgramTypes
    <2> QED
      BY <2>1, ConcatAssociative
  <1> QED
    BY <1>5, <1>6

\* What the worker still has to run is safe for what ECI holds: the case of a command.
LEMMA ProsodyRun ==
  ASSUME VoiceTypeInv, ProsodyInv, NEW t \in Threads,
         RunsCommand(t) \/ (t = "worker" /\ SendsText) \/ (t = "main" /\ NotesVoice)
  PROVE  ProsodyInv'
  <1> DEFINE w == program["worker"]
             m == program["main"]
  <1>1. /\ w \in Seq(Commands) /\ m \in Seq(Commands) /\ program \in [Threads -> Seq(Commands)]
        /\ enginePitch.raised \in BOOLEAN
        /\ "worker" \in Threads /\ "main" \in Threads
    BY DEF VoiceTypeInv, VoiceTypeOK, PitchValues, Threads
  <1>2. /\ UNCHANGED queue
        /\ Finishes(t) \/ Continues(t)
        /\ program[t] # << >> /\ Head(program[t]) \in Commands
        /\ saved[t] \in Bases /\ saved[t].raised = FALSE
    <2>1. program[t] # << >>
      BY DEF RunsCommand, ReadsBase, SendsProsody, SendsVoice, RestoresBase, PushesBase,
             SendsSetting, TakesAnswer, SendsText, NotesVoice, Starts, At
    <2>2. UNCHANGED queue /\ (Finishes(t) \/ Continues(t))
      BY DEF RunsCommand, ReadsBase, SendsProsody, SendsVoice, RestoresBase, PushesBase,
             SendsSetting, TakesAnswer, SendsText, NotesVoice, driverVars
    <2>3. saved[t] \in Bases
      BY DEF VoiceTypeInv
    <2>4. saved[t].raised = FALSE
      BY <2>3 DEF Bases, Pitch
    <2> QED
      BY <2>1, <2>2, <2>3, <2>4, CurrentCommand
  <1>3. \A k \in DOMAIN m' : ~Raises(m'[k])
    <2>1. m' = m \/ (m # << >> /\ m' = Tail(m))
      BY <1>1, <1>2 DEF Finishes, Continues, Threads
    <2>2. \A k \in DOMAIN m : ~Raises(m[k])
      BY DEF ProsodyInv
    <2>3. CASE m' = m
      BY <2>2, <2>3
    <2>4. CASE m # << >> /\ m' = Tail(m)
      <3>1. \A k \in DOMAIN Tail(m) : k + 1 \in DOMAIN m /\ Tail(m)[k] = m[k + 1]
        BY <1>1, <2>4, HeadAndTail
      <3> QED
        BY <2>2, <2>4, <3>1
    <2> QED
      BY <2>1, <2>3, <2>4
  <1>4. enginePitch'.raised \in BOOLEAN /\ (enginePitch'.raised => enginePitch.raised)
          => ProsodySafe(w, enginePitch'.raised)
    BY <1>1, SafeAnyhow DEF ProsodyInv
  <1>5. ASSUME NEW raised \in BOOLEAN, enginePitch'.raised = raised, t = "worker", Finishes(t),
               \/ Head(w).op # "prosody" /\ raised = enginePitch.raised
               \/ ~raised
               \/ Head(w).op = "prosody" /\ raised = Head(w).raised
        PROVE  ProsodySafe(w', enginePitch'.raised)
    <2>1. w' = Tail(w)
      BY <1>1, <1>5 DEF Finishes
    <2>2. ~Raises(Head(w)) /\ (~enginePitch.raised \/ Lowers(Head(w))) => ~raised
      BY <1>5 DEF Raises, Lowers
    <2>3. ProsodySafe(Tail(w), raised)
      BY <1>1, <1>2, <1>5, <2>2, SafeTail DEF ProsodyInv
    <2> QED
      BY <1>5, <2>1, <2>3
  <1>6. ASSUME Continues(t) \/ t = "main",
               enginePitch'.raised \in BOOLEAN, enginePitch'.raised => enginePitch.raised
        PROVE  ProsodySafe(w', enginePitch'.raised)
    <2>1. w' = w
      BY <1>1, <1>2, <1>6 DEF Finishes, Continues
    <2> QED
      BY <1>4, <1>6, <2>1
  <1>7. ProsodySafe(w', enginePitch'.raised)
    <2>1. CASE ReadsBase(t) \/ SendsVoice(t) \/ RestoresBase(t)
      BY <1>1, <1>6, <2>1 DEF ReadsBase, SendsVoice, RestoresBase
    <2>2. CASE SendsSetting(t)
      <3>1. Continues(t) /\ enginePitch'.raised = FALSE
        BY <2>2 DEF SendsSetting, Pitch
      <3> QED
        BY <1>6, <3>1
    <2>3. CASE PushesBase(t)
      <3>1. Finishes(t) /\ enginePitch'.raised = FALSE
        BY <1>2, <2>3 DEF PushesBase, SavedParameters
      <3> QED
        BY <1>5, <1>6, <3>1 DEF Threads
    <2>4. CASE TakesAnswer(t)
      <3>1. Finishes(t) /\ enginePitch' = enginePitch /\ Head(program[t]).op # "prosody"
        BY <2>4 DEF TakesAnswer, At
      <3> QED
        BY <1>1, <1>5, <1>6, <3>1 DEF Threads
    <2>5. CASE SendsProsody(t)
      <3>1. /\ Finishes(t) /\ Head(program[t]).op = "prosody"
            /\ enginePitch' = [saved[t] EXCEPT !.raised = Head(program[t]).raised]
        BY <2>5 DEF SendsProsody, At
      <3>2. enginePitch'.raised = Head(program[t]).raised /\ Head(program[t]).raised \in BOOLEAN
        BY <1>2, <3>1 DEF Bases, Pitch, Commands
      <3>3. t = "main" => enginePitch'.raised = FALSE
        BY <1>1, <1>2, <3>1, <3>2, HeadAndTail DEF ProsodyInv, Raises
      <3> QED
        BY <1>5, <1>6, <3>1, <3>2, <3>3 DEF Threads
    <2>6. CASE t = "worker" /\ SendsText
      <3>1. Finishes(t) /\ enginePitch' = enginePitch /\ Head(program[t]).op # "prosody"
        BY <2>6 DEF SendsText, Starts, At
      <3> QED
        BY <1>1, <1>5, <2>6, <3>1
    <2>7. CASE t = "main" /\ NotesVoice
      BY <1>1, <1>6, <2>7 DEF NotesVoice
    <2> QED
      BY <2>1, <2>2, <2>3, <2>4, <2>5, <2>6, <2>7 DEF RunsCommand
  <1> QED
    BY <1>2, <1>3, <1>7 DEF ProsodyInv

\* The worker's choice of an utterance.
LEMMA ProsodyUtterances ==
  ASSUME VoiceTypeInv, ProsodyInv,
         TakesUtterance \/ LeavesUtterance \/ AtRest \/ UNCHANGED voiceVars
  PROVE  ProsodyInv'
  <1> DEFINE Speech == [program : Seq(Commands), seq : 0 .. sequence]
  <1>1. /\ program \in [Threads -> Seq(Commands)] /\ enginePitch.raised \in BOOLEAN
        /\ queue \in Seq(Speech)
    BY DEF VoiceTypeInv, VoiceTypeOK, PitchValues
  <1>2. CASE TakesUtterance
    <2>1. /\ Head(queue) \in Speech /\ Head(queue) = queue[1] /\ 1 \in DOMAIN queue
          /\ \A k \in DOMAIN Tail(queue) :
               k + 1 \in DOMAIN queue /\ Tail(queue)[k] = queue[k + 1]
      BY <1>1, <1>2, HeadAndTail DEF TakesUtterance
    <2>2. \A k \in DOMAIN queue' : ProsodySafe(queue'[k].program, TRUE)
      BY <1>2, <2>1 DEF TakesUtterance, ProsodyInv
    <2>3. ProsodySafe(Head(queue).program, enginePitch.raised)
      <3>1. ProsodySafe(Head(queue).program, TRUE)
        BY <2>1 DEF ProsodyInv
      <3> QED
        BY <1>1, <2>1, <3>1, SafeAnyhow
    <2>4. /\ enginePitch' = enginePitch
          /\ program'["main"] = program["main"]
          /\ program'["worker"] = program["worker"]
             \/ program'["worker"] = Head(queue).program
      BY <1>1, <1>2 DEF TakesUtterance, Threads
    <2> QED
      BY <2>2, <2>3, <2>4 DEF ProsodyInv
  <1>3. CASE LeavesUtterance
    <2>1. /\ enginePitch' = enginePitch /\ queue' = queue
          /\ program'["main"] = program["main"] /\ program'["worker"] = << >>
      BY <1>1, <1>3 DEF LeavesUtterance, driverVars, Threads
    <2>2. ProsodySafe(<< >>, enginePitch.raised)
      BY DEF ProsodySafe
    <2> QED
      BY <2>1, <2>2 DEF ProsodyInv
  <1>4. CASE AtRest \/ UNCHANGED voiceVars
    BY <1>4 DEF AtRest, voiceVars, ProsodyInv
  <1> QED
    BY <1>2, <1>3, <1>4

\* NVDA's requests: what they have the main thread do raises no pitch.
LEMMA ProsodyRequests ==
  ASSUME VoiceTypeInv, ProsodyInv,
         \/ Speaks \/ SpeaksNothing \/ Cancels \/ Halts \/ RestartsHost
         \/ \E v \in Voices : ChangesVoice(v)
         \/ \E p \in Pitches : ChangesPitch(p)
  PROVE  ProsodyInv'
  <1> DEFINE Speech == [program : Seq(Commands), seq : 0 .. sequence]
  <1>1. /\ program \in [Threads -> Seq(Commands)] /\ enginePitch.raised \in BOOLEAN
        /\ queue \in Seq(Speech) /\ defaultVoice \in Voices
        /\ "worker" \in Threads /\ "main" \in Threads
    BY DEF VoiceTypeInv, VoiceTypeOK, PitchValues, Threads
  <1>2. ASSUME NEW speech \in Seq(Commands), NEW last, Queues(speech, last),
               ProsodySafe(speech, FALSE)
        PROVE  ProsodyInv'
    <2> DEFINE q == [program |-> Resets \o ToDefault \o speech, seq |-> sequence]
    <2>1. ProsodySafe(q.program, TRUE)
      BY <1>2, SafeQueued
    <2>2. queue' = Append(queue, q) /\ UNCHANGED << program, enginePitch >>
      BY <1>2 DEF Queues
    <2>3. \A k \in DOMAIN queue' : queue'[k] = q \/ (k \in DOMAIN queue /\ queue'[k] = queue[k])
      <3>1. q \in Speech
        BY <1>1, ProgramTypes, ConcatType DEF VoiceTypeInv, VoiceTypeOK
      <3> HIDE DEF q, Speech
      <3> QED
        BY <1>1, <2>2, <3>1
    <2> HIDE DEF q
    <2> QED
      BY <2>1, <2>2, <2>3 DEF ProsodyInv
  <1>3. CASE Speaks
    BY <1>1, <1>2, <1>3, ProgramTypes, SafeSpeech DEF Speaks
  <1>4. ASSUME NEW commands \in Seq(Commands), Runs(commands), UNCHANGED << queue, enginePitch >>,
               \A k \in DOMAIN commands : ~Raises(commands[k])
        PROVE  ProsodyInv'
    <2>1. program'["worker"] = program["worker"] /\ program'["main"] = commands
      BY <1>1, <1>4 DEF Runs
    <2> QED
      BY <1>4, <2>1 DEF ProsodyInv
  <1>5. CASE SpeaksNothing
    <2> DEFINE commands == Resets \o ToDefault \o << Notes(defaultVoice) >>
    <2>1. << Notes(defaultVoice) >> \in Seq(Commands)
      BY <1>1, CommandTypes, ShortPrograms
    <2>2. /\ Resets \in Seq(Commands) /\ ToDefault \in Seq(Commands)
          /\ commands \in Seq(Commands)
      BY <2>1, ProgramTypes, ConcatType
    <2>3. \A k \in DOMAIN Resets : ~Raises(Resets[k])
      BY DEF Resets, Prosody, Command, Raises
    <2>4. \A k \in DOMAIN ToDefault : ~Raises(ToDefault[k])
      BY DEF ToDefault, SetVoice, Command, Raises
    <2>5. ~Raises(Notes(defaultVoice))
      BY DEF Notes, Command, Raises
    <2>6. \A k \in DOMAIN commands : ~Raises(commands[k])
      <3>1. \A k \in DOMAIN (Resets \o ToDefault) : ~Raises((Resets \o ToDefault)[k])
        BY <2>2, <2>3, <2>4
      <3>2. Resets \o ToDefault \in Seq(Commands)
        BY <2>2, ConcatType
      <3> QED
        BY <2>1, <2>5, <3>1, <3>2
    <2>7. Runs(commands) /\ UNCHANGED << queue, enginePitch >>
      BY <1>5 DEF SpeaksNothing
    <2> QED
      BY <1>4, <2>2, <2>6, <2>7
  <1>6. CASE Cancels \/ Halts
    BY <1>6 DEF Cancels, Halts, ProsodyInv
  <1>7. CASE RestartsHost
    <2>1. enginePitch'.raised = FALSE /\ queue' = queue
      BY <1>7 DEF RestartsHost, Pitch
    <2>2. PICK commands \in {program["worker"], << >>} :
            program' = [main |-> Restored, worker |-> commands]
      BY <1>7 DEF RestartsHost
    <2>3. ProsodySafe(<< >>, FALSE)
      BY DEF ProsodySafe
    <2>4. ProsodySafe(program["worker"], FALSE)
      BY <1>1, SafeAnyhow DEF ProsodyInv
    <2>5. \A k \in DOMAIN Restored : ~Raises(Restored[k])
      BY DEF Restored, SetVoice, Sets, Command, Raises
    <2>6. program'["main"] = Restored /\ program'["worker"] \in {program["worker"], << >>}
      BY <2>2
    <2> QED
      BY <2>1, <2>3, <2>4, <2>5, <2>6 DEF ProsodyInv
  <1>8. ASSUME NEW v \in Voices, ChangesVoice(v)
        PROVE  ProsodyInv'
    <2>1. << SetVoice(v), Adopts(v) >> \in Seq(Commands)
      BY CommandTypes, ShortPrograms
    <2>2. \A k \in DOMAIN << SetVoice(v), Adopts(v) >> : ~Raises(<< SetVoice(v), Adopts(v) >>[k])
      BY DEF SetVoice, Adopts, Command, Raises
    <2> QED
      BY <1>4, <1>8, <2>1, <2>2 DEF ChangesVoice
  <1>9. ASSUME NEW p \in Pitches, ChangesPitch(p)
        PROVE  ProsodyInv'
    <2>1. << Sets(p) >> \in Seq(Commands)
      BY CommandTypes, ShortPrograms
    <2>2. \A k \in DOMAIN << Sets(p) >> : ~Raises(<< Sets(p) >>[k])
      BY DEF Sets, Command, Raises
    <2> QED
      BY <1>4, <1>9, <2>1, <2>2 DEF ChangesPitch
  <1> QED
    BY <1>3, <1>5, <1>6, <1>7, <1>8, <1>9

\* Text that is no capital letter is not spoken with a raised pitch, over every
\* cancellation, restart and change of language: each utterance starts with a reset
\* (speak(), eloquence.py:1303), and the main thread raises no pitch.
THEOREM ProsodyNeverLeaks == VoiceSpec => []NoLeakedProsody
  <1> DEFINE Inv == VoiceTypeInv /\ ProsodyInv
  <1>1. VoiceInit => Inv
    <2>1. VoiceInit => ProsodyInv
      BY DEF VoiceInit, ProsodyInv, ProsodySafe, Threads
    <2> QED
      BY <2>1, VoiceInitTyped
  <1>2. Inv /\ [VoiceNext]_voiceVars => Inv'
    <2> SUFFICES ASSUME Inv, [VoiceNext]_voiceVars PROVE Inv'
      OBVIOUS
    <2>1. "worker" \in Threads /\ "main" \in Threads
      BY DEF Threads
    <2>2. VoiceTypeInv'
      BY <2>1, CommandsKeepType, UtterancesKeepType, RequestsKeepType DEF VoiceNext
    <2>3. ProsodyInv'
      BY <2>1, ProsodyRun, ProsodyUtterances, ProsodyRequests DEF VoiceNext
    <2> QED
      BY <2>2, <2>3
  <1>3. Inv => NoLeakedProsody
    <2> SUFFICES ASSUME VoiceTypeInv, ProsodyInv, Saying, ~Head(program["worker"]).raised
                 PROVE  ~enginePitch.raised
      BY DEF NoLeakedProsody
    <2> DEFINE w == program["worker"]
    <2>1. w \in Seq(Commands) /\ w # << >> /\ Head(w).op = "text"
      BY DEF Saying, Starts, At, VoiceTypeInv, VoiceTypeOK, Threads
    <2>2. 1 \in DOMAIN w /\ LowText(w[1])
      BY <2>1 DEF LowText
    <2>3. LoweredAt(w, 1, enginePitch.raised)
      BY <2>2 DEF ProsodyInv, ProsodySafe
    <2> QED
      BY <2>3 DEF LoweredAt
  <1> QED
    BY <1>1, <1>2, <1>3, PTL DEF VoiceSpec

-----------------------------------------------------------------------------
(* The last setting wins.                                                  *)

IsSet(c) == c.op = "set"
NoSetting(s) == \A k \in DOMAIN s : ~IsSet(s[k])
IsLastSetting(s, k) == IsSet(s[k]) /\ \A j \in DOMAIN s : j > k => ~IsSet(s[j])

\* Only the main thread has settings; a thread without a program is in no command.
SettingShape ==
  /\ NoSetting(program["worker"])
  /\ \A k \in DOMAIN queue : NoSetting(queue[k].program)
  /\ \A t \in Threads : program[t] = << >> => phase[t] = 0

\* What is in force, or in the hands of set_voice, is the last choice, unless a setting
\* is on its way on the main thread, whose last one is then that choice.
SettingInForce ==
  /\ ~IsSetting("main") => base = Pitch(chosen)
  /\ InSetVoice("worker") => ~IsSetting("main") /\ saved["worker"] = Pitch(chosen)
  /\ InSetVoice("main") /\ ~IsSetting("main") => saved["main"] = Pitch(chosen)
  /\ At("main", "set", 1) => saved["main"] = Pitch(Head(program["main"]).pitch)
  /\ \A k \in DOMAIN program["main"] :
       IsLastSetting(program["main"], k) => program["main"][k].pitch = chosen

SettingInv == SettingShape /\ (~overlapped => SettingInForce)

\* What is left of a program has the settings its first command was not.
LEMMA SettingsLeft ==
  ASSUME NEW s \in Seq(Commands), s # << >>
  PROVE  /\ NoSetting(s) => NoSetting(Tail(s)) /\ ~IsSet(Head(s))
         /\ NoSetting(Tail(s)) /\ ~IsSet(Head(s)) => NoSetting(s)
         /\ NoSetting(Tail(s)) /\ IsSet(Head(s)) => 1 \in DOMAIN s /\ IsLastSetting(s, 1)
         /\ \A k \in DOMAIN Tail(s) :
              /\ k + 1 \in DOMAIN s /\ Tail(s)[k] = s[k + 1]
              /\ IsLastSetting(Tail(s), k) => IsLastSetting(s, k + 1)
  <1>1. /\ Head(s) = s[1] /\ 1 \in DOMAIN s
        /\ \A k \in DOMAIN Tail(s) : k + 1 \in DOMAIN s /\ Tail(s)[k] = s[k + 1]
        /\ \A k \in DOMAIN s : k # 1 => k - 1 \in DOMAIN Tail(s) /\ Tail(s)[k - 1] = s[k]
    BY HeadAndTail
  <1>2. DOMAIN s \subseteq Nat /\ DOMAIN Tail(s) \subseteq Nat
    OBVIOUS
  <1>3. NoSetting(s) => NoSetting(Tail(s)) /\ ~IsSet(Head(s))
    BY <1>1 DEF NoSetting
  <1>4. NoSetting(Tail(s)) /\ ~IsSet(Head(s)) => NoSetting(s)
    BY <1>1 DEF NoSetting
  <1>5. ASSUME NoSetting(Tail(s)), IsSet(Head(s))
        PROVE  IsLastSetting(s, 1)
    <2>1. \A j \in DOMAIN s : j > 1 => ~IsSet(s[j])
      <3> SUFFICES ASSUME NEW j \in DOMAIN s, j > 1 PROVE ~IsSet(s[j])
        OBVIOUS
      <3>1. j # 1
        BY <1>2
      <3>2. j - 1 \in DOMAIN Tail(s) /\ Tail(s)[j - 1] = s[j]
        BY <1>1, <3>1
      <3> QED
        BY <1>5, <3>2 DEF NoSetting
    <2> QED
      BY <1>1, <1>5, <2>1 DEF IsLastSetting
  <1>6. ASSUME NEW k \in DOMAIN Tail(s), IsLastSetting(Tail(s), k)
        PROVE  IsLastSetting(s, k + 1)
    <2> SUFFICES ASSUME NEW j \in DOMAIN s, j > k + 1 PROVE ~IsSet(s[j])
      BY <1>1, <1>6 DEF IsLastSetting
    <2>1. j # 1 /\ j - 1 > k
      BY <1>2
    <2> QED
      BY <1>1, <1>6, <2>1 DEF IsLastSetting
  <1> QED
    BY <1>1, <1>3, <1>4, <1>5, <1>6

\* IsSetting, in these terms.
LEMMA SettingOrNot ==
  \A t \in Threads : IsSetting(t) <=> ~NoSetting(program[t])
  BY DEF IsSetting, NoSetting, IsSet

\* One thread's steps leave the other where it is.
LEMMA OtherThread ==
  ASSUME VoiceTypeInv, NEW t \in Threads, NEW u \in Threads, u # t,
         RunsCommand(t) \/ (t = "worker" /\ SendsText) \/ (t = "main" /\ NotesVoice)
  PROVE  /\ program'[u] = program[u] /\ phase'[u] = phase[u] /\ saved'[u] = saved[u]
         /\ UNCHANGED << queue, chosen >> /\ (overlapped => overlapped')
         /\ program[t] # << >> /\ program[t] \in Seq(Commands)
         /\ \/ Finishes(t) /\ program'[t] = Tail(program[t]) /\ phase'[t] = 0
            \/ Continues(t) /\ program'[t] = program[t]
  <1>1. /\ program \in [Threads -> Seq(Commands)] /\ phase \in [Threads -> 0 .. 3]
        /\ saved \in [Threads -> Bases]
    BY DEF VoiceTypeInv, VoiceTypeOK
  <1>2. /\ Finishes(t) \/ Continues(t)
        /\ UNCHANGED << queue, chosen >> /\ (overlapped => overlapped')
        /\ program[t] # << >>
    <2>1. Finishes(t) \/ Continues(t)
      BY DEF RunsCommand, ReadsBase, SendsProsody, SendsVoice, RestoresBase, PushesBase,
             SendsSetting, TakesAnswer, SendsText, NotesVoice
    <2>2. UNCHANGED << queue, chosen >>
      BY DEF RunsCommand, ReadsBase, SendsProsody, SendsVoice, RestoresBase, PushesBase,
             SendsSetting, TakesAnswer, SendsText, NotesVoice, driverVars
    <2>3. program[t] # << >>
      BY DEF RunsCommand, ReadsBase, SendsProsody, SendsVoice, RestoresBase, PushesBase,
             SendsSetting, TakesAnswer, SendsText, NotesVoice, Starts, At
    <2>4. overlapped => overlapped'
      BY Zenon
         DEF RunsCommand, ReadsBase, SendsProsody, SendsVoice, RestoresBase, PushesBase,
             SendsSetting, TakesAnswer, SendsText, NotesVoice
    <2> QED
      BY <2>1, <2>2, <2>3, <2>4
  <1>3. program'[u] = program[u] /\ phase'[u] = phase[u]
    BY <1>1, <1>2 DEF Finishes, Continues
  <1>4. saved'[u] = saved[u]
    BY <1>1 DEF RunsCommand, ReadsBase, SendsProsody, SendsVoice, RestoresBase, PushesBase,
           SendsSetting, TakesAnswer, SendsText, NotesVoice, Finishes
  <1>5. \/ Finishes(t) /\ program'[t] = Tail(program[t]) /\ phase'[t] = 0
        \/ Continues(t) /\ program'[t] = program[t]
    BY <1>1, <1>2 DEF Finishes, Continues
  <1> QED
    BY <1>1, <1>2, <1>3, <1>4, <1>5

\* The commands keep the shape.
LEMMA ShapeRun ==
  ASSUME VoiceTypeInv, SettingShape, NEW t \in Threads,
         RunsCommand(t) \/ (t = "worker" /\ SendsText) \/ (t = "main" /\ NotesVoice)
  PROVE  SettingShape'
  <1>1. PICK u \in Threads : u # t /\ Threads = {t, u}
    BY DEF Threads
  <1>2. /\ program'[u] = program[u] /\ phase'[u] = phase[u] /\ queue' = queue
        /\ program[t] # << >> /\ program[t] \in Seq(Commands)
        /\ \/ program'[t] = Tail(program[t]) /\ phase'[t] = 0
           \/ program'[t] = program[t]
    BY <1>1, OtherThread
  <1>3. NoSetting(program[t]) => NoSetting(program'[t])
    BY <1>2, SettingsLeft
  <1>4. NoSetting(program'["worker"])
    BY <1>1, <1>2, <1>3 DEF SettingShape, Threads
  <1>5. \A v \in Threads : program'[v] = << >> => phase'[v] = 0
    BY <1>1, <1>2 DEF SettingShape
  <1> QED
    BY <1>2, <1>4, <1>5 DEF SettingShape

\* The worker's commands. It takes the last choice back into voice_params, and is
\* caught in the middle of set_voice by no setting.
LEMMA SettingWorker ==
  ASSUME VoiceTypeInv, SettingInv, ~overlapped', RunsCommand("worker") \/ SendsText
  PROVE  SettingInForce'
  <1>1. "main" \in Threads /\ "worker" \in Threads /\ "main" # "worker"
    BY DEF Threads
  <1>2. /\ program'["main"] = program["main"] /\ phase'["main"] = phase["main"]
        /\ saved'["main"] = saved["main"] /\ chosen' = chosen /\ ~overlapped
        /\ program["worker"] # << >> /\ program["worker"] \in Seq(Commands)
        /\ \/ Finishes("worker") /\ phase'["worker"] = 0
           \/ Continues("worker") /\ program'["worker"] = program["worker"]
    BY <1>1, OtherThread
  <1>3. SettingInForce /\ SettingShape
    BY <1>2 DEF SettingInv
  <1>4. Head(program["worker"]).op # "set"
    BY <1>2, <1>3, SettingsLeft DEF SettingShape, IsSet
  <1>5. IsSetting("main")' = IsSetting("main")
    BY <1>2 DEF IsSetting
  <1>6. ~IsSetting("main") => base' = Pitch(chosen)
    <2>1. CASE RestoresBase("worker")
      <3>1. InSetVoice("worker") /\ base' = saved["worker"]
        BY <2>1 DEF RestoresBase, SavedParameters, At, InSetVoice
      <3> QED
        BY <1>3, <3>1 DEF SettingInForce
    <2>2. CASE ~RestoresBase("worker")
      <3>1. base' = base
        BY <1>4, <2>2
           DEF RunsCommand, ReadsBase, SendsProsody, SendsVoice, PushesBase, SendsSetting,
               TakesAnswer, SendsText, At
      <3> QED
        BY <1>3, <3>1 DEF SettingInForce
    <2> QED
      BY <2>1, <2>2
  <1>7. InSetVoice("worker")' => ~IsSetting("main") /\ saved'["worker"] = Pitch(chosen)
    <2> SUFFICES ASSUME InSetVoice("worker")'
                 PROVE  ~IsSetting("main") /\ saved'["worker"] = Pitch(chosen)
      OBVIOUS
    <2>1. phase'["worker"] > 0 /\ program'["worker"] = program["worker"]
      BY <1>2 DEF InSetVoice
    <2>2. Head(program["worker"]).op = "setVoice" /\ ~Finishes("worker")
      BY <1>1, <2>1 DEF InSetVoice, Finishes, VoiceTypeInv, VoiceTypeOK
    <2>3. CASE ReadsBase("worker")
      <3>1. At("worker", "setVoice", 0) /\ ~IsSetting("main")
        BY <2>2, <2>3 DEF ReadsBase, Starts, At
      <3>2. saved'["worker"] = base
        BY <1>1, <2>3 DEF ReadsBase, VoiceTypeInv
      <3> QED
        BY <1>3, <3>1, <3>2 DEF SettingInForce
    <2>4. CASE SendsVoice("worker") \/ RestoresBase("worker")
      <3>1. InSetVoice("worker") /\ saved' = saved
        BY <2>4 DEF SendsVoice, RestoresBase, At, InSetVoice
      <3> QED
        BY <1>3, <3>1 DEF SettingInForce
    <2> QED
      BY <1>4, <2>2, <2>3, <2>4
         DEF RunsCommand, SendsProsody, PushesBase, SendsSetting, TakesAnswer, SendsText,
             Starts, At
  <1>8. /\ (InSetVoice("main") /\ ~IsSetting("main"))' => saved'["main"] = Pitch(chosen)
        /\ At("main", "set", 1)' => saved'["main"] = Pitch(Head(program'["main"]).pitch)
        /\ \A k \in DOMAIN program'["main"] :
             IsLastSetting(program'["main"], k) => program'["main"][k].pitch = chosen
    <2>1. /\ InSetVoice("main")' = InSetVoice("main")
          /\ At("main", "set", 1)' = At("main", "set", 1)
      BY <1>2 DEF InSetVoice, At
    <2> QED
      BY <1>2, <1>3, <1>5, <2>1 DEF SettingInForce
  <1> QED
    BY <1>2, <1>5, <1>6, <1>7, <1>8 DEF SettingInForce

\* The main thread's. Its last setting is the choice, and is put into voice_params.
LEMMA SettingMain ==
  ASSUME VoiceTypeInv, SettingInv, ~overlapped', RunsCommand("main") \/ NotesVoice
  PROVE  SettingInForce'
  <1> DEFINE m == program["main"]
  <1>1. "main" \in Threads /\ "worker" \in Threads /\ "main" # "worker"
    BY DEF Threads
  <1>2. /\ program'["worker"] = program["worker"] /\ phase'["worker"] = phase["worker"]
        /\ saved'["worker"] = saved["worker"] /\ chosen' = chosen /\ ~overlapped
        /\ m # << >> /\ m \in Seq(Commands)
        /\ \/ Finishes("main") /\ m' = Tail(m) /\ phase'["main"] = 0
           \/ Continues("main") /\ m' = m
    BY <1>1, OtherThread
  <1>3. SettingInForce /\ SettingShape
    BY <1>2 DEF SettingInv
  <1>4. InSetVoice("worker")' = InSetVoice("worker")
    BY <1>2 DEF InSetVoice
  <1>5. \A k \in DOMAIN m' : IsLastSetting(m', k) => m'[k].pitch = chosen
    <2>1. \A k \in DOMAIN m : IsLastSetting(m, k) => m[k].pitch = chosen
      BY <1>3 DEF SettingInForce
    <2>2. CASE m' = m
      BY <2>1, <2>2
    <2>3. CASE m' = Tail(m)
      <3>1. \A k \in DOMAIN Tail(m) :
              /\ k + 1 \in DOMAIN m /\ Tail(m)[k] = m[k + 1]
              /\ IsLastSetting(Tail(m), k) => IsLastSetting(m, k + 1)
        BY <1>2, SettingsLeft
      <3> QED
        BY <2>1, <2>3, <3>1
    <2> QED
      BY <1>2, <2>2, <2>3
  <1>6. CASE Head(m).op = "set"
    <2>1. IsSetting("main") /\ ~InSetVoice("worker")
      <3>1. IsSetting("main")
        BY <1>1, <1>2, <1>6, SettingsLeft, SettingOrNot DEF IsSet
      <3> QED
        BY <1>3, <3>1 DEF SettingInForce
    <2>2. CASE SendsSetting("main")
      <3>1. m' = m /\ IsSetting("main")' /\ saved'["main"] = Pitch(Head(m).pitch)
        <4>1. Continues("main") /\ saved' = [saved EXCEPT !["main"] = enginePitch']
              /\ enginePitch' = Pitch(Head(m).pitch)
          BY <2>2 DEF SendsSetting
        <4>2. m' = m
          BY <4>1 DEF Continues
        <4>3. IsSetting("main")'
          BY <2>1, <4>2 DEF IsSetting
        <4> QED
          BY <1>1, <4>1, <4>2, <4>3 DEF VoiceTypeInv
      <3>2. ~InSetVoice("main")'
        BY <1>6, <3>1 DEF InSetVoice
      <3> QED
        BY <1>2, <1>4, <1>5, <2>1, <3>1, <3>2 DEF SettingInForce
    <2>3. CASE TakesAnswer("main")
      <3>1. /\ At("main", "set", 1) /\ base' = saved["main"] /\ Finishes("main")
        BY <2>3 DEF TakesAnswer
      <3>2. phase'["main"] = 0 /\ m' = Tail(m)
        BY <1>1, <3>1 DEF Finishes, VoiceTypeInv, VoiceTypeOK
      <3>3. ~InSetVoice("main")' /\ ~At("main", "set", 1)'
        BY <3>2 DEF InSetVoice, At
      <3>4. ~IsSetting("main")' => base' = Pitch(chosen)
        <4> SUFFICES ASSUME ~IsSetting("main")' PROVE base' = Pitch(chosen)
          OBVIOUS
        <4>1. NoSetting(Tail(m))
          BY <3>2 DEF IsSetting, NoSetting, IsSet
        <4>2. 1 \in DOMAIN m /\ IsLastSetting(m, 1) /\ Head(m) = m[1]
          BY <1>2, <1>6, <4>1, SettingsLeft DEF IsSet
        <4>3. Head(m).pitch = chosen
          BY <1>3, <4>2 DEF SettingInForce
        <4> QED
          BY <1>3, <3>1, <4>3 DEF SettingInForce
      <3> QED
        BY <1>2, <1>4, <1>5, <2>1, <3>3, <3>4 DEF SettingInForce
    <2> QED
      BY <1>6, <2>2, <2>3
         DEF RunsCommand, ReadsBase, SendsProsody, SendsVoice, RestoresBase, PushesBase,
             NotesVoice, Starts, At
  <1>7. CASE Head(m).op # "set"
    <2>1. IsSetting("main")' <=> IsSetting("main")
      <3>1. NoSetting(m') <=> NoSetting(m)
        BY <1>2, <1>7, SettingsLeft DEF IsSet
      <3> QED
        BY <3>1 DEF IsSetting, NoSetting, IsSet
    <2>2. ~At("main", "set", 1)'
      BY <1>2, <1>7 DEF At
    <2>3. ~IsSetting("main") => base' = Pitch(chosen)
      <3>1. CASE RestoresBase("main")
        <4>1. InSetVoice("main") /\ base' = saved["main"]
          BY <3>1 DEF RestoresBase, SavedParameters, At, InSetVoice
        <4> QED
          BY <1>3, <4>1 DEF SettingInForce
      <3>2. CASE ~RestoresBase("main")
        <4>1. base' = base
          BY <1>7, <3>2
             DEF RunsCommand, ReadsBase, SendsProsody, SendsVoice, PushesBase, SendsSetting,
                 TakesAnswer, NotesVoice, At
        <4> QED
          BY <1>3, <4>1 DEF SettingInForce
      <3> QED
        BY <3>1, <3>2
    <2>4. InSetVoice("main")' /\ ~IsSetting("main") => saved'["main"] = Pitch(chosen)
      <3> SUFFICES ASSUME InSetVoice("main")', ~IsSetting("main")
                   PROVE  saved'["main"] = Pitch(chosen)
        OBVIOUS
      <3>1. phase'["main"] > 0 /\ m' = m /\ ~Finishes("main")
        BY <1>1, <1>2 DEF InSetVoice, Finishes, VoiceTypeInv, VoiceTypeOK
      <3>2. CASE ReadsBase("main")
        <4>1. saved'["main"] = base
          BY <1>1, <3>2 DEF ReadsBase, VoiceTypeInv
        <4> QED
          BY <1>3, <4>1 DEF SettingInForce
      <3>3. CASE SendsVoice("main") \/ RestoresBase("main")
        <4>1. InSetVoice("main") /\ saved' = saved
          BY <3>3 DEF SendsVoice, RestoresBase, At, InSetVoice
        <4> QED
          BY <1>3, <4>1 DEF SettingInForce
      <3> QED
        BY <1>7, <3>1, <3>2, <3>3
           DEF RunsCommand, SendsProsody, PushesBase, SendsSetting, TakesAnswer, NotesVoice,
               Starts, At
    <2> QED
      BY <1>2, <1>3, <1>4, <1>5, <2>1, <2>2, <2>3, <2>4 DEF SettingInForce
  <1> QED
    BY <1>6, <1>7

\* The worker's choice of an utterance: it begins with its first command.
LEMMA SettingUtterances ==
  ASSUME VoiceTypeInv, SettingInv,
         TakesUtterance \/ LeavesUtterance \/ AtRest \/ UNCHANGED voiceVars
  PROVE  SettingInv'
  <1> DEFINE Speech == [program : Seq(Commands), seq : 0 .. sequence]
  <1>1. /\ program \in [Threads -> Seq(Commands)] /\ phase \in [Threads -> 0 .. 3]
        /\ queue \in Seq(Speech)
        /\ "main" \in Threads /\ "worker" \in Threads /\ "main" # "worker"
        /\ Threads = {"main", "worker"}
    BY DEF VoiceTypeInv, VoiceTypeOK, Threads
  <1>2. NoSetting(<< >>)
    BY DEF NoSetting
  <1>3. ASSUME /\ UNCHANGED << base, saved, chosen, overlapped >>
               /\ program'["main"] = program["main"] /\ phase' = phase
               /\ phase["worker"] = 0
        PROVE  ~overlapped' => SettingInForce'
    <2>1. /\ IsSetting("main")' = IsSetting("main")
          /\ InSetVoice("main")' = InSetVoice("main")
          /\ At("main", "set", 1)' = At("main", "set", 1)
      BY <1>3 DEF IsSetting, InSetVoice, At
    <2>2. ~InSetVoice("worker")'
      BY <1>3 DEF InSetVoice
    <2> QED
      BY <1>3, <2>1, <2>2 DEF SettingInv, SettingInForce
  <1>4. CASE TakesUtterance
    <2>1. /\ Head(queue) = queue[1] /\ 1 \in DOMAIN queue
          /\ \A k \in DOMAIN Tail(queue) :
               k + 1 \in DOMAIN queue /\ Tail(queue)[k] = queue[k + 1]
      BY <1>1, <1>4, HeadAndTail DEF TakesUtterance
    <2>2. phase["worker"] = 0
      BY <1>1, <1>4 DEF TakesUtterance, SettingInv, SettingShape
    <2>3. /\ program'["main"] = program["main"] /\ phase' = phase
          /\ program'["worker"] \in {<< >>, Head(queue).program}
      BY <1>1, <1>4 DEF TakesUtterance
    <2>4. ~overlapped' => SettingInForce'
      BY <1>3, <1>4, <2>2, <2>3 DEF TakesUtterance
    <2>5. NoSetting(program'["worker"])
      BY <1>2, <2>1, <2>3 DEF SettingInv, SettingShape
    <2>6. \A k \in DOMAIN queue' : NoSetting(queue'[k].program)
      BY <1>4, <2>1 DEF TakesUtterance, SettingInv, SettingShape
    <2>7. \A t \in Threads : program'[t] = << >> => phase'[t] = 0
      BY <1>1, <2>2, <2>3 DEF SettingInv, SettingShape
    <2> QED
      BY <2>4, <2>5, <2>6, <2>7 DEF SettingInv, SettingShape
  <1>5. CASE LeavesUtterance
    <2>1. /\ program'["main"] = program["main"] /\ program'["worker"] = << >>
          /\ phase' = phase /\ phase["worker"] = 0 /\ queue' = queue
      BY <1>1, <1>5 DEF LeavesUtterance, driverVars
    <2>2. ~overlapped' => SettingInForce'
      BY <1>3, <1>5, <2>1 DEF LeavesUtterance, driverVars
    <2>3. SettingShape'
      BY <1>1, <1>2, <2>1 DEF SettingInv, SettingShape
    <2> QED
      BY <2>2, <2>3 DEF SettingInv
  <1>6. CASE AtRest \/ UNCHANGED voiceVars
    BY <1>6
       DEF AtRest, voiceVars, SettingInv, SettingShape, SettingInForce, IsSetting, InSetVoice, At
  <1> QED
    BY <1>4, <1>5, <1>6

\* What speak() prepares holds no setting.
LEMMA SpeechHasNoSetting ==
  ASSUME VoiceTypeInv
  PROVE  /\ NoSetting(Resets) /\ NoSetting(ToDefault) /\ NoSetting(Plain)
         /\ NoSetting(Capital) /\ NoSetting(<< Notes(defaultVoice) >>)
         /\ \A v \in Voices : NoSetting(Foreign(v)) /\ NoSetting(<< SetVoice(v), Adopts(v) >>)
         /\ \A s, t \in Seq(Commands) : NoSetting(s) /\ NoSetting(t) => NoSetting(s \o t)
  <1>1. NoSetting(Resets) /\ NoSetting(ToDefault) /\ NoSetting(Plain) /\ NoSetting(Capital)
    BY DEF NoSetting, IsSet, Resets, ToDefault, Plain, Capital, Prosody, SetVoice, Text, Command
  <1>2. NoSetting(<< Notes(defaultVoice) >>)
    BY DEF NoSetting, IsSet, Notes, Command
  <1>3. \A v \in Voices : NoSetting(Foreign(v)) /\ NoSetting(<< SetVoice(v), Adopts(v) >>)
    BY DEF NoSetting, IsSet, Foreign, SetVoice, Text, Adopts, Command
  <1>4. \A s, t \in Seq(Commands) : NoSetting(s) /\ NoSetting(t) => NoSetting(s \o t)
    BY DEF NoSetting
  <1> QED
    BY <1>1, <1>2, <1>3, <1>4

\* A request that leaves the voice alone.
LEMMA SettingUndisturbed ==
  ASSUME VoiceTypeInv, SettingInv, program["main"] = << >>,
         NEW commands \in Seq(Commands), NoSetting(commands),
         Runs(commands) \/ (UNCHANGED program /\ commands = << >>),
         UNCHANGED << phase, saved, base, chosen, overlapped >>,
         \A k \in DOMAIN queue' : NoSetting(queue'[k].program)
  PROVE  SettingInv'
  <1>1. /\ program'["main"] = commands /\ program'["worker"] = program["worker"]
        /\ phase["main"] = 0 /\ Threads = {"main", "worker"}
    BY DEF Runs, VoiceTypeInv, VoiceTypeOK, Threads, SettingInv, SettingShape
  <1>2. SettingShape'
    BY <1>1 DEF SettingInv, SettingShape
  <1>3. /\ ~IsSetting("main") /\ ~IsSetting("main")'
        /\ InSetVoice("worker")' = InSetVoice("worker")
        /\ ~InSetVoice("main")' /\ ~At("main", "set", 1)'
    <2>1. ~IsSetting("main") /\ ~IsSetting("main")'
      BY <1>1 DEF IsSetting, NoSetting, IsSet
    <2>2. InSetVoice("worker")' = InSetVoice("worker")
      BY <1>1 DEF InSetVoice
    <2>3. ~InSetVoice("main")' /\ ~At("main", "set", 1)'
      BY <1>1 DEF InSetVoice, At
    <2> QED
      BY <2>1, <2>2, <2>3
  <1>4. \A k \in DOMAIN program'["main"] : ~IsLastSetting(program'["main"], k)
    BY <1>1 DEF NoSetting, IsLastSetting
  <1> QED
    BY <1>2, <1>3, <1>4 DEF SettingInv, SettingInForce

\* The requests that are settings: a choice, and a new host, which gets what was saved.
LEMMA SettingChosen ==
  ASSUME VoiceTypeInv, SettingInv, program["main"] = << >>,
         NEW p \in Pitches, NEW commands \in Seq(Commands), NEW k \in DOMAIN commands,
         IsLastSetting(commands, k), ~overlapped' => commands[k].pitch = p,
         program'["main"] = commands, phase'["main"] = phase["main"],
         chosen' = p, ~overlapped' => ~InSetVoice("worker")'
  PROVE  ~overlapped' => SettingInForce'
  <1>1. phase'["main"] = 0 /\ Threads = {"main", "worker"}
    BY DEF SettingInv, SettingShape, Threads
  <1>2. IsSetting("main")' /\ ~At("main", "set", 1)' /\ ~InSetVoice("main")'
    <2>1. IsSetting("main")'
      BY DEF IsSetting, IsLastSetting, IsSet
    <2> QED
      BY <1>1, <2>1 DEF At, InSetVoice
  <1>3. ASSUME NEW j \in DOMAIN commands, IsLastSetting(commands, j)
        PROVE  j = k
    <2>1. j \in Nat /\ k \in Nat
      OBVIOUS
    <2> QED
      BY <1>3, <2>1 DEF IsLastSetting
  <1> QED
    BY <1>2, <1>3 DEF SettingInForce

LEMMA SettingRequests ==
  ASSUME VoiceTypeInv, SettingInv,
         \/ Speaks \/ SpeaksNothing \/ Cancels \/ Halts \/ RestartsHost
         \/ \E v \in Voices : ChangesVoice(v)
         \/ \E p \in Pitches : ChangesPitch(p)
  PROVE  SettingInv'
  <1> DEFINE Speech == [program : Seq(Commands), seq : 0 .. sequence]
  <1>1. /\ program \in [Threads -> Seq(Commands)] /\ phase \in [Threads -> 0 .. 3]
        /\ queue \in Seq(Speech) /\ defaultVoice \in Voices
        /\ base.value \in Pitches /\ variant \in Pitches /\ chosen \in Pitches
        /\ Threads = {"main", "worker"} /\ "main" # "worker"
    BY DEF VoiceTypeInv, VoiceTypeOK, Threads, Pitch
  <1>2. program["main"] = << >> /\ NoSetting(<< >>) /\ << >> \in Seq(Commands)
    <2>1. Asks
      BY DEF Speaks, Queues, SpeaksNothing, Cancels, Halts, RestartsHost, ChangesVoice,
             ChangesPitch
    <2>2. NoSetting(<< >>)
      BY DEF NoSetting
    <2> QED
      BY <2>1, <2>2, ShortPrograms DEF Asks
  <1>3. \A k \in DOMAIN queue : NoSetting(queue[k].program)
    BY DEF SettingInv, SettingShape
  <1>4. ASSUME NEW speech \in Seq(Commands), NEW last, Queues(speech, last), NoSetting(speech)
        PROVE  SettingInv'
    <2> DEFINE q == [program |-> Resets \o ToDefault \o speech, seq |-> sequence]
    <2>1. NoSetting(q.program) /\ q.program \in Seq(Commands)
      BY <1>4, ProgramTypes, ConcatType, SpeechHasNoSetting
    <2>2. q \in Speech
      BY <2>1 DEF VoiceTypeInv, VoiceTypeOK
    <2>3. NoSetting(q.program)
      BY <2>1
    <2>4. queue' = Append(queue, q) /\ UNCHANGED << program, phase, saved, base, chosen, overlapped >>
      BY <1>4 DEF Queues
    <2> HIDE DEF q, Speech
    <2>5. \A k \in DOMAIN queue' : queue'[k] = q \/ (k \in DOMAIN queue /\ queue'[k] = queue[k])
      BY <1>1, <2>2, <2>4
    <2>6. \A k \in DOMAIN queue' : NoSetting(queue'[k].program)
      BY <1>3, <2>3, <2>5
    <2> QED
      BY <1>2, <2>4, <2>6, SettingUndisturbed
  <1>5. CASE Speaks
    BY <1>1, <1>4, <1>5, ProgramTypes, SpeechHasNoSetting DEF Speaks
  <1>6. CASE SpeaksNothing
    <2>1. << Notes(defaultVoice) >> \in Seq(Commands)
      BY <1>1, CommandTypes, ShortPrograms
    <2>2. /\ Resets \o ToDefault \in Seq(Commands)
          /\ Resets \o ToDefault \o << Notes(defaultVoice) >> \in Seq(Commands)
      BY <2>1, ProgramTypes, ConcatType
    <2>3. NoSetting(Resets \o ToDefault \o << Notes(defaultVoice) >>)
      BY <2>1, <2>2, ProgramTypes, SpeechHasNoSetting
    <2>4. /\ Runs(Resets \o ToDefault \o << Notes(defaultVoice) >>)
          /\ UNCHANGED << queue, phase, saved, base, chosen, overlapped >>
      BY <1>6 DEF SpeaksNothing
    <2> QED
      BY <1>2, <1>3, <2>2, <2>3, <2>4, SettingUndisturbed
  <1>7. CASE Cancels \/ Halts
    <2>1. UNCHANGED << program, queue, phase, saved, base, chosen, overlapped >>
      BY <1>7 DEF Cancels, Halts
    <2> QED
      BY <1>2, <1>3, <2>1, SettingUndisturbed
  <1>8. ASSUME NEW v \in Voices, ChangesVoice(v)
        PROVE  SettingInv'
    <2>1. << SetVoice(v), Adopts(v) >> \in Seq(Commands)
      BY CommandTypes, ShortPrograms
    <2>2. /\ Runs(<< SetVoice(v), Adopts(v) >>)
          /\ UNCHANGED << queue, phase, saved, base, chosen, overlapped >>
      BY <1>8 DEF ChangesVoice
    <2> QED
      BY <1>2, <1>3, <2>1, <2>2, SettingUndisturbed, SpeechHasNoSetting
  <1>9. ASSUME NEW p \in Pitches, ChangesPitch(p)
        PROVE  SettingInv'
    <2>1. /\ program'["main"] = << Sets(p) >> /\ program'["worker"] = program["worker"]
          /\ << Sets(p) >> \in Seq(Commands)
          /\ UNCHANGED << queue, phase, saved, base >>
          /\ chosen' = p /\ overlapped' = InSetVoice("worker")
      BY <1>1, <1>9, CommandTypes, ShortPrograms DEF ChangesPitch, Runs
    <2>2. 1 \in DOMAIN << Sets(p) >> /\ IsLastSetting(<< Sets(p) >>, 1) /\ << Sets(p) >>[1].pitch = p
      BY DEF IsLastSetting, IsSet, Sets, Command
    <2>3. InSetVoice("worker")' <=> InSetVoice("worker")
      BY <2>1 DEF InSetVoice
    <2>4. ~overlapped' => ~InSetVoice("worker")'
      BY <2>1, <2>3, Zenon
    <2>5. ~overlapped' => SettingInForce'
      BY <1>2, <2>1, <2>2, <2>4, SettingChosen
    <2>6. SettingShape'
      <3>1. NoSetting(program'["worker"]) /\ \A k \in DOMAIN queue' : NoSetting(queue'[k].program)
        BY <1>3, <2>1 DEF SettingInv, SettingShape
      <3>2. program'["main"] # << >>
        BY <2>1
      <3>3. program'["worker"] = << >> => phase'["worker"] = 0
        BY <1>1, <2>1 DEF SettingInv, SettingShape
      <3> QED
        BY <1>1, <3>1, <3>2, <3>3 DEF SettingShape
    <2> QED
      BY <2>5, <2>6 DEF SettingInv
  <1>10. CASE RestartsHost
    <2>1. PICK commands \in {program["worker"], << >>} :
            /\ program' = [main |-> Restored, worker |-> commands]
            /\ phase' = [phase EXCEPT !["worker"] = IF commands = << >> THEN 0 ELSE @]
      BY <1>10 DEF RestartsHost
    <2>2. /\ program'["main"] = Restored /\ program'["worker"] = commands
          /\ phase'["main"] = phase["main"]
          /\ phase'["worker"] = IF commands = << >> THEN 0 ELSE phase["worker"]
      BY <1>1, <2>1
    <2>3. /\ UNCHANGED << queue, chosen >> /\ Restored \in Seq(Commands)
      BY <1>10, ProgramTypes DEF RestartsHost
    <2>4. overlapped' <=> (overlapped \/ InSetVoice("worker"))
      BY <1>10, Zenon DEF RestartsHost
    <2>5. InSetVoice("worker")' => InSetVoice("worker")
      BY <2>1, <2>2 DEF InSetVoice
    <2>6. ~overlapped' => ~InSetVoice("worker")'
      BY <2>4, <2>5
    <2>7. 3 \in DOMAIN Restored /\ IsLastSetting(Restored, 3) /\ Restored[3].pitch = base.value
      BY DEF Restored, IsLastSetting, IsSet, SetVoice, Sets, Command
    <2>8. ~overlapped' => Restored[3].pitch = chosen
      <3>1. ~IsSetting("main")
        BY <1>2 DEF IsSetting
      <3>2. ~overlapped' => base = Pitch(chosen)
        BY <2>4, <3>1 DEF SettingInv, SettingInForce
      <3> QED
        BY <2>7, <3>2 DEF Pitch
    <2>9. ~overlapped' => SettingInForce'
      BY <1>1, <1>2, <2>2, <2>3, <2>6, <2>7, <2>8, SettingChosen
    <2>10. SettingShape'
      <3>1. NoSetting(program'["worker"]) /\ \A k \in DOMAIN queue' : NoSetting(queue'[k].program)
        BY <1>2, <1>3, <2>2, <2>3 DEF SettingInv, SettingShape
      <3>2. program'["main"] # << >>
        BY <2>2, <2>7
      <3>3. program'["worker"] = << >> => phase'["worker"] = 0
        BY <2>2
      <3> QED
        BY <1>1, <3>1, <3>2, <3>3 DEF SettingShape
    <2> QED
      BY <2>9, <2>10 DEF SettingInv
  <1> QED
    BY <1>5, <1>6, <1>7, <1>8, <1>9, <1>10

\* It holds from the beginning, through every step.
LEMMA SettingInit ==
  VoiceInit => SettingInv
  <1> SUFFICES ASSUME VoiceInit PROVE SettingInv
    OBVIOUS
  <1>1. \A t \in Threads : program[t] = << >> /\ phase[t] = 0
    BY DEF VoiceInit
  <1>2. SettingShape
    BY <1>1 DEF VoiceInit, SettingShape, NoSetting, Threads
  <1>3. SettingInForce
    BY <1>1 DEF VoiceInit, SettingInForce, IsSetting, InSetVoice, At, Threads
  <1> QED
    BY <1>2, <1>3 DEF SettingInv

LEMMA SettingKept ==
  ASSUME VoiceTypeInv, SettingInv, [VoiceNext]_voiceVars
  PROVE  SettingInv'
  <1>1. Threads = {"main", "worker"}
    BY DEF Threads
  <1>2. CASE \/ \E t \in Threads : RunsCommand(t)
             \/ SendsText \/ NotesVoice
    BY <1>1, <1>2, ShapeRun, SettingWorker, SettingMain DEF SettingInv
  <1>3. CASE TakesUtterance \/ LeavesUtterance \/ AtRest \/ UNCHANGED voiceVars
    BY <1>3, SettingUtterances
  <1> QED
    BY <1>2, <1>3, SettingRequests DEF VoiceNext

\* At rest the saved state is what the user has chosen last, over changes of language
\* and restarts of the engine, unless the choice was made while the worker was inside
\* set_voice (_eloquence.py:769-779).
THEOREM LastChoiceKept == VoiceSpec => []LatestSettingWins
  <1> DEFINE Inv == VoiceTypeInv /\ SettingInv
  <1>1. VoiceInit => Inv
    BY SettingInit, VoiceInitTyped
  <1>2. Inv /\ [VoiceNext]_voiceVars => Inv'
    <2> SUFFICES ASSUME Inv, [VoiceNext]_voiceVars PROVE Inv'
      OBVIOUS
    <2>1. "worker" \in Threads /\ "main" \in Threads /\ Threads = {"main", "worker"}
      BY DEF Threads
    <2>2. VoiceTypeInv'
      BY <2>1, CommandsKeepType, UtterancesKeepType, RequestsKeepType DEF VoiceNext
    <2>3. SettingInv'
      BY SettingKept
    <2> QED
      BY <2>2, <2>3
  <1>3. Inv => LatestSettingWins
    <2> SUFFICES ASSUME SettingInv, \A t \in Threads : program[t] = << >>, ~overlapped
                 PROVE  base = Pitch(chosen)
      BY DEF LatestSettingWins
    <2>1. ~IsSetting("main")
      BY DEF IsSetting, Threads
    <2> QED
      BY <2>1 DEF SettingInv, SettingInForce
  <1> QED
    BY <1>1, <1>2, <1>3, PTL DEF VoiceSpec

-----------------------------------------------------------------------------
(* The voice of an utterance.                                              *)

IsVoice(c) == c.op = "setVoice"
Remembers(c) == c.op \in {"note", "adopt"}

\* Before command k of a program that starts in voice v, the voice is w.
InForce(s, k, v, w) ==
  \/ \E j \in 1 .. k - 1 :
       IsVoice(s[j]) /\ s[j].voice = w /\ \A i \in j + 1 .. k - 1 : ~IsVoice(s[i])
  \/ v = w /\ \A i \in 1 .. k - 1 : ~IsVoice(s[i])

\* A program that starts in voice v speaks each of its texts in the text's voice, ...
SpokenRight(s, v) ==
  \A k \in DOMAIN s : s[k].op = "text" => InForce(s, k, v, s[k].voice)

\* ... and ends in voice w, unless that is not known.
EndsIn(s, v, w) == w = NoVoice \/ InForce(s, Len(s) + 1, v, w)

\* The voice with which a program goes on behind its first command.
VoiceThen(c, v) == IF IsVoice(c) THEN c.voice ELSE v

\* Behind its first command a program has the same voices in force.
LEMMA ForceTail ==
  ASSUME NEW s \in Seq(Commands), s # << >>, NEW v, NEW w,
         NEW k \in 2 .. Len(s) + 1, InForce(s, k, v, w)
  PROVE  InForce(Tail(s), k - 1, VoiceThen(s[1], v), w)
  <1> DEFINE t == Tail(s)
             u == VoiceThen(s[1], v)
  <1>1. Len(s) \in Nat /\ \A i \in 1 .. Len(s) - 1 : t[i] = s[i + 1]
    OBVIOUS
  <1> HIDE DEF t, u
  <1>2. ASSUME v = w, \A i \in 1 .. k - 1 : ~IsVoice(s[i])
        PROVE  InForce(t, k - 1, u, w)
    <2>1. u = v
      BY <1>2 DEF u, VoiceThen
    <2>2. \A i \in 1 .. (k - 1) - 1 : ~IsVoice(t[i])
      BY <1>1, <1>2
    <2> QED
      BY <1>2, <2>1, <2>2 DEF InForce
  <1>3. ASSUME NEW j \in 1 .. k - 1, IsVoice(s[j]), s[j].voice = w,
               \A i \in j + 1 .. k - 1 : ~IsVoice(s[i])
        PROVE  InForce(t, k - 1, u, w)
    <2>1. CASE j = 1
      <3>1. u = w
        BY <1>3, <2>1 DEF u, VoiceThen
      <3>2. \A i \in 1 .. (k - 1) - 1 : ~IsVoice(t[i])
        BY <1>1, <1>3, <2>1
      <3> QED
        BY <3>1, <3>2 DEF InForce
    <2>2. CASE j # 1
      <3>1. j - 1 \in 1 .. (k - 1) - 1 /\ t[j - 1] = s[j]
        BY <1>1, <2>2
      <3>2. \A i \in (j - 1) + 1 .. (k - 1) - 1 : ~IsVoice(t[i])
        BY <1>1, <1>3, <2>2
      <3> QED
        BY <1>3, <3>1, <3>2 DEF InForce
    <2> QED
      BY <2>1, <2>2
  <1> QED
    BY <1>2, <1>3 DEF InForce, t, u

LEMMA TellsTail ==
  ASSUME NEW s \in Seq(Commands), s # << >>, NEW v, NEW w
  PROVE  /\ SpokenRight(s, v) => SpokenRight(Tail(s), VoiceThen(s[1], v))
         /\ EndsIn(s, v, w) => EndsIn(Tail(s), VoiceThen(s[1], v), w)
  <1>1. /\ Len(s) \in Nat /\ Len(Tail(s)) = Len(s) - 1 /\ Len(s) + 1 \in 2 .. Len(s) + 1
        /\ \A k \in DOMAIN Tail(s) :
             /\ k + 1 \in DOMAIN s /\ k + 1 \in 2 .. Len(s) + 1 /\ (k + 1) - 1 = k
             /\ Tail(s)[k] = s[k + 1]
    OBVIOUS
  <1>2. ASSUME SpokenRight(s, v), NEW k \in DOMAIN Tail(s), Tail(s)[k].op = "text"
        PROVE  InForce(Tail(s), k, VoiceThen(s[1], v), Tail(s)[k].voice)
    <2>1. InForce(s, k + 1, v, s[k + 1].voice)
      BY <1>1, <1>2 DEF SpokenRight
    <2>2. InForce(Tail(s), (k + 1) - 1, VoiceThen(s[1], v), s[k + 1].voice)
      BY <1>1, <2>1, ForceTail
    <2> QED
      BY <1>1, <2>2
  <1>3. ASSUME InForce(s, Len(s) + 1, v, w)
        PROVE  InForce(Tail(s), Len(Tail(s)) + 1, VoiceThen(s[1], v), w)
    <2>1. InForce(Tail(s), (Len(s) + 1) - 1, VoiceThen(s[1], v), w)
      BY <1>1, <1>3, ForceTail
    <2>2. (Len(s) + 1) - 1 = Len(Tail(s)) + 1
      BY <1>1
    <2> QED
      BY <2>1, <2>2
  <1> QED
    BY <1>2, <1>3 DEF SpokenRight, EndsIn

\* What holds of an unknown voice holds of any.
LEMMA TellsAnyhow ==
  ASSUME NEW s \in Seq(Commands), NEW u, NEW v, u \in {NoVoice, v},
         NEW w \in Voices \union {NoVoice}
  PROVE  /\ SpokenRight(s, u) => SpokenRight(s, v)
         /\ EndsIn(s, u, w) => EndsIn(s, v, w)
  <1>1. ASSUME NEW k, NEW x \in Voices, InForce(s, k, u, x)
        PROVE  InForce(s, k, v, x)
    BY <1>1, VoiceAssumption DEF InForce
  <1>2. \A k \in DOMAIN s : s[k].voice \in Voices
    <2>1. \A k \in DOMAIN s : s[k] \in Commands
      OBVIOUS
    <2> QED
      BY <2>1 DEF Commands
  <1> QED
    BY <1>1, <1>2 DEF SpokenRight, EndsIn

\* So does the voice it ends in.
LEMMA EndsAnyhow ==
  ASSUME NEW s \in Seq(Commands), NEW v, NEW w \in Voices \union {NoVoice},
         EndsIn(s, NoVoice, w)
  PROVE  EndsIn(s, v, w)
  BY TellsAnyhow

\* A program that begins with a voice does not depend on the one before it.
LEMMA VoiceFirst ==
  ASSUME NEW s \in Seq(Commands), s # << >>, IsVoice(s[1]), NEW u, NEW v, NEW w
  PROVE  /\ SpokenRight(s, u) => SpokenRight(s, v)
         /\ EndsIn(s, u, w) => EndsIn(s, v, w)
  <1>1. ASSUME NEW k \in 2 .. Len(s) + 1, NEW x, InForce(s, k, u, x)
        PROVE  InForce(s, k, v, x)
    <2>1. 1 \in 1 .. k - 1
      OBVIOUS
    <2> QED
      BY <1>1, <2>1 DEF InForce
  <1>2. Len(s) + 1 \in 2 .. Len(s) + 1 /\ \A k \in DOMAIN s : k = 1 \/ k \in 2 .. Len(s) + 1
    OBVIOUS
  <1>3. s[1].op # "text"
    BY DEF IsVoice
  <1> QED
    BY <1>1, <1>2, <1>3 DEF SpokenRight, EndsIn

\* An empty program leaves the voice it finds.
LEMMA NothingTells ==
  ASSUME NEW v, NEW w
  PROVE  SpokenRight(<< >>, v) /\ (EndsIn(<< >>, v, w) <=> w \in {NoVoice, v})
  BY DEF SpokenRight, EndsIn, InForce

\* A reset, a voice where it is needed, and what follows.
LEMMA TellsBehind ==
  ASSUME NEW c \in Commands, NEW s \in Seq(Commands), c.op # "text", NEW v,
         NEW w, SpokenRight(s, VoiceThen(c, v)), EndsIn(s, VoiceThen(c, v), w)
  PROVE  SpokenRight(<< c >> \o s, v) /\ EndsIn(<< c >> \o s, v, w)
  <1> DEFINE t == << c >> \o s
             u == VoiceThen(c, v)
  <1>1. /\ t \in Seq(Commands) /\ Len(s) \in Nat /\ Len(t) = Len(s) + 1 /\ t[1] = c
        /\ \A m \in 1 .. Len(s) : t[m + 1] = s[m]
        /\ \A k \in DOMAIN t : k = 1 \/ (k - 1 \in DOMAIN s /\ k \in 2 .. Len(t) + 1)
        /\ Len(t) + 1 \in 2 .. Len(t) + 1
    OBVIOUS
  <1> HIDE DEF t, u
  <1>2. ASSUME NEW k \in 2 .. Len(t) + 1, NEW x, InForce(s, k - 1, u, x)
        PROVE  InForce(t, k, v, x)
    <2>1. CASE u = x /\ \A i \in 1 .. (k - 1) - 1 : ~IsVoice(s[i])
      <3>1. \A i \in 2 .. k - 1 : i - 1 \in 1 .. (k - 1) - 1 /\ t[i] = s[i - 1]
        <4> SUFFICES ASSUME NEW i \in 2 .. k - 1
                     PROVE  i - 1 \in 1 .. (k - 1) - 1 /\ t[i] = s[i - 1]
          OBVIOUS
        <4>1. i - 1 \in 1 .. (k - 1) - 1 /\ i - 1 \in 1 .. Len(s) /\ (i - 1) + 1 = i
          BY <1>1
        <4>2. t[(i - 1) + 1] = s[i - 1]
          BY <1>1, <4>1
        <4> QED
          BY <4>1, <4>2
      <3>2. \A i \in 2 .. k - 1 : ~IsVoice(t[i])
        BY <2>1, <3>1
      <3>3. CASE IsVoice(c)
        <4>1. 1 \in 1 .. k - 1 /\ IsVoice(t[1]) /\ t[1].voice = x
          BY <1>1, <2>1, <3>3 DEF u, VoiceThen
        <4>2. \A i \in 1 + 1 .. k - 1 : ~IsVoice(t[i])
          BY <3>2
        <4> QED
          BY <4>1, <4>2 DEF InForce
      <3>4. CASE ~IsVoice(c)
        <4>1. v = x
          BY <2>1, <3>4 DEF u, VoiceThen
        <4>2. \A i \in 1 .. k - 1 : ~IsVoice(t[i])
          BY <1>1, <3>2, <3>4
        <4> QED
          BY <4>1, <4>2 DEF InForce
      <3> QED
        BY <3>3, <3>4
    <2>2. ASSUME NEW j \in 1 .. (k - 1) - 1, IsVoice(s[j]), s[j].voice = x,
                 \A i \in j + 1 .. (k - 1) - 1 : ~IsVoice(s[i])
          PROVE  InForce(t, k, v, x)
      <3>1. j + 1 \in 1 .. k - 1 /\ t[j + 1] = s[j]
        BY <1>1
      <3>2. \A i \in (j + 1) + 1 .. k - 1 :
              i - 1 \in j + 1 .. (k - 1) - 1 /\ t[i] = s[i - 1]
        BY <1>1
      <3>3. \A i \in (j + 1) + 1 .. k - 1 : ~IsVoice(t[i])
        BY <2>2, <3>2
      <3> QED
        BY <2>2, <3>1, <3>3 DEF InForce
    <2> QED
      BY <1>2, <2>1, <2>2 DEF InForce
  <1>3. SpokenRight(t, v)
    <2> SUFFICES ASSUME NEW k \in DOMAIN t, t[k].op = "text"
                 PROVE  InForce(t, k, v, t[k].voice)
      BY DEF SpokenRight
    <2>1. k - 1 \in DOMAIN s /\ k \in 2 .. Len(t) + 1 /\ t[k] = s[k - 1]
      BY <1>1
    <2>2. InForce(s, k - 1, u, s[k - 1].voice)
      BY <2>1 DEF SpokenRight, u
    <2> QED
      BY <1>2, <2>1, <2>2
  <1>4. EndsIn(t, v, w)
    <2>1. w = NoVoice \/ InForce(s, (Len(t) + 1) - 1, u, w)
      BY <1>1 DEF EndsIn, u
    <2> QED
      BY <1>1, <1>2, <2>1 DEF EndsIn
  <1> QED
    BY <1>3, <1>4 DEF t

\* What a speech sequence expects, and the voice it leaves.
LEMMA SpeechTells ==
  ASSUME VoiceTypeInv
  PROVE  /\ SpokenRight(Plain, defaultVoice) /\ EndsIn(Plain, defaultVoice, defaultVoice)
         /\ SpokenRight(Capital, defaultVoice) /\ EndsIn(Capital, defaultVoice, defaultVoice)
         /\ \A v \in Voices :
              SpokenRight(Foreign(v), defaultVoice) /\ EndsIn(Foreign(v), defaultVoice, v)
  <1> USE DEF SpokenRight, EndsIn, InForce, IsVoice, Text, Prosody, SetVoice, Command
  <1>1. SpokenRight(Plain, defaultVoice) /\ EndsIn(Plain, defaultVoice, defaultVoice)
    BY DEF Plain
  <1>2. SpokenRight(Capital, defaultVoice)
    BY DEF Capital
  <1>3. EndsIn(Capital, defaultVoice, defaultVoice)
    BY DEF Capital
  <1>4. ASSUME NEW v \in Voices
        PROVE  SpokenRight(Foreign(v), defaultVoice) /\ EndsIn(Foreign(v), defaultVoice, v)
    <2> DEFINE s == Foreign(v)
    <2>1. /\ Len(s) = 2 /\ DOMAIN s = 1 .. 2 /\ s[1].op = "setVoice" /\ s[1].voice = v
          /\ s[2].op = "text" /\ s[2].voice = v
      BY DEF Foreign
    <2> HIDE DEF s
    <2>2. InForce(s, 2, defaultVoice, v)
      BY <2>1
    <2>3. InForce(s, 3, defaultVoice, v)
      BY <2>1
    <2>4. SpokenRight(s, defaultVoice)
      BY <2>1, <2>2
    <2>5. EndsIn(s, defaultVoice, v)
      BY <2>1, <2>3
    <2> QED
      BY <2>4, <2>5 DEF s
  <1> QED
    BY <1>1, <1>2, <1>3, <1>4

\* An utterance sets the default voice unless that is the one remembered.
LEMMA UtteranceTells ==
  ASSUME VoiceTypeInv, NEW speech \in Seq(Commands), NEW w,
         SpokenRight(speech, defaultVoice), EndsIn(speech, defaultVoice, w)
  PROVE  /\ SpokenRight(Resets \o ToDefault \o speech, lastVoice)
         /\ EndsIn(Resets \o ToDefault \o speech, lastVoice, w)
  <1>1. defaultVoice \in Voices
    BY DEF VoiceTypeInv, VoiceTypeOK
  <1>2. SpokenRight(ToDefault \o speech, lastVoice) /\ EndsIn(ToDefault \o speech, lastVoice, w)
    <2>1. CASE lastVoice = defaultVoice
      <3>1. ToDefault \o speech = speech
        BY <2>1 DEF ToDefault
      <3> QED
        BY <2>1, <3>1
    <2>2. CASE lastVoice # defaultVoice
      <3>1. /\ SetVoice(defaultVoice) \in Commands /\ SetVoice(defaultVoice).op # "text"
            /\ VoiceThen(SetVoice(defaultVoice), lastVoice) = defaultVoice
        BY <1>1, CommandTypes DEF SetVoice, Command, VoiceThen, IsVoice
      <3>2. ToDefault = << SetVoice(defaultVoice) >>
        BY <2>2 DEF ToDefault
      <3> QED
        BY <3>1, <3>2, TellsBehind
    <2> QED
      BY <2>1, <2>2
  <1>3. /\ Prosody(FALSE) \in Commands /\ Prosody(FALSE).op # "text"
        /\ VoiceThen(Prosody(FALSE), lastVoice) = lastVoice
    BY CommandTypes DEF Prosody, Command, VoiceThen, IsVoice
  <1>4. ToDefault \o speech \in Seq(Commands)
    BY ProgramTypes, ConcatType
  <1>5. /\ SpokenRight(Resets \o (ToDefault \o speech), lastVoice)
        /\ EndsIn(Resets \o (ToDefault \o speech), lastVoice, w)
    BY <1>2, <1>3, <1>4, TellsBehind DEF Resets
  <1>6. Resets \o (ToDefault \o speech) = (Resets \o ToDefault) \o speech
    <2>1. Resets \in Seq(Commands) /\ ToDefault \in Seq(Commands)
      BY ProgramTypes
    <2> QED
      BY <2>1, ConcatAssociative
  <1> QED
    BY <1>5, <1>6
\* So does one without a set_voice.
LEMMA NothingTold ==
  ASSUME NEW s \in Seq(Commands), \A k \in DOMAIN s : ~IsVoice(s[k]), NEW v, NEW w
  PROVE  EndsIn(s, v, w) <=> w \in {NoVoice, v}
  <1>1. \A j \in 1 .. (Len(s) + 1) - 1 : ~IsVoice(s[j])
    OBVIOUS
  <1> QED
    BY <1>1 DEF EndsIn, InForce

\* The set_voice that a thread is in has been sent to ECI.
VoiceSent(t) == InSetVoice(t) /\ phase[t] > 1 => engineVoice = Head(program[t]).voice

\* What the worker has still to say is right in ECI's present voice, and ends in w; it
\* drops what was cancelled, at an unknown point.
WorkerTold(w) ==
  IF program["worker"] # << >> /\ IsCancelled("worker") THEN w = NoVoice
  ELSE /\ SpokenRight(program["worker"], engineVoice)
       /\ EndsIn(program["worker"], engineVoice, w)
       /\ VoiceSent("worker")

\* f[k] is the voice behind k utterances of the queue, and the last one is known.
QueueTold(f) ==
  /\ f[Len(queue)] = lastVoice
  /\ \A k \in 1 .. Len(queue) :
       IF queue[k].seq < sequence THEN f[k] = NoVoice
       ELSE SpokenRight(queue[k].program, f[k - 1]) /\ EndsIn(queue[k].program, f[k - 1], f[k])

SpeechTold ==
  \E f \in [0 .. Len(queue) -> Voices \union {NoVoice}] : WorkerTold(f[0]) /\ QueueTold(f)

\* The main thread changes neither ECI's voice nor the one that is remembered.
Silent ==
  \A k \in DOMAIN program["main"] :
    ~IsVoice(program["main"][k]) /\ ~Remembers(program["main"][k])

\* The main thread, which has the host for itself, ends in the voice it will note, or
\* else in the one that is remembered.
MainTold ==
  /\ ~IsBusy /\ VoiceSent("main")
  /\ \E w \in Voices \union {NoVoice} :
       /\ EndsIn(program["main"], engineVoice, w)
       /\ \A k \in DOMAIN program["main"] :
            Remembers(program["main"][k]) => k = Len(program["main"]) /\ program["main"][k].voice = w
       /\ (\A k \in DOMAIN program["main"] : ~Remembers(program["main"][k])) => w = lastVoice

\* What the driver remembers is true of what it has queued, until it is overtaken.
VoiceInv == ~overtaken => IF Silent THEN SpeechTold ELSE MainTold

\* With nothing to be said, the voice remembered is ECI's, or unknown.
LEMMA RestKnown ==
  ASSUME VoiceTypeInv, ~IsBusy, SpeechTold
  PROVE  lastVoice \in {NoVoice, engineVoice}
  <1>1. Len(queue) = 0 /\ program["worker"] = << >>
    BY DEF IsBusy
  <1>2. PICK f \in [0 .. 0 -> Voices \union {NoVoice}] : WorkerTold(f[0]) /\ QueueTold(f)
    BY <1>1 DEF SpeechTold
  <1>3. f[0] = lastVoice /\ EndsIn(<< >>, engineVoice, f[0])
    BY <1>1, <1>2 DEF WorkerTold, QueueTold
  <1> QED
    BY <1>3, NothingTells

\* ... and that is all there is to know.
LEMMA RestTold ==
  ASSUME VoiceTypeInv', ~IsBusy', lastVoice' \in {NoVoice, engineVoice'}
  PROVE  SpeechTold'
  <1>1. queue' = << >> /\ Len(queue') = 0 /\ program'["worker"] = << >>
    BY DEF IsBusy
  <1>2. lastVoice' \in Voices \union {NoVoice}
    BY DEF VoiceTypeInv, VoiceTypeOK
  <1>3. PICK f \in [0 .. 0 -> Voices \union {NoVoice}] : f[0] = lastVoice'
    <2>1. ASSUME NEW v \in Voices \union {NoVoice}
          PROVE  \E f \in [0 .. 0 -> Voices \union {NoVoice}] : f[0] = v
      <3>1. /\ [k \in 0 .. 0 |-> v] \in [0 .. 0 -> Voices \union {NoVoice}]
            /\ [k \in 0 .. 0 |-> v][0] = v
        OBVIOUS
      <3> QED
        BY <3>1
    <2> QED
      BY <1>2, <2>1
  <1>4. WorkerTold(f[0])'
    <2>1. SpokenRight(<< >>, engineVoice') /\ EndsIn(<< >>, engineVoice', f[0])
      BY <1>3, NothingTells
    <2>2. VoiceSent("worker")'
      BY <1>1 DEF VoiceSent, InSetVoice
    <2> QED
      BY <1>1, <2>1, <2>2 DEF WorkerTold
  <1>5. QueueTold(f)'
    BY <1>1, <1>3 DEF QueueTold
  <1> QED
    BY <1>1, <1>3, <1>4, <1>5 DEF SpeechTold

\* What leaves the worker, the queue and the voice alone.
LEMMA SpeechUnmoved ==
  ASSUME SpeechTold,
         UNCHANGED << queue, lastVoice, sequence, workerSeq, engineVoice >>,
         program'["worker"] = program["worker"], phase'["worker"] = phase["worker"]
  PROVE  SpeechTold'
  <1>1. PICK f \in [0 .. Len(queue) -> Voices \union {NoVoice}] : WorkerTold(f[0]) /\ QueueTold(f)
    BY DEF SpeechTold
  <1>2. WorkerTold(f[0])' /\ QueueTold(f)'
    BY <1>1 DEF WorkerTold, QueueTold, VoiceSent, InSetVoice, IsCancelled
  <1> QED
    BY <1>1, <1>2 DEF SpeechTold

\* The voice a command leaves behind is ECI's when it is finished.
LEMMA VoiceKept ==
  ASSUME VoiceTypeInv, NEW t \in Threads, VoiceSent(t),
         RunsCommand(t) \/ (t = "worker" /\ SendsText) \/ (t = "main" /\ NotesVoice)
  PROVE  /\ VoiceSent(t)'
         /\ Finishes(t) => engineVoice' = engineVoice /\ VoiceThen(program[t][1], engineVoice) = engineVoice
         /\ Continues(t) => engineVoice' = engineVoice \/ IsVoice(program[t][1])
         /\ UNCHANGED << queue, sequence, workerSeq, overtaken >>
         /\ ~(t = "main" /\ NotesVoice) => lastVoice' = lastVoice
  <1> DEFINE m == program[t]
  <1>1. /\ m # << >> /\ m \in Seq(Commands) /\ Head(m) = m[1]
        /\ \/ Finishes(t) /\ program'[t] = Tail(m) /\ phase'[t] = 0
           \/ Continues(t) /\ program'[t] = m
    <2>1. PICK u \in Threads : u # t
      BY DEF Threads
    <2>2. /\ m # << >> /\ m \in Seq(Commands)
          /\ \/ Finishes(t) /\ program'[t] = Tail(m) /\ phase'[t] = 0
             \/ Continues(t) /\ program'[t] = m
      BY <2>1, OtherThread
    <2> QED
      BY <2>2, HeadAndTail
  <1>2. Continues(t) => phase'[t] = phase[t] + 1 /\ phase[t] \in 0 .. 3
    BY DEF Continues, VoiceTypeInv, VoiceTypeOK
  <1>3. UNCHANGED << queue, sequence, workerSeq, overtaken >>
    BY DEF RunsCommand, ReadsBase, SendsProsody, SendsVoice, RestoresBase, PushesBase,
           SendsSetting, TakesAnswer, SendsText, NotesVoice, driverVars
  <1>4. ~(t = "main" /\ NotesVoice) => lastVoice' = lastVoice
    BY DEF RunsCommand, ReadsBase, SendsProsody, SendsVoice, RestoresBase, PushesBase,
           SendsSetting, TakesAnswer, SendsText, driverVars
  <1>5. CASE Finishes(t)
    <2>1. phase'[t] = 0 /\ program'[t] = Tail(m)
      BY <1>5 DEF Finishes, VoiceTypeInv, VoiceTypeOK
    <2>2. VoiceSent(t)'
      BY <2>1 DEF VoiceSent
    <2>3. ~Continues(t)
      BY <1>2, <2>1
    <2>4. engineVoice' = engineVoice /\ (Head(m).op = "setVoice" => phase[t] = 3)
      BY <2>3
         DEF RunsCommand, ReadsBase, SendsProsody, SendsVoice, RestoresBase, PushesBase,
             SendsSetting, TakesAnswer, SendsText, NotesVoice, Starts, At
    <2>5. VoiceThen(m[1], engineVoice) = engineVoice
      BY <1>1, <2>4 DEF VoiceThen, IsVoice, VoiceSent, InSetVoice
    <2> QED
      BY <1>3, <1>4, <2>2, <2>3, <2>4, <2>5
  <1>6. CASE Continues(t) /\ ~Finishes(t)
    <2>1. phase'[t] = phase[t] + 1 /\ phase[t] \in 0 .. 3 /\ program'[t] = m
      BY <1>2, <1>6 DEF Continues
    <2>2. CASE SendsVoice(t)
      BY <1>1, <1>3, <1>4, <1>6, <2>1, <2>2 DEF SendsVoice, At, IsVoice, VoiceSent
    <2>3. CASE ~SendsVoice(t)
      <3>1. engineVoice' = engineVoice
        BY <2>3
           DEF RunsCommand, ReadsBase, SendsProsody, RestoresBase, PushesBase,
               SendsSetting, TakesAnswer, SendsText, NotesVoice
      <3>2. Head(m).op = "setVoice" => phase[t] # 1
        BY <1>6, <2>3
           DEF RunsCommand, ReadsBase, SendsProsody, RestoresBase, PushesBase,
               SendsSetting, TakesAnswer, SendsText, NotesVoice, Starts, At
      <3>3. VoiceSent(t)'
        BY <2>1, <3>1, <3>2 DEF VoiceSent, InSetVoice
      <3> QED
        BY <1>3, <1>4, <1>6, <3>1, <3>3
    <2> QED
      BY <2>2, <2>3
  <1> QED
    BY <1>1, <1>5, <1>6

\* A step of a program leaves it as right as it was.
LEMMA RunKeepsTold ==
  ASSUME VoiceTypeInv, NEW t \in Threads, VoiceSent(t), NEW w,
         RunsCommand(t) \/ (t = "worker" /\ SendsText) \/ (t = "main" /\ NotesVoice)
  PROVE  /\ SpokenRight(program[t], engineVoice) => SpokenRight(program'[t], engineVoice')
         /\ EndsIn(program[t], engineVoice, w) => EndsIn(program'[t], engineVoice', w)
  <1>1. /\ program[t] # << >> /\ program[t] \in Seq(Commands)
        /\ \/ Finishes(t) /\ program'[t] = Tail(program[t])
           \/ Continues(t) /\ program'[t] = program[t]
    <2>1. PICK u \in Threads : u # t
      BY DEF Threads
    <2> QED
      BY <2>1, OtherThread
  <1>2. CASE Finishes(t) /\ program'[t] = Tail(program[t])
    BY <1>1, <1>2, VoiceKept, TellsTail
  <1>3. CASE Continues(t) /\ program'[t] = program[t]
    BY <1>1, <1>3, VoiceKept, VoiceFirst
  <1> QED
    BY <1>1, <1>2, <1>3

\* The worker's commands.
LEMMA WorkerKeepsTold ==
  ASSUME VoiceTypeInv, SpeechTold, RunsCommand("worker") \/ SendsText
  PROVE  SpeechTold'
  <1>1. "worker" \in Threads /\ "main" \in Threads /\ "main" # "worker"
    BY DEF Threads
  <1>2. PICK f \in [0 .. Len(queue) -> Voices \union {NoVoice}] : WorkerTold(f[0]) /\ QueueTold(f)
    BY DEF SpeechTold
  <1>3. program["worker"] # << >>
    BY <1>1, OtherThread
  <1>4. UNCHANGED << queue, lastVoice, sequence, workerSeq >>
    BY <1>1 DEF RunsCommand, ReadsBase, SendsProsody, SendsVoice, RestoresBase, PushesBase,
           SendsSetting, TakesAnswer, SendsText, driverVars
  <1>5. IsCancelled("worker")' = IsCancelled("worker")
    BY <1>4 DEF IsCancelled
  <1>6. WorkerTold(f[0])'
    <2>1. CASE IsCancelled("worker")
      <3>1. f[0] = NoVoice
        BY <1>2, <1>3, <2>1 DEF WorkerTold
      <3>2. CASE program'["worker"] = << >>
        <4>1. VoiceSent("worker")'
          BY <3>2 DEF VoiceSent, InSetVoice
        <4> QED
          BY <3>1, <3>2, <4>1, NothingTells DEF WorkerTold
      <3> QED
        BY <1>5, <2>1, <3>1, <3>2 DEF WorkerTold
    <2>2. CASE ~IsCancelled("worker")
      <3>1. /\ SpokenRight(program["worker"], engineVoice)
            /\ EndsIn(program["worker"], engineVoice, f[0]) /\ VoiceSent("worker")
        BY <1>2, <2>2 DEF WorkerTold
      <3>2. VoiceSent("worker")'
        BY <1>1, <3>1, VoiceKept
      <3>3. SpokenRight(program'["worker"], engineVoice') /\ EndsIn(program'["worker"], engineVoice', f[0])
        BY <1>1, <3>1, RunKeepsTold
      <3> QED
        BY <1>5, <2>2, <3>2, <3>3 DEF WorkerTold
    <2> QED
      BY <2>1, <2>2
  <1>7. QueueTold(f)'
    BY <1>2, <1>4 DEF QueueTold
  <1> QED
    BY <1>2, <1>4, <1>6, <1>7 DEF SpeechTold

\* A voice and what is noted, of what remains of the main thread's program.
LEMMA NotedTail ==
  ASSUME NEW s \in Seq(Commands), s # << >>, NEW w
  PROVE  /\ (\A k \in DOMAIN s : Remembers(s[k]) => k = Len(s) /\ s[k].voice = w)
            => (\A k \in DOMAIN Tail(s) :
                  Remembers(Tail(s)[k]) => k = Len(Tail(s)) /\ Tail(s)[k].voice = w)
         /\ (\A k \in DOMAIN Tail(s) : ~Remembers(Tail(s)[k])) /\ ~Remembers(s[1])
            => (\A k \in DOMAIN s : ~Remembers(s[k]))
         /\ (\A k \in DOMAIN s : ~Remembers(s[k])) => (\A k \in DOMAIN Tail(s) : ~Remembers(Tail(s)[k]))
         /\ (\A k \in DOMAIN s : ~IsVoice(s[k])) => (\A k \in DOMAIN Tail(s) : ~IsVoice(Tail(s)[k]))
  <1>1. \A k \in DOMAIN Tail(s) : k + 1 \in DOMAIN s /\ Tail(s)[k] = s[k + 1]
    BY HeadAndTail
  <1>2. \A k \in DOMAIN s : k = 1 \/ (k - 1 \in DOMAIN Tail(s) /\ Tail(s)[k - 1] = s[k])
    BY HeadAndTail
  <1>3. \A k \in DOMAIN Tail(s) : k + 1 = Len(s) => k = Len(Tail(s))
    OBVIOUS
  <1> QED
    BY <1>1, <1>2, <1>3

\* The main thread's commands: it has the host for itself when it changes the voice.
LEMMA MainKeepsTold ==
  ASSUME VoiceTypeInv, VoiceTypeInv', SettingInv, VoiceInv, RunsCommand("main") \/ NotesVoice
  PROVE  VoiceInv'
  <1> DEFINE m == program["main"]
  <1>1. "worker" \in Threads /\ "main" \in Threads /\ "main" # "worker"
    BY DEF Threads
  <1>2. /\ program'["worker"] = program["worker"] /\ phase'["worker"] = phase["worker"]
        /\ m # << >> /\ m \in Seq(Commands) /\ Head(m) = m[1] /\ 1 \in DOMAIN m
        /\ \/ Finishes("main") /\ m' = Tail(m)
           \/ Continues("main") /\ m' = m
    BY <1>1, OtherThread, HeadAndTail
  <1>3. /\ UNCHANGED << queue, sequence, workerSeq, overtaken >>
        /\ RunsCommand("main") => lastVoice' = lastVoice
    BY <1>1 DEF RunsCommand, ReadsBase, SendsProsody, SendsVoice, RestoresBase, PushesBase,
           SendsSetting, TakesAnswer, NotesVoice, driverVars
  <1> SUFFICES ASSUME ~overtaken PROVE (IF Silent THEN SpeechTold ELSE MainTold)'
    BY <1>3 DEF VoiceInv
  <1>4. CASE Silent
    <2>1. ~IsVoice(m[1]) /\ ~Remembers(m[1])
      BY <1>2, <1>4 DEF Silent
    <2>2. RunsCommand("main") /\ engineVoice' = engineVoice
      BY <1>2, <2>1
         DEF RunsCommand, ReadsBase, SendsProsody, SendsVoice, RestoresBase, PushesBase,
             SendsSetting, TakesAnswer, NotesVoice, Starts, At, IsVoice, Remembers
    <2>3. SpeechTold'
      BY <1>2, <1>3, <1>4, <2>2, SpeechUnmoved DEF VoiceInv
    <2>4. Silent'
      BY <1>2, <1>4, NotedTail DEF Silent
    <2> QED
      BY <2>3, <2>4
  <1>5. CASE ~Silent
    <2>1. MainTold
      BY <1>5 DEF VoiceInv
    <2>2. PICK w \in Voices \union {NoVoice} :
            /\ EndsIn(m, engineVoice, w)
            /\ \A k \in DOMAIN m : Remembers(m[k]) => k = Len(m) /\ m[k].voice = w
            /\ (\A k \in DOMAIN m : ~Remembers(m[k])) => w = lastVoice
      BY <2>1 DEF MainTold
    <2>3. ~IsBusy /\ ~IsBusy' /\ VoiceSent("main")
      BY <1>2, <1>3, <2>1 DEF MainTold, IsBusy
    <2>4. VoiceSent("main")' /\ EndsIn(m', engineVoice', w)
      BY <1>1, <2>2, <2>3, VoiceKept, RunKeepsTold
    <2>5. \A k \in DOMAIN m' : Remembers(m'[k]) => k = Len(m') /\ m'[k].voice = w
      <3>1. CASE m' = m
        BY <2>2, <3>1
      <3>2. CASE m' = Tail(m)
        BY <1>2, <2>2, <3>2, NotedTail
      <3> QED
        BY <1>2, <3>1, <3>2
    <2>6. ASSUME \A k \in DOMAIN m' : ~Remembers(m'[k])
          PROVE  w = lastVoice'
      <3>1. CASE NotesVoice
        <4>1. Remembers(m[1]) /\ lastVoice' = m[1].voice
          BY <1>2, <3>1 DEF NotesVoice, Starts, At, Remembers
        <4> QED
          BY <1>2, <2>2, <4>1
      <3>2. CASE RunsCommand("main")
        <4>1. ~Remembers(m[1])
          BY <1>2, <3>2
             DEF RunsCommand, ReadsBase, SendsProsody, SendsVoice, RestoresBase, PushesBase,
                 SendsSetting, TakesAnswer, Starts, At, Remembers
        <4>2. \A k \in DOMAIN m : ~Remembers(m[k])
          BY <1>2, <2>6, <4>1, NotedTail
        <4> QED
          BY <1>3, <2>2, <3>2, <4>2
      <3> QED
        BY <3>1, <3>2
    <2>7. CASE Silent'
      <3>1. /\ \A k \in DOMAIN m' : ~IsVoice(m'[k])
            /\ \A k \in DOMAIN m' : ~Remembers(m'[k])
            /\ m' \in Seq(Commands)
        BY <1>1, <2>7 DEF Silent, VoiceTypeInv, VoiceTypeOK
      <3>2. lastVoice' \in {NoVoice, engineVoice'}
        BY <2>4, <2>6, <3>1, NothingTold
      <3> QED
        BY <2>3, <2>7, <3>2, RestTold
    <2>8. CASE ~Silent'
      <3>1. MainTold'
        BY <2>2, <2>3, <2>4, <2>5, <2>6 DEF MainTold
      <3> QED
        BY <2>8, <3>1
    <2> QED
      BY <2>7, <2>8
  <1> QED
    BY <1>4, <1>5

\* The voices behind the utterances when the first is taken.
LEMMA VoicesShifted ==
  ASSUME NEW S, NEW n \in Nat, NEW f \in [0 .. n + 1 -> S]
  PROVE  \E g \in [0 .. n -> S] : \A k \in 0 .. n : g[k] = f[k + 1]
  <1> DEFINE g == [k \in 0 .. n |-> f[k + 1]]
  <1>1. g \in [0 .. n -> S] /\ \A k \in 0 .. n : g[k] = f[k + 1]
    OBVIOUS
  <1> QED
    BY <1>1

\* The worker's choice of an utterance.
LEMMA UtterancesKeepTold ==
  ASSUME VoiceTypeInv, VoiceTypeInv', SettingInv, VoiceInv, TakesUtterance \/ LeavesUtterance
  PROVE  VoiceInv'
  <1>1. /\ IsBusy /\ program'["main"] = program["main"]
        /\ UNCHANGED << overtaken, phase, engineVoice, lastVoice, sequence >>
    BY DEF TakesUtterance, LeavesUtterance, IsBusy, driverVars, VoiceTypeInv, VoiceTypeOK, Threads
  <1>2. Silent' = Silent
    BY <1>1 DEF Silent
  <1> SUFFICES ASSUME Silent, SpeechTold PROVE SpeechTold'
    BY <1>1, <1>2 DEF VoiceInv, MainTold
  <1>3. PICK f \in [0 .. Len(queue) -> Voices \union {NoVoice}] : WorkerTold(f[0]) /\ QueueTold(f)
    BY DEF SpeechTold
  <1>4. CASE LeavesUtterance
    <2>1. /\ program["worker"] # << >> /\ IsCancelled("worker") /\ program'["worker"] = << >>
          /\ queue' = queue
      BY <1>4 DEF LeavesUtterance, driverVars, VoiceTypeInv, VoiceTypeOK, Threads
    <2>2. WorkerTold(f[0])'
      <3>1. VoiceSent("worker")'
        BY <2>1 DEF VoiceSent, InSetVoice
      <3>2. f[0] = NoVoice
        BY <1>3, <2>1 DEF WorkerTold
      <3> QED
        BY <2>1, <3>1, <3>2, NothingTells DEF WorkerTold
    <2>3. QueueTold(f)'
      BY <1>1, <1>3, <2>1 DEF QueueTold
    <2> QED
      BY <1>3, <2>1, <2>2, <2>3 DEF SpeechTold
  <1>5. CASE TakesUtterance
    <2> DEFINE h == queue[1]
    <2>1. /\ program["worker"] = << >> /\ phase["worker"] = 0
          /\ queue # << >> /\ queue' = Tail(queue)
          /\ queue \in Seq([program : Seq(Commands), seq : 0 .. sequence]) /\ Head(queue) = h
          /\ h.program \in Seq(Commands)
      <3>1. queue \in Seq([program : Seq(Commands), seq : 0 .. sequence]) /\ queue # << >>
        BY <1>5 DEF TakesUtterance, VoiceTypeInv, VoiceTypeOK
      <3>2. Head(queue) = h /\ Head(queue) \in [program : Seq(Commands), seq : 0 .. sequence]
        BY <3>1, HeadAndTail
      <3>3. phase["worker"] = 0
        BY <1>5 DEF TakesUtterance, SettingInv, SettingShape, Threads
      <3> QED
        BY <1>5, <3>1, <3>2, <3>3 DEF TakesUtterance
    <2>2. /\ Len(queue) \in Nat /\ Len(queue) >= 1 /\ Len(queue') = Len(queue) - 1
          /\ \A k \in 1 .. Len(queue') : queue'[k] = queue[k + 1] /\ k + 1 \in 1 .. Len(queue)
      BY <2>1
    <2>3. PICK g \in [0 .. Len(queue') -> Voices \union {NoVoice}] :
            \A k \in 0 .. Len(queue') : g[k] = f[k + 1]
      <3>1. Len(queue') \in Nat /\ Len(queue) = Len(queue') + 1
        BY <2>2
      <3> DEFINE V == Voices \union {NoVoice}
                 n == Len(queue')
      <3>2. f \in [0 .. n + 1 -> V] /\ n \in Nat
        BY <3>1
      <3> HIDE DEF V, n
      <3>3. \E e \in [0 .. n -> V] : \A k \in 0 .. n : e[k] = f[k + 1]
        BY <3>2, VoicesShifted
      <3> QED
        BY <3>3 DEF V, n
    <2>4. f[0] \in {NoVoice, engineVoice}
      BY <1>3, <2>1, NothingTells DEF WorkerTold
    <2>5. QueueTold(g)'
      <3>1. g[Len(queue')] = lastVoice'
        BY <1>1, <1>3, <2>2, <2>3 DEF QueueTold
      <3>2. ASSUME NEW k \in 1 .. Len(queue')
            PROVE  IF queue'[k].seq < sequence' THEN g[k] = NoVoice
                   ELSE SpokenRight(queue'[k].program, g[k - 1]) /\ EndsIn(queue'[k].program, g[k - 1], g[k])
        <4>1. g[k] = f[k + 1] /\ g[k - 1] = f[(k + 1) - 1] /\ queue'[k] = queue[k + 1]
          BY <2>2, <2>3
        <4>2. k + 1 \in 1 .. Len(queue)
          BY <2>2
        <4> QED
          BY <1>1, <1>3, <4>1, <4>2 DEF QueueTold
      <3> QED
        BY <3>1, <3>2 DEF QueueTold
    <2>6. g[0] = f[1] /\ f[1] \in Voices \union {NoVoice}
          /\ IF h.seq < sequence THEN f[1] = NoVoice
             ELSE SpokenRight(h.program, f[0]) /\ EndsIn(h.program, f[0], f[1])
      <3>1. 1 \in 1 .. Len(queue) /\ 1 - 1 = 0 /\ 0 \in 0 .. Len(queue') /\ 0 + 1 = 1
            /\ 1 \in 0 .. Len(queue)
        BY <2>2
      <3>2. g[0] = f[1] /\ f[1] \in Voices \union {NoVoice}
        BY <2>3, <3>1
      <3> QED
        BY <1>3, <3>1, <3>2 DEF QueueTold
    <2>7. VoiceSent("worker")'
      BY <1>1, <2>1 DEF VoiceSent
    <2>8. WorkerTold(g[0])'
      <3>1. CASE h.seq < sequence
        <4>1. program'["worker"] = << >>
          BY <1>5, <2>1, <3>1 DEF TakesUtterance
        <4> QED
          BY <2>6, <2>7, <3>1, <4>1, NothingTells DEF WorkerTold
      <3>2. CASE ~(h.seq < sequence)
        <4>1. program'["worker"] = h.program /\ workerSeq' = h.seq
          BY <1>5, <2>1, <3>2 DEF TakesUtterance, VoiceTypeInv, VoiceTypeOK, Threads
        <4>2. ~IsCancelled("worker")'
          BY <1>1, <3>2, <4>1 DEF IsCancelled
        <4>3. SpokenRight(h.program, engineVoice) /\ EndsIn(h.program, engineVoice, g[0])
          <5>1. /\ h.program \in Seq(Commands) /\ f[0] \in {NoVoice, engineVoice}
                /\ g[0] \in Voices \union {NoVoice}
                /\ SpokenRight(h.program, f[0]) /\ EndsIn(h.program, f[0], g[0])
            BY <2>1, <2>4, <2>6, <3>2
          <5> HIDE DEF h
          <5> QED
            BY <5>1, TellsAnyhow
        <4> QED
          BY <1>1, <2>7, <4>1, <4>2, <4>3 DEF WorkerTold
      <3> QED
        BY <3>1, <3>2
    <2> QED
      BY <2>3, <2>5, <2>8 DEF SpeechTold
  <1> QED
    BY <1>4, <1>5

\* A sequence that is queued: the driver knows the voice it starts in.
LEMMA QueuedTells ==
  ASSUME VoiceTypeInv, VoiceTypeInv', SpeechTold,
         NEW speech \in Seq(Commands), NEW last \in Voices, Queues(speech, last),
         SpokenRight(speech, defaultVoice), EndsIn(speech, defaultVoice, last)
  PROVE  SpeechTold'
  <1> DEFINE V == Voices \union {NoVoice}
             n == Len(queue)
             q == [program |-> Resets \o ToDefault \o speech, seq |-> sequence]
  <1>1. PICK f \in [0 .. n -> V] : WorkerTold(f[0]) /\ QueueTold(f)
    BY DEF SpeechTold
  <1>2. /\ queue' = Append(queue, q) /\ lastVoice' = last
        /\ UNCHANGED << engineVoice, sequence, workerSeq, program, phase >>
    BY DEF Queues
  <1>3. SpokenRight(q.program, lastVoice) /\ EndsIn(q.program, lastVoice, last)
    BY UtteranceTells
  <1>4. /\ n \in Nat /\ sequence \in Nat /\ last \in V
        /\ queue \in Seq([program : Seq(Commands), seq : 0 .. sequence])
    BY DEF VoiceTypeInv, VoiceTypeOK
  <1>5. q.seq = sequence /\ f[n] = lastVoice
    BY <1>1 DEF QueueTold
  <1> HIDE DEF q, V
  <1>6. /\ Len(queue') = n + 1 /\ queue'[n + 1] = q
        /\ \A k \in 1 .. n : queue'[k] = queue[k]
    BY <1>2, <1>4
  <1> HIDE DEF n
  <1>7. PICK g \in [0 .. n + 1 -> V] : g[n + 1] = last /\ \A k \in 0 .. n : g[k] = f[k]
    <2> DEFINE e == [k \in 0 .. n + 1 |-> IF k = n + 1 THEN last ELSE f[k]]
    <2>1. e \in [0 .. n + 1 -> V]
      <3>1. \A k \in 0 .. n + 1 : k = n + 1 \/ k \in 0 .. n
        BY <1>4
      <3> QED
        BY <1>4, <3>1
    <2>2. e[n + 1] = last /\ \A k \in 0 .. n : e[k] = f[k]
      BY <1>4
    <2> QED
      BY <2>1, <2>2
  <1>8. g[0] = f[0] /\ g[n] = lastVoice
    BY <1>4, <1>5, <1>7
  <1>9. WorkerTold(g[0])'
    BY <1>1, <1>2, <1>8 DEF WorkerTold, VoiceSent, InSetVoice, IsCancelled
  <1>10. QueueTold(g)'
    <2>1. ASSUME NEW k \in 1 .. n + 1
          PROVE  IF queue'[k].seq < sequence' THEN g[k] = NoVoice
                 ELSE SpokenRight(queue'[k].program, g[k - 1]) /\ EndsIn(queue'[k].program, g[k - 1], g[k])
      <3>1. CASE k = n + 1
        <4>1. /\ queue'[k] = q /\ g[k] = last /\ g[k - 1] = lastVoice
              /\ ~(queue'[k].seq < sequence')
          BY <1>2, <1>4, <1>5, <1>6, <1>7, <1>8, <3>1
        <4> QED
          BY <1>3, <4>1
      <3>2. CASE k # n + 1
        <4>1. k \in 1 .. n /\ k \in 0 .. n /\ k - 1 \in 0 .. n
          BY <1>4, <3>2
        <4>2. queue'[k] = queue[k] /\ g[k] = f[k] /\ g[k - 1] = f[k - 1]
          BY <1>6, <1>7, <4>1
        <4>3. k \in 1 .. Len(queue)
          BY <4>1 DEF n
        <4> QED
          BY <1>1, <1>2, <4>2, <4>3 DEF QueueTold
      <3> QED
        BY <3>1, <3>2
    <2> QED
      BY <1>2, <1>6, <1>7, <2>1 DEF QueueTold
  <1> QED
    BY <1>6, <1>7, <1>9, <1>10 DEF SpeechTold, V

\* A cancellation makes everything that was queued unknown.
LEMMA CancelTells ==
  ASSUME VoiceTypeInv, VoiceTypeInv', Cancels
  PROVE  SpeechTold'
  <1>1. /\ sequence' = sequence + 1 /\ lastVoice' = NoVoice
        /\ UNCHANGED << queue, workerSeq, program >>
    BY DEF Cancels
  <1>2. /\ sequence \in Nat /\ workerSeq \in 0 .. sequence
        /\ queue \in Seq([program : Seq(Commands), seq : 0 .. sequence])
    BY DEF VoiceTypeInv, VoiceTypeOK
  <1>3. \A k \in 1 .. Len(queue) : queue[k].seq < sequence'
    <2> DEFINE Speech == [program : Seq(Commands), seq : 0 .. sequence]
    <2>1. \A item \in Speech : item.seq < sequence'
      BY <1>1, <1>2
    <2>2. queue \in Seq(Speech)
      BY <1>2
    <2> HIDE DEF Speech
    <2>3. \A k \in 1 .. Len(queue) : queue[k] \in Speech
      BY <2>2
    <2> QED
      BY <2>1, <2>3
  <1>4. IsCancelled("worker")'
    BY <1>1, <1>2 DEF IsCancelled
  <1>5. PICK f \in [0 .. Len(queue) -> Voices \union {NoVoice}] :
          \A k \in 0 .. Len(queue) : f[k] = NoVoice
    <2>1. /\ [k \in 0 .. Len(queue) |-> NoVoice] \in [0 .. Len(queue) -> Voices \union {NoVoice}]
          /\ \A k \in 0 .. Len(queue) : [j \in 0 .. Len(queue) |-> NoVoice][k] = NoVoice
      OBVIOUS
    <2> QED
      BY <2>1
  <1>6. f[0] = NoVoice /\ f[Len(queue)] = NoVoice /\ \A k \in 1 .. Len(queue) : f[k] = NoVoice
    BY <1>2, <1>5
  <1>7. WorkerTold(f[0])'
    <2>1. CASE program'["worker"] = << >>
      <3>1. VoiceSent("worker")'
        BY <2>1 DEF VoiceSent, InSetVoice
      <3> QED
        BY <1>6, <2>1, <3>1, NothingTells DEF WorkerTold
    <2>2. CASE program'["worker"] # << >>
      BY <1>4, <1>6, <2>2 DEF WorkerTold
    <2> QED
      BY <2>1, <2>2
  <1>8. QueueTold(f)'
    BY <1>1, <1>3, <1>6 DEF QueueTold
  <1> QED
    BY <1>1, <1>7, <1>8 DEF SpeechTold

\* What the main thread is given to do with the host, while nothing is being said.
LEMMA MainGiven ==
  ASSUME VoiceTypeInv', phase'["main"] = 0, ~IsBusy', NEW w \in Voices \union {NoVoice},
         EndsIn(program'["main"], engineVoice', w),
         \A k \in DOMAIN program'["main"] :
           Remembers(program'["main"][k]) => k = Len(program'["main"]) /\ program'["main"][k].voice = w,
         (\A k \in DOMAIN program'["main"] : ~Remembers(program'["main"][k])) => w = lastVoice'
  PROVE  MainTold'
  <1>1. VoiceSent("main")'
    BY DEF VoiceSent
  <1> QED
    BY <1>1 DEF MainTold

\* A sequence with one item more.
LEMMA LastBehind ==
  ASSUME NEW S, NEW s \in Seq(S), NEW c \in S
  PROVE  LET m == s \o << c >>
         IN  /\ m \in Seq(S) /\ Len(m) \in DOMAIN m /\ m[Len(m)] = c
             /\ \A k \in DOMAIN m : k = Len(m) \/ (k \in DOMAIN s /\ m[k] = s[k])
  OBVIOUS

\* Only the end of what speak() without speech does is remembered.
LEMMA NothingSaid ==
  ASSUME VoiceTypeInv, NEW m, m = Resets \o ToDefault \o << Notes(defaultVoice) >>
  PROVE  /\ m \in Seq(Commands)
         /\ Len(m) \in DOMAIN m /\ Remembers(m[Len(m)])
         /\ \A k \in DOMAIN m : Remembers(m[k]) => k = Len(m) /\ m[k].voice = defaultVoice
         /\ EndsIn(m, lastVoice, defaultVoice)
  <1> DEFINE c == Notes(defaultVoice)
             s == Resets \o ToDefault
  <1>1. /\ defaultVoice \in Voices /\ c \in Commands /\ << c >> \in Seq(Commands)
        /\ c.op = "note" /\ c.voice = defaultVoice
    BY CommandTypes, ShortPrograms DEF VoiceTypeInv, VoiceTypeOK, Notes, Command
  <1>2. s \in Seq(Commands)
    BY ProgramTypes, ConcatType
  <1>3. \A k \in DOMAIN s : ~Remembers(s[k])
    <2>1. CASE lastVoice = defaultVoice
      BY <2>1 DEF Resets, ToDefault, Prosody, Command, Remembers
    <2>2. CASE lastVoice # defaultVoice
      BY <2>2 DEF Resets, ToDefault, Prosody, SetVoice, Command, Remembers
    <2> QED
      BY <2>1, <2>2
  <1>4. SpokenRight(<< c >>, defaultVoice) /\ EndsIn(<< c >>, defaultVoice, defaultVoice)
    <2>1. Len(<< c >>) = 1 /\ DOMAIN << c >> = 1 .. 1 /\ << c >>[1] = c
      OBVIOUS
    <2> HIDE DEF c
    <2> QED
      BY <1>1, <2>1 DEF SpokenRight, EndsIn, InForce, IsVoice
  <1>5. EndsIn(m, lastVoice, defaultVoice)
    BY <1>1, <1>4, UtteranceTells
  <1> HIDE DEF c, s
  <1>6. m = s \o << c >>
    BY DEF c, s
  <1>7. /\ m \in Seq(Commands) /\ Len(m) \in DOMAIN m /\ m[Len(m)] = c
        /\ \A k \in DOMAIN m : k = Len(m) \/ (k \in DOMAIN s /\ m[k] = s[k])
    <2>1. c \in Commands
      BY <1>1
    <2> DEFINE r == s \o << c >>
    <2>2. /\ r \in Seq(Commands) /\ Len(r) \in DOMAIN r /\ r[Len(r)] = c
          /\ \A k \in DOMAIN r : k = Len(r) \/ (k \in DOMAIN s /\ r[k] = s[k])
      BY <1>2, <2>1, LastBehind
    <2>3. m = r
      BY <1>6
    <2> HIDE DEF r
    <2> QED
      BY <2>2, <2>3
  <1> QED
    BY <1>1, <1>3, <1>5, <1>7 DEF Remembers

\* NVDA's requests.
LEMMA RequestsKeepTold ==
  ASSUME VoiceTypeInv, VoiceTypeInv', SettingInv, VoiceInv,
         \/ Speaks \/ SpeaksNothing \/ Cancels \/ Halts \/ RestartsHost
         \/ \E v \in Voices : ChangesVoice(v)
         \/ \E p \in Pitches : ChangesPitch(p)
  PROVE  VoiceInv'
  <1>1. /\ program["main"] = << >> /\ phase["main"] = 0 /\ Silent
        /\ phase \in [Threads -> 0 .. 3] /\ program \in [Threads -> Seq(Commands)]
        /\ "main" \in Threads /\ "worker" \in Threads /\ "main" # "worker"
        /\ defaultVoice \in Voices /\ engineVoice \in Voices
        /\ lastVoice \in Voices \union {NoVoice}
    <2>1. program["main"] = << >>
      BY DEF Speaks, Queues, SpeaksNothing, Cancels, Halts, RestartsHost, ChangesVoice,
             ChangesPitch, Asks
    <2>2. Silent
      BY <2>1 DEF Silent
    <2> QED
      BY <2>1, <2>2 DEF SettingInv, SettingShape, Threads, VoiceTypeInv, VoiceTypeOK
  <1>2. ~overtaken => SpeechTold
    BY <1>1 DEF VoiceInv
  <1>3. ~overtaken /\ ~IsBusy => lastVoice \in {NoVoice, engineVoice}
    BY <1>2, RestKnown
  <1>4. ASSUME UNCHANGED << program, overtaken >>, SpeechTold => SpeechTold'
        PROVE  VoiceInv'
    <2>1. Silent'
      BY <1>1, <1>4 DEF Silent
    <2> QED
      BY <1>2, <1>4, <2>1 DEF VoiceInv
  <1>5. CASE Speaks
    <2>1. ASSUME NEW speech \in Seq(Commands), NEW last \in Voices, Queues(speech, last),
                 SpokenRight(speech, defaultVoice), EndsIn(speech, defaultVoice, last)
          PROVE  VoiceInv'
      <3>1. UNCHANGED << program, overtaken >>
        BY <2>1 DEF Queues
      <3>2. SpeechTold => SpeechTold'
        BY <2>1, QueuedTells
      <3> QED
        BY <1>4, <3>1, <3>2
    <2> QED
      BY <1>1, <1>5, <2>1, ProgramTypes, SpeechTells DEF Speaks
  <1>6. CASE SpeaksNothing
    <2> DEFINE m == Resets \o ToDefault \o << Notes(defaultVoice) >>
    <2> SUFFICES ASSUME ~overtaken' PROVE MainTold' /\ ~Silent'
      BY DEF VoiceInv
    <2>1. /\ program'["main"] = m /\ program'["worker"] = program["worker"]
          /\ UNCHANGED << engineVoice, lastVoice, queue, phase >>
      BY <1>1, <1>6 DEF SpeaksNothing, Runs
    <2>2. ~overtaken /\ ~IsBusy
      BY <1>6 DEF SpeaksNothing, Overtakes
    <2>3. ~IsBusy'
      BY <2>1, <2>2 DEF IsBusy
    <2>4. /\ m \in Seq(Commands)
          /\ Len(m) \in DOMAIN m /\ Remembers(m[Len(m)])
          /\ \A k \in DOMAIN m : Remembers(m[k]) => k = Len(m) /\ m[k].voice = defaultVoice
          /\ EndsIn(m, lastVoice, defaultVoice)
      BY NothingSaid
    <2> HIDE DEF m
    <2>5. EndsIn(m, engineVoice, defaultVoice)
      <3>1. /\ lastVoice \in {NoVoice, engineVoice} /\ defaultVoice \in Voices \union {NoVoice}
            /\ m \in Seq(Commands) /\ EndsIn(m, lastVoice, defaultVoice)
        BY <1>1, <1>3, <2>2, <2>4
      <3>2. CASE lastVoice = engineVoice
        BY <3>1, <3>2
      <3>3. CASE lastVoice = NoVoice
        BY <3>1, <3>3, EndsAnyhow
      <3> QED
        BY <3>1, <3>2, <3>3
    <2>6. MainTold'
      BY <1>1, <2>1, <2>3, <2>4, <2>5, MainGiven
    <2>7. ~Silent'
      BY <2>1, <2>4 DEF Silent
    <2> QED
      BY <2>6, <2>7
  <1>7. CASE Cancels
    <2>1. SpeechTold'
      BY <1>7, CancelTells
    <2>2. Silent'
      BY <1>1, <1>7 DEF Cancels, Silent
    <2> QED
      BY <2>1, <2>2 DEF VoiceInv
  <1>8. CASE Halts
    <2> SUFFICES ASSUME ~overtaken' PROVE SpeechTold' /\ Silent'
      BY DEF VoiceInv
    <2>1. UNCHANGED << program, queue, engineVoice, lastVoice >>
      BY <1>8 DEF Halts
    <2>2. ~overtaken /\ ~IsBusy
      BY <1>8 DEF Halts, Overtakes
    <2>3. ~IsBusy' /\ Silent'
      BY <1>1, <2>1, <2>2 DEF IsBusy, Silent
    <2> QED
      BY <1>3, <2>1, <2>2, <2>3, RestTold
  <1>9. ASSUME NEW v \in Voices, ChangesVoice(v)
        PROVE  VoiceInv'
    <2> DEFINE m == << SetVoice(v), Adopts(v) >>
    <2> SUFFICES ASSUME ~overtaken' PROVE MainTold' /\ ~Silent'
      BY DEF VoiceInv
    <2>1. /\ program'["main"] = m /\ program'["worker"] = program["worker"]
          /\ UNCHANGED << engineVoice, lastVoice, queue, phase >>
      BY <1>1, <1>9 DEF ChangesVoice, Runs
    <2>2. ~overtaken /\ ~IsBusy
      BY <1>9 DEF ChangesVoice, Overtakes
    <2>3. ~IsBusy'
      BY <2>1, <2>2 DEF IsBusy
    <2>4. /\ Len(m) = 2 /\ DOMAIN m = 1 .. 2 /\ IsVoice(m[1]) /\ m[1].voice = v
          /\ ~Remembers(m[1]) /\ Remembers(m[2]) /\ m[2].voice = v /\ ~IsVoice(m[2])
      BY DEF SetVoice, Adopts, Command, IsVoice, Remembers
    <2> HIDE DEF m
    <2>5. EndsIn(m, engineVoice, v)
      BY <2>4 DEF EndsIn, InForce
    <2>6. \A k \in DOMAIN m : Remembers(m[k]) => k = Len(m) /\ m[k].voice = v
      BY <2>4
    <2>7. 2 \in DOMAIN m
      BY <2>4
    <2>8. MainTold'
      BY <1>1, <2>1, <2>3, <2>4, <2>5, <2>6, <2>7, MainGiven
    <2>9. ~Silent'
      BY <2>1, <2>4, <2>7 DEF Silent
    <2> QED
      BY <2>8, <2>9
  <1>10. ASSUME NEW p \in Pitches, ChangesPitch(p)
         PROVE  VoiceInv'
    <2>1. /\ program'["main"] = << Sets(p) >> /\ program'["worker"] = program["worker"]
          /\ UNCHANGED << engineVoice, lastVoice, sequence, workerSeq, queue, phase, overtaken >>
      BY <1>1, <1>10 DEF ChangesPitch, Runs
    <2>2. Silent'
      BY <2>1 DEF Silent, Sets, Command, IsVoice, Remembers
    <2>3. SpeechTold => SpeechTold'
      BY <2>1, SpeechUnmoved
    <2> QED
      BY <1>2, <2>1, <2>2, <2>3 DEF VoiceInv
  <1>11. CASE RestartsHost
    <2> DEFINE m == Restored
    <2> SUFFICES ASSUME ~overtaken' PROVE MainTold' /\ ~Silent'
      BY DEF VoiceInv
    <2>1. /\ UNCHANGED << lastVoice, queue >>
          /\ ~overtaken /\ ~IsBusy
      BY <1>11 DEF RestartsHost, Overtakes
    <2>2. /\ program'["main"] = m /\ program'["worker"] = << >> /\ phase'["main"] = 0
      <3>1. program["worker"] = << >>
        BY <2>1 DEF IsBusy
      <3>2. PICK commands \in {program["worker"], << >>} :
              /\ program' = [main |-> Restored, worker |-> commands]
              /\ phase' = [phase EXCEPT !["worker"] = IF commands = << >> THEN 0 ELSE @]
        BY <1>11 DEF RestartsHost
      <3> QED
        BY <1>1, <3>1, <3>2
    <2>3. ~IsBusy'
      BY <2>1, <2>2 DEF IsBusy
    <2>4. /\ Len(m) = 3 /\ DOMAIN m = 1 .. 3 /\ IsVoice(m[1]) /\ m[1].voice = engineVoice
          /\ ~IsVoice(m[2]) /\ ~IsVoice(m[3])
          /\ ~Remembers(m[1]) /\ ~Remembers(m[2]) /\ ~Remembers(m[3])
      BY DEF Restored, SetVoice, Sets, Command, IsVoice, Remembers
    <2> HIDE DEF m
    <2>5. EndsIn(m, engineVoice', lastVoice)
      <3>1. InForce(m, Len(m) + 1, engineVoice', engineVoice)
        BY <2>4 DEF InForce
      <3> QED
        BY <1>3, <2>1, <3>1 DEF EndsIn
    <2>6. \A k \in DOMAIN m : ~Remembers(m[k])
      BY <2>4
    <2>7. MainTold'
      BY <1>1, <2>1, <2>2, <2>3, <2>5, <2>6, MainGiven
    <2>8. ~Silent'
      <3>1. 1 \in DOMAIN m
        BY <2>4
      <3> QED
        BY <2>2, <2>4, <3>1 DEF Silent
    <2> QED
      BY <2>7, <2>8
  <1> QED
    BY <1>5, <1>6, <1>7, <1>8, <1>9, <1>10, <1>11

\* A text is spoken in the voice it was prepared for, in every interleaving of the two
\* threads, as long as the voice was not changed, and speech not stopped, behind the
\* back of what is queued (eloquence.py:1299, 1378, 1391, 1621 and 1669: _lastEngineVoice).
THEOREM VoiceIsOwn == VoiceSpec => []OwnVoice
  <1> DEFINE Inv == VoiceTypeInv /\ SettingInv /\ VoiceInv
  <1>1. VoiceInit => VoiceInv
    <2> SUFFICES ASSUME VoiceInit PROVE Silent /\ SpeechTold
      BY DEF VoiceInv
    <2>1. /\ program["main"] = << >> /\ program["worker"] = << >> /\ queue = << >>
          /\ engineVoice = InitialVoice /\ lastVoice = InitialVoice /\ Len(queue) = 0
      BY DEF VoiceInit, Threads
    <2>2. Silent
      BY <2>1 DEF Silent
    <2>3. PICK f \in [0 .. 0 -> Voices \union {NoVoice}] : f[0] = InitialVoice
      <3>1. /\ [k \in 0 .. 0 |-> InitialVoice] \in [0 .. 0 -> Voices \union {NoVoice}]
            /\ [k \in 0 .. 0 |-> InitialVoice][0] = InitialVoice
        BY VoiceAssumption
      <3> QED
        BY <3>1
    <2>4. WorkerTold(f[0])
      BY <2>1, <2>3, NothingTells DEF WorkerTold, VoiceSent, InSetVoice
    <2>5. QueueTold(f)
      BY <2>1, <2>3 DEF QueueTold
    <2> QED
      BY <2>1, <2>2, <2>3, <2>4, <2>5 DEF SpeechTold
  <1>2. Inv /\ [VoiceNext]_voiceVars => Inv'
    <2> SUFFICES ASSUME Inv, [VoiceNext]_voiceVars PROVE Inv'
      OBVIOUS
    <2>1. "worker" \in Threads /\ "main" \in Threads /\ Threads = {"main", "worker"}
      BY DEF Threads
    <2>2. VoiceTypeInv'
      BY <2>1, CommandsKeepType, UtterancesKeepType, RequestsKeepType DEF VoiceNext
    <2>3. SettingInv'
      BY SettingKept
    <2>4. VoiceInv'
      <3>1. CASE RunsCommand("worker") \/ SendsText
        <4>1. /\ UNCHANGED << overtaken, queue >> /\ program'["main"] = program["main"]
              /\ program["worker"] # << >>
          <5>1. program'["main"] = program["main"] /\ program["worker"] # << >>
            BY <2>1, <3>1, OtherThread
          <5>2. UNCHANGED << overtaken, queue >>
            BY <3>1
               DEF RunsCommand, ReadsBase, SendsProsody, SendsVoice, RestoresBase, PushesBase,
                   SendsSetting, TakesAnswer, SendsText, driverVars
          <5> QED
            BY <5>1, <5>2
        <4>2. Silent' = Silent /\ IsBusy
          BY <4>1 DEF Silent, IsBusy
        <4>3. SpeechTold => SpeechTold'
          BY <3>1, WorkerKeepsTold
        <4> QED
          BY <4>1, <4>2, <4>3 DEF VoiceInv, MainTold
      <3>2. CASE RunsCommand("main") \/ NotesVoice
        BY <2>2, <3>2, MainKeepsTold
      <3>3. CASE TakesUtterance \/ LeavesUtterance
        BY <2>2, <3>3, UtterancesKeepTold
      <3>4. CASE AtRest \/ UNCHANGED voiceVars
        BY <3>4
           DEF AtRest, voiceVars, VoiceInv, Silent, SpeechTold, MainTold, WorkerTold, QueueTold,
               VoiceSent, InSetVoice, IsCancelled, IsBusy
      <3> QED
        BY <2>1, <2>2, <3>1, <3>2, <3>3, <3>4, RequestsKeepTold DEF VoiceNext
    <2> QED
      BY <2>2, <2>3, <2>4
  <1>3. Inv => OwnVoice
    <2> SUFFICES ASSUME Inv, Saying, ~overtaken
                 PROVE  engineVoice = Head(program["worker"]).voice
      BY DEF OwnVoice
    <2>1. /\ program["worker"] # << >> /\ ~IsCancelled("worker")
          /\ Head(program["worker"]).op = "text"
      BY DEF Saying, Starts, At
    <2>2. SpeechTold
      BY <2>1 DEF VoiceInv, MainTold, IsBusy
    <2>3. SpokenRight(program["worker"], engineVoice)
      BY <2>1, <2>2 DEF SpeechTold, WorkerTold
    <2>4. Head(program["worker"]) = program["worker"][1] /\ 1 \in DOMAIN program["worker"]
      BY <2>1, HeadAndTail DEF VoiceTypeInv, VoiceTypeOK, Threads
    <2>5. InForce(program["worker"], 1, engineVoice, program["worker"][1].voice)
      BY <2>1, <2>3, <2>4 DEF SpokenRight
    <2> QED
      BY <2>4, <2>5 DEF InForce
  <1> QED
    BY <1>1, <1>2, <1>3, VoiceInitTyped, SettingInit, PTL DEF VoiceSpec

=============================================================================
