-------------------------------- MODULE VoiceState --------------------------------
(***************************************************************************)
(* The voice an utterance is spoken with: _eloquence.py keeps a shadow of  *)
(* ECI's parameters and eloquence.py a note of the voice it last queued.   *)
(* Two threads call the same functions: the synth worker runs the commands *)
(* of the queued utterances, NVDA's main thread those of its settings.     *)
(*                                                                         *)
(* A thread is a list of commands and how far it is in the first of them:  *)
(* a step is one exchange with the host, or what is done between two.      *)
(* Pitch stands for the nine parameters; a value is marked when it is the  *)
(* temporary one of a capital letter.                                      *)
(***************************************************************************)
EXTENDS Naturals, Sequences

CONSTANTS
  Voices,         \* the voices (languages) of ECI
  InitialVoice,   \* the one a host starts with
  Pitches,        \* the values of a parameter
  InitialPitch,   \* the one a host starts with
  MaxOperations   \* bound: what NVDA asks for

NoVoice == "none"

ASSUME VoiceAssumption ==
  /\ InitialVoice \in Voices /\ NoVoice \notin Voices
  /\ InitialPitch \in Pitches /\ MaxOperations \in Nat

VARIABLES
  engineVoice,   \* ECI's parameter 9, and params[9]
  enginePitch,   \* ECI's voice parameter
  base,          \* voice_params
  variant,       \* _current_variant, by the pitch it brings
  defaultVoice,  \* SynthDriver._defaultVoice
  lastVoice,     \* SynthDriver._lastEngineVoice, NoVoice for None
  sequence,      \* EloquenceHostClient._sequence
  queue,         \* synth_queue
  workerSeq,     \* the sequence of the utterance the worker is in
  program,       \* the commands each thread has still to run
  phase,         \* how many steps of the first it has done
  saved,         \* what it has read, or was answered, in them
  chosen,        \* history: the pitch the user has chosen last
  overtaken,     \* history: since the last cancel, the voice was changed, or speech
                 \* stopped, behind the back of unfinished utterances
  overlapped,    \* history: the worker was in set_voice when chosen was set
  operations     \* history: what NVDA has asked for

voiceVars ==
  << engineVoice, enginePitch, base, variant, defaultVoice, lastVoice, sequence,
     queue, workerSeq, program, phase, saved, chosen, overtaken, overlapped, operations >>

Threads == {"main", "worker"}
Pitch(p) == [value |-> p, raised |-> FALSE]
PitchValues == [value : Pitches, raised : BOOLEAN]

Command(op, voice, pitch, raised) ==
  [op |-> op, voice |-> voice, pitch |-> pitch, raised |-> raised]
Prosody(raised) == Command("prosody", InitialVoice, InitialPitch, raised)
SetVoice(v)     == Command("setVoice", v, InitialPitch, FALSE)
Sets(p)         == Command("set", InitialVoice, p, FALSE)
Text(v, raised) == Command("text", v, InitialPitch, raised)
Notes(v)        == Command("note", v, InitialPitch, FALSE)
Adopts(v)       == Command("adopt", v, InitialPitch, FALSE)

VoiceInit ==
  /\ engineVoice = InitialVoice /\ enginePitch = Pitch(InitialPitch)
  /\ base = Pitch(InitialPitch) /\ variant = InitialPitch
  /\ defaultVoice = InitialVoice /\ lastVoice = InitialVoice
  /\ sequence = 0 /\ queue = << >> /\ workerSeq = 0
  /\ program = [t \in Threads |-> << >>]
  /\ phase = [t \in Threads |-> 0]
  /\ saved = [t \in Threads |-> Pitch(InitialPitch)]
  /\ chosen = InitialPitch /\ overtaken = FALSE /\ overlapped = FALSE
  /\ operations = 0

-----------------------------------------------------------------------------
(* The commands, on either thread.                                         *)

At(t, op, k) == program[t] # << >> /\ Head(program[t]).op = op /\ phase[t] = k

\* The worker looks for a cancellation before each command.
IsCancelled(t) == t = "worker" /\ workerSeq < sequence
Starts(t, op) == At(t, op, 0) /\ ~IsCancelled(t)

Continues(t) == phase' = [phase EXCEPT ![t] = @ + 1] /\ UNCHANGED program
Finishes(t) ==
  /\ program' = [program EXCEPT ![t] = Tail(@)]
  /\ phase' = [phase EXCEPT ![t] = 0]
  /\ UNCHANGED saved

driverVars ==
  << variant, defaultVoice, lastVoice, sequence, queue, workerSeq, chosen, operations >>

InSetVoice(t) == program[t] # << >> /\ Head(program[t]).op = "setVoice" /\ phase[t] > 0
IsSetting(t) == \E k \in DOMAIN program[t] : program[t][k].op = "set"

\* cmdProsody and set_voice read the base.
ReadsBase(t) ==
  /\ Starts(t, "prosody") \/ Starts(t, "setVoice")
  /\ saved' = [saved EXCEPT ![t] = base]
  /\ Continues(t)
  /\ overlapped' = (overlapped \/ (t = "worker" /\ At(t, "setVoice", 0) /\ IsSetting("main")))
  /\ UNCHANGED << driverVars, engineVoice, enginePitch, base, overtaken >>

\* The temporary value that cmdProsody computes.
SendsProsody(t) ==
  /\ At(t, "prosody", 1)
  /\ enginePitch' = [saved[t] EXCEPT !.raised = Head(program[t]).raised]
  /\ Finishes(t)
  /\ UNCHANGED << driverVars, engineVoice, base, overtaken, overlapped >>

SendsVoice(t) ==
  /\ At(t, "setVoice", 1)
  /\ engineVoice' = Head(program[t]).voice
  /\ Continues(t)
  /\ UNCHANGED << driverVars, enginePitch, base, saved, overtaken, overlapped >>

\* Mutant of SavedParameters: what the host has read back from ECI is accepted.
ReadBackParameters(t) == enginePitch

SavedParameters(t) == saved[t]

RestoresBase(t) ==
  /\ At(t, "setVoice", 2)
  /\ base' = SavedParameters(t)
  /\ Continues(t)
  /\ UNCHANGED << driverVars, engineVoice, enginePitch, saved, overtaken, overlapped >>

PushesBase(t) ==
  /\ At(t, "setVoice", 3)
  /\ enginePitch' = SavedParameters(t)
  /\ Finishes(t)
  /\ UNCHANGED << driverVars, engineVoice, base, overtaken, overlapped >>

\* setVParam and setVariant, which take the value they are answered for the base.
SendsSetting(t) ==
  /\ Starts(t, "set")
  /\ enginePitch' = Pitch(Head(program[t]).pitch)
  /\ saved' = [saved EXCEPT ![t] = enginePitch']
  /\ Continues(t)
  /\ UNCHANGED << driverVars, engineVoice, base, overtaken, overlapped >>

TakesAnswer(t) ==
  /\ At(t, "set", 1)
  /\ base' = saved[t]
  /\ Finishes(t)
  /\ UNCHANGED << driverVars, engineVoice, enginePitch, overtaken, overlapped >>

SendsText ==
  /\ Starts("worker", "text")
  /\ Finishes("worker")
  /\ UNCHANGED << driverVars, engineVoice, enginePitch, base, overtaken, overlapped >>

\* What speak() without speech, and _update_voice_state, note when they are done.
NotesVoice ==
  /\ Starts("main", "note") \/ Starts("main", "adopt")
  /\ LET c == Head(program["main"])
     IN  /\ lastVoice' = c.voice
         /\ defaultVoice' = IF c.op = "adopt" THEN c.voice ELSE defaultVoice
  /\ Finishes("main")
  /\ UNCHANGED << engineVoice, enginePitch, base, variant, sequence, queue, workerSeq,
                  chosen, overtaken, overlapped, operations >>

RunsCommand(t) ==
  \/ ReadsBase(t) \/ SendsProsody(t)
  \/ SendsVoice(t) \/ RestoresBase(t) \/ PushesBase(t)
  \/ SendsSetting(t) \/ TakesAnswer(t)

-----------------------------------------------------------------------------
(* The synth worker.                                                       *)

TakesUtterance ==
  /\ program["worker"] = << >> /\ queue # << >>
  /\ queue' = Tail(queue)
  /\ IF Head(queue).seq < sequence
       THEN UNCHANGED << program, workerSeq >>
       ELSE /\ program' = [program EXCEPT !["worker"] = Head(queue).program]
            /\ workerSeq' = Head(queue).seq
  /\ UNCHANGED << engineVoice, enginePitch, base, variant, defaultVoice, lastVoice,
                  sequence, phase, saved, chosen, overtaken, overlapped, operations >>

LeavesUtterance ==
  /\ IsCancelled("worker") /\ program["worker"] # << >> /\ phase["worker"] = 0
  /\ program' = [program EXCEPT !["worker"] = << >>]
  /\ UNCHANGED << driverVars, engineVoice, enginePitch, base, phase, saved, overtaken,
                  overlapped >>

-----------------------------------------------------------------------------
(* What NVDA asks of the driver, one thing after the other.                *)

Asks ==
  /\ program["main"] = << >>
  /\ operations < MaxOperations /\ operations' = operations + 1

Runs(commands) == program' = [program EXCEPT !["main"] = commands]

IsBusy == queue # << >> \/ program["worker"] # << >>
Overtakes == overtaken' = (overtaken \/ IsBusy)

\* Mutant of Resets: an utterance starts with the parameters it finds.
NoResets == << >>

Resets == << Prosody(FALSE) >>

ToDefault == IF lastVoice = defaultVoice THEN << >> ELSE << SetVoice(defaultVoice) >>

\* A speech sequence: text in the default voice, in another language, or a capital
\* letter, whose raised pitch is taken back behind it.
Plain == << Text(defaultVoice, FALSE) >>
Foreign(v) == << SetVoice(v), Text(v, FALSE) >>
Capital == << Prosody(TRUE), Text(defaultVoice, TRUE), Prosody(FALSE) >>

Queues(speech, last) ==
  /\ Asks
  /\ queue' = Append(queue, [program |-> Resets \o ToDefault \o speech, seq |-> sequence])
  /\ lastVoice' = last
  /\ UNCHANGED << engineVoice, enginePitch, base, variant, defaultVoice, sequence,
                  workerSeq, program, phase, saved, chosen, overtaken, overlapped >>

Speaks ==
  \/ Queues(Plain, defaultVoice)
  \/ Queues(Capital, defaultVoice)
  \/ \E v \in Voices \ {defaultVoice} : Queues(Foreign(v), v)

\* A sequence with indexes only runs at once, ahead of what is queued.  (One that also
\* changes the language is left out.)
SpeaksNothing ==
  /\ Asks
  /\ Runs(Resets \o ToDefault \o << Notes(defaultVoice) >>)
  /\ Overtakes
  /\ UNCHANGED << engineVoice, enginePitch, base, variant, defaultVoice, lastVoice,
                  sequence, queue, workerSeq, phase, saved, chosen, overlapped >>

\* Mutant of Cancels: the driver does not forget the voice it has queued.
CancelsOnly ==
  /\ Asks
  /\ sequence' = sequence + 1 /\ overtaken' = FALSE
  /\ UNCHANGED << engineVoice, enginePitch, base, variant, defaultVoice, lastVoice, queue,
                  workerSeq, program, phase, saved, chosen, overlapped >>

Cancels ==
  /\ Asks
  /\ sequence' = sequence + 1 /\ lastVoice' = NoVoice /\ overtaken' = FALSE
  /\ UNCHANGED << engineVoice, enginePitch, base, variant, defaultVoice, queue,
                  workerSeq, program, phase, saved, chosen, overlapped >>

\* set_dictionary_directory and set_presence_contour stop the client themselves.
Halts ==
  /\ Asks
  /\ sequence' = sequence + 1
  /\ Overtakes
  /\ UNCHANGED << engineVoice, enginePitch, base, variant, defaultVoice, lastVoice,
                  queue, workerSeq, program, phase, saved, chosen, overlapped >>

ChangesVoice(v) ==
  /\ Asks
  /\ Runs(<< SetVoice(v), Adopts(v) >>)
  /\ Overtakes
  /\ UNCHANGED << engineVoice, enginePitch, base, variant, defaultVoice, lastVoice,
                  sequence, queue, workerSeq, phase, saved, chosen, overlapped >>

\* _set_pitch, and _set_variant with the pitch of the variant.
ChangesPitch(p) ==
  /\ Asks
  /\ Runs(<< Sets(p) >>)
  /\ chosen' = p /\ overlapped' = InSetVoice("worker")
  /\ variant' \in {variant, p}
  /\ UNCHANGED << engineVoice, enginePitch, base, defaultVoice, lastVoice, sequence,
                  queue, workerSeq, phase, saved, overtaken >>

\* Mutant of Restored: the variant is copied over the parameters.
VariantLast == << SetVoice(engineVoice), Sets(base.value), Sets(variant) >>

\* set_sample_rate restores the voice, the variant and then the parameters.
Restored == << SetVoice(engineVoice), Sets(variant), Sets(base.value) >>

\* A new host has its own values; a command the worker has not sent may fail.
RestartsHost ==
  /\ Asks
  /\ sequence' = sequence + 1
  /\ engineVoice' = InitialVoice /\ enginePitch' = Pitch(InitialPitch)
  /\ base' = Pitch(InitialPitch)
  /\ \E commands \in {program["worker"], << >>} :
       /\ program' = [main |-> Restored, worker |-> commands]
       /\ phase' = [phase EXCEPT !["worker"] = IF commands = << >> THEN 0 ELSE @]
  /\ Overtakes
  /\ overlapped' = (overlapped \/ InSetVoice("worker"))
  /\ UNCHANGED << variant, defaultVoice, lastVoice, queue, workerSeq, saved, chosen >>

\* NVDA asks for no more; nothing is left to be done.
AtRest ==
  /\ operations = MaxOperations /\ program["main"] = << >> /\ ~IsBusy
  /\ UNCHANGED voiceVars

VoiceNext ==
  \/ \E t \in Threads : RunsCommand(t)
  \/ SendsText \/ NotesVoice \/ TakesUtterance \/ LeavesUtterance
  \/ Speaks \/ SpeaksNothing \/ Cancels \/ Halts \/ RestartsHost \/ AtRest
  \/ \E v \in Voices : ChangesVoice(v)
  \/ \E p \in Pitches : ChangesPitch(p)

VoiceSpec == VoiceInit /\ [][VoiceNext]_voiceVars

-----------------------------------------------------------------------------
(* Properties.                                                             *)

Commands ==
  [op : {"prosody", "setVoice", "set", "text", "note", "adopt"},
   voice : Voices, pitch : Pitches, raised : BOOLEAN]

\* The saved voice state is never the temporary value of a capital letter: neither
\* thread stores it in voice_params, whatever is read back in a change of language.
VoiceTypeOK ==
  /\ engineVoice \in Voices /\ enginePitch \in PitchValues
  /\ base \in {Pitch(p) : p \in Pitches}
  /\ variant \in Pitches /\ chosen \in Pitches
  /\ defaultVoice \in Voices /\ lastVoice \in Voices \union {NoVoice}
  /\ sequence \in 0 .. MaxOperations /\ workerSeq \in 0 .. sequence
  /\ queue \in Seq([program : Seq(Commands), seq : 0 .. sequence])
  /\ program \in [Threads -> Seq(Commands)]
  /\ phase \in [Threads -> 0 .. 3] /\ saved \in [Threads -> PitchValues]
  /\ overtaken \in BOOLEAN /\ overlapped \in BOOLEAN
  /\ operations \in 0 .. MaxOperations

Saying == Starts("worker", "text")

\* A text is spoken in the voice it was prepared for, through every change of
\* language and every cancellation, as long as nothing but a cancellation comes in
\* between: speak() leaves out a set_voice on what it remembers to have queued.
OwnVoice == Saying /\ ~overtaken => engineVoice = Head(program["worker"]).voice

\* Text that is no capital letter is not spoken with the raised pitch of one, also
\* when that utterance was cancelled in the middle (issue #59).
NoLeakedProsody ==
  Saying /\ ~Head(program["worker"]).raised => ~enginePitch.raised

\* At rest the saved state is what the user has chosen last, over changes of the
\* language and restarts of the engine on either thread; a choice that is made
\* while the worker is inside set_voice may be lost.
LatestSettingWins ==
  (\A t \in Threads : program[t] = << >>) /\ ~overlapped => base = Pitch(chosen)

\* The voice of a text, also when utterances were overtaken.
OwnVoiceAlways == Saying => engineVoice = Head(program["worker"]).voice
=============================================================================
