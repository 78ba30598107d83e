---------------------------------- MODULE MCDriver ----------------------------------
(***************************************************************************)
(* The parts of the synth driver that keep settings: the directories of    *)
(* the pronunciation dictionaries, ECI's dictionaries, the snapshots of    *)
(* NVDA's profiles and the state of the voice.  The modules share no       *)
(* variable: in a behaviour one of them moves and the others stay where    *)
(* they start.                                                             *)
(***************************************************************************)
EXTENDS DictionaryProfiles, EngineDictionaries, ProfileIsolation, VoiceState

VARIABLE part

Parts == {"directories", "dictionaries", "profiles", "voice"}

\* The second snapshot of the provider has one file less.
TwoArchives == << {"main", "root"}, {"main"} >>

\* Each profile states one of the settings: no layer states the variant of the base.
State(v, p) == [variant |-> v, pitch |-> p]
ThreeProfiles ==
  [base |-> State(Missing, 2), app |-> State(2, Missing), manual |-> State(Missing, 1)]
ThreeStacks ==
  {<< "base" >>, << "base", "app" >>, << "base", "app", "manual" >>}

DriverInit ==
  /\ DictionaryInit /\ EngineInit /\ ProfileInit /\ VoiceInit
  /\ part \in Parts
  /\ part # "directories" => \A d \in Directories : disk[d] = {}
  /\ part # "dictionaries" => language = InitialVoice
  /\ part # "profiles" => stack = << "base" >>

Turn(p) == part = p /\ UNCHANGED part

DriverNext ==
  \/ Turn("directories") /\ DictionaryNext
     /\ UNCHANGED << engineVars, profileVars, voiceVars >>
  \/ Turn("dictionaries") /\ EngineNext
     /\ UNCHANGED << dictionaryVars, profileVars, voiceVars >>
  \/ Turn("profiles") /\ ProfileNext
     /\ UNCHANGED << dictionaryVars, engineVars, voiceVars >>
  \/ Turn("voice") /\ VoiceNext
     /\ UNCHANGED << dictionaryVars, engineVars, profileVars >>

driverPartsVars == << dictionaryVars, engineVars, profileVars, voiceVars, part >>
DriverSpec == DriverInit /\ [][DriverNext]_driverPartsVars
=============================================================================
