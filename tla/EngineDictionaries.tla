---------------------------- MODULE EngineDictionaries ----------------------------
(***************************************************************************)
(* The dictionaries ECI looks words up in: the cache of engine.rs, one     *)
(* handle for each language and directory, and the commands that move it.  *)
(* The synth worker sends setParam when an utterance changes the language; *)
(* NVDA's main thread selects a profile, or updates one and activates it.  *)
(*                                                                         *)
(* What DictionaryProfiles does on the disk is here one number for each    *)
(* provider, the version of the snapshot that is installed.                *)
(*                                                                         *)
(* ECI is external.  That eciDeleteDict takes a dictionary out of use is   *)
(* an assumption, which the code makes too where it deletes one (the       *)
(* comment at engine.rs:436).                                              *)
(***************************************************************************)
EXTENDS Naturals

CONSTANTS
  Languages,    \* the language codes
  Providers,    \* the profiles that can be updated, each with a directory
  MaxSnapshots, \* bound: snapshots a provider publishes
  MaxFailures   \* bound: calls of ECI or of the file system that fail

VARIABLES
  snapshot,    \* the version installed for each provider, 0 for none
  directory,   \* Runtime.dictionary_directory
  language,    \* Runtime.language_code
  handles,     \* EciEngine.dictionary_handles, each with the version it has read
  active,      \* the dictionary ECI uses
  updating,    \* the provider whose new snapshot onUpdate has still to activate
  failed,      \* history: the last activation failed
  failures     \* history: how many activations and updates have

engineVars ==
  << snapshot, directory, language, handles, active, updating, failed, failures >>

BuiltIn == "builtin"

ASSUME EngineAssumption ==
  BuiltIn \notin Providers /\ MaxSnapshots \in Nat /\ MaxFailures \in Nat

DictionaryHandles == [language : Languages, directory : Providers, version : Nat]
NoDictionary == [language |-> "", directory |-> BuiltIn, version |-> 0]

\* active_directory: a profile nothing is installed for is the built-in one.
ActiveDirectory(choice) ==
  IF choice \in Providers /\ snapshot[choice] > 0 THEN choice ELSE BuiltIn

EngineInit ==
  /\ snapshot = [p \in Providers |-> 0]
  /\ directory = BuiltIn /\ language \in Languages
  /\ handles = {} /\ active = NoDictionary
  /\ updating = BuiltIn /\ failed = FALSE /\ failures = 0

OfKey(l, d) == {h \in handles : h.language = l /\ h.directory = d}

\* Mutant of Remaining: the handle is deleted, and not removed from the cache.
NothingRemoved(l, d, reload) == handles

\* What is left of the cache once a reload has deleted the handle of its key;
\* eciDeleteDict takes that dictionary out of use.
Remaining(l, d, reload) == IF reload THEN handles \ OfKey(l, d) ELSE handles

\* The dictionary of a key: the cached one, or one that is read from the disk.
Dictionary(l, d, reload) ==
  IF OfKey(l, d) # {} /\ ~reload THEN CHOOSE h \in OfKey(l, d) : TRUE
  ELSE [language |-> l, directory |-> d, version |-> snapshot[d]]

Activated(l, d, reload) ==
  /\ active' = IF d = BuiltIn THEN NoDictionary ELSE Dictionary(l, d, reload)
  /\ handles' = IF d = BuiltIn THEN handles
                ELSE Remaining(l, d, reload) \union {Dictionary(l, d, reload)}
  /\ failed' = FALSE /\ UNCHANGED failures

Fails ==
  /\ failures < MaxFailures
  /\ failed' = TRUE /\ failures' = failures + 1

\* A dictionary could not be made, read or set; one that a reload has deleted is in
\* use no more, as assumed of eciDeleteDict.
NotActivated(l, d, reload) ==
  /\ Fails
  /\ handles' = Remaining(l, d, reload)
  /\ active' = IF active \in handles' THEN active ELSE NoDictionary

ActivateDictionaries(l, d, reload) ==
  Activated(l, d, reload) \/ NotActivated(l, d, reload)

\* Mutant of SetLanguage: the dictionaries are left as they are.
SetLanguageOnly(l) ==
  /\ language' = l
  /\ UNCHANGED << snapshot, directory, handles, active, updating, failed, failures >>

SetLanguage(l) ==
  /\ language' = l
  /\ ActivateDictionaries(l, directory, FALSE)
  /\ UNCHANGED << snapshot, directory, updating >>

SetDictionaryDirectory(d, reload) ==
  /\ directory' = d
  /\ ActivateDictionaries(language, d, reload)
  /\ UNCHANGED << snapshot, language >>

\* onSave, and loadSettings when NVDA's configuration profile changes.
Selects(choice) ==
  /\ updating = BuiltIn
  /\ SetDictionaryDirectory(ActiveDirectory(choice), FALSE)
  /\ UNCHANGED updating

\* update_profile has replaced the directory.
Installed(p) ==
  /\ updating = BuiltIn /\ snapshot[p] < MaxSnapshots
  /\ snapshot' = [snapshot EXCEPT ![p] = @ + 1]
  /\ updating' = p
  /\ UNCHANGED << directory, language, handles, active, failed, failures >>

\* Mutant of ActivatesUpdate: the profile is activated as onSave does it.
ActivatesCached ==
  /\ updating # BuiltIn
  /\ SetDictionaryDirectory(ActiveDirectory(updating), FALSE)
  /\ updating' = BuiltIn

ActivatesUpdate ==
  /\ updating # BuiltIn
  /\ SetDictionaryDirectory(ActiveDirectory(updating), TRUE)
  /\ updating' = BuiltIn

\* The old snapshot could not be removed: onUpdate reports the error and no more.
UpdateRaises ==
  /\ updating # BuiltIn
  /\ updating' = BuiltIn /\ Fails
  /\ UNCHANGED << snapshot, directory, language, handles, active >>

\* A new host, Runtime.initialize; one that cannot activate its dictionary fails.
Restarts(l, choice) ==
  /\ updating = BuiltIn
  /\ language' = l
  /\ directory' = ActiveDirectory(choice)
  /\ active' = IF directory' = BuiltIn THEN NoDictionary
               ELSE [language |-> l, directory |-> choice, version |-> snapshot[choice]]
  /\ handles' = {active'} \ {NoDictionary}
  /\ failed' = FALSE
  /\ UNCHANGED << snapshot, updating, failures >>

EngineNext ==
  \/ \E l \in Languages : SetLanguage(l)
  \/ \E choice \in Providers \union {BuiltIn} :
       Selects(choice) \/ \E l \in Languages : Restarts(l, choice)
  \/ \E p \in Providers : Installed(p)
  \/ ActivatesUpdate \/ UpdateRaises

EngineSpec == EngineInit /\ [][EngineNext]_engineVars

-----------------------------------------------------------------------------
(* Properties.                                                             *)

\* The dictionary in use is one of the cache, which has one for a key: ECI is
\* never left with a dictionary that a reload, or a failure after it, deleted (by the
\* assumption on eciDeleteDict).
EngineTypeOK ==
  /\ snapshot \in [Providers -> 0 .. MaxSnapshots]
  /\ directory \in Providers \union {BuiltIn} /\ language \in Languages
  /\ handles \subseteq DictionaryHandles
  /\ \A h, k \in handles :
       h.language = k.language /\ h.directory = k.directory => h = k
  /\ active \in handles \union {NoDictionary}
  /\ updating \in Providers \union {BuiltIn} /\ failed \in BOOLEAN
  /\ failures \in 0 .. MaxFailures

\* What is looked up in belongs to the language that is spoken and to the profile
\* that was selected last, on whichever thread either has changed; a switch to
\* the built-in pronunciations leaves no dictionary in use.
DictionaryInForce ==
  ~failed => IF directory = BuiltIn THEN active = NoDictionary
             ELSE active.language = language /\ active.directory = directory

\* An update that ends without an error is heard at once: the language that is
\* spoken then uses the new snapshot, although the old one was cached.
UpdateTakesEffect ==
  [][updating # BuiltIn /\ updating' = BuiltIn /\ ~failed'
       => active'.version = snapshot[updating]]_engineVars

\* "Activates the chosen profile immediately": whatever language is spoken after
\* an update, it uses the snapshot that is installed.
SnapshotInUse ==
  updating = BuiltIn /\ ~failed /\ directory # BuiltIn
    => active.version = snapshot[directory]
=============================================================================
