---------------------------- MODULE DictionaryProfiles ----------------------------
(***************************************************************************)
(* The directories of addon/synthDrivers/_eloquence_dictionaries.py: the   *)
(* update of a provider's profile, the migration of the files of older     *)
(* releases, and the panel of eloquence.py that starts them.               *)
(*                                                                         *)
(* Everything runs on NVDA's main thread, one call after the other; each   *)
(* call of the file system is a step.  One that can raise may fail, and    *)
(* NVDA may end between any two.  A directory is the set of its            *)
(* dictionary files, each with its version; a directory without files      *)
(* counts as absent.                                                       *)
(***************************************************************************)
EXTENDS Naturals, Sequences

CONSTANTS
  Files,     \* the names of dictionary files
  Archives   \* the files each version of the provider's archive selects

ASSUME ArchivesAssumption ==
  Archives \in Seq((SUBSET Files) \ {{}}) /\ Archives # << >>

VARIABLES
  disk,        \* the files of each directory
  profile,     \* dictionary_profile in the configuration, "unset" without one
  dpc,         \* where the call that runs is
  version,     \* the version of the archive it has downloaded
  original     \* history: the files of older releases, the root's before legacy's

dictionaryVars == << disk, profile, dpc, version, original >>

Versions == DOMAIN Archives
Older == 0 .. 1      \* marks the files that older releases left
Directories == {"target", "backup", "staging", "root", "legacy"}
Snapshot(v) == Archives[v] \X {v}
Snapshots == {Snapshot(v) : v \in Versions}
Names(files) == {file[1] : file \in files}

\* Files of the root take the place of those of the same name.
Replacing(files, old) == files \union {file \in old : file[1] \notin Names(files)}

DictionaryInit ==
  /\ \E kept, migrated \in SUBSET Files, target \in Snapshots \union {{}} :
       disk = [target |-> target, backup |-> {}, staging |-> {},
               root |-> kept \X {1}, legacy |-> migrated \X {0}]
  /\ profile = "unset" /\ dpc = "idle" /\ version = 1
  /\ original = Replacing(disk["root"], disk["legacy"])

Goes(place) == dpc' = place
Renamed(from, to) == [disk EXCEPT ![from] = {}, ![to] = disk[from]]

-----------------------------------------------------------------------------
(* The panel: onSave stores a choice, onUpdate stores it and updates it.   *)

\* active_directory: the files the engine is given for a profile.
Active(choice) ==
  CASE choice = "provider" -> disk["target"]
    [] choice = "legacy" -> IF disk["legacy"] # {} THEN disk["legacy"] ELSE disk["root"]
    [] OTHER -> {}

\* resolve_profile, once the migration is over or not to be tried.
Resolved ==
  IF profile # "unset" THEN profile
  ELSE IF disk["root"] \union disk["legacy"] # {} THEN "legacy" ELSE "builtin"

Offered == {"builtin", "provider"} \union
           (IF Active("legacy") # {} \/ Resolved = "legacy" THEN {"legacy"} ELSE {})

Saves ==
  /\ dpc = "idle"
  /\ profile' \in Offered
  /\ UNCHANGED << disk, dpc, version, original >>

UpdateBegins ==
  /\ dpc = "idle"
  /\ profile' = "provider"
  /\ Goes("download")
  /\ UNCHANGED << disk, version, original >>

-----------------------------------------------------------------------------
(* update_profile.                                                         *)

Downloads ==
  /\ dpc = "download"
  /\ version' \in Versions
  /\ Goes("write")
  /\ UNCHANGED << disk, profile, original >>

Written == disk["staging"] = Snapshot(version)

Writes ==
  /\ dpc = "write"
  /\ \E f \in Archives[version] \ Names(disk["staging"]) :
       disk' = [disk EXCEPT !["staging"] = @ \union {<< f, version >>}]
  /\ UNCHANGED << profile, dpc, version, original >>

Compares ==
  /\ dpc = "write" /\ Written
  /\ Goes("clear")
  /\ UNCHANGED << disk, profile, version, original >>

\* Mutant of RemovesBackup: shutil.rmtree(backup_directory, ignore_errors=True).
RemovesWhatItCan(place, next) ==
  /\ dpc = place
  /\ \/ \E file \in disk["backup"] :
          disk' = [disk EXCEPT !["backup"] = @ \ {file}]
        /\ UNCHANGED dpc
     \/ /\ Goes(next)
        /\ UNCHANGED disk
  /\ UNCHANGED << profile, version, original >>

\* shutil.rmtree removes file after file.
RemovesBackup(place, next) ==
  /\ dpc = place
  /\ \/ \E file \in disk["backup"] :
          disk' = [disk EXCEPT !["backup"] = @ \ {file}]
        /\ UNCHANGED dpc
     \/ /\ disk["backup"] = {}
        /\ Goes(next)
        /\ UNCHANGED disk
  /\ UNCHANGED << profile, version, original >>

ClearsOldBackup == RemovesBackup("clear", "setAside")
DropsBackup == RemovesBackup("drop", "idle")

\* Mutant of SetsAside: the old directory is removed to make room.
Removes ==
  /\ dpc = "setAside"
  /\ disk' = [disk EXCEPT !["target"] = {}]
  /\ Goes("install")
  /\ UNCHANGED << profile, version, original >>

SetsAside ==
  /\ dpc = "setAside"
  /\ disk' = Renamed("target", "backup")
  /\ Goes("install")
  /\ UNCHANGED << profile, version, original >>

Installs ==
  /\ dpc = "install"
  /\ disk' = Renamed("staging", "target")
  /\ Goes("drop")
  /\ UNCHANGED << profile, version, original >>

AfterFailure(place) == IF place = "install" THEN "restore" ELSE "cleanUp"

UpdateFails ==
  /\ dpc \in {"download", "write", "clear", "setAside", "install", "restore", "drop"}
  /\ Goes(AfterFailure(dpc))
  /\ UNCHANGED << disk, profile, version, original >>

PutsBack ==
  /\ dpc = "restore"
  /\ disk' = Renamed("backup", "target")
  /\ Goes("cleanUp")
  /\ UNCHANGED << profile, version, original >>

\* What rmtree leaves of the staging directory has a name nobody looks for.
CleansUp ==
  /\ dpc = "cleanUp"
  /\ disk' = [disk EXCEPT !["staging"] = {}]
  /\ Goes("idle")
  /\ UNCHANGED << profile, version, original >>

-----------------------------------------------------------------------------
(* migrate_legacy_files, when the driver starts, loads its settings or     *)
(* opens the panel outside of secure mode.                                 *)

MigrationBegins ==
  /\ dpc = "idle" /\ profile = "unset" /\ disk["root"] # {}
  /\ Goes("migrate")
  /\ UNCHANGED << disk, profile, version, original >>

\* Mutant of Migrated: a file that is in the profile already is kept.
MigratedUnlessThere(file) ==
  IF file[1] \in Names(disk["legacy"]) THEN disk["legacy"] ELSE disk["legacy"] \union {file}

Migrated(file) == Replacing({file}, disk["legacy"])

Moves ==
  /\ dpc = "migrate"
  /\ \E file \in disk["root"] :
       disk' = [disk EXCEPT !["root"] = @ \ {file}, !["legacy"] = Migrated(file)]
  /\ UNCHANGED << profile, dpc, version, original >>

\* The last file has been moved, or OSError has been caught.
MigrationEnds ==
  /\ dpc = "migrate"
  /\ Goes("idle")
  /\ UNCHANGED << disk, profile, version, original >>

\* NVDA ends, perhaps before the configuration is saved, and is started again; no
\* call looks for the old staging directory.
Ends ==
  /\ dpc # "idle"
  /\ Goes("idle")
  /\ disk' = [disk EXCEPT !["staging"] = {}]
  /\ profile' \in {profile, "unset"}
  /\ UNCHANGED << version, original >>

DictionaryNext ==
  \/ Saves \/ UpdateBegins \/ Downloads \/ Writes \/ Compares
  \/ ClearsOldBackup \/ SetsAside \/ Installs \/ DropsBackup
  \/ UpdateFails \/ PutsBack \/ CleansUp
  \/ MigrationBegins \/ Moves \/ MigrationEnds \/ Ends

DictionarySpec == DictionaryInit /\ [][DictionaryNext]_dictionaryVars

-----------------------------------------------------------------------------
(* Properties.                                                             *)

\* Each directory holds files of its own kind; no rename meets a directory.
DictionaryTypeOK ==
  /\ DOMAIN disk = Directories
  /\ \A d \in {"target", "backup", "staging"} : disk[d] \subseteq Files \X Versions
  /\ \A d \in {"root", "legacy"} : disk[d] \subseteq Files \X Older
  /\ original \subseteq Files \X Older
  /\ profile \in {"unset", "builtin", "provider", "legacy"}
  /\ dpc \in {"idle", "download", "write", "clear", "setAside", "install", "drop",
              "restore", "cleanUp", "migrate"}
  /\ version \in Versions
  /\ dpc = "setAside" => disk["backup"] = {}
  /\ dpc \in {"install", "restore"} => disk["target"] = {}

\* What active_directory gives the engine for a provider is a whole snapshot or
\* nothing: never a mixture of two, nor what had been written when NVDA ended.
InstalledWhole == disk["target"] \in Snapshots \union {{}}

\* A file of an older release is kept, in the root or in the legacy profile, with
\* the root's copy before the other; once the root is empty the legacy profile is
\* all the engine was given before.  Moves may stop at any file.
LegacyKept ==
  /\ original \subseteq disk["root"] \union disk["legacy"]
  /\ disk["root"] = {} => disk["legacy"] = original

\* The snapshot that is kept: the target's, or the one set aside while there is none.
Kept ==
  IF disk["target"] # {} THEN disk["target"]
  ELSE IF disk["backup"] \in Snapshots THEN disk["backup"] ELSE {}

Stranded == dpc \notin {"install", "restore"} /\ disk["target"] = {} /\ Kept # {}

Store == INSTANCE ProfileStore WITH installed <- Kept, stranded <- Stranded

\* "Download and atomically replace": a snapshot is replaced in one step or stays,
\* whatever fails; only one that is stranded under its backup name is ever lost.
ImplementsStore == Store!Spec
=============================================================================
