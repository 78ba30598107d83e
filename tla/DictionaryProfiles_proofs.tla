---------------------- MODULE DictionaryProfiles_proofs ----------------------
(***************************************************************************)
(* Theorems about DictionaryProfiles for any set of files and any archives *)
(* a provider may publish.                                                 *)
(***************************************************************************)
EXTENDS DictionaryProfiles, TLAPS

\* A part of what one version of the archive selects.
Partial(files) == \E v \in Versions : files \subseteq Snapshot(v)
WholeOrNone == Snapshots \union {{}}

\* What the calls of an update may find at each of their steps.
DirectoriesInv ==
  /\ DOMAIN disk = Directories
  /\ dpc \in {"idle", "download", "write", "clear", "setAside", "install", "drop",
              "restore", "cleanUp", "migrate"}
  /\ version \in Versions
  /\ disk["target"] \in WholeOrNone
  /\ Partial(disk["backup"])
  /\ disk["staging"] \subseteq Snapshot(version)
  /\ dpc \in {"idle", "migrate", "download", "drop"} => disk["staging"] = {}
  /\ dpc \in {"clear", "setAside", "install"} => disk["staging"] = Snapshot(version)
  /\ dpc = "setAside" => disk["backup"] = {}
  /\ dpc \in {"install", "restore"} => disk["target"] = {} /\ disk["backup"] \in WholeOrNone
  /\ dpc = "drop" => disk["target"] # {}

\* A migration leaves what the engine would be given for the old files.
MigrationInv ==
  /\ disk["root"] \subseteq Files \X {1}
  /\ disk["legacy"] \subseteq Files \X Older
  /\ original = Replacing(disk["root"], disk["legacy"])

-----------------------------------------------------------------------------
(* Snapshots.                                                              *)

\* A snapshot holds files of its version, at least one.
LEMMA SnapshotFacts ==
  ASSUME NEW v \in Versions
  PROVE  /\ Snapshot(v) # {} /\ Snapshot(v) \in Snapshots
         /\ Snapshot(v) \subseteq Files \X Versions
         /\ \A file \in Snapshot(v) : file[2] = v
  <1>1. Archives[v] \in (SUBSET Files) \ {{}}
    BY ArchivesAssumption DEF Versions
  <1>2. PICK f \in Archives[v] : f \in Files
    BY <1>1
  <1>3. << f, v >> \in Snapshot(v)
    BY <1>2 DEF Snapshot
  <1>4. \A file \in Snapshot(v) : file[2] = v /\ file \in Files \X Versions
    BY <1>1 DEF Snapshot
  <1> QED
    BY <1>3, <1>4 DEF Snapshots

\* There is a first version.
LEMMA SomeVersion == 1 \in Versions
  BY ArchivesAssumption DEF Versions

\* Nothing at all is a part of a snapshot, and so is a whole one.
LEMMA PartsOfSnapshots ==
  /\ \A files \in WholeOrNone : Partial(files)
  /\ \A files, some : Partial(files) /\ some \subseteq files => Partial(some)
  /\ \A files : Partial(files) => files \subseteq Files \X Versions
  BY SomeVersion, SnapshotFacts DEF WholeOrNone, Snapshots, Partial

\* A snapshot that has lost a file is not a snapshot of any version.
LEMMA BrokenSnapshot ==
  ASSUME NEW files, Partial(files), NEW file \in files
  PROVE  files \ {file} \notin Snapshots
  <1> SUFFICES ASSUME NEW w \in Versions, files \ {file} = Snapshot(w)
               PROVE  FALSE
    BY DEF Snapshots
  <1>1. PICK v \in Versions : files \subseteq Snapshot(v)
    BY DEF Partial
  <1>2. PICK other \in Snapshot(w) : other[2] = w
    BY SnapshotFacts
  <1>3. other \in Snapshot(v)
    BY <1>1
  <1>4. v = w
    BY <1>2, <1>3, SnapshotFacts
  <1> QED
    BY <1>1, <1>4

-----------------------------------------------------------------------------
(* The effect of each action on the directories.                           *)

updateVars == << disk["target"], disk["backup"], disk["staging"] >>
migrationVars == << disk["root"], disk["legacy"], original >>

\* What the steps outside the calls of the file system leave alone.
LEMMA QuietSteps ==
  ASSUME DirectoriesInv,
         Saves \/ UpdateBegins \/ Downloads \/ Compares \/ UpdateFails
           \/ MigrationBegins \/ MigrationEnds
  PROVE  UNCHANGED << disk, original >>
  BY DEF Saves, UpdateBegins, Downloads, Compares, UpdateFails, MigrationBegins, MigrationEnds

\* The initial directories satisfy both invariants.
LEMMA InitialDirectories == DictionaryInit => DirectoriesInv /\ MigrationInv
  <1> SUFFICES ASSUME DictionaryInit PROVE DirectoriesInv /\ MigrationInv
    OBVIOUS
  <1>1. PICK kept \in SUBSET Files, migrated \in SUBSET Files, target \in WholeOrNone :
          disk = [target |-> target, backup |-> {}, staging |-> {},
                  root |-> kept \X {1}, legacy |-> migrated \X {0}]
    BY DEF DictionaryInit, WholeOrNone
  <1>2. dpc = "idle" /\ version = 1 /\ original = Replacing(disk["root"], disk["legacy"])
    BY DEF DictionaryInit
  <1>3. DOMAIN disk = Directories
    BY <1>1 DEF Directories
  <1>4. /\ disk["target"] \in WholeOrNone /\ disk["backup"] = {} /\ disk["staging"] = {}
        /\ disk["root"] \subseteq Files \X {1} /\ disk["legacy"] \subseteq Files \X {0}
    BY <1>1
  <1>5. Partial({})
    BY PartsOfSnapshots DEF WholeOrNone
  <1>6. disk["legacy"] \subseteq Files \X Older
    BY <1>4 DEF Older
  <1> QED
    BY <1>2, <1>3, <1>4, <1>5, <1>6, SomeVersion DEF DirectoriesInv, MigrationInv

\* Every step finds the directories as the invariant says and leaves them so.
LEMMA DirectoriesStep ==
  DirectoriesInv /\ [DictionaryNext]_dictionaryVars => DirectoriesInv'
  <1> SUFFICES ASSUME DirectoriesInv, [DictionaryNext]_dictionaryVars PROVE DirectoriesInv'
    OBVIOUS
  <1> USE DEF DirectoriesInv, Directories
  <1>1. ASSUME UNCHANGED << disk, version >>,
               \/ Saves \/ UpdateBegins \/ MigrationBegins \/ MigrationEnds
               \/ UpdateFails \/ Compares
        PROVE  DirectoriesInv'
    BY <1>1 DEF Saves, UpdateBegins, MigrationBegins, MigrationEnds, UpdateFails, Compares,
                Written, Goes, AfterFailure, Partial, Snapshot, WholeOrNone
  <1>2. CASE Downloads
    BY <1>2 DEF Downloads, Goes, Partial, Snapshot, WholeOrNone
  <1>3. CASE Writes
    <2>1. PICK f \in Archives[version] :
            disk' = [disk EXCEPT !["staging"] = @ \union {<< f, version >>}]
      BY <1>3 DEF Writes
    <2>2. << f, version >> \in Snapshot(version)
      BY DEF Snapshot
    <2>3. dpc = "write" /\ UNCHANGED << dpc, version >>
      BY <1>3 DEF Writes
    <2> QED
      BY <2>1, <2>2, <2>3 DEF Partial, Snapshot
  <1>4. ASSUME NEW place \in {"clear", "drop"}, NEW next \in {"setAside", "idle"},
               place = "clear" <=> next = "setAside", RemovesBackup(place, next)
        PROVE  DirectoriesInv'
    <2>1. CASE \E file \in disk["backup"] : disk' = [disk EXCEPT !["backup"] = @ \ {file}]
      <3>1. disk'["backup"] \subseteq disk["backup"] /\ DOMAIN disk' = Directories
        BY <2>1
      <3>2. disk'["target"] = disk["target"] /\ disk'["staging"] = disk["staging"]
        BY <2>1
      <3>3. Partial(disk'["backup"])
        BY <3>1, PartsOfSnapshots
      <3>4. dpc = place /\ dpc' \in {place, next} /\ version' = version
            /\ (dpc' = next => disk' = disk /\ disk["backup"] = {})
        BY <1>4 DEF RemovesBackup, Goes
      <3> QED
        BY <3>1, <3>2, <3>3, <3>4, <1>4 DEF Partial, Snapshot
    <2>2. CASE disk' = disk /\ disk["backup"] = {} /\ dpc' = next
      BY <1>4, <2>2 DEF RemovesBackup, Partial, Snapshot
    <2> QED
      BY <1>4, <2>1, <2>2 DEF RemovesBackup, Goes
  <1>5. CASE SetsAside
    <2>1. disk'["target"] = {} /\ disk'["backup"] = disk["target"]
          /\ disk'["staging"] = disk["staging"] /\ DOMAIN disk' = Directories
      BY <1>5 DEF SetsAside, Renamed
    <2>2. Partial(disk'["backup"])
      BY <2>1, PartsOfSnapshots
    <2>3. dpc = "setAside" /\ dpc' = "install" /\ version' = version
      BY <1>5 DEF SetsAside, Goes
    <2> QED
      BY <2>1, <2>2, <2>3 DEF Partial, Snapshot, WholeOrNone
  <1>6. CASE Installs
    <2>1. disk'["target"] = disk["staging"] /\ disk'["staging"] = {}
          /\ disk'["backup"] = disk["backup"] /\ DOMAIN disk' = Directories
      BY <1>6 DEF Installs, Renamed
    <2>2. dpc = "install" /\ dpc' = "drop" /\ version' = version
      BY <1>6 DEF Installs, Goes
    <2>3. disk'["target"] \in Snapshots /\ disk'["target"] # {}
      BY <2>1, <2>2, SnapshotFacts
    <2> QED
      BY <2>1, <2>2, <2>3 DEF Partial, Snapshot, WholeOrNone
  <1>7. CASE PutsBack
    <2>1. disk'["target"] = disk["backup"] /\ disk'["backup"] = {}
          /\ disk'["staging"] = disk["staging"] /\ DOMAIN disk' = Directories
      BY <1>7 DEF PutsBack, Renamed
    <2>2. dpc = "restore" /\ dpc' = "cleanUp" /\ version' = version
      BY <1>7 DEF PutsBack, Goes
    <2>3. Partial({})
      BY PartsOfSnapshots DEF WholeOrNone
    <2> QED
      BY <2>1, <2>2, <2>3 DEF Partial, Snapshot
  <1>8. CASE CleansUp \/ Ends
    <2>1. disk'["target"] = disk["target"] /\ disk'["backup"] = disk["backup"]
          /\ disk'["staging"] = {} /\ DOMAIN disk' = Directories
      BY <1>8 DEF CleansUp, Ends
    <2>2. dpc' = "idle" /\ version' = version
      BY <1>8 DEF CleansUp, Ends, Goes
    <2> QED
      BY <2>1, <2>2 DEF Partial, Snapshot
  <1>9. CASE Moves
    <2>1. disk'["target"] = disk["target"] /\ disk'["backup"] = disk["backup"]
          /\ disk'["staging"] = disk["staging"] /\ DOMAIN disk' = Directories
      BY <1>9 DEF Moves
    <2>2. dpc = "migrate" /\ UNCHANGED << dpc, version >>
      BY <1>9 DEF Moves
    <2> QED
      BY <2>1, <2>2 DEF Partial, Snapshot
  <1>10. CASE UNCHANGED dictionaryVars
    BY <1>10 DEF dictionaryVars, Partial, Snapshot
  <1>11. ClearsOldBackup \/ DropsBackup => DirectoriesInv'
    BY <1>4 DEF ClearsOldBackup, DropsBackup
  <1>12. Saves \/ UpdateBegins \/ MigrationBegins \/ MigrationEnds \/ UpdateFails \/ Compares
           => UNCHANGED << disk, version >>
    BY DEF Saves, UpdateBegins, MigrationBegins, MigrationEnds, UpdateFails, Compares
  <1> QED
    BY <1>1, <1>2, <1>3, <1>5, <1>6, <1>7, <1>8, <1>9, <1>10, <1>11, <1>12 DEF DictionaryNext

\* A step of the migration, and no other, moves a file of the old releases, and the
\* engine would be given the same files before and after it.
LEMMA MigrationStep ==
  DirectoriesInv /\ MigrationInv /\ [DictionaryNext]_dictionaryVars => MigrationInv'
  <1> SUFFICES ASSUME DirectoriesInv, MigrationInv, [DictionaryNext]_dictionaryVars
               PROVE  MigrationInv'
    OBVIOUS
  <1>1. CASE Moves
    <2> DEFINE root == disk["root"]
               legacy == disk["legacy"]
    <2>1. PICK file \in root :
            disk' = [disk EXCEPT !["root"] = @ \ {file}, !["legacy"] = Migrated(file)]
      BY <1>1 DEF Moves
    <2>2. disk'["root"] = root \ {file} /\ disk'["legacy"] = Replacing({file}, legacy)
      BY <2>1 DEF DirectoriesInv, Directories, Migrated
    <2>3. root \subseteq Files \X {1} /\ legacy \subseteq Files \X Older /\ original' = original
      BY <1>1 DEF MigrationInv, Moves
    <2> HIDE DEF root, legacy
    <2>4. \A x \in root : x = << x[1], 1 >>
      BY <2>3
    <2>5. file[1] \notin Names(root \ {file})
      BY <2>1, <2>4 DEF Names
    <2>6. Names(root) = {file[1]} \union Names(root \ {file})
      BY <2>1 DEF Names
    <2>7. Names({file}) = {file[1]}
      BY DEF Names
    <2>8. Replacing({file}, legacy) = {file} \union {old \in legacy : old[1] # file[1]}
      BY <2>7 DEF Replacing
    <2>9. Replacing(root \ {file}, Replacing({file}, legacy))
            = (root \ {file}) \union {file} \union
              {old \in legacy : old[1] # file[1] /\ old[1] \notin Names(root \ {file})}
      BY <2>5, <2>8 DEF Replacing
    <2>10. Replacing(root \ {file}, Replacing({file}, legacy)) = Replacing(root, legacy)
      BY <2>1, <2>6, <2>9 DEF Replacing
    <2>11. disk'["root"] \subseteq Files \X {1}
      BY <2>2, <2>3
    <2>12. disk'["legacy"] \subseteq Files \X Older
      <3>1. file \in Files \X Older
        BY <2>1, <2>3 DEF Older
      <3> QED
        BY <2>2, <2>3, <2>8, <3>1
    <2> QED
      BY <2>2, <2>3, <2>10, <2>11, <2>12 DEF MigrationInv, root, legacy
  <1>2. ASSUME ~Moves
        PROVE  UNCHANGED migrationVars
    <2>1. UNCHANGED << disk, original >>
            \/ \E files : \/ disk' = [disk EXCEPT !["staging"] = files]
                           \/ disk' = [disk EXCEPT !["backup"] = files]
            \/ SetsAside \/ Installs \/ PutsBack
      BY <1>2, Zenon
         DEF DictionaryNext, dictionaryVars, Saves, UpdateBegins, Downloads, Writes, Compares,
             ClearsOldBackup, DropsBackup, RemovesBackup, UpdateFails, CleansUp,
             MigrationBegins, MigrationEnds, Ends
    <2>2. original' = original
      BY <1>2
         DEF DictionaryNext, dictionaryVars, Saves, UpdateBegins, Downloads, Writes, Compares,
             ClearsOldBackup, DropsBackup, RemovesBackup, SetsAside, Installs, UpdateFails,
             PutsBack, CleansUp, MigrationBegins, MigrationEnds, Ends
    <2>3. disk'["root"] = disk["root"] /\ disk'["legacy"] = disk["legacy"]
      BY <2>1 DEF SetsAside, Installs, PutsBack, Renamed, DirectoriesInv, Directories
    <2> QED
      BY <2>2, <2>3 DEF migrationVars
  <1> QED
    BY <1>1, <1>2 DEF migrationVars, MigrationInv

-----------------------------------------------------------------------------
(* The theorems.                                                           *)

\* The two invariants hold of every state of every behaviour.
LEMMA DirectoriesInOrder == DictionarySpec => [](DirectoriesInv /\ MigrationInv)
  BY InitialDirectories, DirectoriesStep, MigrationStep, PTL DEF DictionarySpec

ProfileNamed == profile \in {"unset", "builtin", "provider", "legacy"}

\* The profile the configuration names is one there is.
LEMMA ProfileNames ==
  DictionarySpec => []ProfileNamed
  <1>1. DictionaryInit => ProfileNamed
    BY DEF DictionaryInit, ProfileNamed
  <1>2. ProfileNamed /\ [DictionaryNext]_dictionaryVars => ProfileNamed'
    BY DEF ProfileNamed, DictionaryNext, dictionaryVars, Saves, Offered, UpdateBegins, Downloads, Writes,
           Compares, ClearsOldBackup, DropsBackup, RemovesBackup, SetsAside, Installs,
           UpdateFails, PutsBack, CleansUp, MigrationBegins, Moves, MigrationEnds, Ends
  <1> QED
    BY <1>1, <1>2, PTL DEF DictionarySpec

\* Each directory holds files of its own kind; no rename meets what a failed call, or
\* the end of NVDA, has left behind.
THEOREM DictionaryTypeCorrect == DictionarySpec => []DictionaryTypeOK
  <1>1. DirectoriesInv /\ MigrationInv /\ ProfileNamed
          => DictionaryTypeOK
    <2> SUFFICES ASSUME DirectoriesInv, MigrationInv, ProfileNamed
                 PROVE  DictionaryTypeOK
      OBVIOUS
    <2>1. \A files \in {disk["target"], disk["backup"], disk["staging"]} :
            files \subseteq Files \X Versions
      BY PartsOfSnapshots, SnapshotFacts DEF DirectoriesInv
    <2>2. disk["root"] \subseteq Files \X Older /\ disk["legacy"] \subseteq Files \X Older
      BY DEF MigrationInv, Older
    <2>3. original \subseteq Files \X Older
      BY <2>2 DEF MigrationInv, Replacing
    <2> QED
      BY <2>1, <2>2, <2>3 DEF DictionaryTypeOK, DirectoriesInv, ProfileNamed
  <1> QED
    BY <1>1, DirectoriesInOrder, ProfileNames, PTL

\* What the engine is given for a provider is a whole snapshot or nothing, wherever
\* an update fails and whenever NVDA ends.
THEOREM AlwaysInstalledWhole == DictionarySpec => []InstalledWhole
  <1>1. DirectoriesInv => InstalledWhole
    BY DEF DirectoriesInv, InstalledWhole, WholeOrNone
  <1> QED
    BY <1>1, DirectoriesInOrder, PTL

\* No file of an older release is lost or hidden by an older one, wherever the
\* migration stops.
THEOREM LegacyAlwaysKept == DictionarySpec => []LegacyKept
  <1>1. MigrationInv => LegacyKept
    BY DEF MigrationInv, LegacyKept, Replacing, Names
  <1> QED
    BY <1>1, DirectoriesInOrder, PTL

\* What is kept is a snapshot or nothing, and is nothing's when nothing is stranded.
LEMMA KeptFacts ==
  ASSUME DirectoriesInv
  PROVE  Kept \in WholeOrNone /\ (disk["target"] # {} => Kept = disk["target"] /\ ~Stranded)
  BY DEF Kept, Stranded, DirectoriesInv, WholeOrNone

\* A call that leaves the two directories alone strands nothing, unless an update
\* gives up between the two renames.
LEMMA QuietStore ==
  ASSUME DirectoriesInv,
         disk'["target"] = disk["target"], disk'["backup"] = disk["backup"],
         dpc' \in {"install", "restore"} => dpc \in {"install", "restore"}
  PROVE  [Store!Next]_(Store!storeVars)
  <1>1. Kept' = Kept
    BY DEF Kept
  <1>2. CASE dpc' \in {"install", "restore"} \/ dpc \notin {"install", "restore"}
    <2>1. Stranded' = Stranded
      BY <1>1, <1>2 DEF Stranded
    <2> QED
      BY <1>1, <2>1 DEF Store!storeVars
  <1>3. CASE dpc' \notin {"install", "restore"} /\ dpc \in {"install", "restore"}
    <2>1. Stranded' = TRUE \/ Stranded' = Stranded
      BY <1>1, <1>3 DEF Stranded
    <2> QED
      BY <1>1, <2>1 DEF Store!Next, Store!Strand, Store!storeVars
  <1> QED
    BY <1>2, <1>3

\* Removing a file from the backup loses a snapshot only when it was stranded there.
LEMMA BackupStore ==
  ASSUME DirectoriesInv, NEW place \in {"clear", "drop"}, NEW next \in {"setAside", "idle"},
         RemovesBackup(place, next)
  PROVE  [Store!Next]_(Store!storeVars)
  <1>1. dpc = place /\ dpc' \in {place, next}
    BY DEF RemovesBackup, Goes
  <1>2. CASE disk' = disk
    BY <1>1, <1>2, QuietStore
  <1>3. CASE \E file \in disk["backup"] : disk' = [disk EXCEPT !["backup"] = @ \ {file}]
    <2>1. PICK file \in disk["backup"] : disk' = [disk EXCEPT !["backup"] = @ \ {file}]
      BY <1>3
    <2>2. disk'["target"] = disk["target"] /\ disk'["backup"] = disk["backup"] \ {file}
      BY <2>1 DEF DirectoriesInv, Directories
    <2>3. disk'["backup"] \notin Snapshots
      BY <2>2, BrokenSnapshot DEF DirectoriesInv
    <2>4. CASE disk["target"] # {}
      <3>1. Kept' = Kept /\ Stranded' = FALSE /\ Stranded = FALSE
        BY <2>2, <2>4 DEF Kept, Stranded
      <3> QED
        BY <3>1 DEF Store!storeVars
    <2>5. CASE disk["target"] = {}
      <3>1. Kept' = {} /\ Stranded' = FALSE
        BY <2>2, <2>3, <2>5 DEF Kept, Stranded
      <3>2. CASE Kept = {}
        <4>1. Stranded = FALSE
          BY <3>2 DEF Stranded
        <4> QED
          BY <3>1, <3>2, <4>1 DEF Store!storeVars
      <3>3. CASE Kept # {}
        <4>1. Stranded = TRUE
          BY <1>1, <2>5, <3>3 DEF Stranded
        <4> QED
          BY <3>1, <4>1 DEF Store!Next, Store!Lose
      <3> QED
        BY <3>2, <3>3
    <2> QED
      BY <2>4, <2>5
  <1> QED
    BY <1>2, <1>3 DEF RemovesBackup

\* Every call of the file system is a step of the store or none.
LEMMA StoreStep ==
  ASSUME DirectoriesInv, [DictionaryNext]_dictionaryVars
  PROVE  [Store!Next]_(Store!storeVars)
  <1> USE DEF Directories
  <1>1. CASE SetsAside
    <2>1. disk'["target"] = {} /\ disk'["backup"] = disk["target"] /\ dpc' = "install"
      BY <1>1 DEF SetsAside, Renamed, Goes, DirectoriesInv
    <2>2. dpc = "setAside" /\ disk["backup"] = {}
      BY <1>1 DEF SetsAside, DirectoriesInv
    <2>3. {} \notin Snapshots
      BY SnapshotFacts DEF Snapshots
    <2>4. Kept = disk["target"] /\ Kept' = disk["target"]
      BY <2>1, <2>2, <2>3 DEF Kept, DirectoriesInv, WholeOrNone
    <2>5. Stranded = FALSE /\ Stranded' = FALSE
      BY <2>1, <2>4 DEF Stranded
    <2> QED
      BY <2>4, <2>5 DEF Store!storeVars
  <1>2. CASE Installs
    <2>1. disk'["target"] = Snapshot(version) /\ dpc = "install"
      BY <1>2 DEF Installs, Renamed, DirectoriesInv
    <2>2. Snapshot(version) \in Snapshots /\ Snapshot(version) # {}
      BY SnapshotFacts DEF DirectoriesInv
    <2>3. Kept' \in Snapshots
      BY <2>1, <2>2 DEF Kept
    <2>4. Stranded = FALSE /\ Stranded' = FALSE
      BY <2>1, <2>2 DEF Stranded
    <2> QED
      BY <2>3, <2>4 DEF Store!Next, Store!Replace
  <1>3. CASE PutsBack
    <2>1. disk'["target"] = disk["backup"] /\ disk'["backup"] = {} /\ dpc = "restore"
      BY <1>3 DEF PutsBack, Renamed, DirectoriesInv
    <2>2. disk["target"] = {} /\ disk["backup"] \in WholeOrNone
      BY <2>1 DEF DirectoriesInv
    <2>3. {} \notin Snapshots
      BY SnapshotFacts DEF Snapshots
    <2>4. Kept = disk["backup"] /\ Kept' = disk["backup"]
      BY <2>1, <2>2, <2>3 DEF Kept, WholeOrNone
    <2>5. Stranded = FALSE /\ Stranded' = FALSE
      BY <2>1, <2>4 DEF Stranded
    <2> QED
      BY <2>4, <2>5 DEF Store!storeVars
  <1>4. CASE ClearsOldBackup \/ DropsBackup
    BY <1>4, BackupStore DEF ClearsOldBackup, DropsBackup
  <1>5. ASSUME ~SetsAside, ~Installs, ~PutsBack, ~ClearsOldBackup, ~DropsBackup
        PROVE  [Store!Next]_(Store!storeVars)
    <2>1. disk'["target"] = disk["target"] /\ disk'["backup"] = disk["backup"]
      BY <1>5 DEF DictionaryNext, dictionaryVars, Saves, UpdateBegins, Downloads, Writes, Compares,
                  UpdateFails, CleansUp, MigrationBegins, Moves, MigrationEnds, Ends, DirectoriesInv
    <2>2. dpc' \in {"install", "restore"} => dpc \in {"install", "restore"}
      BY <1>5 DEF DictionaryNext, dictionaryVars, Saves, UpdateBegins, Downloads, Writes, Compares,
                  UpdateFails, CleansUp, MigrationBegins, Moves, MigrationEnds, Ends, Goes,
                  AfterFailure
    <2> QED
      BY <2>1, <2>2, QuietStore
  <1> QED
    BY <1>1, <1>2, <1>3, <1>4, <1>5

\* The calls of update_profile, with all that may fail and with the end of NVDA
\* between any two, implement a store that replaces a snapshot in one step.
THEOREM StoreImplemented == DictionarySpec => ImplementsStore
  <1>1. DictionaryInit => Store!Init
    <2> SUFFICES ASSUME DictionaryInit PROVE Store!Init
      OBVIOUS
    <2>1. DirectoriesInv /\ disk["backup"] = {}
      <3>1. disk["backup"] = {}
        BY DEF DictionaryInit
      <3> QED
        BY <3>1, InitialDirectories
    <2>2. {} \notin Snapshots
      BY SnapshotFacts DEF Snapshots
    <2>3. Kept = disk["target"]
      BY <2>1, <2>2 DEF Kept
    <2> QED
      BY <2>1, <2>3 DEF Store!Init, Stranded, DirectoriesInv, WholeOrNone
  <1>2. DirectoriesInv /\ [DictionaryNext]_dictionaryVars => [Store!Next]_(Store!storeVars)
    BY StoreStep
  <1> QED
    BY <1>1, <1>2, DirectoriesInOrder, PTL DEF DictionarySpec, ImplementsStore, Store!Spec
=============================================================================
