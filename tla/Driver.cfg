SPECIFICATION DriverSpec
CONSTANTS
  Files = {"main", "root"}
  Archives <- TwoArchives
  Languages = {"enu", "deu"}
  Providers = {"alternative", "community"}
  MaxSnapshots = 2
  MaxFailures = 1
  Stacks <- ThreeStacks
  InitialLayers <- ThreeProfiles
  SettingValues = {1, 2}
  MaxChanges = 3
  Voices = {"enu", "deu"}
  InitialVoice = "enu"
  Pitches = {1, 2}
  InitialPitch = 1
  MaxOperations = 4
INVARIANTS
  DictionaryTypeOK
  LegacyKept
  EngineTypeOK
  DictionaryInForce
  ProfileTypeOK
  SnapshotsKept
  VoiceTypeOK
  OwnVoice
  NoLeakedProsody
  LatestSettingWins
PROPERTIES
  ImplementsStore
  UpdateTakesEffect
  ProfileRestored
