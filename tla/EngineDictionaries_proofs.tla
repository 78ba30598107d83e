---------------------- MODULE EngineDictionaries_proofs ----------------------
(***************************************************************************)
(* Theorems about EngineDictionaries for any languages and providers, any  *)
(* number of snapshots and of failures.                                    *)
(***************************************************************************)
EXTENDS EngineDictionaries, TLAPS

Choices == Providers \union {BuiltIn}

\* The cache has at most one dictionary for a key.
OneForKey ==
  \A h, k \in handles : h.language = k.language /\ h.directory = k.directory => h = k

\* What an activation needs of the state before it.
CacheOK ==
  /\ snapshot \in [Providers -> Nat]
  /\ handles \subseteq DictionaryHandles
  /\ OneForKey
  /\ active \in handles \union {NoDictionary}
  /\ failures \in 0 .. MaxFailures

\* The directory of a choice is the choice's own or none.
LEMMA DirectoryOfChoice ==
  ASSUME NEW choice \in Choices
  PROVE  ActiveDirectory(choice) \in {choice, BuiltIn} \intersect Choices
  BY DEF ActiveDirectory, Choices

\* The dictionary of a key carries that key.
LEMMA DictionaryType ==
  ASSUME CacheOK, NEW l \in Languages, NEW d \in Providers, NEW reload \in BOOLEAN
  PROVE  /\ Dictionary(l, d, reload) \in DictionaryHandles
         /\ Dictionary(l, d, reload).language = l
         /\ Dictionary(l, d, reload).directory = d
  <1>1. CASE OfKey(l, d) # {} /\ ~reload
    <2> DEFINE h == CHOOSE x \in OfKey(l, d) : TRUE
    <2>1. h \in OfKey(l, d)
      BY <1>1
    <2>2. Dictionary(l, d, reload) = h
      BY <1>1 DEF Dictionary
    <2> HIDE DEF h
    <2> QED
      BY <2>1, <2>2 DEF OfKey, CacheOK
  <1>2. CASE ~(OfKey(l, d) # {} /\ ~reload)
    <2>1. Dictionary(l, d, reload) = [language |-> l, directory |-> d, version |-> snapshot[d]]
      BY <1>2 DEF Dictionary
    <2>2. snapshot[d] \in Nat
      BY DEF CacheOK
    <2> QED
      BY <2>1, <2>2 DEF DictionaryHandles
  <1> QED
    BY <1>1, <1>2

\* An activation, whether it succeeds or fails, leaves a cache in order: a key is
\* not added beside the handle it has, and a deleted handle is not in use.
LEMMA ActivationKeepsCache ==
  ASSUME CacheOK, NEW l \in Languages, NEW d \in Choices, NEW reload \in BOOLEAN,
         ActivateDictionaries(l, d, reload)
  PROVE  /\ handles' \subseteq DictionaryHandles
         /\ OneForKey'
         /\ active' \in handles' \union {NoDictionary}
         /\ failed' \in BOOLEAN
         /\ failures' \in 0 .. MaxFailures
  <1> DEFINE rest == Remaining(l, d, reload)
             new  == Dictionary(l, d, reload)
  <1>1. rest \subseteq handles
    BY DEF Remaining
  <1>2. CASE NotActivated(l, d, reload)
    <2>1. handles' = rest /\ active' \in rest \union {NoDictionary}
      BY <1>2 DEF NotActivated
    <2>2. failed' = TRUE /\ failures' \in 0 .. MaxFailures
      BY <1>2, EngineAssumption DEF NotActivated, Fails, CacheOK
    <2> QED
      BY <1>1, <2>1, <2>2 DEF CacheOK, OneForKey
  <1>3. CASE Activated(l, d, reload) /\ d = BuiltIn
    BY <1>3 DEF Activated, CacheOK, OneForKey
  <1>4. CASE Activated(l, d, reload) /\ d # BuiltIn
    <2>1. d \in Providers
      BY <1>4 DEF Choices
    <2>2. handles' = rest \union {new} /\ active' = new /\ failed' = FALSE
          /\ failures' = failures
      BY <1>4 DEF Activated
    <2>3. new \in DictionaryHandles /\ new.language = l /\ new.directory = d
      BY <2>1, DictionaryType
    <2>4. \A h \in rest : h.language = l /\ h.directory = d => h = new
      <3> SUFFICES ASSUME NEW h \in rest, h.language = l, h.directory = d
                   PROVE  h = new
        OBVIOUS
      <3>1. h \in OfKey(l, d)
        BY <1>1 DEF OfKey
      <3>2. ~reload
        BY <3>1 DEF Remaining
      <3>3. new = CHOOSE x \in OfKey(l, d) : TRUE
        BY <3>1, <3>2 DEF Dictionary
      <3>4. new \in OfKey(l, d)
        BY <3>1, <3>3
      <3> HIDE DEF new
      <3> QED
        BY <3>1, <3>4 DEF OfKey, CacheOK, OneForKey
    <2> HIDE DEF rest, new
    <2>5. OneForKey'
      BY <1>1, <2>2, <2>3, <2>4 DEF CacheOK, OneForKey
    <2> QED
      BY <1>1, <2>2, <2>3, <2>5 DEF CacheOK
  <1> QED
    BY <1>2, <1>3, <1>4 DEF ActivateDictionaries

\* An activation that does not fail puts the dictionary of its key in use.
LEMMA ActivationInForce ==
  ASSUME CacheOK, NEW l \in Languages, NEW d \in Choices, NEW reload \in BOOLEAN,
         ActivateDictionaries(l, d, reload), ~failed'
  PROVE  IF d = BuiltIn THEN active' = NoDictionary
         ELSE active'.language = l /\ active'.directory = d
  <1>1. Activated(l, d, reload)
    BY DEF ActivateDictionaries, NotActivated, Fails
  <1>2. CASE d = BuiltIn
    BY <1>1, <1>2 DEF Activated
  <1>3. CASE d # BuiltIn
    <2>1. active' = Dictionary(l, d, reload)
      BY <1>1, <1>3 DEF Activated
    <2> QED
      BY <1>3, <2>1, DictionaryType DEF Choices
  <1> QED
    BY <1>2, <1>3

\* The type invariant has what an activation needs.
LEMMA TypeGivesCache == EngineTypeOK => CacheOK
  <1> SUFFICES ASSUME EngineTypeOK PROVE CacheOK
    OBVIOUS
  <1>1. snapshot \in [Providers -> Nat]
    BY EngineAssumption DEF EngineTypeOK
  <1> QED
    BY <1>1 DEF EngineTypeOK, CacheOK, OneForKey

\* Every step leaves the cache and the dictionary in use in order.
LEMMA EngineTypeStep == EngineTypeOK /\ [EngineNext]_engineVars => EngineTypeOK'
  <1> SUFFICES ASSUME EngineTypeOK, [EngineNext]_engineVars PROVE EngineTypeOK'
    OBVIOUS
  <1>0. CacheOK
    BY TypeGivesCache
  <1>1. ASSUME NEW l \in Languages, SetLanguage(l) PROVE EngineTypeOK'
    <2>1. directory \in Choices /\ ActivateDictionaries(l, directory, FALSE)
      BY <1>1 DEF SetLanguage, EngineTypeOK, Choices
    <2> QED
      BY <1>0, <1>1, <2>1, ActivationKeepsCache DEF SetLanguage, EngineTypeOK, OneForKey
  <1>2. ASSUME NEW choice \in Choices, Selects(choice) PROVE EngineTypeOK'
    <2> DEFINE d == ActiveDirectory(choice)
    <2>1. d \in Choices /\ ActivateDictionaries(language, d, FALSE)
      BY <1>2, DirectoryOfChoice DEF Selects, SetDictionaryDirectory
    <2>2. directory' = d /\ UNCHANGED << snapshot, language, updating >>
      BY <1>2 DEF Selects, SetDictionaryDirectory
    <2> HIDE DEF d
    <2> QED
      BY <1>0, <2>1, <2>2, ActivationKeepsCache DEF EngineTypeOK, OneForKey, Choices
  <1>3. ASSUME NEW p \in Providers, Installed(p) PROVE EngineTypeOK'
    <2>1. snapshot' \in [Providers -> 0 .. MaxSnapshots]
      BY <1>3, EngineAssumption DEF Installed, EngineTypeOK
    <2> QED
      BY <1>3, <2>1 DEF Installed, EngineTypeOK
  <1>4. CASE ActivatesUpdate
    <2> DEFINE d == ActiveDirectory(updating)
    <2>1. d \in Choices /\ ActivateDictionaries(language, d, TRUE)
      BY <1>4, DirectoryOfChoice DEF ActivatesUpdate, SetDictionaryDirectory, EngineTypeOK, Choices
    <2>2. directory' = d /\ updating' = BuiltIn /\ UNCHANGED << snapshot, language >>
      BY <1>4 DEF ActivatesUpdate, SetDictionaryDirectory
    <2> HIDE DEF d
    <2> QED
      BY <1>0, <2>1, <2>2, ActivationKeepsCache DEF EngineTypeOK, OneForKey, Choices
  <1>5. CASE UpdateRaises
    BY <1>5, EngineAssumption DEF UpdateRaises, Fails, EngineTypeOK
  <1>6. ASSUME NEW l \in Languages, NEW choice \in Choices, Restarts(l, choice)
        PROVE  EngineTypeOK'
    <2>1. CASE directory' = BuiltIn
      BY <1>6, <2>1 DEF Restarts, EngineTypeOK
    <2>2. CASE directory' # BuiltIn
      <3>1. directory' = choice /\ choice \in Providers
        BY <1>6, <2>2, DirectoryOfChoice DEF Restarts, Choices
      <3>2. active' = [language |-> l, directory |-> choice, version |-> snapshot[choice]]
        BY <1>6, <2>2 DEF Restarts
      <3>3. snapshot[choice] \in Nat
        BY <1>0, <3>1 DEF CacheOK
      <3>4. active' \in DictionaryHandles
        BY <3>1, <3>2, <3>3 DEF DictionaryHandles
      <3>5. handles' \subseteq {active'} /\ active' \in handles' \union {NoDictionary}
        BY <1>6 DEF Restarts
      <3>6. language' \in Languages /\ failed' = FALSE /\ UNCHANGED << snapshot, updating, failures >>
        BY <1>6 DEF Restarts
      <3> QED
        BY <3>1, <3>4, <3>5, <3>6 DEF EngineTypeOK
    <2> QED
      BY <2>1, <2>2
  <1>7. CASE UNCHANGED engineVars
    BY <1>7 DEF engineVars, EngineTypeOK
  <1> QED
    BY <1>1, <1>2, <1>3, <1>4, <1>5, <1>6, <1>7 DEF EngineNext, Choices

\* ECI is never left with a dictionary that has been deleted, and the cache has one
\* handle for a key, whatever fails between a reload and the replacement.
THEOREM EngineTypeCorrect == EngineSpec => []EngineTypeOK
  <1>1. EngineInit => EngineTypeOK
    <2> SUFFICES ASSUME EngineInit PROVE EngineTypeOK
      OBVIOUS
    <2>1. snapshot \in [Providers -> 0 .. MaxSnapshots] /\ failures \in 0 .. MaxFailures
      BY EngineAssumption DEF EngineInit
    <2>2. handles = {} /\ active = NoDictionary /\ failed = FALSE
      BY DEF EngineInit
    <2>3. directory \in Providers \union {BuiltIn} /\ language \in Languages
          /\ updating \in Providers \union {BuiltIn}
      BY DEF EngineInit
    <2> QED
      BY <2>1, <2>2, <2>3 DEF EngineTypeOK
  <1> QED
    BY <1>1, EngineTypeStep, PTL DEF EngineSpec

\* The dictionary in use is that of the language and of the profile, unless the
\* last activation failed.
THEOREM DictionaryAlwaysInForce == EngineSpec => []DictionaryInForce
  <1>1. EngineInit => DictionaryInForce
    BY DEF EngineInit, DictionaryInForce
  <1>2. EngineTypeOK /\ DictionaryInForce /\ [EngineNext]_engineVars => DictionaryInForce'
    <2> SUFFICES ASSUME EngineTypeOK, DictionaryInForce, [EngineNext]_engineVars, ~failed'
                 PROVE  IF directory' = BuiltIn THEN active' = NoDictionary
                        ELSE active'.language = language' /\ active'.directory = directory'
      BY DEF DictionaryInForce
    <2>0. CacheOK
      BY TypeGivesCache
    <2>1. ASSUME NEW l \in Languages, SetLanguage(l) PROVE DictionaryInForce'
      <3>1. directory \in Choices /\ ActivateDictionaries(l, directory, FALSE)
        BY <2>1 DEF SetLanguage, EngineTypeOK, Choices
      <3> QED
        BY <2>0, <2>1, <3>1, ActivationInForce DEF SetLanguage, DictionaryInForce
    <2>2. ASSUME NEW d \in Choices, NEW reload \in BOOLEAN, SetDictionaryDirectory(d, reload)
          PROVE  DictionaryInForce'
      <3>1. language \in Languages /\ ActivateDictionaries(language, d, reload)
        BY <2>2 DEF SetDictionaryDirectory, EngineTypeOK
      <3> QED
        BY <2>0, <2>2, <3>1, ActivationInForce DEF SetDictionaryDirectory, DictionaryInForce
    <2>3. ASSUME NEW choice \in Choices, Selects(choice) PROVE DictionaryInForce'
      BY <2>2, <2>3, DirectoryOfChoice DEF Selects
    <2>4. ASSUME ActivatesUpdate PROVE DictionaryInForce'
      BY <2>2, <2>4, DirectoryOfChoice DEF ActivatesUpdate, EngineTypeOK, Choices
    <2>5. ASSUME NEW p \in Providers, Installed(p) PROVE DictionaryInForce'
      BY <2>5 DEF Installed, DictionaryInForce
    <2>6. ASSUME UpdateRaises PROVE DictionaryInForce'
      BY <2>6 DEF UpdateRaises, Fails
    <2>7. ASSUME NEW l \in Languages, NEW choice \in Choices, Restarts(l, choice)
          PROVE  DictionaryInForce'
      BY <2>7, DirectoryOfChoice DEF Restarts, DictionaryInForce
    <2>8. ASSUME UNCHANGED engineVars PROVE DictionaryInForce'
      BY <2>8 DEF engineVars, DictionaryInForce
    <2>9. DictionaryInForce'
      BY <2>1, <2>3, <2>4, <2>5, <2>6, <2>7, <2>8 DEF EngineNext, Choices
    <2> QED
      BY <2>9 DEF DictionaryInForce
  <1> QED
    BY <1>1, <1>2, EngineTypeCorrect, PTL DEF EngineSpec

\* An update that ends without an error is heard in the language that is spoken.
THEOREM UpdatesTakeEffect == EngineSpec => UpdateTakesEffect
  <1>1. ASSUME EngineTypeOK, [EngineNext]_engineVars,
               updating # BuiltIn, updating' = BuiltIn, ~failed'
        PROVE  active'.version = snapshot[updating]
    <2>1. ActivatesUpdate
      BY <1>1 DEF EngineNext, SetLanguage, Selects, Installed, UpdateRaises, Fails, Restarts,
                  engineVars
    <2> DEFINE d == ActiveDirectory(updating)
    <2>2. Activated(language, d, TRUE)
      BY <1>1, <2>1 DEF ActivatesUpdate, SetDictionaryDirectory, ActivateDictionaries,
                        NotActivated, Fails
    <2>3. updating \in Providers /\ snapshot[updating] \in Nat
      BY <1>1, EngineAssumption DEF EngineTypeOK
    <2>4. CASE snapshot[updating] > 0
      <3>1. d = updating /\ d # BuiltIn
        BY <1>1, <2>3, <2>4 DEF ActiveDirectory
      <3>2. active' = [language |-> language, directory |-> d, version |-> snapshot[d]]
        BY <2>2, <3>1 DEF Activated, Dictionary
      <3> QED
        BY <3>1, <3>2
    <2>5. CASE ~(snapshot[updating] > 0)
      <3>1. active' = NoDictionary
        BY <2>2, <2>5 DEF Activated, ActiveDirectory
      <3>2. snapshot[updating] = 0
        BY <2>3, <2>5
      <3>3. NoDictionary.version = 0
        BY DEF NoDictionary
      <3> QED
        BY <3>1, <3>2, <3>3
    <2> QED
      BY <2>4, <2>5
  <1>2. EngineTypeOK /\ [EngineNext]_engineVars
          => [updating # BuiltIn /\ updating' = BuiltIn /\ ~failed'
              => active'.version = snapshot[updating]]_engineVars
    BY <1>1
  <1> QED
    BY <1>2, EngineTypeCorrect, PTL DEF EngineSpec, UpdateTakesEffect
=============================================================================
