----------------------------- MODULE ProfileIsolation -----------------------------
(***************************************************************************)
(* The settings of NVDA's configuration profiles as eloquence.py keeps     *)
(* them apart: a snapshot for each stack of active profiles, taken from    *)
(* NVDA's raw layers, changed by the settings ring and by Apply or OK, and *)
(* put back into the driver and into NVDA's configuration whenever a stack *)
(* becomes active.                                                         *)
(*                                                                         *)
(* Everything runs on NVDA's main thread.  A profile switch is one call of *)
(* NVDA: its own handler loads the settings, into a new driver when the    *)
(* audio device changes too, and then comes _handle_profile_switch.  What  *)
(* wx.CallAfter is given runs in a later turn.                             *)
(***************************************************************************)
EXTENDS Naturals, Sequences

CONSTANTS
  Stacks,         \* the stacks of profiles that become active, the base first
  InitialLayers,  \* what each profile states before the session
  SettingValues,         \* the values a setting takes
  MaxChanges      \* bound: what the user changes or saves

\* The two settings that are loaded one after the other and are not independent:
\* _set_variant copies a voice of ECI, which brings a pitch of its own.
Settings == {"variant", "pitch"}
Missing == 0
OwnPitch(variant) == variant
Default == [s \in Settings |-> 1]

Layers == DOMAIN InitialLayers
Stated == [Settings -> SettingValues \union {Missing}]

ASSUME ProfilesAssumption ==
  /\ 1 \in SettingValues /\ SettingValues \subseteq Nat \ {Missing}
  /\ InitialLayers \in [Layers -> Stated]
  /\ Stacks \subseteq Seq(Layers) \ {<< >>}
  /\ MaxChanges \in Nat

VARIABLES
  layers,     \* NVDA's raw profiles: the settings each states
  stack,      \* _active_profile_stack()
  current,    \* _current_profile_stack, << >> for None
  snapshots,  \* _profile_settings_by_stack
  pending,    \* _pending_profile_setting_changes: the value before the change
  confirms,   \* the calls of confirm_if_config_was_updated in wx's queue
  driver,     \* the settings the driver has
  ppc,        \* what NVDA calls next: "load", "switch", "handle", or it is "ready"
  kept,       \* history: what the user has last settled for each stack
  unsettled,  \* history: ring changes whose confirmation a load came before
  changes     \* history: how often the user has changed or saved something

profileVars ==
  << layers, stack, current, snapshots, pending, confirms, driver, ppc,
     kept, unsettled, changes >>

-----------------------------------------------------------------------------
(* NVDA's configuration.                                                   *)

States(st, s) == {k \in DOMAIN st : layers[st[k]][s] # Missing}
Topmost(K) == CHOOSE k \in K : \A j \in K : j <= k

\* _eloquence_settings_from_profile_layers: the topmost layer that states a setting.
Merged(st) ==
  [s \in Settings |->
     IF States(st, s) = {} THEN Missing ELSE layers[st[Topmost(States(st, s))]][s]]

Or(values, others) == [s \in Settings |-> IF values[s] = Missing THEN others[s] ELSE values[s]]
Visible(st) == Or(Merged(st), Default)
Top(st) == st[Len(st)]

\* config.conf["speech"]["eloquence"]: a value that is written goes to the top
\* layer, unless it is the one that is read.
View == Visible(stack)
Configured(values) ==
  layers' = [layers EXCEPT ![Top(stack)] =
               [s \in Settings |-> IF values[s] \in {Missing, View[s]} THEN @[s] ELSE values[s]]]

-----------------------------------------------------------------------------
(* The driver and the snapshots.                                           *)

\* Setters, in the order of _PROFILE_SETTING_IDS: the variant before the pitch.
After(d, values) ==
  Or(values, [d EXCEPT !["pitch"] = IF values["variant"] = Missing THEN @
                                     ELSE OwnPitch(values["variant"])])
Only(s, v) == [[t \in Settings |-> Missing] EXCEPT ![s] = v]

\* _set_variant and _set_pitch.
Set(s, v) == driver' = After(driver, Only(s, v))

IsEmpty(values) == \A s \in Settings : values[s] = Missing

\* _capture_unseen_active_profile; a configuration that states nothing has defaults.
CapturedOf(st) == IF IsEmpty(Merged(st)) THEN Visible(st) ELSE Merged(st)

\* Mutant of PreloadedStacks: a profile is captured when it first becomes active.
NonePreloaded == {}

\* _preload_named_profile_snapshots, once: each named profile alone on the base.
PreloadedStacks ==
  IF current # << >> THEN {} ELSE {st \in Stacks : Len(st) = 2 /\ ~IsEmpty(Merged(st))}

Captured ==
  LET taken == ({stack} \union PreloadedStacks) \ DOMAIN snapshots
  IN  [st \in DOMAIN snapshots \union taken |->
         IF st \notin taken THEN snapshots[st]
         ELSE IF st = stack THEN CapturedOf(st) ELSE Merged(st)]

PendingOf(st) == {p \in DOMAIN pending : p[1] = st}
NotPendingOf(st) == [p \in DOMAIN pending \ PendingOf(st) |-> pending[p]]

\* Mutant of Discarded: previews stay in the snapshot.
NothingDiscarded(known) == known

\* _discard_pending_profile_settings.
Discarded(known) ==
  [st \in DOMAIN known |->
     [s \in Settings |-> IF << st, s >> \in PendingOf(current) THEN pending[<< st, s >>]
                         ELSE known[st][s]]]

\* _remember_current_profile_setting; the first value before a change is kept.
Remembers(s, v) ==
  /\ snapshots' = [snapshots EXCEPT ![current][s] = v]
  /\ pending' = [p \in DOMAIN pending \union {<< current, s >>} |->
                   IF p \in DOMAIN pending THEN pending[p] ELSE snapshots[current][s]]
  /\ confirms' = Append(confirms, [stack |-> current, setting |-> s, value |-> v])

\* _apply_profile_snapshot, which does nothing with an empty one, and
\* _sync_profile_snapshot_to_config.
RestoresSnapshot(loaded, values) ==
  /\ driver' = After(loaded, values)
  /\ Configured(values)

-----------------------------------------------------------------------------

ProfileInit ==
  /\ layers = InitialLayers
  /\ stack \in Stacks
  /\ current = << >> /\ snapshots = << >> /\ pending = << >> /\ confirms = << >>
  /\ driver = After(Default, Default) /\ ppc = "load"
  /\ kept = [st \in Stacks |-> Merged(st)] /\ unsettled = {} /\ changes = 0

\* The base alone, several named profiles, and one that states nothing with the base
\* are captured when they first become active.
CannotBePreloaded(st) ==
  st \notin DOMAIN snapshots /\ (Len(st) # 2 \/ IsEmpty(kept[st]))

\* loadSettings.  NVDA's loader sets what the merged view shows; _ensure_profile_
\* isolation_handler makes the stack the current one the first time.
Load ==
  /\ ppc \in {"load", "switch"}
  /\ LET known == IF current = << >> THEN Captured ELSE Discarded(Captured)
     IN  /\ snapshots' = known
         /\ current' = IF current = << >> THEN stack ELSE current
         /\ IF current' = stack THEN RestoresSnapshot(View, known[stack])
            ELSE driver' = View /\ UNCHANGED layers
  /\ pending' = NotPendingOf(current)
  /\ ppc' = IF ppc = "switch" THEN "handle" ELSE "ready"
  /\ kept' = IF CannotBePreloaded(stack) THEN [kept EXCEPT ![stack] = CapturedOf(stack)] ELSE kept
  /\ UNCHANGED << stack, confirms, unsettled, changes >>

\* Mutant of HandlesSwitch: the snapshot is restored, but not made the current one.
HandlesOther ==
  /\ ppc = "handle"
  /\ RestoresSnapshot(driver, snapshots[stack])
  /\ ppc' = "ready"
  /\ UNCHANGED << stack, current, snapshots, pending, confirms, kept, unsettled, changes >>

\* _handle_profile_switch.
HandlesSwitch ==
  /\ ppc = "handle"
  /\ current' = stack
  /\ RestoresSnapshot(driver, snapshots[stack])
  /\ ppc' = "ready"
  /\ UNCHANGED << stack, snapshots, pending, confirms, kept, unsettled, changes >>

Unsettles ==
  unsettled' = unsettled \union
    {<< confirms[k].stack, confirms[k].setting >> : k \in DOMAIN confirms}

\* NVDA activates another stack.  When the driver is made anew, NVDA may have put
\* the values of the outgoing one into the incoming layer; the code takes a stack
\* that could not be preloaded for unharmed when it first becomes active.
Switches(st) ==
  /\ ppc = "ready" /\ st # stack
  /\ stack' = st
  /\ \/ UNCHANGED layers
     \/ /\ ~CannotBePreloaded(st)
        /\ layers' = [layers EXCEPT ![Top(st)] = driver]
  /\ ppc' = "switch"
  /\ Unsettles
  /\ UNCHANGED << current, snapshots, pending, confirms, driver, kept, changes >>

UserChanges == ppc = "ready" /\ changes < MaxChanges /\ changes' = changes + 1

\* The settings ring calls the setter and writes the configuration.
RingChange(s, v) ==
  /\ UserChanges
  /\ Set(s, v) /\ Remembers(s, v) /\ Configured(Only(s, v))
  /\ kept' = [kept EXCEPT ![current][s] = v]
  /\ unsettled' = unsettled \ {<< current, s >>}
  /\ UNCHANGED << stack, current, ppc >>

\* An event of a dialog: wx has by then run what was in its queue.
DialogEvent == confirms = << >> /\ UserChanges

\* A control of the voice panel calls the setter only.
Preview(s, v) ==
  /\ DialogEvent
  /\ Set(s, v) /\ Remembers(s, v)
  /\ UNCHANGED << layers, stack, current, ppc, kept, unsettled >>

\* saveSettings: NVDA writes the driver's values, and the add-on commits them.
Save ==
  /\ DialogEvent
  /\ Configured(driver)
  /\ snapshots' = [snapshots EXCEPT ![current] = driver]
  /\ pending' = NotPendingOf(current)
  /\ kept' = [kept EXCEPT ![current] = driver]
  /\ unsettled' = {p \in unsettled : p[1] # current}
  /\ UNCHANGED << stack, current, confirms, driver, ppc >>

\* Cancel, and a driver that is made anew for the same profile, load the settings.
Reloads ==
  /\ ppc = "ready" /\ confirms = << >>
  /\ ppc' = "load"
  /\ UNCHANGED << layers, stack, current, snapshots, pending, confirms, driver,
                  kept, unsettled, changes >>

\* Mutant of IsConfirmed: the configuration is not looked at.
ConfirmedUnseen(c) == stack = c.stack

IsConfirmed(c) == stack = c.stack /\ View[c.setting] = c.value

\* confirm_if_config_was_updated.
Confirms ==
  /\ ppc = "ready" /\ confirms # << >>
  /\ LET c == Head(confirms)
     IN  pending' = [p \in DOMAIN pending \
                       (IF IsConfirmed(c) THEN {<< c.stack, c.setting >>} ELSE {}) |-> pending[p]]
  /\ confirms' = Tail(confirms)
  /\ UNCHANGED << layers, stack, current, snapshots, driver, ppc, kept,
                  unsettled, changes >>

ProfileNext ==
  \/ Load \/ HandlesSwitch \/ Save \/ Reloads \/ Confirms
  \/ \E st \in Stacks : Switches(st)
  \/ \E s \in Settings, v \in SettingValues : RingChange(s, v) \/ Preview(s, v)

ProfileSpec == ProfileInit /\ [][ProfileNext]_profileVars

-----------------------------------------------------------------------------
(* Properties.                                                             *)

ProfileTypeOK ==
  /\ layers \in [Layers -> Stated]
  /\ stack \in Stacks /\ current \in Stacks \union {<< >>}
  /\ DOMAIN snapshots \subseteq Stacks /\ \A st \in DOMAIN snapshots : snapshots[st] \in Stated
  /\ DOMAIN pending \subseteq (DOMAIN snapshots) \X Settings
  /\ \A p \in DOMAIN pending : pending[p] \in SettingValues \union {Missing}
  /\ confirms \in Seq([stack : Stacks, setting : Settings, value : SettingValues])
  /\ driver \in [Settings -> SettingValues]
  /\ ppc \in {"load", "switch", "handle", "ready"}
  /\ kept \in [Stacks -> Stated]
  /\ unsettled \subseteq Stacks \X Settings
  /\ changes \in 0 .. MaxChanges
  /\ current # << >> => current \in DOMAIN snapshots
  /\ ppc = "ready" => current = stack

Settled(st, s) ==
  /\ << st, s >> \notin unsettled
  /\ \A k \in DOMAIN confirms : ~(confirms[k].stack = st /\ confirms[k].setting = s)

\* Once its previews are discarded, the snapshot of every stack is what the user
\* has last settled for it: neither a preview nor another profile's value is
\* among it, whatever was switched, previewed, cancelled or saved in between.  (A
\* preview of the very default of a setting that no layer states does stay.)
SnapshotsKept ==
  \A st \in DOMAIN snapshots : \A s \in Settings :
    kept[st][s] # Missing /\ Settled(st, s) =>
      kept[st][s] = IF << st, s >> \in DOMAIN pending THEN pending[<< st, s >>]
                    ELSE snapshots[st][s]

Loaded == ppc # "ready" /\ ppc' = "ready"

\* After a switch or a load both the driver and NVDA's configuration have what the
\* user has settled for the active stack, even when NVDA has put the values of the
\* outgoing profile before it.  This is about the settings that a profile of the
\* stack or the user states for it (kept): of the others the snapshot knows nothing.
ProfileRestored ==
  [][Loaded =>
       \A s \in Settings :
         kept'[stack][s] # Missing /\ Settled(stack, s) =>
           driver'[s] = kept'[stack][s] /\ View'[s] = kept'[stack][s]]_profileVars

\* "The engine and NVDA's aggregated configuration must agree", and no "crossed
\* values" stay where NVDA would write them to disk: what nobody states for a stack
\* is not stated by its topmost profile once it is loaded.
NoCrossedValues ==
  [][Loaded =>
       /\ driver' = View'
       /\ \A s \in Settings :
            kept'[stack][s] = Missing => layers'[Top(stack)][s] = Missing]_profileVars
=============================================================================
