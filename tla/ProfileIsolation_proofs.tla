----------------------- MODULE ProfileIsolation_proofs -----------------------
(***************************************************************************)
(* Theorems about ProfileIsolation for any profiles, any values of the     *)
(* settings and any number of changes.                                     *)
(***************************************************************************)
EXTENDS ProfileIsolation, WellFoundedInduction, TLAPS

Values == [Settings -> SettingValues]

\* What holds between the calls of NVDA: before the first load nothing is known, a
\* load finds no confirmation to come, and only the current stack has previews.
Phases ==
  /\ current = << >> =>
       /\ ppc = "load" /\ DOMAIN pending = {} /\ DOMAIN snapshots = {} /\ unsettled = {}
       /\ \A st \in Stacks : kept[st] = Merged(st)
  /\ ppc = "load" => current \in {<< >>, stack} /\ confirms = << >>
  /\ ppc \in {"switch", "handle"} => current # stack /\ current # << >>
  /\ ppc = "handle" => driver = View /\ stack \in DOMAIN snapshots /\ DOMAIN pending = {}
  /\ \A p \in DOMAIN pending : p[1] = current

TypeInv == ProfileTypeOK /\ Phases

\* The confirmations to come for a setting of a stack.
Waits(st, s) == {k \in DOMAIN confirms : confirms[k].stack = st /\ confirms[k].setting = s}

\* What the snapshot has once the previews are discarded.
WithoutPreview(st, s) ==
  IF << st, s >> \in DOMAIN pending THEN pending[<< st, s >>] ELSE snapshots[st][s]

\* The user has at most previewed the setting: no confirmation to come will be given.
OnlyPreviewed(st, s) ==
  /\ kept[st][s] = WithoutPreview(st, s)
  /\ \A k \in Waits(st, s) : confirms[k].value # View[s]

\* The user has changed the setting: its snapshot is what was settled, and what is
\* still pending of it will be confirmed.
WillBeConfirmed(st, s) ==
  /\ kept[st][s] = snapshots[st][s]
  /\ << st, s >> \in DOMAIN pending =>
       \E k \in Waits(st, s) : confirms[k].value = View[s]

Agrees(st, s) ==
  /\ Waits(st, s) # {} => ppc = "ready" /\ st = stack
  /\ kept[st][s] # Missing => OnlyPreviewed(st, s) \/ WillBeConfirmed(st, s)
  /\ kept[st][s] # Missing /\ ppc = "ready" /\ st = stack => View[s] = kept[st][s]

\* A stack that could be preloaded has been, and every snapshot agrees with what the
\* user has settled.
SettledInv ==
  /\ current # << >> =>
       \A st \in Stacks : Len(st) = 2 /\ st \notin DOMAIN snapshots => IsEmpty(kept[st])
  /\ \A k \in DOMAIN confirms : confirms[k].stack \in DOMAIN snapshots
  /\ \A st \in DOMAIN snapshots, s \in Settings :
       << st, s >> \notin unsettled => Agrees(st, s)

-----------------------------------------------------------------------------
(* NVDA's configuration.                                                   *)

\* Among the positions of a stack that state a setting there is a topmost one.
LEMMA TopmostExists ==
  ASSUME NEW n \in Nat, NEW K \in SUBSET (1 .. n), K # {}
  PROVE  /\ Topmost(K) \in K
         /\ \A j \in K : j <= Topmost(K)
  <1> DEFINE Depths == {n - k : k \in K}
  <1>1. Depths \subseteq Nat /\ Depths # {}
    <2>1. \A k \in K : n - k \in Nat
      OBVIOUS
    <2>2. PICK k \in K : TRUE
      OBVIOUS
    <2>3. n - k \in Depths
      BY <2>2
    <2> QED
      BY <2>1, <2>3
  <1>2. PICK d \in Depths : \A e \in Depths : ~(<< e, d >> \in OpToRel(<, Nat))
    BY <1>1, NatLessThanWellFounded, WFMin
  <1>3. \A e \in Depths : ~(e < d)
    BY <1>1, <1>2 DEF OpToRel
  <1>4. PICK k \in K : d = n - k
    OBVIOUS
  <1>5. \A j \in K : j <= k
    <2>1. TAKE j \in K
    <2>2. n - j \in Depths /\ ~(n - j < n - k)
      BY <1>3, <1>4
    <2> QED
      BY <2>2
  <1> QED
    BY <1>4, <1>5 DEF Topmost

\* The last position of a stack is the topmost one if it is among them.
LEMMA TopmostIsLast ==
  ASSUME NEW n \in Nat, NEW K \in SUBSET (1 .. n), n \in K
  PROVE  Topmost(K) = n
  <1> DEFINE top == Topmost(K)
  <1>1. top \in K /\ \A j \in K : j <= top
    BY TopmostExists
  <1>2. top \in 1 .. n /\ n <= top
    BY <1>1
  <1> HIDE DEF top
  <1>3. top = n
    BY <1>2
  <1> QED
    BY <1>3 DEF top

\* A stack is a sequence of layers, and the last of them is its top.
LEMMA StackFacts ==
  ASSUME NEW st \in Stacks
  PROVE  /\ Len(st) \in Nat \ {0} /\ DOMAIN st = 1 .. Len(st)
         /\ \A k \in DOMAIN st : st[k] \in Layers
         /\ Len(st) \in DOMAIN st /\ Top(st) = st[Len(st)] /\ Top(st) \in Layers
  <1>1. st \in Seq(Layers) /\ st # << >>
    BY ProfilesAssumption
  <1> QED
    BY <1>1 DEF Top

\* What is merged from the layers states settings, and what is visible states all.
LEMMA LayerTypes ==
  ASSUME layers \in [Layers -> Stated], NEW st \in Stacks
  PROVE  /\ Merged(st) \in Stated
         /\ Visible(st) \in Values
         /\ CapturedOf(st) \in Stated
  <1>1. ASSUME NEW s \in Settings
        PROVE  Merged(st)[s] \in SettingValues \union {Missing}
    <2>1. States(st, s) \in SUBSET (1 .. Len(st)) /\ Len(st) \in Nat
      BY StackFacts DEF States
    <2>2. CASE States(st, s) = {}
      BY <2>2 DEF Merged
    <2>3. CASE States(st, s) # {}
      <3>1. Topmost(States(st, s)) \in DOMAIN st
        BY <2>1, <2>3, TopmostExists, StackFacts
      <3>2. layers[st[Topmost(States(st, s))]] \in Stated
        BY <3>1, StackFacts
      <3> QED
        BY <2>3, <3>2 DEF Merged, Stated
    <2> QED
      BY <2>2, <2>3
  <1>2. Merged(st) \in Stated
    BY <1>1 DEF Merged, Stated
  <1>3. Visible(st) \in Values
    BY <1>2, ProfilesAssumption DEF Visible, Or, Default, Stated, Values
  <1>4. Values \subseteq Stated
    BY DEF Values, Stated
  <1> QED
    BY <1>2, <1>3, <1>4 DEF CapturedOf

\* Setters: what is stated is set.
LEMMA AfterFacts ==
  ASSUME NEW d \in Values, NEW values \in Stated
  PROVE  /\ After(d, values) \in Values
         /\ \A s \in Settings : values[s] # Missing => After(d, values)[s] = values[s]
  <1> DEFINE Copied == [d EXCEPT !["pitch"] = IF values["variant"] = Missing THEN @
                                              ELSE OwnPitch(values["variant"])]
  <1>1. "variant" \in Settings /\ "pitch" \in Settings
    BY DEF Settings
  <1>2. Copied \in Values
    BY <1>1 DEF Values, Stated, OwnPitch
  <1>3. After(d, values) = Or(values, Copied)
    BY DEF After
  <1>4. After(d, values) \in Values
    BY <1>2, <1>3 DEF Or, Values, Stated
  <1>5. \A s \in Settings : values[s] # Missing => After(d, values)[s] = values[s]
    BY <1>3 DEF Or
  <1> HIDE DEF Copied
  <1> QED
    BY <1>4, <1>5

\* A value that is written is seen, and nothing else changes in the view.
LEMMA ConfiguredIsSeen ==
  ASSUME layers \in [Layers -> Stated], stack \in Stacks, stack' = stack,
         NEW values \in Stated, Configured(values)
  PROVE  /\ layers' \in [Layers -> Stated]
         /\ \A s \in Settings :
              View'[s] = IF values[s] = Missing THEN View[s] ELSE values[s]
  <1> DEFINE Written(s) == values[s] \notin {Missing, View[s]}
  <1> DEFINE Topped == [s \in Settings |-> IF Written(s) THEN values[s]
                                          ELSE layers[Top(stack)][s]]
  <1>1. layers' = [layers EXCEPT ![Top(stack)] = Topped]
    BY DEF Configured
  <1>2. Top(stack) \in Layers /\ Topped \in Stated
    BY StackFacts DEF Stated
  <1>3. layers' \in [Layers -> Stated]
    BY <1>1, <1>2
  <1>4. /\ layers'[Top(stack)] = Topped
        /\ \A l \in Layers : l # Top(stack) => layers'[l] = layers[l]
    BY <1>1, <1>2
  <1>5. View \in Values
    BY LayerTypes DEF View
  <1> HIDE DEF Topped
  <1>6. ASSUME NEW s \in Settings, Written(s)
        PROVE  View'[s] = values[s]
    <2>1. Topped[s] = values[s] /\ values[s] # Missing
      BY <1>6 DEF Topped
    <2>2. Len(stack) \in States(stack, s)'
      BY <2>1, <1>4, StackFacts DEF States
    <2>3. States(stack, s)' \in SUBSET (1 .. Len(stack)) /\ Len(stack) \in Nat
      BY StackFacts DEF States
    <2>4. Topmost(States(stack, s)') = Len(stack)
      BY <2>2, <2>3, TopmostIsLast
    <2>5. Merged(stack)'[s] = values[s]
      BY <2>1, <2>2, <2>4, <1>4, StackFacts DEF Merged
    <2> QED
      BY <2>1, <2>5 DEF View, Visible, Or
  <1>7. ASSUME NEW s \in Settings, ~Written(s)
        PROVE  View'[s] = View[s]
    <2>1. Topped[s] = layers[Top(stack)][s]
      BY <1>7 DEF Topped
    <2>2. \A k \in DOMAIN stack : layers'[stack[k]][s] = layers[stack[k]][s]
      BY <2>1, <1>4, StackFacts
    <2>3. States(stack, s)' = States(stack, s)
      BY <2>2 DEF States
    <2>4. CASE States(stack, s) = {}
      BY <2>3, <2>4 DEF View, Visible, Or, Merged
    <2>5. CASE States(stack, s) # {}
      <3>1. Topmost(States(stack, s)) \in DOMAIN stack
        BY <2>5, TopmostExists, StackFacts DEF States
      <3>2. Merged(stack)'[s] = Merged(stack)[s]
        BY <2>2, <2>3, <3>1 DEF Merged
      <3> QED
        BY <3>2 DEF View, Visible, Or
    <2> QED
      BY <2>4, <2>5
  <1>8. \A s \in Settings : View'[s] = IF values[s] = Missing THEN View[s] ELSE values[s]
    BY <1>6, <1>7
  <1> QED
    BY <1>3, <1>8

-----------------------------------------------------------------------------
(* Snapshots.                                                              *)

\* What a load captures: the snapshots there are stay, and the active stack has one.
LEMMA CapturedFacts ==
  ASSUME ProfileTypeOK
  PROVE  /\ DOMAIN Captured \subseteq Stacks /\ stack \in DOMAIN Captured
         /\ DOMAIN snapshots \subseteq DOMAIN Captured
         /\ \A st \in DOMAIN Captured : Captured[st] \in Stated
         /\ \A st \in DOMAIN snapshots : Captured[st] = snapshots[st]
         /\ stack \notin DOMAIN snapshots => Captured[stack] = CapturedOf(stack)
         /\ \A st \in DOMAIN Captured \ (DOMAIN snapshots \union {stack}) :
              st \in PreloadedStacks /\ Captured[st] = Merged(st)
         /\ PreloadedStacks \subseteq DOMAIN Captured
  <1> DEFINE taken == ({stack} \union PreloadedStacks) \ DOMAIN snapshots
  <1>1. Captured = [st \in DOMAIN snapshots \union taken |->
                      IF st \notin taken THEN snapshots[st]
                      ELSE IF st = stack THEN CapturedOf(st) ELSE Merged(st)]
    BY DEF Captured
  <1>2. taken \subseteq Stacks /\ PreloadedStacks \subseteq Stacks
    BY DEF ProfileTypeOK, PreloadedStacks
  <1>3. DOMAIN Captured = DOMAIN snapshots \union taken
    BY <1>1
  <1> HIDE DEF taken
  <1>4. \A st \in DOMAIN Captured :
          Captured[st] = IF st \notin taken THEN snapshots[st]
                         ELSE IF st = stack THEN CapturedOf(st) ELSE Merged(st)
    BY <1>1, <1>3
  <1>5. \A st \in Stacks : Merged(st) \in Stated /\ CapturedOf(st) \in Stated
    BY LayerTypes DEF ProfileTypeOK
  <1>6. \A st \in DOMAIN Captured : Captured[st] \in Stated
    BY <1>2, <1>3, <1>4, <1>5 DEF ProfileTypeOK
  <1>7. DOMAIN Captured \subseteq Stacks /\ stack \in DOMAIN Captured
    BY <1>2, <1>3 DEF ProfileTypeOK, taken
  <1>8. /\ \A st \in DOMAIN snapshots : Captured[st] = snapshots[st]
        /\ stack \notin DOMAIN snapshots => Captured[stack] = CapturedOf(stack)
    BY <1>3, <1>4, <1>7 DEF taken
  <1>9. \A st \in DOMAIN Captured \ (DOMAIN snapshots \union {stack}) :
          st \in PreloadedStacks /\ Captured[st] = Merged(st)
    BY <1>3, <1>4 DEF taken
  <1>10. PreloadedStacks \subseteq DOMAIN Captured
    BY <1>3 DEF taken
  <1> QED
    BY <1>3, <1>6, <1>7, <1>8, <1>9, <1>10

\* What is discarded: the previews of the current stack, and nothing else.
LEMMA DiscardedFacts ==
  ASSUME ProfileTypeOK, NEW known, \A st \in DOMAIN known : known[st] \in Stated
  PROVE  /\ DOMAIN Discarded(known) = DOMAIN known
         /\ \A st \in DOMAIN known : Discarded(known)[st] \in Stated
         /\ \A st \in DOMAIN known, s \in Settings :
              Discarded(known)[st][s] =
                IF << st, s >> \in DOMAIN pending /\ st = current THEN pending[<< st, s >>]
                ELSE known[st][s]
  <1>1. \A st, s : << st, s >> \in PendingOf(current) <=>
                     << st, s >> \in DOMAIN pending /\ st = current
    BY DEF PendingOf
  <1>2. \A st \in DOMAIN known :
          Discarded(known)[st] =
            [s \in Settings |-> IF << st, s >> \in PendingOf(current) THEN pending[<< st, s >>]
                                ELSE known[st][s]]
    BY DEF Discarded
  <1>3. ASSUME NEW st \in DOMAIN known, NEW s \in Settings
        PROVE  /\ Discarded(known)[st][s] =
                    IF << st, s >> \in DOMAIN pending /\ st = current THEN pending[<< st, s >>]
                    ELSE known[st][s]
               /\ Discarded(known)[st][s] \in SettingValues \union {Missing}
    <2>1. Discarded(known)[st][s] =
            IF << st, s >> \in DOMAIN pending /\ st = current THEN pending[<< st, s >>]
            ELSE known[st][s]
      <3>1. Discarded(known)[st] =
              [x \in Settings |-> IF << st, x >> \in PendingOf(current)
                                    THEN pending[<< st, x >>] ELSE known[st][x]]
        BY <1>2
      <3>2. Discarded(known)[st][s] =
              IF << st, s >> \in PendingOf(current) THEN pending[<< st, s >>]
              ELSE known[st][s]
        BY <3>1
      <3> QED
        BY <1>1, <3>2
    <2>2. known[st][s] \in SettingValues \union {Missing}
      BY DEF Stated
    <2> QED
      BY <2>1, <2>2 DEF ProfileTypeOK
  <1>4. \A st \in DOMAIN known : Discarded(known)[st] \in Stated
    BY <1>2, <1>3 DEF Stated
  <1>5. DOMAIN Discarded(known) = DOMAIN known
    BY DEF Discarded
  <1> QED
    BY <1>3, <1>4, <1>5

\* What stays pending of a stack: nothing of it, and what was pending of others.
LEMMA NotPendingFacts ==
  ASSUME NEW st
  PROVE  /\ \A p : p \in DOMAIN NotPendingOf(st) <=> p \in DOMAIN pending /\ p[1] # st
         /\ \A p \in DOMAIN NotPendingOf(st) : NotPendingOf(st)[p] = pending[p]
  BY DEF NotPendingOf, PendingOf

\* The snapshots a load leaves.
LEMMA LoadKnows ==
  ASSUME TypeInv, Load
  PROVE  /\ DOMAIN snapshots' = DOMAIN Captured
         /\ \A st \in DOMAIN snapshots' : snapshots'[st] \in Stated
         /\ \A st \in DOMAIN snapshots', s \in Settings :
              snapshots'[st][s] =
                IF << st, s >> \in DOMAIN pending THEN pending[<< st, s >>]
                ELSE Captured[st][s]
         /\ DOMAIN pending' = {}
  <1>1. \A st \in DOMAIN Captured : Captured[st] \in Stated
    BY CapturedFacts DEF TypeInv
  <1>2. \A st, s : << st, s >> \in DOMAIN pending => st = current
    BY DEF TypeInv, Phases
  <1>3. DOMAIN pending' = {}
    BY NotPendingFacts DEF Load, TypeInv, Phases
  <1>4. CASE current = << >>
    <2>1. snapshots' = Captured /\ DOMAIN pending = {}
      BY <1>4 DEF Load, TypeInv, Phases
    <2> QED
      BY <1>1, <1>3, <2>1
  <1>5. CASE current # << >>
    <2>1. snapshots' = Discarded(Captured)
      BY <1>5 DEF Load
    <2> QED
      BY <1>1, <1>2, <1>3, <2>1, DiscardedFacts DEF TypeInv
  <1> QED
    BY <1>4, <1>5

\* Whatever is restored, the driver and the configuration have it afterwards.
LEMMA RestoredFacts ==
  ASSUME layers \in [Layers -> Stated], stack \in Stacks, stack' = stack,
         NEW loaded \in Values, NEW values \in Stated, RestoresSnapshot(loaded, values)
  PROVE  /\ layers' \in [Layers -> Stated]
         /\ driver' \in Values
         /\ \A s \in Settings :
              /\ View'[s] = IF values[s] = Missing THEN View[s] ELSE values[s]
              /\ values[s] # Missing => driver'[s] = values[s]
  <1>1. driver' = After(loaded, values) /\ Configured(values)
    BY DEF RestoresSnapshot
  <1>2. /\ layers' \in [Layers -> Stated]
        /\ \A s \in Settings :
              View'[s] = IF values[s] = Missing THEN View[s] ELSE values[s]
    BY <1>1, ConfiguredIsSeen
  <1>3. /\ driver' \in Values
        /\ \A s \in Settings : values[s] # Missing => driver'[s] = values[s]
    BY <1>1, AfterFacts
  <1> QED
    BY <1>2, <1>3

\* A load restores the snapshot of the active stack when that is the current one,
\* and leaves the view when it is not.
LEMMA LoadRestores ==
  ASSUME TypeInv, Load
  PROVE  /\ stack' = stack /\ stack \in Stacks /\ stack # << >>
         /\ current' = IF current = << >> THEN stack ELSE current
         /\ layers' \in [Layers -> Stated] /\ driver' \in Values
         /\ current' = stack => RestoresSnapshot(View, snapshots'[stack])
         /\ current' # stack => View' = View /\ driver' = View'
         /\ current' = stack <=> ppc = "load"
  <1>1. /\ stack \in Stacks /\ stack # << >> /\ stack' = stack
        /\ layers \in [Layers -> Stated]
    BY ProfilesAssumption DEF TypeInv, ProfileTypeOK, Load
  <1>2. current' = IF current = << >> THEN stack ELSE current
    BY DEF Load
  <1>3. current' = stack <=> ppc = "load"
    BY <1>1, <1>2 DEF TypeInv, Phases, Load
  <1>4. View \in Values
    BY <1>1, LayerTypes DEF View
  <1>5. snapshots'[stack] \in Stated
    BY LoadKnows, CapturedFacts DEF TypeInv
  <1>6. CASE current' = stack
    <2>1. RestoresSnapshot(View, snapshots'[stack])
      BY <1>6 DEF Load
    <2> QED
      BY <1>1, <1>2, <1>3, <1>4, <1>5, <1>6, <2>1, RestoredFacts
  <1>7. CASE current' # stack
    <2>1. driver' = View /\ layers' = layers
      BY <1>7 DEF Load
    <2>2. View' = View
      BY <1>1, <2>1 DEF View, Visible, Or, Merged, States
    <2> QED
      BY <1>1, <1>2, <1>3, <1>4, <1>7, <2>1, <2>2
  <1> QED
    BY <1>6, <1>7

-----------------------------------------------------------------------------
(* Types.                                                                  *)

Confirmations == [stack : Stacks, setting : Settings, value : SettingValues]

\* A queue with one more.
LEMMA OneMore ==
  ASSUME NEW S, NEW s \in Seq(S), NEW e \in S
  PROVE  /\ Append(s, e) \in Seq(S) /\ DOMAIN Append(s, e) = 1 .. Len(s) + 1
         /\ DOMAIN s = 1 .. Len(s) /\ Len(s) \in Nat
         /\ \A k \in DOMAIN s : Append(s, e)[k] = s[k]
         /\ Append(s, e)[Len(s) + 1] = e
  OBVIOUS

\* A queue without its head.
LEMMA OneLess ==
  ASSUME NEW S, NEW s \in Seq(S), s # << >>
  PROVE  /\ Head(s) \in S /\ Head(s) = s[1] /\ 1 \in DOMAIN s /\ Tail(s) \in Seq(S)
         /\ \A k \in DOMAIN Tail(s) : k + 1 \in DOMAIN s /\ Tail(s)[k] = s[k + 1]
         /\ \A k \in DOMAIN s : k # 1 =>
              k - 1 \in DOMAIN Tail(s) /\ Tail(s)[k - 1] = s[k]
  OBVIOUS

\* The queue of confirmations and what is in it.
LEMMA ConfirmationFacts ==
  ASSUME ProfileTypeOK
  PROVE  /\ confirms \in Seq(Confirmations)
         /\ \A k \in DOMAIN confirms : confirms[k] \in Confirmations
  <1>1. confirms \in Seq(Confirmations)
    BY DEF ProfileTypeOK, Confirmations
  <1> HIDE DEF Confirmations
  <1> QED
    BY <1>1

\* The value of a change goes to the snapshot, the one before its first change is kept.
LEMMA RemembersFacts ==
  ASSUME TypeInv, current # << >>, NEW s \in Settings, NEW v \in SettingValues,
         Remembers(s, v)
  PROVE  /\ current \in DOMAIN snapshots /\ DOMAIN snapshots' = DOMAIN snapshots
         /\ \A st \in DOMAIN snapshots' : snapshots'[st] \in Stated
         /\ \A st \in DOMAIN snapshots, t \in Settings :
              snapshots'[st][t] = IF st = current /\ t = s THEN v ELSE snapshots[st][t]
         /\ DOMAIN pending' = DOMAIN pending \union {<< current, s >>}
         /\ \A p \in DOMAIN pending : pending'[p] = pending[p]
         /\ << current, s >> \notin DOMAIN pending =>
              pending'[<< current, s >>] = snapshots[current][s]
         /\ \A p \in DOMAIN pending' : pending'[p] \in SettingValues \union {Missing}
         /\ confirms' \in Seq(Confirmations)
         /\ confirms' = Append(confirms, [stack |-> current, setting |-> s, value |-> v])
  <1>1. current \in DOMAIN snapshots /\ current \in Stacks /\ snapshots[current] \in Stated
    BY DEF TypeInv, ProfileTypeOK
  <1>2. snapshots' = [snapshots EXCEPT ![current] = [snapshots[current] EXCEPT ![s] = v]]
    BY DEF Remembers
  <1>3. [snapshots[current] EXCEPT ![s] = v] \in Stated
    BY <1>1 DEF Stated
  <1>4. DOMAIN snapshots' = DOMAIN snapshots
    BY <1>2
  <1>5. \A st \in DOMAIN snapshots' : snapshots'[st] \in Stated
    BY <1>2, <1>3, <1>4 DEF TypeInv, ProfileTypeOK
  <1>6. ASSUME NEW st \in DOMAIN snapshots, NEW t \in Settings
        PROVE  snapshots'[st][t] = IF st = current /\ t = s THEN v ELSE snapshots[st][t]
    <2>1. CASE st = current
      BY <1>1, <1>2, <2>1 DEF Stated
    <2>2. CASE st # current
      BY <1>2, <2>2
    <2> QED
      BY <2>1, <2>2
  <1>7. pending' = [p \in DOMAIN pending \union {<< current, s >>} |->
                      IF p \in DOMAIN pending THEN pending[p] ELSE snapshots[current][s]]
    BY DEF Remembers
  <1>8. /\ DOMAIN pending' = DOMAIN pending \union {<< current, s >>}
        /\ \A p \in DOMAIN pending : pending'[p] = pending[p]
        /\ << current, s >> \notin DOMAIN pending =>
             pending'[<< current, s >>] = snapshots[current][s]
    BY <1>7
  <1>9. snapshots[current][s] \in SettingValues \union {Missing}
    BY <1>1 DEF Stated
  <1>10. \A p \in DOMAIN pending' : pending'[p] \in SettingValues \union {Missing}
    BY <1>7, <1>9 DEF TypeInv, ProfileTypeOK
  <1>11. confirms' = Append(confirms, [stack |-> current, setting |-> s, value |-> v])
    BY DEF Remembers
  <1>12. confirms \in Seq(Confirmations)
    BY DEF TypeInv, ProfileTypeOK, Confirmations
  <1>13. [stack |-> current, setting |-> s, value |-> v] \in Confirmations
    BY <1>1 DEF Confirmations
  <1>14. confirms' \in Seq(Confirmations)
    BY <1>11, <1>12, <1>13, OneMore
  <1> QED
    BY <1>1, <1>4, <1>5, <1>6, <1>8, <1>10, <1>11, <1>14

\* Setters set values.
LEMMA SetFacts ==
  ASSUME driver \in Values, NEW s \in Settings, NEW v \in SettingValues
  PROVE  /\ Only(s, v) \in Stated /\ Only(s, v)[s] = v
         /\ \A t \in Settings : t # s => Only(s, v)[t] = Missing
         /\ After(driver, Only(s, v)) \in Values
  <1>1. /\ Only(s, v) \in Stated /\ Only(s, v)[s] = v
        /\ \A t \in Settings : t # s => Only(s, v)[t] = Missing
    BY DEF Only, Stated
  <1> QED
    BY <1>1, AfterFacts

LEMMA InitTyped ==
  ASSUME ProfileInit
  PROVE  TypeInv
  <1>1. layers \in [Layers -> Stated]
    BY ProfilesAssumption DEF ProfileInit
  <1>2. Default \in Values /\ Values \subseteq Stated
    BY ProfilesAssumption DEF Default, Values, Stated
  <1>3. driver \in Values
    BY <1>2, AfterFacts DEF ProfileInit
  <1>4. kept \in [Stacks -> Stated] /\ \A st \in Stacks : kept[st] = Merged(st)
    BY <1>1, LayerTypes DEF ProfileInit
  <1>5. DOMAIN snapshots = {} /\ DOMAIN pending = {}
    BY DEF ProfileInit
  <1>6. confirms \in Seq([stack : Stacks, setting : Settings, value : SettingValues])
    BY DEF ProfileInit
  <1>7. ProfileTypeOK
    BY <1>1, <1>3, <1>4, <1>5, <1>6, ProfilesAssumption
    DEF ProfileInit, ProfileTypeOK, Values
  <1>8. Phases
    BY <1>4, <1>5 DEF ProfileInit, Phases
  <1> QED
    BY <1>7, <1>8 DEF TypeInv

LEMMA LoadTyped ==
  ASSUME TypeInv, Load
  PROVE  TypeInv'
  <1>1. kept' \in [Stacks -> Stated]
    <2>1. CapturedOf(stack) \in Stated
      BY LayerTypes DEF TypeInv, ProfileTypeOK
    <2> QED
      BY <2>1 DEF Load, TypeInv, ProfileTypeOK
  <1>2. ppc' = (IF ppc = "switch" THEN "handle" ELSE "ready") /\ ppc \in {"load", "switch"}
    BY DEF Load
  <1>3. /\ DOMAIN snapshots' \subseteq Stacks /\ DOMAIN snapshots \subseteq DOMAIN snapshots'
        /\ stack \in DOMAIN snapshots'
    BY LoadKnows, CapturedFacts DEF TypeInv
  <1>4. current' \in DOMAIN snapshots' /\ current' # << >>
    BY <1>3, LoadRestores DEF TypeInv, ProfileTypeOK
  <1>5. ppc' = "ready" => current' = stack'
    BY <1>2, LoadRestores
  <1>6. ProfileTypeOK'
    <2>1. /\ DOMAIN pending' \subseteq (DOMAIN snapshots') \X Settings
          /\ \A p \in DOMAIN pending' : pending'[p] \in SettingValues \union {Missing}
      BY LoadKnows
    <2>2. UNCHANGED << stack, confirms, unsettled, changes >>
      BY DEF Load
    <2>3. \A st \in DOMAIN snapshots' : snapshots'[st] \in Stated
      BY LoadKnows
    <2>4. layers' \in [Layers -> Stated] /\ driver' \in [Settings -> SettingValues]
      BY LoadRestores DEF Values
    <2>5. stack' \in Stacks /\ current' \in Stacks \union {<< >>}
      BY <1>3, <1>4, LoadRestores
    <2>6. confirms' \in Seq([stack : Stacks, setting : Settings, value : SettingValues])
      BY <2>2 DEF TypeInv, ProfileTypeOK
    <2>7. unsettled' \subseteq Stacks \X Settings /\ changes' \in 0 .. MaxChanges
      BY <2>2 DEF TypeInv, ProfileTypeOK
    <2> QED
      BY <1>1, <1>2, <1>3, <1>4, <1>5, <2>1, <2>3, <2>4, <2>5, <2>6, <2>7 DEF ProfileTypeOK
  <1>7. Phases'
    <2>1. DOMAIN pending' = {}
      BY LoadKnows
    <2>2. ppc' \in {"switch", "handle"} => current' # stack' /\ driver' = View'
      BY <1>2, LoadRestores
    <2>3. stack' = stack
      BY LoadRestores
    <2>4. ppc' # "load"
      BY <1>2
    <2> QED
      BY <1>2, <1>3, <1>4, <2>1, <2>2, <2>3, <2>4 DEF Phases
  <1> QED
    BY <1>6, <1>7 DEF TypeInv

LEMMA HandlesSwitchTyped ==
  ASSUME TypeInv, HandlesSwitch
  PROVE  TypeInv'
  <1>1. stack \in DOMAIN snapshots /\ DOMAIN pending = {} /\ stack # << >>
    BY ProfilesAssumption DEF HandlesSwitch, TypeInv, Phases, ProfileTypeOK
  <1>2. snapshots[stack] \in Stated /\ driver \in Values /\ stack' = stack
    BY <1>1 DEF TypeInv, ProfileTypeOK, HandlesSwitch, Values
  <1>3. layers' \in [Layers -> Stated] /\ driver' \in Values
    BY <1>2, RestoredFacts DEF HandlesSwitch, TypeInv, ProfileTypeOK
  <1>4. ProfileTypeOK'
    BY <1>1, <1>3 DEF HandlesSwitch, TypeInv, ProfileTypeOK, Values
  <1>5. Phases'
    BY <1>1 DEF HandlesSwitch, Phases
  <1> QED
    BY <1>4, <1>5 DEF TypeInv

LEMMA SwitchesTyped ==
  ASSUME TypeInv, NEW st \in Stacks, Switches(st)
  PROVE  TypeInv'
  <1>1. current = stack /\ st # << >> /\ stack # << >>
    BY ProfilesAssumption DEF Switches, TypeInv, ProfileTypeOK
  <1>2. layers' \in [Layers -> Stated]
    <2>1. driver \in Stated
      BY DEF TypeInv, ProfileTypeOK, Stated
    <2> QED
      BY <2>1, StackFacts DEF Switches, TypeInv, ProfileTypeOK
  <1>3. unsettled' \subseteq Stacks \X Settings
    <2>1. \A k \in DOMAIN confirms : confirms[k] \in Confirmations
      BY ConfirmationFacts DEF TypeInv
    <2> QED
      BY <2>1 DEF Switches, Unsettles, Confirmations, TypeInv, ProfileTypeOK
  <1>4. ProfileTypeOK'
    BY <1>2, <1>3 DEF Switches, TypeInv, ProfileTypeOK
  <1>5. Phases'
    BY <1>1 DEF Switches, TypeInv, Phases
  <1> QED
    BY <1>4, <1>5 DEF TypeInv

\* What the user changes is changed in the current stack, which is the active one.
LEMMA ReadyFacts ==
  ASSUME TypeInv, ppc = "ready"
  PROVE  /\ current = stack /\ stack \in DOMAIN snapshots /\ stack \in Stacks
         /\ stack # << >> /\ driver \in Values /\ layers \in [Layers -> Stated]
         /\ \A p \in DOMAIN pending : p[1] = stack
  <1>1. stack \in Stacks /\ stack # << >> /\ current = stack
    BY ProfilesAssumption DEF TypeInv, ProfileTypeOK
  <1> QED
    BY <1>1 DEF TypeInv, ProfileTypeOK, Phases, Values

LEMMA ChangeTyped ==
  ASSUME TypeInv, NEW s \in Settings, NEW v \in SettingValues,
         UserChanges, Set(s, v), Remembers(s, v),
         layers' \in [Layers -> Stated], kept' \in [Stacks -> Stated],
         unsettled' \subseteq Stacks \X Settings, UNCHANGED << stack, current, ppc >>
  PROVE  TypeInv'
  <1>1. current # << >> /\ current = stack
    BY ReadyFacts DEF UserChanges
  <1>2. driver' \in Values
    BY SetFacts, ReadyFacts DEF Set, UserChanges
  <1>3. /\ DOMAIN snapshots' = DOMAIN snapshots
        /\ DOMAIN pending' = DOMAIN pending \union {<< current, s >>}
        /\ current \in DOMAIN snapshots
        /\ \A st \in DOMAIN snapshots' : snapshots'[st] \in Stated
        /\ \A p \in DOMAIN pending' : pending'[p] \in SettingValues \union {Missing}
        /\ confirms' \in Seq(Confirmations)
    BY <1>1, RemembersFacts
  <1>4. changes' \in 0 .. MaxChanges
    BY ProfilesAssumption DEF UserChanges, TypeInv, ProfileTypeOK
  <1>5. DOMAIN pending' \subseteq (DOMAIN snapshots') \X Settings
    BY <1>3 DEF TypeInv, ProfileTypeOK
  <1>6. ProfileTypeOK'
    BY <1>1, <1>2, <1>3, <1>4, <1>5
    DEF TypeInv, ProfileTypeOK, Values, Confirmations
  <1>7. \A p \in DOMAIN pending' : p[1] = current'
    BY <1>3 DEF TypeInv, Phases
  <1>8. Phases'
    BY <1>1, <1>7 DEF UserChanges, Phases
  <1> QED
    BY <1>6, <1>8 DEF TypeInv

LEMMA RingChangeTyped ==
  ASSUME TypeInv, NEW s \in Settings, NEW v \in SettingValues, RingChange(s, v)
  PROVE  TypeInv'
  <1>1. stack \in Stacks /\ stack' = stack /\ current = stack /\ layers \in [Layers -> Stated]
    BY ReadyFacts DEF RingChange, UserChanges
  <1>2. Only(s, v) \in Stated
    BY SetFacts, ReadyFacts DEF RingChange, UserChanges
  <1>3. layers' \in [Layers -> Stated]
    BY <1>1, <1>2, ConfiguredIsSeen DEF RingChange
  <1>4. kept' \in [Stacks -> Stated]
    <2>1. kept[current] \in Stated
      BY <1>1 DEF TypeInv, ProfileTypeOK
    <2>2. [kept[current] EXCEPT ![s] = v] \in Stated
      BY <2>1 DEF Stated
    <2>3. kept' = [kept EXCEPT ![current] = [kept[current] EXCEPT ![s] = v]]
      BY DEF RingChange
    <2> QED
      BY <2>2, <2>3 DEF TypeInv, ProfileTypeOK
  <1>5. unsettled' \subseteq Stacks \X Settings
    BY DEF RingChange, TypeInv, ProfileTypeOK
  <1> QED
    BY <1>3, <1>4, <1>5, ChangeTyped DEF RingChange

LEMMA PreviewTyped ==
  ASSUME TypeInv, NEW s \in Settings, NEW v \in SettingValues, Preview(s, v)
  PROVE  TypeInv'
  <1>1. /\ layers' \in [Layers -> Stated] /\ kept' \in [Stacks -> Stated]
        /\ unsettled' \subseteq Stacks \X Settings
    BY DEF Preview, TypeInv, ProfileTypeOK
  <1> QED
    BY <1>1, ChangeTyped DEF Preview, DialogEvent

LEMMA SaveTyped ==
  ASSUME TypeInv, Save
  PROVE  TypeInv'
  <1>1. /\ ppc = "ready" /\ stack' = stack /\ current' = current /\ driver' = driver
        /\ ppc' = ppc /\ confirms' = confirms
    BY DEF Save, DialogEvent, UserChanges
  <1>2. /\ current = stack /\ stack \in DOMAIN snapshots /\ stack \in Stacks
        /\ stack # << >> /\ layers \in [Layers -> Stated]
    BY <1>1, ReadyFacts
  <1>3. driver \in Stated
    BY DEF TypeInv, ProfileTypeOK, Stated
  <1>4. layers' \in [Layers -> Stated]
    BY <1>1, <1>2, <1>3, ConfiguredIsSeen DEF Save
  <1>5. /\ DOMAIN snapshots' = DOMAIN snapshots
        /\ \A st \in DOMAIN snapshots' : snapshots'[st] \in Stated
    BY <1>3 DEF Save, TypeInv, ProfileTypeOK
  <1>6. /\ DOMAIN pending' \subseteq DOMAIN pending
        /\ \A p \in DOMAIN pending' : pending'[p] = pending[p]
    BY NotPendingFacts DEF Save
  <1>7. kept' \in [Stacks -> Stated] /\ unsettled' \subseteq Stacks \X Settings
    BY <1>3 DEF Save, TypeInv, ProfileTypeOK
  <1>8. changes' \in 0 .. MaxChanges
    BY ProfilesAssumption DEF Save, DialogEvent, UserChanges, TypeInv, ProfileTypeOK
  <1>9. ProfileTypeOK'
    BY <1>1, <1>2, <1>4, <1>5, <1>6, <1>7, <1>8 DEF TypeInv, ProfileTypeOK
  <1>10. Phases'
    BY <1>1, <1>2, <1>6 DEF TypeInv, Phases
  <1> QED
    BY <1>9, <1>10 DEF TypeInv

LEMMA ReloadsTyped ==
  ASSUME TypeInv, Reloads
  PROVE  TypeInv'
  <1>1. current = stack /\ current # << >>
    BY ReadyFacts DEF Reloads
  <1>2. ProfileTypeOK'
    BY DEF Reloads, TypeInv, ProfileTypeOK
  <1>3. Phases'
    BY <1>1 DEF Reloads, TypeInv, Phases
  <1> QED
    BY <1>2, <1>3 DEF TypeInv

\* What the head of the queue confirms is no longer pending.
LEMMA ConfirmsFacts ==
  ASSUME TypeInv, Confirms
  PROVE  /\ Head(confirms) \in Confirmations /\ Head(confirms) = confirms[1]
         /\ 1 \in DOMAIN confirms
         /\ confirms' \in Seq(Confirmations)
         /\ \A k \in DOMAIN confirms' :
              k + 1 \in DOMAIN confirms /\ confirms'[k] = confirms[k + 1]
         /\ \A k \in DOMAIN confirms : k # 1 =>
              k - 1 \in DOMAIN confirms' /\ confirms'[k - 1] = confirms[k]
         /\ \A p : p \in DOMAIN pending' <=>
              /\ p \in DOMAIN pending
              /\ ~(/\ p = << Head(confirms).stack, Head(confirms).setting >>
                   /\ IsConfirmed(Head(confirms)))
         /\ \A p \in DOMAIN pending' : pending'[p] = pending[p]
  <1>1. confirms \in Seq(Confirmations) /\ confirms # << >> /\ confirms' = Tail(confirms)
    BY ConfirmationFacts DEF Confirms, TypeInv
  <1> DEFINE c == Head(confirms)
             popped == IF IsConfirmed(c) THEN {<< c.stack, c.setting >>} ELSE {}
  <1>2. pending' = [p \in DOMAIN pending \ popped |-> pending[p]]
    BY DEF Confirms
  <1> HIDE DEF Confirmations
  <1>3. /\ c \in Confirmations /\ c = confirms[1] /\ 1 \in DOMAIN confirms
        /\ Tail(confirms) \in Seq(Confirmations)
        /\ \A k \in DOMAIN Tail(confirms) :
             k + 1 \in DOMAIN confirms /\ Tail(confirms)[k] = confirms[k + 1]
        /\ \A k \in DOMAIN confirms : k # 1 =>
             k - 1 \in DOMAIN Tail(confirms) /\ Tail(confirms)[k - 1] = confirms[k]
    BY <1>1, OneLess
  <1>4. /\ \A p : p \in DOMAIN pending' <=>
              p \in DOMAIN pending /\ ~(p = << c.stack, c.setting >> /\ IsConfirmed(c))
        /\ \A p \in DOMAIN pending' : pending'[p] = pending[p]
    BY <1>2
  <1> QED
    BY <1>1, <1>3, <1>4

LEMMA ConfirmsTyped ==
  ASSUME TypeInv, Confirms
  PROVE  TypeInv'
  <1>1. /\ DOMAIN pending' \subseteq DOMAIN pending
        /\ \A p \in DOMAIN pending' : pending'[p] = pending[p]
        /\ confirms' \in Seq(Confirmations)
    BY ConfirmsFacts
  <1>2. UNCHANGED << layers, stack, current, snapshots, driver, ppc, kept, unsettled, changes >>
    BY DEF Confirms
  <1>3. ProfileTypeOK'
    BY <1>1, <1>2 DEF TypeInv, ProfileTypeOK, Confirmations
  <1>4. ppc' = "ready"
    BY DEF Confirms
  <1>5. current' # << >>
    BY <1>2, ReadyFacts DEF Confirms
  <1>6. Phases'
    BY <1>1, <1>2, <1>4, <1>5 DEF TypeInv, Phases
  <1> QED
    BY <1>3, <1>6 DEF TypeInv

LEMMA StutterTyped ==
  ASSUME TypeInv, UNCHANGED profileVars
  PROVE  TypeInv'
  <1>1. ProfileTypeOK'
    BY DEF TypeInv, ProfileTypeOK, profileVars
  <1>2. View' = View
    BY DEF View, Visible, Or, Merged, States, profileVars
  <1>3. \A st : Merged(st)' = Merged(st)
    BY DEF Merged, States, profileVars
  <1>4. Phases'
    BY <1>2, <1>3 DEF TypeInv, Phases, profileVars
  <1> QED
    BY <1>1, <1>4 DEF TypeInv

LEMMA NextTyped ==
  ASSUME TypeInv, [ProfileNext]_profileVars
  PROVE  TypeInv'
  BY LoadTyped, HandlesSwitchTyped, SwitchesTyped, RingChangeTyped, PreviewTyped, SaveTyped,
     ReloadsTyped, ConfirmsTyped, StutterTyped
  DEF ProfileNext

LEMMA TypeInvariant == ProfileSpec => []TypeInv
  <1>1. ProfileInit => TypeInv
    BY InitTyped
  <1>2. TypeInv /\ [ProfileNext]_profileVars => TypeInv'
    BY NextTyped
  <1> QED
    BY <1>1, <1>2, PTL DEF ProfileSpec

\* Layers, snapshots and pending changes are of their types in every state, the
\* current stack has a snapshot, and it is the active one whenever NVDA is ready.
THEOREM ProfileTypeCorrect == ProfileSpec => []ProfileTypeOK
  <1>1. TypeInv => ProfileTypeOK
    BY DEF TypeInv
  <1> QED
    BY <1>1, TypeInvariant, PTL

-----------------------------------------------------------------------------
(* What the user has settled is kept.                                      *)

LEMMA InitSettled ==
  ASSUME ProfileInit
  PROVE  SettledInv
  BY DEF ProfileInit, SettledInv

\* Without a confirmation to come, what is settled is what stays of the snapshot.
LEMMA NothingWaits ==
  ASSUME NEW st, NEW s, Agrees(st, s), Waits(st, s) = {}, kept[st][s] # Missing
  PROVE  kept[st][s] = WithoutPreview(st, s)
  <1>1. CASE OnlyPreviewed(st, s)
    BY <1>1 DEF OnlyPreviewed
  <1>2. CASE WillBeConfirmed(st, s)
    BY <1>2 DEF WillBeConfirmed, WithoutPreview
  <1> QED
    BY <1>1, <1>2 DEF Agrees

\* A setting with nothing pending and nothing to be confirmed agrees.
LEMMA AgreesWhenQuiet ==
  ASSUME NEW st, NEW s,
         Waits(st, s)' = {},
         kept'[st][s] # Missing =>
           /\ kept'[st][s] = WithoutPreview(st, s)'
           /\ ppc' = "ready" /\ st = stack' => View'[s] = kept'[st][s]
  PROVE  Agrees(st, s)'
  BY DEF Agrees, OnlyPreviewed

\* After a load nothing is pending, and the view shows what a snapshot states.
LEMMA QuietAfterLoad ==
  ASSUME TypeInv, Load, NEW st \in DOMAIN snapshots', NEW s \in Settings,
         Waits(st, s)' = {},
         kept'[st][s] # Missing => kept'[st][s] = snapshots'[st][s]
  PROVE  Agrees(st, s)'
  <1>1. WithoutPreview(st, s)' = snapshots'[st][s]
    BY LoadKnows DEF WithoutPreview
  <1>2. ASSUME ppc' = "ready", st = stack', kept'[st][s] # Missing
        PROVE  View'[s] = kept'[st][s]
    <2>1. ppc = "load" /\ stack' = stack
      BY <1>2 DEF Load
    <2>2. RestoresSnapshot(View, snapshots'[stack]) /\ stack \in Stacks
      BY <2>1, LoadRestores
    <2>3. View \in Values /\ layers \in [Layers -> Stated] /\ snapshots'[stack] \in Stated
      BY <1>2, <2>1, <2>2, LoadKnows, LayerTypes DEF View, TypeInv, ProfileTypeOK
    <2>4. View'[s] = IF snapshots'[stack][s] = Missing THEN View[s] ELSE snapshots'[stack][s]
      BY <2>1, <2>2, <2>3, RestoredFacts
    <2> QED
      BY <1>2, <2>1, <2>4
  <1> QED
    BY <1>1, <1>2, AgreesWhenQuiet

LEMMA LoadSettles ==
  ASSUME TypeInv, SettledInv, Load
  PROVE  SettledInv'
  <1>1. UNCHANGED << stack, confirms, unsettled >> /\ ppc # "ready"
    BY DEF Load
  <1>2. /\ DOMAIN snapshots \subseteq DOMAIN snapshots' /\ DOMAIN pending' = {}
        /\ stack \in DOMAIN snapshots' /\ DOMAIN snapshots' \subseteq Stacks
    BY LoadKnows, CapturedFacts DEF TypeInv
  <1>3. kept' = IF CannotBePreloaded(stack) THEN [kept EXCEPT ![stack] = CapturedOf(stack)]
                ELSE kept
    BY DEF Load
  <1>4. stack \in Stacks /\ kept \in [Stacks -> Stated]
    BY DEF TypeInv, ProfileTypeOK
  <1>5. \A st \in Stacks : st # stack \/ st \in DOMAIN snapshots => kept'[st] = kept[st]
    BY <1>3, <1>4 DEF CannotBePreloaded
  <1>6. ASSUME NEW st \in Stacks, Len(st) = 2, st \notin DOMAIN snapshots'
        PROVE  IsEmpty(kept'[st])
    <2>1. st # stack /\ st \notin DOMAIN snapshots /\ kept'[st] = kept[st]
      BY <1>2, <1>5, <1>6
    <2>2. CASE current # << >>
      BY <1>6, <2>1, <2>2 DEF SettledInv
    <2>3. CASE current = << >>
      <3>1. st \notin PreloadedStacks
        BY <1>6, LoadKnows, CapturedFacts DEF TypeInv
      <3>2. IsEmpty(Merged(st))
        BY <1>6, <2>3, <3>1 DEF PreloadedStacks
      <3> QED
        BY <2>1, <2>3, <3>2 DEF TypeInv, Phases
    <2> QED
      BY <2>2, <2>3
  <1>7. \A k \in DOMAIN confirms' : confirms'[k].stack \in DOMAIN snapshots'
    BY <1>1, <1>2 DEF SettledInv
  <1>8. ASSUME NEW st \in DOMAIN snapshots', NEW s \in Settings, << st, s >> \notin unsettled'
        PROVE  Agrees(st, s)'
    <2>1. Waits(st, s)' = Waits(st, s)
      BY <1>1 DEF Waits
    <2>2. CASE st \in DOMAIN snapshots
      <3>1. Agrees(st, s) /\ kept'[st] = kept[st]
        BY <1>1, <1>2, <1>5, <1>8, <2>2 DEF SettledInv
      <3>2. Waits(st, s) = {}
        BY <1>1, <3>1 DEF Agrees
      <3>3. snapshots'[st][s] = WithoutPreview(st, s)
        BY <2>2, LoadKnows, CapturedFacts DEF WithoutPreview, TypeInv
      <3>4. kept'[st][s] # Missing => kept'[st][s] = snapshots'[st][s]
        BY <3>1, <3>2, <3>3, NothingWaits
      <3> QED
        BY <1>2, <1>8, <2>1, <3>2, <3>4, QuietAfterLoad
    <2>3. CASE st \notin DOMAIN snapshots
      <3>1. << st, s >> \notin DOMAIN pending
        BY <2>3 DEF TypeInv, ProfileTypeOK
      <3>2. Waits(st, s) = {}
        BY <2>3 DEF Waits, SettledInv
      <3>3. snapshots'[st][s] = Captured[st][s] /\ st \in DOMAIN Captured
        BY <1>8, <3>1, LoadKnows
      <3>4. CASE st # stack
        <4>1. st \in PreloadedStacks /\ Captured[st] = Merged(st)
          BY <2>3, <3>3, <3>4, CapturedFacts DEF TypeInv
        <4>2. current = << >> /\ st \in Stacks
          BY <4>1 DEF PreloadedStacks
        <4>3. kept'[st] = Merged(st)
          BY <1>5, <3>4, <4>2 DEF TypeInv, Phases
        <4> QED
          BY <1>2, <1>8, <2>1, <3>2, <3>3, <4>1, <4>3, QuietAfterLoad
      <3>5. CASE st = stack /\ CannotBePreloaded(stack)
        <4>1. kept'[st] = CapturedOf(stack)
          BY <1>3, <1>4, <3>5
        <4>2. Captured[st] = CapturedOf(stack)
          BY <2>3, <3>5, CapturedFacts DEF TypeInv
        <4> QED
          BY <1>2, <1>8, <2>1, <3>2, <3>3, <4>1, <4>2, QuietAfterLoad
      <3>6. CASE st = stack /\ ~CannotBePreloaded(stack)
        <4>1. Len(stack) = 2 /\ ~IsEmpty(kept[stack])
          BY <2>3, <3>6 DEF CannotBePreloaded
        <4>2. current = << >>
          BY <1>4, <2>3, <3>6, <4>1 DEF SettledInv
        <4>3. kept[stack] = Merged(stack)
          BY <1>4, <4>2 DEF TypeInv, Phases
        <4>4. Captured[stack] = Merged(stack)
          BY <2>3, <3>6, <4>1, <4>3, CapturedFacts DEF TypeInv, CapturedOf
        <4>5. kept'[stack] = Merged(stack)
          BY <1>3, <3>6, <4>3
        <4> QED
          BY <1>2, <1>8, <2>1, <3>2, <3>3, <3>6, <4>4, <4>5, QuietAfterLoad
      <3> QED
        BY <3>4, <3>5, <3>6
    <2> QED
      BY <2>2, <2>3
  <1> QED
    BY <1>6, <1>7, <1>8 DEF SettledInv

LEMMA HandlesSwitchSettles ==
  ASSUME TypeInv, SettledInv, HandlesSwitch
  PROVE  SettledInv'
  <1>1. /\ UNCHANGED << stack, snapshots, pending, confirms, kept, unsettled >>
        /\ ppc = "handle" /\ current # << >> /\ stack \in Stacks /\ DOMAIN pending = {}
        /\ stack \in DOMAIN snapshots
    BY DEF HandlesSwitch, TypeInv, Phases, ProfileTypeOK
  <1>2. \A s \in Settings :
          View'[s] = IF snapshots[stack][s] = Missing THEN View[s] ELSE snapshots[stack][s]
    <2>1. snapshots[stack] \in Stated /\ driver \in Values /\ layers \in [Layers -> Stated]
      BY <1>1 DEF TypeInv, ProfileTypeOK, Values
    <2> QED
      BY <1>1, <2>1, RestoredFacts DEF HandlesSwitch
  <1>3. ASSUME NEW st \in DOMAIN snapshots', NEW s \in Settings, << st, s >> \notin unsettled'
        PROVE  Agrees(st, s)'
    <2>1. Agrees(st, s) /\ st \in DOMAIN snapshots
      BY <1>1, <1>3 DEF SettledInv
    <2>2. Waits(st, s) = {}
      BY <1>1, <2>1 DEF Agrees
    <2>3. kept[st][s] # Missing => kept[st][s] = snapshots[st][s]
      BY <1>1, <2>1, <2>2, NothingWaits DEF WithoutPreview
    <2>4. Waits(st, s)' = {}
      BY <1>1, <2>2 DEF Waits
    <2>5. WithoutPreview(st, s)' = snapshots[st][s]
      BY <1>1 DEF WithoutPreview
    <2> QED
      BY <1>1, <1>2, <2>3, <2>4, <2>5, AgreesWhenQuiet
  <1> QED
    BY <1>1, <1>3 DEF SettledInv

LEMMA SwitchesSettles ==
  ASSUME TypeInv, SettledInv, NEW other \in Stacks, Switches(other)
  PROVE  SettledInv'
  <1>1. /\ UNCHANGED << current, snapshots, pending, confirms, kept >>
        /\ ppc' = "switch"
        /\ unsettled' = unsettled \union
             {<< confirms[k].stack, confirms[k].setting >> : k \in DOMAIN confirms}
    BY DEF Switches, Unsettles
  <1>2. ASSUME NEW st \in DOMAIN snapshots', NEW s \in Settings, << st, s >> \notin unsettled'
        PROVE  Agrees(st, s)'
    <2>1. Waits(st, s) = {}
      BY <1>1, <1>2 DEF Waits
    <2>2. Agrees(st, s)
      BY <1>1, <1>2 DEF SettledInv
    <2>3. kept[st][s] # Missing => kept[st][s] = WithoutPreview(st, s)
      BY <2>1, <2>2, NothingWaits
    <2>4. Waits(st, s)' = {} /\ WithoutPreview(st, s)' = WithoutPreview(st, s)
      BY <1>1, <2>1 DEF Waits, WithoutPreview
    <2> QED
      BY <1>1, <2>3, <2>4, AgreesWhenQuiet
  <1>3. current # << >>
    BY ReadyFacts DEF Switches
  <1> QED
    BY <1>1, <1>2, <1>3 DEF SettledInv

\* A change of one setting adds its confirmation and leaves those of the others.
LEMMA ChangeWaits ==
  ASSUME TypeInv, ppc = "ready", NEW s \in Settings, NEW v \in SettingValues, Remembers(s, v),
         current' = current
  PROVE  /\ \E k \in Waits(current, s)' : confirms'[k].value = v
         /\ \A st, t : st # current \/ t # s =>
              /\ Waits(st, t)' = Waits(st, t)
              /\ \A k \in Waits(st, t) : confirms'[k] = confirms[k]
         /\ confirms = << >> => \A k \in Waits(current, s)' : confirms'[k].value = v
         /\ \A k \in DOMAIN confirms' :
              confirms'[k].stack = current \/ (k \in DOMAIN confirms /\ confirms'[k] = confirms[k])
  <1> DEFINE c == [stack |-> current, setting |-> s, value |-> v]
  <1>1. current # << >>
    BY ReadyFacts
  <1>2. confirms' = Append(confirms, c) /\ confirms \in Seq(Confirmations)
    BY <1>1, RemembersFacts, ConfirmationFacts DEF TypeInv
  <1>3. current \in Stacks
    BY ReadyFacts
  <1>4. c \in Confirmations
    BY <1>3 DEF Confirmations
  <1>5. c.stack = current /\ c.setting = s /\ c.value = v
    OBVIOUS
  <1> HIDE DEF c, Confirmations
  <1>6. /\ DOMAIN confirms' = 1 .. Len(confirms) + 1 /\ DOMAIN confirms = 1 .. Len(confirms)
        /\ Len(confirms) \in Nat
        /\ \A k \in DOMAIN confirms : confirms'[k] = confirms[k]
        /\ confirms'[Len(confirms) + 1] = c
    BY <1>2, <1>4, OneMore
  <1>7. \A k \in DOMAIN confirms' : k \in DOMAIN confirms \/ confirms'[k] = c
    BY <1>6
  <1>8. \E k \in Waits(current, s)' : confirms'[k].value = v
    <2>1. Len(confirms) + 1 \in DOMAIN confirms'
      BY <1>6
    <2>2. Waits(current, s)' =
            {k \in DOMAIN confirms' : confirms'[k].stack = current /\ confirms'[k].setting = s}
      BY DEF Waits
    <2> QED
      BY <1>5, <1>6, <2>1, <2>2
  <1>9. \A st, t : st # current \/ t # s =>
          /\ Waits(st, t)' = Waits(st, t)
          /\ \A k \in Waits(st, t) : confirms'[k] = confirms[k]
    <2>1. SUFFICES ASSUME NEW st, NEW t, st # current \/ t # s
                   PROVE  /\ Waits(st, t)' = Waits(st, t)
                          /\ \A k \in Waits(st, t) : confirms'[k] = confirms[k]
      OBVIOUS
    <2>2. Waits(st, t)' =
            {k \in DOMAIN confirms' : confirms'[k].stack = st /\ confirms'[k].setting = t}
      BY DEF Waits
    <2>3. DOMAIN confirms \subseteq DOMAIN confirms'
      BY <1>6
    <2>4. \A k : k \in Waits(st, t)' <=> k \in Waits(st, t)
      BY <1>5, <1>6, <1>7, <2>1, <2>2, <2>3 DEF Waits
    <2> QED
      BY <1>6, <2>4 DEF Waits
  <1>10. confirms = << >> => \A k \in Waits(current, s)' : confirms'[k].value = v
    <2>1. confirms = << >> => DOMAIN confirms = {}
      OBVIOUS
    <2> QED
      BY <1>5, <1>7, <2>1 DEF Waits
  <1>11. \A k \in DOMAIN confirms' :
           confirms'[k].stack = current \/ (k \in DOMAIN confirms /\ confirms'[k] = confirms[k])
    BY <1>5, <1>6, <1>7
  <1> QED
    BY <1>8, <1>9, <1>10, <1>11

\* A change leaves what the other settings agree on.
LEMMA OthersAgree ==
  ASSUME TypeInv, ppc = "ready", NEW s \in Settings, NEW v \in SettingValues, Remembers(s, v),
         UNCHANGED << stack, current, ppc >>,
         NEW st \in DOMAIN snapshots, NEW t \in Settings, st # current \/ t # s,
         Agrees(st, t), kept'[st][t] = kept[st][t],
         st = stack => View'[t] = View[t]
  PROVE  Agrees(st, t)'
  <1>1. current = stack /\ current # << >>
    BY ReadyFacts
  <1>2. /\ Waits(st, t)' = Waits(st, t)
        /\ \A k \in Waits(st, t) : confirms'[k] = confirms[k]
    BY ChangeWaits
  <1>3. snapshots'[st][t] = snapshots[st][t]
    <2>1. \A x \in DOMAIN snapshots, y \in Settings :
            snapshots'[x][y] = IF x = current /\ y = s THEN v ELSE snapshots[x][y]
      BY <1>1, RemembersFacts
    <2> QED
      BY <2>1
  <1>4. << st, t >> \in DOMAIN pending' <=> << st, t >> \in DOMAIN pending
    <2>1. DOMAIN pending' = DOMAIN pending \union {<< current, s >>}
      BY <1>1, RemembersFacts
    <2>2. << st, t >> # << current, s >>
      OBVIOUS
    <2> QED
      BY <2>1, <2>2
  <1>5. << st, t >> \in DOMAIN pending => pending'[<< st, t >>] = pending[<< st, t >>]
    BY <1>1, RemembersFacts
  <1>6. WithoutPreview(st, t)' = WithoutPreview(st, t)
    BY <1>3, <1>4, <1>5 DEF WithoutPreview
  <1>7. OnlyPreviewed(st, t) => OnlyPreviewed(st, t)'
    BY <1>2, <1>6 DEF OnlyPreviewed, Agrees
  <1>8. WillBeConfirmed(st, t) => WillBeConfirmed(st, t)'
    BY <1>2, <1>3, <1>4 DEF WillBeConfirmed, Agrees
  <1> QED
    BY <1>1, <1>2, <1>7, <1>8 DEF Agrees

LEMMA RingChangeSettles ==
  ASSUME TypeInv, SettledInv, NEW s \in Settings, NEW v \in SettingValues, RingChange(s, v)
  PROVE  SettledInv'
  <1>1. /\ ppc = "ready" /\ Remembers(s, v) /\ Configured(Only(s, v))
        /\ UNCHANGED << stack, current, ppc >>
        /\ unsettled' = unsettled \ {<< current, s >>}
        /\ kept' = [kept EXCEPT ![current][s] = v]
    BY DEF RingChange, UserChanges
  <1>2. /\ current = stack /\ stack \in Stacks /\ stack # << >> /\ driver \in Values
        /\ layers \in [Layers -> Stated] /\ stack \in DOMAIN snapshots
    BY <1>1, ReadyFacts
  <1>3. View'[s] = v /\ \A t \in Settings : t # s => View'[t] = View[t]
    <2>1. /\ Only(s, v) \in Stated /\ Only(s, v)[s] = v
          /\ \A t \in Settings : t # s => Only(s, v)[t] = Missing
      BY <1>2, SetFacts
    <2>2. \A t \in Settings :
            View'[t] = IF Only(s, v)[t] = Missing THEN View[t] ELSE Only(s, v)[t]
      BY <1>1, <1>2, <2>1, ConfiguredIsSeen
    <2>3. v # Missing
      BY ProfilesAssumption
    <2> QED
      BY <2>1, <2>2, <2>3
  <1>4. /\ kept'[stack][s] = v
        /\ \A st \in Stacks, t \in Settings :
             st # stack \/ t # s => kept'[st][t] = kept[st][t]
    <2>1. kept \in [Stacks -> [Settings -> SettingValues \union {Missing}]]
      BY DEF TypeInv, ProfileTypeOK, Stated
    <2> QED
      BY <1>1, <1>2, <2>1
  <1>5. DOMAIN snapshots' = DOMAIN snapshots /\ DOMAIN snapshots \subseteq Stacks
    BY <1>1, <1>2, RemembersFacts DEF TypeInv, ProfileTypeOK
  <1>6. ASSUME NEW st, st = stack
        PROVE  Agrees(st, s)'
    <2>1. snapshots'[st][s] = v
      BY <1>1, <1>2, <1>6, RemembersFacts
    <2>2. \E k \in Waits(current, s)' : confirms'[k].value = v
      BY <1>1, ChangeWaits
    <2>3. Waits(st, s)' = Waits(current, s)'
      BY <1>1, <1>2, <1>6 DEF Waits
    <2>4. WillBeConfirmed(st, s)'
      BY <1>3, <1>4, <1>6, <2>1, <2>2, <2>3 DEF WillBeConfirmed
    <2> QED
      BY <1>1, <1>3, <1>4, <1>6, <2>4 DEF Agrees
  <1>7. ASSUME NEW st \in DOMAIN snapshots', NEW t \in Settings, << st, t >> \notin unsettled',
               st # stack \/ t # s
        PROVE  Agrees(st, t)'
    <2>1. Agrees(st, t)
      BY <1>1, <1>2, <1>5, <1>7 DEF SettledInv
    <2>2. st = stack => View'[t] = View[t]
      BY <1>3, <1>7
    <2> QED
      BY <1>1, <1>2, <1>4, <1>5, <1>7, <2>1, <2>2, OthersAgree
  <1>8. \A k \in DOMAIN confirms' : confirms'[k].stack \in DOMAIN snapshots'
    BY <1>1, <1>2, <1>5, ChangeWaits DEF SettledInv
  <1>9. \A st \in Stacks : Len(st) = 2 /\ st \notin DOMAIN snapshots' => IsEmpty(kept'[st])
    BY <1>2, <1>4, <1>5 DEF SettledInv, IsEmpty
  <1>10. \A st \in DOMAIN snapshots', t \in Settings :
           << st, t >> \notin unsettled' => Agrees(st, t)'
    BY <1>6, <1>7
  <1> QED
    BY <1>8, <1>9, <1>10 DEF SettledInv

LEMMA PreviewSettles ==
  ASSUME TypeInv, SettledInv, NEW s \in Settings, NEW v \in SettingValues, Preview(s, v)
  PROVE  SettledInv'
  <1>1. /\ ppc = "ready" /\ Remembers(s, v) /\ confirms = << >>
        /\ UNCHANGED << layers, stack, current, ppc, kept, unsettled >>
    BY DEF Preview, DialogEvent, UserChanges
  <1>2. current = stack /\ current # << >> /\ stack \in DOMAIN snapshots
    BY <1>1, ReadyFacts
  <1>3. View' = View
    BY <1>1 DEF View, Visible, Or, Merged, States
  <1>4. DOMAIN snapshots' = DOMAIN snapshots
    BY <1>1, <1>2, RemembersFacts
  <1>5. ASSUME NEW st, st = stack, Agrees(st, s)
        PROVE  Agrees(st, s)'
    <2>1. Waits(st, s) = {}
      <3>1. DOMAIN confirms = {}
        BY <1>1
      <3> QED
        BY <3>1 DEF Waits
    <2>2. snapshots'[st][s] = v
      BY <1>1, <1>2, <1>5, RemembersFacts
    <2>3. kept[st][s] # Missing => kept[st][s] = WithoutPreview(st, s) /\ View[s] = kept[st][s]
      BY <1>1, <1>5, <2>1, NothingWaits DEF Agrees
    <2>4. WithoutPreview(st, s)' = WithoutPreview(st, s)
      <3>1. /\ << st, s >> \in DOMAIN pending'
            /\ << st, s >> \in DOMAIN pending => pending'[<< st, s >>] = pending[<< st, s >>]
            /\ << st, s >> \notin DOMAIN pending => pending'[<< st, s >>] = snapshots[st][s]
        BY <1>1, <1>2, <1>5, RemembersFacts
      <3> QED
        BY <3>1 DEF WithoutPreview
    <2>5. /\ \E k \in Waits(st, s)' : confirms'[k].value = v
          /\ \A k \in Waits(st, s)' : confirms'[k].value = v
      <3>1. Waits(st, s)' = Waits(current, s)'
        BY <1>1, <1>2, <1>5 DEF Waits
      <3>2. /\ \E k \in Waits(current, s)' : confirms'[k].value = v
            /\ \A k \in Waits(current, s)' : confirms'[k].value = v
        BY <1>1, ChangeWaits
      <3> QED
        BY <3>1, <3>2
    <2>6. CASE kept[st][s] # Missing /\ View[s] # v
      <3>1. OnlyPreviewed(st, s)'
        BY <1>1, <1>3, <2>3, <2>4, <2>5, <2>6 DEF OnlyPreviewed
      <3> QED
        BY <1>1, <1>3, <1>5, <2>3, <2>6, <3>1 DEF Agrees
    <2>7. CASE kept[st][s] # Missing /\ View[s] = v
      <3>1. WillBeConfirmed(st, s)'
        BY <1>1, <1>3, <2>2, <2>3, <2>5, <2>7 DEF WillBeConfirmed
      <3> QED
        BY <1>1, <1>3, <1>5, <2>3, <2>7, <3>1 DEF Agrees
    <2>8. CASE kept[st][s] = Missing
      BY <1>1, <1>5, <2>8 DEF Agrees
    <2> QED
      BY <2>6, <2>7, <2>8
  <1>6. ASSUME NEW st \in DOMAIN snapshots', NEW t \in Settings, << st, t >> \notin unsettled'
        PROVE  Agrees(st, t)'
    <2>1. Agrees(st, t) /\ st \in DOMAIN snapshots
      BY <1>1, <1>4, <1>6 DEF SettledInv
    <2>2. CASE st = stack /\ t = s
      BY <1>5, <2>1, <2>2
    <2>3. CASE st # stack \/ t # s
      BY <1>1, <1>2, <1>3, <2>1, <2>3, OthersAgree
    <2> QED
      BY <2>2, <2>3
  <1>7. \A k \in DOMAIN confirms' : confirms'[k].stack \in DOMAIN snapshots'
    BY <1>1, <1>2, <1>4, ChangeWaits DEF SettledInv
  <1> QED
    BY <1>1, <1>2, <1>4, <1>6, <1>7 DEF SettledInv

LEMMA SaveSettles ==
  ASSUME TypeInv, SettledInv, Save
  PROVE  SettledInv'
  <1>1. /\ ppc = "ready" /\ confirms = << >> /\ Configured(driver)
        /\ UNCHANGED << stack, current, confirms, driver, ppc >>
        /\ snapshots' = [snapshots EXCEPT ![current] = driver]
        /\ kept' = [kept EXCEPT ![current] = driver]
        /\ pending' = NotPendingOf(current)
        /\ unsettled' = {p \in unsettled : p[1] # current}
    BY DEF Save, DialogEvent, UserChanges
  <1>2. /\ current = stack /\ current # << >> /\ stack \in DOMAIN snapshots /\ stack \in Stacks
        /\ driver \in Values /\ layers \in [Layers -> Stated]
    BY <1>1, ReadyFacts
  <1>3. /\ DOMAIN snapshots' = DOMAIN snapshots
        /\ snapshots'[stack] = driver /\ kept'[stack] = driver
        /\ \A st \in DOMAIN snapshots :
             st # stack => snapshots'[st] = snapshots[st] /\ kept'[st] = kept[st]
        /\ \A st \in Stacks : st # stack => kept'[st] = kept[st]
    BY <1>1, <1>2 DEF TypeInv, ProfileTypeOK
  <1>4. \A st, s : Waits(st, s) = {} /\ Waits(st, s)' = {}
    <2>1. DOMAIN confirms = {} /\ DOMAIN confirms' = {}
      BY <1>1
    <2> QED
      BY <2>1 DEF Waits
  <1>5. /\ \A s : << stack, s >> \notin DOMAIN pending'
        /\ \A st, s : st # stack =>
             /\ << st, s >> \in DOMAIN pending' <=> << st, s >> \in DOMAIN pending
             /\ << st, s >> \in DOMAIN pending =>
                  pending'[<< st, s >>] = pending[<< st, s >>]
    BY <1>1, <1>2, NotPendingFacts
  <1>6. \A s \in Settings : View'[s] = driver[s]
    <2>1. driver \in Stated /\ \A s \in Settings : driver[s] # Missing
      BY <1>2, ProfilesAssumption DEF Values, Stated
    <2>2. \A s \in Settings : View'[s] = IF driver[s] = Missing THEN View[s] ELSE driver[s]
      BY <1>1, <1>2, <2>1, ConfiguredIsSeen
    <2> QED
      BY <2>1, <2>2
  <1>7. ASSUME NEW st \in DOMAIN snapshots', NEW s \in Settings, << st, s >> \notin unsettled'
        PROVE  Agrees(st, s)'
    <2>1. CASE st = stack
      <3>1. WithoutPreview(st, s)' = driver[s]
        BY <1>3, <1>5, <2>1 DEF WithoutPreview
      <3> QED
        BY <1>3, <1>4, <1>6, <2>1, <3>1, AgreesWhenQuiet
    <2>2. CASE st # stack
      <3>1. Agrees(st, s)
        BY <1>1, <1>2, <1>3, <1>7, <2>2 DEF SettledInv
      <3>2. kept[st][s] # Missing => kept[st][s] = WithoutPreview(st, s)
        BY <1>4, <3>1, NothingWaits
      <3>3. WithoutPreview(st, s)' = WithoutPreview(st, s) /\ kept'[st] = kept[st]
        BY <1>3, <1>5, <1>7, <2>2 DEF WithoutPreview
      <3> QED
        BY <1>1, <1>4, <2>2, <3>2, <3>3, AgreesWhenQuiet
    <2> QED
      BY <2>1, <2>2
  <1>8. \A k \in DOMAIN confirms' : confirms'[k].stack \in DOMAIN snapshots'
    BY <1>1, <1>3 DEF SettledInv
  <1>9. \A st \in Stacks : Len(st) = 2 /\ st \notin DOMAIN snapshots' => IsEmpty(kept'[st])
    BY <1>2, <1>3 DEF SettledInv
  <1> QED
    BY <1>7, <1>8, <1>9 DEF SettledInv

LEMMA ReloadsSettles ==
  ASSUME TypeInv, SettledInv, Reloads
  PROVE  SettledInv'
  <1>1. /\ UNCHANGED << layers, stack, current, snapshots, pending, confirms, kept, unsettled >>
        /\ ppc' = "load" /\ confirms = << >>
    BY DEF Reloads
  <1>2. \A st, s : Waits(st, s) = {} /\ Waits(st, s)' = {}
    <2>1. DOMAIN confirms = {} /\ DOMAIN confirms' = {}
      BY <1>1
    <2> QED
      BY <2>1 DEF Waits
  <1>3. ASSUME NEW st \in DOMAIN snapshots', NEW s \in Settings, << st, s >> \notin unsettled'
        PROVE  Agrees(st, s)'
    <2>1. Agrees(st, s)
      BY <1>1, <1>3 DEF SettledInv
    <2>2. kept[st][s] # Missing => kept[st][s] = WithoutPreview(st, s)
      BY <1>2, <2>1, NothingWaits
    <2>3. WithoutPreview(st, s)' = WithoutPreview(st, s)
      BY <1>1 DEF WithoutPreview
    <2> QED
      BY <1>1, <1>2, <2>2, <2>3, AgreesWhenQuiet
  <1> QED
    BY <1>1, <1>3 DEF SettledInv

LEMMA ConfirmsSettles ==
  ASSUME TypeInv, SettledInv, Confirms
  PROVE  SettledInv'
  <1> DEFINE c == Head(confirms)
  <1>1. UNCHANGED << layers, stack, current, snapshots, ppc, kept, unsettled >> /\ ppc = "ready"
    BY DEF Confirms
  <1>2. View' = View
    BY <1>1 DEF View, Visible, Or, Merged, States
  <1>3. /\ c = confirms[1] /\ 1 \in DOMAIN confirms
        /\ \A k \in DOMAIN confirms' :
             k + 1 \in DOMAIN confirms /\ confirms'[k] = confirms[k + 1]
        /\ \A k \in DOMAIN confirms : k # 1 =>
             k - 1 \in DOMAIN confirms' /\ confirms'[k - 1] = confirms[k]
        /\ \A p : p \in DOMAIN pending' <=>
             p \in DOMAIN pending /\ ~(p = << c.stack, c.setting >> /\ IsConfirmed(c))
        /\ \A p \in DOMAIN pending' : pending'[p] = pending[p]
    BY ConfirmsFacts
  <1> HIDE DEF c
  <1>4. ASSUME NEW st \in DOMAIN snapshots', NEW s \in Settings, << st, s >> \notin unsettled'
        PROVE  Agrees(st, s)'
    <2>1. Agrees(st, s)
      BY <1>1, <1>4 DEF SettledInv
    <2>2. \A k \in Waits(st, s)' : k + 1 \in Waits(st, s) /\ confirms'[k] = confirms[k + 1]
      BY <1>3 DEF Waits
    <2>3. \A k \in Waits(st, s) : k # 1 =>
            k - 1 \in Waits(st, s)' /\ confirms'[k - 1] = confirms[k]
      <3>1. Waits(st, s)' =
              {k \in DOMAIN confirms' : confirms'[k].stack = st /\ confirms'[k].setting = s}
        BY DEF Waits
      <3> QED
        BY <1>3, <3>1 DEF Waits
    <2>4. << st, s >> = << c.stack, c.setting >> => 1 \in Waits(st, s)
      BY <1>3 DEF Waits
    <2>5. Waits(st, s)' # {} => ppc' = "ready" /\ st = stack'
      BY <1>1, <2>1, <2>2 DEF Agrees
    <2>6. ASSUME OnlyPreviewed(st, s)
          PROVE  OnlyPreviewed(st, s)'
      <3>1. << st, s >> = << c.stack, c.setting >> => ~IsConfirmed(c)
        BY <1>3, <2>4, <2>6 DEF OnlyPreviewed, IsConfirmed
      <3>2. << st, s >> \in DOMAIN pending' <=> << st, s >> \in DOMAIN pending
        BY <1>3, <3>1
      <3>3. WithoutPreview(st, s)' = WithoutPreview(st, s)
        BY <1>1, <1>3, <3>2 DEF WithoutPreview
      <3> QED
        BY <1>1, <1>2, <2>2, <2>6, <3>3 DEF OnlyPreviewed
    <2>7. ASSUME WillBeConfirmed(st, s)
          PROVE  WillBeConfirmed(st, s)'
      <3>1. ASSUME << st, s >> \in DOMAIN pending'
            PROVE  \E k \in Waits(st, s)' : confirms'[k].value = View'[s]
        <4>1. PICK k \in Waits(st, s) : confirms[k].value = View[s]
          BY <1>3, <2>7, <3>1 DEF WillBeConfirmed
        <4>2. st = stack
          BY <2>1, <4>1 DEF Agrees
        <4>3. k # 1
          <5>1. SUFFICES ASSUME k = 1
                         PROVE  FALSE
            OBVIOUS
          <5>2. c.stack = st /\ c.setting = s /\ c.value = View[s]
            BY <1>3, <4>1, <5>1 DEF Waits
          <5>3. IsConfirmed(c)
            BY <4>2, <5>2 DEF IsConfirmed
          <5> QED
            BY <1>3, <3>1, <5>2, <5>3
        <4> QED
          BY <1>2, <2>3, <4>1, <4>3
      <3> QED
        BY <1>1, <2>7, <3>1 DEF WillBeConfirmed
    <2> QED
      BY <1>1, <1>2, <2>1, <2>5, <2>6, <2>7 DEF Agrees
  <1>5. \A k \in DOMAIN confirms' : confirms'[k].stack \in DOMAIN snapshots'
    BY <1>1, <1>3 DEF SettledInv
  <1> QED
    BY <1>1, <1>4, <1>5 DEF SettledInv

LEMMA StutterSettled ==
  ASSUME SettledInv, UNCHANGED profileVars
  PROVE  SettledInv'
  <1>1. View' = View
    BY DEF View, Visible, Or, Merged, States, profileVars
  <1>2. ASSUME NEW st, NEW s, Agrees(st, s)
        PROVE  Agrees(st, s)'
    <2>1. Waits(st, s)' = Waits(st, s) /\ WithoutPreview(st, s)' = WithoutPreview(st, s)
      BY DEF Waits, WithoutPreview, profileVars
    <2> QED
      BY <1>1, <1>2, <2>1 DEF Agrees, OnlyPreviewed, WillBeConfirmed, profileVars
  <1> QED
    BY <1>2 DEF SettledInv, profileVars

LEMMA NextSettles ==
  ASSUME TypeInv, SettledInv, [ProfileNext]_profileVars
  PROVE  SettledInv'
  BY LoadSettles, HandlesSwitchSettles, SwitchesSettles, RingChangeSettles, PreviewSettles,
     SaveSettles, ReloadsSettles, ConfirmsSettles, StutterSettled
  DEF ProfileNext

LEMMA SettledInvariant == ProfileSpec => []SettledInv
  <1>1. ProfileInit => SettledInv
    BY InitSettled
  <1>2. TypeInv /\ SettledInv /\ [ProfileNext]_profileVars => SettledInv'
    BY NextSettles
  <1> QED
    BY <1>1, <1>2, TypeInvariant, PTL DEF ProfileSpec

\* Whatever profiles NVDA switches between, and whatever is previewed, cancelled,
\* saved or changed by the settings ring in between, the snapshot of a stack is what
\* the user has last settled for it once its previews are discarded.
THEOREM SettledSettingsKept == ProfileSpec => []SnapshotsKept
  <1>1. TypeInv /\ SettledInv => SnapshotsKept
    <2>1. SUFFICES ASSUME TypeInv, SettledInv, NEW st \in DOMAIN snapshots, NEW s \in Settings,
                          kept[st][s] # Missing, Settled(st, s)
                   PROVE  kept[st][s] = WithoutPreview(st, s)
      BY DEF SnapshotsKept, WithoutPreview
    <2>2. Agrees(st, s) /\ Waits(st, s) = {}
      BY <2>1 DEF SettledInv, Settled, Waits
    <2> QED
      BY <2>1, <2>2, NothingWaits
  <1> QED
    BY <1>1, TypeInvariant, SettledInvariant, PTL

-----------------------------------------------------------------------------
(* The active stack gets what is settled for it.                           *)

\* What ends a load or a switch.
LEMMA LoadedBy ==
  ASSUME ProfileNext, Loaded
  PROVE  (Load /\ ppc = "load") \/ HandlesSwitch
  <1>1. ~(Load /\ ppc # "load")
    BY DEF Loaded, Load
  <1>2. ~Save /\ ~Reloads /\ ~Confirms
    BY DEF Loaded, Save, DialogEvent, UserChanges, Reloads, Confirms
  <1>3. \A st \in Stacks : ~Switches(st)
    BY DEF Loaded, Switches
  <1>4. \A s \in Settings, v \in SettingValues : ~RingChange(s, v) /\ ~Preview(s, v)
    BY DEF Loaded, RingChange, Preview, DialogEvent, UserChanges
  <1> QED
    BY <1>1, <1>2, <1>3, <1>4 DEF ProfileNext

\* Both restore the snapshot of the active stack, over what its view shows.
LEMMA LoadedRestores ==
  ASSUME TypeInv, ProfileNext, Loaded
  PROVE  /\ RestoresSnapshot(View, snapshots'[stack])
         /\ stack' = stack /\ stack \in DOMAIN snapshots' /\ stack \in Stacks
         /\ snapshots'[stack] \in Stated /\ DOMAIN pending' = {}
         /\ UNCHANGED << confirms, unsettled >>
  <1>1. CASE Load /\ ppc = "load"
    BY <1>1, LoadRestores, LoadKnows, CapturedFacts DEF TypeInv, Load
  <1>2. CASE HandlesSwitch
    BY <1>2 DEF HandlesSwitch, TypeInv, Phases, ProfileTypeOK
  <1> QED
    BY <1>1, <1>2, LoadedBy

\* After every load and every switch of profiles both the driver and NVDA's
\* configuration have what the user has settled for the active stack, whatever NVDA
\* has put into its profiles in between.
THEOREM SettingsRestored == ProfileSpec => ProfileRestored
  <1> DEFINE Restored ==
        Loaded =>
          \A s \in Settings :
            kept'[stack][s] # Missing /\ Settled(stack, s) =>
              driver'[s] = kept'[stack][s] /\ View'[s] = kept'[stack][s]
  <1>1. ASSUME TypeInv, SettledInv', ProfileNext, Loaded
        PROVE  Restored
    <2>1. /\ RestoresSnapshot(View, snapshots'[stack])
          /\ stack' = stack /\ stack \in DOMAIN snapshots' /\ stack \in Stacks
          /\ snapshots'[stack] \in Stated /\ DOMAIN pending' = {}
          /\ UNCHANGED << confirms, unsettled >>
      BY <1>1, LoadedRestores
    <2>2. View \in Values /\ layers \in [Layers -> Stated]
      BY <1>1, <2>1, LayerTypes DEF View, TypeInv, ProfileTypeOK
    <2>3. \A s \in Settings :
            snapshots'[stack][s] # Missing => driver'[s] = snapshots'[stack][s]
      BY <2>1, <2>2, RestoredFacts
    <2>4. ASSUME NEW s \in Settings, kept'[stack][s] # Missing, Settled(stack, s)
          PROVE  driver'[s] = kept'[stack][s] /\ View'[s] = kept'[stack][s]
      <3>1. PICK st : st = stack
        OBVIOUS
      <3>2. << st, s >> \notin unsettled'
        BY <2>1, <2>4, <3>1 DEF Settled
      <3>3. Agrees(st, s)'
        BY <1>1, <2>1, <3>1, <3>2 DEF SettledInv
      <3>4. Waits(st, s)' = {}
        BY <2>1, <2>4, <3>1 DEF Settled, Waits
      <3>5. kept'[st][s] = snapshots'[st][s]
        BY <2>1, <2>4, <3>1, <3>3, <3>4
        DEF Agrees, OnlyPreviewed, WillBeConfirmed, WithoutPreview
      <3>6. View'[s] = kept'[st][s]
        BY <1>1, <2>1, <2>4, <3>1, <3>3 DEF Agrees, Loaded
      <3> QED
        BY <2>3, <2>4, <3>1, <3>5, <3>6
    <2> QED
      BY <2>4
  <1>2. TypeInv /\ SettledInv' /\ [ProfileNext]_profileVars => [Restored]_profileVars
    BY <1>1
  <1> QED
    BY <1>2, TypeInvariant, SettledInvariant, PTL DEF ProfileSpec, ProfileRestored

=============================================================================
