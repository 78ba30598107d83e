--------------------------- MODULE ProgressTracker ---------------------------
(***************************************************************************)
(* The synthesis progress bookkeeping of native_host/src/progress.rs, as   *)
(* operators on a record.  The tracker is owned by the synthesis thread:   *)
(* each method of the Rust type is a pair of operators, one for the record *)
(* it leaves behind and one for the events it returns.                     *)
(***************************************************************************)
EXTENDS Naturals, Sequences

\* The client numbers generations from 1, so 0 stands for None.
NoGeneration == 0

\* The marker a Speech Sequence ends with; it is never a pending index.
FINAL_INDEX == 65535

Trackers ==
  [generation : Nat, pending_indexes : Seq(Nat \ {FINAL_INDEX}), done : BOOLEAN]

\* ProgressTracker::default()
DefaultTracker ==
  [generation |-> NoGeneration, pending_indexes |-> << >>, done |-> FALSE]

\* Every event the host reports for a generation has this shape.
EngineEvents ==
  [kind      : {"Audio", "Index", "Done", "Stopped", "CallbackError"},
   gen       : Nat,
   value     : Nat,
   recovered : BOOLEAN]

AudioEvent(g, text) ==
  [kind |-> "Audio", gen |-> g, value |-> text, recovered |-> FALSE]
IndexEvent(g, index, recovered) ==
  [kind |-> "Index", gen |-> g, value |-> index, recovered |-> recovered]
DoneEvent(g) ==
  [kind |-> "Done", gen |-> g, value |-> 0, recovered |-> FALSE]
StoppedEvent(g) ==
  [kind |-> "Stopped", gen |-> g, value |-> 0, recovered |-> FALSE]
CallbackErrorEvent ==
  [kind |-> "CallbackError", gen |-> NoGeneration, value |-> 0, recovered |-> FALSE]

-----------------------------------------------------------------------------
ActiveGeneration(t) == IF t.done THEN NoGeneration ELSE t.generation

IsActive(t) == ActiveGeneration(t) # NoGeneration

BeginGeneration(g) ==
  [generation |-> g, pending_indexes |-> << >>, done |-> FALSE]

\* Mutant of TrackIndex: the final marker becomes a pending index.
TrackAnyIndex(t, index) ==
  IF IsActive(t)
    THEN [t EXCEPT !.pending_indexes = Append(@, index)]
    ELSE t

TrackIndex(t, index) ==
  IF IsActive(t) /\ index # FINAL_INDEX
    THEN [t EXCEPT !.pending_indexes = Append(@, index)]
    ELSE t

\* What is left of s after its first occurrence of v, or s when v is not in it.
DrainThrough(s, v) ==
  LET hits == {k \in 1 .. Len(s) : s[k] = v}
  IN  IF hits = {}
        THEN s
        ELSE LET first == CHOOSE k \in hits : \A j \in hits : k <= j
             IN  SubSeq(s, first + 1, Len(s))

\* A normal index callback: the indexes before the observed one were crossed too.
EngineIndex(t, index) ==
  IF IsActive(t) /\ index # FINAL_INDEX
    THEN [t EXCEPT !.pending_indexes = DrainThrough(@, index)]
    ELSE t

EngineIndexEvents(t, index) ==
  IF IsActive(t) /\ index # FINAL_INDEX
    THEN << IndexEvent(t.generation, index, FALSE) >>
    ELSE << >>

\* Mutant of Complete: the tracker stays active.
CompleteForgetsDone(t) ==
  IF IsActive(t) THEN [t EXCEPT !.pending_indexes = << >>] ELSE t

\* Completion recovers the newest pending index before it reports Done.  It is
\* idempotent: a second call finds the tracker inactive.
Complete(t) ==
  IF IsActive(t)
    THEN [t EXCEPT !.pending_indexes = << >>, !.done = TRUE]
    ELSE t

RecoveredIndex(t) ==
  IF t.pending_indexes = << >>
    THEN << >>
    ELSE << IndexEvent(t.generation, t.pending_indexes[Len(t.pending_indexes)], TRUE) >>

\* Mutant of CompletionEvents: nothing is recovered.
CompletionWithoutRecovery(t) ==
  IF IsActive(t) THEN << DoneEvent(t.generation) >> ELSE << >>

\* Mutant of CompletionEvents: a recovered index takes the place of Done.
RecoveryWithoutCompletion(t) ==
  CASE ~IsActive(t) -> << >>
    [] IsActive(t) /\ t.pending_indexes = << >> -> << DoneEvent(t.generation) >>
    [] OTHER -> RecoveredIndex(t)

CompletionEvents(t) ==
  IF IsActive(t)
    THEN RecoveredIndex(t) \o << DoneEvent(t.generation) >>
    ELSE << >>

\* stop() takes the generation, whether or not it was done.
StopTracker(t) ==
  IF t.generation = NoGeneration
    THEN t
    ELSE [generation |-> NoGeneration, pending_indexes |-> << >>, done |-> TRUE]

StopEvents(t) ==
  IF t.generation = NoGeneration THEN << >> ELSE << StoppedEvent(t.generation) >>
=============================================================================
