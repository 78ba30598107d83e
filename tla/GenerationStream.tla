-------------------------- MODULE GenerationStream --------------------------
(***************************************************************************)
(* What the host promises of the progress it reports, whatever its threads *)
(* and ECI do: generations are reported in order; a generation reports     *)
(* audio and indexes, then at most one Done, then at most one Stopped, and *)
(* once a later generation is heard of, nothing more of an earlier one.    *)
(***************************************************************************)
EXTENDS Naturals

CONSTANT Generations  \* the generation numbers, from 1

VARIABLES
  current,  \* the generation of the newest report, 0 before the first
  phase,    \* "open", "done" or "stopped": how far that generation has come
  reports   \* how many reports were made, so that one made twice is two steps

vars == << current, phase, reports >>

Init == current = 0 /\ phase = "stopped" /\ reports = 0

\* g may still report something that comes before the phases in ended.
MayReport(g, ended) == g > current \/ (g = current /\ phase \notin ended)

Progress(g) ==
  /\ MayReport(g, {"done", "stopped"})
  /\ current' = g /\ phase' = "open" /\ reports' = reports + 1

Finish(g) ==
  /\ MayReport(g, {"done", "stopped"})
  /\ current' = g /\ phase' = "done" /\ reports' = reports + 1

Halt(g) ==
  /\ MayReport(g, {"stopped"})
  /\ current' = g /\ phase' = "stopped" /\ reports' = reports + 1

Next == \E g \in Generations : Progress(g) \/ Finish(g) \/ Halt(g)

Spec == Init /\ [][Next]_vars
=============================================================================
