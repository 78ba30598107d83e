--------------------------- MODULE HostConnection ---------------------------
(***************************************************************************)
(* The client's end of the Host Channel, NativeHostConnection of           *)
(* addon/synthDrivers/_eloquence_native.py: which frames a command becomes *)
(* and which engine events pass, as operators on the fields it keeps.      *)
(***************************************************************************)
EXTENDS Naturals, Sequences

\* _active_generation is None.
NoActive == 0

Connections ==
  [generation : Nat, generation_open : BOOLEAN,
   active_generation : Nat, cancelled : BOOLEAN]

NewConnection ==
  [generation |-> 0, generation_open |-> FALSE,
   active_generation |-> NoActive, cancelled |-> FALSE]

\* prepare_generation()
Prepared(conn) == [conn EXCEPT !.cancelled = FALSE]

\* The first text or index of an utterance opens a generation; what a cancelled
\* utterance left over does not.
Opens(conn, kind) ==
  /\ kind \in {"AddText", "InsertIndex"}
  /\ ~conn.generation_open
  /\ ~conn.cancelled

\* The frames send() writes for one command, by kind, id and argument.
FramesFor(conn, kind, id, arg) ==
  (IF Opens(conn, kind)
     THEN << [kind |-> "BeginGeneration", id |-> 0, arg |-> conn.generation + 1] >>
     ELSE << >>)
  \o << [kind |-> kind, id |-> id, arg |-> arg] >>

\* Mutant of Opened: the number is not counted up.
OpenedAgain(conn) ==
  [conn EXCEPT !.active_generation = conn.generation + 1,
               !.generation_open = TRUE]

Opened(conn) ==
  [conn EXCEPT !.generation = @ + 1,
               !.active_generation = conn.generation + 1,
               !.generation_open = TRUE]

\* Mutant of AfterSend: Stop does not close the connection to leftovers.
AfterSendUnguarded(conn, kind) ==
  LET sent == IF Opens(conn, kind) THEN Opened(conn) ELSE conn
  IN  CASE kind = "Synthesize" -> [sent EXCEPT !.generation_open = FALSE]
        [] kind = "Stop" -> [sent EXCEPT !.generation_open = FALSE,
                                         !.active_generation = NoActive]
        [] OTHER -> sent

\* Mutant of AfterSend: Synthesize forgets the generation it ends.
AfterSendForgetful(conn, kind) ==
  LET sent == IF Opens(conn, kind) THEN Opened(conn) ELSE conn
  IN  CASE kind = "Synthesize" -> [sent EXCEPT !.generation_open = FALSE,
                                               !.active_generation = NoActive]
        [] kind = "Stop" -> [sent EXCEPT !.generation_open = FALSE,
                                         !.active_generation = NoActive,
                                         !.cancelled = TRUE]
        [] OTHER -> sent

\* What send() leaves behind.
AfterSend(conn, kind) ==
  LET sent == IF Opens(conn, kind) THEN Opened(conn) ELSE conn
  IN  CASE kind = "Synthesize" -> [sent EXCEPT !.generation_open = FALSE]
        [] kind = "Stop" -> [sent EXCEPT !.generation_open = FALSE,
                                         !.active_generation = NoActive,
                                         !.cancelled = TRUE]
        [] OTHER -> sent

\* Mutant of Passes: the progress of every generation is reported.
PassesAny(conn, event) == TRUE

\* _decode_event drops the progress of every generation but the active one.
Passes(conn, event) == event.gen = conn.active_generation

\* Done and Stopped of the active generation clear it.
Clears(event) == event.kind \in {"Done", "Stopped"}
Cleared(conn) == [conn EXCEPT !.active_generation = NoActive]
=============================================================================
