--------------------------- MODULE MCEloquenceHost ---------------------------
(***************************************************************************)
(* EloquenceHost on small instances.  A client is either free, and makes   *)
(* any few requests from the start of the host, or has a script, which     *)
(* reaches deeper: it starts where Initialize has been answered, and may   *)
(* be abandoned at any point by closing.                                   *)
(***************************************************************************)
EXTENDS EloquenceHost

CONSTANTS
  Scripts,       \* bound: the frames a scripted client writes
  FreeRequests,  \* bound: requests of a free client
  FreeGenerations  \* bound: generations of a free client

ASSUME FreeAssumption ==
  FreeRequests \in 0 .. MaxRequests /\ FreeGenerations \in 0 .. MaxGenerations

VARIABLE script   \* what is left of the script, by kind and argument

Frame(kind, arg) == [kind |-> kind, arg |-> arg]

Begin(g)  == Frame("BeginGeneration", g)
Text(g)   == Frame("AddText", g)
Insert(i) == Frame("InsertIndex", i)
Synthesize == Frame("Synthesize", 0)
Stop       == Frame("Stop", 0)
Delete     == Frame("Delete", 0)

\* Two utterances; the first ends with an index that ECI may swallow.
TwoUtterances ==
  << Begin(1), Text(1), Insert(1), Synthesize, Begin(2), Text(2), Synthesize >>
\* An utterance with two indexes and the final marker, stopped at any point.
StoppedUtterance ==
  << Begin(1), Text(1), Insert(1), Insert(FINAL_INDEX), Synthesize, Stop >>
\* A Stop behind a whole utterance, and the next utterance behind the Stop.
StopThenNext ==
  << Begin(1), Text(1), Synthesize, Stop, Begin(2), Text(2), Synthesize >>
\* The text of a cancelled utterance that the client writes after its Stop.
LeftoverText ==
  << Begin(1), Text(1), Stop, Text(1), Begin(2), Text(2), Synthesize >>
\* The engine is deleted in the middle of a generation.
DeletedUtterance ==
  << Begin(1), Text(1), Insert(1), Synthesize, Delete, Stop >>

AllScripts ==
  {TwoUtterances, StoppedUtterance, StopThenNext, LeftoverText, DeletedUtterance}

\* One behaviour of each kind for the liveness properties.
ShortScripts == {<< Begin(1), Text(1), Insert(1), Synthesize, Stop >>,
                 << Begin(1), Text(1), Synthesize, Delete >>}

\* The free client: any frame next, for ever.
AnyFrame == << Frame("Any", 0) >>
IsFree == script = AnyFrame

FreeInit == Init /\ script = AnyFrame
LiveInit == ReadyInit /\ script \in Scripts

FreeClient ==
  /\ IsFree
  /\ \/ requests < FreeRequests /\ ClientRequests
     \/ generations < FreeGenerations /\ ClientBegins
  /\ UNCHANGED script

WritesScript ==
  /\ script # << >> /\ ~IsFree
  /\ script' = Tail(script)
  /\ IF Head(script).kind = "BeginGeneration"
       THEN ClientBegins
       ELSE ClientSends(Head(script).kind, Head(script).arg)

\* The client may stop writing, and close, at any point.
MCClient ==
  \/ FreeClient
  \/ WritesScript
  \/ (ClientReads \/ ClientCloses) /\ UNCHANGED script

ScriptNext ==
  \/ Host /\ UNCHANGED script
  \/ MCClient
  \/ Terminated /\ UNCHANGED script

scriptVars == << vars, script >>
MCSpec == (FreeInit \/ LiveInit) /\ [][ScriptNext]_scriptVars
=============================================================================
