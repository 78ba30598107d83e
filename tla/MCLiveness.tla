------------------------------ MODULE MCLiveness ------------------------------
(***************************************************************************)
(* The host with small channels, under a client with a script that may     *)
(* close at any point, or under the client of the add-on.                  *)
(***************************************************************************)
EXTENDS MCEloquenceHost, MCSpeechPipeline

VARIABLE client   \* who is at the other end of the pipes

liveVars == << pipelineVars, script, client >>
addOnVars == << mainVars, synthQueue, synthVars, conn, receiverVars, clientHistory >>

LivenessInit ==
  /\ PipelineInit
  /\ \/ client = "script" /\ script \in Scripts
     \/ client = "add-on" /\ script = << >>

Scripted(action) == client = "script" /\ action /\ UNCHANGED << addOnVars, client >>
AddOn(action) == client = "add-on" /\ action /\ UNCHANGED << script, client >>

LivenessNext == Scripted(ScriptNext) \/ AddOn(PipelineNext)

\* Besides the threads of the host, a scripted client writes what it has to and reads
\* until it closes.  The threads of the add-on run; NVDA need not speak or cancel, but a
\* stop() it has begun goes on.
LivenessSpec ==
  /\ LivenessInit /\ [][LivenessNext]_liveVars
  /\ Fairness
  /\ WF_liveVars(Scripted(WritesScript))
  /\ WF_liveVars(Scripted(ClientReads /\ UNCHANGED script))
  /\ WF_liveVars(AddOn(SendStop))
  /\ WF_liveVars(AddOn(SynthSteps))
  /\ WF_liveVars(AddOn(Receiver))
=============================================================================
