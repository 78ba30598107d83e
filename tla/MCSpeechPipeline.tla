-------------------------- MODULE MCSpeechPipeline --------------------------
(***************************************************************************)
(* SpeechPipeline with the utterances TLC runs it on.                      *)
(***************************************************************************)
EXTENDS SpeechPipeline

Step(kind, arg) == [kind |-> kind, arg |-> arg]

\* A text, the final marker and Synthesize, as speak() ends every utterance.
Plain(u) ==
  << Step("AddText", u), Step("InsertIndex", FINAL_INDEX), Step("Synthesize", 0) >>

PlainUtterances == << Plain(1), Plain(2) >>

\* They are what speak() queues, as the theorems ask.
ASSUME UtteranceAssumption == UtterancesEnd

=============================================================================
