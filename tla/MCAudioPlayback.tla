--------------------------- MODULE MCAudioPlayback ---------------------------
(***************************************************************************)
(* AudioPlayback with the utterances TLC runs it on.                       *)
(***************************************************************************)
EXTENDS AudioPlayback

Audio == "audio"
Index == "index"
Done  == "done"

\* An index on a chunk, two without one of their own, and trailing audio.
Marked == << Audio, Index, Index, Audio, Audio, Done >>
\* An utterance whose completion never reached the audio queue.
Unfinished == << Audio, Audio >>
\* Indexes alone, then an index that closes the audio.
Closed == << Index, Audio, Index, Done >>

MixedStreams == << Marked, Unfinished, Closed >>
ShortStreams == << << Audio, Index, Done >>, Closed >>
=============================================================================
