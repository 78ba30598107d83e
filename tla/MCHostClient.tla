---------------------------- MODULE MCHostClient ----------------------------
(***************************************************************************)
(* HostClient with the operations TLC runs it on.                          *)
(***************************************************************************)
EXTENDS HostClient

\* Speech under way is cut off by the end of the driver, which comes back.
Comeback == << "Initialize", "Speak", "Speak", "Terminate", "Initialize" >>
\* The host is replaced while it speaks.
Restart == << "Initialize", "Speak", "SetSampleRate" >>
\* Calls of the main thread and of the worker share the host.
Calls == << "Initialize", "Speak", "SetParam", "Stop", "Terminate" >>

AllScripts == {Comeback, Restart, Calls}
=============================================================================
