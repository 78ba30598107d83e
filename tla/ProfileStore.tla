------------------------------ MODULE ProfileStore ------------------------------
(***************************************************************************)
(* What update_profile of _eloquence_dictionaries.py promises: a provider  *)
(* profile holds one whole snapshot, which an update replaces in one step  *)
(* or not at all.  A process that ends, or a rename that fails, at the     *)
(* wrong moment may strand the snapshot, out of the sight of whoever looks *)
(* for it, and only a stranded snapshot is ever lost.                      *)
(***************************************************************************)
CONSTANT Snapshots    \* what a provider may publish; {} is no snapshot

VARIABLES
  installed,   \* the snapshot that is kept
  stranded     \* whether it is kept under another name than the profile's

storeVars == << installed, stranded >>

Init == installed \in Snapshots \union {{}} /\ stranded = FALSE

Replace ==
  /\ ~stranded
  /\ installed' \in Snapshots
  /\ UNCHANGED stranded

Strand ==
  /\ stranded' = TRUE
  /\ UNCHANGED installed

Lose ==
  /\ stranded /\ installed' = {} /\ stranded' = FALSE

Next == Replace \/ Strand \/ Lose

Spec == Init /\ [][Next]_storeVars
=============================================================================
