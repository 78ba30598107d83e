--------------------------- MODULE MCProfileIsolation ---------------------------
(***************************************************************************)
(* ProfileIsolation with a base that states no pitch and one profile that  *)
(* states nothing else.                                                    *)
(***************************************************************************)
EXTENDS ProfileIsolation

State(v, p) == [variant |-> v, pitch |-> p]
TwoProfiles == [base |-> State(1, Missing), app |-> State(Missing, 2)]
TwoStacks == {<< "base" >>, << "base", "app" >>}
=============================================================================
