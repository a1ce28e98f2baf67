--------------------------- MODULE MCConservation ---------------------------
(***************************************************************************)
(* One issued claim, two owners and three callers: enough for two uses of  *)
(* a claim to race, for it to be passed on and back, and for a caller      *)
(* to come back with a proof another caller is using.                      *)
(***************************************************************************)
EXTENDS Conservation, TLC

Symmetry == Permutations(Callers) \cup Permutations(Owners)
=============================================================================
