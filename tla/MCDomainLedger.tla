--------------------------- MODULE MCDomainLedger ---------------------------
(***************************************************************************)
(* Two domains with a handler each in turn, or one with two at a time.     *)
(***************************************************************************)
EXTENDS ReceptionCadence

CONSTANTS d1, d2, h1, h2

(* Bound: a new event's hash is above all others or below all others, and  *)
(* below at most MaxId - MaxEvents times; nor do the first ones leave gaps. *)
EitherEnd(S) == IF S = {} THEN Ids ELSE {Min(S) - 1, Max(S) + 1} \cap Ids

NoGaps ==
  LET first == MaxId - MaxEvents + 1
  IN  first .. first + Cardinality(Replicas) - 1 \subseteq DOMAIN content

HandlerSymmetry == Permutations({h1, h2})
DomainSymmetry == Permutations({d1, d2})
=============================================================================
