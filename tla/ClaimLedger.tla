---------------------------- MODULE ClaimLedger ----------------------------
(***************************************************************************)
(* What conservation/conservation.js promises its callers, with the        *)
(* pipeline hidden: every claim that was issued has, at every moment, one  *)
(* owner and the amount it was issued with, and a transfer hands the whole *)
(* claim over in one step.  Conservation.tla implements this.              *)
(***************************************************************************)
EXTENDS Naturals

CONSTANTS Roots,    \* the ids issuers choose for the claims they create
          Owners,   \* domain ids
          Amounts

VARIABLE holding    \* issued claim -> its present owner and its amount

Holding == [owner : Owners, amount : Amounts]

Init == holding = [r \in {} |-> r]

\* A claim that does not exist yet comes into being.
Issue(r, o, a) ==
  /\ r \notin DOMAIN holding
  /\ holding' = [x \in DOMAIN holding \cup {r} |->
                   IF x = r THEN [owner |-> o, amount |-> a] ELSE holding[x]]

\* The present owner of a claim gives it, whole, to somebody.
HandOver(r, to) ==
  /\ r \in DOMAIN holding
  /\ holding' = [holding EXCEPT ![r].owner = to]

Next ==
  \/ \E r \in Roots, o \in Owners, a \in Amounts : Issue(r, o, a)
  \/ \E r \in Roots, to \in Owners : HandOver(r, to)

Spec == Init /\ [][Next]_holding
=============================================================================
