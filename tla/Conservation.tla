---------------------------- MODULE Conservation ----------------------------
(***************************************************************************)
(* public/js/core/conservation/conservation.js: the five-step transfer     *)
(* pipeline Deactivate -> Prove -> Verify -> Consume -> Activate on one    *)
(* shared conservation state.  The five functions are exported one by one, *)
(* so several callers may be anywhere in the pipeline at once, may stop    *)
(* between two steps, and may come back with a proof they still hold.      *)
(*                                                                         *)
(* A claim's id is the sequence of what made it: <<r>> for an issued       *)
(* claim, and the source claim's id with one more hop for an activated     *)
(* one (the code's `activated:${claimId}:${from}:${to}:${n}:...`).  Kind   *)
(* travels with the amount and the one authorised derivation is            *)
(* identityDerivation, so a claim's data is its amount.                    *)
(***************************************************************************)
EXTENDS Naturals, Sequences

CONSTANTS Roots,     \* ids issuers choose for new claims
          Owners,    \* domain ids
          Amounts,
          Nonces,    \* the n of a proof
          Callers,   \* parties running the pipeline on the shared state
          MaxHops,   \* bound: how often one claim is passed on
          NoProof    \* what a caller with no transfer in progress holds

VARIABLES claims,        \* state.claims: claim id -> claim
          consumed,      \* state.consumed: ids of consumed proofs
          proofs,        \* every proof proveTransfer() has returned
          stage,         \* the last pipeline step each caller completed
          held,          \* the transfer, later the proof, each caller works on
          consumptions   \* history: proof ids in the order consume() took them

vars == <<claims, consumed, proofs, stage, held, consumptions>>

Hop == [from : Owners, to : Owners, n : Nonces]
Ids == Seq(Roots \cup Hop) \ {<< >>}
Claim == [amount : Amounts, owner : Owners,
          status : {"active", "deactivated", "consumed"}]
Proof == [claimId : Ids, from : Owners, to : Owners, n : Nonces,
          amountOut : Amounts]
Stages == {"idle", "deactivated", "proven", "verified", "consumed"}

\* A proof's id is its tuple; the claim it activates carries the same id.
ProofId(p) == Append(p.claimId, [from |-> p.from, to |-> p.to, n |-> p.n])

RootOf(id) == id[1]

HasStatus(id, s) == id \in DOMAIN claims /\ claims[id].status = s

Init ==
  /\ claims = [id \in {} |-> id]
  /\ consumed = {}
  /\ proofs = {}
  /\ stage = [c \in Callers |-> "idle"]
  /\ held = [c \in Callers |-> NoProof]
  /\ consumptions = << >>

\* Where a caller's present step leaves it.
MoveTo(c, s) == stage' = [stage EXCEPT ![c] = s]

\* A step threw, or the transfer is over: the caller lets go of it.
LetGo(c) == MoveTo(c, "idle") /\ held' = [held EXCEPT ![c] = NoProof]

-----------------------------------------------------------------------------

\* issueClaim: a duplicate id is rejected, never overwritten.
IssueClaim(r, a, o) ==
  /\ <<r>> \notin DOMAIN claims
  /\ claims' = [id \in DOMAIN claims \cup {<<r>>} |->
                  IF id = <<r>> THEN [amount |-> a, owner |-> o, status |-> "active"]
                  ELSE claims[id]]
  /\ UNCHANGED <<consumed, proofs, stage, held, consumptions>>

\* Mutant: deactivate() no longer requires the claim to be active.
Deactivate_AnyStatus(c, id, from, to, n) ==
  /\ stage[c] = "idle"
  /\ id \in DOMAIN claims
  /\ Len(id) <= MaxHops
  /\ claims' = [claims EXCEPT ![id].status = "deactivated"]
  /\ held' = [held EXCEPT ![c] = [claimId |-> id, from |-> from, to |-> to, n |-> n,
                                  amountOut |-> claims[id].amount]]
  /\ MoveTo(c, "deactivated")
  /\ UNCHANGED <<consumed, proofs, consumptions>>

(* deactivate, the first step of a caller's transfer.  It takes only the   *)
(* claim id: whether `from` owns the claim is found out by proveTransfer.  *)
(* The caller keeps what it wants to transfer; the proof's output is the   *)
(* identity derivation of the claim.                                       *)
Deactivate(c, id, from, to, n) ==
  /\ stage[c] = "idle"
  /\ HasStatus(id, "active")
  /\ Len(id) <= MaxHops
  /\ claims' = [claims EXCEPT ![id].status = "deactivated"]
  /\ held' = [held EXCEPT ![c] = [claimId |-> id, from |-> from, to |-> to, n |-> n,
                                  amountOut |-> claims[id].amount]]
  /\ MoveTo(c, "deactivated")
  /\ UNCHANGED <<consumed, proofs, consumptions>>

\* The preconditions proveTransfer() throws on.
Provable(p) ==
  /\ HasStatus(p.claimId, "deactivated")
  /\ claims[p.claimId].owner = p.from

\* proveTransfer: nothing but the new proof, or a throw.
ProveTransfer(c) ==
  /\ stage[c] = "deactivated"
  /\ IF Provable(held[c])
     THEN /\ proofs' = proofs \cup {held[c]}
          /\ MoveTo(c, "proven")
          /\ UNCHANGED held
     ELSE LetGo(c) /\ UNCHANGED proofs
  /\ UNCHANGED <<claims, consumed, consumptions>>

\* verify(): everything is looked up again in the present state.
Verifies(p) ==
  /\ HasStatus(p.claimId, "deactivated")
  /\ claims[p.claimId].owner = p.from
  /\ ProofId(p) \notin consumed
  /\ p.amountOut = claims[p.claimId].amount

Verify(c) ==
  /\ stage[c] = "proven"
  /\ IF Verifies(held[c]) THEN MoveTo(c, "verified") /\ UNCHANGED held ELSE LetGo(c)
  /\ UNCHANGED <<claims, consumed, proofs, consumptions>>

\* Mutant: consume() trusts the earlier verify() and does not check again.
Consume_NoReplayGuard(c) ==
  /\ stage[c] = "verified"
  /\ consumed' = consumed \cup {ProofId(held[c])}
  /\ consumptions' = Append(consumptions, ProofId(held[c]))
  /\ MoveTo(c, "consumed")
  /\ UNCHANGED <<claims, proofs, held>>

\* consume: check and insert in one synchronous step, or a replay rejection.
Consume(c) ==
  /\ stage[c] = "verified"
  /\ IF ProofId(held[c]) \notin consumed
     THEN /\ consumed' = consumed \cup {ProofId(held[c])}
          /\ consumptions' = Append(consumptions, ProofId(held[c]))
          /\ MoveTo(c, "consumed")
          /\ UNCHANGED held
     ELSE LetGo(c) /\ UNCHANGED <<consumed, consumptions>>
  /\ UNCHANGED <<claims, proofs>>

\* Mutant: activate() creates the destination and forgets the source.
Activated_SourceKept(p) ==
  [id \in DOMAIN claims \cup {ProofId(p)} |->
     IF id = ProofId(p) THEN [amount |-> p.amountOut, owner |-> p.to, status |-> "active"]
     ELSE claims[id]]

\* Mutant: the destination claim is written without its amount.
Activated_NoAmount(p) ==
  [id \in DOMAIN claims \cup {ProofId(p)} |->
     IF id = ProofId(p) THEN [amount |-> 0, owner |-> p.to, status |-> "active"]
     ELSE IF id = p.claimId THEN [claims[id] EXCEPT !.status = "consumed"]
     ELSE claims[id]]

\* The claims once p is activated: its source is spent, its destination active.
Activated(p) ==
  [id \in DOMAIN claims \cup {ProofId(p)} |->
     IF id = ProofId(p) THEN [amount |-> p.amountOut, owner |-> p.to, status |-> "active"]
     ELSE IF id = p.claimId THEN [claims[id] EXCEPT !.status = "consumed"]
     ELSE claims[id]]

\* Mutant: activate() writes the destination claim again on a second call.
Activatable_Twice(p) ==
  /\ ProofId(p) \in consumed
  /\ p.claimId \in DOMAIN claims

\* The preconditions activate() throws on.
Activatable(p) ==
  /\ ProofId(p) \in consumed
  /\ p.claimId \in DOMAIN claims
  /\ ProofId(p) \notin DOMAIN claims

\* activate: the caller's last step, whether it succeeds or throws.
Activate(c) ==
  /\ stage[c] = "consumed"
  /\ claims' = IF Activatable(held[c]) THEN Activated(held[c]) ELSE claims
  /\ LetGo(c)
  /\ UNCHANGED <<consumed, proofs, consumptions>>

-----------------------------------------------------------------------------

\* A caller stops between two steps; the conservation state stays as it is.
Crash(c) ==
  /\ stage[c] # "idle"
  /\ LetGo(c)
  /\ UNCHANGED <<claims, consumed, proofs, consumptions>>

(* A caller comes back with a proof: it verifies it again ("safe to call   *)
(* more than once"), or, finding the proof consumed, activates it, which   *)
(* is all that a crash after consume() leaves to do.                       *)
Retry(c, p) ==
  /\ stage[c] = "idle"
  /\ held' = [held EXCEPT ![c] = p]
  /\ \/ MoveTo(c, "proven")
     \/ ProofId(p) \in consumed /\ MoveTo(c, "consumed")
  /\ UNCHANGED <<claims, consumed, proofs, consumptions>>

Step(c) ==
  \/ \E id \in DOMAIN claims, from, to \in Owners, n \in Nonces :
       Deactivate(c, id, from, to, n)
  \/ ProveTransfer(c) \/ Verify(c) \/ Consume(c) \/ Activate(c) \/ Crash(c)
  \/ \E p \in proofs : Retry(c, p)

Next ==
  \/ \E r \in Roots, a \in Amounts, o \in Owners : IssueClaim(r, a, o)
  \/ \E c \in Callers : Step(c)

Spec == Init /\ [][Next]_vars

-----------------------------------------------------------------------------

\* The shape of the state; a claim's amount is always one that was issued.
TypeOK ==
  /\ claims \in [DOMAIN claims -> Claim]
  /\ DOMAIN claims \subseteq Ids
  /\ consumed \subseteq Ids
  /\ proofs \subseteq Proof
  /\ stage \in [Callers -> Stages]
  /\ held \in [Callers -> Proof \cup {NoProof}]
  /\ consumptions \in Seq(Ids)

(* count(Consume(p)) <= 1: however callers interleave, crash and come back *)
(* with the same proof, consume() takes it once.                           *)
NoDoubleConsume ==
  \A i, j \in DOMAIN consumptions : consumptions[i] = consumptions[j] => i = j

\* The claims descended from r that can still be transferred.
Live(r) == {id \in DOMAIN claims : RootOf(id) = r /\ claims[id].status # "consumed"}

Issued == {r \in Roots : <<r>> \in DOMAIN claims}

(* Value is conserved across every chain of transfers: each issued claim   *)
(* has exactly one live descendant, and it carries the issued amount.      *)
(* Two would be a double spend, none would destroy the value.              *)
ValueConserved ==
  \A r \in Issued :
    \E id \in Live(r) : Live(r) = {id} /\ claims[id].amount = claims[<<r>>].amount

(* Whoever received a claim received it from the owner of the claim it was *)
(* made from, through a proof that was consumed.                           *)
ChainOfCustody ==
  \A id \in DOMAIN claims :
    Len(id) > 1 =>
      LET source == SubSeq(id, 1, Len(id) - 1)  hop == id[Len(id)]
      IN  /\ source \in DOMAIN claims
          /\ claims[source].status = "consumed"
          /\ claims[source].owner = hop.from
          /\ claims[id].owner = hop.to
          /\ id \in consumed

(* A claim is never removed, re-owned or re-valued in place, and its       *)
(* status only moves forward: what was spent stays spent.                  *)
Forward(s, t) ==
  s = t \/ <<s, t>> \in {<<"active", "deactivated">>, <<"deactivated", "consumed">>}

ClaimsOnlyProgress ==
  [][\A id \in DOMAIN claims :
       /\ id \in DOMAIN claims'
       /\ claims'[id].owner = claims[id].owner
       /\ claims'[id].amount = claims[id].amount
       /\ Forward(claims[id].status, claims'[id].status)]_vars

-----------------------------------------------------------------------------

\* The live claim descended from r.
LiveId(r) == CHOOSE id \in DOMAIN claims : RootOf(id) = r /\ claims[id].status # "consumed"

(* Seen from outside, an issued claim is held by the owner of its live     *)
(* descendant; a transfer takes effect in activate().                      *)
Holders ==
  [r \in Issued |-> [owner |-> claims[LiveId(r)].owner,
                     amount |-> claims[LiveId(r)].amount]]

Abstract == INSTANCE ClaimLedger WITH holding <- Holders

\* The pipeline, with all its interleavings, implements whole-claim transfer.
ImplementsClaimLedger == Abstract!Spec
=============================================================================
