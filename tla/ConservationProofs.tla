------------------------- MODULE ConservationProofs -------------------------
(***************************************************************************)
(* Proofs about Conservation.tla, for any sets of claims, owners, nonces   *)
(* and callers and any number of hops.                                     *)
(***************************************************************************)
EXTENDS Conservation, TLAPS

-----------------------------------------------------------------------------
(* Claim ids.                                                              *)

\* An issued claim's id is an id, and its root is what the issuer chose.
LEMMA RootIds == \A r \in Roots : <<r>> \in Ids /\ RootOf(<<r>>) = r
BY DEF Ids, RootOf

(* A proof's id extends the id of the claim it transfers by one hop: it is *)
(* an id, has the same root, and is nobody's own issued id.                *)
LEMMA ProofIds ==
  ASSUME NEW p \in Proof
  PROVE  /\ ProofId(p) \in Ids
         /\ RootOf(ProofId(p)) = RootOf(p.claimId)
         /\ ProofId(p) # p.claimId
         /\ \A r : ProofId(p) # <<r>>
<1> DEFINE hop == [from |-> p.from, to |-> p.to, n |-> p.n]
<1>1. p.claimId \in Seq(Roots \cup Hop) /\ p.claimId # << >> /\ hop \in Hop
  BY DEF Proof, Ids, Hop
<1>2. Append(p.claimId, hop) \in Seq(Roots \cup Hop) /\ Len(p.claimId) \in Nat \ {0}
  BY <1>1
<1>3. Len(Append(p.claimId, hop)) = Len(p.claimId) + 1
  BY <1>1
<1>4. Append(p.claimId, hop)[1] = p.claimId[1]
  BY <1>1, <1>2
<1>5. Append(p.claimId, hop) # << >> /\ Append(p.claimId, hop) # p.claimId
  BY <1>2, <1>3
<1>6. \A r : Append(p.claimId, hop) # <<r>>
  <2> TAKE r
  <2>1. Len(<<r>>) = 1
    OBVIOUS
  <2>2. Len(Append(p.claimId, hop)) # 1
    BY <1>2, <1>3
  <2>3. QED
    BY <2>1, <2>2
<1>7. QED
  BY <1>2, <1>4, <1>5, <1>6 DEF ProofId, Ids, RootOf

\* Two proofs with one id are proofs about one claim.
LEMMA ProofIdsInjective ==
  ASSUME NEW p \in Proof, NEW q \in Proof, ProofId(p) = ProofId(q)
  PROVE  p.claimId = q.claimId
<1>1. p.claimId \in Seq(Roots \cup Hop) /\ q.claimId \in Seq(Roots \cup Hop)
  BY DEF Proof, Ids
<1> DEFINE hp == [from |-> p.from, to |-> p.to, n |-> p.n]
           hq == [from |-> q.from, to |-> q.to, n |-> q.n]
<1>2. hp \in Hop /\ hq \in Hop
  BY DEF Proof, Hop
<1>3. Append(p.claimId, hp) = Append(q.claimId, hq)
  BY DEF ProofId
<1>4. Len(p.claimId) = Len(q.claimId)
  BY <1>1, <1>2, <1>3
<1>5. \A i \in 1 .. Len(p.claimId) : p.claimId[i] = q.claimId[i]
  BY <1>1, <1>2, <1>3, <1>4
<1>6. QED
  BY <1>1, <1>4, <1>5

-----------------------------------------------------------------------------
(* The inductive invariant.                                                *)

\* A caller that deactivated a claim is alone with it until it has proved.
ProverAlone ==
  \A c \in Callers : stage[c] = "deactivated" =>
    /\ HasStatus(held[c].claimId, "deactivated")
    /\ claims[held[c].claimId].amount = held[c].amountOut
    /\ \A p \in proofs : p.claimId # held[c].claimId
    /\ \A d \in Callers :
         stage[d] = "deactivated" /\ held[d].claimId = held[c].claimId => d = c

\* What a caller holds at each stage.
HeldOK ==
  \A c \in Callers :
    /\ stage[c] # "idle" => held[c] \in Proof
    /\ stage[c] \in {"proven", "verified", "consumed"} => held[c] \in proofs
    /\ stage[c] = "consumed" => ProofId(held[c]) \in consumed

\* A proof speaks of a claim that left "active", and speaks the truth.
ProofsOK ==
  \A p \in proofs :
    /\ p.claimId \in DOMAIN claims
    /\ claims[p.claimId].status # "active"
    /\ claims[p.claimId].owner = p.from
    /\ claims[p.claimId].amount = p.amountOut

\* There is one proof about a claim, at most.
OneProofPerClaim == \A p, q \in proofs : p.claimId = q.claimId => p = q

\* A claim is spent exactly when its proof has been activated.
SpentByActivation ==
  \A p \in proofs :
    /\ ProofId(p) \in DOMAIN claims <=> claims[p.claimId].status = "consumed"
    /\ ProofId(p) \in DOMAIN claims => ProofId(p) \in consumed

SpentClaimsHaveProofs ==
  \A id \in DOMAIN claims :
    claims[id].status = "consumed" => \E p \in proofs : p.claimId = id

ConsumedProofs == \A x \in consumed : \E p \in proofs : x = ProofId(p)

ConsumptionsOK ==
  /\ \A i \in DOMAIN consumptions : consumptions[i] \in consumed
  /\ NoDoubleConsume

\* Every claim descends from an issued one and has its amount.
LineageOK ==
  \A id \in DOMAIN claims :
    /\ RootOf(id) \in Roots
    /\ <<RootOf(id)>> \in DOMAIN claims
    /\ claims[id].amount = claims[<<RootOf(id)>>].amount

\* A claim that was not issued was activated by a proof.
DerivedClaims ==
  \A id \in DOMAIN claims : id = <<RootOf(id)>> \/ \E p \in proofs : id = ProofId(p)

OneLive ==
  \A i, j \in DOMAIN claims :
    /\ RootOf(i) = RootOf(j)
    /\ claims[i].status # "consumed" /\ claims[j].status # "consumed"
    => i = j

SomeLive ==
  \A id \in DOMAIN claims : \E j \in DOMAIN claims :
    RootOf(j) = RootOf(id) /\ claims[j].status # "consumed"

IInv ==
  /\ TypeOK
  /\ ProverAlone /\ HeldOK
  /\ ProofsOK /\ OneProofPerClaim
  /\ SpentByActivation /\ SpentClaimsHaveProofs
  /\ ConsumedProofs /\ ConsumptionsOK
  /\ LineageOK /\ DerivedClaims /\ OneLive /\ SomeLive

LEMMA InitInv == Init => IInv
<1> SUFFICES ASSUME Init PROVE IInv
  OBVIOUS
<1> USE DEF Init
<1>1. TypeOK
  BY DEF TypeOK, Stages
<1>2. ProverAlone /\ HeldOK /\ ProofsOK /\ OneProofPerClaim
  BY DEF ProverAlone, HeldOK, ProofsOK, OneProofPerClaim
<1>3. SpentByActivation /\ SpentClaimsHaveProofs /\ ConsumedProofs /\ ConsumptionsOK
  BY DEF SpentByActivation, SpentClaimsHaveProofs, ConsumedProofs, ConsumptionsOK,
         NoDoubleConsume
<1>4. LineageOK /\ DerivedClaims /\ OneLive /\ SomeLive
  BY DEF LineageOK, DerivedClaims, OneLive, SomeLive
<1>5. QED
  BY <1>1, <1>2, <1>3, <1>4 DEF IInv

\* issueClaim starts a lineage of its own.
LEMMA IssueInv ==
  ASSUME IInv, NEW r \in Roots, NEW a \in Amounts, NEW o \in Owners, IssueClaim(r, a, o)
  PROVE  IInv'
<1> USE DEF IInv
<1> DEFINE new == [amount |-> a, owner |-> o, status |-> "active"]
<1>1. /\ <<r>> \notin DOMAIN claims
      /\ DOMAIN claims' = DOMAIN claims \cup {<<r>>}
      /\ claims'[<<r>>] = new
      /\ \A id \in DOMAIN claims : id # <<r>> /\ claims'[id] = claims[id]
      /\ UNCHANGED <<consumed, proofs, stage, held, consumptions>>
  BY DEF IssueClaim
<1>2. new \in Claim /\ <<r>> \in Ids /\ RootOf(<<r>>) = r
  BY RootIds DEF Claim
<1>3. TypeOK'
  <2>1. claims' \in [DOMAIN claims' -> Claim]
    BY <1>2 DEF IssueClaim, TypeOK
  <2>2. QED
    BY <1>1, <1>2, <2>1 DEF TypeOK
<1>4. ProverAlone'
  BY <1>1 DEF ProverAlone, HasStatus
<1>5. HeldOK' /\ ConsumedProofs' /\ ConsumptionsOK' /\ OneProofPerClaim'
  BY <1>1 DEF HeldOK, ConsumedProofs, ConsumptionsOK, OneProofPerClaim, NoDoubleConsume
<1>6. ProofsOK'
  BY <1>1 DEF ProofsOK
<1>7. SpentByActivation'
  <2> SUFFICES ASSUME NEW p \in proofs
               PROVE  /\ ProofId(p) \in DOMAIN claims' <=> claims'[p.claimId].status = "consumed"
                      /\ ProofId(p) \in DOMAIN claims' => ProofId(p) \in consumed
    BY <1>1 DEF SpentByActivation, ProofId
  <2>1. ProofId(p) # <<r>>
    BY ProofIds DEF TypeOK
  <2>2. QED
    BY <1>1, <2>1 DEF SpentByActivation, ProofsOK
<1>8. SpentClaimsHaveProofs'
  BY <1>1 DEF SpentClaimsHaveProofs
<1>9. \A id \in DOMAIN claims : RootOf(id) # r
  BY <1>1 DEF LineageOK
<1>10. LineageOK' /\ DerivedClaims'
  BY <1>1, <1>2 DEF LineageOK, DerivedClaims, RootOf, ProofId
<1>11. OneLive'
  BY <1>1, <1>2, <1>9 DEF OneLive, RootOf
<1>12. SomeLive'
  BY <1>1, <1>2 DEF SomeLive, RootOf
<1>13. QED
  BY <1>3, <1>4, <1>5, <1>6, <1>7, <1>8, <1>10, <1>11, <1>12

\* deactivate takes an active claim, which nobody has a proof about.
LEMMA DeactivateInv ==
  ASSUME IInv, NEW c \in Callers, NEW id \in DOMAIN claims,
         NEW from \in Owners, NEW to \in Owners, NEW n \in Nonces,
         Deactivate(c, id, from, to, n)
  PROVE  IInv'
<1> USE DEF IInv
<1> DEFINE want == [claimId |-> id, from |-> from, to |-> to, n |-> n,
                    amountOut |-> claims[id].amount]
<1>1. /\ claims[id].status = "active" /\ stage[c] = "idle"
      /\ claims' = [claims EXCEPT ![id].status = "deactivated"]
      /\ held' = [held EXCEPT ![c] = want]
      /\ stage' = [stage EXCEPT ![c] = "deactivated"]
      /\ UNCHANGED <<consumed, proofs, consumptions>>
  BY DEF Deactivate, HasStatus, MoveTo
<1>2. claims \in [DOMAIN claims -> Claim] /\ id \in Ids
  BY DEF TypeOK
<1>3. /\ DOMAIN claims' = DOMAIN claims
      /\ claims'[id].status = "deactivated"
      /\ \A x \in DOMAIN claims : /\ claims'[x].owner = claims[x].owner
                                  /\ claims'[x].amount = claims[x].amount
                                  /\ x # id => claims'[x] = claims[x]
  BY <1>1, <1>2 DEF Claim
<1>4. want \in Proof
  BY <1>2 DEF Proof, Claim
<1>5. held \in [Callers -> Proof \cup {NoProof}] /\ stage \in [Callers -> Stages]
  BY DEF TypeOK
<1>6. /\ held'[c] = want /\ stage'[c] = "deactivated"
      /\ \A d \in Callers : d # c => held'[d] = held[d] /\ stage'[d] = stage[d]
  BY <1>1, <1>5
<1>7. \A p \in proofs : p.claimId # id
  BY <1>1 DEF ProofsOK
<1>8. \A d \in Callers : stage[d] = "deactivated" => held[d].claimId # id
  BY <1>1 DEF ProverAlone, HasStatus
<1>9. TypeOK'
  <2>1. claims' \in [DOMAIN claims' -> Claim]
    BY <1>1, <1>2 DEF Claim
  <2>2. held' \in [Callers -> Proof \cup {NoProof}] /\ stage' \in [Callers -> Stages]
    BY <1>1, <1>4, <1>5 DEF Stages
  <2>3. QED
    BY <1>1, <1>3, <2>1, <2>2 DEF TypeOK
<1>10. ProverAlone'
  <2> SUFFICES ASSUME NEW d \in Callers, stage'[d] = "deactivated"
               PROVE  /\ HasStatus(held[d].claimId, "deactivated")'
                      /\ claims'[held'[d].claimId].amount = held'[d].amountOut
                      /\ \A p \in proofs : p.claimId # held'[d].claimId
                      /\ \A e \in Callers :
                           stage'[e] = "deactivated" /\ held'[e].claimId = held'[d].claimId
                           => e = d
    BY <1>1 DEF ProverAlone
  <2>1. CASE d = c
    BY <2>1, <1>3, <1>6, <1>7, <1>8 DEF HasStatus
  <2>2. CASE d # c
    BY <2>2, <1>3, <1>6, <1>8 DEF ProverAlone, HasStatus
  <2>3. QED
    BY <2>1, <2>2
<1>11. HeldOK'
  BY <1>1, <1>4, <1>6 DEF HeldOK, ProofId
<1>12. ProofsOK' /\ OneProofPerClaim'
  BY <1>1, <1>3, <1>7 DEF ProofsOK, OneProofPerClaim
<1>13. SpentByActivation'
  BY <1>1, <1>3, <1>7 DEF SpentByActivation, ProofsOK, ProofId
<1>14. SpentClaimsHaveProofs' /\ ConsumedProofs' /\ ConsumptionsOK'
  BY <1>1, <1>3 DEF SpentClaimsHaveProofs, ConsumedProofs, ConsumptionsOK, NoDoubleConsume,
                    ProofId
<1>15. \A x \in DOMAIN claims :
         claims'[x].status # "consumed" <=> claims[x].status # "consumed"
  BY <1>1, <1>3
<1>16. LineageOK' /\ DerivedClaims' /\ OneLive' /\ SomeLive'
  BY <1>1, <1>3, <1>15 DEF LineageOK, DerivedClaims, OneLive, SomeLive, RootOf, ProofId
<1>17. QED
  BY <1>9, <1>10, <1>11, <1>12, <1>13, <1>14, <1>16

(* Steps that touch neither the claims nor the proofs, and of which each   *)
(* caller only lets go, or keeps and moves on with, what it held.          *)
LEMMA LetGoInv ==
  ASSUME IInv, NEW c \in Callers, LetGo(c),
         UNCHANGED <<claims, consumed, proofs, consumptions>>
  PROVE  IInv'
<1> USE DEF IInv
<1>1. held \in [Callers -> Proof \cup {NoProof}] /\ stage \in [Callers -> Stages]
  BY DEF TypeOK
<1>2. /\ held' \in [Callers -> Proof \cup {NoProof}] /\ stage' \in [Callers -> Stages]
      /\ stage'[c] = "idle"
      /\ \A d \in Callers : d # c => held'[d] = held[d] /\ stage'[d] = stage[d]
  BY <1>1 DEF LetGo, MoveTo, Stages
<1>3. TypeOK'
  BY <1>2 DEF TypeOK
<1>4. ProverAlone' /\ HeldOK'
  BY <1>2 DEF ProverAlone, HeldOK, HasStatus, ProofId
<1>5. ProofsOK' /\ OneProofPerClaim' /\ SpentByActivation' /\ SpentClaimsHaveProofs'
  BY DEF ProofsOK, OneProofPerClaim, SpentByActivation, SpentClaimsHaveProofs, ProofId
<1>6. ConsumedProofs' /\ ConsumptionsOK'
  BY DEF ConsumedProofs, ConsumptionsOK, NoDoubleConsume, ProofId
<1>7. LineageOK' /\ DerivedClaims' /\ OneLive' /\ SomeLive'
  BY DEF LineageOK, DerivedClaims, OneLive, SomeLive, RootOf, ProofId
<1>8. QED
  BY <1>3, <1>4, <1>5, <1>6, <1>7

\* A caller that takes up, or goes on with, a proof that was really made.
LEMMA HoldInv ==
  ASSUME IInv, NEW c \in Callers, NEW p \in proofs,
         NEW s \in {"proven", "verified", "consumed"},
         held' = [held EXCEPT ![c] = p], MoveTo(c, s),
         s = "consumed" => ProofId(p) \in consumed,
         UNCHANGED <<claims, consumed, proofs, consumptions>>
  PROVE  IInv'
<1> USE DEF IInv
<1>1. held \in [Callers -> Proof \cup {NoProof}] /\ stage \in [Callers -> Stages] /\ p \in Proof
  BY DEF TypeOK
<1>2. /\ held' \in [Callers -> Proof \cup {NoProof}] /\ stage' \in [Callers -> Stages]
      /\ stage'[c] = s /\ held'[c] = p
      /\ \A d \in Callers : d # c => held'[d] = held[d] /\ stage'[d] = stage[d]
  BY <1>1 DEF MoveTo, Stages
<1>3. TypeOK'
  BY <1>2 DEF TypeOK
<1>4. ProverAlone'
  BY <1>2 DEF ProverAlone, HasStatus
<1>5. HeldOK'
  BY <1>1, <1>2 DEF HeldOK, ProofId
<1>6. ProofsOK' /\ OneProofPerClaim' /\ SpentByActivation' /\ SpentClaimsHaveProofs'
  BY DEF ProofsOK, OneProofPerClaim, SpentByActivation, SpentClaimsHaveProofs, ProofId
<1>7. ConsumedProofs' /\ ConsumptionsOK'
  BY DEF ConsumedProofs, ConsumptionsOK, NoDoubleConsume, ProofId
<1>8. LineageOK' /\ DerivedClaims' /\ OneLive' /\ SomeLive'
  BY DEF LineageOK, DerivedClaims, OneLive, SomeLive, RootOf, ProofId
<1>9. QED
  BY <1>3, <1>4, <1>5, <1>6, <1>7, <1>8

\* proveTransfer makes the one proof about the claim its caller is alone with.
LEMMA ProveInv ==
  ASSUME IInv, NEW c \in Callers, ProveTransfer(c)
  PROVE  IInv'
<1> USE DEF IInv
<1>1. CASE ~Provable(held[c])
  BY <1>1, LetGoInv DEF ProveTransfer
<1>2. CASE Provable(held[c])
  <2> DEFINE p == held[c]
  <2>1. /\ stage[c] = "deactivated" /\ p \in Proof
        /\ proofs' = proofs \cup {p} /\ stage' = [stage EXCEPT ![c] = "proven"]
        /\ UNCHANGED <<claims, consumed, consumptions, held>>
    BY <1>2 DEF ProveTransfer, MoveTo, HeldOK
  <2>2. /\ p.claimId \in DOMAIN claims /\ claims[p.claimId].status = "deactivated"
        /\ claims[p.claimId].owner = p.from /\ claims[p.claimId].amount = p.amountOut
        /\ \A q \in proofs : q.claimId # p.claimId
    BY <1>2, <2>1 DEF Provable, HasStatus, ProverAlone
  <2>3. stage \in [Callers -> Stages]
    BY DEF TypeOK
  <2>4. /\ stage' \in [Callers -> Stages] /\ stage'[c] = "proven"
        /\ \A d \in Callers : d # c => stage'[d] = stage[d]
    BY <2>1, <2>3 DEF Stages
  <2>5. TypeOK'
    BY <2>1, <2>4 DEF TypeOK
  <2>6. ProverAlone'
    BY <2>1, <2>2, <2>4 DEF ProverAlone, HasStatus
  <2>7. HeldOK'
    BY <2>1, <2>4 DEF HeldOK, ProofId
  <2>8. ProofsOK' /\ OneProofPerClaim'
    BY <2>1, <2>2 DEF ProofsOK, OneProofPerClaim
  <2>9. ProofId(p) \notin DOMAIN claims
    (* The claim p would activate exists only after an activation, which    *)
    (* would have made p's claim spent.                                     *)
    <3>1. SUFFICES ASSUME ProofId(p) \in DOMAIN claims PROVE FALSE
      OBVIOUS
    <3>2. PICK q \in proofs : ProofId(q) = ProofId(p)
      BY <3>1, <2>1, ProofIds DEF DerivedClaims
    <3>3. q.claimId = p.claimId
      BY <3>2, <2>1, ProofIdsInjective DEF TypeOK
    <3>4. QED
      BY <3>3, <2>2
  <2>10. SpentByActivation'
    BY <2>1, <2>2, <2>9 DEF SpentByActivation, ProofId
  <2>11. SpentClaimsHaveProofs' /\ ConsumedProofs' /\ ConsumptionsOK'
    BY <2>1 DEF SpentClaimsHaveProofs, ConsumedProofs, ConsumptionsOK, NoDoubleConsume, ProofId
  <2>12. LineageOK' /\ DerivedClaims' /\ OneLive' /\ SomeLive'
    BY <2>1 DEF LineageOK, DerivedClaims, OneLive, SomeLive, RootOf, ProofId
  <2>13. QED
    BY <2>5, <2>6, <2>7, <2>8, <2>10, <2>11, <2>12
<1>3. QED
  BY <1>1, <1>2

\* consume takes a proof that was not taken before, or rejects the replay.
LEMMA ConsumeInv ==
  ASSUME IInv, NEW c \in Callers, Consume(c)
  PROVE  IInv'
<1> USE DEF IInv
<1> DEFINE p == held[c]
<1>1. CASE ProofId(p) \in consumed
  BY <1>1, LetGoInv DEF Consume
<1>2. CASE ProofId(p) \notin consumed
  <2>1. /\ stage[c] = "verified" /\ p \in proofs /\ p \in Proof
        /\ consumed' = consumed \cup {ProofId(p)}
        /\ consumptions' = Append(consumptions, ProofId(p))
        /\ stage' = [stage EXCEPT ![c] = "consumed"]
        /\ UNCHANGED <<claims, proofs, held>>
    BY <1>2 DEF Consume, MoveTo, HeldOK
  <2>2. stage \in [Callers -> Stages] /\ consumptions \in Seq(Ids)
    BY DEF TypeOK
  <2>3. /\ stage' \in [Callers -> Stages] /\ stage'[c] = "consumed"
        /\ \A d \in Callers : d # c => stage'[d] = stage[d]
    BY <2>1, <2>2 DEF Stages
  <2>4. ProofId(p) \in Ids
    BY <2>1, ProofIds
  <2>5. TypeOK'
    BY <2>1, <2>2, <2>3, <2>4 DEF TypeOK
  <2>6. ProverAlone' /\ HeldOK'
    BY <2>1, <2>3 DEF ProverAlone, HeldOK, HasStatus, ProofId
  <2>7. ProofsOK' /\ OneProofPerClaim' /\ SpentByActivation' /\ SpentClaimsHaveProofs'
    BY <2>1 DEF ProofsOK, OneProofPerClaim, SpentByActivation, SpentClaimsHaveProofs, ProofId
  <2>8. ConsumedProofs'
    BY <2>1 DEF ConsumedProofs, ProofId
  <2>9. ConsumptionsOK'
    BY <1>2, <2>1, <2>2, <2>4 DEF ConsumptionsOK, NoDoubleConsume
  <2>10. LineageOK' /\ DerivedClaims' /\ OneLive' /\ SomeLive'
    BY <2>1 DEF LineageOK, DerivedClaims, OneLive, SomeLive, RootOf, ProofId
  <2>11. QED
    BY <2>5, <2>6, <2>7, <2>8, <2>9, <2>10
<1>3. QED
  BY <1>1, <1>2

(* What activation does to the claims: the source, which is deactivated    *)
(* because its destination does not exist yet, becomes consumed, and the   *)
(* destination is a new active claim of the same root and amount.          *)
LEMMA ActivatedClaims ==
  ASSUME IInv, NEW p \in proofs, Activatable(p), claims' = Activated(p)
  PROVE  /\ p \in Proof /\ ProofId(p) \in Ids /\ p.claimId # ProofId(p)
         /\ p.claimId \in DOMAIN claims /\ ProofId(p) \notin DOMAIN claims
         /\ claims[p.claimId].status = "deactivated"
         /\ claims[p.claimId].amount = p.amountOut
         /\ DOMAIN claims' = DOMAIN claims \cup {ProofId(p)}
         /\ claims' \in [DOMAIN claims' -> Claim]
         /\ claims'[ProofId(p)] = [amount |-> p.amountOut, owner |-> p.to, status |-> "active"]
         /\ claims'[p.claimId].status = "consumed"
         /\ \A id \in DOMAIN claims :
              /\ claims'[id].owner = claims[id].owner /\ claims'[id].amount = claims[id].amount
              /\ id # p.claimId => claims'[id] = claims[id]
         /\ RootOf(ProofId(p)) = RootOf(p.claimId)
<1> USE DEF IInv
<1>1. p \in Proof /\ claims \in [DOMAIN claims -> Claim]
  BY DEF TypeOK
<1>2. ProofId(p) \in Ids /\ p.claimId # ProofId(p) /\ RootOf(ProofId(p)) = RootOf(p.claimId)
  BY <1>1, ProofIds
<1>3. p.claimId \in DOMAIN claims /\ ProofId(p) \notin DOMAIN claims
  BY DEF Activatable
<1>4. claims[p.claimId] \in Claim
  BY <1>1, <1>3
<1>5. claims[p.claimId].status = "deactivated" /\ claims[p.claimId].amount = p.amountOut
  BY <1>3, <1>4 DEF Claim, ProofsOK, SpentByActivation
<1>6. /\ DOMAIN claims' = DOMAIN claims \cup {ProofId(p)}
      /\ claims'[ProofId(p)] = [amount |-> p.amountOut, owner |-> p.to, status |-> "active"]
      /\ claims'[p.claimId] = [claims[p.claimId] EXCEPT !.status = "consumed"]
      /\ \A id \in DOMAIN claims : id # p.claimId => claims'[id] = claims[id]
  BY <1>2, <1>3 DEF Activated
<1>7. /\ claims'[p.claimId].status = "consumed"
      /\ claims'[p.claimId].owner = claims[p.claimId].owner
      /\ claims'[p.claimId].amount = claims[p.claimId].amount
      /\ claims'[p.claimId] \in Claim
  BY <1>4, <1>6 DEF Claim
<1>8. claims'[ProofId(p)] \in Claim
  BY <1>1, <1>6 DEF Claim, Proof
<1>9. claims' \in [DOMAIN claims' -> Claim]
  <2>1. \A id \in DOMAIN claims' : claims'[id] \in Claim
    BY <1>1, <1>6, <1>7, <1>8
  <2>2. claims' = [id \in DOMAIN claims' |-> claims'[id]]
    BY <1>6 DEF Activated
  <2>3. QED
    BY <2>1, <2>2
<1>10. QED
  BY <1>1, <1>2, <1>3, <1>5, <1>6, <1>7, <1>9

\* activate spends the source and hands its root's one live place over.
LEMMA ActivateInv ==
  ASSUME IInv, NEW c \in Callers, Activate(c)
  PROVE  IInv'
<1> USE DEF IInv
<1> DEFINE p == held[c]
<1>1. CASE ~Activatable(p)
  BY <1>1, LetGoInv DEF Activate
<1>2. CASE Activatable(p)
  <2>1. /\ p \in proofs /\ claims' = Activated(p) /\ LetGo(c)
        /\ UNCHANGED <<consumed, proofs, consumptions>>
    BY <1>2 DEF Activate, HeldOK
  <2> HIDE DEF p
  <2>2. /\ p \in Proof /\ ProofId(p) \in Ids /\ p.claimId # ProofId(p)
        /\ p.claimId \in DOMAIN claims /\ ProofId(p) \notin DOMAIN claims
        /\ claims[p.claimId].status = "deactivated" /\ claims[p.claimId].amount = p.amountOut
        /\ DOMAIN claims' = DOMAIN claims \cup {ProofId(p)}
        /\ claims' \in [DOMAIN claims' -> Claim]
        /\ claims'[ProofId(p)] = [amount |-> p.amountOut, owner |-> p.to, status |-> "active"]
        /\ claims'[p.claimId].status = "consumed"
        /\ \A id \in DOMAIN claims :
             /\ claims'[id].owner = claims[id].owner /\ claims'[id].amount = claims[id].amount
             /\ id # p.claimId => claims'[id] = claims[id]
        /\ RootOf(ProofId(p)) = RootOf(p.claimId)
    BY <1>2, <2>1, ActivatedClaims
  <2>3. held \in [Callers -> Proof \cup {NoProof}] /\ stage \in [Callers -> Stages]
    BY DEF TypeOK
  <2>4. /\ held' \in [Callers -> Proof \cup {NoProof}] /\ stage' \in [Callers -> Stages]
        /\ stage'[c] = "idle"
        /\ \A d \in Callers : d # c => held'[d] = held[d] /\ stage'[d] = stage[d]
    BY <2>1, <2>3 DEF LetGo, MoveTo, Stages
  <2>5. TypeOK'
    BY <2>1, <2>2, <2>4 DEF TypeOK
  <2>6. ProverAlone'
    (* Nobody alone with a claim is alone with p's: p is a proof about it.  *)
    <3>1. \A d \in Callers : stage[d] = "deactivated" => held[d].claimId # p.claimId
      BY <2>1 DEF ProverAlone
    <3>2. QED
      BY <2>1, <2>2, <2>4, <3>1 DEF ProverAlone, HasStatus
  <2>7. HeldOK'
    BY <2>1, <2>4 DEF HeldOK, ProofId
  <2>8. ProofsOK' /\ OneProofPerClaim'
    BY <2>1, <2>2 DEF ProofsOK, OneProofPerClaim
  <2>9. SpentByActivation'
    <3> SUFFICES ASSUME NEW q \in proofs
                 PROVE  /\ ProofId(q) \in DOMAIN claims' <=> claims'[q.claimId].status = "consumed"
                        /\ ProofId(q) \in DOMAIN claims' => ProofId(q) \in consumed
      BY <2>1 DEF SpentByActivation, ProofId
    <3>1. q \in Proof /\ q.claimId \in DOMAIN claims
      BY DEF TypeOK, ProofsOK
    <3>2. CASE q = p
      BY <1>2, <2>2, <3>2 DEF Activatable, p
    <3>3. CASE q # p
      <4>1. q.claimId # p.claimId /\ ProofId(q) # ProofId(p)
        BY <2>1, <2>2, <3>1, <3>3, ProofIdsInjective DEF OneProofPerClaim
      <4>2. QED
        BY <2>2, <3>1, <4>1 DEF SpentByActivation
    <3>4. QED
      BY <3>2, <3>3
  <2>10. SpentClaimsHaveProofs'
    BY <2>1, <2>2 DEF SpentClaimsHaveProofs
  <2>11. ConsumedProofs' /\ ConsumptionsOK'
    BY <2>1 DEF ConsumedProofs, ConsumptionsOK, NoDoubleConsume, ProofId
  <2>12. LineageOK' /\ DerivedClaims'
    <3>1. RootOf(p.claimId) \in Roots /\ <<RootOf(p.claimId)>> \in DOMAIN claims
          /\ claims[p.claimId].amount = claims[<<RootOf(p.claimId)>>].amount
      BY <2>2 DEF LineageOK
    <3>2. \A id \in DOMAIN claims' : id # ProofId(p) => id \in DOMAIN claims
      BY <2>2
    <3>3. ASSUME NEW id \in DOMAIN claims'
          PROVE  /\ RootOf(id) \in Roots
                 /\ <<RootOf(id)>> \in DOMAIN claims'
                 /\ claims'[id].amount = claims'[<<RootOf(id)>>].amount
      <4>1. CASE id = ProofId(p)
        BY <2>2, <3>1, <4>1
      <4>2. CASE id # ProofId(p)
        BY <2>2, <3>2, <4>2 DEF LineageOK
      <4>3. QED
        BY <4>1, <4>2
    <3>4. DerivedClaims'
      BY <2>1, <3>2 DEF DerivedClaims, RootOf, ProofId
    <3>5. QED
      BY <3>3, <3>4 DEF LineageOK, RootOf
  <2>13. OneLive'
    <3>1. \A id \in DOMAIN claims' :
            claims'[id].status # "consumed" /\ id # ProofId(p)
            => /\ id \in DOMAIN claims /\ claims[id].status # "consumed" /\ id # p.claimId
               /\ RootOf(id) # RootOf(ProofId(p))
      BY <2>2 DEF OneLive
    <3>2. QED
      BY <3>1, <2>2 DEF OneLive, RootOf
  <2>14. SomeLive'
    <3> SUFFICES ASSUME NEW id \in DOMAIN claims'
                 PROVE  \E j \in DOMAIN claims' :
                          RootOf(j) = RootOf(id) /\ claims'[j].status # "consumed"
      BY DEF SomeLive, RootOf
    <3>1. CASE RootOf(id) = RootOf(ProofId(p))
      BY <2>2, <3>1
    <3>2. CASE RootOf(id) # RootOf(ProofId(p))
      <4>1. id \in DOMAIN claims
        BY <2>2, <3>2
      <4>2. PICK j \in DOMAIN claims : RootOf(j) = RootOf(id) /\ claims[j].status # "consumed"
        BY <4>1 DEF SomeLive
      <4>3. j # p.claimId
        BY <2>2, <3>2, <4>2
      <4>4. QED
        BY <2>2, <4>2, <4>3
    <3>3. QED
      BY <3>1, <3>2
  <2>15. QED
    BY <2>5, <2>6, <2>7, <2>8, <2>9, <2>10, <2>11, <2>12, <2>13, <2>14
<1>3. QED
  BY <1>1, <1>2

\* A step of one caller preserves the invariant.
LEMMA StepInv ==
  ASSUME IInv, NEW c \in Callers, Step(c)
  PROVE  IInv'
<1>1. CASE \E id \in DOMAIN claims, from, to \in Owners, n \in Nonces :
             Deactivate(c, id, from, to, n)
  BY <1>1, DeactivateInv
<1>2. CASE ProveTransfer(c)
  BY <1>2, ProveInv
<1>3. CASE Verify(c)
  <2>1. CASE Verifies(held[c])
    <3>1. held[c] \in proofs /\ held \in [Callers -> Proof \cup {NoProof}]
      BY <1>3 DEF Verify, IInv, HeldOK, TypeOK
    <3>2. held' = [held EXCEPT ![c] = held[c]]
      BY <1>3, <2>1, <3>1 DEF Verify
    <3>3. MoveTo(c, "verified") /\ UNCHANGED <<claims, consumed, proofs, consumptions>>
      BY <1>3, <2>1 DEF Verify
    <3>4. QED
      BY <3>1, <3>2, <3>3, HoldInv
  <2>2. CASE ~Verifies(held[c])
    BY <1>3, <2>2, LetGoInv DEF Verify
  <2>3. QED
    BY <2>1, <2>2
<1>4. CASE Consume(c)
  BY <1>4, ConsumeInv
<1>5. CASE Activate(c)
  BY <1>5, ActivateInv
<1>6. CASE Crash(c)
  BY <1>6, LetGoInv DEF Crash
<1>7. CASE \E p \in proofs : Retry(c, p)
  <2>1. PICK p \in proofs : Retry(c, p)
    BY <1>7
  <2>2. /\ held' = [held EXCEPT ![c] = p]
        /\ UNCHANGED <<claims, consumed, proofs, consumptions>>
    BY <2>1 DEF Retry
  <2>3. CASE MoveTo(c, "proven")
    BY <2>2, <2>3, HoldInv
  <2>4. CASE ProofId(p) \in consumed /\ MoveTo(c, "consumed")
    BY <2>2, <2>4, HoldInv
  <2>5. QED
    BY <2>1, <2>3, <2>4 DEF Retry
<1>8. QED
  BY <1>1, <1>2, <1>3, <1>4, <1>5, <1>6, <1>7 DEF Step

LEMMA StutterInv == IInv /\ UNCHANGED vars => IInv'
BY DEF vars, IInv, TypeOK, ProverAlone, HeldOK, ProofsOK, OneProofPerClaim,
       SpentByActivation, SpentClaimsHaveProofs, ConsumedProofs, ConsumptionsOK,
       NoDoubleConsume, LineageOK, DerivedClaims, OneLive, SomeLive, HasStatus,
       ProofId, RootOf

\* The invariant holds in every reachable state of the pipeline.
THEOREM Invariance == Spec => []IInv
<1>1. IInv /\ [Next]_vars => IInv'
  BY IssueInv, StepInv, StutterInv DEF Next
<1>2. QED
  BY <1>1, InitInv, PTL DEF Spec

-----------------------------------------------------------------------------
(* What follows from it.                                                   *)

\* The state always has the shape of conservation.js's ConservationState.
THEOREM TypeCorrect == Spec => []TypeOK
BY Invariance, PTL DEF IInv

\* count(Consume(p)) <= 1, for any interleaving of any number of callers.
THEOREM AtMostOneConsume == Spec => []NoDoubleConsume
<1>1. IInv => NoDoubleConsume
  BY DEF IInv, ConsumptionsOK
<1>2. QED
  BY <1>1, Invariance, PTL

\* An issued claim's value is in exactly one live claim, undiminished.
THEOREM Conserved == Spec => []ValueConserved
<1>1. IInv => ValueConserved
  <2> SUFFICES ASSUME IInv, NEW r \in Issued
               PROVE  \E id \in Live(r) : Live(r) = {id} /\ claims[id].amount = claims[<<r>>].amount
    BY DEF ValueConserved
  <2>1. <<r>> \in DOMAIN claims /\ RootOf(<<r>>) = r
    BY DEF Issued, RootOf
  <2>2. PICK id \in DOMAIN claims : RootOf(id) = r /\ claims[id].status # "consumed"
    BY <2>1 DEF IInv, SomeLive
  <2>3. Live(r) = {id}
    BY <2>2 DEF IInv, OneLive, Live
  <2>4. claims[id].amount = claims[<<r>>].amount
    BY <2>2 DEF IInv, LineageOK
  <2>5. QED
    BY <2>3, <2>4
<1>2. QED
  BY <1>1, Invariance, PTL

-----------------------------------------------------------------------------
(* Custody, and what no step may do to a claim.                            *)

\* What a proof activated belongs to the receiver the proof names.
ReceiversOwn ==
  \A p \in proofs : ProofId(p) \in DOMAIN claims => claims[ProofId(p)].owner = p.to

\* A step changes nothing of a claim but its status, and that only forward.
LEMMA ClaimsProgress ==
  ASSUME IInv, [Next]_vars, NEW id \in DOMAIN claims
  PROVE  /\ id \in DOMAIN claims'
         /\ claims'[id].owner = claims[id].owner
         /\ claims'[id].amount = claims[id].amount
         /\ Forward(claims[id].status, claims'[id].status)
<1>1. CASE UNCHANGED claims
  BY <1>1 DEF Forward
<1>2. CASE \E r \in Roots, a \in Amounts, o \in Owners : IssueClaim(r, a, o)
  <2>1. id \in DOMAIN claims' /\ claims'[id] = claims[id]
    BY <1>2 DEF IssueClaim
  <2>2. QED
    BY <2>1 DEF Forward
<1>3. ASSUME NEW c \in Callers, NEW x \in DOMAIN claims, NEW from \in Owners, NEW to \in Owners,
             NEW n \in Nonces, Deactivate(c, x, from, to, n)
      PROVE  /\ id \in DOMAIN claims'
             /\ claims'[id].owner = claims[id].owner
             /\ claims'[id].amount = claims[id].amount
             /\ Forward(claims[id].status, claims'[id].status)
  <2>1. claims[x].status = "active" /\ claims' = [claims EXCEPT ![x].status = "deactivated"]
    BY <1>3 DEF Deactivate, HasStatus
  <2>2. claims \in [DOMAIN claims -> Claim]
    BY DEF IInv, TypeOK
  <2>3. QED
    BY <2>1, <2>2 DEF Claim, Forward
<1>4. ASSUME NEW c \in Callers, Activate(c)
      PROVE  /\ id \in DOMAIN claims'
             /\ claims'[id].owner = claims[id].owner
             /\ claims'[id].amount = claims[id].amount
             /\ Forward(claims[id].status, claims'[id].status)
  <2>1. CASE ~Activatable(held[c])
    BY <1>1, <1>4, <2>1 DEF Activate
  <2>2. CASE Activatable(held[c])
    <3>1. held[c] \in proofs /\ claims' = Activated(held[c])
      BY <1>4, <2>2 DEF Activate, IInv, HeldOK
    <3>2. /\ claims[held[c].claimId].status = "deactivated"
          /\ claims'[held[c].claimId].status = "consumed"
          /\ DOMAIN claims' = DOMAIN claims \cup {ProofId(held[c])}
          /\ \A y \in DOMAIN claims :
               /\ claims'[y].owner = claims[y].owner /\ claims'[y].amount = claims[y].amount
               /\ y # held[c].claimId => claims'[y] = claims[y]
      BY <2>2, <3>1, ActivatedClaims
    <3>3. QED
      BY <3>2 DEF Forward
  <2>3. QED
    BY <2>1, <2>2
<1>5. CASE \E c \in Callers : \/ ProveTransfer(c) \/ Verify(c) \/ Consume(c) \/ Crash(c)
                              \/ \E p \in proofs : Retry(c, p)
  BY <1>1, <1>5 DEF ProveTransfer, Verify, Consume, Crash, Retry
<1>6. CASE UNCHANGED vars
  BY <1>1, <1>6 DEF vars
<1>7. QED
  BY <1>2, <1>3, <1>4, <1>5, <1>6 DEF Next, Step

(* No step of any caller takes a claim away, re-owns or re-values it, or   *)
(* makes it live again once it is spent.                                   *)
THEOREM NothingComesBack == Spec => ClaimsOnlyProgress
<1>1. IInv /\ [Next]_vars =>
        [\A id \in DOMAIN claims :
           /\ id \in DOMAIN claims'
           /\ claims'[id].owner = claims[id].owner
           /\ claims'[id].amount = claims[id].amount
           /\ Forward(claims[id].status, claims'[id].status)]_vars
  BY ClaimsProgress
<1>2. QED
  BY <1>1, Invariance, PTL DEF Spec, ClaimsOnlyProgress

(* A proof activates nothing when it is made, since the claim it is about  *)
(* is not spent; and what is activated later is another proof's.           *)
LEMMA ReceiversStep ==
  ASSUME IInv, IInv', ReceiversOwn, [Next]_vars
  PROVE  ReceiversOwn'
<1> SUFFICES ASSUME NEW p \in proofs', ProofId(p) \in DOMAIN claims'
             PROVE  claims'[ProofId(p)].owner = p.to
  BY DEF ReceiversOwn, ProofId
<1>1. CASE p \in proofs /\ ProofId(p) \in DOMAIN claims
  BY <1>1, ClaimsProgress DEF ReceiversOwn
<1>2. CASE p \in proofs /\ ProofId(p) \notin DOMAIN claims
  <2>1. PICK x \in DOMAIN claims' : x = ProofId(p) /\ x \notin DOMAIN claims
    BY <1>2
  <2>2. p \in Proof
    BY <1>2 DEF IInv, TypeOK
  <2>3. \A r : ProofId(p) # <<r>>
    BY <2>2, ProofIds
  <2>4. ~ UNCHANGED claims
    BY <2>1
  <2>5. ~ \E r \in Roots, a \in Amounts, o \in Owners : IssueClaim(r, a, o)
    BY <2>1, <2>3 DEF IssueClaim
  <2>6. ~ \E c \in Callers, y \in DOMAIN claims, from, to \in Owners, n \in Nonces :
             Deactivate(c, y, from, to, n)
    BY <2>1 DEF Deactivate
  <2>7. PICK c \in Callers : Activate(c)
    BY <2>4, <2>5, <2>6 DEF Next, Step, ProveTransfer, Verify, Consume, Crash, Retry, vars
  <2>8. Activatable(held[c]) /\ claims' = Activated(held[c]) /\ held[c] \in proofs
    BY <2>4, <2>7 DEF Activate, IInv, HeldOK
  <2>9. /\ DOMAIN claims' = DOMAIN claims \cup {ProofId(held[c])}
        /\ claims'[ProofId(held[c])] = [amount |-> held[c].amountOut, owner |-> held[c].to,
                                        status |-> "active"]
        /\ held[c] \in Proof
    BY <2>8, ActivatedClaims
  <2>10. ProofId(p) = ProofId(held[c])
    BY <2>1, <2>9
  <2>11. p = held[c]
    BY <1>2, <2>2, <2>8, <2>9, <2>10, ProofIdsInjective DEF IInv, OneProofPerClaim
  <2>12. QED
    BY <2>9, <2>11
<1>3. CASE p \notin proofs
  <2>1. PICK c \in Callers : ProveTransfer(c) /\ p = held[c] /\ Provable(p) /\ UNCHANGED claims
    BY <1>3 DEF Next, Step, IssueClaim, Deactivate, ProveTransfer, Verify, Consume, Activate,
                Crash, Retry, vars
  <2>2. claims'[p.claimId].status = "deactivated"
    BY <2>1 DEF Provable, HasStatus
  <2>3. QED
    BY <2>2 DEF IInv, SpentByActivation, ProofId
<1>4. QED
  BY <1>1, <1>2, <1>3

\* Taken apart, a proof's id is the claim it is about and the hop it makes.
LEMMA ProofIdParts ==
  ASSUME NEW p \in Proof
  PROVE  LET id == ProofId(p)
         IN  /\ SubSeq(id, 1, Len(id) - 1) = p.claimId
             /\ id[Len(id)] = [from |-> p.from, to |-> p.to, n |-> p.n]
<1> DEFINE hop == [from |-> p.from, to |-> p.to, n |-> p.n]
           id == ProofId(p)
<1>1. p.claimId \in Seq(Roots \cup Hop) /\ hop \in Hop
  BY DEF Proof, Ids, Hop
<1>2. /\ id = Append(p.claimId, hop) /\ id \in Seq(Roots \cup Hop)
      /\ Len(id) = Len(p.claimId) + 1 /\ Len(p.claimId) \in Nat
  BY <1>1 DEF ProofId
<1>3. id[Len(id)] = hop /\ \A i \in 1 .. Len(p.claimId) : id[i] = p.claimId[i]
  BY <1>1, <1>2
<1>4. SubSeq(id, 1, Len(id) - 1) = [i \in 1 .. Len(p.claimId) |-> id[i]]
  BY <1>2
<1>5. p.claimId = [i \in 1 .. Len(p.claimId) |-> p.claimId[i]]
  BY <1>1
<1>6. QED
  BY <1>3, <1>4, <1>5

(* Whoever holds a transferred claim got it from the owner of the claim it *)
(* was made from, through a proof that was consumed.                       *)
THEOREM Custody == Spec => []ChainOfCustody
<1>1. Init => ReceiversOwn
  BY DEF Init, ReceiversOwn
<1>2. IInv /\ ReceiversOwn => ChainOfCustody
  <2> SUFFICES ASSUME IInv, ReceiversOwn, NEW id \in DOMAIN claims, Len(id) > 1
               PROVE  /\ SubSeq(id, 1, Len(id) - 1) \in DOMAIN claims
                      /\ claims[SubSeq(id, 1, Len(id) - 1)].status = "consumed"
                      /\ claims[SubSeq(id, 1, Len(id) - 1)].owner = id[Len(id)].from
                      /\ claims[id].owner = id[Len(id)].to
                      /\ id \in consumed
    BY DEF ChainOfCustody
  <2>1. id # <<RootOf(id)>>
    <3>1. \A r : ~(Len(<<r>>) > 1)
      OBVIOUS
    <3>2. QED
      BY <3>1, Zenon
  <2>2. PICK p \in proofs : id = ProofId(p)
    BY <2>1 DEF IInv, DerivedClaims
  <2>3. p \in Proof
    BY DEF IInv, TypeOK
  <2>4. SubSeq(id, 1, Len(id) - 1) = p.claimId /\ id[Len(id)] = [from |-> p.from, to |-> p.to, n |-> p.n]
    BY <2>2, <2>3, ProofIdParts
  <2>5. /\ p.claimId \in DOMAIN claims /\ claims[p.claimId].owner = p.from
        /\ claims[p.claimId].status = "consumed" /\ id \in consumed
    BY <2>2 DEF IInv, ProofsOK, SpentByActivation
  <2>6. claims[id].owner = p.to
    BY <2>2 DEF ReceiversOwn
  <2>7. id[Len(id)].from = p.from /\ id[Len(id)].to = p.to
    BY <2>4
  <2>8. QED
    BY <2>4, <2>5, <2>6, <2>7
<1>3. QED
  BY <1>1, <1>2, ReceiversStep, Invariance, PTL DEF Spec

-----------------------------------------------------------------------------
(* The pipeline implements the abstract claim ledger.                      *)

\* A live claim is the live claim of its root.
LEMMA LiveIds ==
  ASSUME IInv, NEW id \in DOMAIN claims, claims[id].status # "consumed"
  PROVE  LiveId(RootOf(id)) = id
BY DEF IInv, OneLive, LiveId

\* A step that changes no claim's data or liveness changes no holder.
LEMMA HoldersKept ==
  ASSUME IInv, IInv', DOMAIN claims' = DOMAIN claims,
         \A id \in DOMAIN claims :
           /\ claims'[id].owner = claims[id].owner /\ claims'[id].amount = claims[id].amount
           /\ claims'[id].status # "consumed" <=> claims[id].status # "consumed"
  PROVE  Holders' = Holders
<1>1. Issued' = Issued
  BY DEF Issued
<1>2. ASSUME NEW r \in Issued
      PROVE  /\ LiveId(r)' = LiveId(r) /\ LiveId(r) \in DOMAIN claims
  <2>1. <<r>> \in DOMAIN claims /\ RootOf(<<r>>) = r
    BY DEF Issued, RootOf
  <2>2. PICK id \in DOMAIN claims : RootOf(id) = r /\ claims[id].status # "consumed"
    BY <2>1 DEF IInv, SomeLive
  <2>3. LiveId(r) = id
    BY <2>2, LiveIds
  <2>4. LiveId(r)' = id
    <3>1. id \in DOMAIN claims' /\ claims'[id].status # "consumed"
      BY <2>2
    <3>2. \A j \in DOMAIN claims' :
            RootOf(j) = r /\ claims'[j].status # "consumed" => j = id
      BY <2>2, <3>1 DEF IInv, OneLive
    <3>3. QED
      BY <2>2, <3>1, <3>2 DEF LiveId, RootOf
  <2>5. QED
    BY <2>2, <2>3, <2>4
<1>3. QED
  BY <1>1, <1>2 DEF Holders

\* Issuing a claim is the abstract Issue.
LEMMA IssueRefines ==
  ASSUME IInv, NEW r \in Roots, NEW a \in Amounts, NEW o \in Owners, IssueClaim(r, a, o)
  PROVE  Abstract!Issue(r, o, a)
<1>1. /\ <<r>> \notin DOMAIN claims
      /\ DOMAIN claims' = DOMAIN claims \cup {<<r>>}
      /\ claims'[<<r>>] = [amount |-> a, owner |-> o, status |-> "active"]
      /\ \A id \in DOMAIN claims : id # <<r>> /\ claims'[id] = claims[id]
  BY DEF IssueClaim
<1>2. IInv' /\ RootOf(<<r>>) = r
  BY IssueInv, RootIds
<1>3. Issued' = Issued \cup {r} /\ r \notin Issued
  BY <1>1 DEF Issued
<1>4. ASSUME NEW x \in Issued
      PROVE  LiveId(x)' = LiveId(x) /\ LiveId(x) \in DOMAIN claims
  <2>1. <<x>> \in DOMAIN claims /\ RootOf(<<x>>) = x
    BY DEF Issued, RootOf
  <2>2. PICK id \in DOMAIN claims : RootOf(id) = x /\ claims[id].status # "consumed"
    BY <2>1 DEF IInv, SomeLive
  <2>3. LiveId(x) = id
    BY <2>2, LiveIds
  <2>4. id \in DOMAIN claims' /\ claims'[id].status # "consumed"
    BY <1>1, <2>2
  <2>5. \A j \in DOMAIN claims' :
          RootOf(j) = x /\ claims'[j].status # "consumed" => j = id
    BY <1>2, <2>2, <2>4 DEF IInv, OneLive, RootOf
  <2>6. LiveId(x)' = id
    BY <2>2, <2>4, <2>5 DEF LiveId, RootOf
  <2>7. QED
    BY <2>2, <2>3, <2>6
<1>5. LiveId(r)' = <<r>>
  <2>1. \A j \in DOMAIN claims' :
          RootOf(j) = r /\ claims'[j].status # "consumed" => j = <<r>>
    BY <1>1, <1>2 DEF IInv, OneLive, RootOf
  <2>2. QED
    BY <1>1, <1>2, <2>1 DEF LiveId, RootOf
<1>6. Holders' = [x \in Issued \cup {r} |->
                    IF x = r THEN [owner |-> o, amount |-> a] ELSE Holders[x]]
  BY <1>1, <1>3, <1>4, <1>5 DEF Holders
<1>7. DOMAIN Holders = Issued
  BY DEF Holders
<1>8. QED
  BY <1>3, <1>6, <1>7 DEF Abstract!Issue

\* Activation is the abstract HandOver of the proof's root to its receiver.
LEMMA ActivateRefines ==
  ASSUME IInv, IInv', NEW p \in proofs, Activatable(p), claims' = Activated(p)
  PROVE  /\ RootOf(p.claimId) \in Roots /\ p.to \in Owners
         /\ Abstract!HandOver(RootOf(p.claimId), p.to)
<1> DEFINE r == RootOf(p.claimId)
<1>1. /\ p \in Proof /\ p.claimId # ProofId(p)
      /\ p.claimId \in DOMAIN claims /\ ProofId(p) \notin DOMAIN claims
      /\ claims[p.claimId].status = "deactivated" /\ claims[p.claimId].amount = p.amountOut
      /\ DOMAIN claims' = DOMAIN claims \cup {ProofId(p)}
      /\ claims'[ProofId(p)] = [amount |-> p.amountOut, owner |-> p.to, status |-> "active"]
      /\ claims'[p.claimId].status = "consumed"
      /\ \A id \in DOMAIN claims :
           /\ claims'[id].owner = claims[id].owner /\ claims'[id].amount = claims[id].amount
           /\ id # p.claimId => claims'[id] = claims[id]
      /\ RootOf(ProofId(p)) = r
  BY ActivatedClaims
<1>2. r \in Roots /\ <<r>> \in DOMAIN claims /\ p.to \in Owners
  BY <1>1 DEF IInv, LineageOK, Proof
<1>3. \A x \in Roots : ProofId(p) # <<x>>
  BY <1>1, ProofIds
<1>4. Issued' = Issued /\ r \in Issued
  BY <1>1, <1>2, <1>3 DEF Issued
<1>5. LiveId(r) = p.claimId
  BY <1>1, LiveIds
<1>6. LiveId(r)' = ProofId(p)
  <2>1. ProofId(p) \in DOMAIN claims' /\ claims'[ProofId(p)].status # "consumed"
    BY <1>1
  <2>2. \A j \in DOMAIN claims' :
          RootOf(j) = r /\ claims'[j].status # "consumed" => j = ProofId(p)
    BY <1>1, <2>1 DEF IInv, OneLive, RootOf
  <2>3. QED
    BY <1>1, <2>1, <2>2 DEF LiveId, RootOf
<1>7. ASSUME NEW x \in Issued, x # r
      PROVE  LiveId(x)' = LiveId(x) /\ claims'[LiveId(x)] = claims[LiveId(x)]
             /\ LiveId(x) \in DOMAIN claims
  <2>1. <<x>> \in DOMAIN claims /\ RootOf(<<x>>) = x
    BY DEF Issued, RootOf
  <2>2. PICK id \in DOMAIN claims : RootOf(id) = x /\ claims[id].status # "consumed"
    BY <2>1 DEF IInv, SomeLive
  <2>3. LiveId(x) = id /\ id # p.claimId
    BY <1>7, <2>2, LiveIds
  <2>4. id \in DOMAIN claims' /\ claims'[id] = claims[id]
    BY <1>1, <2>3
  <2>5. \A j \in DOMAIN claims' :
          RootOf(j) = x /\ claims'[j].status # "consumed" => j = id
    BY <2>2, <2>4 DEF IInv, OneLive, RootOf
  <2>6. LiveId(x)' = id
    BY <2>2, <2>4, <2>5 DEF LiveId, RootOf
  <2>7. QED
    BY <2>2, <2>3, <2>4, <2>6
<1>8. DOMAIN Holders = Issued
  BY DEF Holders
<1>9. Holders[r] = [owner |-> claims[p.claimId].owner, amount |-> p.amountOut]
  BY <1>1, <1>4, <1>5 DEF Holders
<1>10. Holders' = [Holders EXCEPT ![r].owner = p.to]
  <2>1. Holders'[r] = [owner |-> p.to, amount |-> p.amountOut]
    BY <1>1, <1>4, <1>6 DEF Holders
  <2>2. \A x \in Issued : x # r => Holders'[x] = Holders[x]
    BY <1>4, <1>7 DEF Holders
  <2>3. Holders' = [x \in Issued |-> Holders'[x]]
    BY <1>4 DEF Holders
  <2>4. Holders = [x \in Issued |-> Holders[x]]
    BY DEF Holders
  <2>5. QED
    BY <1>4, <1>9, <2>1, <2>2, <2>3, <2>4
<1>11. QED
  BY <1>2, <1>4, <1>8, <1>10 DEF Abstract!HandOver

\* Every other step of a caller leaves every claim with its holder.
LEMMA StepRefines ==
  ASSUME IInv, IInv', NEW c \in Callers, Step(c)
  PROVE  [Abstract!Next]_Holders
<1>1. CASE UNCHANGED claims
  BY <1>1, HoldersKept
<1>2. CASE \E id \in DOMAIN claims, from, to \in Owners, n \in Nonces :
             Deactivate(c, id, from, to, n)
  <2>1. PICK id \in DOMAIN claims :
          /\ claims[id].status = "active"
          /\ claims' = [claims EXCEPT ![id].status = "deactivated"]
    BY <1>2 DEF Deactivate, HasStatus
  <2>2. claims \in [DOMAIN claims -> Claim]
    BY DEF IInv, TypeOK
  <2>3. /\ DOMAIN claims' = DOMAIN claims
        /\ \A x \in DOMAIN claims :
             /\ claims'[x].owner = claims[x].owner /\ claims'[x].amount = claims[x].amount
             /\ claims'[x].status # "consumed" <=> claims[x].status # "consumed"
    BY <2>1, <2>2 DEF Claim
  <2>4. QED
    BY <2>3, HoldersKept
<1>3. CASE Activate(c)
  <2>1. CASE ~Activatable(held[c])
    BY <1>1, <1>3, <2>1 DEF Activate
  <2>2. CASE Activatable(held[c])
    <3>1. held[c] \in proofs /\ claims' = Activated(held[c])
      BY <1>3, <2>2 DEF Activate, IInv, HeldOK
    <3>2. QED
      BY <2>2, <3>1, ActivateRefines DEF Abstract!Next
  <2>3. QED
    BY <2>1, <2>2
<1>4. CASE ProveTransfer(c) \/ Verify(c) \/ Consume(c) \/ Crash(c)
           \/ \E p \in proofs : Retry(c, p)
  <2>1. UNCHANGED claims
    BY <1>4 DEF ProveTransfer, Verify, Consume, Crash, Retry
  <2>2. QED
    BY <2>1, <1>1
<1>5. QED
  BY <1>2, <1>3, <1>4 DEF Step

(* The five-step pipeline, interleaved at will, implements the ledger in   *)
(* which a claim has one owner and moves whole.                            *)
THEOREM Refinement == Spec => ImplementsClaimLedger
<1>1. Init => Abstract!Init
  BY DEF Init, Abstract!Init, Holders, Issued
<1>2. ASSUME IInv, IInv', [Next]_vars
      PROVE  [Abstract!Next]_Holders
  <2>1. CASE \E r \in Roots, a \in Amounts, o \in Owners : IssueClaim(r, a, o)
    BY <1>2, <2>1, IssueRefines DEF Abstract!Next
  <2>2. CASE \E c \in Callers : Step(c)
    BY <1>2, <2>2, StepRefines
  <2>3. CASE UNCHANGED vars
    BY <1>2, <2>3, HoldersKept DEF vars
  <2>4. QED
    BY <1>2, <2>1, <2>2, <2>3 DEF Next
<1>3. QED
  BY <1>1, <1>2, Invariance, PTL DEF Spec, ImplementsClaimLedger, Abstract!Spec
=============================================================================
