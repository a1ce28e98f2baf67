--------------------------- MODULE PoolLedgerProofs ---------------------------
(***************************************************************************)
(* For any domains, plugins, pools and conditions: what every replica's    *)
(* view of the pool, of the claims and of the releases is, whatever was    *)
(* merged in which order.                                                  *)
(***************************************************************************)
EXTENDS PoolLedger, EventDagProofs

-----------------------------------------------------------------------------
(* Payloads                                                                *)

Places == Replicas \cup {Pot, Escrow}

ClaimIds == Seq(Places)

\* A draw is taken from a hash of the cycle's contributions, which is a number.
HashIsNumber ==
  \A k \in Nat \ {0}, cs \in Seq([by : Replicas, claim : ClaimIds, amount : Nat]) : DrawHash(k, cs) \in Nat

Nonces == (Replicas \X Ids) \cup ({Pot} \X Nat \X ClaimIds)

\* A release of each kind: its nonce, and what it refers to.
PoolRelease(p) ==
  /\ p.from = Pot /\ p.nonce \in {Pot} \X Nat \X ClaimIds
  /\ p.proof.type = "pool" /\ p.proof.cycle \in Nat

ContractRelease(p) ==
  /\ p.from \in Places /\ p.nonce \in Replicas \X Ids
  /\ p.proof.type = "contract"

LEMMA PayloadFields ==
  \A p \in Payload :
    /\ p.domain \in Replicas
    /\ p.type \in {"claim-issue", "transfer", "pool-init", "pool-contribute", "pot-release",
                   "generic-contract-init", "approval"}
    /\ p.type = "claim-issue" => p.amount \in Nat
    /\ p.type = "transfer" => /\ p.claim \in ClaimIds /\ p.from \in Replicas
                              /\ p.to \in {Pot, Escrow} /\ p.nonce \in Replicas \X Ids
    /\ p.type = "pool-init" => p.length \in Nat \ {0}
    /\ p.type = "pool-contribute" => p.claim \in ClaimIds
    /\ p.type = "pot-release" => /\ p.claim \in ClaimIds /\ p.to \in Replicas
                                 /\ PoolRelease(p) \/ ContractRelease(p)
<1> TAKE p \in Payload
<1>1. CASE p \in [type : {"claim-issue"}, domain : Replicas, amount : Nat]
  BY <1>1
<1>2. CASE p \in [type : {"transfer"}, domain : Replicas, claim : ClaimIds, from : Replicas,
                  to : {Pot, Escrow}, nonce : Replicas \X Ids]
  BY <1>2
<1>3. CASE p \in [type : {"pool-init"}, domain : Replicas, length : Nat \ {0}]
  BY <1>3
<1>4. CASE p \in [type : {"pool-contribute"}, domain : Replicas, claim : ClaimIds]
  BY <1>4
<1>5. CASE p \in [type : {"pot-release"}, domain : Replicas, claim : ClaimIds, from : {Pot},
                  to : Replicas, nonce : {Pot} \X Nat \X ClaimIds, proof : [type : {"pool"}, cycle : Nat]]
  BY <1>5 DEF PoolRelease
<1>6. CASE p \in [type : {"pot-release"}, domain : Replicas, claim : ClaimIds, from : Places,
                  to : Replicas, nonce : Replicas \X Ids, proof : [type : {"contract"}]]
  BY <1>6 DEF ContractRelease
<1>7. CASE p \in [type : {"generic-contract-init"}, domain : Replicas,
                  condition : {x.condition : x \in {y \in Plugins : y.name # "jackpot"}}]
  BY <1>7
<1>8. CASE p \in [type : {"approval"}, domain : Replicas]
  BY <1>8
<1> QED BY <1>1, <1>2, <1>3, <1>4, <1>5, <1>6, <1>7, <1>8 DEF Payload, ClaimIds, Places

\* What the plugins write is a payload.
LEMMA PayloadTypes ==
  /\ \A r \in Replicas, n \in Nat \ {0} : [type |-> "pool-init", domain |-> r, length |-> n] \in Payload
  /\ \A r \in Replicas, c \in ClaimIds : [type |-> "pool-contribute", domain |-> r, claim |-> c] \in Payload
  /\ \A r \in Replicas : [type |-> "approval", domain |-> r] \in Payload
  /\ \A r \in Replicas, p \in Plugins : p.name # "jackpot" =>
       [type |-> "generic-contract-init", domain |-> r, condition |-> p.condition] \in Payload
  /\ \A r \in Replicas, n \in Nat : [type |-> "claim-issue", domain |-> r, amount |-> n] \in Payload
<1>1. ASSUME NEW r \in Replicas, NEW n \in Nat \ {0}
      PROVE  [type |-> "pool-init", domain |-> r, length |-> n] \in Payload
  <2>1. [type |-> "pool-init", domain |-> r, length |-> n]
          \in [type : {"pool-init"}, domain : Replicas, length : Nat \ {0}]
    OBVIOUS
  <2> QED BY <2>1 DEF Payload
<1>2. ASSUME NEW r \in Replicas, NEW c \in ClaimIds
      PROVE  [type |-> "pool-contribute", domain |-> r, claim |-> c] \in Payload
  <2>1. [type |-> "pool-contribute", domain |-> r, claim |-> c]
          \in [type : {"pool-contribute"}, domain : Replicas, claim : ClaimIds]
    OBVIOUS
  <2> QED BY <2>1 DEF Payload, ClaimIds, Places
<1>3. ASSUME NEW r \in Replicas PROVE [type |-> "approval", domain |-> r] \in Payload
  <2>1. [type |-> "approval", domain |-> r] \in [type : {"approval"}, domain : Replicas]
    OBVIOUS
  <2> QED BY <2>1 DEF Payload
<1>4. ASSUME NEW r \in Replicas, NEW p \in Plugins, p.name # "jackpot"
      PROVE  [type |-> "generic-contract-init", domain |-> r, condition |-> p.condition] \in Payload
  <2>1. p.condition \in {x.condition : x \in {y \in Plugins : y.name # "jackpot"}}
    BY <1>4
  <2>2. [type |-> "generic-contract-init", domain |-> r, condition |-> p.condition]
          \in [type : {"generic-contract-init"}, domain : Replicas,
               condition : {x.condition : x \in {y \in Plugins : y.name # "jackpot"}}]
    BY <2>1
  <2> QED BY <2>2 DEF Payload
<1>5. ASSUME NEW r \in Replicas, NEW n \in Nat
      PROVE  [type |-> "claim-issue", domain |-> r, amount |-> n] \in Payload
  <2>1. [type |-> "claim-issue", domain |-> r, amount |-> n]
          \in [type : {"claim-issue"}, domain : Replicas, amount : Nat]
    OBVIOUS
  <2> QED BY <2>1 DEF Payload
<1> QED BY <1>1, <1>2, <1>3, <1>4, <1>5

LEMMA MovingTypes ==
  /\ \A r \in Replicas, c \in ClaimIds, to \in {Pot, Escrow} :
       lastEventId[r] \in Ids => Transfer(r, c, to) \in Payload
  /\ \A r \in Replicas, c \in ClaimIds, to \in Replicas, k \in Nat :
       Release(r, c, Pot, to, <<Pot, k, c>>, [type |-> "pool", cycle |-> k]) \in Payload
  /\ \A r \in Replicas, c \in ClaimIds, from \in Places, to \in Replicas, i \in Ids :
       Release(r, c, from, to, <<r, i>>, [type |-> "contract"]) \in Payload
<1>1. ASSUME NEW r \in Replicas, NEW c \in ClaimIds, NEW to \in {Pot, Escrow}, lastEventId[r] \in Ids
      PROVE  Transfer(r, c, to) \in Payload
  <2>1. <<r, lastEventId[r]>> \in Replicas \X Ids
    BY <1>1
  <2>2. Transfer(r, c, to)
          \in [type : {"transfer"}, domain : Replicas, claim : ClaimIds, from : Replicas,
               to : {Pot, Escrow}, nonce : Replicas \X Ids]
    BY <2>1 DEF Transfer
  <2> QED BY <2>2 DEF Payload, ClaimIds, Places
<1>2. ASSUME NEW r \in Replicas, NEW c \in ClaimIds, NEW to \in Replicas, NEW k \in Nat
      PROVE  Release(r, c, Pot, to, <<Pot, k, c>>, [type |-> "pool", cycle |-> k]) \in Payload
  <2>1. [type |-> "pool", cycle |-> k] \in [type : {"pool"}, cycle : Nat]
    OBVIOUS
  <2>2. Release(r, c, Pot, to, <<Pot, k, c>>, [type |-> "pool", cycle |-> k])
          \in [type : {"pot-release"}, domain : Replicas, claim : ClaimIds, from : {Pot},
               to : Replicas, nonce : {Pot} \X Nat \X ClaimIds, proof : [type : {"pool"}, cycle : Nat]]
    BY <2>1 DEF Release
  <2> QED BY <2>2 DEF Payload, ClaimIds, Places
<1>3. ASSUME NEW r \in Replicas, NEW c \in ClaimIds, NEW from \in Places, NEW to \in Replicas, NEW i \in Ids
      PROVE  Release(r, c, from, to, <<r, i>>, [type |-> "contract"]) \in Payload
  <2>1. Release(r, c, from, to, <<r, i>>, [type |-> "contract"])
          \in [type : {"pot-release"}, domain : Replicas, claim : ClaimIds, from : Places,
               to : Replicas, nonce : Replicas \X Ids, proof : [type : {"contract"}]]
    BY DEF Release
  <2> QED BY <2>1 DEF Payload, ClaimIds, Places
<1> QED BY <1>1, <1>2, <1>3

-----------------------------------------------------------------------------
(* What the events say of each other                                       *)

\* What a domain says after its event p.
Says(e, p) ==
  /\ e.type # "claim-issue"
  /\ e.type = "transfer" =>
       /\ e.from = e.domain /\ e.nonce = <<e.domain, p>>
       /\ e.claim # << >> /\ e.claim[Len(e.claim)] = e.domain
       /\ e.to = IF plugin.name = "escrow" THEN Escrow ELSE Pot
  /\ e.type = "pot-release" =>
       IF e.proof.type = "pool" THEN plugin.name # "escrow" /\ e.nonce = <<Pot, e.proof.cycle, e.claim>>
       ELSE /\ plugin.name # "jackpot" /\ (plugin.name = "escrow" => e.from = Escrow)
            /\ e.nonce = <<e.domain, p>>
  /\ e.type = "pool-init" => plugin.name # "escrow" /\ e.length = plugin.length
  /\ e.type = "pool-contribute" => plugin.name # "escrow" /\ Type(p) = "transfer"
  /\ e.type = "generic-contract-init" => plugin.name # "jackpot" /\ e.condition = plugin.condition

\* An event after the first of its domain follows one of the same domain, p.
Follows(id, p) == Parents(id) = {p} /\ Domain(p) = Domain(id) /\ Says(content[id].payload, p)

\* The first of a domain issues its claim.
Begins(id) == Parents(id) = {} /\ content[id].payload.amount = plugin.purse[Domain(id)]

\* No contract stands beside a pool.
Apart == plugin.name \in {"jackpot", "escrow"}

\* Where the plugin's claims go.
Address == IF plugin.name = "escrow" THEN Escrow ELSE Pot

ContentOK ==
  /\ content \in [DOMAIN content -> Event(Payload)]
  /\ \A id \in DOMAIN content :
       IF Type(id) = "claim-issue" THEN Begins(id) ELSE \E p \in DOMAIN content : Follows(id, p)
  /\ \A i, j \in DOMAIN content : Domain(i) = Domain(j) /\ Parents(i) = Parents(j) => i = j

\* Every replica knows its own events, of which its tip is the last, and where each domain began.
TipOK(r) ==
  /\ lastEventId[r] \in dag[r] /\ Domain(lastEventId[r]) = r
  /\ \A id \in DOMAIN content : Domain(id) = r => id \in dag[r] /\ lastEventId[r] \notin Parents(id)
  /\ \A s \in Replicas : \E id \in dag[r] : Type(id) = "claim-issue" /\ Domain(id) = s

TipsOK == lastEventId \in [Replicas -> Ids] /\ \A r \in Replicas : TipOK(r)

Release0 == [cycle : Nat, claim : ClaimIds]

DoingOK(r) ==
  LET d == doing[r]
  IN  \/ d = Idle
      \/ /\ plugin.name # "escrow"
         /\ \/ d.kind = "minted" /\ d.claim \in ClaimIds
            \/ /\ d.kind = "given" /\ Type(lastEventId[r]) = "transfer"
               /\ d.amount = plugin.purse[content[lastEventId[r]].payload.claim[1]]
            \/ d \in [kind : {"paying"}, todo : Seq(Release0) \ {<< >>}, drawn : Nat,
                      winner : Replicas \cup {None}]

BaseInv ==
  /\ DagInv /\ ContentOK /\ TipsOK
  /\ plugin \in Plugins /\ payouts \in Nat
  /\ DOMAIN doing = Replicas /\ \A r \in Replicas : DoingOK(r)

LEMMA ContentFields ==
  ASSUME ContentOK, NEW id \in DOMAIN content
  PROVE  LET e == content[id].payload
         IN  /\ e \in Payload
             /\ e.domain \in Replicas /\ Domain(id) = e.domain /\ Type(id) = e.type
             /\ e.type = "claim-issue" => Begins(id) /\ e.amount \in Nat
             /\ e.type # "claim-issue" => \E p \in DOMAIN content : Follows(id, p)
             /\ e.type = "transfer" => /\ e.claim \in ClaimIds /\ e.from \in Replicas
                                       /\ e.to \in {Pot, Escrow} /\ e.nonce \in Replicas \X Ids
             /\ e.type = "pool-init" => e.length \in Nat \ {0}
             /\ e.type = "pool-contribute" => e.claim \in ClaimIds
             /\ e.type = "pot-release" => /\ e.claim \in ClaimIds /\ e.to \in Replicas
                                          /\ PoolRelease(e) \/ ContractRelease(e)
<1>1. content[id] \in Event(Payload)
  BY DEF ContentOK
<1>2. content[id].payload \in Payload
  BY <1>1 DEF Event
<1>3. Domain(id) = content[id].payload.domain /\ Type(id) = content[id].payload.type
  BY DEF Domain, Type
<1>4. IF Type(id) = "claim-issue" THEN Begins(id) ELSE \E p \in DOMAIN content : Follows(id, p)
  BY DEF ContentOK
<1> QED BY <1>2, <1>3, <1>4, PayloadFields

\* What is released by the pool, or by the contract.
LEMMA ReleaseIs ==
  ASSUME ContentOK, NEW id \in DOMAIN content, Type(id) = "pot-release"
  PROVE  LET e == content[id].payload
         IN  /\ PoolRelease(e) => plugin.name # "escrow"
             /\ ContractRelease(e) => plugin.name # "jackpot" /\ (plugin.name = "escrow" => e.from = Escrow)
             /\ Apart =>
                  /\ e.from = Address
                  /\ e.from = Pot => PoolRelease(e)
                  /\ e.from = Escrow => ContractRelease(e)
<1> DEFINE e == content[id].payload
<1>1. /\ e.type = "pot-release" /\ (PoolRelease(e) \/ ContractRelease(e))
      /\ \E p \in DOMAIN content : Follows(id, p)
  BY ContentFields
<1>2. PICK p : Says(e, p)
  BY <1>1 DEF Follows
<1> HIDE DEF e
<1>3. /\ PoolRelease(e) => plugin.name # "escrow" /\ e.from = Pot
      /\ ContractRelease(e) => plugin.name # "jackpot" /\ (plugin.name = "escrow" => e.from = Escrow)
  BY <1>1, <1>2 DEF Says, PoolRelease, ContractRelease
<1>4. Pot # Escrow
  BY PoolAssumption
<1> QED BY <1>1, <1>3, <1>4 DEF Apart, Address, PoolRelease, ContractRelease, e

-----------------------------------------------------------------------------
(* Claims                                                                  *)

Claim == [owner : Places, amount : Nat]

ClaimMaps == UNION {[D -> Claim] : D \in SUBSET ClaimIds}

States == [claims : ClaimMaps, order : Seq(ClaimIds), nonces : SUBSET Nonces]

LEMMA ClaimMapIs ==
  \A f : f \in ClaimMaps <=> /\ f = [c \in DOMAIN f |-> f[c]]
                             /\ DOMAIN f \subseteq ClaimIds /\ \A c \in DOMAIN f : f[c] \in Claim
  BY DEF ClaimMaps

\* t is s with the claim c.
Activated(s, t, c, claim) ==
  /\ t \in States /\ t.nonces = s.nonces /\ t.order = Append(s.order, c)
  /\ DOMAIN t.claims = DOMAIN s.claims \cup {c} /\ t.claims[c] = claim
  /\ \A x \in DOMAIN s.claims \ {c} : t.claims[x] = s.claims[x]

LEMMA ActivateIs ==
  ASSUME NEW s \in States, NEW c \in ClaimIds, NEW claim \in Claim
  PROVE  Activated(s, Activate(s, c, claim), c, claim)
<1> DEFINE f == [x \in DOMAIN s.claims \cup {c} |-> IF x = c THEN claim ELSE s.claims[x]]
           t == Activate(s, c, claim)
<1>1. s.claims \in ClaimMaps /\ s.order \in Seq(ClaimIds) /\ s.nonces \in SUBSET Nonces
  BY DEF States
<1>2. f \in ClaimMaps
  <2>1. \A x \in DOMAIN s.claims : x \in ClaimIds /\ s.claims[x] \in Claim
    BY <1>1, ClaimMapIs
  <2>2. DOMAIN f \subseteq ClaimIds /\ \A x \in DOMAIN f : f[x] \in Claim
    BY <2>1
  <2>3. f = [x \in DOMAIN f |-> f[x]]
    OBVIOUS
  <2> HIDE DEF f
  <2> QED BY <2>2, <2>3, ClaimMapIs
<1>3. t = [claims |-> f, order |-> Append(s.order, c), nonces |-> s.nonces]
  <2>1. t = [s EXCEPT !.claims = f, !.order = Append(s.order, c)]
    BY DEF Activate
  <2> HIDE DEF f, t
  <2> QED BY <2>1 DEF States
<1>4. Append(s.order, c) \in Seq(ClaimIds)
  BY <1>1
<1>5. DOMAIN f = DOMAIN s.claims \cup {c} /\ f[c] = claim
      /\ \A x \in DOMAIN s.claims \ {c} : f[x] = s.claims[x]
  OBVIOUS
<1> HIDE DEF f, t
<1>6. t \in States
  BY <1>1, <1>2, <1>3, <1>4 DEF States
<1>7. Activated(s, t, c, claim)
  BY <1>3, <1>5, <1>6 DEF Activated
<1> QED BY <1>7 DEF t

\* The transfer or release e moves its claim, and to where.
Moves(s, e) == e.nonce \notin s.nonces /\ e.claim \in DOMAIN s.claims /\ s.claims[e.claim].owner = e.from

MovedTo(e) == Append(e.claim, e.to)

Moved(s, t, e) ==
  /\ t \in States /\ t.nonces = s.nonces \cup {e.nonce} /\ t.order = Append(s.order, MovedTo(e))
  /\ DOMAIN t.claims = (DOMAIN s.claims \ {e.claim}) \cup {MovedTo(e)}
  /\ t.claims[MovedTo(e)] = [owner |-> e.to, amount |-> s.claims[e.claim].amount]
  /\ \A x \in DOMAIN s.claims \ {e.claim, MovedTo(e)} : t.claims[x] = s.claims[x]

LEMMA MoveIs ==
  ASSUME NEW s \in States, NEW e, e.claim \in ClaimIds, e.to \in Places, e.nonce \in Nonces
  PROVE  IF Moves(s, e) THEN Moved(s, Move(s, e), e) ELSE Move(s, e) = s
<1>1. CASE ~ Moves(s, e)
  BY <1>1 DEF Moves, Move
<1>2. CASE Moves(s, e)
  <2> DEFINE rest == [x \in DOMAIN s.claims \ {e.claim} |-> s.claims[x]]
             m == [s EXCEPT !.claims = rest, !.nonces = @ \cup {e.nonce}]
             claim == [s.claims[e.claim] EXCEPT !.owner = e.to]
  <2>1. s.claims \in ClaimMaps /\ s.order \in Seq(ClaimIds) /\ s.nonces \in SUBSET Nonces
    BY DEF States
  <2>2. \A x \in DOMAIN s.claims : x \in ClaimIds /\ s.claims[x] \in Claim
    BY <2>1, ClaimMapIs
  <2>3. rest \in ClaimMaps
    <3>1. DOMAIN rest \subseteq ClaimIds /\ \A x \in DOMAIN rest : rest[x] \in Claim
      BY <2>2
    <3>2. rest = [x \in DOMAIN rest |-> rest[x]]
      OBVIOUS
    <3> HIDE DEF rest
    <3> QED BY <3>1, <3>2, ClaimMapIs
  <2>4. s.claims[e.claim] \in Claim
    BY <1>2, <2>2 DEF Moves
  <2>5. claim \in Claim /\ claim = [owner |-> e.to, amount |-> s.claims[e.claim].amount]
    BY <2>4 DEF Claim
  <2>6. m = [claims |-> rest, order |-> s.order, nonces |-> s.nonces \cup {e.nonce}]
    <3> DEFINE used == s.nonces \cup {e.nonce}
    <3>1. m = [s EXCEPT !.claims = rest, !.nonces = used]
      OBVIOUS
    <3> HIDE DEF rest, used, m
    <3>2. m = [claims |-> rest, order |-> s.order, nonces |-> used]
      BY <3>1 DEF States
    <3> QED BY <3>2 DEF used
  <2>7. MovedTo(e) \in ClaimIds
    BY DEF MovedTo, ClaimIds
  <2>8. Move(s, e) = Activate(m, MovedTo(e), claim)
    BY <1>2 DEF Move, Moves, MovedTo
  <2>9. DOMAIN rest = DOMAIN s.claims \ {e.claim} /\ \A x \in DOMAIN rest : rest[x] = s.claims[x]
    OBVIOUS
  <2> HIDE DEF rest, m, claim
  <2>10. m \in States
    BY <2>1, <2>3, <2>6 DEF States
  <2>11. Activated(m, Move(s, e), MovedTo(e), claim)
    BY <2>5, <2>7, <2>8, <2>10, ActivateIs
  <2>12. m.claims = rest /\ m.order = s.order /\ m.nonces = s.nonces \cup {e.nonce}
    BY <2>6
  <2> QED BY <1>2, <2>5, <2>9, <2>11, <2>12 DEF Activated, Moved
<1> QED BY <1>1, <1>2

\* What an event does to the claims: it issues one, moves one, or does nothing.
Issues(s, t, id) ==
  LET e == content[id].payload
  IN  /\ Type(id) = "claim-issue"
      /\ Activated(s, t, <<e.domain>>, [owner |-> e.domain, amount |-> e.amount])

MovesBy(v, s, t, id) ==
  LET e == content[id].payload
  IN  /\ Type(id) = "transfer" \/ (Type(id) = "pot-release" /\ Authorized(v, e, s.claims))
      /\ Moves(s, e) /\ Moved(s, t, e)

\* An event that changes nothing: not one of a claim, or one that is rejected.
Passes(v, s, t, id) ==
  LET e == content[id].payload
  IN  /\ t = s
      /\ Type(id) # "claim-issue"
      /\ Type(id) = "transfer" => ~ Moves(s, e)
      /\ Type(id) = "pot-release" => ~ (Authorized(v, e, s.claims) /\ Moves(s, e))

LEMMA ApplyIs ==
  ASSUME ContentOK, NEW id \in DOMAIN content, NEW s \in States, NEW v
  PROVE  LET t == ApplyConservation(s, id, v)
         IN  t \in States /\ (Issues(s, t, id) \/ MovesBy(v, s, t, id) \/ Passes(v, s, t, id))
<1> DEFINE e == content[id].payload
           t == ApplyConservation(s, id, v)
           Result == t \in States /\ (Issues(s, t, id) \/ MovesBy(v, s, t, id) \/ Passes(v, s, t, id))
<1> SUFFICES Result
  OBVIOUS
<1>1. /\ e.domain \in Replicas /\ Type(id) = e.type
      /\ e.type = "claim-issue" => e.amount \in Nat
      /\ e.type = "transfer" => /\ e.claim \in ClaimIds /\ e.from \in Replicas
                                /\ e.to \in {Pot, Escrow} /\ e.nonce \in Replicas \X Ids
      /\ e.type = "pot-release" => /\ e.claim \in ClaimIds /\ e.to \in Replicas
                                   /\ PoolRelease(e) \/ ContractRelease(e)
  BY ContentFields
<1>2. CASE e.type = "claim-issue"
  <2>1. t = Activate(s, <<e.domain>>, [owner |-> e.domain, amount |-> e.amount])
    BY <1>2 DEF ApplyConservation
  <2>2. <<e.domain>> \in ClaimIds /\ [owner |-> e.domain, amount |-> e.amount] \in Claim
    BY <1>1, <1>2 DEF ClaimIds, Places, Claim
  <2>3. Issues(s, t, id)
    <3> HIDE DEF t
    <3> QED BY <1>1, <1>2, <2>1, <2>2, ActivateIs DEF Issues
  <2> QED BY <2>3 DEF Issues, Activated
<1>3. CASE e.type \in {"transfer", "pot-release"}
  <2>1. e.claim \in ClaimIds /\ e.to \in Places /\ e.nonce \in Nonces
    BY <1>1, <1>3 DEF Places, Nonces, PoolRelease, ContractRelease
  <2>2. IF Moves(s, e) THEN Moved(s, Move(s, e), e) ELSE Move(s, e) = s
    BY <2>1, MoveIs
  <2>3. t = IF e.type = "transfer" \/ Authorized(v, e, s.claims) THEN Move(s, e) ELSE s
    BY <1>3 DEF ApplyConservation
  <2> HIDE DEF t
  <2>4. CASE Moves(s, e) /\ (e.type = "transfer" \/ Authorized(v, e, s.claims))
    <3>1. MovesBy(v, s, t, id)
      BY <1>1, <1>3, <2>2, <2>3, <2>4 DEF MovesBy
    <3> QED BY <3>1 DEF MovesBy, Moved
  <2>5. CASE ~ (Moves(s, e) /\ (e.type = "transfer" \/ Authorized(v, e, s.claims)))
    <3>1. t = s
      BY <2>2, <2>3, <2>5
    <3> QED BY <1>1, <1>3, <2>5, <3>1 DEF Passes
  <2> QED BY <2>4, <2>5
<1>4. CASE e.type \notin {"claim-issue", "transfer", "pot-release"}
  <2>1. t = s
    BY <1>4 DEF ApplyConservation
  <2> HIDE DEF t
  <2> QED BY <1>1, <1>4, <2>1 DEF Passes
<1> QED BY <1>2, <1>3, <1>4

LEMMA InitialIs == InitialConservation \in States /\ DOMAIN InitialConservation.claims = {}
                   /\ InitialConservation.nonces = {}
<1> DEFINE f == [c \in {} |-> c]
<1>1. f \in ClaimMaps
  <2>1. f = [c \in DOMAIN f |-> f[c]] /\ DOMAIN f = {}
    OBVIOUS
  <2> HIDE DEF f
  <2> QED BY <2>1, ClaimMapIs
<1>2. InitialConservation = [claims |-> f, order |-> << >>, nonces |-> {}]
  BY DEF InitialConservation
<1>3. DOMAIN f = {}
  OBVIOUS
<1> HIDE DEF f
<1> QED BY <1>1, <1>2, <1>3 DEF States

\* s is the fold of the events of order, with what checks the releases.
Along(order, v, s) ==
  /\ s \in [0 .. Len(order) -> States]
  /\ s[0] = InitialConservation
  /\ \A i \in 1 .. Len(order) : s[i] = ApplyConservation(s[i - 1], order[i], v)

LEMMA FoldIs ==
  ASSUME ContentOK, NEW v, NEW order, Len(order) \in Nat,
         \A i \in 1 .. Len(order) : order[i] \in DOMAIN content
  PROVE  \E s : Along(order, v, s) /\ FoldConservation(order, v) = s[Len(order)]
<1> DEFINE n == Len(order)
           step == [i \in 1 .. n |-> [x \in States |-> ApplyConservation(x, order[i], v)]]
           Right(x) == x = [i \in 0 .. n |-> IF i = 0 THEN InitialConservation
                                             ELSE ApplyConservation(x[i - 1], order[i], v)]
           st == CHOOSE f : Right(f)
<1>1. Steps(step, n, States)
  <2> SUFFICES ASSUME NEW i \in 1 .. n, NEW x \in States PROVE step[i][x] \in States
    BY DEF Steps
  <2>1. ApplyConservation(x, order[i], v) \in States
    BY ApplyIs
  <2> QED BY <2>1
<1>2. PICK f \in [0 .. n -> States] :
        f[0] = InitialConservation /\ \A i \in 1 .. n : f[i] = step[i][f[i - 1]]
  <2> HIDE DEF step
  <2> QED BY <1>1, InitialIs, FoldExists
<1>3. \A i \in 1 .. n : f[i] = ApplyConservation(f[i - 1], order[i], v)
  <2> TAKE i \in 1 .. n
  <2>1. f[i - 1] \in States
    OBVIOUS
  <2>2. f[i] = step[i][f[i - 1]]
    BY <1>2
  <2> QED BY <2>1, <2>2
<1>4. Right(f)
  <2>1. \A i \in 0 .. n : f[i] = IF i = 0 THEN InitialConservation
                                 ELSE ApplyConservation(f[i - 1], order[i], v)
    BY <1>2, <1>3
  <2> QED BY <2>1
<1>5. Right(st)
  <2> HIDE DEF Right
  <2> QED BY <1>4
<1>6. FoldConservation(order, v) = st[n]
  BY DEF FoldConservation
<1> HIDE DEF st
<1>7. st[0] = InitialConservation /\ DOMAIN st = 0 .. n
      /\ \A i \in 1 .. n : st[i] = ApplyConservation(st[i - 1], order[i], v)
  BY <1>5
<1>8. \A i \in 0 .. n : st[i] \in States
  <2>1. st[0] \in States
    BY <1>7, InitialIs
  <2>2. \A i \in 1 .. n : st[i - 1] \in States => st[i] \in States
    BY <1>7, ApplyIs
  <2> QED BY <2>1, <2>2, FoldKeeps
<1>9. st \in [0 .. n -> States]
  BY <1>5, <1>7, <1>8
<1> QED BY <1>6, <1>7, <1>9 DEF Along

-----------------------------------------------------------------------------
(* The claims of a view                                                    *)

LEMMA AppendIs ==
  ASSUME NEW S, NEW c \in Seq(S), NEW x \in S
  PROVE  /\ Append(c, x) \in Seq(S) /\ Len(Append(c, x)) = Len(c) + 1 /\ Append(c, x)[Len(c) + 1] = x
         /\ \A m \in 1 .. Len(c) : Append(c, x)[m] = c[m] /\ SubSeq(Append(c, x), 1, m) = SubSeq(c, 1, m)
         /\ SubSeq(Append(c, x), 1, Len(c)) = c
  OBVIOUS

LEMMA PrefixIs ==
  ASSUME NEW S, NEW c \in Seq(S), NEW n \in Nat, n <= Len(c)
  PROVE  /\ SubSeq(c, 1, n) \in Seq(S) /\ Len(SubSeq(c, 1, n)) = n
         /\ \A m \in 1 .. n : SubSeq(c, 1, n)[m] = c[m] /\ SubSeq(SubSeq(c, 1, n), 1, m) = SubSeq(c, 1, m)
  OBVIOUS

\* order lists the events of S once each, after their parents.
Ordered(order, S) ==
  /\ Len(order) \in Nat /\ order \in [1 .. Len(order) -> S] /\ S \subseteq DOMAIN content
  /\ \A id \in S : \E i \in 1 .. Len(order) : order[i] = id
  /\ \A i, j \in 1 .. Len(order) : order[i] = order[j] => i = j
  /\ \A i \in 1 .. Len(order) : \A p \in Parents(order[i]) : \E j \in 1 .. (i - 1) : order[j] = p

LEMMA ViewOrder == DagInv => \A r \in Replicas : Ordered(TopoOrder(r), dag[r])
<1> SUFFICES ASSUME DagInv, NEW r \in Replicas PROVE Ordered(TopoOrder(r), dag[r])
  OBVIOUS
<1>1. dag[r] \subseteq DOMAIN content
  BY DEF DagInv
<1> QED BY <1>1, TopoOrderInOrder DEF Ordered

\* Among the first i events, one moves the claim named by the first m places of c on to the next.
Carried(order, i, v, c, m) ==
  \E j \in 1 .. i :
    LET e == content[order[j]].payload
    IN  /\ e.claim = SubSeq(c, 1, m) /\ e.from = c[m] /\ e.to = c[m + 1]
        /\ \/ Type(order[j]) = "transfer"
           \/ Type(order[j]) = "pot-release" /\ \E claims : Authorized(v, e, claims)

IssuedBy(order, i, d) == \E j \in 1 .. i : Type(order[j]) = "claim-issue" /\ Domain(order[j]) = d

(* A claim is where its name ends, is worth what its first owner issued,   *)
(* and each of its moves was made by an event.                             *)
Traced(order, i, v, s, c) ==
  /\ c # << >> /\ c[1] \in Replicas
  /\ s.claims[c].owner = c[Len(c)] /\ s.claims[c].amount = plugin.purse[c[1]]
  /\ IssuedBy(order, i, c[1])
  /\ \E k \in DOMAIN s.order : s.order[k] = c
  /\ \A m \in 1 .. Len(c) - 1 : Carried(order, i, v, c, m)

OneEach(s) == \A c, d \in DOMAIN s.claims : c[1] = d[1] => c = d

\* What q names was there, and is, wherever it went from there.
WentThrough(s, q) == \E c \in DOMAIN s.claims : Len(q) <= Len(c) /\ SubSeq(c, 1, Len(q)) = q

\* A nonce was used by one of the first i events, for a move that has been made.
Spent(order, i, s, x) ==
  \E j \in 1 .. i :
    /\ Type(order[j]) \in {"transfer", "pot-release"}
    /\ content[order[j]].payload.nonce = x
    /\ WentThrough(s, MovedTo(content[order[j]].payload))

Sound(order, i, v, s) ==
  /\ \A c \in DOMAIN s.claims : Traced(order, i, v, s, c)
  /\ OneEach(s)
  /\ \A x \in s.nonces : Spent(order, i, s, x)

\* Moving a claim on keeps the ways of all.
LEMMA MovedKeeps ==
  ASSUME NEW s \in States, NEW t, NEW e, e.claim \in ClaimIds, e.to \in Places,
         e.claim \in DOMAIN s.claims, Moved(s, t, e), NEW q \in ClaimIds, WentThrough(s, q)
  PROVE  WentThrough(t, q)
<1>1. PICK c \in DOMAIN s.claims : Len(q) <= Len(c) /\ SubSeq(c, 1, Len(q)) = q
  BY DEF WentThrough
<1>2. c \in ClaimIds
  BY ClaimMapIs DEF States
<1>3. CASE c # e.claim
  BY <1>1, <1>3 DEF Moved, WentThrough
<1>4. CASE c = e.claim
  <2>1. MovedTo(e) \in DOMAIN t.claims
    BY DEF Moved
  <2>2. MovedTo(e) = Append(c, e.to) /\ c \in Seq(Places)
    BY <1>2, <1>4 DEF MovedTo, ClaimIds
  <2>3. q \in Seq(Places) /\ Len(q) \in Nat /\ Len(c) \in Nat
    BY <1>2 DEF ClaimIds
  <2>4. CASE Len(q) = 0
    <3>1. Len(MovedTo(e)) = Len(c) + 1
      BY <2>2, AppendIs
    <3>2. SubSeq(MovedTo(e), 1, Len(q)) = << >> /\ q = << >>
      BY <2>2, <2>3, <2>4
    <3> QED BY <2>1, <2>3, <2>4, <3>1, <3>2 DEF WentThrough
  <2>5. CASE Len(q) # 0
    <3>1. Len(q) \in 1 .. Len(c)
      BY <1>1, <2>3, <2>5
    <3>2. SubSeq(MovedTo(e), 1, Len(q)) = SubSeq(c, 1, Len(q)) /\ Len(MovedTo(e)) = Len(c) + 1
      BY <2>2, <3>1, AppendIs
    <3> QED BY <1>1, <2>1, <2>3, <3>2 DEF WentThrough
  <2> QED BY <2>4, <2>5
<1> QED BY <1>3, <1>4

LEMMA ApplyKeeps ==
  ASSUME ContentOK, NEW id \in DOMAIN content, NEW s \in States, NEW v, NEW q \in ClaimIds, WentThrough(s, q)
  PROVE  WentThrough(ApplyConservation(s, id, v), q)
<1> DEFINE t == ApplyConservation(s, id, v)
           e == content[id].payload
<1> SUFFICES WentThrough(t, q)
  OBVIOUS
<1>1. t \in States /\ (Issues(s, t, id) \/ MovesBy(v, s, t, id) \/ Passes(v, s, t, id))
  BY ApplyIs
<1> HIDE DEF t
<1>2. CASE Issues(s, t, id)
  BY <1>2 DEF Issues, Activated, WentThrough
<1>3. CASE MovesBy(v, s, t, id)
  <2>1. e.claim \in ClaimIds /\ e.to \in Places
    BY <1>3, ContentFields DEF MovesBy, Places
  <2> QED BY <1>3, <2>1, MovedKeeps DEF MovesBy, Moves
<1>4. CASE Passes(v, s, t, id)
  BY <1>4 DEF Passes
<1> QED BY <1>1, <1>2, <1>3, <1>4

LEMMA CarriedLater ==
  ASSUME NEW order, NEW i \in Nat, NEW v, NEW c, NEW m, Carried(order, i - 1, v, c, m)
  PROVE  Carried(order, i, v, c, m)
  BY DEF Carried

\* A claim that stays is as it was.
LEMMA TracedStays ==
  ASSUME NEW order, NEW i \in Nat, NEW v, NEW s \in States, NEW t \in States, NEW c, Traced(order, i - 1, v, s, c),
         t.claims[c] = s.claims[c], t.order = s.order \/ \E x \in ClaimIds : t.order = Append(s.order, x)
  PROVE  Traced(order, i, v, t, c)
<1>1. IssuedBy(order, i, c[1])
  BY DEF Traced, IssuedBy
<1>2. \E k \in DOMAIN t.order : t.order[k] = c
  <2>1. PICK k \in DOMAIN s.order : s.order[k] = c
    BY DEF Traced
  <2>2. s.order \in Seq(ClaimIds)
    BY DEF States
  <2>3. CASE t.order = s.order
    BY <2>1, <2>3
  <2>4. ASSUME NEW x \in ClaimIds, t.order = Append(s.order, x) PROVE k \in DOMAIN t.order /\ t.order[k] = c
    BY <2>1, <2>2, <2>4
  <2> QED BY <2>1, <2>3, <2>4
<1>3. \A m \in 1 .. Len(c) - 1 : Carried(order, i, v, c, m)
  BY CarriedLater DEF Traced
<1> QED BY <1>1, <1>2, <1>3 DEF Traced

LEMMA SpentLater ==
  ASSUME NEW order, NEW i \in Nat, NEW s, NEW t, NEW x, Spent(order, i - 1, s, x),
         \A q \in ClaimIds : WentThrough(s, q) => WentThrough(t, q),
         \A j \in 1 .. i : Type(order[j]) \in {"transfer", "pot-release"} =>
            MovedTo(content[order[j]].payload) \in ClaimIds
  PROVE  Spent(order, i, t, x)
  BY DEF Spent

LEMMA MovedToIs ==
  ASSUME ContentOK, NEW id \in DOMAIN content, Type(id) \in {"transfer", "pot-release"}
  PROVE  LET e == content[id].payload
         IN  MovedTo(e) \in ClaimIds /\ e.claim \in ClaimIds /\ e.to \in Places /\ e.from \in Places
             /\ e.nonce \in Nonces
<1> DEFINE e == content[id].payload
<1>1. e.claim \in ClaimIds /\ e.to \in Places /\ e.from \in Places /\ e.nonce \in Nonces
  BY ContentFields DEF Places, Nonces, PoolRelease, ContractRelease
<1> QED BY <1>1 DEF MovedTo, ClaimIds

LEMMA SoundIssues ==
  ASSUME ContentOK, NEW S, NEW order, Ordered(order, S), NEW i \in 1 .. Len(order), NEW v,
         NEW s \in States, Sound(order, i - 1, v, s), NEW t, Issues(s, t, order[i]),
         \A q \in ClaimIds : WentThrough(s, q) => WentThrough(t, q)
  PROVE  Sound(order, i, v, t)
<1> DEFINE id == order[i]
           d == content[id].payload.domain
<1>1. /\ id \in DOMAIN content /\ i \in Nat /\ i - 1 \in Nat
      /\ \A j \in 1 .. Len(order) : order[j] \in DOMAIN content
  BY DEF Ordered
<1>2. /\ Type(id) = "claim-issue" /\ d \in Replicas /\ Domain(id) = d
      /\ Parents(id) = {} /\ content[id].payload.amount = plugin.purse[d]
  BY <1>1, ContentFields DEF Issues, Begins, Type
<1>3. /\ t \in States /\ t.nonces = s.nonces /\ t.order = Append(s.order, <<d>>)
      /\ DOMAIN t.claims = DOMAIN s.claims \cup {<<d>>}
      /\ t.claims[<<d>>] = [owner |-> d, amount |-> plugin.purse[d]]
      /\ \A x \in DOMAIN s.claims \ {<<d>>} : t.claims[x] = s.claims[x]
  BY <1>2 DEF Issues, Activated
<1>4. <<d>> \in ClaimIds
  BY <1>2 DEF ClaimIds, Places
<1>5. \A c \in DOMAIN s.claims : c[1] # d
  <2> SUFFICES ASSUME NEW c \in DOMAIN s.claims, c[1] = d PROVE FALSE
    OBVIOUS
  <2>1. PICK j \in 1 .. (i - 1) : Type(order[j]) = "claim-issue" /\ Domain(order[j]) = d
    BY DEF Sound, Traced, IssuedBy
  <2>2. order[j] \in DOMAIN content /\ j \in 1 .. Len(order)
    BY <1>1
  <2>3. Parents(order[j]) = {}
    BY <2>1, <2>2, ContentFields DEF Begins, Type
  <2>4. order[j] = id
    BY <1>1, <1>2, <2>1, <2>2, <2>3 DEF ContentOK
  <2> QED BY <2>2, <2>4 DEF Ordered
<1> HIDE DEF id, d
<1>6. Traced(order, i, v, t, <<d>>)
  <2>1. IssuedBy(order, i, d)
    BY <1>1, <1>2 DEF IssuedBy, id
  <2>2. \E k \in DOMAIN t.order : t.order[k] = <<d>>
    <3>1. s.order \in Seq(ClaimIds)
      BY DEF States
    <3>2. Len(s.order) + 1 \in DOMAIN t.order /\ t.order[Len(s.order) + 1] = <<d>>
      BY <1>3, <1>4, <3>1
    <3> QED BY <3>2
  <2>3. Len(<<d>>) = 1 /\ <<d>>[1] = d /\ <<d>> # << >>
    OBVIOUS
  <2> QED BY <1>2, <1>3, <2>1, <2>2, <2>3 DEF Traced
<1>7. \A c \in DOMAIN t.claims : Traced(order, i, v, t, c)
  <2> SUFFICES ASSUME NEW c \in DOMAIN s.claims, c # <<d>> PROVE Traced(order, i, v, t, c)
    BY <1>3, <1>6
  <2>1. Traced(order, i - 1, v, s, c) /\ t.claims[c] = s.claims[c]
    BY <1>3 DEF Sound
  <2> QED BY <1>1, <1>3, <1>4, <2>1, TracedStays
<1>8. OneEach(t)
  <2>1. <<d>>[1] = d
    OBVIOUS
  <2> QED BY <1>3, <1>5, <2>1 DEF OneEach, Sound
<1>9. \A x \in t.nonces : Spent(order, i, t, x)
  <2>1. \A j \in 1 .. i : order[j] \in DOMAIN content
    BY <1>1
  <2>2. \A j \in 1 .. i : Type(order[j]) \in {"transfer", "pot-release"} =>
           MovedTo(content[order[j]].payload) \in ClaimIds
    BY <2>1, MovedToIs
  <2> QED BY <1>1, <1>3, <2>2, SpentLater DEF Sound
<1> QED BY <1>7, <1>8, <1>9 DEF Sound

LEMMA SoundMoves ==
  ASSUME ContentOK, NEW S, NEW order, Ordered(order, S), NEW i \in 1 .. Len(order), NEW v,
         NEW s \in States, Sound(order, i - 1, v, s), NEW t, MovesBy(v, s, t, order[i]),
         \A q \in ClaimIds : WentThrough(s, q) => WentThrough(t, q)
  PROVE  Sound(order, i, v, t)
<1> DEFINE id == order[i]
           e == content[id].payload
           c == e.claim
           d == MovedTo(e)
<1>1. /\ id \in DOMAIN content /\ i \in Nat /\ i - 1 \in Nat /\ i \in 1 .. i
      /\ \A j \in 1 .. Len(order) : order[j] \in DOMAIN content
  BY DEF Ordered
<1>2. /\ Type(id) = "transfer" \/ (Type(id) = "pot-release" /\ Authorized(v, e, s.claims))
      /\ Moves(s, e) /\ Moved(s, t, e)
  BY DEF MovesBy
<1>3. c \in ClaimIds /\ d \in ClaimIds /\ e.to \in Places
  BY <1>1, <1>2, MovedToIs
<1>4. /\ t \in States /\ t.nonces = s.nonces \cup {e.nonce} /\ t.order = Append(s.order, d)
      /\ DOMAIN t.claims = (DOMAIN s.claims \ {c}) \cup {d}
      /\ t.claims[d] = [owner |-> e.to, amount |-> s.claims[c].amount]
      /\ \A x \in DOMAIN s.claims \ {c, d} : t.claims[x] = s.claims[x]
      /\ c \in DOMAIN s.claims /\ s.claims[c].owner = e.from
  BY <1>2 DEF Moved, Moves
<1>5. /\ id = order[i] /\ e = content[order[i]].payload /\ c = e.claim /\ d = Append(c, e.to)
  BY DEF MovedTo
<1>50. /\ WentThrough(t, d) => Spent(order, i, t, e.nonce)
       /\ \A x, m : /\ c = SubSeq(x, 1, m) /\ e.from = x[m] /\ e.to = x[m + 1]
                   => Carried(order, i, v, x, m)
  BY <1>1, <1>2 DEF Spent, Carried
<1> HIDE DEF id, e, c, d
<1>51. Traced(order, i - 1, v, s, c)
  BY <1>4 DEF Sound
<1>6. /\ Len(d) = Len(c) + 1 /\ Len(c) \in Nat \ {0} /\ d[Len(c) + 1] = e.to /\ d # << >>
      /\ \A m \in 1 .. Len(c) : d[m] = c[m] /\ SubSeq(d, 1, m) = SubSeq(c, 1, m)
      /\ SubSeq(d, 1, Len(c)) = c
  <2>1. c \in Seq(Places) /\ c # << >>
    BY <1>3, <1>51 DEF Traced, ClaimIds
  <2>2. Len(c) \in Nat \ {0}
    BY <2>1
  <2>3. /\ Append(c, e.to) \in Seq(Places) /\ Len(Append(c, e.to)) = Len(c) + 1
        /\ Append(c, e.to)[Len(c) + 1] = e.to
        /\ \A m \in 1 .. Len(c) : Append(c, e.to)[m] = c[m] /\ SubSeq(Append(c, e.to), 1, m) = SubSeq(c, 1, m)
        /\ SubSeq(Append(c, e.to), 1, Len(c)) = c
    BY <1>3, <2>1, AppendIs
  <2>4. d # << >>
    <3>1. Len(d) = Len(c) + 1
      BY <1>5, <2>3
    <3>2. d \in Seq(Places)
      BY <1>3 DEF ClaimIds
    <3> QED BY <2>2, <3>1, <3>2
  <2> QED BY <1>5, <2>2, <2>3, <2>4
<1>7. d[1] = c[1]
  BY <1>6
<1>8. Traced(order, i, v, t, d)
  <2>1. d[1] \in Replicas /\ IssuedBy(order, i, d[1])
    BY <1>1, <1>51, <1>7 DEF Traced, IssuedBy
  <2>2. t.claims[d].owner = d[Len(d)] /\ t.claims[d].amount = plugin.purse[d[1]]
    BY <1>4, <1>51, <1>6, <1>7 DEF Traced
  <2>3. \E k \in DOMAIN t.order : t.order[k] = d
    <3>1. s.order \in Seq(ClaimIds)
      BY DEF States
    <3>2. Len(s.order) + 1 \in DOMAIN t.order /\ t.order[Len(s.order) + 1] = d
      BY <1>3, <1>4, <3>1
    <3> QED BY <3>2
  <2>4. \A m \in 1 .. Len(d) - 1 : Carried(order, i, v, d, m)
    <3> TAKE m \in 1 .. Len(d) - 1
    <3>1. CASE m = Len(c)
      <4>1. c = SubSeq(d, 1, m) /\ e.to = d[m + 1]
        BY <1>6, <3>1
      <4>2. e.from = d[m]
        BY <1>4, <1>51, <1>6, <3>1 DEF Traced
      <4> QED BY <1>50, <4>1, <4>2
    <3>2. CASE m \in 1 .. Len(c) - 1
      <4>1. Carried(order, i, v, c, m)
        BY <1>1, <1>51, <3>2, CarriedLater DEF Traced
      <4>2. SubSeq(d, 1, m) = SubSeq(c, 1, m) /\ d[m] = c[m] /\ d[m + 1] = c[m + 1]
        <5>1. m \in 1 .. Len(c) /\ m + 1 \in 1 .. Len(c)
          BY <1>6, <3>2
        <5> QED BY <1>6, <5>1
      <4> QED BY <4>1, <4>2 DEF Carried
    <3>3. m = Len(c) \/ m \in 1 .. Len(c) - 1
      <4>1. Len(d) = Len(c) + 1 /\ Len(c) \in Nat \ {0}
        BY <1>6
      <4> QED BY <4>1
    <3> QED BY <3>1, <3>2, <3>3
  <2> QED BY <1>6, <2>1, <2>2, <2>3, <2>4 DEF Traced
<1>9. \A x \in DOMAIN s.claims \ {c, d} : Traced(order, i, v, t, x)
  <2> SUFFICES ASSUME NEW x \in DOMAIN s.claims \ {c, d} PROVE Traced(order, i, v, t, x)
    OBVIOUS
  <2>1. Traced(order, i - 1, v, s, x) /\ t.claims[x] = s.claims[x]
    BY <1>4 DEF Sound
  <2> QED BY <1>1, <1>3, <1>4, <2>1, TracedStays
<1>10. OneEach(t)
  BY <1>4, <1>7 DEF OneEach, Sound
<1>11. \A x \in t.nonces : Spent(order, i, t, x)
  <2>1. \A j \in 1 .. i : Type(order[j]) \in {"transfer", "pot-release"} =>
           MovedTo(content[order[j]].payload) \in ClaimIds
    BY <1>1, MovedToIs
  <2>2. ASSUME NEW x \in s.nonces PROVE Spent(order, i, t, x)
    BY <1>1, <2>1, <2>2, SpentLater DEF Sound
  <2>3. Spent(order, i, t, e.nonce)
    <3>1. Len(d) <= Len(d) /\ SubSeq(d, 1, Len(d)) = d
      BY <1>3 DEF ClaimIds
    <3>2. WentThrough(t, d)
      BY <1>4, <3>1 DEF WentThrough
    <3> QED BY <1>50, <3>2
  <2> QED BY <1>4, <2>2, <2>3
<1>12. \A x \in DOMAIN t.claims : Traced(order, i, v, t, x)
  BY <1>4, <1>8, <1>9
<1> QED BY <1>10, <1>11, <1>12 DEF Sound

\* A view's claims are sound, after each of its events.
LEMMA SoundViews ==
  ASSUME ContentOK, NEW S, NEW order, Ordered(order, S), NEW v, NEW s, Along(order, v, s)
  PROVE  \A i \in 0 .. Len(order) : s[i] \in States /\ Sound(order, i, v, s[i])
<1> DEFINE n == Len(order)
           V == {i \in 0 .. n : Sound(order, i, v, s[i])}
<1>1. n \in Nat /\ \A i \in 0 .. n : s[i] \in States
  BY DEF Along, Ordered
<1>2. 0 \in V
  <2>1. DOMAIN s[0].claims = {} /\ s[0].nonces = {}
    BY InitialIs DEF Along
  <2> QED BY <1>1, <2>1 DEF Sound, OneEach
<1>3. ASSUME NEW i \in 0 .. (n - 1), i \in V PROVE i + 1 \in V
  <2> DEFINE k == i + 1
  <2>1. k \in 1 .. n /\ k - 1 = i /\ order[k] \in DOMAIN content /\ s[i] \in States
    BY <1>1 DEF Ordered
  <2>2. s[k] = ApplyConservation(s[i], order[k], v)
    BY <2>1 DEF Along
  <2>3. Issues(s[i], s[k], order[k]) \/ MovesBy(v, s[i], s[k], order[k]) \/ Passes(v, s[i], s[k], order[k])
    BY <2>1, <2>2, ApplyIs
  <2>4. \A q \in ClaimIds : WentThrough(s[i], q) => WentThrough(s[k], q)
    BY <2>1, <2>2, ApplyKeeps
  <2>5. Sound(order, k - 1, v, s[i])
    BY <1>3, <2>1
  <2> HIDE DEF k
  <2>6. CASE Issues(s[i], s[k], order[k])
    BY <2>1, <2>4, <2>5, <2>6, SoundIssues
  <2>7. CASE MovesBy(v, s[i], s[k], order[k])
    BY <2>1, <2>4, <2>5, <2>7, SoundMoves
  <2>8. CASE Passes(v, s[i], s[k], order[k])
    <3>1. s[k] = s[i]
      BY <2>8 DEF Passes
    <3>2. \A c \in DOMAIN s[k].claims : Traced(order, k, v, s[k], c)
      <4> TAKE c \in DOMAIN s[k].claims
      <4>1. Traced(order, k - 1, v, s[i], c)
        BY <2>5, <3>1 DEF Sound
      <4>2. k \in Nat /\ s[k] \in States
        BY <1>1, <2>1
      <4> QED BY <2>1, <3>1, <4>1, <4>2, TracedStays
    <3>3. \A j \in 1 .. k : Type(order[j]) \in {"transfer", "pot-release"} =>
             MovedTo(content[order[j]].payload) \in ClaimIds
      BY <1>1, <2>1, MovedToIs DEF Ordered
    <3>4. \A x \in s[k].nonces : Spent(order, k, s[k], x)
      BY <2>1, <2>5, <3>1, <3>3, SpentLater DEF Sound
    <3> QED BY <2>1, <2>5, <3>1, <3>2, <3>4 DEF Sound, k
  <2>9. Sound(order, k, v, s[k])
    BY <2>3, <2>6, <2>7, <2>8 DEF k
  <2> QED BY <2>1, <2>9 DEF k
<1>4. 0 .. n \subseteq V
  <2> HIDE DEF V
  <2> QED BY <1>1, <1>2, <1>3, Induction
<1> QED BY <1>1, <1>4

-----------------------------------------------------------------------------
(* The pool                                                                *)

Entries == [by : Replicas, claim : ClaimIds, amount : Nat]

\* The cycles are filled in turn, and none has more than it takes.
InTurn(p) ==
  \A k \in DOMAIN p.cycles :
    Len(p.cycles[k]) \in 1 .. p.length /\ (k # Len(p.cycles) => Len(p.cycles[k]) = p.length)

BacksOne(p) ==
  \A j, k \in DOMAIN p.cycles : \A m \in DOMAIN p.cycles[j], n \in DOMAIN p.cycles[k] :
    p.cycles[j][m].claim = p.cycles[k][n].claim => j = k /\ m = n

Pools == {p \in [length : Nat, cycles : Seq(Seq(Entries))] : InTurn(p) /\ BacksOne(p)}

\* q has the places of p and one more, for entry.
Grown(p, q, entry) ==
  \E k0, i0 :
    /\ k0 \in DOMAIN q.cycles /\ i0 \in DOMAIN q.cycles[k0] /\ q.cycles[k0][i0] = entry
    /\ \A k \in DOMAIN p.cycles : k \in DOMAIN q.cycles /\
         \A i \in DOMAIN p.cycles[k] : i \in DOMAIN q.cycles[k] /\ q.cycles[k][i] = p.cycles[k][i]
    /\ \A k \in DOMAIN q.cycles : \A i \in DOMAIN q.cycles[k] :
         (k = k0 /\ i = i0) \/ (k \in DOMAIN p.cycles /\ i \in DOMAIN p.cycles[k])

LEMMA UsedIs ==
  \A p, c : c \in UsedClaims(p) <=>
              \E k \in DOMAIN p.cycles : \E i \in DOMAIN p.cycles[k] : p.cycles[k][i].claim = c
  BY DEF UsedClaims

LEMMA GrownKeeps ==
  ASSUME NEW p, NEW q, NEW entry, BacksOne(p), Grown(p, q, entry), entry.claim \notin UsedClaims(p)
  PROVE  BacksOne(q) /\ UsedClaims(q) = UsedClaims(p) \cup {entry.claim}
<1>1. PICK k0, i0 :
        /\ k0 \in DOMAIN q.cycles /\ i0 \in DOMAIN q.cycles[k0] /\ q.cycles[k0][i0] = entry
        /\ \A k \in DOMAIN p.cycles : k \in DOMAIN q.cycles /\
             \A i \in DOMAIN p.cycles[k] : i \in DOMAIN q.cycles[k] /\ q.cycles[k][i] = p.cycles[k][i]
        /\ \A k \in DOMAIN q.cycles : \A i \in DOMAIN q.cycles[k] :
             (k = k0 /\ i = i0) \/ (k \in DOMAIN p.cycles /\ i \in DOMAIN p.cycles[k])
  BY DEF Grown
<1>2. \A k \in DOMAIN p.cycles : \A i \in DOMAIN p.cycles[k] : p.cycles[k][i].claim # entry.claim
  BY UsedIs
<1>3. BacksOne(q)
  <2> SUFFICES ASSUME NEW j \in DOMAIN q.cycles, NEW k \in DOMAIN q.cycles, NEW m \in DOMAIN q.cycles[j],
                      NEW n \in DOMAIN q.cycles[k], q.cycles[j][m].claim = q.cycles[k][n].claim
               PROVE  j = k /\ m = n
    BY DEF BacksOne
  <2>1. (j = k0 /\ m = i0) \/ (j \in DOMAIN p.cycles /\ m \in DOMAIN p.cycles[j] /\ q.cycles[j][m] = p.cycles[j][m])
    BY <1>1
  <2>2. (k = k0 /\ n = i0) \/ (k \in DOMAIN p.cycles /\ n \in DOMAIN p.cycles[k] /\ q.cycles[k][n] = p.cycles[k][n])
    BY <1>1
  <2> QED BY <1>1, <1>2, <2>1, <2>2 DEF BacksOne
<1>4. \A c : c \in UsedClaims(q) <=> c \in UsedClaims(p) \/ c = entry.claim
  <2> TAKE c
  <2>1. ASSUME c \in UsedClaims(q) PROVE c \in UsedClaims(p) \/ c = entry.claim
    <3>1. PICK k \in DOMAIN q.cycles : \E i \in DOMAIN q.cycles[k] : q.cycles[k][i].claim = c
      BY <2>1, UsedIs
    <3>2. PICK i \in DOMAIN q.cycles[k] : q.cycles[k][i].claim = c
      BY <3>1
    <3> QED BY <1>1, <3>2, UsedIs
  <2>2. ASSUME c \in UsedClaims(p) PROVE c \in UsedClaims(q)
    <3>1. PICK k \in DOMAIN p.cycles : \E i \in DOMAIN p.cycles[k] : p.cycles[k][i].claim = c
      BY <2>2, UsedIs
    <3>2. PICK i \in DOMAIN p.cycles[k] : p.cycles[k][i].claim = c
      BY <3>1
    <3>3. k \in DOMAIN q.cycles /\ i \in DOMAIN q.cycles[k] /\ q.cycles[k][i].claim = c
      BY <1>1, <3>2
    <3> QED BY <3>3, UsedIs
  <2>3. entry.claim \in UsedClaims(q)
    BY <1>1, UsedIs
  <2> QED BY <2>1, <2>2, <2>3
<1> QED BY <1>3, <1>4

\* The open cycle is the last one, or the next when that is full.
LEMMA OpenCycleIs ==
  ASSUME NEW p \in Pools, p.length # 0
  PROVE  LET k == OpenCycle(p)
             n == Len(p.cycles)
         IN  /\ n \in Nat
             /\ \/ k = n + 1 /\ \A j \in 1 .. n : Len(p.cycles[j]) = p.length
                \/ k = n /\ n # 0 /\ Len(p.cycles[n]) < p.length
<1> DEFINE n == Len(p.cycles)
           Open(k) == /\ k > n \/ Len(p.cycles[k]) < p.length
                      /\ \A j \in 1 .. k - 1 : Len(p.cycles[j]) >= p.length
<1>1. p.length \in Nat /\ p.cycles \in Seq(Seq(Entries)) /\ InTurn(p)
  BY DEF Pools
<1>2. n \in Nat /\ DOMAIN p.cycles = 1 .. n
  BY <1>1
<1>3. \A j \in 1 .. n : Len(p.cycles[j]) \in 1 .. p.length /\ (j # n => Len(p.cycles[j]) = p.length)
  BY <1>1, <1>2 DEF InTurn
<1> SUFFICES \/ OpenCycle(p) = n + 1 /\ \A j \in 1 .. n : Len(p.cycles[j]) = p.length
             \/ OpenCycle(p) = n /\ n # 0 /\ Len(p.cycles[n]) < p.length
  BY <1>2
<1>4. OpenCycle(p) = CHOOSE k \in 1 .. n + 1 : Open(k)
  BY DEF OpenCycle
<1> HIDE DEF n
<1>5. \E k \in 1 .. n + 1 : Open(k)
  <2>1. CASE n = 0
    BY <1>2, <2>1
  <2>2. CASE n # 0 /\ Len(p.cycles[n]) < p.length
    <3>1. n \in 1 .. n + 1 /\ Open(n)
      BY <1>1, <1>2, <1>3, <2>2
    <3> QED BY <3>1
  <2>3. CASE n # 0 /\ ~ Len(p.cycles[n]) < p.length
    <3>1. \A j \in 1 .. n : Len(p.cycles[j]) >= p.length
      BY <1>1, <1>2, <1>3, <2>3
    <3>2. n + 1 \in 1 .. n + 1 /\ Open(n + 1)
      BY <1>2, <3>1
    <3> QED BY <3>2
  <2> QED BY <2>1, <2>2, <2>3
<1> DEFINE k == OpenCycle(p)
<1>6. k \in 1 .. n + 1 /\ Open(k)
  <2> HIDE DEF Open
  <2> QED BY <1>4, <1>5
<1> HIDE DEF k
<1>7. CASE k = n + 1
  BY <1>1, <1>2, <1>3, <1>6, <1>7 DEF k
<1>8. CASE k # n + 1
  <2>1. k \in 1 .. n /\ Len(p.cycles[k]) < p.length
    BY <1>2, <1>6, <1>8
  <2>2. k = n
    BY <1>1, <1>2, <1>3, <2>1
  <2> QED BY <1>2, <2>1, <2>2 DEF k
<1> QED BY <1>7, <1>8

LEMMA AddCycle ==
  ASSUME NEW p \in Pools, p.length # 0, \A k \in 1 .. Len(p.cycles) : Len(p.cycles[k]) = p.length,
         NEW entry \in Entries, entry.claim \notin UsedClaims(p)
  PROVE  LET q == [p EXCEPT !.cycles = Append(@, <<entry>>)]
         IN  q \in Pools /\ q.length = p.length /\ UsedClaims(q) = UsedClaims(p) \cup {entry.claim}
<1> DEFINE n == Len(p.cycles)
           cs == Append(p.cycles, <<entry>>)
           q == [p EXCEPT !.cycles = Append(@, <<entry>>)]
<1> SUFFICES q \in Pools /\ q.length = p.length /\ UsedClaims(q) = UsedClaims(p) \cup {entry.claim}
  OBVIOUS
<1>1. p \in [length : Nat, cycles : Seq(Seq(Entries))] /\ BacksOne(p)
  BY DEF Pools
<1>2. n \in Nat /\ DOMAIN p.cycles = 1 .. n
  BY <1>1
<1>3. <<entry>> \in Seq(Entries) /\ Len(<<entry>>) = 1 /\ <<entry>>[1] = entry /\ DOMAIN <<entry>> = {1}
  OBVIOUS
<1>4. /\ cs \in Seq(Seq(Entries)) /\ Len(cs) = n + 1 /\ cs[n + 1] = <<entry>>
      /\ \A k \in 1 .. n : cs[k] = p.cycles[k]
  BY <1>1, <1>3
<1>50. q = [p EXCEPT !.cycles = cs]
  OBVIOUS
<1> HIDE DEF cs, q
<1>5. q = [length |-> p.length, cycles |-> cs]
  BY <1>1, <1>50
<1>6. q.length = p.length /\ q.cycles = cs /\ DOMAIN cs = 1 .. n + 1
  BY <1>2, <1>4, <1>5
<1>7. Grown(p, q, entry)
  <2>1. n + 1 \in DOMAIN q.cycles /\ 1 \in DOMAIN q.cycles[n + 1] /\ q.cycles[n + 1][1] = entry
    BY <1>2, <1>3, <1>4, <1>6
  <2>2. \A k \in DOMAIN p.cycles : k \in DOMAIN q.cycles /\ q.cycles[k] = p.cycles[k]
    BY <1>2, <1>4, <1>6
  <2>3. \A k \in DOMAIN q.cycles : \A i \in DOMAIN q.cycles[k] :
          (k = n + 1 /\ i = 1) \/ (k \in DOMAIN p.cycles /\ i \in DOMAIN p.cycles[k])
    <3> TAKE k \in DOMAIN q.cycles
    <3>1. CASE k = n + 1
      BY <1>3, <1>4, <1>6, <3>1
    <3>2. CASE k # n + 1
      BY <1>2, <1>4, <1>6, <3>2
    <3> QED BY <3>1, <3>2
  <2> HIDE DEF n
  <2> QED BY <2>1, <2>2, <2>3 DEF Grown
<1>8. InTurn(q)
  <2> SUFFICES ASSUME NEW k \in 1 .. n + 1
               PROVE  Len(cs[k]) \in 1 .. p.length /\ (k # n + 1 => Len(cs[k]) = p.length)
    BY <1>4, <1>6 DEF InTurn
  <2>1. p.length \in Nat \ {0}
    BY <1>1
  <2>2. ASSUME k = n + 1 PROVE Len(cs[k]) = 1
    BY <1>3, <1>4, <2>2
  <2>3. ASSUME k # n + 1 PROVE Len(cs[k]) = p.length
    <3>1. k \in 1 .. n
      BY <1>2, <2>3
    <3>2. cs[k] = p.cycles[k] /\ Len(p.cycles[k]) = p.length
      BY <1>4, <3>1
    <3> QED BY <3>2
  <2>4. 1 \in 1 .. p.length /\ p.length \in 1 .. p.length
    BY <2>1
  <2> HIDE DEF n
  <2>5. CASE k = n + 1
    BY <2>2, <2>4, <2>5
  <2>6. CASE k # n + 1
    BY <2>3, <2>4, <2>6
  <2> QED BY <2>5, <2>6
<1>9. BacksOne(q) /\ UsedClaims(q) = UsedClaims(p) \cup {entry.claim}
  BY <1>1, <1>7, GrownKeeps
<1>10. q \in [length : Nat, cycles : Seq(Seq(Entries))]
  BY <1>1, <1>4, <1>5
<1> QED BY <1>6, <1>8, <1>9, <1>10 DEF Pools

EntryAdded(p, n, entry) == [p EXCEPT !.cycles[n] = Append(@, entry)]

LEMMA AddEntry ==
  ASSUME NEW p \in Pools, NEW n, n = Len(p.cycles), n # 0, Len(p.cycles[n]) < p.length,
         NEW entry \in Entries, entry.claim \notin UsedClaims(p),
         NEW q, q = EntryAdded(p, n, entry)
  PROVE  q \in Pools /\ q.length = p.length /\ UsedClaims(q) = UsedClaims(p) \cup {entry.claim}
<1> DEFINE old == p.cycles[n]
           new == Append(old, entry)
           m == Len(old)
           cs == [p.cycles EXCEPT ![n] = new]
<1>1. p \in [length : Nat, cycles : Seq(Seq(Entries))] /\ InTurn(p) /\ BacksOne(p)
  BY DEF Pools
<1>2. n \in Nat /\ DOMAIN p.cycles = 1 .. n /\ n \in 1 .. n
  BY <1>1
<1>3. /\ old \in Seq(Entries) /\ m \in Nat /\ new \in Seq(Entries) /\ Len(new) = m + 1
      /\ new[m + 1] = entry /\ \A i \in 1 .. m : new[i] = old[i]
  BY <1>1, <1>2
<1>4. q = [p EXCEPT !.cycles = cs]
  BY DEF EntryAdded
<1> HIDE DEF new
<1>5. /\ cs \in [1 .. n -> Seq(Entries)] /\ cs[n] = new
      /\ \A k \in 1 .. n : k # n => cs[k] = p.cycles[k]
  BY <1>1, <1>2, <1>3
<1> HIDE DEF cs
<1>6. q = [length |-> p.length, cycles |-> cs]
  BY <1>1, <1>4
<1>7. cs \in Seq(Seq(Entries)) /\ Len(cs) = n
  BY <1>2, <1>5
<1>8. q.length = p.length /\ q.cycles = cs /\ DOMAIN cs = 1 .. n
  BY <1>5, <1>6
<1>9. DOMAIN old = 1 .. m /\ DOMAIN new = 1 .. m + 1
  BY <1>3
<1>10. Grown(p, q, entry)
  <2>1. n \in DOMAIN q.cycles /\ m + 1 \in DOMAIN q.cycles[n] /\ q.cycles[n][m + 1] = entry
    BY <1>2, <1>3, <1>5, <1>8, <1>9
  <2>2. ASSUME NEW k \in DOMAIN p.cycles
        PROVE  k \in DOMAIN q.cycles /\
                 \A i \in DOMAIN p.cycles[k] : i \in DOMAIN q.cycles[k] /\ q.cycles[k][i] = p.cycles[k][i]
    <3>1. CASE k = n
      <4>1. DOMAIN p.cycles[n] = 1 .. m
        BY <1>9
      <4>2. \A i \in 1 .. m : i \in 1 .. m + 1 /\ new[i] = old[i]
        BY <1>3
      <4>3. n \in DOMAIN q.cycles /\ q.cycles[n] = new
        BY <1>2, <1>5, <1>8
      <4> HIDE DEF m
      <4> QED BY <1>9, <3>1, <4>1, <4>2, <4>3
    <3>2. CASE k # n
      BY <1>2, <1>5, <1>8, <3>2
    <3> QED BY <3>1, <3>2
  <2>3. ASSUME NEW k \in DOMAIN q.cycles, NEW i \in DOMAIN q.cycles[k]
        PROVE  (k = n /\ i = m + 1) \/ (k \in DOMAIN p.cycles /\ i \in DOMAIN p.cycles[k])
    <3>1. CASE k = n
      BY <1>2, <1>3, <1>5, <1>8, <1>9, <3>1
    <3>2. CASE k # n
      BY <1>2, <1>5, <1>8, <3>2
    <3> QED BY <3>1, <3>2
  <2> HIDE DEF m, old
  <2> QED BY <2>1, <2>2, <2>3 DEF Grown
<1>11. InTurn(q)
  <2> SUFFICES ASSUME NEW k \in 1 .. n
               PROVE  Len(cs[k]) \in 1 .. p.length /\ (k # n => Len(cs[k]) = p.length)
    BY <1>7, <1>8 DEF InTurn
  <2>1. p.length \in Nat /\ Len(p.cycles[k]) \in 1 .. p.length /\ (k # n => Len(p.cycles[k]) = p.length)
    BY <1>1, <1>2 DEF InTurn
  <2>2. CASE k = n
    BY <1>3, <1>5, <2>1, <2>2
  <2>3. CASE k # n
    BY <1>5, <2>1, <2>3
  <2> QED BY <2>2, <2>3
<1>12. BacksOne(q) /\ UsedClaims(q) = UsedClaims(p) \cup {entry.claim}
  BY <1>1, <1>10, GrownKeeps
<1>13. q \in [length : Nat, cycles : Seq(Seq(Entries))]
  <2>1. p.length \in Nat
    BY <1>1
  <2> QED BY <1>6, <1>7, <2>1
<1> QED BY <1>8, <1>11, <1>12, <1>13 DEF Pools

\* What an event does to the pool: it starts it, counts in it, or does nothing.
Starts(p, q, id) ==
  /\ Type(id) = "pool-init" /\ p.length = 0
  /\ q = [length |-> content[id].payload.length, cycles |-> << >>]

Counts(p, q, id, claims) ==
  LET e == content[id].payload
  IN  /\ Type(id) = "pool-contribute" /\ Contributable(p, e, claims)
      /\ q.length = p.length /\ UsedClaims(q) = UsedClaims(p) \cup {e.claim}

Ignores(p, q, id, claims) ==
  /\ q = p
  /\ Type(id) = "pool-init" => p.length # 0
  /\ Type(id) = "pool-contribute" => ~ Contributable(p, content[id].payload, claims)

LEMMA ApplyPoolIs ==
  ASSUME ContentOK, NEW id \in DOMAIN content, NEW p \in Pools, NEW claims \in ClaimMaps
  PROVE  LET q == ApplyPool(p, id, claims)
         IN  q \in Pools /\ (Starts(p, q, id) \/ Counts(p, q, id, claims) \/ Ignores(p, q, id, claims))
<1> DEFINE e == content[id].payload
           q == ApplyPool(p, id, claims)
           k == OpenCycle(p)
           entry == [by |-> e.domain, claim |-> e.claim, amount |-> claims[e.claim].amount]
           Result == q \in Pools /\ (Starts(p, q, id) \/ Counts(p, q, id, claims) \/ Ignores(p, q, id, claims))
<1> SUFFICES Result
  OBVIOUS
<1>1. /\ e.domain \in Replicas /\ Type(id) = e.type
      /\ e.type = "pool-init" => e.length \in Nat \ {0}
      /\ e.type = "pool-contribute" => e.claim \in ClaimIds
  BY ContentFields
<1>2. CASE e.type = "pool-init" /\ p.length = 0
  <2>1. q = [p EXCEPT !.length = e.length]
    BY <1>2 DEF ApplyPool
  <2> HIDE DEF q
  <2>2. p \in [length : Nat, cycles : Seq(Seq(Entries))] /\ InTurn(p)
    BY DEF Pools
  <2>3. p.cycles = << >>
    <3>1. \A j \in DOMAIN p.cycles : FALSE
      BY <1>2, <2>2 DEF InTurn
    <3>2. Len(p.cycles) \in Nat /\ DOMAIN p.cycles = 1 .. Len(p.cycles)
      BY <2>2
    <3>3. Len(p.cycles) = 0
      <4>1. Len(p.cycles) # 0 => 1 \in DOMAIN p.cycles
        BY <3>2
      <4> QED BY <3>1, <4>1
    <3> QED BY <2>2, <3>3
  <2>4. q = [length |-> e.length, cycles |-> << >>]
    BY <2>1, <2>2, <2>3
  <2>5. q \in Pools
    BY <1>1, <1>2, <2>4 DEF Pools, InTurn, BacksOne
  <2> QED BY <1>1, <1>2, <2>4, <2>5 DEF Starts
<1>3. CASE e.type = "pool-contribute" /\ Contributable(p, e, claims)
  <2>1. q = IF k > Len(p.cycles) THEN [p EXCEPT !.cycles = Append(@, <<entry>>)]
            ELSE [p EXCEPT !.cycles[k] = Append(@, entry)]
    BY <1>3 DEF ApplyPool
  <2> HIDE DEF q
  <2>2. p.length # 0 /\ e.claim \notin UsedClaims(p) /\ e.claim \in DOMAIN claims
    BY <1>3 DEF Contributable
  <2>3. claims[e.claim] \in Claim
    BY <2>2, ClaimMapIs
  <2>4. entry \in Entries /\ entry.claim = e.claim
    BY <1>1, <1>3, <2>3 DEF Entries, Claim
  <2> HIDE DEF entry, k
  <2>5. /\ Len(p.cycles) \in Nat
        /\ \/ k = Len(p.cycles) + 1 /\ \A j \in 1 .. Len(p.cycles) : Len(p.cycles[j]) = p.length
           \/ k = Len(p.cycles) /\ Len(p.cycles) # 0 /\ Len(p.cycles[Len(p.cycles)]) < p.length
    BY <2>2, OpenCycleIs DEF k
  <2>6. q \in Pools /\ q.length = p.length /\ UsedClaims(q) = UsedClaims(p) \cup {entry.claim}
    <3>1. CASE k = Len(p.cycles) + 1 /\ \A j \in 1 .. Len(p.cycles) : Len(p.cycles[j]) = p.length
      <4>1. q = [p EXCEPT !.cycles = Append(@, <<entry>>)]
        BY <2>1, <2>5, <3>1
      <4> QED BY <2>2, <2>4, <3>1, <4>1, AddCycle
    <3>2. CASE k = Len(p.cycles) /\ Len(p.cycles) # 0 /\ Len(p.cycles[Len(p.cycles)]) < p.length
      <4>1. q = EntryAdded(p, k, entry)
        <5>1. ~ (k > Len(p.cycles))
          BY <2>5, <3>2
        <5> QED BY <2>1, <5>1 DEF EntryAdded
      <4>2. k # 0 /\ Len(p.cycles[k]) < p.length
        BY <3>2
      <4> QED BY <2>2, <2>4, <3>2, <4>1, <4>2, AddEntry
    <3> QED BY <2>5, <3>1, <3>2
  <2> QED BY <1>1, <1>3, <2>4, <2>6 DEF Counts
<1>4. CASE /\ ~ (e.type = "pool-init" /\ p.length = 0)
           /\ ~ (e.type = "pool-contribute" /\ Contributable(p, e, claims))
  <2>1. q = p
    BY <1>4 DEF ApplyPool
  <2> HIDE DEF q
  <2> QED BY <1>1, <1>4, <2>1 DEF Ignores
<1> QED BY <1>2, <1>3, <1>4

\* p is the pool after each of the events.
PoolAlong(order, claims, p) ==
  /\ p \in [0 .. Len(order) -> Pools]
  /\ p[0] = InitialPool
  /\ \A i \in 1 .. Len(order) : p[i] = ApplyPool(p[i - 1], order[i], claims)

LEMMA InitialPoolIs == InitialPool \in Pools
  BY DEF InitialPool, Pools, InTurn, BacksOne

LEMMA PoolFoldIs ==
  ASSUME ContentOK, NEW claims \in ClaimMaps, NEW order, Len(order) \in Nat,
         \A i \in 1 .. Len(order) : order[i] \in DOMAIN content
  PROVE  \E p : PoolAlong(order, claims, p) /\ MaterializePool(order, claims) = p[Len(order)]
<1> DEFINE n == Len(order)
           step == [i \in 1 .. n |-> [x \in Pools |-> ApplyPool(x, order[i], claims)]]
           Right(x) == x = [i \in 0 .. n |-> IF i = 0 THEN InitialPool
                                             ELSE ApplyPool(x[i - 1], order[i], claims)]
           st == CHOOSE f : Right(f)
<1>1. Steps(step, n, Pools)
  <2> SUFFICES ASSUME NEW i \in 1 .. n, NEW x \in Pools PROVE step[i][x] \in Pools
    BY DEF Steps
  <2>1. ApplyPool(x, order[i], claims) \in Pools
    BY ApplyPoolIs
  <2> QED BY <2>1
<1>2. PICK f \in [0 .. n -> Pools] :
        f[0] = InitialPool /\ \A i \in 1 .. n : f[i] = step[i][f[i - 1]]
  <2> HIDE DEF step
  <2> QED BY <1>1, InitialPoolIs, FoldExists
<1>3. \A i \in 1 .. n : f[i] = ApplyPool(f[i - 1], order[i], claims)
  <2> TAKE i \in 1 .. n
  <2>1. f[i - 1] \in Pools
    OBVIOUS
  <2>2. f[i] = step[i][f[i - 1]]
    BY <1>2
  <2> QED BY <2>1, <2>2
<1>4. Right(f)
  <2>1. \A i \in 0 .. n : f[i] = IF i = 0 THEN InitialPool ELSE ApplyPool(f[i - 1], order[i], claims)
    BY <1>2, <1>3
  <2> QED BY <2>1
<1>5. Right(st)
  <2> HIDE DEF Right
  <2> QED BY <1>4
<1>6. MaterializePool(order, claims) = st[n]
  BY DEF MaterializePool
<1> HIDE DEF st
<1>7. st[0] = InitialPool /\ DOMAIN st = 0 .. n
      /\ \A i \in 1 .. n : st[i] = ApplyPool(st[i - 1], order[i], claims)
  BY <1>5
<1>8. \A i \in 0 .. n : st[i] \in Pools
  <2>1. st[0] \in Pools
    BY <1>7, InitialPoolIs
  <2>2. \A i \in 1 .. n : st[i - 1] \in Pools => st[i] \in Pools
    BY <1>7, ApplyPoolIs
  <2> QED BY <2>1, <2>2, FoldKeeps
<1>9. st \in [0 .. n -> Pools]
  BY <1>5, <1>7, <1>8
<1> QED BY <1>6, <1>7, <1>9 DEF PoolAlong

-----------------------------------------------------------------------------
(* What a replica sees                                                     *)

\* What releases are checked against.
View(r) == [verifies |-> TRUE, pool |-> PoolView(r), condition |-> MaterializeContract(TopoOrder(r)),
            known |-> dag[r]]

\* What the first pass has instead.
NoViews == [verifies |-> FALSE]

LEMMA OrderIs ==
  ASSUME DagInv, NEW r \in Replicas
  PROVE  /\ Ordered(TopoOrder(r), dag[r]) /\ Len(TopoOrder(r)) \in Nat
         /\ \A i \in 1 .. Len(TopoOrder(r)) : TopoOrder(r)[i] \in dag[r] /\ TopoOrder(r)[i] \in DOMAIN content
<1>1. Ordered(TopoOrder(r), dag[r])
  BY ViewOrder
<1> HIDE DEF TopoOrder
<1> QED BY <1>1 DEF Ordered

LEMMA ProvisionalIs ==
  ASSUME DagInv, ContentOK, NEW r \in Replicas
  PROVE  \E s : /\ Along(TopoOrder(r), NoViews, s) /\ Provisional(TopoOrder(r)) = s[Len(TopoOrder(r))]
                /\ \A i \in 0 .. Len(TopoOrder(r)) :
                     s[i] \in States /\ s[i].claims \in ClaimMaps /\ Sound(TopoOrder(r), i, NoViews, s[i])
<1> DEFINE order == TopoOrder(r)
<1>1. Ordered(order, dag[r]) /\ Len(order) \in Nat /\ \A i \in 1 .. Len(order) : order[i] \in DOMAIN content
  BY OrderIs
<1> HIDE DEF order
<1>2. PICK s : Along(order, NoViews, s) /\ FoldConservation(order, NoViews) = s[Len(order)]
  BY <1>1, FoldIs
<1>3. \A i \in 0 .. Len(order) : s[i] \in States /\ Sound(order, i, NoViews, s[i])
  BY <1>1, <1>2, SoundViews
<1>4. \A i \in 0 .. Len(order) : s[i].claims \in ClaimMaps
  BY <1>3 DEF States
<1>5. Provisional(order) = s[Len(order)]
  BY <1>2 DEF Provisional, NoViews
<1> QED BY <1>2, <1>3, <1>4, <1>5 DEF order

LEMMA ConservationIs ==
  ASSUME DagInv, ContentOK, NEW r \in Replicas
  PROVE  \E s : /\ Along(TopoOrder(r), View(r), s) /\ Conservation(r) = s[Len(TopoOrder(r))]
                /\ \A i \in 0 .. Len(TopoOrder(r)) :
                     s[i] \in States /\ s[i].claims \in ClaimMaps /\ Sound(TopoOrder(r), i, View(r), s[i])
<1> DEFINE order == TopoOrder(r)
           v == View(r)
<1>0. Conservation(r) = FoldConservation(order, v)
  BY DEF Conservation, View, PoolView
<1>1. Ordered(order, dag[r]) /\ Len(order) \in Nat /\ \A i \in 1 .. Len(order) : order[i] \in DOMAIN content
  BY OrderIs
<1> HIDE DEF order, v
<1>2. PICK s : Along(order, v, s) /\ FoldConservation(order, v) = s[Len(order)]
  BY <1>1, FoldIs
<1>3. \A i \in 0 .. Len(order) : s[i] \in States /\ Sound(order, i, v, s[i])
  BY <1>1, <1>2, SoundViews
<1>4. \A i \in 0 .. Len(order) : s[i].claims \in ClaimMaps
  BY <1>3 DEF States
<1> QED BY <1>0, <1>2, <1>3, <1>4 DEF order, v

\* A replica's claims, without the way there.
LEMMA ClaimsAre ==
  ASSUME DagInv, ContentOK, NEW r \in Replicas
  PROVE  LET s == Conservation(r)
         IN  /\ s \in States /\ s.order \in Seq(ClaimIds)
             /\ \A c \in DOMAIN s.claims :
                  /\ c \in ClaimIds /\ c # << >> /\ c[1] \in Replicas
                  /\ s.claims[c].owner = c[Len(c)] /\ s.claims[c].amount = plugin.purse[c[1]]
<1> DEFINE order == TopoOrder(r)
<1>1. PICK s : /\ Conservation(r) = s[Len(order)]
               /\ \A i \in 0 .. Len(order) :
                     s[i] \in States /\ s[i].claims \in ClaimMaps /\ Sound(order, i, View(r), s[i])
  BY ConservationIs
<1>2. Len(order) \in Nat
  BY OrderIs
<1> HIDE DEF order
<1>3. s[Len(order)] \in States /\ s[Len(order)].claims \in ClaimMaps /\ Sound(order, Len(order), View(r), s[Len(order)])
  BY <1>1, <1>2
<1>4. \A c \in DOMAIN s[Len(order)].claims : c \in ClaimIds /\ Traced(order, Len(order), View(r), s[Len(order)], c)
  BY <1>3, ClaimMapIs DEF Sound
<1>5. s[Len(order)].order \in Seq(ClaimIds)
  BY <1>3 DEF States
<1> QED BY <1>1, <1>3, <1>4, <1>5 DEF Traced

LEMMA PoolViewIs ==
  ASSUME DagInv, ContentOK, NEW r \in Replicas
  PROVE  /\ Provisional(TopoOrder(r)) \in States /\ Provisional(TopoOrder(r)).claims \in ClaimMaps
         /\ \E p : /\ PoolAlong(TopoOrder(r), Provisional(TopoOrder(r)).claims, p)
                   /\ PoolView(r) = p[Len(TopoOrder(r))]
         /\ PoolView(r) \in Pools
<1> DEFINE order == TopoOrder(r)
           claims == Provisional(order).claims
<1>1. Len(order) \in Nat /\ \A i \in 1 .. Len(order) : order[i] \in DOMAIN content
  BY OrderIs
<1>2. PoolView(r) = MaterializePool(order, claims)
  BY DEF PoolView
<1>3. Provisional(order) \in States /\ claims \in ClaimMaps
  <2>1. PICK s : /\ Provisional(order) = s[Len(order)]
                 /\ \A i \in 0 .. Len(order) : s[i] \in States /\ s[i].claims \in ClaimMaps
    BY ProvisionalIs
  <2> HIDE DEF order
  <2> QED BY <1>1, <2>1
<1> HIDE DEF order, claims
<1>4. PICK p : PoolAlong(order, claims, p) /\ MaterializePool(order, claims) = p[Len(order)]
  BY <1>1, <1>3, PoolFoldIs
<1>5. p[Len(order)] \in Pools
  BY <1>1, <1>4 DEF PoolAlong
<1> QED BY <1>2, <1>3, <1>4, <1>5 DEF order, claims

(* The pool is the plugin's, once there is one; what backs a contribution  *)
(* was named by one, and one that comes after the pool and names a claim   *)
(* of the pot counts.                                                      *)
PoolSound(order, i, claims, p) ==
  /\ p.length # 0 => plugin.name # "escrow" /\ p.length = plugin.length
  /\ (\E j \in 1 .. i : Type(order[j]) = "pool-init") => p.length # 0
  /\ \A c \in UsedClaims(p) :
       \E j \in 1 .. i : Type(order[j]) = "pool-contribute" /\ content[order[j]].payload.claim = c
  /\ \A j \in 1 .. i :
       LET c == content[order[j]].payload.claim
       IN  Type(order[j]) = "pool-contribute" /\ c \in DOMAIN claims /\ claims[c].owner = Pot
             /\ (\E h \in 1 .. j - 1 : Type(order[h]) = "pool-init")
               => c \in UsedClaims(p)

LEMMA PoolStepSound ==
  ASSUME ContentOK, NEW order, NEW i \in Nat \ {0}, order[i] \in DOMAIN content, NEW claims \in ClaimMaps,
         NEW p \in Pools, PoolSound(order, i - 1, claims, p)
  PROVE  PoolSound(order, i, claims, ApplyPool(p, order[i], claims))
<1> DEFINE q == ApplyPool(p, order[i], claims)
           id == order[i]
           Named(c, j) == Type(order[j]) = "pool-contribute" /\ content[order[j]].payload.claim = c
           Backs(j) == LET c == content[order[j]].payload.claim
                      IN  Type(order[j]) = "pool-contribute" /\ c \in DOMAIN claims /\ claims[c].owner = Pot
                            /\ (\E h \in 1 .. j - 1 : Type(order[h]) = "pool-init")
<1> SUFFICES PoolSound(order, i, claims, q)
  OBVIOUS
<1>1. q \in Pools /\ (Starts(p, q, id) \/ Counts(p, q, id, claims) \/ Ignores(p, q, id, claims))
  BY ApplyPoolIs
<1>2. Type(id) = "pool-init" => /\ plugin.name # "escrow" /\ content[id].payload.length = plugin.length
                                /\ content[id].payload.length # 0
  BY ContentFields DEF Follows, Says
<1>3. \A j \in 1 .. i : j \in 1 .. i - 1 \/ j = i
  OBVIOUS
<1>4. \A j \in 1 .. i - 1 : j \in 1 .. i
  OBVIOUS
<1> HIDE DEF q
<1>5. q.length # 0 => plugin.name # "escrow" /\ q.length = plugin.length
  BY <1>1, <1>2 DEF PoolSound, Starts, Counts, Ignores
<1>6. ASSUME NEW j \in 1 .. i, Type(order[j]) = "pool-init" PROVE q.length # 0
  <2>1. CASE j \in 1 .. i - 1
    <3>1. p.length # 0
      BY <1>6, <2>1 DEF PoolSound
    <3> QED BY <1>1, <3>1 DEF Starts, Counts, Ignores
  <2>2. CASE j = i
    BY <1>1, <1>2, <1>6, <2>2 DEF Starts, Counts, Ignores
  <2> QED BY <1>3, <2>1, <2>2
<1>7. UsedClaims(p) \subseteq UsedClaims(q)
  <2>1. CASE Starts(p, q, id)
    <3>1. p.length = 0 /\ p \in [length : Nat, cycles : Seq(Seq(Entries))] /\ InTurn(p)
      BY <2>1 DEF Starts, Pools
    <3>2. \A k \in DOMAIN p.cycles : FALSE
      BY <3>1 DEF InTurn
    <3> QED BY <3>2, UsedIs
  <2> QED BY <1>1, <2>1 DEF Counts, Ignores
<1>8. ASSUME NEW c \in UsedClaims(q) PROVE \E j \in 1 .. i : Named(c, j)
  <2>1. CASE c \in UsedClaims(p)
    <3>1. PICK j \in 1 .. i - 1 : Named(c, j)
      BY <2>1 DEF PoolSound
    <3> QED BY <1>4, <3>1
  <2>2. CASE c \notin UsedClaims(p)
    <3>1. Named(c, i)
      <4>1. CASE Starts(p, q, id)
        <5>1. q.cycles = << >>
          BY <4>1 DEF Starts
        <5> QED BY <1>8, <5>1, UsedIs
      <4> QED BY <1>1, <1>8, <2>2, <4>1 DEF Counts, Ignores
    <3>2. i \in 1 .. i
      OBVIOUS
    <3> QED BY <3>1, <3>2
  <2> QED BY <2>1, <2>2
<1>9. ASSUME NEW j \in 1 .. i, Backs(j) PROVE content[order[j]].payload.claim \in UsedClaims(q)
  <2>1. CASE j \in 1 .. i - 1
    BY <1>7, <1>9, <2>1 DEF PoolSound
  <2>2. CASE j = i
    <3>1. p.length # 0
      BY <1>9, <2>2 DEF PoolSound
    <3>2. CASE content[id].payload.claim \in UsedClaims(p)
      BY <1>7, <2>2, <3>2
    <3>3. CASE content[id].payload.claim \notin UsedClaims(p)
      <4>1. Contributable(p, content[id].payload, claims)
        BY <1>9, <2>2, <3>1, <3>3 DEF Contributable
      <4> QED BY <1>1, <1>9, <2>2, <3>1, <4>1 DEF Starts, Counts, Ignores
    <3> QED BY <3>2, <3>3
  <2> QED BY <1>3, <2>1, <2>2
<1> QED BY <1>5, <1>6, <1>8, <1>9 DEF PoolSound

LEMMA PoolViewSound ==
  ASSUME DagInv, ContentOK, NEW r \in Replicas
  PROVE  /\ PoolSound(TopoOrder(r), Len(TopoOrder(r)), Provisional(TopoOrder(r)).claims, PoolView(r))
         /\ PoolView(r).cycles # << >> => plugin.name # "escrow" /\ PoolView(r).length = plugin.length
<1> DEFINE order == TopoOrder(r)
           claims == Provisional(order).claims
           n == Len(order)
<1>1. n \in Nat /\ \A i \in 1 .. n : order[i] \in DOMAIN content
  BY OrderIs
<1>2. claims \in ClaimMaps /\ PoolView(r) \in Pools
  BY PoolViewIs
<1>3. PICK p : PoolAlong(order, claims, p) /\ PoolView(r) = p[n]
  BY PoolViewIs
<1> HIDE DEF order, claims
<1> DEFINE S == {i \in 0 .. n : PoolSound(order, i, claims, p[i])}
<1>4. 0 \in S
  <2>1. p[0].length = 0 /\ p[0].cycles = << >>
    BY <1>3 DEF PoolAlong, InitialPool
  <2>2. UsedClaims(p[0]) = {}
    BY <2>1, UsedIs
  <2> QED BY <1>1, <2>1, <2>2 DEF PoolSound
<1>5. ASSUME NEW i \in 0 .. (n - 1), i \in S PROVE i + 1 \in S
  <2>1. PICK k : k = i + 1
    OBVIOUS
  <2>2. k \in 1 .. n /\ k \in 0 .. n /\ k \in Nat \ {0} /\ k - 1 = i
    BY <1>1, <2>1
  <2>3. p[k] = ApplyPool(p[i], order[k], claims) /\ p[i] \in Pools /\ order[k] \in DOMAIN content
    BY <1>1, <1>3, <2>2 DEF PoolAlong
  <2>4. PoolSound(order, k - 1, claims, p[i])
    BY <1>5, <2>2
  <2>5. PoolSound(order, k, claims, p[k])
    BY <1>2, <2>2, <2>3, <2>4, PoolStepSound
  <2> QED BY <2>1, <2>2, <2>5
<1>6. 0 .. n \subseteq S
  <2> HIDE DEF S, n
  <2> QED BY <1>1, <1>4, <1>5, Induction
<1>7. PoolSound(order, n, claims, PoolView(r))
  <2>1. n \in S
    BY <1>1, <1>6
  <2> QED BY <1>3, <2>1
<1>8. ASSUME PoolView(r).cycles # << >> PROVE PoolView(r).length # 0
  <2> SUFFICES ASSUME PoolView(r).length = 0 PROVE FALSE
    OBVIOUS
  <2>1. PoolView(r).cycles \in Seq(Seq(Entries)) /\ InTurn(PoolView(r))
    BY <1>2 DEF Pools
  <2>2. Len(PoolView(r).cycles) # 0 /\ Len(PoolView(r).cycles) \in Nat
    BY <1>8, <2>1
  <2>3. 1 \in DOMAIN PoolView(r).cycles
    BY <2>1, <2>2
  <2>4. Len(PoolView(r).cycles[1]) \in 1 .. 0
    BY <2>1, <2>3 DEF InTurn
  <2> QED BY <2>4
<1> QED BY <1>7, <1>8 DEF order, claims, PoolSound

(* The draw *)

LEMMA Tickets == \A a \in Nat : a \div Unit \in Nat
  BY PoolAssumption

\* The draw takes one of the contributors, or no one.
LEMMA DrawIs ==
  ASSUME HashIsNumber, NEW k \in Nat \ {0}, NEW cs \in Seq(Entries)
  PROVE  ComputeWeightedDraw(k, cs) \in Replicas \cup {None}
<1> DEFINE n == Len(cs)
           step == [i \in 1 .. n |-> [x \in Nat |-> x + cs[i].amount \div Unit]]
           Right(x) == x = [i \in 0 .. n |-> IF i = 0 THEN 0 ELSE x[i - 1] + cs[i].amount \div Unit]
           end == CHOOSE f : Right(f)
           winning == DrawHash(k, cs) % end[n]
           Won(i) == end[i - 1] <= winning /\ winning < end[i]
<1>1. n \in Nat /\ DOMAIN cs = 1 .. n /\ \A i \in 1 .. n : cs[i] \in Entries
  OBVIOUS
<1>2. \A i \in 1 .. n : cs[i].by \in Replicas /\ cs[i].amount \div Unit \in Nat
  <2> TAKE i \in 1 .. n
  <2>1. cs[i] \in [by : Replicas, claim : ClaimIds, amount : Nat]
    BY <1>1 DEF Entries
  <2> QED BY <2>1, Tickets
<1>3. ComputeWeightedDraw(k, cs) = IF end[n] = 0 THEN None ELSE cs[CHOOSE i \in DOMAIN cs : Won(i)].by
  BY DEF ComputeWeightedDraw
<1>4. Steps(step, n, Nat)
  BY <1>2 DEF Steps
<1>5. PICK f \in [0 .. n -> Nat] : f[0] = 0 /\ \A i \in 1 .. n : f[i] = step[i][f[i - 1]]
  <2> DEFINE none == 0
             V == Nat
  <2>1. none \in V /\ n \in Nat /\ Steps(step, n, V)
    BY <1>1, <1>4
  <2> HIDE DEF step, n, none, V
  <2>2. \E f \in [0 .. n -> V] : f[0] = none /\ \A i \in 1 .. n : f[i] = step[i][f[i - 1]]
    BY <2>1, FoldExists
  <2> QED BY <2>2 DEF none, V
<1>6. \A i \in 1 .. n : f[i - 1] \in Nat /\ f[i] = f[i - 1] + cs[i].amount \div Unit
  <2> TAKE i \in 1 .. n
  <2>1. f[i - 1] \in Nat
    BY <1>1, <1>5
  <2>2. f[i] = step[i][f[i - 1]]
    BY <1>5
  <2> QED BY <2>1, <2>2
<1> HIDE DEF n
<1>7. Right(f)
  <2>1. \A i \in 0 .. n : f[i] = IF i = 0 THEN 0 ELSE f[i - 1] + cs[i].amount \div Unit
    BY <1>1, <1>5, <1>6
  <2> QED BY <1>5, <2>1
<1>8. Right(end)
  <2> HIDE DEF Right
  <2> QED BY <1>7
<1> HIDE DEF end, step
<1>9. end[0] = 0 /\ \A i \in 1 .. n : end[i] = end[i - 1] + cs[i].amount \div Unit
  BY <1>1, <1>8
<1>10. \A i \in 0 .. n : end[i] \in Nat
  <2>1. end[0] \in Nat
    BY <1>9
  <2>2. \A i \in 1 .. n : end[i - 1] \in Nat => end[i] \in Nat
    BY <1>2, <1>9
  <2> QED BY <1>1, <2>1, <2>2, FoldKeeps
<1>11. ASSUME end[n] # 0 PROVE \E i \in DOMAIN cs : Won(i)
  <2>1. end[n] \in Nat \ {0} /\ DrawHash(k, cs) \in Nat
    <3>1. DrawHash(k, cs) \in Nat
      BY DEF HashIsNumber, Entries
    <3> QED BY <1>1, <1>10, <1>11, <3>1
  <2>2. winning \in 0 .. end[n] - 1
    <3>1. \A a \in Nat, b \in Nat \ {0} : a % b \in 0 .. b - 1
      OBVIOUS
    <3> QED BY <2>1, <3>1
  <2> HIDE DEF winning
  <2>3. n \in {i \in 0 .. n : winning < end[i]}
    BY <1>1, <2>1, <2>2
  <2> DEFINE i == Least({j \in 0 .. n : winning < end[j]})
  <2>4. i \in 0 .. n /\ winning < end[i] /\ \A j \in 0 .. n : winning < end[j] => i <= j
    <3> DEFINE S == {j \in 0 .. n : winning < end[j]}
    <3>1. S \subseteq 0 .. n /\ S \in SUBSET Nat /\ S # {}
      BY <1>1, <2>3
    <3>2. \A j : j \in S <=> j \in 0 .. n /\ winning < end[j]
      OBVIOUS
    <3> HIDE DEF S
    <3>3. Least(S) \in S /\ \A j \in S : Least(S) <= j
      BY <3>1, LeastOf
    <3>4. i = Least(S)
      BY DEF S
    <3> QED BY <3>2, <3>3, <3>4
  <2> HIDE DEF i
  <2>5. i # 0
    BY <1>9, <2>2, <2>4
  <2>6. i \in 1 .. n /\ i - 1 \in 0 .. n /\ ~ (i <= i - 1)
    BY <1>1, <2>4, <2>5
  <2>7. end[i - 1] <= winning
    BY <1>10, <2>2, <2>4, <2>6
  <2> QED BY <1>1, <2>4, <2>6, <2>7
<1> DEFINE i == CHOOSE j \in DOMAIN cs : Won(j)
<1>12. ASSUME end[n] # 0 PROVE i \in DOMAIN cs
  <2> HIDE DEF Won
  <2> QED BY <1>11, <1>12
<1> HIDE DEF i
<1>13. end[n] # 0 => cs[i].by \in Replicas
  BY <1>1, <1>2, <1>12
<1> QED BY <1>3, <1>13 DEF i

(* Cycles *)

LEMMA CyclesExact == DagInv /\ ContentOK => CyclesAreExact
<1> SUFFICES ASSUME DagInv, ContentOK, NEW r \in Replicas
             PROVE  LET p == PoolView(r)
                    IN  /\ \A k \in DOMAIN p.cycles :
                             Len(p.cycles[k]) = p.length \/ (k = Len(p.cycles) /\ Len(p.cycles[k]) < p.length)
                        /\ \A j, k \in DOMAIN p.cycles : \A m \in DOMAIN p.cycles[j], n \in DOMAIN p.cycles[k] :
                             p.cycles[j][m].claim = p.cycles[k][n].claim => j = k /\ m = n
  BY DEF CyclesAreExact
<1> DEFINE p == PoolView(r)
<1>1. p \in [length : Nat, cycles : Seq(Seq(Entries))] /\ InTurn(p) /\ BacksOne(p)
  BY PoolViewIs DEF Pools
<1> HIDE DEF p
<1>2. ASSUME NEW k \in DOMAIN p.cycles
      PROVE  Len(p.cycles[k]) = p.length \/ (k = Len(p.cycles) /\ Len(p.cycles[k]) < p.length)
  BY <1>1 DEF InTurn
<1> QED BY <1>1, <1>2 DEF p, BacksOne

-----------------------------------------------------------------------------
(* Posts                                                                   *)

\* id is the new event of a post of r.
NewEvent(r, payload, id) ==
  /\ id \in Ids \ DOMAIN content /\ DOMAIN content' = DOMAIN content \cup {id}
  /\ \A i \in DOMAIN content : content'[i] = content[i]
  /\ content' = [i \in DOMAIN content' |-> content'[i]]
  /\ content'[id] = [parents |-> {lastEventId[r]}, payload |-> payload]
  /\ dag'[r] = dag[r] \cup {id} /\ \A s \in Replicas \ {r} : dag'[s] = dag[s]
  /\ lastEventId' = [lastEventId EXCEPT ![r] = id] /\ plugin' = plugin

LEMMA PostIs ==
  ASSUME BaseInv, NEW r \in Replicas, NEW payload, payload.domain = r, Post(r, payload)
  PROVE  DagInv' /\ \E id : NewEvent(r, payload, id)
<1> DEFINE e == [parents |-> {lastEventId[r]}, payload |-> payload]
<1>1. /\ DagInv /\ lastEventId[r] \in dag[r]
      /\ \A id \in DOMAIN content : Domain(id) = r => lastEventId[r] \notin Parents(id)
  BY DEF BaseInv, TipsOK, TipOK
<1>2. PICK id \in Ids :
        Insert(r, e, id) /\ lastEventId' = [lastEventId EXCEPT ![r] = id] /\ plugin' = plugin
  BY DEF Post
<1>3. e.parents = {lastEventId[r]} /\ e.payload = payload
  OBVIOUS
<1>4. e \notin {content[i] : i \in DOMAIN content}
  <2> SUFFICES ASSUME NEW i \in DOMAIN content, content[i] = e PROVE FALSE
    OBVIOUS
  <2>1. Domain(i) = r /\ lastEventId[r] \in Parents(i)
    BY <1>3 DEF Domain, Parents
  <2> QED BY <1>1, <2>1
<1> HIDE DEF e
<1>5. id \notin DOMAIN content
  <2>1. DOMAIN content \in SUBSET Ids
    BY <1>1 DEF DagInv
  <2>2. NewIds(DOMAIN content) \subseteq Ids \ DOMAIN content
    BY <2>1, DagAssumption
  <2> QED BY <1>2, <1>4, <2>2 DEF Insert, HashIs
<1>6. /\ id \in Ids /\ DOMAIN content' = DOMAIN content \cup {id}
      /\ \A i \in DOMAIN content : content'[i] = content[i]
      /\ content'[id] = e
  BY <1>1, <1>2, HashFacts DEF Insert
<1>7. DagInv' /\ dag'[r] = dag[r] \cup {id} /\ \A s \in Replicas \ {r} : dag'[s] = dag[s]
  BY <1>1, <1>2, <1>3, InsertDag
<1>8. content' = [i \in DOMAIN content' |-> content'[i]]
  <2>1. \E D, f : content' = [i \in D |-> f[i]]
    <3> DEFINE f == [i \in DOMAIN content \cup {id} |-> IF i \in DOMAIN content THEN content[i] ELSE e]
    <3>1. content' = f /\ f = [i \in DOMAIN f |-> f[i]]
      BY <1>2 DEF Insert, HashIs
    <3> HIDE DEF f
    <3> QED BY <3>1
  <2> QED BY <2>1
<1>9. NewEvent(r, payload, id)
  BY <1>2, <1>5, <1>6, <1>7, <1>8 DEF NewEvent, e
<1> QED BY <1>7, <1>9

\* What was said before is said still.
LEMMA OldEvents ==
  ASSUME NEW r \in Replicas, NEW payload, NEW id, NewEvent(r, payload, id)
  PROVE  /\ \A i \in DOMAIN content :
              /\ i \in DOMAIN content' /\ i # id
              /\ Type(i)' = Type(i) /\ Domain(i)' = Domain(i) /\ Parents(i)' = Parents(i)
              /\ content'[i] = content[i]
         /\ \A i \in DOMAIN content' : i \in DOMAIN content \/ i = id
         /\ Type(id)' = payload.type /\ Domain(id)' = payload.domain /\ Parents(id)' = {lastEventId[r]}
         /\ content'[id].payload = payload /\ id \in DOMAIN content'
<1>1. content'[id].payload = payload /\ content'[id].parents = {lastEventId[r]} /\ id \in DOMAIN content'
  BY DEF NewEvent
<1>2. \A i \in DOMAIN content : i \in DOMAIN content' /\ i # id /\ content'[i] = content[i]
  BY DEF NewEvent
<1>3. \A i \in DOMAIN content' : i \in DOMAIN content \/ i = id
  BY DEF NewEvent
<1>4. \A i : Type(i)' = content'[i].payload.type /\ Domain(i)' = content'[i].payload.domain
             /\ Parents(i)' = content'[i].parents
  BY DEF Type, Domain, Parents
<1>5. \A i : Type(i) = content[i].payload.type /\ Domain(i) = content[i].payload.domain
             /\ Parents(i) = content[i].parents
  BY DEF Type, Domain, Parents
<1> QED BY <1>1, <1>2, <1>3, <1>4, <1>5

LEMMA PostKeeps ==
  ASSUME BaseInv, NEW r \in Replicas, NEW payload \in Payload, payload.domain = r,
         Says(payload, lastEventId[r]), NEW id, NewEvent(r, payload, id)
  PROVE  /\ ContentOK' /\ TipsOK'
         /\ \A s \in Replicas \ {r} : doing'[s] = doing[s] => DoingOK(s)'
<1> PICK tip : tip = lastEventId[r]
  OBVIOUS
<1>1. DagInv /\ ContentOK /\ TipsOK /\ \A s \in Replicas : DoingOK(s)
  BY DEF BaseInv
<1>2. /\ tip \in dag[r] /\ tip \in DOMAIN content /\ Domain(tip) = r /\ tip \in Ids
      /\ \A i \in DOMAIN content : Domain(i) = r => i \in dag[r] /\ tip \notin Parents(i)
  BY <1>1 DEF TipsOK, TipOK, DagInv
<1>3. /\ id \in Ids \ DOMAIN content /\ DOMAIN content' = DOMAIN content \cup {id}
      /\ content'[id] = [parents |-> {tip}, payload |-> payload]
      /\ dag'[r] = dag[r] \cup {id} /\ \A s \in Replicas \ {r} : dag'[s] = dag[s]
      /\ lastEventId' = [lastEventId EXCEPT ![r] = id] /\ plugin' = plugin
  BY DEF NewEvent
<1>4. /\ \A i \in DOMAIN content :
              /\ i \in DOMAIN content' /\ i # id
              /\ Type(i)' = Type(i) /\ Domain(i)' = Domain(i) /\ Parents(i)' = Parents(i)
              /\ content'[i] = content[i]
      /\ \A i \in DOMAIN content' : i \in DOMAIN content \/ i = id
      /\ Type(id)' = payload.type /\ Domain(id)' = r /\ Parents(id)' = {tip}
      /\ content'[id].payload = payload /\ id \in DOMAIN content'
  BY OldEvents
<1>5. ContentOK'
  <2>1. content' \in [DOMAIN content' -> Event(Payload)]
    <3>1. content'[id] \in Event(Payload)
      BY <1>2, <1>3 DEF Event
    <3>2. \A i \in DOMAIN content' : content'[i] \in Event(Payload)
      BY <1>1, <1>4, <3>1 DEF ContentOK
    <3>3. content' = [i \in DOMAIN content' |-> content'[i]]
      BY DEF NewEvent
    <3> QED BY <3>2, <3>3
  <2>2. \A i \in DOMAIN content' :
          IF Type(i)' = "claim-issue" THEN Begins(i)' ELSE \E p \in DOMAIN content' : Follows(i, p)'
    <3> TAKE i \in DOMAIN content'
    <3>1. CASE i = id
      <4>1. Says(payload, tip)'
        BY <1>2, <1>3, <1>4 DEF Says
      <4>2. Follows(id, tip)'
        BY <1>2, <1>4, <4>1 DEF Follows
      <4> QED BY <1>2, <1>4, <3>1, <4>2 DEF Says
    <3>2. CASE i # id
      <4>1. i \in DOMAIN content
        BY <1>4, <3>2
      <4>2. CASE Type(i) = "claim-issue"
        BY <1>1, <1>3, <1>4, <4>1, <4>2 DEF ContentOK, Begins
      <4>3. CASE Type(i) # "claim-issue"
        <5>1. PICK p \in DOMAIN content : Follows(i, p)
          BY <1>1, <4>1, <4>3 DEF ContentOK
        <5>2. Says(content[i].payload, p)'
          BY <1>3, <1>4, <4>1, <5>1 DEF Follows, Says
        <5>3. Follows(i, p)'
          BY <1>4, <4>1, <5>1, <5>2 DEF Follows
        <5> QED BY <1>4, <4>1, <4>3, <5>3
      <4> QED BY <4>2, <4>3
    <3> QED BY <3>1, <3>2
  <2>3. \A i, j \in DOMAIN content' : Domain(i)' = Domain(j)' /\ Parents(i)' = Parents(j)' => i = j
    BY <1>1, <1>2, <1>4 DEF ContentOK
  <2> QED BY <2>1, <2>2, <2>3 DEF ContentOK
<1>6. TipsOK'
  <2>1. lastEventId' \in [Replicas -> Ids]
    BY <1>1, <1>3 DEF TipsOK, TipOK
  <2> SUFFICES ASSUME NEW s \in Replicas PROVE TipOK(s)'
    BY <2>1 DEF TipsOK
  <2>2. \A i \in DOMAIN content : id \notin Parents(i)
    BY <1>1, <1>3 DEF DagInv
  <2>3. dag[s] \subseteq dag'[s] /\ dag[s] \subseteq DOMAIN content
    BY <1>1, <1>3 DEF DagInv
  <2>4. \A t \in Replicas : \E i \in dag'[s] : Type(i)' = "claim-issue" /\ Domain(i)' = t
    <3> TAKE t \in Replicas
    <3>1. PICK i \in dag[s] : Type(i) = "claim-issue" /\ Domain(i) = t
      BY <1>1 DEF TipsOK, TipOK
    <3> QED BY <1>4, <2>3, <3>1
  <2>5. CASE s = r
    <3>1. lastEventId'[s] = id
      BY <1>1, <1>3, <2>5 DEF TipsOK, TipOK
    <3>2. Domain(lastEventId[s])' = s
      BY <1>4, <2>5, <3>1 DEF Domain
    <3>3. \A i \in DOMAIN content' : Domain(i)' = s => i \in dag'[s] /\ lastEventId'[s] \notin Parents(i)'
      BY <1>2, <1>3, <1>4, <2>2, <2>5, <3>1
    <3> QED BY <1>3, <2>4, <2>5, <3>1, <3>2, <3>3 DEF TipOK
  <2>6. CASE s # r
    <3>1. lastEventId'[s] = lastEventId[s] /\ lastEventId[s] \in dag[s] /\ Domain(lastEventId[s]) = s
      BY <1>1, <1>3, <2>6 DEF TipsOK, TipOK
    <3>2. \A i \in DOMAIN content : Domain(i) = s => i \in dag[s] /\ lastEventId[s] \notin Parents(i)
      BY <1>1 DEF TipsOK, TipOK
    <3>3. Domain(lastEventId[s])' = s
      BY <1>4, <2>3, <3>1 DEF Domain
    <3>4. \A i \in DOMAIN content' : Domain(i)' = s => i \in dag'[s] /\ lastEventId'[s] \notin Parents(i)'
      BY <1>4, <2>3, <2>6, <3>1, <3>2
    <3> QED BY <2>3, <2>4, <3>1, <3>3, <3>4 DEF TipOK
  <2> QED BY <2>5, <2>6
<1>7. ASSUME NEW s \in Replicas \ {r}, doing'[s] = doing[s] PROVE DoingOK(s)'
  <2>1. lastEventId'[s] = lastEventId[s] /\ lastEventId[s] \in DOMAIN content
    BY <1>1, <1>3 DEF TipsOK, TipOK, DagInv
  <2>2. content'[lastEventId[s]] = content[lastEventId[s]]
    BY <1>4, <2>1
  <2>3. Type(lastEventId[s])' = Type(lastEventId[s])
    BY <2>1, <2>2 DEF Type
  <2> QED BY <1>1, <1>3, <1>7, <2>1, <2>2, <2>3 DEF DoingOK
<1> QED BY <1>5, <1>6, <1>7

LEMMA PostCloses ==
  ASSUME BaseInv, NEW r \in Replicas, NEW payload \in Payload, payload.domain = r,
         Says(payload, lastEventId[r]), NEW id, NewEvent(r, payload, id), DagInv', payouts' \in Nat,
         DOMAIN doing' = Replicas, \A s \in Replicas \ {r} : doing'[s] = doing[s], DoingOK(r)'
  PROVE  BaseInv'
<1>1. /\ ContentOK' /\ TipsOK'
      /\ \A s \in Replicas \ {r} : DoingOK(s)'
  BY PostKeeps
<1>2. \A s \in Replicas : DoingOK(s)'
  BY <1>1
<1>3. plugin' \in Plugins
  BY DEF BaseInv, NewEvent
<1> QED BY <1>1, <1>2, <1>3 DEF BaseInv

LEMMA GoesIs ==
  ASSUME BaseInv, NEW r \in Replicas, NEW next, Goes(r, next)
  PROVE  doing'[r] = next /\ DOMAIN doing' = Replicas /\ \A s \in Replicas \ {r} : doing'[s] = doing[s]
  BY DEF BaseInv, Goes

\* What is posted of a claim of the domain.
LEMMA OwnedIs ==
  ASSUME BaseInv, NEW r \in Replicas, NEW c \in Owned(r)
  PROVE  /\ c \in ClaimIds /\ c # << >> /\ c[Len(c)] = r
         /\ Conservation(r).claims[c].amount = plugin.purse[c[1]]
<1>1. c \in DOMAIN Conservation(r).claims /\ Conservation(r).claims[c].owner = r
  BY DEF Owned
<1> QED BY <1>1, ClaimsAre DEF BaseInv

LEMMA TransferSays ==
  ASSUME BaseInv, NEW r \in Replicas, NEW c \in Owned(r), NEW to,
         to = IF plugin.name = "escrow" THEN Escrow ELSE Pot
  PROVE  LET e == Transfer(r, c, to)
         IN  /\ e \in Payload /\ e.domain = r /\ Says(e, lastEventId[r])
             /\ e.type = "transfer" /\ e.claim = c
<1> DEFINE e == Transfer(r, c, to)
<1>1. c \in ClaimIds /\ c # << >> /\ c[Len(c)] = r
  BY OwnedIs
<1>2. e \in Payload
  BY <1>1, MovingTypes DEF BaseInv, TipsOK
<1>3. /\ e.type = "transfer" /\ e.domain = r /\ e.claim = c /\ e.from = r /\ e.to = to
      /\ e.nonce = <<r, lastEventId[r]>>
  BY DEF Transfer
<1> HIDE DEF e
<1>4. Says(e, lastEventId[r])
  BY <1>1, <1>3 DEF Says
<1> QED BY <1>2, <1>3, <1>4 DEF e

LEMMA GivesKeeps ==
  ASSUME BaseInv, NEW r \in Replicas, NEW c \in Owned(r), plugin.name # "escrow", Gives(r, c), payouts' = payouts
  PROVE  BaseInv'
<1> DEFINE e == Transfer(r, c, Pot)
<1>1. /\ e \in Payload /\ e.domain = r /\ Says(e, lastEventId[r])
      /\ e.type = "transfer" /\ e.claim = c
  BY TransferSays
<1>2. PICK d : d = [kind |-> "given", amount |-> Conservation(r).claims[c].amount]
  OBVIOUS
<1>3. Post(r, e) /\ Goes(r, d)
  BY <1>2 DEF Gives
<1> HIDE DEF e
<1>4. doing'[r] = d /\ DOMAIN doing' = Replicas /\ \A s \in Replicas \ {r} : doing'[s] = doing[s]
  BY <1>3, GoesIs
<1>5. DagInv' /\ \E id : NewEvent(r, e, id)
  BY <1>1, <1>3, PostIs
<1>6. PICK id : NewEvent(r, e, id)
  BY <1>5
<1>7. content'[id].payload = e /\ lastEventId'[r] = id /\ plugin' = plugin
  BY <1>6 DEF NewEvent, BaseInv, TipsOK
<1>8. d.kind = "given" /\ d.amount = plugin.purse[c[1]]
  BY <1>2, OwnedIs
<1>9. DoingOK(r)'
  <2>1. Type(lastEventId[r])' = "transfer"
    BY <1>1, <1>7 DEF Type
  <2>2. content'[lastEventId'[r]].payload.claim = c
    BY <1>1, <1>7
  <2>3. doing'[r].kind = "given" /\ doing'[r].amount = plugin'.purse[content'[lastEventId'[r]].payload.claim[1]]
    BY <1>4, <1>7, <1>8, <2>2
  <2> QED BY <1>7, <2>1, <2>3 DEF DoingOK
<1>10. payouts' \in Nat
  BY DEF BaseInv
<1> QED BY <1>1, <1>4, <1>5, <1>6, <1>9, <1>10, PostCloses

LEMMA DonatesKeeps ==
  ASSUME BaseInv, NEW r \in Replicas, NEW c, Donates(r, c)
  PROVE  BaseInv'
<1>1. plugin.name # "escrow" /\ c \in Owned(r) /\ payouts' = payouts
  BY DEF Donates
<1>2. CASE PoolView(r).length # 0
  <2>1. Gives(r, c)
    BY <1>2 DEF Donates
  <2> QED BY <1>1, <2>1, GivesKeeps
<1>3. CASE PoolView(r).length = 0
  <2> DEFINE e == [type |-> "pool-init", domain |-> r, length |-> plugin.length]
             d == [kind |-> "minted", claim |-> c]
  <2>1. plugin \in Plugins /\ plugin.length \in Nat \ {0} /\ payouts' \in Nat
    BY <1>1, PluginAssumption DEF BaseInv
  <2>2. e \in Payload /\ e.domain = r /\ e.type = "pool-init" /\ e.length = plugin.length
    BY <2>1, PayloadTypes
  <2>3. Post(r, e) /\ Goes(r, d)
    BY <1>3 DEF Donates
  <2>4. d.kind = "minted" /\ d.claim = c
    OBVIOUS
  <2> HIDE DEF e, d
  <2>5. Says(e, lastEventId[r])
    BY <1>1, <2>2 DEF Says
  <2>6. doing'[r] = d /\ DOMAIN doing' = Replicas /\ \A s \in Replicas \ {r} : doing'[s] = doing[s]
    BY <2>3, GoesIs
  <2>7. DagInv' /\ \E id : NewEvent(r, e, id)
    BY <2>2, <2>3, PostIs
  <2>8. PICK id : NewEvent(r, e, id)
    BY <2>7
  <2>9. DoingOK(r)'
    <3>1. c \in ClaimIds
      BY <1>1, OwnedIs
    <3>2. plugin' = plugin
      BY <2>8 DEF NewEvent
    <3> QED BY <1>1, <2>4, <2>6, <3>1, <3>2 DEF DoingOK
  <2> QED BY <2>1, <2>2, <2>5, <2>6, <2>7, <2>8, <2>9, PostCloses
<1> QED BY <1>2, <1>3

LEMMA GoesOnKeeps ==
  ASSUME BaseInv, NEW r \in Replicas, DonationGoesOn(r)
  PROVE  BaseInv'
<1>1. /\ doing[r].kind = "minted" /\ doing[r].claim \in Owned(r) /\ Gives(r, doing[r].claim)
      /\ payouts' = payouts
  BY DEF DonationGoesOn
<1>2. plugin.name # "escrow"
  BY <1>1 DEF BaseInv, DoingOK, Idle
<1> QED BY <1>1, <1>2, GivesKeeps

LEMMA FoundIs ==
  ASSUME BaseInv, NEW r \in Replicas, NEW amount
  PROVE  LET c == FoundClaim(r, amount)
             claims == Conservation(r).claims
         IN  /\ c \in ClaimIds
             /\ c # << >> => c \in DOMAIN claims /\ claims[c].owner = Pot /\ claims[c].amount = amount
             /\ (\E x \in DOMAIN claims : /\ claims[x].owner = Pot /\ claims[x].amount = amount
                                          /\ \E i \in DOMAIN Conservation(r).order : Conservation(r).order[i] = x)
                  => c # << >>
<1> DEFINE s == Conservation(r)
           Fits(c) == c \in DOMAIN s.claims /\ s.claims[c].owner = Pot /\ s.claims[c].amount = amount
           fits == {i \in DOMAIN s.order : Fits(s.order[i])}
           c == FoundClaim(r, amount)
<1>1. /\ s.order \in Seq(ClaimIds)
      /\ \A x \in DOMAIN s.claims : x \in ClaimIds /\ x # << >>
  BY ClaimsAre DEF BaseInv
<1>2. c = IF fits = {} THEN << >> ELSE s.order[Least(fits)]
  BY DEF FoundClaim
<1>3. DOMAIN s.order = 1 .. Len(s.order) /\ Len(s.order) \in Nat
  BY <1>1
<1> HIDE DEF s, c
<1>4. CASE fits = {}
  <2>1. c = << >> /\ c \in ClaimIds
    BY <1>2, <1>4 DEF ClaimIds
  <2>2. \A i \in DOMAIN s.order : ~ Fits(s.order[i])
    BY <1>4
  <2> QED BY <2>1, <2>2 DEF s, c
<1>5. CASE fits # {}
  <2>1. fits \in SUBSET Nat
    BY <1>3
  <2>2. Least(fits) \in fits
    <3> HIDE DEF fits
    <3> QED BY <1>5, <2>1, LeastOf
  <2>3. Fits(c) /\ c \in ClaimIds /\ c # << >>
    BY <1>1, <1>2, <1>5, <2>2
  <2> QED BY <2>3 DEF s, c
<1> QED BY <1>4, <1>5

LEMMA ContributesKeeps ==
  ASSUME BaseInv, NEW r \in Replicas, Contributes(r)
  PROVE  BaseInv'
<1> DEFINE c == FoundClaim(r, doing[r].amount)
           e == [type |-> "pool-contribute", domain |-> r, claim |-> c]
<1>1. doing[r].kind = "given" /\ Post(r, e) /\ Goes(r, Idle) /\ payouts' = payouts
  BY DEF Contributes
<1>2. plugin.name # "escrow" /\ Type(lastEventId[r]) = "transfer" /\ payouts' \in Nat
  BY <1>1 DEF BaseInv, DoingOK, Idle
<1>3. c \in ClaimIds
  BY FoundIs
<1> HIDE DEF c
<1>4. e \in Payload /\ e.domain = r /\ e.type = "pool-contribute"
  BY <1>3, PayloadTypes
<1> HIDE DEF e
<1>5. Says(e, lastEventId[r])
  BY <1>2, <1>4 DEF Says
<1>6. doing'[r] = Idle /\ DOMAIN doing' = Replicas /\ \A s \in Replicas \ {r} : doing'[s] = doing[s]
  BY <1>1, GoesIs
<1>7. DagInv' /\ \E id : NewEvent(r, e, id)
  BY <1>1, <1>4, PostIs
<1>8. DoingOK(r)'
  BY <1>6 DEF DoingOK, Idle
<1> QED BY <1>2, <1>4, <1>5, <1>6, <1>7, <1>8, PostCloses

LEMMA ContractKeeps ==
  ASSUME BaseInv, NEW r \in Replicas, ContractStep(r)
  PROVE  BaseInv'
<1>0. plugin.name # "jackpot" /\ plugin \in Plugins /\ doing' = doing /\ doing[r] = Idle /\ payouts \in Nat
  BY DEF ContractStep, BaseInv
<1>1. ASSUME NEW e \in Payload, e.domain = r, Says(e, lastEventId[r]), Post(r, e), payouts' \in Nat
      PROVE  BaseInv'
  <2>1. DagInv' /\ \E id : NewEvent(r, e, id)
    BY <1>1, PostIs
  <2>2. PICK id : NewEvent(r, e, id)
    BY <2>1
  <2>3. DOMAIN doing' = Replicas /\ doing'[r] = doing[r] /\ \A s \in Replicas \ {r} : doing'[s] = doing[s]
    BY <1>0 DEF BaseInv
  <2>4. DoingOK(r)'
    <3>1. DoingOK(r) /\ plugin' = plugin
      BY <2>2 DEF BaseInv, NewEvent
    <3> QED BY <1>0, <3>1 DEF DoingOK, Idle
  <2> QED BY <1>1, <2>1, <2>2, <2>3, <2>4, PostCloses
<1>2. CASE Post(r, [type |-> "generic-contract-init", domain |-> r, condition |-> plugin.condition]) /\ payouts' = payouts
  <2> DEFINE e == [type |-> "generic-contract-init", domain |-> r, condition |-> plugin.condition]
  <2>1. /\ e \in Payload /\ e.domain = r /\ e.type = "generic-contract-init" /\ e.condition = plugin.condition
        /\ Post(r, e) /\ payouts' \in Nat
    BY <1>0, <1>2, PayloadTypes
  <2> HIDE DEF e
  <2>2. Says(e, lastEventId[r])
    BY <1>0, <2>1 DEF Says
  <2> QED BY <1>1, <2>1, <2>2
<1>3. CASE plugin.name = "escrow" /\ (\E c \in Owned(r) : Post(r, Transfer(r, c, Escrow))) /\ payouts' = payouts
  <2>1. PICK c \in Owned(r) : Post(r, Transfer(r, c, Escrow))
    BY <1>3
  <2> DEFINE e == Transfer(r, c, Escrow)
  <2>2. e \in Payload /\ e.domain = r /\ Says(e, lastEventId[r])
    BY <1>3, TransferSays
  <2> HIDE DEF e
  <2>3. Post(r, e) /\ payouts' \in Nat
    BY <1>0, <1>3, <2>1 DEF e
  <2> QED BY <1>1, <2>2, <2>3
<1>4. CASE Post(r, [type |-> "approval", domain |-> r]) /\ payouts' = payouts
  <2> DEFINE e == [type |-> "approval", domain |-> r]
  <2>1. /\ e \in Payload /\ e.domain = r /\ e.type = "approval" /\ Post(r, e) /\ payouts' \in Nat
    BY <1>0, <1>4, PayloadTypes
  <2> HIDE DEF e
  <2>2. Says(e, lastEventId[r])
    BY <1>0, <2>1 DEF Says
  <2> QED BY <1>1, <2>1, <2>2
<1>5. CASE /\ payouts' = payouts + 1
           /\ \E c \in DOMAIN Conservation(r).claims, to \in Replicas :
                LET from == Conservation(r).claims[c].owner
                IN  /\ plugin.name = "escrow" => from = Escrow
                    /\ Post(r, Release(r, c, from, to, <<r, lastEventId[r]>>, [type |-> "contract"]))
  <2>0. PICK c \in DOMAIN Conservation(r).claims, to \in Replicas :
          LET from == Conservation(r).claims[c].owner
          IN  /\ plugin.name = "escrow" => from = Escrow
              /\ Post(r, Release(r, c, from, to, <<r, lastEventId[r]>>, [type |-> "contract"]))
    BY <1>5
  <2> DEFINE from == Conservation(r).claims[c].owner
  <2>1. /\ from = Conservation(r).claims[c].owner
        /\ plugin.name = "escrow" => from = Escrow
        /\ Post(r, Release(r, c, from, to, <<r, lastEventId[r]>>, [type |-> "contract"]))
    BY <2>0
  <2> HIDE DEF from
  <2>2. c \in ClaimIds /\ lastEventId[r] \in Ids /\ from \in Places
    <3>1. c \in ClaimIds /\ c # << >> /\ from = c[Len(c)] /\ lastEventId[r] \in Ids
      BY <2>1, ClaimsAre DEF BaseInv, TipsOK
    <3>2. Len(c) \in DOMAIN c
      BY <3>1 DEF ClaimIds
    <3> QED BY <3>1, <3>2 DEF ClaimIds
  <2> DEFINE e == Release(r, c, from, to, <<r, lastEventId[r]>>, [type |-> "contract"])
  <2>3. e \in Payload
    BY <2>2, MovingTypes
  <2>4. /\ e.type = "pot-release" /\ e.domain = r /\ e.from = from /\ e.nonce = <<r, lastEventId[r]>>
        /\ e.proof.type = "contract"
    BY DEF Release
  <2> HIDE DEF e
  <2>5. Says(e, lastEventId[r])
    BY <1>0, <2>1, <2>4 DEF Says
  <2>6. Post(r, e) /\ payouts' \in Nat
    BY <1>0, <1>5, <2>1 DEF e
  <2> QED BY <1>1, <2>3, <2>4, <2>5, <2>6
<1> QED BY <1>2, <1>3, <1>4, <1>5 DEF ContractStep

\* What is not touched stays well formed.
LEMMA StillOK ==
  ASSUME BaseInv, UNCHANGED <<content, lastEventId, plugin>>,
         \A t \in Replicas : dag[t] \subseteq dag'[t]
  PROVE  ContentOK' /\ TipsOK' /\ \A t \in Replicas : doing'[t] = doing[t] => DoingOK(t)'
<1>1. \A i : Parents(i)' = Parents(i) /\ Type(i)' = Type(i) /\ Domain(i)' = Domain(i)
  BY DEF Parents, Type, Domain
<1>2. \A e, p : Says(e, p)' <=> Says(e, p)
  BY <1>1 DEF Says
<1>3. \A i, p : Follows(i, p)' <=> Follows(i, p)
  BY <1>1, <1>2 DEF Follows
<1>4. \A i : Begins(i)' <=> Begins(i)
  BY <1>1 DEF Begins
<1>5. ContentOK'
  BY <1>1, <1>3, <1>4 DEF BaseInv, ContentOK
<1>6. \A t \in Replicas : TipOK(t)'
  BY <1>1 DEF BaseInv, TipsOK, TipOK, Domain
<1>7. TipsOK'
  BY <1>6 DEF BaseInv, TipsOK
<1>8. ASSUME NEW t \in Replicas, doing'[t] = doing[t] PROVE DoingOK(t)'
  <2>1. DoingOK(t)
    BY DEF BaseInv
  <2> QED BY <1>8, <2>1 DEF DoingOK, Type
<1> QED BY <1>5, <1>7, <1>8

LEMMA SameDag == BaseInv /\ UNCHANGED <<content, dag>> => DagInv' /\ \A t \in Replicas : dag[t] \subseteq dag'[t]
<1> SUFFICES ASSUME BaseInv, UNCHANGED <<content, dag>> PROVE DagInv'
  OBVIOUS
<1>1. \A i : Parents(i)' = Parents(i)
  BY DEF Parents
<1>2. DagInv
  BY DEF BaseInv
<1> QED BY <1>1, <1>2 DEF DagInv, Acyclic

\* The releases of a payout are of the claims in the pool's cycles.
LEMMA PayoutStartsKeeps ==
  ASSUME BaseInv, NEW r \in Replicas, PayoutStarts(r)
  PROVE  BaseInv'
<1> DEFINE p == PoolView(r)
           n == Len(p.cycles)
           Of(k) == IF IsFull(p, k)
                    THEN [i \in DOMAIN p.cycles[k] |-> [cycle |-> k, claim |-> p.cycles[k][i].claim]]
                    ELSE << >>
           V == Seq(Release0)
           Join(x, k) == x \o Of(k)
           step == [k \in 1 .. n |-> [x \in V |-> Join(x, k)]]
           Right(x) == x = [k \in 0 .. n |-> IF k = 0 THEN << >> ELSE Join(x[k - 1], k)]
           releases == CHOOSE f : Right(f)
           d == [kind |-> "paying", todo |-> releases[n], drawn |-> 0, winner |-> None]
<1>1. /\ payouts' = payouts + 1 /\ Goes(r, d) /\ releases[n] # << >>
      /\ UNCHANGED <<content, dag, lastEventId, plugin>>
  BY DEF PayoutStarts, dagVars
<1>2. p.cycles \in Seq(Seq(Entries))
  BY PoolViewIs DEF Pools, BaseInv
<1> HIDE DEF p
<1>3. n \in Nat /\ \A k \in 1 .. n : p.cycles[k] \in Seq(Entries)
  BY <1>2
<1>4. \A k \in 1 .. n : Of(k) \in Seq(Release0)
  <2> SUFFICES ASSUME NEW k \in 1 .. n
               PROVE  [i \in DOMAIN p.cycles[k] |-> [cycle |-> k, claim |-> p.cycles[k][i].claim]]
                        \in Seq(Release0)
    OBVIOUS
  <2> DEFINE m == Len(p.cycles[k])
             s == [i \in DOMAIN p.cycles[k] |-> [cycle |-> k, claim |-> p.cycles[k][i].claim]]
  <2>1. m \in Nat /\ DOMAIN p.cycles[k] = 1 .. m /\ k \in Nat
    BY <1>3
  <2>2. \A i \in 1 .. m : [cycle |-> k, claim |-> p.cycles[k][i].claim] \in Release0
    <3> TAKE i \in 1 .. m
    <3>1. p.cycles[k][i] \in Entries
      BY <1>3, <2>1
    <3>2. p.cycles[k][i].claim \in ClaimIds
      BY <3>1 DEF Entries
    <3> QED BY <2>1, <3>2 DEF Release0
  <2>3. s \in [1 .. m -> Release0]
    BY <2>1, <2>2
  <2> HIDE DEF m, s
  <2>4. s \in Seq(Release0)
    BY <2>1, <2>3
  <2> QED BY <2>4 DEF s
<1>50. \A k \in 1 .. n : \A x \in V : Join(x, k) \in V
  <2> TAKE k \in 1 .. n
  <2>1. Of(k) \in V
    BY <1>4
  <2> HIDE DEF Of
  <2> QED BY <2>1
<1>51. << >> \in V /\ n \in Nat
  BY <1>3
<1> HIDE DEF Of, n, Join, V
<1>5. Steps(step, n, V)
  BY <1>50 DEF Steps
<1>6. PICK f \in [0 .. n -> V] : f[0] = << >> /\ \A k \in 1 .. n : f[k] = step[k][f[k - 1]]
  <2> DEFINE none == << >>
  <2>1. none \in V
    BY <1>51
  <2> HIDE DEF step, none
  <2>2. \E f \in [0 .. n -> V] : f[0] = none /\ \A k \in 1 .. n : f[k] = step[k][f[k - 1]]
    BY <1>5, <1>51, <2>1, FoldExists
  <2> QED BY <2>2 DEF none
<1>7. \A k \in 1 .. n : f[k] = Join(f[k - 1], k)
  <2> TAKE k \in 1 .. n
  <2>1. f[k - 1] \in V
    BY <1>51, <1>6
  <2>2. f[k] = step[k][f[k - 1]]
    BY <1>6
  <2> QED BY <2>1, <2>2
<1> HIDE DEF step
<1>8. Right(f)
  <2>1. \A k \in 0 .. n : f[k] = IF k = 0 THEN << >> ELSE Join(f[k - 1], k)
    BY <1>51, <1>6, <1>7
  <2> QED BY <1>6, <2>1
<1>9. Right(releases)
  <2> HIDE DEF Right
  <2> QED BY <1>8
<1> HIDE DEF releases
<1>10. releases[0] = << >> /\ \A k \in 1 .. n : releases[k] = Join(releases[k - 1], k)
  BY <1>51, <1>9
<1>11. \A k \in 0 .. n : releases[k] \in V
  <2>1. releases[0] \in V
    BY <1>10, <1>51
  <2>2. \A k \in 1 .. n : releases[k - 1] \in V => releases[k] \in V
    BY <1>50, <1>10
  <2> QED BY <1>51, <2>1, <2>2, FoldKeeps
<1>12. d \in [kind : {"paying"}, todo : Seq(Release0) \ {<< >>}, drawn : Nat, winner : Replicas \cup {None}]
  BY <1>1, <1>51, <1>11 DEF V
<1> HIDE DEF d
<1>13. doing'[r] = d /\ DOMAIN doing' = Replicas /\ \A s \in Replicas \ {r} : doing'[s] = doing[s]
  BY <1>1, GoesIs
<1>14. /\ DagInv' /\ ContentOK' /\ TipsOK'
       /\ \A t \in Replicas : doing'[t] = doing[t] => DoingOK(t)'
  BY <1>1, SameDag, StillOK
<1>140. plugin'.name # "escrow"
  <2>1. releases[0] = << >>
    BY <1>10
  <2>2. n # 0
    BY <1>1, <2>1
  <2>3. PoolView(r).cycles # << >>
    BY <1>2, <2>2 DEF n, p
  <2> QED BY <1>1, <2>3, PoolViewSound DEF BaseInv
<1>15. \A s \in Replicas : DoingOK(s)'
  <2> TAKE s \in Replicas
  <2>1. CASE s = r
    BY <1>12, <1>13, <1>140, <2>1 DEF DoingOK
  <2>2. CASE s # r
    BY <1>13, <1>14, <2>2
  <2> QED BY <2>1, <2>2
<1> QED BY <1>1, <1>13, <1>14, <1>15 DEF BaseInv

LEMMA PayoutGoesOnKeeps ==
  ASSUME HashIsNumber, BaseInv, NEW r \in Replicas, PayoutGoesOn(r)
  PROVE  BaseInv'
<1> DEFINE d == doing[r]
           next == Head(d.todo)
           winner == IF next.cycle = d.drawn THEN d.winner ELSE WinnerOf(PoolView(r), next.cycle)
           others == {i \in DOMAIN d.todo : d.todo[i].cycle # next.cycle} \cup {Len(d.todo) + 1}
           rest == IF PassedOver(winner) THEN SubSeq(d.todo, Least(others), Len(d.todo)) ELSE Tail(d.todo)
           goal == IF rest = << >> THEN Idle
                   ELSE [d EXCEPT !.todo = rest, !.drawn = next.cycle, !.winner = winner]
           e == Release(r, next.claim, Pot, winner, <<Pot, next.cycle, next.claim>>,
                        [type |-> "pool", cycle |-> next.cycle])
<1>1. /\ d.kind = "paying" /\ Goes(r, goal) /\ payouts' = payouts
      /\ IF PassedOver(winner) THEN UNCHANGED <<content, dag, lastEventId, plugin>> ELSE Post(r, e)
  BY DEF PayoutGoesOn, dagVars
<1>2. d \in [kind : {"paying"}, todo : Seq(Release0) \ {<< >>}, drawn : Nat, winner : Replicas \cup {None}]
  <2>1. DoingOK(r)
    BY DEF BaseInv
  <2>2. d.kind = "paying"
    BY DEF PayoutGoesOn
  <2> QED BY <2>1, <2>2 DEF DoingOK, Idle
<1>20. plugin.name # "escrow"
  <2>1. DoingOK(r) /\ d.kind = "paying"
    BY DEF BaseInv, PayoutGoesOn
  <2> QED BY <2>1 DEF DoingOK, Idle
<1> HIDE DEF d
<1>3. d.todo \in Seq(Release0) /\ d.todo # << >> /\ d.winner \in Replicas \cup {None}
  BY <1>2
<1>4. next \in Release0 /\ Tail(d.todo) \in Seq(Release0)
  BY <1>3
<1> HIDE DEF next
<1>5. next.cycle \in Nat /\ next.claim \in ClaimIds
  BY <1>4 DEF Release0
<1>6. winner \in Replicas \cup {None}
  <2>1. WinnerOf(PoolView(r), next.cycle) \in Replicas \cup {None}
    <3>1. PoolView(r).cycles \in Seq(Seq(Entries))
      BY PoolViewIs DEF Pools, BaseInv
    <3>2. ASSUME next.cycle \in DOMAIN PoolView(r).cycles
          PROVE  ComputeWeightedDraw(next.cycle, PoolView(r).cycles[next.cycle]) \in Replicas \cup {None}
      <4>1. PoolView(r).cycles[next.cycle] \in Seq(Entries) /\ next.cycle \in Nat \ {0}
        BY <3>1, <3>2
      <4> QED BY <4>1, DrawIs
    <3> QED BY <3>2 DEF WinnerOf
  <2> QED BY <1>3, <2>1
<1> HIDE DEF winner
<1>7. rest \in Seq(Release0)
  <2>1. others \in SUBSET Nat /\ others # {} /\ \A i \in others : i \in Nat
    BY <1>3
  <2>3. others \subseteq 1 .. Len(d.todo) + 1
    BY <1>3
  <2> HIDE DEF others
  <2>20. Least(others) \in others
    BY <2>1, LeastOf
  <2>21. Least(others) \in Nat
    BY <2>1, <2>20
  <2>2. Least(others) \in Nat /\ Len(d.todo) \in Nat
    BY <1>3, <2>21
  <2>4. Least(others) \in 1 .. Len(d.todo) + 1
    BY <2>3, <2>20
  <2>5. SubSeq(d.todo, Least(others), Len(d.todo)) \in Seq(Release0)
    BY <1>3, <2>2, <2>4
  <2> QED BY <1>4, <2>5
<1> HIDE DEF rest
<1>8. goal = Idle \/ goal \in [kind : {"paying"}, todo : Seq(Release0) \ {<< >>}, drawn : Nat, winner : Replicas \cup {None}]
  BY <1>2, <1>5, <1>6, <1>7
<1> HIDE DEF goal
<1>9. doing'[r] = goal /\ DOMAIN doing' = Replicas /\ \A s \in Replicas \ {r} : doing'[s] = doing[s]
  BY <1>1, GoesIs
<1>10. plugin' = plugin => DoingOK(r)'
  BY <1>8, <1>9, <1>20 DEF DoingOK, Idle
<1>11. payouts' \in Nat
  BY <1>1 DEF BaseInv
<1>12. CASE PassedOver(winner)
  <2>0. UNCHANGED <<content, dag, lastEventId, plugin>>
    BY <1>1, <1>12
  <2>1. /\ DagInv' /\ ContentOK' /\ TipsOK'
        /\ \A t \in Replicas : doing'[t] = doing[t] => DoingOK(t)'
    BY <2>0, SameDag, StillOK
  <2>2. \A s \in Replicas \ {r} : DoingOK(s)'
    BY <1>9, <2>1
  <2> QED BY <1>9, <1>10, <1>11, <2>0, <2>1, <2>2 DEF BaseInv
<1>13. CASE ~ PassedOver(winner)
  <2>1. winner \in Replicas /\ Post(r, e)
    BY <1>1, <1>6, <1>13 DEF PassedOver
  <2>2. e \in Payload
    BY <1>5, <2>1, MovingTypes
  <2>3. /\ e.type = "pot-release" /\ e.domain = r /\ e.from = Pot /\ e.claim = next.claim
        /\ e.nonce = <<Pot, next.cycle, next.claim>> /\ e.proof.cycle = next.cycle /\ e.proof.type = "pool"
    BY DEF Release
  <2> HIDE DEF e
  <2>4. Says(e, lastEventId[r])
    BY <1>20, <2>3 DEF Says
  <2>5. DagInv' /\ \E id : NewEvent(r, e, id)
    BY <2>1, <2>3, PostIs
  <2>6. PICK id : NewEvent(r, e, id)
    BY <2>5
  <2>7. plugin' = plugin
    BY <2>6 DEF NewEvent
  <2> QED BY <1>9, <1>10, <1>11, <2>2, <2>3, <2>4, <2>5, <2>6, <2>7, PostCloses
<1> QED BY <1>12, <1>13

LEMMA SyncKeeps ==
  ASSUME BaseInv, NEW r \in Replicas, NEW s \in Replicas, Sync(r, s)
  PROVE  BaseInv'
<1>1. MergeBothWays(r, s) /\ UNCHANGED <<content, lastEventId, plugin, doing, payouts>>
  BY DEF Sync, MergeBothWays
<1>2. DagInv' /\ \A t \in Replicas : dag[t] \subseteq dag'[t]
  BY <1>1, MergeDag DEF BaseInv
<1>3. ContentOK' /\ TipsOK' /\ \A t \in Replicas : DoingOK(t)'
  BY <1>1, <1>2, StillOK
<1> QED BY <1>1, <1>2, <1>3 DEF BaseInv

LEMMA BaseInit == Init => BaseInv
<1> SUFFICES ASSUME Init PROVE BaseInv
  OBVIOUS
<1>1. PICK id \in [Replicas -> Ids] :
        /\ IsInjective(id)
        /\ content = [i \in Range(id) |->
             LET r == CHOOSE x \in Replicas : id[x] = i
             IN  [parents |-> {}, payload |->
                    [type |-> "claim-issue", domain |-> r, amount |-> plugin.purse[r]]]]
        /\ dag = [r \in Replicas |-> Range(id)]
        /\ lastEventId = id
  BY DEF Init
<1>2. plugin \in Plugins /\ doing = [r \in Replicas |-> Idle] /\ payouts = 0
  BY DEF Init
<1>3. \A r, s \in Replicas : id[r] = id[s] => r = s
  BY <1>1 DEF IsInjective
<1>4. Range(id) = {id[r] : r \in Replicas}
  BY DEF Range
<1> DEFINE P == [r \in Replicas |-> [type |-> "claim-issue", domain |-> r, amount |-> plugin.purse[r]]]
<1>50. \A r \in Replicas : content[id[r]] = [parents |-> {}, payload |-> P[r]]
  <2> TAKE r \in Replicas
  <2>1. (CHOOSE x \in Replicas : id[x] = id[r]) = r
    BY <1>3
  <2>2. id[r] \in Range(id)
    BY <1>4
  <2> QED BY <1>1, <2>1, <2>2
<1>51. \A r \in Replicas : P[r].type = "claim-issue" /\ P[r].domain = r /\ P[r].amount = plugin.purse[r]
  OBVIOUS
<1> HIDE DEF P
<1>5. DOMAIN content = {id[r] : r \in Replicas}
      /\ \A r \in Replicas : content[id[r]].parents = {} /\ content[id[r]].payload = P[r]
  <2>1. DOMAIN content = Range(id)
    BY <1>1
  <2>2. ASSUME NEW r \in Replicas PROVE content[id[r]].parents = {} /\ content[id[r]].payload = P[r]
    <3> PICK none, p : none = {} /\ p = P[r]
      OBVIOUS
    <3>1. content[id[r]] = [parents |-> none, payload |-> p]
      BY <1>50
    <3>2. content[id[r]].parents = none /\ content[id[r]].payload = p
      BY <3>1
    <3> QED BY <3>2
  <2> QED BY <1>4, <2>1, <2>2
<1>6. \A r \in Replicas : Parents(id[r]) = {} /\ Domain(id[r]) = r /\ Type(id[r]) = "claim-issue"
                          /\ content[id[r]].payload.amount = plugin.purse[r]
  BY <1>5, <1>51 DEF Parents, Domain, Type
<1>7. \A i \in DOMAIN content : \E r \in Replicas : i = id[r]
  BY <1>5
<1>8. DagInv
  <2>1. \A i \in DOMAIN content : Parents(i) = {}
    BY <1>6, <1>7
  <2>2. DOMAIN content \subseteq Ids
    BY <1>5
  <2>3. dag \in [Replicas -> SUBSET DOMAIN content]
    BY <1>1, <1>4, <1>5
  <2> QED BY <2>1, <2>2, <2>3 DEF DagInv, Acyclic
<1>9. ContentOK
  <2>1. content \in [DOMAIN content -> Event(Payload)]
    <3>1. ASSUME NEW r \in Replicas PROVE content[id[r]] \in Event(Payload)
      <4>1. plugin.purse[r] \in Nat
        BY <1>2, PluginAssumption
      <4>2. P[r] \in Payload
        BY <4>1, PayloadTypes DEF P
      <4> PICK none, p : none = {} /\ p = P[r]
        OBVIOUS
      <4>3. content[id[r]] = [parents |-> none, payload |-> p]
        BY <1>50
      <4>4. none \in SUBSET Ids /\ p \in Payload
        BY <4>2
      <4> QED BY <4>3, <4>4 DEF Event
    <3>2. \A i \in DOMAIN content : content[i] \in Event(Payload)
      BY <1>7, <3>1
    <3>3. content = [i \in DOMAIN content |-> content[i]]
      BY <1>1
    <3> QED BY <3>2, <3>3
  <2>2. \A i \in DOMAIN content : Type(i) = "claim-issue" /\ Begins(i)
    BY <1>6, <1>7 DEF Begins
  <2>3. \A i, j \in DOMAIN content : Domain(i) = Domain(j) => i = j
    BY <1>6, <1>7
  <2> QED BY <2>1, <2>2, <2>3 DEF ContentOK
<1>10. TipsOK
  <2>1. \A r \in Replicas : dag[r] = DOMAIN content /\ lastEventId[r] = id[r] /\ id[r] \in DOMAIN content
    BY <1>1, <1>4, <1>5
  <2>2. ASSUME NEW r \in Replicas PROVE TipOK(r)
    BY <1>6, <1>7, <2>1 DEF TipOK
  <2> QED BY <1>1, <2>2 DEF TipsOK
<1>11. \A r \in Replicas : DoingOK(r)
  BY <1>2 DEF DoingOK
<1> QED BY <1>2, <1>8, <1>9, <1>10, <1>11 DEF BaseInv

LEMMA BaseNext == HashIsNumber /\ BaseInv /\ [Next]_vars => BaseInv'
<1> SUFFICES ASSUME HashIsNumber, BaseInv, [Next]_vars PROVE BaseInv'
  OBVIOUS
<1>1. CASE UNCHANGED vars
  <2>1. UNCHANGED <<content, dag, lastEventId, plugin, doing, payouts>>
    BY <1>1 DEF vars
  <2>2. DagInv' /\ ContentOK' /\ TipsOK' /\ \A t \in Replicas : DoingOK(t)'
    BY <2>1, SameDag, StillOK
  <2> QED BY <2>1, <2>2 DEF BaseInv
<1>2. CASE Next
  BY <1>2, DonatesKeeps, GoesOnKeeps, ContributesKeeps, PayoutStartsKeeps, PayoutGoesOnKeeps,
     ContractKeeps, SyncKeeps DEF Next
<1> QED BY <1>1, <1>2

LEMMA BaseAlways == HashIsNumber => (Spec => []BaseInv)
<1> SUFFICES ASSUME HashIsNumber PROVE Spec => []BaseInv
  OBVIOUS
<1>1. BaseInv /\ [Next]_vars => BaseInv'
  BY BaseNext
<1> QED BY <1>1, BaseInit, PTL DEF Spec

(* Whatever is posted, merged and paid, the state is of its type, and      *)
(* every domain's tip is an event it knows.                                *)
THEOREM PoolTypeCorrect == HashIsNumber => (Spec => []TypeOK)
<1> SUFFICES ASSUME HashIsNumber PROVE Spec => []TypeOK
  OBVIOUS
<1>1. BaseInv => TypeOK
  <2> SUFFICES ASSUME BaseInv PROVE TypeOK
    OBVIOUS
  <2>1. DagTypeOK(Payload)
    BY DEF BaseInv, DagInv, ContentOK, DagTypeOK
  <2>2. \A r \in Replicas : doing[r].kind \in {"idle", "minted", "given", "paying"}
    BY DEF BaseInv, DoingOK, Idle
  <2> QED BY <2>1, <2>2 DEF TypeOK, BaseInv, TipsOK, TipOK
<1> QED BY <1>1, BaseAlways, PTL

(* In every replica's view the cycles are filled in turn, each to exactly  *)
(* the pool's length, and a claim backs one contribution in all of them.   *)
THEOREM PoolCyclesAreExact == HashIsNumber => (Spec => []CyclesAreExact)
<1> SUFFICES ASSUME HashIsNumber PROVE Spec => []CyclesAreExact
  OBVIOUS
<1>1. BaseInv => CyclesAreExact
  BY CyclesExact DEF BaseInv
<1> QED BY <1>1, BaseAlways, PTL

-----------------------------------------------------------------------------
(* Conditions                                                              *)

\* held[n] are those of the first n parts of c that hold.
Holding(c, e, known, claims, held) ==
  /\ held \in [0 .. Len(c) -> SUBSET (1 .. Len(c))] /\ held[0] = {}
  /\ \A n \in 1 .. Len(c) :
       held[n] = held[n - 1] \cup {m \in {n} : PartHolds(c[n], held[n - 1], e, known, claims)}

LEMMA HeldIs ==
  ASSUME NEW c, Len(c) \in Nat, NEW e, NEW known, NEW claims
  PROVE  \E held : /\ Holding(c, e, known, claims, held)
                   /\ EvaluateCondition(c, e, known, claims) <=> Len(c) \in held[Len(c)]
<1> DEFINE n == Len(c)
           V == SUBSET (1 .. n)
           Join(x, i) == x \cup {m \in {i} : PartHolds(c[i], x, e, known, claims)}
           step == [i \in 1 .. n |-> [x \in V |-> Join(x, i)]]
           Right(x) == x = [i \in 0 .. n |-> IF i = 0 THEN {} ELSE Join(x[i - 1], i)]
           held == CHOOSE f : Right(f)
<1>1. EvaluateCondition(c, e, known, claims) <=> n \in held[n]
  BY DEF EvaluateCondition
<1>2. n \in Nat /\ {} \in V
  OBVIOUS
<1>3. \A i \in 1 .. n : \A x \in V : Join(x, i) \in V
  OBVIOUS
<1>4. \A i, x : Join(x, i) = x \cup {m \in {i} : PartHolds(c[i], x, e, known, claims)}
  OBVIOUS
<1>5. V = SUBSET (1 .. n)
  OBVIOUS
<1> HIDE DEF n, V, Join
<1>6. Steps(step, n, V)
  BY <1>3 DEF Steps
<1>7. PICK f \in [0 .. n -> V] : f[0] = {} /\ \A i \in 1 .. n : f[i] = step[i][f[i - 1]]
  <2> DEFINE none == {}
  <2>1. none \in V
    BY <1>2
  <2> HIDE DEF step, none
  <2>2. \E f \in [0 .. n -> V] : f[0] = none /\ \A i \in 1 .. n : f[i] = step[i][f[i - 1]]
    BY <1>2, <1>6, <2>1, FoldExists
  <2> QED BY <2>2 DEF none
<1>8. \A i \in 1 .. n : f[i] = Join(f[i - 1], i)
  <2> TAKE i \in 1 .. n
  <2>1. f[i - 1] \in V
    BY <1>2, <1>7
  <2>2. f[i] = step[i][f[i - 1]]
    BY <1>7
  <2> QED BY <2>1, <2>2
<1> HIDE DEF step
<1>9. Right(f)
  <2>1. \A i \in 0 .. n : f[i] = IF i = 0 THEN {} ELSE Join(f[i - 1], i)
    BY <1>2, <1>7, <1>8
  <2> QED BY <1>7, <2>1
<1>10. Right(held)
  <2> HIDE DEF Right
  <2> QED BY <1>9
<1> HIDE DEF held
<1>11. held[0] = {} /\ \A i \in 1 .. n : held[i] = Join(held[i - 1], i)
  <2>1. held[0] = {}
    BY <1>2, <1>10
  <2>2. ASSUME NEW i \in 1 .. n PROVE held[i] = Join(held[i - 1], i)
    <3>1. i \in 0 .. n /\ i # 0
      BY <1>2
    <3> QED BY <1>10, <3>1
  <2> QED BY <2>1, <2>2
<1>12. \A i \in 0 .. n : held[i] \in V
  <2>1. held[0] \in V
    BY <1>2, <1>11
  <2>2. \A i \in 1 .. n : held[i - 1] \in V => held[i] \in V
    BY <1>3, <1>11
  <2> QED BY <1>2, <2>1, <2>2, FoldKeeps
<1>13. held \in [0 .. n -> V]
  BY <1>10, <1>12
<1>14. Holding(c, e, known, claims, held)
  BY <1>4, <1>5, <1>11, <1>13 DEF Holding, n
<1> QED BY <1>1, <1>14 DEF n

\* A pool's release asks for its claim to be in the pot, and for the winner.
LEMMA PayoutIs ==
  ASSUME NEW e, NEW drawn, NEW known, NEW claims
  PROVE  EvaluateCondition(PayoutCondition(e, drawn), e, known, claims)
           <=> /\ e.claim \in DOMAIN claims /\ claims[e.claim].owner = e.from
               /\ e.to = ComputeWeightedDraw(e.proof.cycle, drawn)
<1> DEFINE c == PayoutCondition(e, drawn)
           a == [type |-> "ownership", claim |-> e.claim, owner |-> e.from]
           b == [type |-> "deterministic-match", cycle |-> e.proof.cycle, drawn |-> drawn, expected |-> e.to]
           both == [type |-> "all", of |-> {1, 2}]
           Owns == e.claim \in DOMAIN claims /\ claims[e.claim].owner = e.from
           Wins == e.to = ComputeWeightedDraw(e.proof.cycle, drawn)
<1>1. c = <<a, b, both>>
  BY DEF PayoutCondition
<1>2. \A held : PartHolds(a, held, e, known, claims) <=> Owns
  <2> TAKE held
  <2>1. Substituted(a, e) = a
    <3>1. a.type = "ownership" /\ a.claim = e.claim /\ a.owner = e.from
      OBVIOUS
    <3>2. (IF a.claim = <<"$claimId">> THEN e.claim ELSE a.claim) = e.claim
          /\ (IF a.owner = "$from" THEN e.from ELSE a.owner) = e.from
      BY <3>1
    <3>3. Substituted(a, e) = [a EXCEPT !.claim = e.claim, !.owner = e.from]
      BY <3>1, <3>2 DEF Substituted
    <3> QED BY <3>3
  <2>2. a.type = "ownership" /\ a.claim = e.claim /\ a.owner = e.from
    OBVIOUS
  <2> HIDE DEF a
  <2> QED BY <2>1, <2>2 DEF PartHolds, EvalLeaf, EvalOwnership
<1>3. \A held : PartHolds(b, held, e, known, claims) <=> Wins
  <2>1. /\ b.type = "deterministic-match" /\ b.expected = e.to /\ b.cycle = e.proof.cycle
        /\ b.drawn = drawn
    OBVIOUS
  <2> HIDE DEF b
  <2> QED BY <2>1 DEF PartHolds, EvalLeaf, Substituted
<1>4. \A held : PartHolds(both, held, e, known, claims) <=> 1 \in held /\ 2 \in held
  <2>1. both.type = "all" /\ both.of = {1, 2}
    OBVIOUS
  <2> HIDE DEF both
  <2> QED BY <2>1 DEF PartHolds
<1> HIDE DEF a, b, both
<1>5. Len(c) = 3 /\ c[1] = a /\ c[2] = b /\ c[3] = both
  BY <1>1
<1> HIDE DEF c
<1>6. PICK held : /\ Holding(c, e, known, claims, held)
                  /\ EvaluateCondition(c, e, known, claims) <=> Len(c) \in held[Len(c)]
  <2>1. Len(c) \in Nat
    BY <1>5
  <2> QED BY <2>1, HeldIs
<1>7. /\ held[0] = {}
      /\ held[1] = held[0] \cup {m \in {1} : PartHolds(c[1], held[0], e, known, claims)}
      /\ held[2] = held[1] \cup {m \in {2} : PartHolds(c[2], held[1], e, known, claims)}
      /\ held[3] = held[2] \cup {m \in {3} : PartHolds(c[3], held[2], e, known, claims)}
  <2>1. /\ held[0] = {}
        /\ \A n \in 1 .. 3 :
             held[n] = held[n - 1] \cup {m \in {n} : PartHolds(c[n], held[n - 1], e, known, claims)}
    BY <1>5, <1>6 DEF Holding
  <2>2. 1 \in 1 .. 3 /\ 2 \in 1 .. 3 /\ 3 \in 1 .. 3 /\ 1 - 1 = 0 /\ 2 - 1 = 1 /\ 3 - 1 = 2
    OBVIOUS
  <2> QED BY <2>1, <2>2
<1> HIDE DEF Owns, Wins
<1>8. (1 \in held[2] <=> Owns) /\ (2 \in held[2] <=> Wins) /\ 3 \notin held[2]
  BY <1>2, <1>3, <1>5, <1>7
<1>9. 3 \in held[3] <=> Owns /\ Wins
  BY <1>4, <1>5, <1>7, <1>8
<1> QED BY <1>5, <1>6, <1>9 DEF Owns, Wins, c

-----------------------------------------------------------------------------
(* Prizes                                                                  *)

\* Only the pool lets a claim out of the pot.
LEMMA PaidByDraw ==
  ASSUME ContentOK, NEW id \in DOMAIN content, Type(id) = "transfer" \/ Type(id) = "pot-release",
         content[id].payload.from = Pot, NEW v, NEW claims,
         Type(id) = "pot-release" => Authorized(v, content[id].payload, claims)
  PROVE  LET e == content[id].payload
         IN  /\ e.type = "pot-release"
             /\ \/ /\ IsFull(v.pool, e.proof.cycle) /\ InCycle(v.pool, e.proof.cycle, e.claim)
                   /\ e.to = ComputeWeightedDraw(e.proof.cycle, v.pool.cycles[e.proof.cycle])
                \/ e.proof.type = "contract" /\ v.condition # None
<1> DEFINE e == content[id].payload
<1>1. Type(id) = "pot-release" /\ e.type = "pot-release"
  <2>1. Type(id) = "transfer" => e.from \in Replicas
    BY ContentFields
  <2> QED BY <2>1, PoolAssumption DEF Type
<1>2. Authorized(v, e, claims)
  BY <1>1
<1> HIDE DEF e
<1>3. CASE VerifyPoolPayout(v.pool, e, claims)
  <2>1. EvaluateCondition(PayoutCondition(e, v.pool.cycles[e.proof.cycle]), e, {}, claims)
    BY <1>3 DEF VerifyPoolPayout
  <2>2. e.to = ComputeWeightedDraw(e.proof.cycle, v.pool.cycles[e.proof.cycle])
    BY <2>1, PayoutIs
  <2> QED BY <1>1, <1>3, <2>2 DEF VerifyPoolPayout, e
<1>4. CASE VerifyGenericRelease(v.condition, v.known, e, claims)
  BY <1>1, <1>4 DEF VerifyGenericRelease, e
<1> QED BY <1>2, <1>3, <1>4 DEF Authorized

LEMMA PrizesAreDrawn == DagInv /\ ContentOK => PrizesGoToWinners
<1> SUFFICES ASSUME DagInv, ContentOK, NEW r \in Replicas, NEW c \in DOMAIN Conservation(r).claims,
                    NEW m \in 1 .. Len(c) - 1, c[m] = Pot
             PROVE  Drawn(r, c, m) \/ ByContract(r, c, m)
  BY DEF PrizesGoToWinners
<1> DEFINE order == TopoOrder(r)
           v == View(r)
           p == PoolView(r)
<1>1. PICK s : /\ Conservation(r) = s[Len(order)]
               /\ \A i \in 0 .. Len(order) :
                     s[i] \in States /\ s[i].claims \in ClaimMaps /\ Sound(order, i, v, s[i])
  BY ConservationIs
<1>2. Len(order) \in Nat /\ \A i \in 1 .. Len(order) : order[i] \in DOMAIN content /\ order[i] \in dag[r]
  BY OrderIs
<1>3. v.pool = p /\ v.condition = MaterializeContract(order)
  BY DEF View
<1>4. p \in [length : Nat, cycles : Seq(Seq(Entries))] /\ InTurn(p)
  BY PoolViewIs DEF Pools
<1> HIDE DEF order, v, p
<1>5. Traced(order, Len(order), v, s[Len(order)], c)
  BY <1>1, <1>2 DEF Sound
<1>6. PICK j \in 1 .. Len(order) :
        LET e == content[order[j]].payload
        IN  /\ e.claim = SubSeq(c, 1, m) /\ e.from = c[m] /\ e.to = c[m + 1]
            /\ \/ Type(order[j]) = "transfer"
               \/ Type(order[j]) = "pot-release" /\ \E claims : Authorized(v, e, claims)
  BY <1>5 DEF Traced, Carried
<1> DEFINE e == content[order[j]].payload
<1>7. order[j] \in DOMAIN content /\ order[j] \in dag[r]
  BY <1>2
<1>8. PICK claims : Type(order[j]) = "pot-release" => Authorized(v, e, claims)
  BY <1>6
<1>9. /\ e.type = "pot-release"
      /\ \/ /\ IsFull(p, e.proof.cycle) /\ InCycle(p, e.proof.cycle, e.claim)
            /\ e.to = ComputeWeightedDraw(e.proof.cycle, p.cycles[e.proof.cycle])
         \/ e.proof.type = "contract" /\ MaterializeContract(order) # None
  BY <1>3, <1>6, <1>7, <1>8, PaidByDraw
<1>10. e.claim = SubSeq(c, 1, m) /\ e.from = c[m] /\ e.to = c[m + 1]
  BY <1>6
<1>11. CASE e.proof.type = "contract" /\ MaterializeContract(order) # None
  BY <1>7, <1>9, <1>10, <1>11 DEF ByContract, order
<1>12. CASE /\ IsFull(p, e.proof.cycle) /\ InCycle(p, e.proof.cycle, e.claim)
            /\ e.to = ComputeWeightedDraw(e.proof.cycle, p.cycles[e.proof.cycle])
  <2> HIDE DEF e
  <2>1. e.proof.cycle \in DOMAIN p.cycles /\ Len(p.cycles[e.proof.cycle]) >= p.length
    BY <1>12 DEF IsFull
  <2>2. Len(p.cycles[e.proof.cycle]) \in 1 .. p.length /\ p.length \in Nat
    BY <1>4, <2>1 DEF InTurn
  <2>3. Len(p.cycles[e.proof.cycle]) = p.length
    BY <2>1, <2>2
  <2> QED BY <1>10, <1>12, <2>1, <2>3 DEF Drawn, p
<1> QED BY <1>9, <1>11, <1>12

(* However what was posted is merged and reordered, in every view a claim  *)
(* that was in the pot left it for the winner of the full cycle it belongs *)
(* to, or by a release of exactly that claim to that domain which the view *)
(* knows and which was asked of the contract.                              *)
THEOREM PoolPrizesGoToWinners == HashIsNumber => (Spec => []PrizesGoToWinners)
<1> SUFFICES ASSUME HashIsNumber PROVE Spec => []PrizesGoToWinners
  OBVIOUS
<1>1. BaseInv => PrizesGoToWinners
  BY PrizesAreDrawn DEF BaseInv
<1> QED BY <1>1, BaseAlways, PTL

-----------------------------------------------------------------------------
(* A view's claims from one event to the next                              *)

LEMMA ShortIs ==
  ASSUME NEW S, NEW c \in Seq(S)
  PROVE  /\ Len(c) >= 1 => SubSeq(c, 1, 1) = <<c[1]>>
         /\ Len(c) >= 2 => SubSeq(c, 1, 2) = <<c[1], c[2]>>
         /\ Len(c) = 1 => c = <<c[1]>>
         /\ Len(c) = 2 => c = <<c[1], c[2]>>
<1>1. ASSUME NEW q \in Seq(S), Len(q) = 1 PROVE q = <<q[1]>>
  BY <1>1
<1>2. ASSUME NEW q \in Seq(S), Len(q) = 2 PROVE q = <<q[1], q[2]>>
  BY <1>2
<1>3. ASSUME Len(c) >= 1 PROVE SubSeq(c, 1, 1) = <<c[1]>>
  <2> DEFINE q == SubSeq(c, 1, 1)
  <2>1. q \in Seq(S) /\ Len(q) = 1 /\ q[1] = c[1]
    BY <1>3, PrefixIs
  <2> HIDE DEF q
  <2>2. q = <<c[1]>>
    BY <1>1, <2>1
  <2> QED BY <2>2 DEF q
<1>4. ASSUME Len(c) >= 2 PROVE SubSeq(c, 1, 2) = <<c[1], c[2]>>
  <2> DEFINE q == SubSeq(c, 1, 2)
  <2>1. q \in Seq(S) /\ Len(q) = 2 /\ q[1] = c[1] /\ q[2] = c[2]
    BY <1>4, PrefixIs
  <2> HIDE DEF q
  <2>2. q = <<c[1], c[2]>>
    BY <1>2, <2>1
  <2> QED BY <2>2 DEF q
<1> QED BY <1>1, <1>2, <1>3, <1>4

\* A claim went through all its own way.
LEMMA ThereItWent ==
  ASSUME NEW s, NEW q \in ClaimIds, q \in DOMAIN s.claims
  PROVE  WentThrough(s, q)
<1> DEFINE x == SubSeq(q, 1, Len(q))
<1>1. q \in Seq(Places) /\ Len(q) \in Nat
  BY DEF ClaimIds
<1>2. x \in Seq(Places) /\ Len(x) = Len(q) /\ \A m \in 1 .. Len(q) : x[m] = q[m]
  BY <1>1, PrefixIs
<1> HIDE DEF x
<1>3. x = q
  BY <1>1, <1>2
<1> QED BY <1>1, <1>3 DEF WentThrough, x

\* A domain's nonce is of one event.
LEMMA SentOnce ==
  ASSUME ContentOK, NEW i \in DOMAIN content, NEW j \in DOMAIN content,
         Type(i) \in {"transfer", "pot-release"}, Type(j) \in {"transfer", "pot-release"},
         content[i].payload.nonce = content[j].payload.nonce,
         content[i].payload.nonce[1] \in Replicas
  PROVE  i = j
<1>1. ASSUME NEW k \in {i, j}
      PROVE  \E p : Parents(k) = {p} /\ content[k].payload.nonce = <<Domain(k), p>>
  <2> DEFINE e == content[k].payload
  <2>1. PICK p \in DOMAIN content : Follows(k, p)
    BY ContentFields
  <2>2. Type(k) = e.type /\ Domain(k) = e.domain /\ Type(k) \in {"transfer", "pot-release"} /\ e.nonce[1] \in Replicas
    BY ContentFields
  <2>3. Parents(k) = {p} /\ Says(e, p)
    BY <2>1 DEF Follows
  <2> HIDE DEF e
  <2>4. e.nonce = <<e.domain, p>> \/ e.nonce = <<Pot, e.proof.cycle, e.claim>>
    BY <2>2, <2>3 DEF Says
  <2>5. e.nonce # <<Pot, e.proof.cycle, e.claim>>
    <3>1. <<Pot, e.proof.cycle, e.claim>>[1] = Pot
      OBVIOUS
    <3>2. Pot \notin Replicas
      BY PoolAssumption
    <3> HIDE DEF e
    <3> QED BY <2>2, <3>1, <3>2
  <2> QED BY <2>2, <2>3, <2>4, <2>5 DEF e
<1>2. PICK p : Parents(i) = {p} /\ content[i].payload.nonce = <<Domain(i), p>>
  BY <1>1
<1>3. PICK q : Parents(j) = {q} /\ content[j].payload.nonce = <<Domain(j), q>>
  BY <1>1
<1>4. Domain(i) = Domain(j) /\ p = q
  <2>1. <<Domain(i), p>> = <<Domain(j), q>>
    BY <1>2, <1>3
  <2>2. \A a, b, x, y : <<a, b>> = <<x, y>> => a = x /\ b = y
    OBVIOUS
  <2> QED BY <2>1, <2>2
<1> QED BY <1>2, <1>3, <1>4 DEF ContentOK

\* What a claim went through, it went through for good.
LEMMA Lasts ==
  ASSUME ContentOK, NEW S, NEW order, Ordered(order, S), NEW v, NEW s, Along(order, v, s),
         NEW i \in 0 .. Len(order), NEW j \in i .. Len(order), NEW q \in ClaimIds, WentThrough(s[i], q)
  PROVE  WentThrough(s[j], q)
<1> DEFINE n == Len(order)
           V == {k \in 0 .. n : k >= i => WentThrough(s[k], q)}
<1>1. n \in Nat /\ \A k \in 1 .. n : order[k] \in DOMAIN content /\ s[k - 1] \in States
                                  /\ s[k] = ApplyConservation(s[k - 1], order[k], v)
  BY DEF Ordered, Along
<1>2. 0 \in V
  BY <1>1
<1>3. ASSUME NEW k \in 0 .. (n - 1), k \in V PROVE k + 1 \in V
  <2> DEFINE m == k + 1
  <2>1. m \in 1 .. n /\ m - 1 = k
    BY <1>1
  <2> HIDE DEF m
  <2>2. CASE m = i
    BY <1>1, <2>1, <2>2 DEF m
  <2>3. CASE m > i
    <3>1. WentThrough(s[m - 1], q)
      BY <1>1, <1>3, <2>1, <2>3
    <3>2. WentThrough(s[m], q)
      BY <1>1, <2>1, <3>1, ApplyKeeps
    <3> QED BY <1>1, <2>1, <3>2 DEF m
  <2>4. CASE m < i
    BY <1>1, <2>1, <2>4 DEF m
  <2> QED BY <1>1, <2>1, <2>2, <2>3, <2>4
<1>4. 0 .. n \subseteq V
  <2> HIDE DEF V
  <2> QED BY <1>1, <1>2, <1>3, Induction
<1> QED BY <1>1, <1>4

\* A claim was first moved by a transfer of its first owner's.
LEMMA FirstMove ==
  ASSUME ContentOK, Apart, NEW S, NEW order, Ordered(order, S), NEW i \in 0 .. Len(order), NEW v,
         NEW s \in States, Sound(order, i, v, s), NEW c \in DOMAIN s.claims, Len(c) >= 2
  PROVE  \E j \in 1 .. i : /\ Type(order[j]) = "transfer"
                           /\ content[order[j]].payload.claim = <<c[1]>> /\ content[order[j]].payload.to = c[2]
<1>1. c \in ClaimIds
  BY ClaimMapIs DEF States
<1>2. SubSeq(c, 1, 1) = <<c[1]>> /\ 1 \in 1 .. Len(c) - 1
  BY <1>1, ShortIs DEF ClaimIds
<1>3. c[1] \in Replicas /\ Carried(order, i, v, c, 1)
  BY <1>2 DEF Sound, Traced
<1>4. PICK j \in 1 .. i :
        LET e == content[order[j]].payload
        IN  /\ e.claim = SubSeq(c, 1, 1) /\ e.from = c[1] /\ e.to = c[1 + 1]
            /\ Type(order[j]) = "transfer" \/ Type(order[j]) = "pot-release"
  BY <1>3 DEF Carried
<1>5. order[j] \in DOMAIN content
  BY DEF Ordered
<1>6. Type(order[j]) # "pot-release"
  <2>1. Type(order[j]) = "pot-release" => content[order[j]].payload.from \in {Pot, Escrow}
    BY <1>5, ReleaseIs DEF Address
  <2> QED BY <1>3, <1>4, <2>1, PoolAssumption
<1> QED BY <1>2, <1>4, <1>6

\* Wherever a domain has written, its claim has been.
LEMMA Issued ==
  ASSUME ContentOK, NEW S, NEW order, Ordered(order, S), NEW v, NEW s, Along(order, v, s)
  PROVE  \A i \in 1 .. Len(order) : Domain(order[i]) \in Replicas /\ WentThrough(s[i], <<Domain(order[i])>>)
<1> DEFINE n == Len(order)
           Was(i) == WentThrough(s[i], <<Domain(order[i])>>)
           V == {k \in 0 .. n : \A i \in 1 .. k : Was(i)}
<1>1. n \in Nat /\ \A k \in 1 .. n : order[k] \in DOMAIN content /\ s[k - 1] \in States
                                  /\ s[k] = ApplyConservation(s[k - 1], order[k], v)
  BY DEF Ordered, Along
<1>2. \A i \in 1 .. n : Domain(order[i]) \in Replicas /\ <<Domain(order[i])>> \in ClaimIds
  <2> TAKE i \in 1 .. n
  <2>1. Domain(order[i]) \in Replicas
    BY <1>1, ContentFields
  <2> QED BY <2>1 DEF ClaimIds, Places
<1>3. 0 \in V
  BY <1>1
<1>4. ASSUME NEW k \in 0 .. (n - 1), k \in V PROVE k + 1 \in V
  <2> DEFINE m == k + 1
             id == order[m]
             d == Domain(id)
  <2>1. m \in 1 .. n /\ m - 1 = k /\ \A i \in 1 .. m - 1 : Was(i)
    <3>1. \A i \in 1 .. k : Was(i)
      BY <1>4
    <3>2. m \in 1 .. n /\ m - 1 = k
      BY <1>1
    <3> HIDE DEF m, Was
    <3> QED BY <3>1, <3>2
  <2>2. id \in DOMAIN content /\ s[m - 1] \in States /\ s[m] = ApplyConservation(s[m - 1], id, v)
        /\ d \in Replicas /\ <<d>> \in ClaimIds
    BY <1>1, <1>2, <2>1
  <2>3. content[id].payload.domain = d
    BY DEF Domain
  <2> HIDE DEF Was, m
  <2>4. ASSUME Type(id) = "claim-issue" PROVE Was(m)
    <3>1. Issues(s[m - 1], s[m], id)
      <4>1. Issues(s[m - 1], s[m], id) \/ MovesBy(v, s[m - 1], s[m], id) \/ Passes(v, s[m - 1], s[m], id)
        BY <2>2, ApplyIs
      <4> QED BY <2>4, <4>1 DEF MovesBy, Passes
    <3>2. <<d>> \in DOMAIN s[m].claims
      BY <2>3, <3>1 DEF Issues, Activated
    <3>3. WentThrough(s[m], <<d>>)
      BY <2>2, <3>2, ThereItWent
    <3> QED BY <3>3 DEF Was
  <2>5. ASSUME Type(id) # "claim-issue" PROVE Was(m)
    <3>1. PICK p \in DOMAIN content : Follows(id, p)
      BY <2>2, <2>5, ContentFields
    <3>2. PICK j \in 1 .. (m - 1) : order[j] = p
      BY <2>1, <3>1 DEF Follows, Ordered
    <3>3. Domain(order[j]) = d /\ Was(j)
      BY <2>1, <3>1, <3>2 DEF Follows
    <3>4. WentThrough(s[j], <<d>>)
      BY <3>3 DEF Was
    <3>5. j \in 0 .. Len(order) /\ m \in j .. Len(order)
      BY <1>1, <2>1, <3>2
    <3> HIDE DEF d
    <3>6. WentThrough(s[m], <<d>>)
      BY <2>2, <3>4, <3>5, Lasts
    <3> QED BY <3>6 DEF Was, d
  <2>6. Was(m)
    BY <2>4, <2>5
  <2>7. \A i \in 1 .. m : Was(i)
    BY <2>1, <2>6
  <2> QED BY <1>1, <2>1, <2>7 DEF m
<1>5. 0 .. n \subseteq V
  <2> HIDE DEF V
  <2> QED BY <1>1, <1>3, <1>4, Induction
<1>6. n \in V
  BY <1>1, <1>5
<1> QED BY <1>2, <1>6

-----------------------------------------------------------------------------
(* Deposits: the transfers of claims that were issued                      *)

Deposits == {id \in DOMAIN content : Type(id) = "transfer" /\ Len(content[id].payload.claim) = 1}

UniqueDeposits ==
  \A i, j \in Deposits : content[i].payload.claim = content[j].payload.claim => i = j

\* A deposit is of the claim that its domain issued.
LEMMA DepositIs ==
  ASSUME ContentOK, NEW id \in Deposits
  PROVE  LET e == content[id].payload
         IN  /\ id \in DOMAIN content /\ Type(id) = "transfer"
             /\ e.claim = <<Domain(id)>> /\ e.from = Domain(id) /\ Domain(id) \in Replicas
             /\ e.to = (IF plugin.name = "escrow" THEN Escrow ELSE Pot) /\ e.to \in {Pot, Escrow}
             /\ e.nonce[1] = Domain(id) /\ \E p \in DOMAIN content : Follows(id, p)
<1> DEFINE e == content[id].payload
<1>1. id \in DOMAIN content /\ Type(id) = "transfer" /\ Len(e.claim) = 1
  BY DEF Deposits
<1>2. /\ Domain(id) = e.domain /\ e.domain \in Replicas /\ Type(id) = e.type
      /\ e.claim \in ClaimIds /\ e.to \in {Pot, Escrow}
  BY <1>1, ContentFields
<1>3. PICK p \in DOMAIN content : Follows(id, p)
  BY <1>1, ContentFields
<1> HIDE DEF e
<1>4. /\ e.from = e.domain /\ e.nonce = <<e.domain, p>>
      /\ e.claim[Len(e.claim)] = e.domain
      /\ e.to = IF plugin.name = "escrow" THEN Escrow ELSE Pot
  BY <1>1, <1>2, <1>3 DEF Follows, Says, e
<1>5. e.claim = <<e.claim[1]>> /\ e.claim[1] = e.domain
  BY <1>1, <1>2, <1>4, ShortIs DEF ClaimIds
<1> QED BY <1>1, <1>2, <1>3, <1>4, <1>5 DEF e

\* After a deposit its claim has moved.
LEMMA DepositMoves ==
  ASSUME ContentOK, NEW S, NEW order, Ordered(order, S), NEW v, NEW s, Along(order, v, s),
         NEW i \in 1 .. Len(order), order[i] \in Deposits
  PROVE  \E c \in DOMAIN s[i].claims : c \in ClaimIds /\ Len(c) >= 2 /\ c[1] = Domain(order[i])
<1> DEFINE id == order[i]
           e == content[id].payload
           d == Domain(id)
           Moved2(c) == c \in ClaimIds /\ Len(c) >= 2 /\ c[1] = d
           Goal == \E c \in DOMAIN s[i].claims : Moved2(c)
<1> SUFFICES Goal
  OBVIOUS
<1>1. /\ id \in DOMAIN content /\ Type(id) = "transfer" /\ e.claim = <<d>> /\ e.from = d
      /\ e.to \in Places /\ d \in Replicas /\ e.nonce[1] = d
  BY DepositIs DEF Places
<1>2. PICK p \in DOMAIN content : Follows(id, p)
  BY DepositIs
<1>3. PICK j \in 1 .. (i - 1) : order[j] = p
  BY <1>2 DEF Follows, Ordered
<1>4. /\ Len(order) \in Nat /\ i - 1 \in 0 .. Len(order) /\ i \in 0 .. Len(order)
      /\ j \in 1 .. Len(order) /\ j \in 0 .. Len(order) /\ i - 1 \in j .. Len(order)
  BY <1>3 DEF Ordered
<1>5. <<d>> \in ClaimIds
  BY <1>1 DEF ClaimIds, Places
<1>6. WentThrough(s[i - 1], <<d>>)
  <2>1. WentThrough(s[j], <<d>>)
    BY <1>2, <1>3, <1>4, Issued DEF Follows
  <2> HIDE DEF d
  <2> QED BY <1>4, <1>5, <2>1, Lasts
<1>7. PICK c \in DOMAIN s[i - 1].claims : Len(<<d>>) <= Len(c) /\ SubSeq(c, 1, Len(<<d>>)) = <<d>>
  BY <1>6 DEF WentThrough
<1>8. s[i - 1] \in States /\ Sound(order, i - 1, v, s[i - 1]) /\ s[i] \in States
  BY <1>4, SoundViews DEF Along
<1>9. s[i] = ApplyConservation(s[i - 1], id, v)
  BY DEF Along
<1>10. c \in ClaimIds
  BY <1>8, ClaimMapIs DEF States
<1> HIDE DEF d, e, id, Goal
<1>11. Len(c) \in Nat /\ Len(c) >= 1 /\ c[1] = d
  <2>1. Len(<<d>>) = 1 /\ <<d>>[1] = d
    OBVIOUS
  <2>2. SubSeq(c, 1, 1) = <<c[1]>> /\ Len(c) \in Nat
    BY <1>7, <1>10, <2>1, ShortIs DEF ClaimIds
  <2> QED BY <1>7, <2>1, <2>2
<1>12. CASE Len(c) = 1
  <2>1. c = <<d>>
    BY <1>10, <1>11, <1>12, ShortIs DEF ClaimIds
  <2>2. s[i - 1].claims[c].owner = d
    <3>1. s[i - 1].claims[c].owner = c[Len(c)]
      BY <1>7, <1>8 DEF Sound, Traced
    <3> QED BY <1>11, <1>12, <3>1
  <2>3. e.nonce \notin s[i - 1].nonces
    <3> SUFFICES ASSUME e.nonce \in s[i - 1].nonces PROVE FALSE
      OBVIOUS
    <3>1. PICK k \in 1 .. (i - 1) : /\ Type(order[k]) \in {"transfer", "pot-release"}
                                    /\ content[order[k]].payload.nonce = e.nonce
      BY <1>8 DEF Sound, Spent
    <3>2. k \in 1 .. Len(order) /\ order[k] \in DOMAIN content /\ k # i
      BY <1>4 DEF Ordered
    <3>3. order[k] = id
      BY <1>1, <3>1, <3>2, SentOnce DEF e
    <3> QED BY <3>2, <3>3 DEF Ordered, id
  <2>4. Moves(s[i - 1], e)
    BY <1>1, <1>7, <2>1, <2>2, <2>3 DEF Moves
  <2>5. MovesBy(v, s[i - 1], s[i], id)
    <3>1. Issues(s[i - 1], s[i], id) \/ MovesBy(v, s[i - 1], s[i], id) \/ Passes(v, s[i - 1], s[i], id)
      BY <1>1, <1>8, <1>9, ApplyIs
    <3> QED BY <1>1, <2>4, <3>1 DEF Issues, Passes, e
  <2>6. MovedTo(e) \in DOMAIN s[i].claims
    BY <2>5 DEF MovesBy, Moved, e
  <2>7. MovedTo(e) \in ClaimIds /\ Len(MovedTo(e)) = 2 /\ MovedTo(e)[1] = d
    BY <1>1, <1>5, <1>11, <1>12, <2>1, AppendIs DEF MovedTo, ClaimIds
  <2>8. \E x \in DOMAIN s[i].claims : Moved2(x)
    <3> DEFINE x == MovedTo(e)
    <3>1. x \in DOMAIN s[i].claims /\ Moved2(x)
      BY <2>6, <2>7
    <3> QED BY <3>1
  <2> QED BY <2>8 DEF Goal
<1>13. CASE Len(c) >= 2
  <2> DEFINE q == <<c[1], c[2]>>
  <2>1. q \in ClaimIds /\ Len(q) = 2 /\ SubSeq(c, 1, 2) = q
    BY <1>10, <1>13, ShortIs DEF ClaimIds
  <2>2. q[1] = d
    BY <1>11
  <2> HIDE DEF q
  <2>3. WentThrough(s[i - 1], q)
    BY <1>7, <1>13, <2>1 DEF WentThrough
  <2>4. WentThrough(s[i], q)
    BY <1>1, <1>8, <1>9, <2>1, <2>3, ApplyKeeps
  <2>5. PICK x \in DOMAIN s[i].claims : 2 <= Len(x) /\ SubSeq(x, 1, 2) = q
    BY <2>1, <2>4 DEF WentThrough
  <2>6. x \in ClaimIds
    BY <1>8, ClaimMapIs DEF States
  <2>7. q = <<x[1], x[2]>>
    BY <2>5, <2>6, ShortIs DEF ClaimIds
  <2>8. x[1] = d
    BY <2>2, <2>7
  <2>9. Moved2(x)
    BY <2>5, <2>6, <2>8
  <2> QED BY <2>5, <2>9 DEF Goal
<1>14. Len(c) = 1 \/ Len(c) >= 2
  <2>1. \A m \in Nat : m >= 1 => m = 1 \/ m >= 2
    OBVIOUS
  <2> QED BY <1>11, <2>1
<1> QED BY <1>12, <1>13, <1>14

\* And, if it was not deposited elsewhere, to where the deposit says.
LEMMA DepositReaches ==
  ASSUME ContentOK, Apart, UniqueDeposits, NEW S, NEW order, Ordered(order, S), NEW v, NEW s, Along(order, v, s),
         NEW i \in 1 .. Len(order), order[i] \in Deposits
  PROVE  \A k \in i .. Len(order) :
           \E c \in DOMAIN s[k].claims :
             /\ c \in ClaimIds /\ Len(c) >= 2 /\ c[1] = Domain(order[i])
             /\ c[2] = content[order[i]].payload.to
<1> TAKE k \in i .. Len(order)
<1> DEFINE d == Domain(order[i])
           to == content[order[i]].payload.to
<1>1. content[order[i]].payload.claim = <<d>> /\ d \in Replicas /\ to \in Places
  BY DepositIs DEF Places
<1>2. Len(order) \in Nat /\ i \in 0 .. Len(order) /\ k \in i .. Len(order) /\ k \in 0 .. Len(order)
  BY DEF Ordered
<1>3. PICK c \in DOMAIN s[i].claims : c \in ClaimIds /\ Len(c) >= 2 /\ c[1] = d
  BY DepositMoves
<1>4. s[i] \in States /\ Sound(order, i, v, s[i]) /\ s[k] \in States
  BY <1>2, SoundViews DEF Along
<1>5. c[2] = to
  <2>1. PICK j \in 1 .. i : /\ Type(order[j]) = "transfer"
                            /\ content[order[j]].payload.claim = <<c[1]>> /\ content[order[j]].payload.to = c[2]
    <3>1. \A c1 \in DOMAIN s[i].claims : Len(c1) >= 2 =>
            \E j \in 1 .. i : /\ Type(order[j]) = "transfer"
                              /\ content[order[j]].payload.claim = <<c1[1]>> /\ content[order[j]].payload.to = c1[2]
      <4> DEFINE t == s[i]
      <4>1. t \in States /\ Sound(order, i, v, t)
        BY <1>4
      <4> HIDE DEF t, d, to
      <4>2. \A c1 \in DOMAIN t.claims : Len(c1) >= 2 =>
              \E j \in 1 .. i : /\ Type(order[j]) = "transfer"
                                /\ content[order[j]].payload.claim = <<c1[1]>> /\ content[order[j]].payload.to = c1[2]
        BY ONLY <4>1, <1>2, ContentOK, Apart, Ordered(order, S), FirstMove
      <4> QED BY <4>2 DEF t
    <3> QED BY <1>3, <3>1
  <2>2. order[j] \in DOMAIN content /\ Len(<<c[1]>>) = 1
    BY <1>2 DEF Ordered
  <2>3. order[j] \in Deposits
    BY <2>1, <2>2 DEF Deposits
  <2>4. order[j] = order[i]
    BY <1>1, <1>3, <2>1, <2>3 DEF UniqueDeposits
  <2> QED BY <2>1, <2>4
<1> DEFINE q == <<d, to>>
<1>6. q \in ClaimIds /\ Len(q) = 2 /\ q[1] = d /\ q[2] = to
  BY <1>1 DEF ClaimIds, Places
<1>7. SubSeq(c, 1, 2) = q
  BY <1>3, <1>5, ShortIs DEF ClaimIds
<1> HIDE DEF q, d, to
<1>8. WentThrough(s[i], q)
  BY <1>3, <1>6, <1>7 DEF WentThrough
<1>9. WentThrough(s[k], q)
  BY <1>2, <1>6, <1>8, Lasts
<1>10. PICK x \in DOMAIN s[k].claims : 2 <= Len(x) /\ SubSeq(x, 1, 2) = q
  BY <1>6, <1>9 DEF WentThrough
<1>11. x \in ClaimIds
  BY <1>4, ClaimMapIs DEF States
<1>12. q = <<x[1], x[2]>>
  BY <1>10, <1>11, ShortIs DEF ClaimIds
<1>13. x[1] = d /\ x[2] = to
  BY <1>6, <1>12
<1> QED BY <1>10, <1>11, <1>13 DEF d, to

-----------------------------------------------------------------------------
(* Donations                                                               *)

UniquePurse(d) == \A x \in Replicas \ {d} : plugin.purse[x] # plugin.purse[d]

Contributed(q) == \E id \in DOMAIN content : Type(id) = "pool-contribute" /\ content[id].payload.claim = q

(* What a contribution names was deposited; and it names what was given    *)
(* just before, if that was the giver's own claim and none is worth as     *)
(* much.                                                                   *)
NamesGift(id) ==
  LET q == content[id].payload.claim
  IN  /\ q # << >> => \E t \in Deposits : content[t].payload.claim = <<q[1]>>
      /\ \A t \in Parents(id) \cap Deposits : UniquePurse(Domain(t)) => q = <<Domain(t), Pot>>

(* Until a domain contributes what it gave, nobody else has; unless it was *)
(* a prize, which was a contribution before.                               *)
GivenOK(r) ==
  doing[r].kind = "given" =>
    LET c == content[lastEventId[r]].payload.claim
    IN  /\ c[1] \in Replicas
        /\ Len(c) > 1 => Contributed(<<c[1], Pot>>)
        /\ Len(c) = 1 /\ UniquePurse(r) => ~ Contributed(<<r, Pot>>)

DonationInv ==
  /\ UniqueDeposits
  /\ \A id \in DOMAIN content : Type(id) = "pool-contribute" => NamesGift(id)
  /\ \A r \in Replicas : GivenOK(r)

\* What backs a contribution in a view was named by one.
LEMMA UsedWasNamed ==
  ASSUME BaseInv, NEW r \in Replicas, NEW c \in UsedClaims(PoolView(r))
  PROVE  Contributed(c)
<1>1. PoolSound(TopoOrder(r), Len(TopoOrder(r)), Provisional(TopoOrder(r)).claims, PoolView(r))
  BY PoolViewSound DEF BaseInv
<1>2. PICK j \in 1 .. Len(TopoOrder(r)) :
        Type(TopoOrder(r)[j]) = "pool-contribute" /\ content[TopoOrder(r)[j]].payload.claim = c
  BY <1>1 DEF PoolSound
<1>3. TopoOrder(r)[j] \in DOMAIN content
  BY OrderIs DEF BaseInv
<1> QED BY <1>2, <1>3 DEF Contributed

\* A claim that a view lets out of the pot was contributed.
LEMMA PrizeWasNamed ==
  ASSUME BaseInv, Apart, NEW r \in Replicas, NEW c \in DOMAIN Conservation(r).claims, Len(c) >= 3, c[2] = Pot
  PROVE  Contributed(<<c[1], Pot>>)
<1>1. c \in ClaimIds
  BY ClaimsAre DEF BaseInv
<1>2. Len(c) \in Nat /\ 2 \in 1 .. Len(c) - 1 /\ SubSeq(c, 1, 2) = <<c[1], c[2]>>
  BY <1>1, ShortIs DEF ClaimIds
<1>3. PICK k \in DOMAIN PoolView(r).cycles : InCycle(PoolView(r), k, SubSeq(c, 1, 2))
  <2>1. Drawn(r, c, 2) \/ ByContract(r, c, 2)
    BY <1>2, PrizesAreDrawn DEF BaseInv, PrizesGoToWinners
  <2>2. ~ ByContract(r, c, 2)
    <3> SUFFICES ASSUME NEW id \in dag[r], content[id].payload.type = "pot-release",
                        content[id].payload.proof.type = "contract", content[id].payload.from = Pot
                 PROVE  FALSE
      BY DEF ByContract
    <3>1. id \in DOMAIN content /\ ContentOK /\ Type(id) = "pot-release"
      BY DEF BaseInv, DagInv, Type
    <3>2. content[id].payload.proof.type = "pool"
      BY <3>1, ReleaseIs DEF PoolRelease
    <3> QED BY <3>2
  <2> QED BY <2>1, <2>2 DEF Drawn
<1>4. SubSeq(c, 1, 2) \in UsedClaims(PoolView(r))
  BY <1>3, UsedIs DEF InCycle
<1> QED BY <1>2, <1>4, UsedWasNamed

\* With a jackpot, what has moved has moved to the pot first.
LEMMA FirstToPot ==
  ASSUME BaseInv, Apart, plugin.name # "escrow", NEW r \in Replicas,
         NEW c \in DOMAIN Conservation(r).claims, Len(c) >= 2
  PROVE  c[2] = Pot /\ \E t \in Deposits : content[t].payload.claim = <<c[1]>>
<1> DEFINE order == TopoOrder(r)
           n == Len(order)
<1>1. PICK s : /\ Conservation(r) = s[n]
               /\ \A i \in 0 .. n : s[i] \in States /\ Sound(order, i, View(r), s[i])
  BY ConservationIs DEF BaseInv
<1>2. Ordered(order, dag[r]) /\ n \in Nat /\ ContentOK
  BY OrderIs DEF BaseInv
<1> HIDE DEF order
<1>3. s[n] \in States /\ Sound(order, n, View(r), s[n]) /\ n \in 0 .. Len(order) /\ c \in DOMAIN s[n].claims
  BY <1>1, <1>2
<1>4. PICK j \in 1 .. n : /\ Type(order[j]) = "transfer"
                          /\ content[order[j]].payload.claim = <<c[1]>> /\ content[order[j]].payload.to = c[2]
  <2> DEFINE t == s[n]
             v == View(r)
             S == dag[r]
             Moved1(j, x) == /\ Type(order[j]) = "transfer"
                             /\ content[order[j]].payload.claim = <<x[1]>> /\ content[order[j]].payload.to = x[2]
  <2>1. t \in States /\ Sound(order, n, v, t) /\ n \in 0 .. Len(order) /\ c \in DOMAIN t.claims
    BY <1>3
  <2>2. Ordered(order, S) /\ ContentOK
    BY <1>2
  <2> HIDE DEF t, n, v, S
  <2>3. \E j \in 1 .. n : Moved1(j, c)
    BY <2>1, <2>2, FirstMove
  <2> QED BY <2>3
<1>5. order[j] \in DOMAIN content /\ Len(<<c[1]>>) = 1
  BY <1>2, <1>4 DEF Ordered
<1>6. order[j] \in Deposits
  BY <1>4, <1>5 DEF Deposits
<1>7. c[2] = Pot
  BY <1>2, <1>4, <1>6, DepositIs
<1> QED BY <1>4, <1>6, <1>7

\* A replica knows its own events, so what it has deposited has moved on.
LEMMA OwnDeposit ==
  ASSUME BaseInv, Apart, UniqueDeposits, NEW r \in Replicas, NEW t \in Deposits, Domain(t) = r
  PROVE  \E c \in DOMAIN Conservation(r).claims :
           c \in ClaimIds /\ Len(c) >= 2 /\ c[1] = r /\ c[2] = content[t].payload.to
<1> DEFINE order == TopoOrder(r)
           n == Len(order)
<1>1. PICK s : Along(order, View(r), s) /\ Conservation(r) = s[n]
  BY ConservationIs DEF BaseInv
<1>2. Ordered(order, dag[r]) /\ n \in Nat /\ ContentOK
  BY OrderIs DEF BaseInv
<1> HIDE DEF order
<1>3. t \in dag[r]
  BY DEF BaseInv, TipsOK, TipOK, Deposits
<1>4. PICK i \in 1 .. n : order[i] = t
  BY <1>2, <1>3 DEF Ordered
<1>5. n \in i .. Len(order)
  BY <1>2, <1>4
<1>6. \E c \in DOMAIN s[n].claims :
        /\ c \in ClaimIds /\ Len(c) >= 2 /\ c[1] = Domain(order[i])
        /\ c[2] = content[order[i]].payload.to
  BY <1>1, <1>2, <1>4, <1>5, DepositReaches
<1> QED BY <1>1, <1>4, <1>6

\* A replica's view has one live claim of each domain's.
LEMMA OneLiveEach ==
  ASSUME BaseInv, NEW r \in Replicas
  PROVE  /\ OneEach(Conservation(r))
         /\ \A c \in DOMAIN Conservation(r).claims :
              \E i \in DOMAIN Conservation(r).order : Conservation(r).order[i] = c
<1>1. PICK s : /\ Conservation(r) = s[Len(TopoOrder(r))]
               /\ \A i \in 0 .. Len(TopoOrder(r)) : s[i] \in States /\ Sound(TopoOrder(r), i, View(r), s[i])
  BY ConservationIs DEF BaseInv
<1>2. Len(TopoOrder(r)) \in 0 .. Len(TopoOrder(r))
  BY OrderIs DEF BaseInv
<1>3. Sound(TopoOrder(r), Len(TopoOrder(r)), View(r), Conservation(r))
  BY <1>1, <1>2
<1> QED BY <1>3 DEF Sound, Traced

\* What a domain can give was not deposited yet.
LEMMA NotDeposited ==
  ASSUME BaseInv, Apart, UniqueDeposits, NEW r \in Replicas, NEW c \in Owned(r), Len(c) = 1
  PROVE  c = <<r>> /\ \A t \in Deposits : content[t].payload.claim # c
<1>1. c \in ClaimIds /\ c[Len(c)] = r /\ c \in DOMAIN Conservation(r).claims
  BY OwnedIs DEF Owned
<1>2. c = <<r>> /\ c[1] = r
  BY <1>1, ShortIs DEF ClaimIds
<1>3. ASSUME NEW t \in Deposits, content[t].payload.claim = c PROVE FALSE
  <2>1. <<Domain(t)>> = <<r>>
    BY <1>2, <1>3, DepositIs DEF BaseInv
  <2>2. Domain(t) = r
    BY <2>1
  <2>3. PICK x \in DOMAIN Conservation(r).claims : Len(x) >= 2 /\ x[1] = r
    BY <2>2, OwnDeposit
  <2>4. x = c
    BY <1>1, <1>2, <2>3, OneLiveEach DEF OneEach
  <2>5. ~ (1 >= 2)
    OBVIOUS
  <2> QED BY <1>2, <2>3, <2>4, <2>5
<1> QED BY <1>2, <1>3

\* What a post adds to the deposits and to what is contributed.
LEMMA NewDeposits ==
  ASSUME NEW r \in Replicas, NEW e, NEW id, NewEvent(r, e, id)
  PROVE  /\ \A t : t \in Deposits' <=> t \in Deposits \/ (t = id /\ e.type = "transfer" /\ Len(e.claim) = 1)
         /\ \A q : Contributed(q)' <=> Contributed(q) \/ (e.type = "pool-contribute" /\ e.claim = q)
         /\ Deposits \subseteq DOMAIN content
<1>1. /\ \A i \in DOMAIN content : /\ i \in DOMAIN content' /\ Type(i)' = Type(i)
                                   /\ content'[i] = content[i]
      /\ \A i \in DOMAIN content' : i \in DOMAIN content \/ i = id
      /\ Type(id)' = e.type /\ content'[id].payload = e /\ id \in DOMAIN content'
  BY OldEvents
<1>2. ASSUME NEW t
      PROVE  t \in Deposits' <=> t \in Deposits \/ (t = id /\ e.type = "transfer" /\ Len(e.claim) = 1)
  <2>1. t \in Deposits' <=> t \in DOMAIN content' /\ Type(t)' = "transfer"
                             /\ Len(content'[t].payload.claim) = 1
    BY DEF Deposits
  <2>2. id \notin DOMAIN content
    BY DEF NewEvent
  <2> QED BY <1>1, <2>1, <2>2 DEF Deposits
<1>3. ASSUME NEW q
      PROVE  Contributed(q)' <=> Contributed(q) \/ (e.type = "pool-contribute" /\ e.claim = q)
  <2>1. Contributed(q)' <=> \E i \in DOMAIN content' : /\ Type(i)' = "pool-contribute"
                                                       /\ content'[i].payload.claim = q
    BY DEF Contributed
  <2> QED BY <1>1, <2>1 DEF Contributed
<1> QED BY <1>2, <1>3 DEF Deposits

LEMMA DonationPost ==
  ASSUME BaseInv, DonationInv, NEW r \in Replicas, NEW e, e.domain = r, NEW id, NewEvent(r, e, id),
         e.type = "transfer" /\ Len(e.claim) = 1 => \A t \in Deposits : content[t].payload.claim # e.claim,
         e.type = "pool-contribute" =>
           /\ e.claim # << >> => \E t \in Deposits : content[t].payload.claim = <<e.claim[1]>>
           /\ lastEventId[r] \in Deposits /\ UniquePurse(r) => e.claim = <<r, Pot>>
           /\ \A s \in Replicas \ {r} :
                doing[s].kind = "given" /\ UniquePurse(s) /\ Len(content[lastEventId[s]].payload.claim) = 1
                  => e.claim # <<s, Pot>>,
         \A s \in Replicas \ {r} : doing'[s] = doing[s], GivenOK(r)'
  PROVE  DonationInv'
<1>1. /\ \A i \in DOMAIN content : /\ i \in DOMAIN content' /\ i # id
                                   /\ Type(i)' = Type(i) /\ Domain(i)' = Domain(i) /\ Parents(i)' = Parents(i)
                                   /\ content'[i] = content[i]
      /\ \A i \in DOMAIN content' : i \in DOMAIN content \/ i = id
      /\ Type(id)' = e.type /\ Parents(id)' = {lastEventId[r]}
      /\ content'[id].payload = e /\ id \in DOMAIN content'
  BY OldEvents
<1>2. /\ \A t : t \in Deposits' <=> t \in Deposits \/ (t = id /\ e.type = "transfer" /\ Len(e.claim) = 1)
      /\ \A q : Contributed(q)' <=> Contributed(q) \/ (e.type = "pool-contribute" /\ e.claim = q)
      /\ Deposits \subseteq DOMAIN content
  BY NewDeposits
<1>3. plugin' = plugin /\ id \notin DOMAIN content /\ \A s \in Replicas \ {r} : lastEventId'[s] = lastEventId[s]
  BY DEF NewEvent, BaseInv, TipsOK
<1>4. \A s \in Replicas : lastEventId[s] \in DOMAIN content /\ Domain(lastEventId[s]) = s
  BY DEF BaseInv, TipsOK, TipOK, DagInv
<1>5. UniqueDeposits'
  <2> SUFFICES ASSUME NEW i \in Deposits', NEW j \in Deposits',
                      content'[i].payload.claim = content'[j].payload.claim
               PROVE  i = j
    BY DEF UniqueDeposits
  <2>1. CASE i \in Deposits /\ j \in Deposits
    <3>1. content[i].payload.claim = content[j].payload.claim
      BY <1>1, <1>2, <2>1
    <3> QED BY <2>1, <3>1 DEF DonationInv, UniqueDeposits
  <2>2. CASE i \in Deposits /\ j = id
    <3>1. content[i].payload.claim = e.claim
      BY <1>1, <1>2, <2>2
    <3> QED BY <1>1, <1>2, <1>3, <2>2, <3>1
  <2>3. CASE i = id /\ j \in Deposits
    <3>1. content[j].payload.claim = e.claim
      BY <1>1, <1>2, <2>3
    <3> QED BY <1>1, <1>2, <1>3, <2>3, <3>1
  <2> QED BY <1>2, <2>1, <2>2, <2>3
<1>6. ASSUME NEW i \in DOMAIN content', Type(i)' = "pool-contribute" PROVE NamesGift(i)'
  <2> DEFINE q == content'[i].payload.claim
  <2>1. SUFFICES /\ q # << >> => \E t \in Deposits' : content'[t].payload.claim = <<q[1]>>
                 /\ \A t \in Parents(i)' \cap Deposits' :
                      UniquePurse(Domain(t))' => q = <<Domain(t)', Pot>>
    BY DEF NamesGift
  <2>2. \A d : UniquePurse(d)' <=> UniquePurse(d)
    BY <1>3 DEF UniquePurse
  <2>3. CASE i \in DOMAIN content
    <3>1. q = content[i].payload.claim /\ NamesGift(i) /\ Parents(i)' = Parents(i)
      BY <1>1, <1>6, <2>3 DEF DonationInv
    <3> HIDE DEF q
    <3>2. q # << >> => \E t \in Deposits' : content'[t].payload.claim = <<q[1]>>
      <4> SUFFICES ASSUME q # << >> PROVE \E t \in Deposits' : content'[t].payload.claim = <<q[1]>>
        OBVIOUS
      <4>1. PICK t \in Deposits : content[t].payload.claim = <<q[1]>>
        BY <3>1 DEF NamesGift
      <4> QED BY <1>1, <1>2, <4>1
    <3>3. ASSUME NEW t \in Parents(i)' \cap Deposits', UniquePurse(Domain(t))' PROVE q = <<Domain(t)', Pot>>
      <4>1. Parents(i) \subseteq DOMAIN content
        BY <2>3 DEF BaseInv, DagInv
      <4>2. t \in Parents(i) \cap Deposits /\ t \in DOMAIN content
        BY <1>2, <1>3, <3>1, <3>3, <4>1
      <4>3. Domain(t)' = Domain(t)
        BY <1>1, <4>2
      <4>4. UniquePurse(Domain(t))
        BY <2>2, <3>3, <4>3 DEF UniquePurse
      <4> QED BY <3>1, <4>2, <4>3, <4>4 DEF NamesGift
    <3> QED BY <3>2, <3>3 DEF q
  <2>4. CASE i = id
    <3>1. q = e.claim /\ e.type = "pool-contribute" /\ Parents(i)' = {lastEventId[r]}
      BY <1>1, <1>6, <2>4
    <3> HIDE DEF q
    <3>2. q # << >> => \E t \in Deposits' : content'[t].payload.claim = <<q[1]>>
      <4> SUFFICES ASSUME q # << >> PROVE \E t \in Deposits' : content'[t].payload.claim = <<q[1]>>
        OBVIOUS
      <4>1. PICK t \in Deposits : content[t].payload.claim = <<q[1]>>
        BY <3>1
      <4> QED BY <1>1, <1>2, <4>1
    <3>3. ASSUME NEW t \in Parents(i)' \cap Deposits', UniquePurse(Domain(t))' PROVE q = <<Domain(t)', Pot>>
      <4>1. t = lastEventId[r] /\ t \in DOMAIN content /\ t \in Deposits
        BY <1>2, <1>3, <1>4, <3>1, <3>3
      <4>2. Domain(t)' = r
        BY <1>1, <1>4, <4>1
      <4>3. UniquePurse(r)
        BY <1>3, <3>3, <4>2 DEF UniquePurse
      <4> QED BY <3>1, <4>1, <4>2, <4>3
    <3> QED BY <3>2, <3>3 DEF q
  <2> QED BY <1>1, <2>3, <2>4
<1>7. ASSUME NEW s \in Replicas PROVE GivenOK(s)'
  <2>1. CASE s = r
    BY <2>1
  <2>2. CASE s # r
    <3> DEFINE tip == lastEventId[s]
    <3>1. lastEventId'[s] = tip /\ content'[tip] = content[tip] /\ doing'[s] = doing[s]
      BY <1>1, <1>3, <1>4, <2>2
    <3>2. GivenOK(s)
      BY DEF DonationInv
    <3>3. UniquePurse(s)' <=> UniquePurse(s)
      BY <1>3 DEF UniquePurse
    <3>4. content'[lastEventId'[s]].payload.claim = content[tip].payload.claim
      BY <3>1
    <3>5. ASSUME doing[s].kind = "given", e.type = "pool-contribute", UniquePurse(s),
                 Len(content[tip].payload.claim) = 1
          PROVE  e.claim # <<s, Pot>>
      BY <2>2, <3>5
    <3> DEFINE Named(q) == \E i \in DOMAIN content' : /\ content'[i].payload.type = "pool-contribute"
                                                      /\ content'[i].payload.claim = q
               Given(x, N(_)) == /\ x[1] \in Replicas
                                 /\ Len(x) > 1 => N(<<x[1], Pot>>)
                                 /\ Len(x) = 1 /\ UniquePurse(s) => ~ N(<<s, Pot>>)
               c == content[tip].payload.claim
    <3>6. \A q : Named(q) <=> Contributed(q) \/ (e.type = "pool-contribute" /\ e.claim = q)
      <4>1. \A q : Contributed(q)' <=> Named(q)
        BY DEF Contributed, Type
      <4> HIDE DEF Named
      <4> QED BY <1>2, <4>1
    <3>7. doing[s].kind = "given" => Given(c, Contributed)
      BY <3>2 DEF GivenOK
    <3>8. (doing[s].kind = "given" => Given(content'[lastEventId'[s]].payload.claim, Named)) => GivenOK(s)'
      BY <3>1, <3>3 DEF GivenOK, Contributed, Type
    <3>9. doing[s].kind = "given" => Given(c, Named)
      <4> SUFFICES ASSUME doing[s].kind = "given" PROVE Given(c, Named)
        OBVIOUS
      <4> HIDE DEF c, Named
      <4>1. Len(c) = 1 /\ UniquePurse(s) => ~ (e.type = "pool-contribute" /\ e.claim = <<s, Pot>>)
        BY <3>5 DEF c
      <4> QED BY <3>6, <3>7, <4>1
    <3> HIDE DEF Named, Given
    <3> QED BY <3>4, <3>8, <3>9
  <2> QED BY <2>1, <2>2
<1> QED BY <1>5, <1>6, <1>7 DEF DonationInv

\* A post of something else.
LEMMA OtherPost ==
  ASSUME BaseInv, DonationInv, NEW r \in Replicas, NEW e, e.domain = r, NEW id, NewEvent(r, e, id),
         e.type \notin {"transfer", "pool-contribute"},
         \A s \in Replicas \ {r} : doing'[s] = doing[s], doing'[r].kind # "given"
  PROVE  DonationInv'
<1>1. GivenOK(r)'
  BY DEF GivenOK
<1> QED BY <1>1, DonationPost

LEMMA GivesDonates ==
  ASSUME BaseInv, Apart, DonationInv, NEW r \in Replicas, NEW c \in Owned(r), plugin.name # "escrow", Gives(r, c)
  PROVE  DonationInv'
<1> DEFINE e == Transfer(r, c, Pot)
<1>1. e.domain = r /\ e.type = "transfer" /\ e.claim = c
  BY TransferSays
<1>2. c \in ClaimIds /\ c # << >> /\ c[Len(c)] = r /\ c \in DOMAIN Conservation(r).claims /\ c[1] \in Replicas
  BY OwnedIs, ClaimsAre DEF Owned, BaseInv
<1> HIDE DEF e
<1>3. DagInv' /\ \E id : NewEvent(r, e, id)
  <2>1. Post(r, e)
    BY DEF Gives, e
  <2> QED BY <1>1, <2>1, PostIs
<1>4. PICK id : NewEvent(r, e, id)
  BY <1>3
<1>5. \A s \in Replicas \ {r} : doing'[s] = doing[s]
  BY GoesIs DEF Gives
<1>6. Len(c) = 1 => c = <<r>> /\ \A t \in Deposits : content[t].payload.claim # c
  BY NotDeposited DEF DonationInv
<1>7. lastEventId'[r] = id /\ content'[id].payload = e /\ plugin' = plugin
  BY <1>4 DEF NewEvent, BaseInv, TipsOK
<1>8. \A q : Contributed(q)' <=> Contributed(q)
  BY <1>1, <1>4, NewDeposits
<1>9. ASSUME Len(c) > 1 PROVE Contributed(<<c[1], Pot>>)'
  <2>1. Len(c) \in Nat
    BY <1>2 DEF ClaimIds
  <2>2. c[2] = Pot
    BY <1>2, <1>9, <2>1, FirstToPot
  <2>3. Len(c) # 2
    BY <1>2, <2>2, PoolAssumption
  <2>4. Len(c) >= 3
    <3>1. \A m \in Nat : m > 1 /\ m # 2 => m >= 3
      OBVIOUS
    <3> QED BY <1>9, <2>1, <2>3, <3>1
  <2>5. Contributed(<<c[1], Pot>>)
    BY <1>2, <2>2, <2>4, PrizeWasNamed
  <2> QED BY <1>8, <2>5
<1>10. ASSUME Len(c) = 1 PROVE ~ Contributed(<<r, Pot>>)'
  <2> SUFFICES ASSUME Contributed(<<r, Pot>>)' PROVE FALSE
    OBVIOUS
  <2>1. Contributed(<<r, Pot>>)
    BY <1>8
  <2>2. PICK i \in DOMAIN content : Type(i) = "pool-contribute" /\ content[i].payload.claim = <<r, Pot>>
    BY <2>1 DEF Contributed
  <2>3. NamesGift(i)
    BY <2>2 DEF DonationInv
  <2>4. <<r, Pot>> # << >> /\ <<r, Pot>>[1] = r
    OBVIOUS
  <2>5. \E t \in Deposits : content[t].payload.claim = <<r>>
    BY <2>2, <2>3, <2>4 DEF NamesGift
  <2> QED BY <1>6, <1>10, <2>5
<1>11. GivenOK(r)'
  <2>1. content'[lastEventId'[r]].payload.claim = c
    BY <1>1, <1>7
  <2> QED BY <1>2, <1>9, <1>10, <2>1 DEF GivenOK
<1> QED BY <1>1, <1>4, <1>5, <1>6, <1>11, DonationPost

\* What a domain finds for its gift, when none is worth as much.
LEMMA ContributesDonates ==
  ASSUME BaseInv, Apart, DonationInv, NEW r \in Replicas, Contributes(r)
  PROVE  DonationInv'
<1> DEFINE q == FoundClaim(r, doing[r].amount)
           e == [type |-> "pool-contribute", domain |-> r, claim |-> q]
           tip == lastEventId[r]
           g == content[tip].payload.claim
           claims == Conservation(r).claims
<1>1. doing[r].kind = "given" /\ Post(r, e) /\ Goes(r, Idle)
  BY DEF Contributes
<1>2. plugin.name # "escrow" /\ doing[r].amount = plugin.purse[g[1]]
  BY <1>1 DEF BaseInv, DoingOK, Idle
<1>3. /\ q \in ClaimIds
      /\ q # << >> => q \in DOMAIN claims /\ claims[q].owner = Pot /\ claims[q].amount = plugin.purse[g[1]]
      /\ (\E x \in DOMAIN claims : /\ claims[x].owner = Pot /\ claims[x].amount = plugin.purse[g[1]]
                                   /\ \E i \in DOMAIN Conservation(r).order : Conservation(r).order[i] = x)
           => q # << >>
  <2> DEFINE amount == doing[r].amount
  <2>1. /\ FoundClaim(r, amount) \in ClaimIds
        /\ FoundClaim(r, amount) # << >> =>
             /\ FoundClaim(r, amount) \in DOMAIN claims
             /\ claims[FoundClaim(r, amount)].owner = Pot
             /\ claims[FoundClaim(r, amount)].amount = amount
        /\ (\E x \in DOMAIN claims : /\ claims[x].owner = Pot /\ claims[x].amount = amount
                                     /\ \E i \in DOMAIN Conservation(r).order : Conservation(r).order[i] = x)
             => FoundClaim(r, amount) # << >>
    <3> HIDE DEF amount
    <3> QED BY FoundIs
  <2> HIDE DEF claims, g
  <2> QED BY <1>2, <2>1
<1>4. \A c \in DOMAIN claims : /\ c \in ClaimIds /\ c # << >> /\ c[1] \in Replicas
                               /\ claims[c].owner = c[Len(c)] /\ claims[c].amount = plugin.purse[c[1]]
  BY ClaimsAre DEF BaseInv
<1>5. /\ g[1] \in Replicas
      /\ Len(g) > 1 => Contributed(<<g[1], Pot>>)
      /\ Len(g) = 1 /\ UniquePurse(r) => ~ Contributed(<<r, Pot>>)
  BY <1>1 DEF DonationInv, GivenOK
<1>6. tip \in DOMAIN content /\ Domain(tip) = r /\ Type(tip) = "transfer" /\ g \in ClaimIds /\ Len(g) \in Nat \ {0}
  <2>1. tip \in DOMAIN content /\ Domain(tip) = r
    BY DEF BaseInv, TipsOK, TipOK, DagInv
  <2>2. Type(tip) = "transfer"
    BY <1>1 DEF BaseInv, DoingOK, Idle
  <2>3. g \in ClaimIds
    BY <2>1, <2>2, ContentFields DEF BaseInv
  <2>4. g # << >>
    <3>1. PICK p \in DOMAIN content : Follows(tip, p)
      BY <2>1, <2>2, ContentFields DEF BaseInv
    <3> QED BY <2>2, <3>1 DEF Follows, Says, Type
  <2> QED BY <2>1, <2>2, <2>3, <2>4 DEF ClaimIds
<1>7. e.domain = r /\ e.type = "pool-contribute" /\ e.claim = q
  OBVIOUS
<1> HIDE DEF e, q, tip, g, claims
<1>8. PICK id : NewEvent(r, e, id)
  BY <1>1, <1>7, PostIs
<1>9. doing'[r] = Idle /\ \A s \in Replicas \ {r} : doing'[s] = doing[s]
  BY <1>1, GoesIs
<1>10. Len(g) = 1 => tip \in Deposits /\ g = <<r>> /\ g[1] = r
  <2> SUFFICES ASSUME Len(g) = 1 PROVE tip \in Deposits /\ g = <<r>> /\ g[1] = r
    OBVIOUS
  <2>1. tip \in Deposits
    BY <1>6 DEF Deposits, g
  <2>2. g = <<r>>
    BY <1>6, <2>1, DepositIs DEF BaseInv, g
  <2> QED BY <2>1, <2>2
<1>11. q # << >> => \E t \in Deposits : content[t].payload.claim = <<q[1]>>
  <2> SUFFICES ASSUME q # << >> PROVE \E t \in Deposits : content[t].payload.claim = <<q[1]>>
    OBVIOUS
  <2>1. q \in DOMAIN Conservation(r).claims /\ q \in ClaimIds /\ q[Len(q)] = Pot /\ q[1] \in Replicas
    BY <1>3, <1>4 DEF claims
  <2>2. Len(q) >= 2
    <3>1. Len(q) \in Nat /\ Len(q) # 0
      BY <2>1 DEF ClaimIds
    <3>2. Len(q) # 1
      BY <2>1, PoolAssumption
    <3> QED BY <3>1, <3>2
  <2> QED BY <1>2, <2>1, <2>2, FirstToPot
<1>12. ASSUME tip \in Deposits, UniquePurse(r) PROVE q = <<r, Pot>>
  <2>1. Len(g) = 1 /\ g[1] = r
    BY <1>10, <1>12 DEF Deposits, g
  <2>2. ~ Contributed(<<r, Pot>>)
    BY <1>5, <1>12, <2>1
  <2>3. content[tip].payload.to = Pot
    BY <1>2, <1>12, DepositIs DEF BaseInv
  <2>4. PICK c \in DOMAIN Conservation(r).claims : c \in ClaimIds /\ Len(c) >= 2 /\ c[1] = r /\ c[2] = Pot
    BY <1>6, <1>12, <2>3, OwnDeposit DEF DonationInv
  <2>5. Len(c) \in Nat /\ ~ (Len(c) >= 3)
    BY <2>2, <2>4, PrizeWasNamed DEF ClaimIds
  <2>6. c = <<r, Pot>> /\ Len(c) = 2
    <3>1. \A m \in Nat : m >= 2 /\ ~ (m >= 3) => m = 2
      OBVIOUS
    <3>2. Len(c) = 2
      BY <2>4, <2>5, <3>1
    <3> QED BY <2>4, <3>2, ShortIs DEF ClaimIds
  <2>7. claims[c].owner = Pot /\ claims[c].amount = plugin.purse[g[1]] /\ c \in DOMAIN claims
    BY <1>4, <2>1, <2>4, <2>6 DEF claims
  <2>8. \E i \in DOMAIN Conservation(r).order : Conservation(r).order[i] = c
    BY <2>4, OneLiveEach
  <2>9. q # << >>
    BY <1>3, <2>7, <2>8
  <2>10. q \in DOMAIN claims /\ plugin.purse[q[1]] = plugin.purse[r] /\ q[1] \in Replicas
    BY <1>3, <1>4, <2>1, <2>9
  <2>11. q[1] = r
    BY <1>12, <2>10 DEF UniquePurse
  <2>12. q = c
    BY <2>4, <2>10, <2>11, OneLiveEach DEF OneEach, claims
  <2> QED BY <2>6, <2>12
<1>13. ASSUME NEW s \in Replicas \ {r}, doing[s].kind = "given", UniquePurse(s),
              Len(content[lastEventId[s]].payload.claim) = 1
       PROVE  q # <<s, Pot>>
  <2> SUFFICES ASSUME q = <<s, Pot>> PROVE FALSE
    OBVIOUS
  <2>1. q # << >> /\ q[1] = s
    OBVIOUS
  <2>2. plugin.purse[s] = plugin.purse[g[1]]
    BY <1>3, <1>4, <2>1
  <2>3. g[1] = s
    BY <1>5, <1>13, <2>2 DEF UniquePurse
  <2>4. Len(g) > 1
    <3>1. \A m \in Nat \ {0} : m # 1 => m > 1
      OBVIOUS
    <3>2. r \notin Replicas \ {r}
      OBVIOUS
    <3>3. Len(g) # 1
      <4> SUFFICES ASSUME Len(g) = 1 PROVE FALSE
        OBVIOUS
      <4>1. g = <<r>> /\ g[1] = r
        BY <1>10
      <4> QED BY <2>3, <3>2, <4>1
    <3> QED BY <1>6, <3>1, <3>3
  <2>5. Contributed(<<s, Pot>>)
    BY <1>5, <2>3, <2>4
  <2>6. GivenOK(s)
    BY DEF DonationInv
  <2> QED BY <1>13, <2>5, <2>6 DEF GivenOK
<1>14. GivenOK(r)'
  BY <1>9 DEF GivenOK, Idle
<1> QED BY <1>7, <1>8, <1>9, <1>11, <1>12, <1>13, <1>14, DonationPost DEF tip

\* Where nothing is posted.
LEMMA NothingNew ==
  ASSUME DonationInv, UNCHANGED <<content, lastEventId, plugin>>,
         \A s \in Replicas : doing'[s] = doing[s] \/ doing'[s].kind # "given"
  PROVE  DonationInv'
<1>1. Deposits' = Deposits /\ \A q : Contributed(q)' <=> Contributed(q)
  BY DEF Deposits, Contributed, Type
<1>2. \A d : UniquePurse(d)' <=> UniquePurse(d)
  BY DEF UniquePurse
<1>3. UniqueDeposits'
  BY <1>1 DEF DonationInv, UniqueDeposits
<1>4. \A id \in DOMAIN content' : Type(id)' = "pool-contribute" => NamesGift(id)'
  <2> SUFFICES ASSUME NEW id \in DOMAIN content', Type(id)' = "pool-contribute" PROVE NamesGift(id)'
    OBVIOUS
  <2>1. NamesGift(id)
    BY DEF DonationInv, Type
  <2> QED BY <1>1, <2>1 DEF NamesGift, Parents, Domain, UniquePurse
<1>5. \A s \in Replicas : GivenOK(s)'
  <2> SUFFICES ASSUME NEW s \in Replicas, doing'[s].kind = "given" PROVE GivenOK(s)'
    BY DEF GivenOK
  <2>1. GivenOK(s) /\ doing'[s] = doing[s]
    BY DEF DonationInv
  <2>2. \A q : Contributed(q)' <=> Contributed(q)
    BY <1>1
  <2> QED BY <1>2, <2>1, <2>2 DEF GivenOK
<1> QED BY <1>3, <1>4, <1>5 DEF DonationInv

LEMMA DonatesDonates ==
  ASSUME BaseInv, Apart, DonationInv, NEW r \in Replicas, NEW c, Donates(r, c)
  PROVE  DonationInv'
<1> DEFINE e == [type |-> "pool-init", domain |-> r, length |-> plugin.length]
<1>1. /\ plugin.name # "escrow" /\ c \in Owned(r)
      /\ Gives(r, c) \/ (Post(r, e) /\ Goes(r, [kind |-> "minted", claim |-> c]))
  BY DEF Donates
<1>2. CASE Gives(r, c)
  BY <1>1, <1>2, GivesDonates
<1>3. CASE Post(r, e) /\ Goes(r, [kind |-> "minted", claim |-> c])
  <2>1. e.domain = r /\ e.type = "pool-init"
    OBVIOUS
  <2> HIDE DEF e
  <2>2. PICK id : NewEvent(r, e, id)
    BY <1>3, <2>1, PostIs
  <2>3. doing'[r].kind # "given" /\ \A s \in Replicas \ {r} : doing'[s] = doing[s]
    BY <1>3, GoesIs
  <2>4. e.type \notin {"transfer", "pool-contribute"}
    BY <2>1
  <2> QED BY <2>1, <2>2, <2>3, <2>4, OtherPost
<1> QED BY <1>1, <1>2, <1>3

LEMMA PayoutDonates ==
  ASSUME BaseInv, DonationInv, NEW r \in Replicas, PayoutGoesOn(r)
  PROVE  DonationInv'
<1> DEFINE d == doing[r]
           next == Head(d.todo)
           winner == IF next.cycle = d.drawn THEN d.winner ELSE WinnerOf(PoolView(r), next.cycle)
           others == {i \in DOMAIN d.todo : d.todo[i].cycle # next.cycle} \cup {Len(d.todo) + 1}
           rest == IF PassedOver(winner) THEN SubSeq(d.todo, Least(others), Len(d.todo)) ELSE Tail(d.todo)
           goal == IF rest = << >> THEN Idle
                   ELSE [d EXCEPT !.todo = rest, !.drawn = next.cycle, !.winner = winner]
           e == Release(r, next.claim, Pot, winner, <<Pot, next.cycle, next.claim>>,
                        [type |-> "pool", cycle |-> next.cycle])
<1>1. /\ d.kind = "paying" /\ Goes(r, goal)
      /\ UNCHANGED <<content, dag, lastEventId, plugin>> \/ Post(r, e)
  BY DEF PayoutGoesOn, dagVars
<1>2. goal.kind # "given"
  <2>1. d \in [kind : {"paying"}, todo : Seq(Release0) \ {<< >>}, drawn : Nat, winner : Replicas \cup {None}]
    <3>1. doing[r].kind = "paying" /\ DoingOK(r)
      BY <1>1 DEF BaseInv
    <3> HIDE DEF next, winner, others, rest, goal, e
    <3> QED BY ONLY <3>1, r \in Replicas DEF DoingOK, Idle
  <2> HIDE DEF d, rest, winner, next
  <2>2. [d EXCEPT !.todo = rest, !.drawn = next.cycle, !.winner = winner].kind = d.kind
    BY <2>1
  <2> QED BY <1>1, <2>2 DEF Idle
<1>3. e.domain = r /\ e.type = "pot-release"
  BY DEF Release
<1> HIDE DEF goal, e, d
<1>4. doing'[r] = goal /\ \A s \in Replicas \ {r} : doing'[s] = doing[s]
  BY <1>1, GoesIs
<1>5. CASE UNCHANGED <<content, dag, lastEventId, plugin>>
  BY <1>2, <1>4, <1>5, NothingNew
<1>6. CASE Post(r, e)
  <2>1. PICK id : NewEvent(r, e, id)
    BY <1>3, <1>6, PostIs
  <2>2. e.type \notin {"transfer", "pool-contribute"}
    BY <1>3
  <2> QED BY <1>2, <1>3, <1>4, <2>1, <2>2, OtherPost
<1> QED BY <1>1, <1>5, <1>6

LEMMA ContractDonates ==
  ASSUME BaseInv, Apart, DonationInv, NEW r \in Replicas, ContractStep(r)
  PROVE  DonationInv'
<1>1. doing[r] = Idle /\ doing' = doing
  BY DEF ContractStep
<1>2. doing[r].kind # "given" /\ doing'[r].kind # "given"
  BY <1>1 DEF Idle
<1>3. \A s \in Replicas \ {r} : doing'[s] = doing[s]
  BY <1>1
<1>4. PICK e : /\ Post(r, e) /\ e.domain = r
               /\ \/ e.type \notin {"transfer", "pool-contribute"}
                  \/ e.type = "transfer" /\ e.claim \in Owned(r)
  <2>1. CASE Post(r, [type |-> "generic-contract-init", domain |-> r, condition |-> plugin.condition])
    BY <2>1
  <2>2. CASE \E c \in Owned(r) : Post(r, Transfer(r, c, Escrow))
    <3>1. PICK c \in Owned(r) : Post(r, Transfer(r, c, Escrow))
      BY <2>2
    <3>2. Transfer(r, c, Escrow).domain = r /\ Transfer(r, c, Escrow).type = "transfer"
          /\ Transfer(r, c, Escrow).claim = c
      BY DEF Transfer
    <3> QED BY <3>1, <3>2
  <2>3. CASE Post(r, [type |-> "approval", domain |-> r])
    BY <2>3
  <2>4. CASE \E c, from, to : Post(r, Release(r, c, from, to, <<r, lastEventId[r]>>, [type |-> "contract"]))
    <3>1. PICK c, from, to : Post(r, Release(r, c, from, to, <<r, lastEventId[r]>>, [type |-> "contract"]))
      BY <2>4
    <3> DEFINE e == Release(r, c, from, to, <<r, lastEventId[r]>>, [type |-> "contract"])
    <3>2. e.domain = r /\ e.type = "pot-release"
      BY DEF Release
    <3> HIDE DEF e
    <3> QED BY <3>1, <3>2 DEF e
  <2> QED BY <2>1, <2>2, <2>3, <2>4 DEF ContractStep
<1>5. PICK id : NewEvent(r, e, id)
  BY <1>4, PostIs
<1>6. GivenOK(r)'
  BY <1>2 DEF GivenOK
<1>7. CASE e.type \notin {"transfer", "pool-contribute"}
  BY <1>2, <1>3, <1>4, <1>5, <1>7, OtherPost
<1>8. CASE e.type = "transfer" /\ e.claim \in Owned(r)
  <2>1. Len(e.claim) = 1 => \A t \in Deposits : content[t].payload.claim # e.claim
    BY <1>8, NotDeposited DEF DonationInv
  <2>2. e.type # "pool-contribute"
    BY <1>8
  <2> QED BY <1>3, <1>4, <1>5, <1>6, <2>1, <2>2, DonationPost
<1> QED BY <1>4, <1>7, <1>8

LEMMA DonationInit == Init => DonationInv
<1> SUFFICES ASSUME Init PROVE DonationInv
  OBVIOUS
<1>1. \A i \in DOMAIN content : Type(i) = "claim-issue"
  <2>1. \E id : content = [i \in Range(id) |->
             LET r == CHOOSE x \in Replicas : id[x] = i
             IN  [parents |-> {}, payload |->
                    [type |-> "claim-issue", domain |-> r, amount |-> plugin.purse[r]]]]
    <3>1. PICK id \in [Replicas -> Ids] : content = [i \in Range(id) |->
             LET r == CHOOSE x \in Replicas : id[x] = i
             IN  [parents |-> {}, payload |->
                    [type |-> "claim-issue", domain |-> r, amount |-> plugin.purse[r]]]]
      BY Zenon DEF Init
    <3> QED BY <3>1, Zenon
  <2> TAKE i \in DOMAIN content
  <2>2. content[i].payload.type = "claim-issue"
    BY <2>1
  <2> QED BY <2>2 DEF Type
<1>2. \A r \in Replicas : doing[r].kind # "given"
  BY DEF Init, Idle
<1> QED BY <1>1, <1>2 DEF DonationInv, UniqueDeposits, Deposits, GivenOK

\* What the users have opened stays open.
LEMMA PluginStays == [Next]_vars => plugin' = plugin
<1> SUFFICES ASSUME [Next]_vars PROVE plugin' = plugin
  OBVIOUS
<1>1. ASSUME NEW r \in Replicas, NEW payload, Post(r, payload) PROVE plugin' = plugin
  BY <1>1 DEF Post
<1>2. ASSUME NEW r \in Replicas, NEW c, Gives(r, c) PROVE plugin' = plugin
  BY <1>2 DEF Gives, Post
<1>3. ASSUME NEW r \in Replicas, NEW c, Donates(r, c) PROVE plugin' = plugin
  BY <1>1, <1>2, <1>3 DEF Donates
<1>4. ASSUME NEW r \in Replicas, ContractStep(r) PROVE plugin' = plugin
  BY <1>1, <1>4 DEF ContractStep
<1>5. ASSUME NEW r \in Replicas, PayoutGoesOn(r) PROVE plugin' = plugin
  BY <1>1, <1>5 DEF PayoutGoesOn
<1>6. ASSUME NEW r \in Replicas, DonationGoesOn(r) \/ Contributes(r) \/ PayoutStarts(r) PROVE plugin' = plugin
  BY <1>1, <1>2, <1>6 DEF DonationGoesOn, Contributes, PayoutStarts
<1>7. ASSUME NEW r \in Replicas, NEW s \in Replicas, Sync(r, s) PROVE plugin' = plugin
  BY <1>7 DEF Sync
<1>8. CASE UNCHANGED vars
  BY <1>8 DEF vars
<1> QED BY <1>3, <1>4, <1>5, <1>6, <1>7, <1>8 DEF Next

LEMMA DonationNext == BaseInv /\ (Apart => DonationInv) /\ [Next]_vars => (Apart => DonationInv)'
<1> SUFFICES ASSUME BaseInv, Apart => DonationInv, [Next]_vars, Apart' PROVE DonationInv'
  OBVIOUS
<1>0. Apart /\ DonationInv
  BY PluginStays DEF Apart
<1>1. ASSUME NEW r \in Replicas, NEW c, Donates(r, c) PROVE DonationInv'
  BY <1>0, <1>1, DonatesDonates
<1>2. ASSUME NEW r \in Replicas, DonationGoesOn(r) PROVE DonationInv'
  <2>1. plugin.name # "escrow"
    BY <1>2 DEF DonationGoesOn, BaseInv, DoingOK, Idle
  <2> QED BY <1>0, <1>2, <2>1, GivesDonates DEF DonationGoesOn
<1>3. ASSUME NEW r \in Replicas, Contributes(r) PROVE DonationInv'
  BY <1>0, <1>3, ContributesDonates
<1>4. ASSUME NEW r \in Replicas, PayoutStarts(r) PROVE DonationInv'
  <2>1. UNCHANGED <<content, lastEventId, plugin>>
    BY <1>4 DEF PayoutStarts, dagVars
  <2>2. PICK d : Goes(r, d) /\ d.kind = "paying"
    <3>1. PICK todo : Goes(r, [kind |-> "paying", todo |-> todo, drawn |-> 0, winner |-> None])
      BY <1>4 DEF PayoutStarts
    <3> QED BY <3>1
  <2>3. doing'[r] = d /\ \A s \in Replicas \ {r} : doing'[s] = doing[s]
    BY <2>2, GoesIs
  <2> QED BY <1>0, <2>1, <2>2, <2>3, NothingNew
<1>5. ASSUME NEW r \in Replicas, PayoutGoesOn(r) PROVE DonationInv'
  BY <1>0, <1>5, PayoutDonates
<1>6. ASSUME NEW r \in Replicas, ContractStep(r) PROVE DonationInv'
  BY <1>0, <1>6, ContractDonates
<1>7. ASSUME NEW r \in Replicas, NEW s \in Replicas, Sync(r, s) PROVE DonationInv'
  <2>1. UNCHANGED <<content, lastEventId, plugin, doing>>
    BY <1>7 DEF Sync, MergeBothWays
  <2> QED BY <1>0, <2>1, NothingNew
<1>8. CASE UNCHANGED vars
  BY <1>0, <1>8, NothingNew DEF vars
<1> QED BY <1>1, <1>2, <1>3, <1>4, <1>5, <1>6, <1>7, <1>8 DEF Next

LEMMA DonationAlways == HashIsNumber => (Spec => [](Apart => DonationInv))
<1> SUFFICES ASSUME HashIsNumber PROVE Spec => [](Apart => DonationInv)
  OBVIOUS
<1> QED BY BaseAlways, DonationInit, DonationNext, PTL DEF Spec

\* A transfer is of a claim, which is not empty.
LEMMA TransferOfClaim ==
  ASSUME ContentOK, NEW p \in DOMAIN content, Type(p) = "transfer"
  PROVE  LET c == content[p].payload.claim IN c \in ClaimIds /\ Len(c) \in Nat \ {0}
<1> DEFINE c == content[p].payload.claim
<1>1. c \in ClaimIds
  BY ContentFields
<1>2. PICK x \in DOMAIN content : Follows(p, x)
  BY ContentFields
<1>3. c # << >>
  BY <1>2 DEF Follows, Says, Type
<1> HIDE DEF c
<1> QED BY <1>1, <1>3 DEF ClaimIds, c

\* A deposit's contribution counts, in any order of the events.
LEMMA IsCounted ==
  ASSUME BaseInv, Apart, DonationInv, NEW r \in Replicas, NEW e \in dag[r], Type(e) = "pool-contribute",
         NEW first \in Ancestors[e], Type(first) = "pool-init",
         NEW p \in Deposits, Parents(e) = {p}, UniquePurse(Domain(p)), plugin.name # "escrow"
  PROVE  <<Domain(p), Pot>> \in UsedClaims(PoolView(r))
<1> DEFINE order == TopoOrder(r)
           n == Len(order)
           claims == Provisional(order).claims
           d == Domain(p)
<1>1. e \in DOMAIN content /\ p \in DOMAIN content /\ p \in dag[r] /\ ContentOK
  BY DEF BaseInv, DagInv, Deposits
<1>6. content[p].payload.to = Pot /\ d \in Replicas
  BY <1>1, DepositIs
<1>8. content[e].payload.claim = <<d, Pot>>
  BY <1>1 DEF DonationInv, NamesGift
<1> HIDE DEF d
<1>9. Ordered(order, dag[r]) /\ n \in Nat
  BY OrderIs DEF BaseInv
<1>10. PICK j \in 1 .. n : order[j] = e
  BY <1>9 DEF Ordered
<1>11. PICK h \in 1 .. j - 1 : order[h] = first
  BY <1>10, AncestorsEarlier DEF BaseInv
<1>12. PICK i \in 1 .. n : order[i] = p
  BY <1>1, <1>9 DEF Ordered
<1>13. PICK s : /\ Along(order, NoViews, s) /\ Provisional(order) = s[n]
                /\ \A k \in 0 .. n : s[k] \in States /\ Sound(order, k, NoViews, s[k])
  BY ProvisionalIs DEF BaseInv
<1>14. PoolSound(order, n, claims, PoolView(r))
  BY PoolViewSound DEF BaseInv
<1> HIDE DEF order, n
<1>15. PICK x \in DOMAIN s[n].claims : x \in ClaimIds /\ Len(x) >= 2 /\ x[1] = d /\ x[2] = Pot
  <2>1. n \in i .. Len(order) /\ i \in 1 .. Len(order) /\ order[i] \in Deposits
    BY <1>9, <1>12 DEF n
  <2>2. UniqueDeposits /\ Along(order, NoViews, s) /\ Ordered(order, dag[r])
    BY <1>9, <1>13 DEF DonationInv
  <2> DEFINE v == NoViews
             S == dag[r]
             Arrived(k) == \E y \in DOMAIN s[k].claims :
                             /\ y \in ClaimIds /\ Len(y) >= 2 /\ y[1] = Domain(order[i])
                             /\ y[2] = content[order[i]].payload.to
  <2>3. \A k \in i .. Len(order) : Arrived(k)
    <3> HIDE DEF S, v
    <3>1. Along(order, v, s) /\ Ordered(order, S)
      BY <2>2 DEF S, v
    <3> QED BY <1>1, <2>1, <2>2, <3>1, DepositReaches
  <2>4. Arrived(n)
    <3> HIDE DEF Arrived
    <3> QED BY <2>1, <2>3
  <2> QED BY <1>6, <1>12, <2>4 DEF d
<1>16. s[n] \in States /\ Sound(order, n, NoViews, s[n])
  BY <1>9, <1>13
<1>17. Traced(order, n, NoViews, s[n], x)
  BY <1>15, <1>16 DEF Sound
<1>18. Len(x) = 2
  <2> SUFFICES ASSUME Len(x) # 2 PROVE FALSE
    OBVIOUS
  <2>1. 2 \in 1 .. Len(x) - 1
    <3>1. \A m \in Nat : m >= 2 /\ m # 2 => 2 \in 1 .. m - 1
      OBVIOUS
    <3>2. Len(x) \in Nat
      BY <1>15 DEF ClaimIds
    <3> QED BY <1>15, <3>1, <3>2
  <2>2. PICK k \in 1 .. n :
          /\ content[order[k]].payload.from = Pot
          /\ \/ Type(order[k]) = "transfer"
             \/ Type(order[k]) = "pot-release" /\ \E cs : Authorized(NoViews, content[order[k]].payload, cs)
    BY <1>15, <1>17, <2>1 DEF Traced, Carried
  <2>3. order[k] \in DOMAIN content
    BY <1>9 DEF Ordered, n
  <2>4. Type(order[k]) # "pot-release"
    BY <2>2 DEF Authorized, NoViews
  <2>5. content[order[k]].payload.from \in Replicas
    BY <1>1, <2>2, <2>3, <2>4, ContentFields
  <2> QED BY <2>2, <2>5, PoolAssumption
<1>19. x = <<d, Pot>>
  BY <1>15, <1>18, ShortIs DEF ClaimIds
<1>20. x \in DOMAIN claims /\ claims[x].owner = Pot
  BY <1>13, <1>15, <1>17, <1>18 DEF Traced
<1>21. content[order[j]].payload.claim = x /\ Type(order[j]) = "pool-contribute"
  BY <1>8, <1>10, <1>19
<1> HIDE DEF claims
<1>22. x \in UsedClaims(PoolView(r))
  BY <1>10, <1>11, <1>14, <1>20, <1>21 DEF PoolSound
<1> QED BY <1>19, <1>22 DEF d

LEMMA AreCounted == BaseInv /\ (Apart => DonationInv) => DonationsCounted
<1> DEFINE Gift(e) == CHOOSE t \in Parents(e) : Type(t) = "transfer"
           Of(e) == content[Gift(e)].payload.claim
           Alone(c) == \A d \in Replicas \ {c[1]} : plugin.purse[d] # plugin.purse[c[1]]
<1> SUFFICES ASSUME BaseInv, Apart, DonationInv, NEW r \in Replicas, NEW e \in dag[r], Type(e) = "pool-contribute",
                    NEW first \in Ancestors[e], Type(first) = "pool-init",
                    Alone(Of(e)), ~ (Len(Of(e)) > 1)
             PROVE  Append(Of(e), Pot) \in UsedClaims(PoolView(r))
  BY PluginAssumption DEF DonationsCounted, Apart, BaseInv
<1>1. e \in DOMAIN content /\ ContentOK
  BY DEF BaseInv, DagInv
<1>2. PICK p \in DOMAIN content : Follows(e, p)
  BY <1>1, ContentFields
<1>3. Parents(e) = {p} /\ Type(p) = "transfer" /\ plugin.name # "escrow"
  BY <1>1, <1>2 DEF Follows, Says, Type
<1>4. Of(e) = content[p].payload.claim
  BY <1>3
<1> HIDE DEF Of, Gift
<1>5. Of(e) \in ClaimIds /\ Len(Of(e)) \in Nat \ {0}
  BY <1>1, <1>3, <1>4, TransferOfClaim
<1>6. Len(Of(e)) = 1
  <2>1. \A m \in Nat \ {0} : ~ (m > 1) => m = 1
    OBVIOUS
  <2> QED BY <1>5, <2>1
<1>7. p \in Deposits
  BY <1>3, <1>4, <1>6 DEF Deposits
<1> DEFINE d == Domain(p)
<1>8. Of(e) = <<d>>
  BY <1>1, <1>4, <1>7, DepositIs
<1>9. UniquePurse(d)
  <2> HIDE DEF d
  <2>1. Of(e)[1] = d
    BY <1>8
  <2> QED BY <2>1 DEF UniquePurse
<1>10. <<d, Pot>> \in UsedClaims(PoolView(r))
  BY <1>3, <1>7, <1>9, IsCounted
<1>11. Append(<<d>>, Pot) = <<d, Pot>>
  <2> DEFINE c == <<d>>
             x == Append(c, Pot)
  <2>1. d \in Places /\ Pot \in Places
    BY <1>1, <1>7, DepositIs DEF Places
  <2> HIDE DEF d
  <2>2. c \in Seq(Places) /\ Len(c) = 1 /\ c[1] = d
    BY <2>1
  <2> HIDE DEF c
  <2>3. x \in Seq(Places) /\ Len(x) = 2 /\ x[1] = d /\ x[2] = Pot
    BY <2>1, <2>2, AppendIs
  <2> HIDE DEF x
  <2>4. x = <<d, Pot>>
    BY <2>3, ShortIs DEF ClaimIds
  <2> QED BY <2>4 DEF x, c
<1> HIDE DEF d
<1> QED BY <1>8, <1>10, <1>11

(* A donation is counted in every view it reaches, whatever is ordered     *)
(* before it, but for the three things that the code gets wrong.           *)
THEOREM PoolCountsDonations == HashIsNumber => (Spec => []DonationsCounted)
<1> SUFFICES ASSUME HashIsNumber PROVE Spec => []DonationsCounted
  OBVIOUS
<1> QED BY AreCounted, BaseAlways, DonationAlways, PTL


-----------------------------------------------------------------------------
(* Releases again, in another view                                         *)

\* A release that says how the claim c left its address.
LetOut(id, c) ==
  LET e == content[id].payload
  IN  Type(id) = "pot-release" /\ e.claim = <<c[1], c[2]>> /\ e.from = c[2] /\ e.to = c[3]

\* A claim that moved was deposited, and left that address by a release.
LEMMA WayOf ==
  ASSUME ContentOK, Apart, NEW S, NEW order, Ordered(order, S), NEW i \in 0 .. Len(order), NEW v,
         NEW s \in States, Sound(order, i, v, s), NEW c \in DOMAIN s.claims, Len(c) >= 2
  PROVE  /\ c \in ClaimIds /\ c[1] \in Replicas /\ c[2] = Address
         /\ Len(c) >= 3 => \E j \in 1 .. i : /\ LetOut(order[j], c)
                                             /\ \E cs : Authorized(v, content[order[j]].payload, cs)
<1>1. c \in ClaimIds
  BY ClaimMapIs DEF States
<1>2. Traced(order, i, v, s, c)
  BY DEF Sound
<1>3. Len(order) \in Nat /\ \A j \in 1 .. i : order[j] \in DOMAIN content
  BY DEF Ordered
<1>4. c[2] = Address
  <2>1. PICK j \in 1 .. i : /\ Type(order[j]) = "transfer"
                            /\ content[order[j]].payload.claim = <<c[1]>> /\ content[order[j]].payload.to = c[2]
    BY FirstMove
  <2>2. order[j] \in DOMAIN content /\ Len(<<c[1]>>) = 1
    BY <1>3
  <2>3. order[j] \in Deposits
    BY <2>1, <2>2 DEF Deposits
  <2> QED BY <2>1, <2>3, DepositIs DEF Address
<1>5. ASSUME Len(c) >= 3
      PROVE  \E j \in 1 .. i : /\ LetOut(order[j], c)
                               /\ \E cs : Authorized(v, content[order[j]].payload, cs)
  <2>1. Len(c) \in Nat
    BY <1>1 DEF ClaimIds
  <2>2. 2 \in 1 .. Len(c) - 1
    <3>1. \A m \in Nat : m >= 3 => 2 \in 1 .. m - 1
      OBVIOUS
    <3> QED BY <1>5, <2>1, <3>1
  <2>3. 2 + 1 = 3
    OBVIOUS
  <2>4. PICK j \in 1 .. i :
          /\ content[order[j]].payload.claim = SubSeq(c, 1, 2)
          /\ content[order[j]].payload.from = c[2] /\ content[order[j]].payload.to = c[3]
          /\ \/ Type(order[j]) = "transfer"
             \/ Type(order[j]) = "pot-release" /\ \E cs : Authorized(v, content[order[j]].payload, cs)
    <3> DEFINE Taken(m, x) == \E j \in 1 .. i :
          /\ content[order[j]].payload.claim = SubSeq(c, 1, m)
          /\ content[order[j]].payload.from = c[m] /\ content[order[j]].payload.to = c[x]
          /\ \/ Type(order[j]) = "transfer"
             \/ Type(order[j]) = "pot-release" /\ \E cs : Authorized(v, content[order[j]].payload, cs)
    <3>1. Carried(order, i, v, c, 2)
      BY <1>2, <2>2 DEF Traced
    <3>2. \A m : Carried(order, i, v, c, m) => Taken(m, m + 1)
      BY DEF Carried
    <3>3. Taken(2, 2 + 1)
      <4> HIDE DEF Taken
      <4> QED BY <3>1, <3>2
    <3> QED BY <2>3, <3>3
  <2>5. SubSeq(c, 1, 2) = <<c[1], c[2]>>
    BY <1>1, ShortIs DEF ClaimIds
  <2>6. Type(order[j]) # "transfer"
    <3> SUFFICES ASSUME Type(order[j]) = "transfer" PROVE FALSE
      OBVIOUS
    <3>1. content[order[j]].payload.from \in Replicas
      BY <1>3, ContentFields
    <3> QED BY <1>4, <2>4, <3>1, PoolAssumption DEF Address
  <2> QED BY <2>4, <2>5, <2>6 DEF LetOut
<1> QED BY <1>1, <1>2, <1>4, <1>5 DEF Traced

\* Where a pool has no contract beside it, what leaves the pot is drawn.
LEMMA PoolDraws ==
  ASSUME ContentOK, Apart, NEW id \in DOMAIN content, Type(id) = "pot-release", content[id].payload.from = Pot,
         NEW v, NEW claims, Authorized(v, content[id].payload, claims)
  PROVE  LET e == content[id].payload
         IN  /\ IsFull(v.pool, e.proof.cycle) /\ InCycle(v.pool, e.proof.cycle, e.claim)
             /\ e.to = ComputeWeightedDraw(e.proof.cycle, v.pool.cycles[e.proof.cycle])
<1>1. content[id].payload.proof.type = "pool"
  BY ReleaseIs DEF PoolRelease
<1> QED BY <1>1, PaidByDraw

\* A pool's release is for the one cycle that its claim is in.
LEMMA DrawnFor ==
  ASSUME ContentOK, Apart, NEW id \in DOMAIN content, Type(id) = "pot-release", content[id].payload.from = Pot,
         NEW v, v.pool \in Pools, NEW cs, Authorized(v, content[id].payload, cs),
         NEW k, InCycle(v.pool, k, content[id].payload.claim)
  PROVE  /\ k = content[id].payload.proof.cycle /\ IsFull(v.pool, k)
         /\ content[id].payload.to = ComputeWeightedDraw(k, v.pool.cycles[k])
<1> DEFINE e == content[id].payload
           p == v.pool
<1>1. /\ IsFull(p, e.proof.cycle) /\ InCycle(p, e.proof.cycle, e.claim)
      /\ e.to = ComputeWeightedDraw(e.proof.cycle, p.cycles[e.proof.cycle])
  BY PoolDraws
<1>2. BacksOne(p) /\ InCycle(p, k, e.claim)
  BY DEF Pools
<1> HIDE DEF e, p
<1>3. k = e.proof.cycle
  BY <1>1, <1>2 DEF InCycle, BacksOne
<1> QED BY <1>1, <1>3 DEF e, p

\* Of a condition whose parts cannot be undone, what held of one release still
\* holds of another of the same claim, by whoever knows as much.
LEMMA PartStillHolds ==
  ASSUME NEW c, c.type # "not",
         c.type = "ownership" => /\ {"claim", "owner"} \subseteq DOMAIN c
                                 /\ c.claim = <<"$claimId">> /\ c.owner = "$from",
         c.type = "count" => c.min \in Nat,
         NEW held, NEW more, held \subseteq more, NEW known, NEW wider, known \subseteq wider,
         IsFiniteSet(wider), NEW e, NEW f, f.claim = e.claim, f.from = e.from, NEW cs, NEW ds,
         f.claim \in DOMAIN ds, ds[f.claim].owner = f.from,
         PartHolds(c, held, e, known, cs)
  PROVE  PartHolds(c, more, f, wider, ds)
<1>1. CASE c.type = "all"
  BY <1>1 DEF PartHolds
<1>2. CASE c.type = "any"
  BY <1>2 DEF PartHolds
<1>3. CASE c.type = "ownership"
  <2> DEFINE t == [c EXCEPT !.claim = f.claim, !.owner = f.from]
  <2>1. Substituted(c, f) = t
    BY <1>3 DEF Substituted
  <2>2. t.claim = f.claim /\ t.owner = f.from
    BY <1>3
  <2>3. t.type = "ownership"
    <3>1. t.type = c.type
      OBVIOUS
    <3> QED BY <1>3, <3>1
  <2> HIDE DEF t
  <2> QED BY <1>3, <2>1, <2>2, <2>3 DEF PartHolds, EvalLeaf, EvalOwnership
<1>4. CASE c.type = "count"
  <2> DEFINE Counted(K) == {id \in K : Type(id) = c.eventType /\ c.domain \in {None, Domain(id)}}
  <2>1. c.min <= Cardinality(Counted(known))
    BY <1>4 DEF PartHolds, EvalLeaf, EvalCount, Substituted
  <2>2. Counted(known) \in SUBSET Counted(wider) /\ Counted(wider) \in SUBSET wider
    OBVIOUS
  <2>3. EvalCount(c, wider) <=> c.min <= Cardinality(Counted(wider))
    BY DEF EvalCount
  <2> HIDE DEF Counted
  <2>4. IsFiniteSet(Counted(wider))
    BY <2>2, FS_Subset
  <2>5. /\ Cardinality(Counted(known)) <= Cardinality(Counted(wider))
        /\ IsFiniteSet(Counted(known))
    BY <2>2, <2>4, FS_Subset
  <2>6. Cardinality(Counted(known)) \in Nat /\ Cardinality(Counted(wider)) \in Nat
    BY <2>4, <2>5, FS_CardinalityType
  <2>7. c.min <= Cardinality(Counted(wider))
    BY <1>4, <2>1, <2>5, <2>6
  <2> QED BY <1>4, <2>3, <2>7 DEF PartHolds, EvalLeaf, Substituted
<1>5. CASE c.type = "causal-order"
  BY <1>5 DEF PartHolds, EvalLeaf, EvalCausalOrder, Substituted
<1>6. CASE c.type \notin {"all", "any", "not", "ownership", "count", "causal-order"}
  BY <1>6 DEF PartHolds, EvalLeaf, Substituted
<1> QED BY <1>1, <1>2, <1>3, <1>4, <1>5, <1>6

LEMMA StillHolds ==
  ASSUME NEW c, Len(c) \in Nat, DOMAIN c = 1 .. Len(c), Positive(c),
         \A n \in DOMAIN c : /\ c[n].type = "ownership" => {"claim", "owner"} \subseteq DOMAIN c[n]
                             /\ c[n].type = "count" => c[n].min \in Nat,
         NEW known, NEW wider, known \subseteq wider, IsFiniteSet(wider),
         NEW e, NEW f, f.claim = e.claim, f.from = e.from, NEW cs, NEW ds,
         f.claim \in DOMAIN ds, ds[f.claim].owner = f.from,
         EvaluateCondition(c, e, known, cs)
  PROVE  EvaluateCondition(c, f, wider, ds)
<1> DEFINE n == Len(c)
<1>1. PICK held : Holding(c, e, known, cs, held) /\ n \in held[n]
  BY HeldIs
<1>2. PICK more : /\ Holding(c, f, wider, ds, more)
                  /\ EvaluateCondition(c, f, wider, ds) <=> n \in more[n]
  BY HeldIs
<1> DEFINE V == {i \in 0 .. n : held[i] \subseteq more[i]}
           Had(i) == PartHolds(c[i], held[i - 1], e, known, cs)
           Has(i) == PartHolds(c[i], more[i - 1], f, wider, ds)
<1>3. 0 \in V
  BY <1>1, <1>2 DEF Holding
<1>4. ASSUME NEW k \in 0 .. (n - 1), k \in V PROVE k + 1 \in V
  <2> DEFINE i == k + 1
  <2>1. i \in 1 .. n /\ i - 1 = k /\ i \in 0 .. n
    OBVIOUS
  <2> HIDE DEF i
  <2>2. held[i - 1] \subseteq more[i - 1]
    BY <1>4, <2>1
  <2>3. Had(i) => Has(i)
    <3> DEFINE part == c[i]
               h == held[i - 1]
               m == more[i - 1]
    <3>1. /\ part.type # "not"
          /\ part.type = "ownership" => /\ {"claim", "owner"} \subseteq DOMAIN part
                                        /\ part.claim = <<"$claimId">> /\ part.owner = "$from"
          /\ part.type = "count" => part.min \in Nat
          /\ h \subseteq m
      BY <2>1, <2>2 DEF Positive
    <3> HIDE DEF part, h, m
    <3>2. PartHolds(part, h, e, known, cs) => PartHolds(part, m, f, wider, ds)
      BY <3>1, PartStillHolds
    <3> QED BY <3>2 DEF part, h, m
  <2>4. held[i] = held[i - 1] \cup {m \in {i} : Had(i)} /\ more[i] = more[i - 1] \cup {m \in {i} : Has(i)}
    BY <1>1, <1>2, <2>1 DEF Holding
  <2> HIDE DEF Had, Has
  <2>5. i \in V
    BY <2>1, <2>2, <2>3, <2>4
  <2> QED BY <2>5 DEF i
<1>5. 0 .. n \subseteq V
  <2> HIDE DEF V, Had, Has
  <2> QED BY <1>3, <1>4, Induction
<1>6. held[n] \subseteq more[n]
  BY <1>5
<1> QED BY <1>1, <1>2, <1>6

\* The contract is the plugin's, by whoever knows that it was minted.
LEMMA ContractIs ==
  ASSUME BaseInv, NEW r \in Replicas
  PROVE  IF \E id \in dag[r] : Type(id) = "generic-contract-init"
         THEN plugin.name # "jackpot" /\ MaterializeContract(TopoOrder(r)) = plugin.condition
         ELSE MaterializeContract(TopoOrder(r)) = None
<1> DEFINE order == TopoOrder(r)
           mints == {i \in DOMAIN order : Type(order[i]) = "generic-contract-init"}
<1>1. Ordered(order, dag[r])
  BY OrderIs DEF BaseInv
<1>2. MaterializeContract(order) = IF mints = {} THEN None ELSE content[order[Least(mints)]].payload.condition
  BY DEF MaterializeContract
<1> HIDE DEF order
<1>3. DOMAIN order = 1 .. Len(order) /\ Len(order) \in Nat /\ \A i \in DOMAIN order : order[i] \in DOMAIN content
  BY <1>1 DEF Ordered
<1>4. CASE mints = {}
  <2>1. \A id \in dag[r] : Type(id) # "generic-contract-init"
    BY <1>1, <1>3, <1>4 DEF Ordered
  <2> QED BY <1>2, <1>4, <2>1 DEF order
<1>5. CASE mints # {}
  <2>1. mints \in SUBSET Nat
    BY <1>3
  <2>2. Least(mints) \in mints
    <3> HIDE DEF mints
    <3> QED BY <1>5, <2>1, LeastOf
  <2> DEFINE id == order[Least(mints)]
  <2>3. id \in DOMAIN content /\ Type(id) = "generic-contract-init" /\ id \in dag[r]
    BY <1>1, <1>3, <2>2 DEF Ordered
  <2>4. MaterializeContract(order) = content[id].payload.condition
    BY <1>2, <1>5
  <2> HIDE DEF id
  <2>5. PICK p \in DOMAIN content : Follows(id, p)
    BY <2>3, ContentFields DEF BaseInv
  <2>6. plugin.name # "jackpot" /\ content[id].payload.condition = plugin.condition
    BY <2>3, <2>5 DEF Follows, Says, Type
  <2> QED BY <2>3, <2>4, <2>6 DEF order
<1> QED BY <1>4, <1>5

\* A prize that one view let out, another with the same cycle lets out.
LEMMA PoolAgain ==
  ASSUME BaseInv, Apart, NEW r \in Replicas, NEW s \in Replicas,
         NEW i \in DOMAIN content, Type(i) = "pot-release", content[i].payload.from = Pot,
         NEW j \in DOMAIN content, Type(j) = "pot-release", content[j].payload.from = Pot,
         NEW claim, content[i].payload.claim = claim, content[j].payload.claim = claim,
         content[i].payload.to = content[j].payload.to,
         NEW cs, Authorized(View(r), content[i].payload, cs),
         InCycle(PoolView(r), content[j].payload.proof.cycle, claim),
         \A k \in DOMAIN PoolView(r).cycles : InCycle(PoolView(r), k, claim) =>
           k \in DOMAIN PoolView(s).cycles /\ PoolView(s).cycles[k] = PoolView(r).cycles[k],
         NEW ds, claim \in DOMAIN ds, ds[claim].owner = Pot
  PROVE  Authorized(View(s), content[j].payload, ds)
<1> DEFINE e == content[j].payload
           k == e.proof.cycle
           p == PoolView(r)
           t == PoolView(s)
           v == View(r)
<1>1. v.pool = p /\ View(s).pool = t /\ p \in Pools /\ t \in Pools /\ View(s).verifies
  <2>1. View(s).pool = t /\ v.pool = p
    BY DEF View
  <2>2. View(s).verifies
    BY DEF View
  <2> QED BY <2>1, <2>2, PoolViewIs DEF BaseInv
<1>2. /\ p.cycles # << >> => p.length = plugin.length
      /\ t.cycles # << >> => t.length = plugin.length
  BY PoolViewSound DEF BaseInv
<1>3. InCycle(p, k, claim) /\ e.claim = claim /\ e.from = Pot
  OBVIOUS
<1>4. k \in DOMAIN p.cycles
  BY <1>3 DEF InCycle
<1>5. k \in DOMAIN t.cycles /\ t.cycles[k] = p.cycles[k]
  BY <1>3, <1>4
<1>6. PoolRelease(e)
  BY ReleaseIs DEF BaseInv
<1> HIDE DEF e, k, p, t, v
<1>7. IsFull(p, k) /\ content[i].payload.to = ComputeWeightedDraw(k, p.cycles[k])
  BY <1>1, <1>3, DrawnFor DEF BaseInv, v
<1>8. p.cycles # << >> /\ t.cycles # << >>
  BY <1>4, <1>5
<1>9. IsFull(t, k)
  BY <1>2, <1>5, <1>7, <1>8 DEF IsFull
<1>10. InCycle(t, k, claim)
  BY <1>3, <1>5 DEF InCycle
<1>11. e.to = ComputeWeightedDraw(k, t.cycles[k])
  BY <1>5, <1>7 DEF e
<1>12. EvaluateCondition(PayoutCondition(e, t.cycles[k]), e, {}, ds)
  BY <1>3, <1>11, PayoutIs DEF k
<1>13. VerifyPoolPayout(t, e, ds)
  BY <1>3, <1>6, <1>9, <1>10, <1>12 DEF VerifyPoolPayout, PoolRelease, k
<1> QED BY <1>1, <1>13 DEF Authorized, e

\* And a contract's, if no part of its condition can be undone.
LEMMA ContractAgain ==
  ASSUME BaseInv, Apart, NEW r \in Replicas, NEW s \in Replicas, dag[r] \subseteq dag[s],
         NEW i \in DOMAIN content, Type(i) = "pot-release", content[i].payload.from = Escrow,
         NEW j \in DOMAIN content, Type(j) = "pot-release", content[j].payload.from = Escrow,
         NEW claim, content[i].payload.claim = claim, content[j].payload.claim = claim,
         NEW cs, Authorized(View(r), content[i].payload, cs), Positive(plugin.condition),
         NEW ds, claim \in DOMAIN ds, ds[claim].owner = Escrow
  PROVE  Authorized(View(s), content[j].payload, ds)
<1> DEFINE e == content[i].payload
           f == content[j].payload
           c == plugin.condition
           v == View(r)
           w == View(s)
<1>1. /\ v.condition = MaterializeContract(TopoOrder(r)) /\ v.known = dag[r]
      /\ w.condition = MaterializeContract(TopoOrder(s)) /\ w.known = dag[s]
  BY DEF View
<1>2. w.verifies
  BY DEF View
<1>3. ContractRelease(f)
  BY ReleaseIs DEF BaseInv
<1>4. e.from = Escrow /\ f.from = Escrow /\ e.claim = claim /\ f.claim = claim /\ Authorized(v, e, cs)
  OBVIOUS
<1> HIDE DEF e, f, v, w, c
<1>5. VerifyGenericRelease(v.condition, v.known, e, cs)
  BY <1>4, PoolAssumption DEF Authorized, VerifyPoolPayout
<1>6. v.condition # None /\ EvaluateCondition(v.condition, e, v.known, cs)
  BY <1>5 DEF VerifyGenericRelease
<1>7. \E id \in dag[r] : Type(id) = "generic-contract-init"
  BY <1>1, <1>6, ContractIs
<1>8. plugin.name # "jackpot" /\ v.condition = c /\ w.condition = c
  BY <1>1, <1>7, ContractIs DEF c
<1>9. /\ c \in Seq(Range(c))
      /\ \A x \in Range(c) : /\ x.type = "count" => x.min \in Nat
                             /\ x.type = "ownership" => {"claim", "owner"} \subseteq DOMAIN x
  BY <1>8, PluginAssumption DEF BaseInv, c
<1>10. /\ Len(c) \in Nat /\ DOMAIN c = 1 .. Len(c)
       /\ \A n \in DOMAIN c : /\ c[n].type = "ownership" => {"claim", "owner"} \subseteq DOMAIN c[n]
                              /\ c[n].type = "count" => c[n].min \in Nat
  <2>1. Len(c) \in Nat /\ DOMAIN c = 1 .. Len(c)
    BY <1>9
  <2>2. \A n \in DOMAIN c : c[n] \in Range(c)
    BY DEF Range
  <2> QED BY <1>9, <2>1, <2>2
<1>11. IsFiniteSet(w.known) /\ v.known \subseteq w.known
  <2>1. dag[s] \in SUBSET DOMAIN content
    BY DEF BaseInv, DagInv
  <2>2. IsFiniteSet(dag[s])
    BY <2>1, KnownIds DEF BaseInv
  <2> QED BY <1>1, <2>2
<1>12. EvaluateCondition(c, f, w.known, ds)
  <2> DEFINE known == v.known
             wider == w.known
  <2>1. Positive(c) /\ EvaluateCondition(c, e, known, cs) /\ known \subseteq wider /\ IsFiniteSet(wider)
    BY <1>6, <1>8, <1>11 DEF c
  <2> HIDE DEF known, wider
  <2>2. f.claim = e.claim /\ f.from = e.from /\ f.claim \in DOMAIN ds /\ ds[f.claim].owner = f.from
    BY <1>4
  <2>3. EvaluateCondition(c, f, wider, ds)
    BY <1>10, <2>1, <2>2, StillHolds
  <2> QED BY <2>3 DEF wider
<1>13. VerifyGenericRelease(w.condition, w.known, f, ds)
  BY <1>3, <1>6, <1>8, <1>12 DEF VerifyGenericRelease, ContractRelease
<1> QED BY <1>2, <1>13 DEF Authorized, f, w

\* A release that is authorized moves its claim, if that was only deposited.
LEMMA ReleaseMoves ==
  ASSUME ContentOK, NEW S, NEW order, Ordered(order, S), NEW v, NEW s, Along(order, v, s),
         NEW b \in 1 .. Len(order), Type(order[b]) = "pot-release",
         NEW y \in DOMAIN s[b - 1].claims, Len(y) = 2, content[order[b]].payload.claim = y,
         content[order[b]].payload.from = y[2], Authorized(v, content[order[b]].payload, s[b - 1].claims)
  PROVE  Append(y, content[order[b]].payload.to) \in DOMAIN s[b].claims
<1> DEFINE id == order[b]
           e == content[id].payload
           was == s[b - 1]
<1>1. Len(order) \in Nat /\ b - 1 \in 0 .. Len(order) /\ \A j \in 1 .. Len(order) : order[j] \in DOMAIN content
  BY DEF Ordered
<1>2. was \in States /\ Sound(order, b - 1, v, was) /\ s[b] = ApplyConservation(was, id, v)
  BY <1>1, SoundViews DEF Along
<1>3. id \in DOMAIN content /\ Type(id) = "pot-release" /\ e.claim = y /\ e.from = y[2] /\ Authorized(v, e, was.claims)
  BY <1>1
<1>4. y \in DOMAIN was.claims /\ OneEach(was) /\ \A z \in DOMAIN was.claims : z \in ClaimIds
  BY <1>2, ClaimMapIs DEF Sound, States
<1>5. was.claims[y].owner = y[2]
  BY <1>2, <1>4 DEF Sound, Traced
<1>6. e.nonce \notin was.nonces
  <2> SUFFICES ASSUME e.nonce \in was.nonces PROVE FALSE
    OBVIOUS
  <2>1. PICK j \in 1 .. (b - 1) : /\ Type(order[j]) \in {"transfer", "pot-release"}
                                  /\ content[order[j]].payload.nonce = e.nonce
                                  /\ WentThrough(was, MovedTo(content[order[j]].payload))
    BY <1>2 DEF Sound, Spent
  <2> DEFINE i == order[j]
             f == content[i].payload
  <2>2. i \in DOMAIN content /\ i # id
    <3>1. j \in 1 .. Len(order) /\ j # b
      BY <1>1
    <3> QED BY <1>1, <3>1 DEF Ordered
  <2>3. PICK p \in DOMAIN content : Follows(i, p)
    BY <2>1, <2>2, ContentFields
  <2>4. PICK o \in DOMAIN content : Follows(id, o)
    BY <1>3, ContentFields
  <2>5. /\ Type(i) = f.type /\ f.domain \in Replicas /\ f.type \in {"transfer", "pot-release"}
        /\ Type(id) = e.type /\ e.domain \in Replicas
        /\ Says(f, p) /\ Says(e, o) /\ f.nonce = e.nonce
    BY <1>3, <2>1, <2>2, <2>3, <2>4, ContentFields DEF Follows
  <2>6. e.nonce[1] \notin Replicas
    BY <1>3, <2>1, <2>2, SentOnce
  <2>7. MovedTo(f) \in ClaimIds /\ f.claim \in ClaimIds /\ f.to \in Places /\ WentThrough(was, MovedTo(f))
    BY <2>1, <2>2, MovedToIs
  <2> HIDE DEF f, e, i, id, was
  <2>8. e.nonce = <<Pot, e.proof.cycle, e.claim>>
    <3>1. e.nonce = <<Pot, e.proof.cycle, e.claim>> \/ e.nonce = <<e.domain, o>>
      BY <1>3, <2>5 DEF Says
    <3>2. <<e.domain, o>>[1] = e.domain
      OBVIOUS
    <3> QED BY <2>5, <2>6, <3>1, <3>2
  <2>9. f.nonce = <<Pot, f.proof.cycle, f.claim>>
    <3>1. f.nonce = <<Pot, f.proof.cycle, f.claim>> \/ f.nonce = <<f.domain, p>>
      BY <2>5 DEF Says
    <3>2. <<f.domain, p>>[1] = f.domain
      OBVIOUS
    <3> QED BY <2>5, <2>6, <3>1, <3>2
  <2>10. f.claim = y
    <3>1. <<Pot, e.proof.cycle, e.claim>>[3] = e.claim /\ <<Pot, f.proof.cycle, f.claim>>[3] = f.claim
      OBVIOUS
    <3> QED BY <1>3, <2>5, <2>8, <2>9, <3>1
  <2> DEFINE m == MovedTo(f)
  <2>11. Len(m) = 3 /\ m[1] = y[1]
    <3> DEFINE to == f.to
    <3>1. y \in Seq(Places) /\ to \in Places /\ Len(y) = 2 /\ m = Append(y, to)
      BY <2>7, <2>10 DEF ClaimIds, MovedTo
    <3> HIDE DEF to, m
    <3>2. Len(Append(y, to)) = Len(y) + 1 /\ \A x \in 1 .. Len(y) : Append(y, to)[x] = y[x]
      BY <3>1, AppendIs
    <3>3. 1 \in 1 .. 2 /\ 2 + 1 = 3
      OBVIOUS
    <3> QED BY <3>1, <3>2, <3>3
  <2>12. PICK z \in DOMAIN was.claims : Len(m) <= Len(z) /\ SubSeq(z, 1, Len(m)) = m
    BY <2>7 DEF WentThrough
  <2>13. z \in ClaimIds /\ Len(z) \in Nat
    BY <1>4, <2>12 DEF ClaimIds
  <2> HIDE DEF m
  <2>14. z[1] = y[1] /\ Len(z) >= 3
    <3>1. SubSeq(z, 1, 3) = m /\ 3 <= Len(z)
      BY <2>11, <2>12
    <3>2. \A x \in 1 .. 3 : SubSeq(z, 1, 3)[x] = z[x]
      BY <2>13, <3>1, PrefixIs DEF ClaimIds
    <3>3. 1 \in 1 .. 3
      OBVIOUS
    <3> QED BY <2>11, <2>13, <3>1, <3>2, <3>3
  <2>15. z = y
    BY <1>4, <2>12, <2>14 DEF OneEach
  <2>16. ~ (2 >= 3)
    OBVIOUS
  <2> QED BY <2>14, <2>15, <2>16
<1>7. Moves(was, e)
  BY <1>3, <1>4, <1>5, <1>6 DEF Moves
<1>8. MovesBy(v, was, s[b], id)
  <2>1. Issues(was, s[b], id) \/ MovesBy(v, was, s[b], id) \/ Passes(v, was, s[b], id)
    BY <1>2, <1>3, ApplyIs
  <2> QED BY <1>3, <1>7, <2>1 DEF Issues, Passes
<1>9. MovedTo(e) \in DOMAIN s[b].claims
  BY <1>8 DEF MovesBy, Moved
<1> QED BY <1>3, <1>9 DEF MovedTo

\* What was let out, the view of who knows more lets out.
LEMMA LetOutAgain ==
  ASSUME BaseInv, Apart, NEW r \in Replicas, NEW s \in Replicas, dag[r] \subseteq dag[s],
         NEW q \in ClaimIds, Len(q) = 3, q[2] = Address,
         NEW i \in dag[r], LetOut(i, q), NEW cs, Authorized(View(r), content[i].payload, cs),
         NEW j \in dag[r], LetOut(j, q),
         q[2] = Pot => /\ SameCycle(r, s, q)
                       /\ InCycle(PoolView(r), content[j].payload.proof.cycle, content[j].payload.claim),
         q[2] = Escrow => Positive(plugin.condition),
         NEW ds, <<q[1], q[2]>> \in DOMAIN ds, ds[<<q[1], q[2]>>].owner = q[2]
  PROVE  Authorized(View(s), content[j].payload, ds)
<1> DEFINE claim == <<q[1], q[2]>>
<1>1. /\ i \in DOMAIN content /\ Type(i) = "pot-release" /\ content[i].payload.claim = claim
      /\ content[i].payload.from = q[2] /\ content[i].payload.to = q[3]
      /\ j \in DOMAIN content /\ Type(j) = "pot-release" /\ content[j].payload.claim = claim
      /\ content[j].payload.from = q[2] /\ content[j].payload.to = q[3]
  BY DEF LetOut, BaseInv, DagInv
<1>2. SubSeq(q, 1, 2) = claim
  <2>1. Len(q) >= 2
    OBVIOUS
  <2> QED BY <2>1, ShortIs DEF ClaimIds
<1>3. claim \in DOMAIN ds /\ ds[claim].owner = q[2] /\ (q[2] = Pot \/ q[2] = Escrow)
  BY DEF Address
<1>4. q[2] = Pot => \A k \in DOMAIN PoolView(r).cycles : InCycle(PoolView(r), k, claim) =>
                      k \in DOMAIN PoolView(s).cycles /\ PoolView(s).cycles[k] = PoolView(r).cycles[k]
  BY <1>2 DEF SameCycle
<1>5. q[2] = Pot => InCycle(PoolView(r), content[j].payload.proof.cycle, claim)
  BY <1>1
<1> HIDE DEF claim
<1>6. CASE q[2] = Pot
  BY <1>1, <1>3, <1>4, <1>5, <1>6, PoolAgain
<1>7. CASE q[2] = Escrow
  BY <1>1, <1>3, <1>7, ContractAgain
<1> QED BY <1>3, <1>6, <1>7

\* Two releases of a claim, each let out by such a view, are to the same domain.
LEMMA SamePayee ==
  ASSUME BaseInv, Apart, NEW r \in Replicas, NEW s \in Replicas,
         NEW q \in ClaimIds, Len(q) = 3, q[2] = Pot, SameCycle(r, s, q),
         NEW i \in dag[r], LetOut(i, q), NEW cs, Authorized(View(r), content[i].payload, cs),
         NEW h \in dag[s], Type(h) = "pot-release", content[h].payload.claim = <<q[1], q[2]>>,
         content[h].payload.from = Pot, NEW ds, Authorized(View(s), content[h].payload, ds)
  PROVE  content[h].payload.to = q[3]
<1> DEFINE claim == <<q[1], q[2]>>
           p == PoolView(r)
           t == PoolView(s)
           v == View(r)
           w == View(s)
<1>1. /\ i \in DOMAIN content /\ Type(i) = "pot-release" /\ content[i].payload.claim = claim
      /\ content[i].payload.from = Pot /\ content[i].payload.to = q[3]
      /\ h \in DOMAIN content /\ content[h].payload.claim = claim
  BY DEF LetOut, BaseInv, DagInv
<1>2. SubSeq(q, 1, 2) = claim
  <2>1. Len(q) >= 2
    OBVIOUS
  <2> QED BY <2>1, ShortIs DEF ClaimIds
<1>3. v.pool = p /\ w.pool = t /\ p \in Pools /\ t \in Pools
  BY PoolViewIs DEF View, BaseInv
<1>4. \A k \in DOMAIN p.cycles : InCycle(p, k, claim) => k \in DOMAIN t.cycles /\ t.cycles[k] = p.cycles[k]
  BY <1>2 DEF SameCycle
<1> DEFINE k == content[i].payload.proof.cycle
<1>5. InCycle(p, k, claim)
  <2> HIDE DEF v, p, k
  <2>1. InCycle(v.pool, content[i].payload.proof.cycle, content[i].payload.claim)
    BY <1>1, PoolDraws DEF BaseInv, v
  <2> QED BY <1>1, <1>3, <2>1 DEF k
<1> HIDE DEF claim, p, t, v, w, k
<1>6. q[3] = ComputeWeightedDraw(k, p.cycles[k])
  BY <1>1, <1>3, <1>5, DrawnFor DEF BaseInv, v
<1>7. k \in DOMAIN t.cycles /\ t.cycles[k] = p.cycles[k] /\ InCycle(t, k, claim)
  BY <1>4, <1>5 DEF InCycle
<1>8. content[h].payload.to = ComputeWeightedDraw(k, t.cycles[k])
  BY <1>1, <1>3, <1>7, DrawnFor DEF BaseInv, w
<1> QED BY <1>6, <1>7, <1>8

\* A claim's first three places, and those of what went through them.
LEMMA ThreePlaces ==
  ASSUME NEW x \in ClaimIds, Len(x) >= 3
  PROVE  LET q == SubSeq(x, 1, 3)
         IN  /\ q \in ClaimIds /\ Len(q) = 3 /\ q[1] = x[1] /\ q[2] = x[2] /\ q[3] = x[3]
             /\ SubSeq(q, 1, 1) = <<q[1]>> /\ SubSeq(q, 1, 2) = <<q[1], q[2]>>
<1> DEFINE q == SubSeq(x, 1, 3)
<1>1. q \in Seq(Places) /\ Len(q) = 3 /\ \A m \in 1 .. 3 : q[m] = x[m]
  BY PrefixIs DEF ClaimIds
<1> HIDE DEF q
<1>2. q[1] = x[1] /\ q[2] = x[2] /\ q[3] = x[3]
  <2>1. 1 \in 1 .. 3 /\ 2 \in 1 .. 3 /\ 3 \in 1 .. 3
    OBVIOUS
  <2> QED BY <1>1, <2>1
<1>3. Len(q) >= 1 /\ Len(q) >= 2
  BY <1>1
<1>4. SubSeq(q, 1, 1) = <<q[1]>> /\ SubSeq(q, 1, 2) = <<q[1], q[2]>>
  BY <1>1, <1>3, ShortIs
<1> QED BY <1>1, <1>2, <1>4 DEF q, ClaimIds

LEMMA SameThree ==
  ASSUME NEW x \in ClaimIds, Len(x) = 3, NEW y \in ClaimIds, Len(y) = 3,
         x[1] = y[1], x[2] = y[2], x[3] = y[3]
  PROVE  x = y
<1>1. \A m \in 1 .. 3 : m = 1 \/ m = 2 \/ m = 3
  OBVIOUS
<1>2. \A m \in 1 .. 3 : x[m] = y[m]
  BY <1>1
<1> QED BY <1>2 DEF ClaimIds

\* A release and the deposit before it, as WellPlaced has them.
LEMMA PlacedIs ==
  ASSUME BaseInv, Apart, NEW r \in Replicas, NEW q, SubSeq(q, 1, 1) = <<q[1]>>, SubSeq(q, 1, 2) = <<q[1], q[2]>>,
         q[2] = Address, WellPlaced(r, q)
  PROVE  \E id \in dag[r] : \E t \in Deposits :
           /\ LetOut(id, q) /\ t \in Ancestors[id] /\ t \in dag[r]
           /\ Domain(t) = q[1] /\ content[t].payload.to = q[2]
           /\ q[2] = Pot => InCycle(PoolView(r), content[id].payload.proof.cycle, content[id].payload.claim)
<1>1. PICK id \in Releases(r, q), t \in Transfers(r) :
        /\ content[id].payload.to = q[3] /\ t \in Ancestors[id]
        /\ content[t].payload.claim = <<q[1]>>
        /\ q[2] = Pot => InCycle(PoolView(r), content[id].payload.proof.cycle, content[id].payload.claim)
  BY DEF WellPlaced
<1>2. /\ id \in dag[r] /\ id \in DOMAIN content /\ Type(id) = "pot-release"
      /\ content[id].payload.claim = <<q[1], q[2]>>
      /\ t \in dag[r] /\ t \in DOMAIN content /\ Type(t) = "transfer"
  BY DEF Releases, Transfers, BaseInv, DagInv
<1>3. t \in Deposits
  <2>1. Len(<<q[1]>>) = 1
    OBVIOUS
  <2> QED BY <1>1, <1>2, <2>1 DEF Deposits
<1>4. Domain(t) = q[1] /\ content[t].payload.to = q[2]
  <2>1. content[t].payload.claim = <<Domain(t)>> /\ content[t].payload.to = Address
    BY <1>3, DepositIs DEF BaseInv, Address
  <2>2. <<Domain(t)>> = <<q[1]>>
    BY <1>1, <2>1
  <2> QED BY <2>1, <2>2
<1>5. LetOut(id, q)
  <2>1. content[id].payload.from = Address
    BY <1>2, ReleaseIs DEF BaseInv
  <2> QED BY <1>1, <1>2, <2>1 DEF LetOut
<1> QED BY <1>1, <1>2, <1>3, <1>4, <1>5

LEMMA PaidAgain ==
  ASSUME BaseInv, Apart, DonationInv, NEW r \in Replicas, NEW s \in Replicas, dag[r] \subseteq dag[s],
         NEW q \in Paid(r), WellPlaced(r, q),
         q[2] = Pot => SameCycle(r, s, q),
         q[2] = Escrow => Positive(plugin.condition),
         q[2] = Escrow => \A id \in Releases(s, q) : content[id].payload.to = q[3]
  PROVE  q \in Paid(s)
<1>1. PICK x \in DOMAIN Conservation(r).claims : x \in ClaimIds /\ Len(x) >= 3 /\ q = SubSeq(x, 1, 3)
  BY ClaimsAre DEF Paid, BaseInv
<1>2. /\ q \in ClaimIds /\ Len(q) = 3 /\ q[1] = x[1] /\ q[2] = x[2] /\ q[3] = x[3]
      /\ SubSeq(q, 1, 1) = <<q[1]>> /\ SubSeq(q, 1, 2) = <<q[1], q[2]>>
  BY <1>1, ThreePlaces
<1>3. /\ q[1] \in Replicas /\ q[2] = Address
      /\ \E i \in dag[r] : LetOut(i, q) /\ \E cs : Authorized(View(r), content[i].payload, cs)
  <2> DEFINE order == TopoOrder(r)
             n == Len(order)
             v == View(r)
  <2>1. PICK c : Conservation(r) = c[n] /\ \A i \in 0 .. n : c[i] \in States /\ Sound(order, i, v, c[i])
    BY ConservationIs DEF BaseInv
  <2>2. Ordered(order, dag[r]) /\ ContentOK /\ n \in Nat /\ n \in 0 .. Len(order)
    BY OrderIs DEF BaseInv
  <2> DEFINE live == c[n]
             S == dag[r]
  <2>3. x \in DOMAIN live.claims /\ live \in States /\ Sound(order, n, v, live) /\ Len(x) >= 2
    <3>1. Len(x) \in Nat
      BY <1>1 DEF ClaimIds
    <3> QED BY <1>1, <2>1, <2>2, <3>1
  <2>4. Ordered(order, S)
    BY <2>2
  <2> HIDE DEF order, n, v, live, S
  <2>5. /\ x[1] \in Replicas /\ x[2] = Address
        /\ \E j \in 1 .. n : /\ LetOut(order[j], x)
                             /\ \E cs : Authorized(v, content[order[j]].payload, cs)
    BY <1>1, <2>2, <2>3, <2>4, WayOf
  <2>6. PICK j \in 1 .. n : LetOut(order[j], x) /\ \E cs : Authorized(v, content[order[j]].payload, cs)
    BY <2>5
  <2>7. order[j] \in dag[r] /\ LetOut(order[j], q)
    BY <1>2, <2>2, <2>6 DEF LetOut, Ordered, n
  <2> QED BY <1>2, <2>5, <2>6, <2>7 DEF v
<1>4. PICK i \in dag[r] : LetOut(i, q) /\ \E cs : Authorized(View(r), content[i].payload, cs)
  BY <1>3
<1>5. PICK cs : Authorized(View(r), content[i].payload, cs)
  BY <1>4
<1>6. PICK id \in dag[r], t \in Deposits :
        /\ LetOut(id, q) /\ t \in Ancestors[id] /\ t \in dag[r]
        /\ Domain(t) = q[1] /\ content[t].payload.to = q[2]
        /\ q[2] = Pot => InCycle(PoolView(r), content[id].payload.proof.cycle, content[id].payload.claim)
  BY <1>2, <1>3, PlacedIs
<1> DEFINE order == TopoOrder(s)
           n == Len(order)
           v == View(s)
           claim == <<q[1], q[2]>>
<1>7. Ordered(order, dag[s]) /\ ContentOK /\ n \in Nat /\ UniqueDeposits
  BY OrderIs DEF BaseInv, DonationInv
<1>8. PICK c : Along(order, v, c) /\ Conservation(s) = c[n]
  BY ConservationIs DEF BaseInv
<1>9. PICK b \in 1 .. n : order[b] = id
  BY <1>6, <1>7 DEF Ordered
<1>10. PICK a \in 1 .. b - 1 : order[a] = t
  BY <1>6, <1>9, AncestorsEarlier DEF BaseInv
<1> HIDE DEF order, v, claim
<1>11. \A k \in 0 .. n : c[k] \in States /\ Sound(order, k, v, c[k])
  BY <1>7, <1>8, SoundViews
<1>12. /\ a \in 1 .. Len(order) /\ b - 1 \in a .. Len(order) /\ b - 1 \in 0 .. Len(order) /\ b \in 1 .. Len(order)
       /\ b \in 0 .. Len(order) /\ n \in b .. Len(order) /\ n \in b - 1 .. Len(order)
  BY <1>7, <1>9, <1>10
<1>13. PICK y \in DOMAIN c[b - 1].claims : y \in ClaimIds /\ Len(y) >= 2 /\ y[1] = q[1] /\ y[2] = q[2]
  <2> DEFINE Arrived(k) == \E z \in DOMAIN c[k].claims :
                             /\ z \in ClaimIds /\ Len(z) >= 2 /\ z[1] = Domain(order[a])
                             /\ z[2] = content[order[a]].payload.to
             S == dag[s]
  <2>1. Ordered(order, S) /\ order[a] \in Deposits
    BY <1>6, <1>7, <1>10
  <2> HIDE DEF S
  <2>2. \A k \in a .. Len(order) : Arrived(k)
    BY <1>7, <1>8, <1>12, <2>1, DepositReaches
  <2>3. Arrived(b - 1)
    <3> HIDE DEF Arrived
    <3> QED BY <1>12, <2>2
  <2> QED BY <1>6, <1>10, <2>3
<1> DEFINE was == c[b - 1]
<1>14. was \in States /\ Sound(order, b - 1, v, was) /\ y \in DOMAIN was.claims
  BY <1>11, <1>12, <1>13
<1>15. was.claims[y].owner = y[Len(y)] /\ Len(y) \in Nat
  <2>1. Traced(order, b - 1, v, was, y)
    BY <1>14 DEF Sound
  <2> QED BY <1>13, <2>1 DEF Traced, ClaimIds
<1>16. ASSUME Len(y) = 2 PROVE WentThrough(c[n], q)
  <2>1. y = claim
    BY <1>13, <1>16, ShortIs DEF ClaimIds, claim
  <2>2. was.claims[claim].owner = q[2] /\ claim \in DOMAIN was.claims
    BY <1>13, <1>14, <1>15, <1>16, <2>1
  <2> DEFINE e == content[id].payload
             ds == was.claims
  <2>3. Authorized(v, e, ds)
    <3>1. <<q[1], q[2]>> \in DOMAIN ds /\ ds[<<q[1], q[2]>>].owner = q[2]
      BY <2>2 DEF claim
    <3> HIDE DEF ds
    <3> QED BY <1>2, <1>3, <1>4, <1>5, <1>6, <3>1, LetOutAgain DEF v
  <2>4. e.claim = y /\ e.from = y[2] /\ e.to = q[3] /\ Type(order[b]) = "pot-release" /\ order[b] = id
    BY <1>6, <1>9, <1>13, <2>1 DEF LetOut, claim
  <2> DEFINE to == q[3]
             S == dag[s]
             next == c[b]
  <2>5. Append(y, to) \in DOMAIN next.claims
    <3>1. Ordered(order, S) /\ content[order[b]].payload.claim = y /\ content[order[b]].payload.from = y[2]
          /\ Authorized(v, content[order[b]].payload, c[b - 1].claims) /\ content[order[b]].payload.to = to
      BY <1>7, <2>3, <2>4
    <3> HIDE DEF S, to
    <3> QED BY <1>7, <1>8, <1>12, <1>13, <1>16, <2>4, <3>1, ReleaseMoves
  <2>6. Append(y, to) = q
    <3> DEFINE m == Append(y, to)
    <3>1. to \in Places
      <4>1. \A w \in Seq(Places) : \A k \in 1 .. Len(w) : w[k] \in Places
        OBVIOUS
      <4>2. q \in Seq(Places) /\ 3 \in 1 .. Len(q)
        BY <1>2 DEF ClaimIds
      <4> QED BY <4>1, <4>2
    <3> HIDE DEF to
    <3>2. /\ m \in Seq(Places) /\ Len(m) = Len(y) + 1 /\ m[Len(y) + 1] = to
          /\ \A k \in 1 .. Len(y) : m[k] = y[k]
      BY <1>13, <3>1, AppendIs DEF ClaimIds
    <3> HIDE DEF m
    <3>3. 1 \in 1 .. 2 /\ 2 \in 1 .. 2 /\ 2 + 1 = 3
      OBVIOUS
    <3>4. m \in ClaimIds /\ Len(m) = 3 /\ m[1] = y[1] /\ m[2] = y[2] /\ m[3] = to
      BY <1>16, <3>2, <3>3 DEF ClaimIds
    <3>5. m = q
      BY <1>2, <1>13, <3>4, SameThree DEF to
    <3> QED BY <3>5 DEF m
  <2>7. WentThrough(next, q)
    BY <1>2, <2>5, <2>6, ThereItWent
  <2> QED BY <1>2, <1>7, <1>8, <1>12, <2>7, Lasts
<1>17. ASSUME Len(y) >= 3 PROVE WentThrough(c[n], q)
  <2>1. PICK h \in 1 .. b - 1 : LetOut(order[h], y) /\ \E ds : Authorized(v, content[order[h]].payload, ds)
    <3> DEFINE S == dag[s]
               k == b - 1
    <3>1. Ordered(order, S) /\ k \in 0 .. Len(order) /\ Sound(order, k, v, was)
      BY <1>7, <1>12, <1>14
    <3> HIDE DEF S, k, was
    <3>2. \E h \in 1 .. k : LetOut(order[h], y) /\ \E ds : Authorized(v, content[order[h]].payload, ds)
      BY <1>7, <1>13, <1>14, <1>17, <3>1, WayOf
    <3> QED BY <3>2 DEF k
  <2>2. PICK ds : Authorized(v, content[order[h]].payload, ds)
    BY <2>1
  <2>3. /\ order[h] \in dag[s] /\ Type(order[h]) = "pot-release"
        /\ content[order[h]].payload.claim = <<q[1], q[2]>>
        /\ content[order[h]].payload.from = q[2] /\ content[order[h]].payload.to = y[3]
    BY <1>7, <1>12, <1>13, <2>1 DEF LetOut, Ordered
  <2>4. y[3] = q[3]
    <3>1. CASE q[2] = Pot
      BY <1>2, <1>4, <1>5, <2>2, <2>3, <3>1, SamePayee DEF v
    <3>2. CASE q[2] = Escrow
      <4>1. order[h] \in Releases(s, q)
        BY <1>2, <2>3 DEF Releases
      <4> QED BY <2>3, <3>2, <4>1
    <3> QED BY <1>3, <3>1, <3>2 DEF Address
  <2> DEFINE m == SubSeq(y, 1, 3)
  <2>5. m \in ClaimIds /\ Len(m) = 3 /\ m[1] = y[1] /\ m[2] = y[2] /\ m[3] = y[3]
    BY <1>13, <1>17, ThreePlaces
  <2> HIDE DEF m
  <2>6. m = q
    BY <1>2, <1>13, <2>4, <2>5, SameThree
  <2>7. WentThrough(c[b - 1], q)
    <3>1. Len(q) <= Len(y) /\ SubSeq(y, 1, Len(q)) = q
      BY <1>2, <1>15, <1>17, <2>6 DEF m
    <3> QED BY <1>13, <3>1 DEF WentThrough
  <2> QED BY <1>2, <1>7, <1>8, <1>12, <2>7, Lasts
<1>18. WentThrough(c[n], q)
  <2>1. \A m \in Nat : m >= 2 => m = 2 \/ m >= 3
    OBVIOUS
  <2> QED BY <1>13, <1>15, <1>16, <1>17, <2>1
<1>19. PICK z \in DOMAIN Conservation(s).claims : 3 <= Len(z) /\ SubSeq(z, 1, 3) = q
  BY <1>2, <1>8, <1>18 DEF WentThrough
<1>20. Len(z) >= 3
  <2>1. z \in ClaimIds
    BY ClaimsAre DEF BaseInv
  <2> QED BY <1>19, <2>1 DEF ClaimIds
<1> QED BY <1>19, <1>20 DEF Paid

(* A prize or a deposit that a view says was paid is paid in the view of   *)
(* every domain that knows more, but for what the code lets be undone.     *)
THEOREM PoolPaidStaysPaid == HashIsNumber => (Spec => []PaidStaysPaid)
<1> SUFFICES ASSUME HashIsNumber PROVE Spec => []PaidStaysPaid
  OBVIOUS
<1>1. BaseInv /\ (Apart => DonationInv) => PaidStaysPaid
  <2> SUFFICES ASSUME BaseInv, Apart, DonationInv, NEW r \in Replicas, NEW s \in Replicas, dag[r] \subseteq dag[s],
                      NEW q \in Paid(r), WellPlaced(r, q),
                      q[2] = Pot => SameCycle(r, s, q),
                      q[2] = Escrow => Positive(plugin.condition),
                      q[2] = Escrow => \A id \in Releases(s, q) : content[id].payload.to = q[3]
               PROVE  q \in Paid(s)
    BY PluginAssumption DEF PaidStaysPaid, Apart, BaseInv
  <2> QED BY PaidAgain
<1> QED BY <1>1, BaseAlways, DonationAlways, PTL
=============================================================================
