----------------------------- MODULE PoolLedger -----------------------------
(***************************************************************************)
(* Keyless addresses that pay by recomputation: the pool fold              *)
(* (pool/pool-reducer.js), permissionless contracts                        *)
(* (generic-contract-reducer.js over causal-condition-evaluator.js), the   *)
(* pot-release rule of conservation/conservation-bridge.js, main.js's      *)
(* two-pass materializeConservation(), and the plugins that post to them   *)
(* through the sandbox: examples/jackpot-plugin/jackpot.js, an escrow like *)
(* the one of the contract tests, or both a jackpot and a contract beside  *)
(* it, which any plugin may mint and any may refer to (postCausalEvent     *)
(* takes every event).                                                     *)
(*                                                                         *)
(* A plugin call is a sequence of posts with awaits between them; merges   *)
(* run in between, and no other call of that domain.  A post reads the     *)
(* tip, hashes and sets the tip: one step here, since nothing else of the  *)
(* domain runs (DomainLedger has the overlaps) and merges only add events. *)
(*                                                                         *)
(* One pool and one contract.  A claim's id is the sequence of its owner   *)
(* and the addresses it went to.  Amounts are in parts of a unit, so that  *)
(* one may be below a ticket.                                              *)
(***************************************************************************)
EXTENDS EventDag

CONSTANTS Pot, Escrow,   \* potAddress(poolId), and the contract's address
          Unit,          \* what one ticket costs
          Plugins,       \* what the users may have opened, with the claim each
                         \* starts with (purse) and bounds on the events ever
                         \* created (events) and payout buttons pressed (payouts)
          DrawHash(_,_), \* the hash a draw is taken from
          None           \* null

ASSUME PoolAssumption ==
  /\ Unit \in Nat \ {0}
  /\ Pot # Escrow /\ {Pot, Escrow, None} \cap Replicas = {}

ASSUME PluginAssumption ==
  \A p \in Plugins :
    /\ p.name \in {"jackpot", "escrow", "both"}
    /\ p.purse \in [Replicas -> Nat]
    /\ p.name # "escrow" => p.length \in Nat \ {0}
    /\ p.name # "jackpot" =>
         /\ p.condition \in Seq(Range(p.condition))
         /\ \A c \in Range(p.condition) :
              /\ c.type = "count" => c.min \in Nat
              /\ c.type = "ownership" => {"claim", "owner"} \subseteq DOMAIN c

VARIABLES lastEventId,   \* each domain's tip
          plugin,        \* what the users have opened
          doing,         \* domain -> the plugin call in progress
          payouts        \* payout buttons pressed so far

dagVars == <<content, dag>>
vars == <<content, dag, lastEventId, plugin, doing, payouts>>

Type(id) == content[id].payload.type
Domain(id) == content[id].payload.domain
Idle == [kind |-> "idle"]

-----------------------------------------------------------------------------
(* The draw                                                                *)

(* computeWeightedDraw: one ticket per whole unit; the contributors hold   *)
(* consecutive ranges of them.                                             *)
ComputeWeightedDraw(k, cs) ==
  LET end[i \in 0 .. Len(cs)] == IF i = 0 THEN 0 ELSE end[i - 1] + cs[i].amount \div Unit
      winning == DrawHash(k, cs) % end[Len(cs)]
  IN  IF end[Len(cs)] = 0 THEN None
      ELSE cs[CHOOSE i \in DOMAIN cs : end[i - 1] <= winning /\ winning < end[i]].by

-----------------------------------------------------------------------------
(* causal-condition-evaluator.js, of a condition c for a release e.  The   *)
(* placeholders of a contract's condition stand for the release's values.  *)

EvalOwnership(c, claims) == c.claim \in DOMAIN claims /\ claims[c.claim].owner = c.owner

EvalCount(c, known) ==
  c.min <= Cardinality({id \in known : Type(id) = c.eventType /\ c.domain \in {None, Domain(id)}})

\* The key that signed is the expected domain's.
EvalSignature(c) == c.signer = c.expectedDomain

EvalCausalOrder(c, known) == c.after \in known /\ c.before \in Ancestors[c.after]

\* substitutePlaceholders, for the leaf whose fields may be placeholders.
Substituted(c, e) ==
  IF c.type = "ownership"
  THEN [c EXCEPT !.claim = IF @ = <<"$claimId">> THEN e.claim ELSE @,
                 !.owner = IF @ = "$from" THEN e.from ELSE @]
  ELSE c

\* unique: verifyGenericRelease() never passes a used key.
EvalLeaf(c, known, claims) ==
  CASE c.type = "ownership" -> EvalOwnership(c, claims)
    [] c.type = "count" -> EvalCount(c, known)
    [] c.type = "deterministic-match" -> c.expected = ComputeWeightedDraw(c.cycle, c.drawn)
    [] c.type = "unique" -> TRUE
    [] c.type = "causal-order" -> EvalCausalOrder(c, known)
    [] c.type = "signature" -> EvalSignature(c)
    [] OTHER -> FALSE

\* Whether a part of a condition holds, of its own parts these being held.
PartHolds(c, held, e, known, claims) ==
  CASE c.type = "all" -> c.of \subseteq held
    [] c.type = "any" -> c.of \cap held # {}
    [] c.type = "not" -> c.of \cap held = {}
    [] OTHER -> EvalLeaf(Substituted(c, e), known, claims)

(* A condition is the sequence of its parts, each after those it is made   *)
(* of, which it names by their places, and itself the last.                *)
EvaluateCondition(c, e, known, claims) ==
  LET held[n \in 0 .. Len(c)] ==
        IF n = 0 THEN {}
        ELSE held[n - 1] \cup {m \in {n} : PartHolds(c[n], held[n - 1], e, known, claims)}
  IN  Len(c) \in held[Len(c)]

-----------------------------------------------------------------------------
(* Conservation: the active claims, the order they were activated in, and  *)
(* the nonces of accepted transfers and releases.                          *)

InitialConservation == [claims |-> [c \in {} |-> c], order |-> << >>, nonces |-> {}]

Activate(s, c, claim) ==
  [s EXCEPT !.claims = [x \in DOMAIN @ \cup {c} |-> IF x = c THEN claim ELSE @[x]],
            !.order = Append(@, c)]

\* transfer() as one step: from must own the claim.
Move(s, e) ==
  IF e.nonce \notin s.nonces /\ e.claim \in DOMAIN s.claims /\ s.claims[e.claim].owner = e.from
  THEN LET rest == [x \in DOMAIN s.claims \ {e.claim} |-> s.claims[x]]
       IN  Activate([s EXCEPT !.claims = rest, !.nonces = @ \cup {e.nonce}],
                    Append(e.claim, e.to), [s.claims[e.claim] EXCEPT !.owner = e.to])
  ELSE s

-----------------------------------------------------------------------------
(* The pool: its length, 0 while there is none, and its cycles.            *)

InitialPool == [length |-> 0, cycles |-> << >>]

\* belongsToCycle.
InCycle(p, k, c) == k \in DOMAIN p.cycles /\ \E i \in DOMAIN p.cycles[k] : p.cycles[k][i].claim = c

UsedClaims(p) == UNION {{p.cycles[k][i].claim : i \in DOMAIN p.cycles[k]} : k \in DOMAIN p.cycles}

\* Mutant: a cycle takes one contribution too many.
OpenCycle_OffByOne(p) ==
  CHOOSE k \in 1 .. Len(p.cycles) + 1 :
    /\ k > Len(p.cycles) \/ Len(p.cycles[k]) <= p.length
    /\ \A j \in 1 .. k - 1 : Len(p.cycles[j]) > p.length

\* currentOpenCycleIndex: the first cycle that is not full.
OpenCycle(p) ==
  CHOOSE k \in 1 .. Len(p.cycles) + 1 :
    /\ k > Len(p.cycles) \/ Len(p.cycles[k]) < p.length
    /\ \A j \in 1 .. k - 1 : Len(p.cycles[j]) >= p.length

\* The claim of a contribution is in the pot, and backs no other.
Contributable(p, e, claims) ==
  /\ p.length # 0
  /\ e.claim \notin UsedClaims(p)
  /\ e.claim \in DOMAIN claims /\ claims[e.claim].owner = Pot

\* Mutant: a second pool-init starts the pool again.
ApplyPool_Reinit(p, id, claims) ==
  LET e == content[id].payload
      k == OpenCycle(p)
      entry == [by |-> e.domain, claim |-> e.claim, amount |-> claims[e.claim].amount]
  IN  CASE e.type = "pool-init" -> [length |-> e.length, cycles |-> << >>]
        [] e.type = "pool-contribute" /\ Contributable(p, e, claims) ->
             IF k > Len(p.cycles) THEN [p EXCEPT !.cycles = Append(@, <<entry>>)]
             ELSE [p EXCEPT !.cycles[k] = Append(@, entry)]
        [] OTHER -> p

ApplyPool(p, id, claims) ==
  LET e == content[id].payload
      k == OpenCycle(p)
      entry == [by |-> e.domain, claim |-> e.claim, amount |-> claims[e.claim].amount]
  IN  CASE e.type = "pool-init" /\ p.length = 0 -> [p EXCEPT !.length = e.length]
        [] e.type = "pool-contribute" /\ Contributable(p, e, claims) ->
             IF k > Len(p.cycles) THEN [p EXCEPT !.cycles = Append(@, <<entry>>)]
             ELSE [p EXCEPT !.cycles[k] = Append(@, entry)]
        [] OTHER -> p

\* materializePool: every contribution is judged by the same, final claims.
MaterializePool(order, claims) ==
  LET p[n \in 0 .. Len(order)] == IF n = 0 THEN InitialPool ELSE ApplyPool(p[n - 1], order[n], claims)
  IN  p[Len(order)]

IsFull(p, k) == k \in DOMAIN p.cycles /\ Len(p.cycles[k]) >= p.length

\* What must hold of a release once its claim is known to be of the cycle.
PayoutCondition(e, drawn) ==
  <<[type |-> "ownership", claim |-> e.claim, owner |-> e.from],
    [type |-> "deterministic-match", cycle |-> e.proof.cycle, drawn |-> drawn, expected |-> e.to],
    [type |-> "all", of |-> {1, 2}]>>

\* Mutant: the draw is over the pool's whole history.
VerifyPoolPayout_WholePool(p, e, claims) ==
  /\ e.from = Pot /\ e.proof.type = "pool"
  /\ IsFull(p, e.proof.cycle) /\ InCycle(p, e.proof.cycle, e.claim)
  /\ EvaluateCondition(PayoutCondition(e, FlattenSeq(p.cycles)), e, {}, claims)

VerifyPoolPayout(p, e, claims) ==
  /\ e.from = Pot /\ e.proof.type = "pool"
  /\ IsFull(p, e.proof.cycle) /\ InCycle(p, e.proof.cycle, e.claim)
  /\ EvaluateCondition(PayoutCondition(e, p.cycles[e.proof.cycle]), e, {}, claims)

-----------------------------------------------------------------------------
(* Contracts                                                               *)

\* materializeGenericContracts: the first condition minted is permanent.
MaterializeContract(order) ==
  LET mints == {i \in DOMAIN order : Type(order[i]) = "generic-contract-init"}
  IN  IF mints = {} THEN None ELSE content[order[Least(mints)]].payload.condition

\* Mutant: a contract that is not known asks for nothing.
VerifyGenericRelease_Unminted(condition, known, e, claims) ==
  /\ e.proof.type = "contract"
  /\ condition = None \/ EvaluateCondition(condition, e, known, claims)

VerifyGenericRelease(condition, known, e, claims) ==
  /\ e.proof.type = "contract" /\ condition # None
  /\ EvaluateCondition(condition, e, known, claims)

-----------------------------------------------------------------------------
(* The two passes of materializeConservation()                             *)

\* verifyPotRelease closes over the views v; the first pass has none, and rejects every release.
Authorized(v, e, claims) ==
  /\ v.verifies
  /\ VerifyPoolPayout(v.pool, e, claims) \/ VerifyGenericRelease(v.condition, v.known, e, claims)

(* applyConservationEvent: a transfer is signed by its sender; a release   *)
(* is not, and counts only if it is authorized by the claims so far.       *)
ApplyConservation(s, id, v) ==
  LET e == content[id].payload
  IN  CASE e.type = "claim-issue" -> Activate(s, <<e.domain>>, [owner |-> e.domain, amount |-> e.amount])
        [] e.type = "transfer" -> Move(s, e)
        [] e.type = "pot-release" -> IF Authorized(v, e, s.claims) THEN Move(s, e) ELSE s
        [] OTHER -> s

FoldConservation(order, v) ==
  LET s[n \in 0 .. Len(order)] == IF n = 0 THEN InitialConservation ELSE ApplyConservation(s[n - 1], order[n], v)
  IN  s[Len(order)]

Provisional(order) == FoldConservation(order, [verifies |-> FALSE])

\* DomainReplica.materializePool, the pool that plugins see.
PoolView(r) == LET order == TopoOrder(r) IN MaterializePool(order, Provisional(order).claims)

\* The second pass checks the releases by the pool of the first.
Conservation(r) ==
  LET order == TopoOrder(r)
      pool == MaterializePool(order, Provisional(order).claims)
  IN  FoldConservation(order,
        [verifies |-> TRUE, pool |-> pool, condition |-> MaterializeContract(order), known |-> dag[r]])

-----------------------------------------------------------------------------
(* Plugins                                                                 *)

\* onPostCausalEvent and onTransferClaim: after the tip, in the domain's name.
Post(r, payload) ==
  \E id \in Ids :
    /\ Insert(r, [parents |-> {lastEventId[r]}, payload |-> payload], id)
    /\ Cardinality(DOMAIN content') <= plugin.events
    /\ lastEventId' = [lastEventId EXCEPT ![r] = id]
    /\ UNCHANGED plugin

Goes(r, next) == doing' = [doing EXCEPT ![r] = next]

Owned(r) == LET claims == Conservation(r).claims IN {c \in DOMAIN claims : claims[c].owner = r}

\* The nonce of a signed transfer is random: another for every event.
Transfer(r, c, to) ==
  [type |-> "transfer", domain |-> r, claim |-> c, from |-> r, to |-> to, nonce |-> <<r, lastEventId[r]>>]

Gives(r, c) ==
  /\ Post(r, Transfer(r, c, Pot))
  /\ Goes(r, [kind |-> "given", amount |-> Conservation(r).claims[c].amount])

\* donate: the pool is minted if the domain does not know one.
Donates(r, c) ==
  /\ plugin.name # "escrow" /\ doing[r] = Idle /\ c \in Owned(r)
  /\ IF PoolView(r).length = 0
     THEN /\ Post(r, [type |-> "pool-init", domain |-> r, length |-> plugin.length])
          /\ Goes(r, [kind |-> "minted", claim |-> c])
     ELSE Gives(r, c)
  /\ UNCHANGED payouts

DonationGoesOn(r) ==
  /\ doing[r].kind = "minted"
  /\ doing[r].claim \in Owned(r)
  /\ Gives(r, doing[r].claim)
  /\ UNCHANGED payouts

\* The plugin looks for its claim in the pot by the amount.
FoundClaim(r, amount) ==
  LET s == Conservation(r)
      Fits(c) == c \in DOMAIN s.claims /\ s.claims[c].owner = Pot /\ s.claims[c].amount = amount
      fits == {i \in DOMAIN s.order : Fits(s.order[i])}
  IN  IF fits = {} THEN << >> ELSE s.order[Least(fits)]

Contributes(r) ==
  /\ doing[r].kind = "given"
  /\ Post(r, [type |-> "pool-contribute", domain |-> r, claim |-> FoundClaim(r, doing[r].amount)])
  /\ Goes(r, Idle)
  /\ UNCHANGED payouts

\* attemptPayout: all closed cycles of now, paid already or not.
PayoutStarts(r) ==
  LET p == PoolView(r)
      releases[k \in 0 .. Len(p.cycles)] ==
        IF k = 0 THEN << >>
        ELSE releases[k - 1] \o IF IsFull(p, k)
                               THEN [i \in DOMAIN p.cycles[k] |-> [cycle |-> k, claim |-> p.cycles[k][i].claim]]
                               ELSE << >>
  IN  /\ doing[r] = Idle /\ payouts < plugin.payouts
      /\ releases[Len(p.cycles)] # << >>
      /\ payouts' = payouts + 1
      /\ Goes(r, [kind |-> "paying", todo |-> releases[Len(p.cycles)], drawn |-> 0, winner |-> None])
      /\ UNCHANGED <<dagVars, lastEventId, plugin>>

Release(r, c, from, to, nonce, proof) ==
  [type |-> "pot-release", domain |-> r, claim |-> c, from |-> from, to |-> to,
   nonce |-> nonce, proof |-> proof]

\* poolDraw, of the pool as it is then.
WinnerOf(p, k) == IF k \in DOMAIN p.cycles THEN ComputeWeightedDraw(k, p.cycles[k]) ELSE None

\* Mutant: the release is posted whoever won.
PassedOver_Never(winner) == FALSE

PassedOver(winner) == winner = None

(* One release: the draw is asked for when its cycle's turn comes; a cycle *)
(* without a winner is passed over.                                        *)
PayoutGoesOn(r) ==
  LET d == doing[r]
      next == Head(d.todo)
      winner == IF next.cycle = d.drawn THEN d.winner ELSE WinnerOf(PoolView(r), next.cycle)
      others == {i \in DOMAIN d.todo : d.todo[i].cycle # next.cycle} \cup {Len(d.todo) + 1}
      rest == IF PassedOver(winner) THEN SubSeq(d.todo, Least(others), Len(d.todo)) ELSE Tail(d.todo)
  IN  /\ d.kind = "paying"
      /\ IF PassedOver(winner) THEN UNCHANGED <<dagVars, lastEventId, plugin>>
         ELSE Post(r, Release(r, next.claim, Pot, winner, <<Pot, next.cycle, next.claim>>,
                              [type |-> "pool", cycle |-> next.cycle]))
      /\ Goes(r, IF rest = << >> THEN Idle
                 ELSE [d EXCEPT !.todo = rest, !.drawn = next.cycle, !.winner = winner])
      /\ UNCHANGED payouts

Posted(r, type) == \E id \in dag[r] : Domain(id) = r /\ Type(id) = type

(* One domain mints the contract, any releases.  An escrow is also given a *)
(* deposit and approvals, and releases what it holds; a contract beside a  *)
(* pool any claim, whoever owns it: from is one more value of the release. *)
ContractStep(r) ==
  /\ plugin.name # "jackpot" /\ doing[r] = Idle
  /\ \/ /\ r = plugin.depositor /\ ~Posted(r, "generic-contract-init") /\ UNCHANGED payouts
        /\ Post(r, [type |-> "generic-contract-init", domain |-> r, condition |-> plugin.condition])
     \/ /\ plugin.name = "escrow" /\ r = plugin.depositor /\ ~Posted(r, "transfer") /\ UNCHANGED payouts
        /\ \E c \in Owned(r) : Post(r, Transfer(r, c, Escrow))
     \/ /\ plugin.name = "escrow" /\ ~Posted(r, "approval") /\ UNCHANGED payouts
        /\ Post(r, [type |-> "approval", domain |-> r])
     \/ /\ payouts < plugin.payouts /\ payouts' = payouts + 1
        /\ \E c \in DOMAIN Conservation(r).claims, to \in Replicas :
             LET from == Conservation(r).claims[c].owner
             IN  /\ plugin.name = "escrow" => from = Escrow
                 /\ Post(r, Release(r, c, from, to, <<r, lastEventId[r]>>, [type |-> "contract"]))
  /\ UNCHANGED doing

Sync(r, s) ==
  /\ dag[r] # dag[s]
  /\ MergeBothWays(r, s)
  /\ UNCHANGED <<lastEventId, plugin, doing, payouts>>

-----------------------------------------------------------------------------

\* Every domain has issued a claim, and the domains have met.
Init ==
  /\ plugin \in Plugins
  /\ \E id \in [Replicas -> Ids] :
       /\ IsInjective(id)
       /\ content = [i \in Range(id) |->
            LET r == CHOOSE x \in Replicas : id[x] = i
            IN  [parents |-> {}, payload |->
                   [type |-> "claim-issue", domain |-> r, amount |-> plugin.purse[r]]]]
       /\ dag = [r \in Replicas |-> Range(id)]
       /\ lastEventId = id
  /\ doing = [r \in Replicas |-> Idle]
  /\ payouts = 0

Next ==
  \/ \E r \in Replicas :
       \/ \E c \in DOMAIN Conservation(r).claims : Donates(r, c)
       \/ DonationGoesOn(r) \/ Contributes(r)
       \/ PayoutStarts(r) \/ PayoutGoesOn(r) \/ ContractStep(r)
  \/ \E r \in Replicas : \E s \in Replicas \ {r} : Sync(r, s)

Spec == Init /\ [][Next]_vars

-----------------------------------------------------------------------------

\* What plugins write, and the claims that domains have issued.
Payload ==
  LET claim == Seq(Replicas \cup {Pot, Escrow})
      release(from, nonce, proof) ==
        [type : {"pot-release"}, domain : Replicas, claim : claim, from : from, to : Replicas,
         nonce : nonce, proof : proof]
  IN  [type : {"claim-issue"}, domain : Replicas, amount : Nat]
        \cup [type : {"transfer"}, domain : Replicas, claim : claim, from : Replicas,
              to : {Pot, Escrow}, nonce : Replicas \X Ids]
        \cup [type : {"pool-init"}, domain : Replicas, length : Nat \ {0}]
        \cup [type : {"pool-contribute"}, domain : Replicas, claim : claim]
        \cup release({Pot}, {Pot} \X Nat \X claim, [type : {"pool"}, cycle : Nat])
        \cup release(Replicas \cup {Pot, Escrow}, Replicas \X Ids, [type : {"contract"}])
        \cup [type : {"generic-contract-init"}, domain : Replicas,
              condition : {p.condition : p \in {x \in Plugins : x.name # "jackpot"}}]
        \cup [type : {"approval"}, domain : Replicas]

TypeOK ==
  /\ DagTypeOK(Payload)
  /\ lastEventId \in [Replicas -> Ids] /\ \A r \in Replicas : lastEventId[r] \in dag[r]
  /\ plugin \in Plugins /\ payouts \in Nat
  /\ \A r \in Replicas : doing[r].kind \in {"idle", "minted", "given", "paying"}

(* In every replica's view the cycles are filled in turn, each to exactly  *)
(* the pool's length, and a claim backs one contribution in all of them.   *)
CyclesAreExact ==
  \A r \in Replicas :
    LET p == PoolView(r)
    IN  /\ \A k \in DOMAIN p.cycles :
             Len(p.cycles[k]) = p.length \/ (k = Len(p.cycles) /\ Len(p.cycles[k]) < p.length)
        /\ \A j, k \in DOMAIN p.cycles : \A m \in DOMAIN p.cycles[j], n \in DOMAIN p.cycles[k] :
             p.cycles[j][m].claim = p.cycles[k][n].claim => j = k /\ m = n

\* The claim c left its i-th owner for the winner of the full cycle it belongs to.
Drawn(r, c, i) ==
  LET p == PoolView(r)
  IN  \E k \in DOMAIN p.cycles :
        /\ Len(p.cycles[k]) = p.length
        /\ InCycle(p, k, SubSeq(c, 1, i))
        /\ c[i + 1] = ComputeWeightedDraw(k, p.cycles[k])

\* It left for whom a release says that r knows, by the contract that r knows.
ByContract(r, c, i) ==
  /\ MaterializeContract(TopoOrder(r)) # None
  /\ \E id \in dag[r] :
       LET e == content[id].payload
       IN  /\ e.type = "pot-release" /\ e.proof.type = "contract"
           /\ e.claim = SubSeq(c, 1, i) /\ e.from = c[i] /\ e.to = c[i + 1]

(* However what was posted is merged and reordered, in every view a claim  *)
(* that was in the pot left it for the winner of the full cycle it belongs *)
(* to, or as a release of exactly that claim to that domain asked of the   *)
(* contract; never by a transfer, an open cycle, another cycle's draw, or  *)
(* a contract that the view does not know.                                 *)
PrizesGoToWinners ==
  \A r \in Replicas :
    \A c \in DOMAIN Conservation(r).claims : \A i \in 1 .. Len(c) - 1 :
      c[i] = Pot => Drawn(r, c, i) \/ ByContract(r, c, i)

(* What main.js:351-357 and conservation-bridge.js:52-62 say of a release: *)
(* a pot's claim moves only as the contract governing that pot has it.     *)
(* The code lets the other contract move it too.                           *)
OnlyTheDrawPays ==
  \A r \in Replicas :
    \A c \in DOMAIN Conservation(r).claims : \A i \in 1 .. Len(c) - 1 :
      c[i] = Pot => Drawn(r, c, i)

Transfers(r) == {id \in dag[r] : Type(id) = "transfer"}

(* A donation is counted in every view it reaches, whatever is ordered     *)
(* before it, though the view that checks it knows no payout.  Three       *)
(* things the code gets wrong are left out: the donor's history does not   *)
(* contain a pool-init, which may then be folded too late; another claim   *)
(* of that amount was given, and find() took it for this one; and what     *)
(* was given is a prize, which the first pass does not know.  Nothing is   *)
(* said of a pool with a contract beside it, by which the gift may be gone *)
(* before it is found.                                                     *)
DonationsCounted ==
  plugin.name # "both" =>
    LET above == Ancestors
    IN  \A r \in Replicas : \A e \in {id \in dag[r] : Type(id) = "pool-contribute"} :
          LET gift == CHOOSE t \in Parents(e) : Type(t) = "transfer"
              c == content[gift].payload.claim
          IN  \/ Append(c, Pot) \in UsedClaims(PoolView(r))
              \/ \A id \in above[e] : Type(id) # "pool-init"
              \/ \E d \in Replicas \ {c[1]} : plugin.purse[d] = plugin.purse[c[1]]
              \/ Len(c) > 1

\* The prizes a view says were paid, of claims that were not prizes before.
Paid(r) == {SubSeq(c, 1, 3) : c \in {x \in DOMAIN Conservation(r).claims : Len(x) >= 3}}

\* No part can be undone: no negation, and only the released claim's owner asked for.
Positive(c) ==
  \A i \in DOMAIN c :
    /\ c[i].type # "not"
    /\ c[i].type = "ownership" => c[i].claim = <<"$claimId">> /\ c[i].owner = "$from"

Releases(r, q) ==
  {id \in dag[r] : Type(id) = "pot-release" /\ content[id].payload.claim = SubSeq(q, 1, 2)}

\* Some release of q, by the cycle it is in, is posted after the deposit it pays out.
WellPlaced(r, q) ==
  LET above == Ancestors
  IN  \E id \in Releases(r, q), t \in Transfers(r) :
        LET e == content[id].payload
        IN  /\ e.to = q[3] /\ t \in above[id]
            /\ content[t].payload.claim = SubSeq(q, 1, 1)
            /\ q[2] = Pot => InCycle(PoolView(r), e.proof.cycle, e.claim)

\* The cycle that q was in is one of s's, with the same contributions.
SameCycle(r, s, q) ==
  \A k \in DOMAIN PoolView(r).cycles : InCycle(PoolView(r), k, SubSeq(q, 1, 2)) =>
    k \in DOMAIN PoolView(s).cycles /\ PoolView(s).cycles[k] = PoolView(r).cycles[k]

(* What a domain sees as paid, every domain that knows more sees as paid,  *)
(* though it folds the whole history again in another order; as long as    *)
(* the release descends from the deposit.  A jackpot's prize is taken back *)
(* only if a contribution that arrives late gets into its cycle; an        *)
(* escrow's if its condition has a part that can be undone, or if somebody *)
(* releases the same deposit to another domain, as the condition names no  *)
(* payee and the first release in the order wins.  Nothing is said of a    *)
(* pool with a contract beside it: the two pay each other's claims.        *)
PaidStaysPaid ==
  plugin.name # "both" =>
    \A r, s \in Replicas : dag[r] # dag[s] /\ dag[r] \subseteq dag[s] =>
      \A q \in Paid(r) :
        \/ q \in Paid(s)
        \/ ~WellPlaced(r, q)
        \/ q[2] = Pot /\ ~SameCycle(r, s, q)
        \/ q[2] = Escrow /\ ~Positive(plugin.condition)
        \/ q[2] = Escrow /\ \E id \in Releases(s, q) : content[id].payload.to # q[3]
=============================================================================
