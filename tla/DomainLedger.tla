---------------------------- MODULE DomainLedger ----------------------------
(***************************************************************************)
(* DomainReplica of public/js/app/main.js: the handlers that write a       *)
(* domain's own history (cadence, claims, transfers) through the tips they *)
(* keep in memory, over the DAG of event-dag.js; and the two views folded  *)
(* from it, G (economics/g.js with cadence.js, reward.js, scarcity.js) and *)
(* Conservation (conservation/conservation-bridge.js).                     *)
(*                                                                         *)
(* Each handler reads the tips, awaits addEvent() and writes the tips when *)
(* it resumes.  No button is disabled meanwhile, and a plugin may call     *)
(* too, so several handlers of one domain may be between two awaits.       *)
(*                                                                         *)
(* A domain is named by its replica.  b, T and the reward curve are left   *)
(* out: a claim is worth the epochs it has waited.                         *)
(***************************************************************************)
EXTENDS EventDag

CONSTANTS Active,      \* the domains with a user; others have their genesis only
          Handlers,    \* slots for handlers in progress
          MinQ,        \* epochs before a claim is worth anything
          Budget,      \* what a domain may ever be issued: theta.budgets, where
                       \* null, no limit, is a number the bounds keep out of reach
          Amounts,     \* what users enter as the amount to send
          MaxPending,  \* bound: commitments staged at once
          Recipients,  \* the domains users name as the receiver
          MaxEvents,   \* bound: different events ever created
          MaxMoves,    \* bound: the same, in histories where value moves
          MaxReloads,  \* bound: reloads
          NoEvent      \* null

ASSUME LedgerAssumption ==
  /\ IsFiniteSet(Replicas) /\ IsFiniteSet(Handlers)
  /\ Active \subseteq Replicas
  /\ MinQ \in Nat /\ Budget \in Nat /\ Amounts \subseteq Nat
  /\ MaxEvents \in Nat /\ MaxMoves \in Nat /\ MaxReloads \in Nat
  /\ NoEvent \notin Ids

VARIABLES genesisId, lastEventId, lastCadenceId, epoch, \* the tips of each replica
          pending,    \* q0 of each staged commitment
          committed,  \* committedForeignEventIds
          running,    \* handler -> where it is, or Idle
          reloads,    \* how often a page has been reloaded
          forked,     \* history: replicas whose tips were shared or guessed
          raced       \* history: replicas with two advanceCadence() at once

tips == <<genesisId, lastEventId, lastCadenceId, epoch>>
dagVars == <<content, dag>>
vars == <<content, dag, genesisId, lastEventId, lastCadenceId, epoch,
          pending, committed, running, reloads, forked, raced>>

Type(id) == content[id].payload.type
Domain(id) == content[id].payload.domain

\* The events handlers write.
Genesis(r) == [type |-> "genesis", domain |-> r]
Cadence(r, n) == [type |-> "cadence", domain |-> r, epoch |-> n]
Reception(r, n, refs) == [type |-> "reception", domain |-> r, epoch |-> n, refs |-> refs]
Accrual(r, q0) == [type |-> "accrual", domain |-> r, q0 |-> q0]
ClaimIssue(r, n, a) == [type |-> "claim-issue", domain |-> r, claim |-> <<r, n>>, amount |-> a]
Transfer(r, c, to) == [type |-> "transfer", domain |-> r, claim |-> c, to |-> to]

Idle == [kind |-> "idle"]
Busy(r) == \E h \in Handlers : running[h] # Idle /\ running[h].at = r

-----------------------------------------------------------------------------
(* G                                                                       *)

InitialG ==
  [epoch |-> [r \in Replicas |-> 0], last |-> [r \in Replicas |-> NoEvent],
   balance |-> [r \in Replicas |-> 0], used |-> [r \in Replicas |-> 0],
   rejected |-> {}]

Reject(g, id) == [g EXCEPT !.rejected = @ \cup {id}]

\* applyCadenceEvent: the next epoch, chained to the last accepted one.
ApplyCadence(g, id) ==
  LET e == content[id].payload
      r == e.domain
  IN  IF e.epoch = g.epoch[r] + 1 /\ (g.last[r] = NoEvent \/ g.last[r] \in Parents(id))
      THEN [g EXCEPT !.epoch[r] = e.epoch, !.last[r] = id]
      ELSE Reject(g, id)

Reward(q) == IF q < MinQ THEN 0 ELSE q

\* The reward for the epochs elapsed since the commitment.
Earned(g, e) == Reward(IF g.epoch[e.domain] > e.q0 THEN g.epoch[e.domain] - e.q0 ELSE 0)

\* Mutant: only the budget is told of the clamp.
ApplyAccrual_Unclamped(g, id) ==
  LET e == content[id].payload
      left == Budget - g.used[e.domain]
      issued == IF Earned(g, e) < left THEN Earned(g, e) ELSE left
  IN  [g EXCEPT !.balance[e.domain] = @ + Earned(g, e), !.used[e.domain] = @ + issued]

\* It is clamped to what is left of the budget.
ApplyAccrual(g, id) ==
  LET e == content[id].payload
      left == Budget - g.used[e.domain]
      issued == IF Earned(g, e) < left THEN Earned(g, e) ELSE left
  IN  [g EXCEPT !.balance[e.domain] = @ + issued, !.used[e.domain] = @ + issued]

\* A claim-issue debits the balance, or is rejected if there is not enough.
ApplyClaimIssue(g, id) ==
  LET e == content[id].payload
  IN  IF e.amount > g.balance[e.domain] THEN Reject(g, id)
      ELSE [g EXCEPT !.balance[e.domain] = @ - e.amount]

ApplyG(g, id) ==
  CASE Type(id) = "cadence" -> ApplyCadence(g, id)
    [] Type(id) = "accrual" -> ApplyAccrual(g, id)
    [] Type(id) = "claim-issue" -> ApplyClaimIssue(g, id)
    [] OTHER -> g

\* The view after each event of a sequence.
GAlong(order) ==
  LET g[n \in 0 .. Len(order)] == IF n = 0 THEN InitialG ELSE ApplyG(g[n - 1], order[n])
  IN  g

MaterializeG(r) == LET order == TopoOrder(r) IN GAlong(order)[Len(order)]

-----------------------------------------------------------------------------
(* Conservation: the active claims, claim id -> [owner, amount].  A claim  *)
(* that is passed on leaves, and one with a longer id takes its place.     *)

With(claims, c, claim) ==
  [x \in DOMAIN claims \cup {c} |-> IF x = c THEN claim ELSE claims[x]]

Without(claims, c) == [x \in DOMAIN claims \ {c} |-> claims[x]]

\* Mutant: the transferred claim stays active.
ApplyTransfer_Copied(claims, e) ==
  IF e.claim \in DOMAIN claims /\ claims[e.claim].owner = e.domain
  THEN With(claims, Append(e.claim, e.to), [claims[e.claim] EXCEPT !.owner = e.to])
  ELSE claims

\* A transfer its owner signed: source consumed, a new claim activated.
ApplyTransfer(claims, e) ==
  IF e.claim \in DOMAIN claims /\ claims[e.claim].owner = e.domain
  THEN With(Without(claims, e.claim), Append(e.claim, e.to),
            [claims[e.claim] EXCEPT !.owner = e.to])
  ELSE claims

\* applyConservationEvent as main.js calls it, without gRejectedEventIds.
ApplyConservation(claims, id) ==
  LET e == content[id].payload
  IN  CASE e.type = "claim-issue" ->
             With(claims, e.claim, [owner |-> e.domain, amount |-> e.amount])
        [] e.type = "transfer" -> ApplyTransfer(claims, e)
        [] OTHER -> claims

ClaimsAlong(order) ==
  LET claims[n \in 0 .. Len(order)] ==
        IF n = 0 THEN [c \in {} |-> c] ELSE ApplyConservation(claims[n - 1], order[n])
  IN  claims

MaterializeConservation(r) == LET order == TopoOrder(r) IN ClaimsAlong(order)[Len(order)]

-----------------------------------------------------------------------------
(* Handlers.  What is common to all: addEvent() is called with the tips of *)
(* the moment, and the handler waits for the hash.                         *)

(* Bound on the events c: MaxEvents if there is nothing but cadences and   *)
(* the commitments that follow them, MaxMoves otherwise.                   *)
Limit(c) ==
  IF /\ \A r \in Replicas : pending[r] = << >>
     /\ \A id \in DOMAIN c : c[id].payload.type \in {"genesis", "cadence", "reception"}
  THEN MaxEvents ELSE MaxMoves

\* Handler h is free for another call, or for one that moves value.
Free(h) == running[h] = Idle /\ Cardinality(DOMAIN content) < Limit(content)
MayMove(h) == Free(h) /\ Cardinality(DOMAIN content) < MaxMoves

\* h goes on as a call of r that awaits addEvent(), then needs more.
AddEvent(h, r, kind, ps, payload, more) ==
  /\ MayAdd(r, ps)
  /\ running' = [running EXCEPT ![h] =
       [kind |-> kind, at |-> r, event |-> [parents |-> ps, payload |-> payload],
        more |-> more]]

\* h resumes: its event is in the DAG, under the name id.
Added(h, kind, id) ==
  /\ running[h].kind = kind
  /\ Insert(running[h].at, running[h].event, id)
  /\ Cardinality(DOMAIN content') <= Limit(content')

(* h, just started, shares the tips with every other handler of r that is  *)
(* in progress.  Two cadence calls that read the same tips are a race only *)
(* if they write different events.                                         *)
Starts(h, r) ==
  LET others == {o \in Handlers \ {h} : running[o] # Idle /\ running[o].at = r}
      rivals == {o \in others : /\ running[o].kind = "cadence" /\ running'[h].kind = "cadence"
                                /\ running[o].event # running'[h].event}
  IN  /\ forked' = IF others # {} THEN forked \cup {r} ELSE forked
      /\ raced' = IF rivals # {} THEN raced \cup {r} ELSE raced
      /\ UNCHANGED <<dagVars, reloads>>

Returns(h) == running' = [running EXCEPT ![h] = Idle]

\* advanceCadence, up to its await.
CadenceStarts(h, r) ==
  /\ Free(h)
  /\ AddEvent(h, r, "cadence",
              {IF lastCadenceId[r] = NoEvent THEN genesisId[r] ELSE lastCadenceId[r],
               lastEventId[r]},
              Cadence(r, epoch[r] + 1), {})
  /\ Starts(h, r)
  /\ UNCHANGED <<tips, pending, committed>>

\* What postReceptionCommitment() has not reported yet; a transfer has no domain.
NewForeign(r, known) ==
  {id \in known : Type(id) # "transfer" /\ Domain(id) # r} \ committed[r]

\* Mutant: the cadence tip is only set on reload.
CadenceAdded_NoTip(h, id) ==
  LET r == running[h].at
  IN  /\ Added(h, "cadence", id)
      /\ lastEventId' = [lastEventId EXCEPT ![r] = id]
      /\ epoch' = [epoch EXCEPT ![r] = running[h].event.payload.epoch]
      /\ running' = [running EXCEPT ![h] =
           [kind |-> "importing", at |-> r, event |-> @.event, more |-> NewForeign(r, dag[r])]]
      /\ UNCHANGED <<lastCadenceId, genesisId, pending, committed, reloads, forked, raced>>

(* The tips advance; postReceptionCommitment() looks for new foreign       *)
(* events and awaits the signing library.                                  *)
CadenceAdded(h, id) ==
  LET r == running[h].at
  IN  /\ Added(h, "cadence", id)
      /\ lastCadenceId' = [lastCadenceId EXCEPT ![r] = id]
      /\ lastEventId' = [lastEventId EXCEPT ![r] = id]
      /\ epoch' = [epoch EXCEPT ![r] = running[h].event.payload.epoch]
      /\ running' = [running EXCEPT ![h] =
           [kind |-> "importing", at |-> r, event |-> @.event, more |-> NewForeign(r, dag[r])]]
      /\ UNCHANGED <<genesisId, pending, committed, reloads, forked, raced>>

\* The commitment is signed and added after the tip of now.
ReceptionStarts(h) ==
  LET c == running[h]
  IN  /\ c.kind = "importing"
      /\ AddEvent(h, c.at, "reception", {lastEventId[c.at]},
                  Reception(c.at, c.event.payload.epoch, c.more), c.more)
      /\ UNCHANGED <<dagVars, tips, pending, committed, reloads, forked, raced>>

\* Mutant: the commitment is not part of the domain's own chain.
ReceptionAdded_NoTip(h, id) ==
  LET r == running[h].at
  IN  /\ Added(h, "reception", id)
      /\ committed' = [committed EXCEPT ![r] = @ \cup running[h].more]
      /\ Returns(h)
      /\ UNCHANGED <<tips, pending, reloads, forked, raced>>

ReceptionAdded(h, id) ==
  LET r == running[h].at
  IN  /\ Added(h, "reception", id)
      /\ lastEventId' = [lastEventId EXCEPT ![r] = id]
      /\ committed' = [committed EXCEPT ![r] = @ \cup running[h].more]
      /\ Returns(h)
      /\ UNCHANGED <<genesisId, lastCadenceId, epoch, pending, reloads, forked, raced>>

Commit(r) ==
  /\ Len(pending[r]) < MaxPending /\ Cardinality(DOMAIN content) <= MaxMoves
  /\ pending' = [pending EXCEPT ![r] = Append(@, epoch[r])]
  /\ UNCHANGED <<dagVars, tips, committed, running, reloads, forked, raced>>

\* claim(): all that is pending is taken, and added one by one.
ClaimStarts(h, r) ==
  /\ pending[r] # << >> /\ MayMove(h)
  /\ pending' = [pending EXCEPT ![r] = << >>]
  /\ AddEvent(h, r, "accrual", {lastEventId[r]}, Accrual(r, Head(pending[r])), Tail(pending[r]))
  /\ Starts(h, r)
  /\ UNCHANGED <<tips, committed>>

AccrualAdded(h, id) ==
  LET r == running[h].at
      rest == running[h].more
  IN  /\ Added(h, "accrual", id)
      /\ lastEventId' = [lastEventId EXCEPT ![r] = id]
      /\ running' = [running EXCEPT ![h] =
           IF rest = << >> THEN Idle
           ELSE [kind |-> "accrual", at |-> r, more |-> Tail(rest),
                 event |-> [parents |-> {id}, payload |-> Accrual(r, Head(rest))]]]
      /\ UNCHANGED <<genesisId, lastCadenceId, epoch, pending, committed, reloads, forked, raced>>

\* A claim id nobody has: random in the code.
FreshClaim(r) ==
  LET taken == {content[id].payload.claim[2] : id \in {i \in DOMAIN content : Type(i) = "claim-issue"}}
        \cup {running[h].event.payload.claim[2] : h \in {o \in Handlers : running[o].kind = "issue"}}
  IN  Least((1 .. Cardinality(taken) + 1) \ taken)

(* The send button, which checks the balance of the moment, and sendAiwa() *)
(* up to its first await.                                                  *)
SendStarts(h, r, to, a) ==
  /\ MayMove(h)
  /\ a <= MaterializeG(r).balance[r]
  /\ AddEvent(h, r, "issue", {lastEventId[r]}, ClaimIssue(r, FreshClaim(r), a), to)
  /\ Starts(h, r)
  /\ UNCHANGED <<tips, pending, committed>>

(* The signed transfer follows the claim-issue.  lastEventId is not        *)
(* touched until both are in, nor anything else read.                      *)
IssueAdded(h, id) ==
  LET c == running[h]
  IN  /\ Added(h, "issue", id)
      /\ running' = [running EXCEPT ![h] =
           [kind |-> "transfer", at |-> c.at, more |-> {},
            event |-> [parents |-> {id},
                       payload |-> Transfer(c.at, c.event.payload.claim, c.more)]]]
      /\ UNCHANGED <<tips, pending, committed, reloads, forked, raced>>

\* A plugin's transferClaim: of any claim, for the reducer to judge.
TransferStarts(h, r, claim, to) ==
  /\ MayMove(h)
  /\ AddEvent(h, r, "transfer", {lastEventId[r]}, Transfer(r, claim, to), {})
  /\ Starts(h, r)
  /\ UNCHANGED <<tips, pending, committed>>

TransferAdded(h, id) ==
  /\ Added(h, "transfer", id)
  /\ lastEventId' = [lastEventId EXCEPT ![running[h].at] = id]
  /\ Returns(h)
  /\ UNCHANGED <<genesisId, lastCadenceId, epoch, pending, committed, reloads, forked, raced>>

-----------------------------------------------------------------------------

Sync(r, s) ==
  /\ dag[r] # dag[s]
  /\ MergeBothWays(r, s)
  /\ UNCHANGED <<tips, pending, committed, running, reloads, forked, raced>>

\* Mutant: the tip of the cadence is taken for that of the history.
RestoreTips_OfCadence(r) ==
  LET g == MaterializeG(r)
  IN  /\ genesisId' = [genesisId EXCEPT ![r] = Head(TopoOrder(r))]
      /\ lastEventId' = [lastEventId EXCEPT ![r] = g.last[r]]
      /\ lastCadenceId' = [lastCadenceId EXCEPT ![r] = g.last[r]]
      /\ epoch' = [epoch EXCEPT ![r] = g.epoch[r]]

\* restoreTipsFromDag: the ends of the whole order, whoever's they are.
RestoreTips(r) ==
  LET order == TopoOrder(r)
      g == MaterializeG(r)
  IN  /\ genesisId' = [genesisId EXCEPT ![r] = Head(order)]
      /\ lastEventId' = [lastEventId EXCEPT ![r] = Last(order)]
      /\ lastCadenceId' = [lastCadenceId EXCEPT ![r] = g.last[r]]
      /\ epoch' = [epoch EXCEPT ![r] = g.epoch[r]]

(* The page is closed and the wallet unlocked again.  The DAG is back (see *)
(* LedgerPersistence for when it is not); what handlers were doing is not. *)
Reload(r) ==
  /\ reloads < MaxReloads /\ Cardinality(DOMAIN content) <= MaxMoves
  /\ reloads' = reloads + 1
  /\ RestoreTips(r)
  /\ pending' = [pending EXCEPT ![r] = << >>]
  /\ committed' = [committed EXCEPT ![r] = {}]
  /\ running' = [h \in Handlers |-> IF running[h] # Idle /\ running[h].at = r THEN Idle
                                    ELSE running[h]]
  /\ forked' = IF \E id \in dag[r] : Domain(id) # r THEN forked \cup {r} ELSE forked
  /\ UNCHANGED <<dagVars, raced>>

-----------------------------------------------------------------------------

\* Every domain has just been created: init() has written its genesis.
Init ==
  /\ \E id \in [Replicas -> Ids] :
       /\ IsInjective(id)
       /\ content = [i \in Range(id) |-> [parents |-> {}, payload |->
                        Genesis(CHOOSE r \in Replicas : id[r] = i)]]
       /\ dag = [r \in Replicas |-> {id[r]}]
       /\ genesisId = id
       /\ lastEventId = id
  /\ lastCadenceId = [r \in Replicas |-> NoEvent]
  /\ epoch = [r \in Replicas |-> 0]
  /\ pending = [r \in Replicas |-> << >>]
  /\ committed = [r \in Replicas |-> {}]
  /\ running = [h \in Handlers |-> Idle]
  /\ reloads = 0
  /\ forked = {}
  /\ raced = {}

HandlerStarts(h, r) ==
  \/ CadenceStarts(h, r)
  \/ ClaimStarts(h, r)
  \/ \E to \in Recipients \ {r} :
       \/ \E a \in Amounts : SendStarts(h, r, to, a)
       \/ MayMove(h) /\ \E c \in DOMAIN MaterializeConservation(r) : TransferStarts(h, r, c, to)

HandlerGoesOn(h) ==
  \/ ReceptionStarts(h)
  \/ \E id \in Ids : \/ CadenceAdded(h, id) \/ ReceptionAdded(h, id)
                     \/ AccrualAdded(h, id) \/ IssueAdded(h, id) \/ TransferAdded(h, id)

Next ==
  \/ \E h \in Handlers : HandlerGoesOn(h) \/ \E r \in Active : HandlerStarts(h, r)
  \/ \E r \in Active : Commit(r) \/ Reload(r)
  \/ \E r \in Replicas : \E s \in Replicas \ {r} : Sync(r, s)

Spec == Init /\ [][Next]_vars

-----------------------------------------------------------------------------

Owners == Replicas \cup Recipients

\* What handlers write: a claim's id is its issuer's, with those it was passed to.
Payload ==
  [type : {"genesis"}, domain : Replicas]
    \cup [type : {"cadence"}, domain : Replicas, epoch : Nat]
    \cup [type : {"reception"}, domain : Replicas, epoch : Nat, refs : SUBSET Ids]
    \cup [type : {"accrual"}, domain : Replicas, q0 : Nat]
    \cup [type : {"claim-issue"}, domain : Replicas, claim : Replicas \X Nat, amount : Amounts]
    \cup [type : {"transfer"}, domain : Replicas, claim : Seq(Owners \cup Nat), to : Recipients]

\* What a handler of a domain can be waiting with, and what it needs when it resumes.
Waiting(kinds, more) == [kind : kinds, at : Replicas, event : Event(Payload), more : more]

Call ==
  {Idle} \cup Waiting({"cadence", "transfer"}, {{}}) \cup Waiting({"importing", "reception"}, SUBSET Ids)
    \cup Waiting({"accrual"}, Seq(Nat)) \cup Waiting({"issue"}, Recipients)

TypeOK ==
  /\ DagTypeOK(Payload)
  /\ genesisId \in [Replicas -> Ids] /\ lastEventId \in [Replicas -> Ids]
  /\ lastCadenceId \in [Replicas -> Ids \cup {NoEvent}]
  /\ epoch \in [Replicas -> Nat] /\ pending \in [Replicas -> Seq(Nat)]
  /\ committed \in [Replicas -> SUBSET Ids]
  /\ running \in [Handlers -> Call]
  /\ reloads \in Nat /\ forked \cup raced \subseteq Replicas
  /\ \A r \in Replicas : {genesisId[r], lastEventId[r]} \subseteq dag[r]

Own(r) == {id \in dag[r] : Domain(id) = r}

IsChain(S) == LET above == Ancestors
              IN  \A d, e \in S : d = e \/ d \in above[e] \/ e \in above[d]

(* "This domain's own history is a single chain in practice, since only    *)
(* this domain ever adds to it directly."                                  *)
OwnHistoryIsChain == \A r \in Replicas : IsChain(Own(r))

(* What the code does keep: a domain's history forks only if two of its    *)
(* handlers were in progress at once, or a reload took its tips from a DAG *)
(* that held other domains' events; and lastEventId ends it.               *)
ForkNeedsOverlap ==
  LET above == Ancestors
  IN  \A r \in Replicas \ forked :
        /\ IsChain(Own(r))
        /\ ~Busy(r) => Own(r) \subseteq above[lastEventId[r]] \cup {lastEventId[r]}

(* Whatever the hashes are and whatever is merged in between, the reducer  *)
(* accepts in every replica's view all that a domain wrote; and, though    *)
(* other handlers overlap, all cadence of a domain unless two              *)
(* advanceCadence() of it did, with the tip moved in between.              *)
RejectionNeedsOverlap ==
  \A s \in Replicas : \A id \in MaterializeG(s).rejected :
    Domain(id) \in IF Type(id) = "cadence" THEN raced ELSE forked

(* The tips that advanceCadence() keeps, and those a reload guesses, are   *)
(* those the reducer gets from the DAG, with the same exception: otherwise *)
(* every later cadence event of the domain would be rejected.              *)
CadenceTipsAgree ==
  \A r \in Replicas \ raced :
    LET g == MaterializeG(r)
    IN  g.epoch[r] = epoch[r] /\ g.last[r] = lastCadenceId[r]

Claimed(r) ==
  LET claims == MaterializeConservation(r)
  IN  SumFunction([c \in DOMAIN claims |-> claims[c].amount])

(* Two reducers that never meet fold the same events: at any replica       *)
(* balances and claims are worth what was ever issued, and more only by    *)
(* the claims G rejected.                                                  *)
ViewsBalance ==
  \A r \in Replicas :
    LET g == MaterializeG(r)
        bad == {id \in g.rejected : Type(id) = "claim-issue"}
    IN  SumFunction(g.balance) + Claimed(r) =
          SumFunction(g.used) + SumFunction([id \in bad |-> content[id].payload.amount])

(* "Conservation must agree, not silently diverge", says the bridge of an  *)
(* issue G rejected: no claim exists that no balance paid for.             *)
ClaimsAreBacked ==
  \A r \in Replicas :
    LET g == MaterializeG(r)
    IN  SumFunction(g.balance) + Claimed(r) = SumFunction(g.used)
=============================================================================
