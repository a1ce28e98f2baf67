------------------------- MODULE DomainLedgerProofs -------------------------
(***************************************************************************)
(* For any domains, handlers and events: a domain's history forks only if  *)
(* its handlers overlap, the view folded from it agrees with the tips its  *)
(* handlers keep, and an honest domain is never caught going backwards in  *)
(* what it reports to have received.                                       *)
(***************************************************************************)
EXTENDS ReceptionCadence, EventDagProofs

-----------------------------------------------------------------------------
(* Payloads                                                                *)

LEMMA PayloadFields ==
  \A p \in Payload :
    /\ p.domain \in Replicas
    /\ p.type \in {"genesis", "cadence", "reception", "accrual", "claim-issue", "transfer"}
    /\ p.type = "cadence" => p.epoch \in Nat
    /\ p.type = "reception" => p.refs \in SUBSET Ids
    /\ p.type = "accrual" => p.q0 \in Nat
    /\ p.type = "claim-issue" => p.claim \in Replicas \X Nat /\ p.amount \in Amounts
    /\ p.type = "transfer" => p.claim \in Seq(Owners \cup Nat) /\ p.to \in Recipients
<1> TAKE p \in Payload
<1>1. CASE p \in [type : {"genesis"}, domain : Replicas]
  BY <1>1
<1>2. CASE p \in [type : {"cadence"}, domain : Replicas, epoch : Nat]
  BY <1>2
<1>3. CASE p \in [type : {"reception"}, domain : Replicas, epoch : Nat, refs : SUBSET Ids]
  BY <1>3
<1>4. CASE p \in [type : {"accrual"}, domain : Replicas, q0 : Nat]
  BY <1>4
<1>5. CASE p \in [type : {"claim-issue"}, domain : Replicas, claim : Replicas \X Nat, amount : Amounts]
  BY <1>5
<1>6. CASE p \in [type : {"transfer"}, domain : Replicas, claim : Seq(Owners \cup Nat), to : Recipients]
  BY <1>6
<1> QED BY <1>1, <1>2, <1>3, <1>4, <1>5, <1>6 DEF Payload

LEMMA PayloadTypes ==
  /\ \A r \in Replicas : Genesis(r) \in Payload
  /\ \A r \in Replicas, n \in Nat : Cadence(r, n) \in Payload
  /\ \A r \in Replicas, n \in Nat, refs \in SUBSET Ids : Reception(r, n, refs) \in Payload
  /\ \A r \in Replicas, n \in Nat : Accrual(r, n) \in Payload
  /\ \A r \in Replicas, n \in Nat, a \in Amounts : ClaimIssue(r, n, a) \in Payload
  /\ \A r \in Replicas, c \in Seq(Owners \cup Nat), to \in Recipients : Transfer(r, c, to) \in Payload
<1>1. \A r \in Replicas : Genesis(r) \in [type : {"genesis"}, domain : Replicas]
  BY DEF Genesis
<1>2. \A r \in Replicas, n \in Nat : Cadence(r, n) \in [type : {"cadence"}, domain : Replicas, epoch : Nat]
  BY DEF Cadence
<1>3. \A r \in Replicas, n \in Nat, refs \in SUBSET Ids :
        Reception(r, n, refs) \in [type : {"reception"}, domain : Replicas, epoch : Nat, refs : SUBSET Ids]
  BY DEF Reception
<1>4. \A r \in Replicas, n \in Nat : Accrual(r, n) \in [type : {"accrual"}, domain : Replicas, q0 : Nat]
  BY DEF Accrual
<1>5. \A r \in Replicas, n \in Nat, a \in Amounts :
        ClaimIssue(r, n, a)
          \in [type : {"claim-issue"}, domain : Replicas, claim : Replicas \X Nat, amount : Amounts]
  BY DEF ClaimIssue
<1>6. \A r \in Replicas, c \in Seq(Owners \cup Nat), to \in Recipients :
        Transfer(r, c, to)
          \in [type : {"transfer"}, domain : Replicas, claim : Seq(Owners \cup Nat), to : Recipients]
  BY DEF Transfer
<1> QED BY <1>1, <1>2, <1>3, <1>4, <1>5, <1>6 DEF Payload

\* The payload of a known event.
LEMMA ContentFields ==
  DagTypeOK(Payload) => \A id \in DOMAIN content :
    /\ id \in Ids
    /\ content[id] \in Event(Payload)
    /\ Domain(id) \in Replicas
    /\ Type(id) = "cadence" => content[id].payload.epoch \in Nat
    /\ Type(id) = "accrual" => content[id].payload.q0 \in Nat
    /\ Type(id) = "claim-issue" => /\ content[id].payload.claim \in Replicas \X Nat
                                   /\ content[id].payload.amount \in Nat
    /\ Type(id) = "transfer" => content[id].payload.claim \in Seq(Owners \cup Nat)
<1> HAVE DagTypeOK(Payload)
<1> TAKE id \in DOMAIN content
<1>1. id \in Ids /\ content[id] \in Event(Payload)
  BY DEF DagTypeOK
<1>2. content[id].payload \in Payload
  BY <1>1 DEF Event
<1> QED BY <1>1, <1>2, PayloadFields, LedgerAssumption DEF Domain, Type

-----------------------------------------------------------------------------
(* G                                                                       *)

GState ==
  [epoch : [Replicas -> Nat], last : [Replicas -> Ids \cup {NoEvent}],
   balance : [Replicas -> Nat], used : [Replicas -> 0 .. Budget], rejected : SUBSET Ids]

LEMMA RejectType == \A g \in GState, id \in Ids : Reject(g, id) \in GState
  BY DEF GState, Reject

LEMMA CadenceType ==
  DagTypeOK(Payload) => \A id \in DOMAIN content, g \in GState :
    Type(id) = "cadence" => ApplyCadence(g, id) \in GState
<1> HAVE DagTypeOK(Payload)
<1> TAKE id \in DOMAIN content, g \in GState
<1> HAVE Type(id) = "cadence"
<1>1. id \in Ids /\ Domain(id) \in Replicas /\ content[id].payload.epoch \in Nat
  BY ContentFields
<1>2. Reject(g, id) \in GState
  BY <1>1, RejectType
<1> DEFINE r == Domain(id)
           n == content[id].payload.epoch
<1>3. [g EXCEPT !.epoch[r] = n, !.last[r] = id] \in GState
  <2>1. r \in Replicas /\ n \in Nat
    BY <1>1
  <2> HIDE DEF r, n
  <2> QED BY <1>1, <2>1 DEF GState
<1> QED BY <1>2, <1>3 DEF ApplyCadence, Domain

LEMMA AccrualType ==
  DagTypeOK(Payload) => \A id \in DOMAIN content, g \in GState :
    Type(id) = "accrual" => ApplyAccrual(g, id) \in GState
<1> HAVE DagTypeOK(Payload)
<1> TAKE id \in DOMAIN content, g \in GState
<1> HAVE Type(id) = "accrual"
<1>1. id \in Ids /\ Domain(id) \in Replicas /\ content[id].payload.q0 \in Nat
  BY ContentFields
<1> DEFINE e == content[id].payload
           r == e.domain
           left == Budget - g.used[r]
           issued == IF Earned(g, e) < left THEN Earned(g, e) ELSE left
<1>2. r \in Replicas /\ g.used[r] \in 0 .. Budget /\ g.epoch[r] \in Nat /\ g.balance[r] \in Nat
  BY <1>1 DEF GState, Domain
<1>3. Earned(g, e) \in Nat
  BY <1>1, <1>2, LedgerAssumption DEF Earned, Reward
<1>4. issued \in Nat /\ g.used[r] + issued \in 0 .. Budget /\ g.balance[r] + issued \in Nat
  BY <1>2, <1>3, LedgerAssumption
<1>5. ApplyAccrual(g, id)
        = [g EXCEPT !.balance[r] = g.balance[r] + issued, !.used[r] = g.used[r] + issued]
  BY DEF ApplyAccrual
<1> HIDE DEF issued, r
<1>6. [g EXCEPT !.balance[r] = g.balance[r] + issued, !.used[r] = g.used[r] + issued] \in GState
  BY <1>2, <1>4 DEF GState
<1> QED BY <1>5, <1>6

LEMMA IssueType ==
  DagTypeOK(Payload) => \A id \in DOMAIN content, g \in GState :
    Type(id) = "claim-issue" => ApplyClaimIssue(g, id) \in GState
<1> HAVE DagTypeOK(Payload)
<1> TAKE id \in DOMAIN content, g \in GState
<1> HAVE Type(id) = "claim-issue"
<1> DEFINE r == content[id].payload.domain
           a == content[id].payload.amount
<1>1. id \in Ids /\ r \in Replicas /\ a \in Nat
  BY ContentFields DEF Domain
<1>2. Reject(g, id) \in GState
  BY <1>1, RejectType
<1>3. g.balance[r] \in Nat
  BY <1>1 DEF GState
<1>4. ApplyClaimIssue(g, id) = IF a > g.balance[r] THEN Reject(g, id)
                               ELSE [g EXCEPT !.balance[r] = g.balance[r] - a]
  BY DEF ApplyClaimIssue
<1> HIDE DEF r, a
<1>5. ASSUME ~(a > g.balance[r])
      PROVE  [g EXCEPT !.balance[r] = g.balance[r] - a] \in GState
  <2>1. g.balance[r] - a \in Nat
    BY <1>1, <1>3, <1>5
  <2> QED BY <1>1, <2>1 DEF GState
<1> QED BY <1>2, <1>4, <1>5

LEMMA ApplyGType ==
  DagTypeOK(Payload) => \A id \in DOMAIN content, g \in GState : ApplyG(g, id) \in GState
  BY CadenceType, AccrualType, IssueType DEF ApplyG

LEMMA InitialGType == InitialG \in GState
  BY LedgerAssumption DEF InitialG, GState

\* The recursion that defines the view has a solution, for any sequence of events.
LEMMA GAlongIs ==
  ASSUME DagTypeOK(Payload), NEW order, NEW n \in Nat, Len(order) = n,
         \A i \in 1 .. n : order[i] \in DOMAIN content
  PROVE  /\ GAlong(order) \in [0 .. n -> GState]
         /\ GAlong(order)[0] = InitialG
         /\ \A i \in 1 .. n : GAlong(order)[i] = ApplyG(GAlong(order)[i - 1], order[i])
<1> DEFINE st == [i \in 1 .. n |-> [g \in GState |-> ApplyG(g, order[i])]]
           Right(g) == g = [i \in 0 .. n |-> IF i = 0 THEN InitialG ELSE ApplyG(g[i - 1], order[i])]
           g == CHOOSE f : Right(f)
<1>1. Steps(st, n, GState)
  BY ApplyGType DEF Steps
<1>2. PICK f \in [0 .. n -> GState] : f[0] = InitialG /\ \A i \in 1 .. n : f[i] = st[i][f[i - 1]]
  <2> HIDE DEF st
  <2> QED BY <1>1, InitialGType, FoldExists
<1>3. \A i \in 1 .. n : f[i] = ApplyG(f[i - 1], order[i])
  <2> TAKE i \in 1 .. n
  <2>1. f[i - 1] \in GState
    OBVIOUS
  <2>2. f[i] = st[i][f[i - 1]]
    BY <1>2
  <2> QED BY <2>1, <2>2
<1>4. Right(f)
  <2>1. \A i \in 0 .. n : f[i] = IF i = 0 THEN InitialG ELSE ApplyG(f[i - 1], order[i])
    BY <1>2, <1>3
  <2> QED BY <2>1
<1>5. Right(g)
  <2> HIDE DEF Right
  <2> QED BY <1>4
<1>6. GAlong(order) = g
  BY DEF GAlong
<1> HIDE DEF g
<1>7. g[0] = InitialG /\ \A i \in 1 .. n : g[i] = ApplyG(g[i - 1], order[i])
  BY <1>5
<1>8. \A i \in 0 .. n : g[i] \in GState
  <2>1. g[0] \in GState
    BY <1>7, InitialGType
  <2>2. \A i \in 1 .. n : g[i - 1] \in GState => g[i] \in GState
    BY <1>7, ApplyGType
  <2> QED BY <2>1, <2>2, FoldKeeps
<1> QED BY <1>5, <1>6, <1>7, <1>8

-----------------------------------------------------------------------------
(* Handlers                                                                *)

\* The type of the event a handler of each kind is adding, or has just added.
EventOf ==
  [k \in {"cadence", "importing", "reception", "accrual", "issue", "transfer"} |->
     IF k = "importing" THEN "cadence" ELSE IF k = "issue" THEN "claim-issue" ELSE k]

\* What a handler is adding is its own domain's, and its parents are known there.
Matches(c) ==
  c # Idle => /\ c.event.payload.domain = c.at
              /\ c.event.payload.type = EventOf[c.kind]
              /\ c.event.parents \subseteq dag[c.at]

CallsMatch == \A h \in Handlers : Matches(running[h])

\* A domain knows what it wrote.
OwnKnown == \A id \in DOMAIN content : id \in dag[Domain(id)]

BaseInv == TypeOK /\ DagInv /\ CallsMatch /\ OwnKnown

LEMMA CallFields ==
  \A c \in Call : c # Idle =>
    /\ c.kind \in {"cadence", "importing", "reception", "accrual", "issue", "transfer"}
    /\ c.at \in Replicas /\ c.event \in Event(Payload)
    /\ c.kind \in {"importing", "reception"} => c.more \in SUBSET Ids
    /\ c.kind = "accrual" => c.more \in Seq(Nat)
    /\ c.kind = "issue" => c.more \in Recipients
<1> TAKE c \in Call
<1> HAVE c # Idle
<1>1. CASE c \in Waiting({"cadence", "transfer"}, {{}})
  BY <1>1 DEF Waiting
<1>2. CASE c \in Waiting({"importing", "reception"}, SUBSET Ids)
  BY <1>2 DEF Waiting
<1>3. CASE c \in Waiting({"accrual"}, Seq(Nat))
  BY <1>3 DEF Waiting
<1>4. CASE c \in Waiting({"issue"}, Recipients)
  BY <1>4 DEF Waiting
<1> QED BY <1>1, <1>2, <1>3, <1>4 DEF Call

LEMMA CallTypes ==
  \A r \in Replicas, e \in Event(Payload) :
    /\ [kind |-> "cadence", at |-> r, event |-> e, more |-> {}] \in Call \ {Idle}
    /\ [kind |-> "transfer", at |-> r, event |-> e, more |-> {}] \in Call \ {Idle}
    /\ \A ids \in SUBSET Ids :
         /\ [kind |-> "importing", at |-> r, event |-> e, more |-> ids] \in Call \ {Idle}
         /\ [kind |-> "reception", at |-> r, event |-> e, more |-> ids] \in Call \ {Idle}
    /\ \A s \in Seq(Nat) : [kind |-> "accrual", at |-> r, event |-> e, more |-> s] \in Call \ {Idle}
    /\ \A to \in Recipients : [kind |-> "issue", at |-> r, event |-> e, more |-> to] \in Call \ {Idle}
<1> TAKE r \in Replicas, e \in Event(Payload)
<1>1. /\ [kind |-> "cadence", at |-> r, event |-> e, more |-> {}] \in Waiting({"cadence", "transfer"}, {{}})
      /\ [kind |-> "transfer", at |-> r, event |-> e, more |-> {}] \in Waiting({"cadence", "transfer"}, {{}})
  BY DEF Waiting
<1>2. \A ids \in SUBSET Ids :
        /\ [kind |-> "importing", at |-> r, event |-> e, more |-> ids]
             \in Waiting({"importing", "reception"}, SUBSET Ids)
        /\ [kind |-> "reception", at |-> r, event |-> e, more |-> ids]
             \in Waiting({"importing", "reception"}, SUBSET Ids)
  BY DEF Waiting
<1>3. \A s \in Seq(Nat) : [kind |-> "accrual", at |-> r, event |-> e, more |-> s]
                            \in Waiting({"accrual"}, Seq(Nat))
  BY DEF Waiting
<1>4. \A to \in Recipients : [kind |-> "issue", at |-> r, event |-> e, more |-> to]
                               \in Waiting({"issue"}, Recipients)
  BY DEF Waiting
<1>5. \A kinds, more : \A c \in Waiting(kinds, more) : "idle" \notin kinds => c # Idle
  BY DEF Waiting, Idle
<1> QED BY <1>1, <1>2, <1>3, <1>4, <1>5 DEF Call

LEMMA EventType ==
  \A ps \in SUBSET Ids, p \in Payload : [parents |-> ps, payload |-> p] \in Event(Payload)
  BY DEF Event

\* Some number no claim has yet.
LEMMA FreshNumber == ASSUME NEW taken, IsFiniteSet(taken)
                     PROVE  Least((1 .. Cardinality(taken) + 1) \ taken) \in Nat \ taken
<1> DEFINE n == Cardinality(taken)
           S == (1 .. (n + 1)) \ taken
<1>1. n \in Nat
  BY FS_CardinalityType
<1>2. S # {}
  <2> SUFFICES ASSUME 1 .. (n + 1) \subseteq taken PROVE FALSE
    OBVIOUS
  <2>1. Cardinality(1 .. (n + 1)) <= n
    BY FS_Subset
  <2>2. Cardinality(1 .. (n + 1)) = n + 1
    BY <1>1, FS_Interval
  <2> QED BY <1>1, <2>1, <2>2
<1>3. S \in SUBSET Nat
  BY <1>1
<1> QED BY <1>2, <1>3, LeastOf

\* A claim's number is not that of another, in the DAG or being issued.
LEMMA FreshClaimType ==
  ASSUME TypeOK, NEW r
  PROVE  /\ FreshClaim(r) \in Nat
         /\ \A id \in DOMAIN content :
              Type(id) = "claim-issue" => content[id].payload.claim[2] # FreshClaim(r)
         /\ \A h \in Handlers :
              running[h].kind = "issue" => running[h].event.payload.claim[2] # FreshClaim(r)
<1> DEFINE D == {i \in DOMAIN content : Type(i) = "claim-issue"}
           H == {o \in Handlers : running[o].kind = "issue"}
           A == {content[id].payload.claim[2] : id \in D}
           B == {running[h].event.payload.claim[2] : h \in H}
<1>1. IsFiniteSet(D) /\ IsFiniteSet(H)
  <2>1. IsFiniteSet(1 .. MaxId)
    BY DagAssumption, FS_Interval
  <2>2. D \subseteq 1 .. MaxId
    BY DEF TypeOK, DagTypeOK, Ids
  <2> QED BY <2>1, <2>2, FS_Subset, LedgerAssumption
<1>2. IsFiniteSet(A)
  <2> DEFINE f == [id \in D |-> content[id].payload.claim[2]]
  <2>1. f \in Surjection(D, A)
    BY DEF Surjection
  <2> HIDE DEF D, A, f
  <2> QED BY <1>1, <2>1, FS_Surjection
<1>3. IsFiniteSet(B)
  <2> DEFINE f == [h \in H |-> running[h].event.payload.claim[2]]
  <2>1. f \in Surjection(H, B)
    BY DEF Surjection
  <2> HIDE DEF H, B, f
  <2> QED BY <1>1, <2>1, FS_Surjection
<1>4. IsFiniteSet(A \cup B)
  BY <1>2, <1>3, FS_Union
<1>5. FreshClaim(r) \in Nat \ (A \cup B)
  <2>1. FreshClaim(r) = Least((1 .. Cardinality(A \cup B) + 1) \ (A \cup B))
    BY DEF FreshClaim
  <2> HIDE DEF A, B
  <2> QED BY <1>4, <2>1, FreshNumber
<1> QED BY <1>5

-----------------------------------------------------------------------------
(* Steps                                                                   *)

Started == {"cadence", "accrual", "issue", "transfer"}

\* A handler starts as the call c of r.
Begins(h, r, c) ==
  /\ running[h] = Idle /\ running' = [running EXCEPT ![h] = c]
  /\ c \in Call \ {Idle} /\ c.at = r /\ Matches(c) /\ c.kind \in Started
  /\ lastEventId[r] \in c.event.parents
  /\ c.kind = "cadence" =>
       c.event = [parents |-> {IF lastCadenceId[r] = NoEvent THEN genesisId[r] ELSE lastCadenceId[r],
                               lastEventId[r]},
                  payload |-> Cadence(r, epoch[r] + 1)]
  /\ c.kind = "issue" => /\ c.event.payload.amount <= MaterializeG(r).balance[r]
                         /\ c.event.payload.claim = <<r, FreshClaim(r)>>
  /\ Starts(h, r)
  /\ pending' \in [Replicas -> Seq(Nat)]
  /\ UNCHANGED <<tips, committed>>

\* A handler whose event is added goes on as c.
GoesOnAs(h, id, c) ==
  LET old == running[h]
      r == old.at
  IN  /\ old \in Call \ {Idle} /\ old.kind # "importing"
      /\ Insert(r, old.event, id)
      /\ running' = [running EXCEPT ![h] = c]
      /\ c \in Call
      /\ c = Idle => old.kind # "issue"
      /\ c # Idle => /\ c.at = r /\ c.event.payload.domain = r
                     /\ c.event.payload.type = EventOf[c.kind]
                     /\ old.kind = "cadence" => c.kind = "importing" /\ c.event = old.event
                     /\ old.kind # "cadence" => c.kind \in Started \ {"cadence", "issue"}
                                                /\ c.event.parents = {id}
      /\ old.kind = "cadence" => c # Idle
      /\ lastEventId' = IF old.kind = "issue" THEN lastEventId ELSE [lastEventId EXCEPT ![r] = id]
      /\ IF old.kind = "cadence"
         THEN /\ lastCadenceId' = [lastCadenceId EXCEPT ![r] = id]
              /\ epoch' = [epoch EXCEPT ![r] = old.event.payload.epoch]
         ELSE UNCHANGED <<lastCadenceId, epoch>>
      /\ committed' \in [Replicas -> SUBSET Ids]
      /\ committed' = IF old.kind = "reception" THEN [committed EXCEPT ![r] = @ \cup old.more]
                      ELSE committed
      /\ c.kind = "importing" => c.more = NewForeign(r, dag[r])
      /\ UNCHANGED <<genesisId, pending, reloads, forked, raced>>

LEMMA BaseFields ==
  ASSUME BaseInv
  PROVE  /\ DagTypeOK(Payload) /\ DagInv
         /\ running \in [Handlers -> Call]
         /\ \A r \in Replicas : /\ genesisId[r] \in dag[r] /\ lastEventId[r] \in dag[r]
                                /\ lastCadenceId[r] \in Ids \cup {NoEvent}
                                /\ epoch[r] \in Nat /\ pending[r] \in Seq(Nat)
                                /\ dag[r] \in SUBSET Ids
  BY DEF BaseInv, TypeOK, DagTypeOK

\* A call that may add its event to r's tip.
LEMMA AddEventBegins ==
  ASSUME BaseInv, NEW h, NEW r \in Replicas, NEW k \in Started, NEW ps, NEW p \in Payload, NEW more,
         AddEvent(h, r, k, ps, p, more), running[h] = Idle, lastEventId[r] \in ps,
         p.domain = r, p.type = EventOf[k],
         [kind |-> k, at |-> r, event |-> [parents |-> ps, payload |-> p], more |-> more] \in Call \ {Idle},
         k = "cadence" =>
           /\ ps = {IF lastCadenceId[r] = NoEvent THEN genesisId[r] ELSE lastCadenceId[r], lastEventId[r]}
           /\ p = Cadence(r, epoch[r] + 1),
         k = "issue" => p.amount <= MaterializeG(r).balance[r] /\ p.claim = <<r, FreshClaim(r)>>,
         Starts(h, r), pending' \in [Replicas -> Seq(Nat)], UNCHANGED <<tips, committed>>
  PROVE  \E c : Begins(h, r, c)
<1> DEFINE c == [kind |-> k, at |-> r, event |-> [parents |-> ps, payload |-> p], more |-> more]
<1>1. running' = [running EXCEPT ![h] = c] /\ ps \subseteq dag[r]
  BY DEF AddEvent, MayAdd
<1>2. c.at = r /\ c.kind = k /\ c.event = [parents |-> ps, payload |-> p]
  OBVIOUS
<1>3. c.event.parents = ps /\ c.event.payload = p
  OBVIOUS
<1>4. c \in Call \ {Idle}
  OBVIOUS
<1> HIDE DEF c
<1>5. Matches(c)
  BY <1>1, <1>2, <1>3 DEF Matches
<1> QED BY <1>1, <1>2, <1>3, <1>4, <1>5 DEF Begins

LEMMA KnownParents ==
  ASSUME BaseInv, NEW r \in Replicas, NEW ps, MayAdd(r, ps) PROVE ps \in SUBSET Ids
  BY BaseFields DEF MayAdd

LEMMA CadenceBegins ==
  ASSUME BaseInv, NEW h \in Handlers, NEW r \in Replicas, CadenceStarts(h, r)
  PROVE  \E c : Begins(h, r, c)
<1> DEFINE ps == {IF lastCadenceId[r] = NoEvent THEN genesisId[r] ELSE lastCadenceId[r], lastEventId[r]}
           p == Cadence(r, epoch[r] + 1)
<1>1. AddEvent(h, r, "cadence", ps, p, {}) /\ running[h] = Idle /\ Starts(h, r)
      /\ UNCHANGED <<tips, committed>> /\ pending' = pending
  BY DEF CadenceStarts, Free
<1>2. p \in Payload /\ p.domain = r /\ p.type = EventOf["cadence"]
  BY BaseFields, PayloadTypes DEF Cadence, EventOf
<1>3. lastEventId[r] \in ps /\ ps \in SUBSET Ids
  BY <1>1, KnownParents DEF AddEvent
<1> HIDE DEF ps, p
<1>4. [kind |-> "cadence", at |-> r, event |-> [parents |-> ps, payload |-> p], more |-> {}]
        \in Call \ {Idle}
  BY <1>2, <1>3, EventType, CallTypes
<1>5. "cadence" \in Started /\ pending' \in [Replicas -> Seq(Nat)]
  BY <1>1 DEF Started, BaseInv, TypeOK
<1> QED BY <1>1, <1>2, <1>3, <1>4, <1>5, AddEventBegins DEF ps, p

LEMMA ClaimBegins ==
  ASSUME BaseInv, NEW h \in Handlers, NEW r \in Replicas, ClaimStarts(h, r)
  PROVE  \E c : Begins(h, r, c)
<1> DEFINE ps == {lastEventId[r]}
           p == Accrual(r, Head(pending[r]))
           more == Tail(pending[r])
<1>1. AddEvent(h, r, "accrual", ps, p, more) /\ running[h] = Idle /\ Starts(h, r)
      /\ UNCHANGED <<tips, committed>> /\ pending' = [pending EXCEPT ![r] = << >>]
      /\ pending[r] # << >>
  BY DEF ClaimStarts, MayMove, Free
<1>2. Head(pending[r]) \in Nat /\ more \in Seq(Nat)
  BY <1>1, BaseFields
<1>3. p \in Payload /\ p.domain = r /\ p.type = EventOf["accrual"]
  BY <1>2, PayloadTypes DEF Accrual, EventOf
<1>4. lastEventId[r] \in ps /\ ps \in SUBSET Ids
  BY <1>1, KnownParents DEF AddEvent
<1> HIDE DEF ps, p, more
<1>5. [kind |-> "accrual", at |-> r, event |-> [parents |-> ps, payload |-> p], more |-> more]
        \in Call \ {Idle}
  BY <1>2, <1>3, <1>4, EventType, CallTypes
<1>6. "accrual" \in Started /\ pending' \in [Replicas -> Seq(Nat)]
  BY <1>1 DEF Started, BaseInv, TypeOK
<1> QED BY <1>1, <1>3, <1>4, <1>5, <1>6, AddEventBegins

LEMMA SendBegins ==
  ASSUME BaseInv, NEW h \in Handlers, NEW r \in Replicas, NEW to \in Recipients, NEW a \in Amounts,
         SendStarts(h, r, to, a)
  PROVE  \E c : Begins(h, r, c)
<1> DEFINE ps == {lastEventId[r]}
           p == ClaimIssue(r, FreshClaim(r), a)
<1>1. AddEvent(h, r, "issue", ps, p, to) /\ running[h] = Idle /\ Starts(h, r)
      /\ UNCHANGED <<tips, committed>> /\ pending' = pending
      /\ a <= MaterializeG(r).balance[r]
  BY DEF SendStarts, MayMove, Free
<1>2. FreshClaim(r) \in Nat
  BY FreshClaimType DEF BaseInv
<1>3. p \in Payload /\ p.domain = r /\ p.type = EventOf["issue"] /\ p.amount = a
      /\ p.claim = <<r, FreshClaim(r)>>
  BY <1>2, PayloadTypes DEF ClaimIssue, EventOf
<1>4. lastEventId[r] \in ps /\ ps \in SUBSET Ids
  BY <1>1, KnownParents DEF AddEvent
<1> HIDE DEF ps, p
<1>5. [kind |-> "issue", at |-> r, event |-> [parents |-> ps, payload |-> p], more |-> to]
        \in Call \ {Idle}
  BY <1>3, <1>4, EventType, CallTypes
<1>6. "issue" \in Started /\ pending' \in [Replicas -> Seq(Nat)]
  BY <1>1 DEF Started, BaseInv, TypeOK
<1> QED BY <1>1, <1>3, <1>4, <1>5, <1>6, AddEventBegins

LEMMA TransferBegins ==
  ASSUME BaseInv, NEW h \in Handlers, NEW r \in Replicas, NEW to \in Recipients,
         NEW claim \in Seq(Owners \cup Nat), TransferStarts(h, r, claim, to)
  PROVE  \E c : Begins(h, r, c)
<1> DEFINE ps == {lastEventId[r]}
           p == Transfer(r, claim, to)
<1>1. AddEvent(h, r, "transfer", ps, p, {}) /\ running[h] = Idle /\ Starts(h, r)
      /\ UNCHANGED <<tips, committed>> /\ pending' = pending
  BY DEF TransferStarts, MayMove, Free
<1>2. p \in Payload /\ p.domain = r /\ p.type = EventOf["transfer"]
  BY PayloadTypes DEF Transfer, EventOf
<1>3. lastEventId[r] \in ps /\ ps \in SUBSET Ids
  BY <1>1, KnownParents DEF AddEvent
<1> HIDE DEF ps, p
<1>4. [kind |-> "transfer", at |-> r, event |-> [parents |-> ps, payload |-> p], more |-> {}]
        \in Call \ {Idle}
  BY <1>2, <1>3, EventType, CallTypes
<1>5. "transfer" \in Started /\ pending' \in [Replicas -> Seq(Nat)]
  BY <1>1 DEF Started, BaseInv, TypeOK
<1> QED BY <1>1, <1>2, <1>3, <1>4, <1>5, AddEventBegins

-----------------------------------------------------------------------------
(* Conservation                                                            *)

ClaimIds == Seq(Owners \cup Nat)
Claim == [owner : Owners, amount : Nat]
CState == UNION {[D -> Claim] : D \in SUBSET ClaimIds}

LEMMA ClaimIdIsSeq == Replicas \X Nat \subseteq ClaimIds
<1> SUFFICES ASSUME NEW c \in Replicas \X Nat PROVE c \in ClaimIds
  OBVIOUS
<1>1. c = <<c[1], c[2]>> /\ c[1] \in Owners \cup Nat /\ c[2] \in Owners \cup Nat
  BY DEF Owners
<1>2. <<c[1], c[2]>> \in Seq(Owners \cup Nat)
  BY <1>1
<1> QED BY <1>1, <1>2 DEF ClaimIds

LEMMA CStateIs ==
  \A f : f \in CState <=> /\ DOMAIN f \subseteq ClaimIds /\ f = [c \in DOMAIN f |-> f[c]]
                          /\ \A c \in DOMAIN f : f[c] \in Claim
  BY DEF CState

LEMMA WithType ==
  \A f \in CState, c \in ClaimIds, claim \in Claim : With(f, c, claim) \in CState
<1> TAKE f \in CState, c \in ClaimIds, claim \in Claim
<1>1. With(f, c, claim) \in [DOMAIN f \cup {c} -> Claim]
  BY CStateIs DEF With
<1>2. DOMAIN f \cup {c} \in SUBSET ClaimIds
  BY CStateIs
<1> QED BY <1>1, <1>2 DEF CState

LEMMA WithoutType == \A f \in CState : \A c : Without(f, c) \in CState
<1> TAKE f \in CState
<1> TAKE c
<1>1. Without(f, c) \in [DOMAIN f \ {c} -> Claim]
  BY CStateIs DEF Without
<1>2. DOMAIN f \ {c} \in SUBSET ClaimIds
  BY CStateIs
<1> QED BY <1>1, <1>2 DEF CState

LEMMA ApplyConservationType ==
  DagTypeOK(Payload) => \A id \in DOMAIN content, f \in CState : ApplyConservation(f, id) \in CState
<1> HAVE DagTypeOK(Payload)
<1> TAKE id \in DOMAIN content, f \in CState
<1> DEFINE e == content[id].payload
<1>0. e \in Payload
  BY ContentFields DEF Event
<1>1. CASE e.type = "claim-issue"
  <2>1. e.claim \in ClaimIds
    BY <1>0, <1>1, PayloadFields, ClaimIdIsSeq
  <2>2. [owner |-> e.domain, amount |-> e.amount] \in Claim
    BY <1>0, <1>1, PayloadFields, LedgerAssumption DEF Claim, Owners
  <2>3. ApplyConservation(f, id) = With(f, e.claim, [owner |-> e.domain, amount |-> e.amount])
    BY <1>1 DEF ApplyConservation
  <2> HIDE DEF e
  <2> QED BY <2>1, <2>2, <2>3, WithType
<1>2. CASE e.type = "transfer"
  <2>1. e.claim \in ClaimIds /\ e.to \in Owners
    BY <1>0, <1>2, PayloadFields DEF ClaimIds, Owners
  <2>2. Append(e.claim, e.to) \in ClaimIds
    BY <2>1 DEF ClaimIds
  <2>3. ApplyConservation(f, id) = ApplyTransfer(f, e)
    BY <1>2 DEF ApplyConservation
  <2> HIDE DEF e
  <2>4. CASE e.claim \in DOMAIN f /\ f[e.claim].owner = e.domain
    <3>1. f[e.claim] \in Claim
      BY <2>4, CStateIs
    <3>2. [f[e.claim] EXCEPT !.owner = e.to] \in Claim
      BY <2>1, <3>1 DEF Claim
    <3>3. With(Without(f, e.claim), Append(e.claim, e.to), [f[e.claim] EXCEPT !.owner = e.to]) \in CState
      BY <2>2, <3>2, WithType, WithoutType
    <3> QED BY <2>3, <2>4, <3>3 DEF ApplyTransfer
  <2>5. CASE ~(e.claim \in DOMAIN f /\ f[e.claim].owner = e.domain)
    BY <2>3, <2>5 DEF ApplyTransfer
  <2> QED BY <2>4, <2>5
<1>3. CASE e.type \notin {"claim-issue", "transfer"}
  BY <1>3 DEF ApplyConservation
<1> QED BY <1>1, <1>2, <1>3

LEMMA ClaimsAlongIs ==
  ASSUME DagTypeOK(Payload), NEW order, NEW n \in Nat, Len(order) = n,
         \A i \in 1 .. n : order[i] \in DOMAIN content
  PROVE  /\ ClaimsAlong(order) \in [0 .. n -> CState]
         /\ ClaimsAlong(order)[0] = [c \in {} |-> c]
         /\ \A i \in 1 .. n : ClaimsAlong(order)[i] = ApplyConservation(ClaimsAlong(order)[i - 1], order[i])
<1> DEFINE none == [c \in {} |-> c]
           st == [i \in 1 .. n |-> [x \in CState |-> ApplyConservation(x, order[i])]]
           Right(g) == g = [i \in 0 .. n |-> IF i = 0 THEN none ELSE ApplyConservation(g[i - 1], order[i])]
           g == CHOOSE f : Right(f)
<1>0. none \in CState
  BY CStateIs
<1>1. Steps(st, n, CState)
  BY ApplyConservationType DEF Steps
<1>2. PICK f \in [0 .. n -> CState] : f[0] = none /\ \A i \in 1 .. n : f[i] = st[i][f[i - 1]]
  <2> HIDE DEF st, none
  <2> QED BY <1>0, <1>1, FoldExists
<1>3. \A i \in 1 .. n : f[i] = ApplyConservation(f[i - 1], order[i])
  <2> TAKE i \in 1 .. n
  <2>1. f[i - 1] \in CState
    OBVIOUS
  <2>2. f[i] = st[i][f[i - 1]]
    BY <1>2
  <2> QED BY <2>1, <2>2
<1>4. Right(f)
  <2> HIDE DEF none
  <2>1. \A i \in 0 .. n : f[i] = IF i = 0 THEN none ELSE ApplyConservation(f[i - 1], order[i])
    BY <1>2, <1>3
  <2> QED BY <2>1
<1>5. Right(g)
  <2> HIDE DEF Right
  <2> QED BY <1>4
<1>6. ClaimsAlong(order) = g
  BY DEF ClaimsAlong
<1> HIDE DEF g, none
<1>7. g[0] = none /\ \A i \in 1 .. n : g[i] = ApplyConservation(g[i - 1], order[i])
  BY <1>5
<1>8. \A i \in 0 .. n : g[i] \in CState
  <2>1. g[0] \in CState
    BY <1>0, <1>7
  <2>2. \A i \in 1 .. n : g[i - 1] \in CState => g[i] \in CState
    BY <1>7, ApplyConservationType
  <2> QED BY <2>1, <2>2, FoldKeeps
<1>9. g \in [0 .. n -> CState]
  BY <1>5, <1>8
<1> QED BY <1>6, <1>7, <1>9 DEF none

\* What a replica's order is, and the views folded along it.
LEMMA Views ==
  ASSUME BaseInv, NEW r \in Replicas
  PROVE  LET order == TopoOrder(r)
             n == Len(order)
         IN  /\ n \in Nat /\ order \in [1 .. n -> dag[r]] /\ n > 0
             /\ \A i \in 1 .. n : order[i] \in DOMAIN content
             /\ MaterializeG(r) = GAlong(order)[n] /\ MaterializeG(r) \in GState
             /\ MaterializeConservation(r) \in CState
<1> DEFINE order == TopoOrder(r)
           n == Len(order)
<1>1. n \in Nat /\ order \in [1 .. n -> dag[r]] /\ \A id \in dag[r] : \E i \in 1 .. n : order[i] = id
  BY BaseFields, TopoOrderInOrder
<1>2. dag[r] \in SUBSET DOMAIN content
  BY BaseFields DEF DagInv
<1>3. \A i \in 1 .. n : order[i] \in DOMAIN content
  BY <1>1, <1>2
<1>4. n > 0
  BY <1>1, BaseFields
<1>5. MaterializeG(r) = GAlong(order)[n] /\ MaterializeConservation(r) = ClaimsAlong(order)[n]
  BY DEF MaterializeG, MaterializeConservation
<1> HIDE DEF order
<1>6. GAlong(order) \in [0 .. n -> GState] /\ ClaimsAlong(order) \in [0 .. n -> CState]
  BY <1>1, <1>3, BaseFields, GAlongIs, ClaimsAlongIs
<1>7. n \in 0 .. n
  BY <1>1
<1> QED BY <1>1, <1>3, <1>4, <1>5, <1>6, <1>7 DEF order

-----------------------------------------------------------------------------
(* A handler that goes on                                                  *)

LEMMA AddedFacts ==
  ASSUME BaseInv, NEW h \in Handlers, NEW kind, kind # "idle", NEW id, Added(h, kind, id)
  PROVE  /\ running[h] \in Call \ {Idle} /\ running[h].kind = kind
         /\ running[h].at \in Replicas /\ running[h].event \in Event(Payload)
         /\ running[h].event.payload.domain = running[h].at
         /\ running[h].event.payload.type = EventOf[kind]
         /\ running[h].event.parents \subseteq dag[running[h].at]
         /\ Insert(running[h].at, running[h].event, id)
         /\ id \in Ids
<1>1. running[h] \in Call /\ running[h].kind = kind /\ Insert(running[h].at, running[h].event, id)
  BY BaseFields DEF Added
<1>2. running[h] # Idle
  BY <1>1 DEF Idle
<1>3. Matches(running[h])
  BY DEF BaseInv, CallsMatch
<1>4. id \in Ids
  BY <1>1, HashFacts, BaseFields DEF Insert
<1> QED BY <1>1, <1>2, <1>3, <1>4, CallFields DEF Matches

LEMMA CadenceGoesOn ==
  ASSUME BaseInv, NEW h \in Handlers, NEW id, CadenceAdded(h, id)
  PROVE  \E c : GoesOnAs(h, id, c)
<1> DEFINE old == running[h]
           r == old.at
           new == NewForeign(r, dag[r])
           c == [kind |-> "importing", at |-> r, event |-> old.event, more |-> new]
<1>1. Added(h, "cadence", id)
  BY DEF CadenceAdded
<1>2. /\ old \in Call \ {Idle} /\ old.kind = "cadence" /\ r \in Replicas /\ old.event \in Event(Payload)
      /\ old.event.payload.domain = r /\ old.event.payload.type = "cadence"
      /\ Insert(r, old.event, id)
  BY <1>1, AddedFacts DEF EventOf
<1>3. new \in SUBSET Ids
  BY <1>2, BaseFields DEF NewForeign
<1>4. /\ c \in Call \ {Idle} /\ c.at = r /\ c.kind = "importing" /\ c.event = old.event
      /\ c.more = new
  <2> HIDE DEF new, r, old
  <2> QED BY <1>2, <1>3, CallTypes
<1>5. EventOf["importing"] = "cadence"
  BY DEF EventOf
<1>6. running' = [running EXCEPT ![h] = c]
  BY BaseFields DEF CadenceAdded
<1>7. committed' \in [Replicas -> SUBSET Ids] /\ committed' = committed
  BY DEF CadenceAdded, BaseInv, TypeOK
<1>8. /\ lastEventId' = [lastEventId EXCEPT ![r] = id]
      /\ lastCadenceId' = [lastCadenceId EXCEPT ![r] = id]
      /\ epoch' = [epoch EXCEPT ![r] = old.event.payload.epoch]
      /\ UNCHANGED <<genesisId, pending, reloads, forked, raced>>
  BY DEF CadenceAdded
<1> HIDE DEF c
<1> QED BY <1>2, <1>4, <1>5, <1>6, <1>7, <1>8 DEF GoesOnAs

LEMMA ReceptionGoesOn ==
  ASSUME BaseInv, NEW h \in Handlers, NEW id, ReceptionAdded(h, id)
  PROVE  \E c : GoesOnAs(h, id, c)
<1> DEFINE old == running[h]
           r == old.at
<1>1. Added(h, "reception", id)
  BY DEF ReceptionAdded
<1>2. /\ old \in Call \ {Idle} /\ old.kind = "reception" /\ r \in Replicas
      /\ Insert(r, old.event, id)
  BY <1>1, AddedFacts
<1>3. old.more \in SUBSET Ids
  BY <1>2, CallFields
<1>4. committed' \in [Replicas -> SUBSET Ids] /\ committed' = [committed EXCEPT ![r] = @ \cup old.more]
  BY <1>3 DEF ReceptionAdded, BaseInv, TypeOK
<1>5. /\ running' = [running EXCEPT ![h] = Idle] /\ Idle \in Call
      /\ lastEventId' = [lastEventId EXCEPT ![r] = id]
      /\ UNCHANGED <<genesisId, lastCadenceId, epoch, pending, reloads, forked, raced>>
  BY DEF ReceptionAdded, Returns, Call
<1>6. Idle.kind # "importing"
  BY DEF Idle
<1> QED BY <1>2, <1>4, <1>5, <1>6 DEF GoesOnAs

LEMMA AccrualGoesOn ==
  ASSUME BaseInv, NEW h \in Handlers, NEW id, AccrualAdded(h, id)
  PROVE  \E c : GoesOnAs(h, id, c)
<1> DEFINE old == running[h]
           r == old.at
           rest == old.more
           p == Accrual(r, Head(rest))
           c == [kind |-> "accrual", at |-> r, event |-> [parents |-> {id}, payload |-> p],
                 more |-> Tail(rest)]
<1>1. Added(h, "accrual", id)
  BY DEF AccrualAdded
<1>2. /\ old \in Call \ {Idle} /\ old.kind = "accrual" /\ r \in Replicas
      /\ Insert(r, old.event, id) /\ id \in Ids
  BY <1>1, AddedFacts
<1>3. committed' \in [Replicas -> SUBSET Ids] /\ committed' = committed
  BY DEF AccrualAdded, BaseInv, TypeOK
<1>4. /\ lastEventId' = [lastEventId EXCEPT ![r] = id]
      /\ running' = [running EXCEPT ![h] =
           IF rest = << >> THEN Idle
           ELSE [kind |-> "accrual", at |-> r, more |-> Tail(rest),
                 event |-> [parents |-> {id}, payload |-> p]]]
      /\ UNCHANGED <<genesisId, lastCadenceId, epoch, pending, reloads, forked, raced>>
  BY DEF AccrualAdded
<1>5. [kind |-> "accrual", at |-> r, more |-> Tail(rest), event |-> [parents |-> {id}, payload |-> p]] = c
  OBVIOUS
<1>6. CASE rest = << >>
  <2>1. Idle \in Call /\ Idle.kind # "importing"
    BY DEF Call, Idle
  <2> QED BY <1>2, <1>3, <1>4, <1>6, <2>1 DEF GoesOnAs
<1>7. CASE rest # << >>
  <2>1. Head(rest) \in Nat /\ Tail(rest) \in Seq(Nat)
    BY <1>2, <1>7, CallFields
  <2>2. p \in Payload /\ p.domain = r /\ p.type = "accrual"
    BY <1>2, <2>1, PayloadTypes DEF Accrual
  <2>3. [parents |-> {id}, payload |-> p] \in Event(Payload)
    BY <1>2, <2>2, EventType
  <2>4. c \in Call \ {Idle}
    <3> HIDE DEF p, rest, r, old
    <3> QED BY <1>2, <2>1, <2>3, CallTypes
  <2>5. c.at = r /\ c.kind = "accrual" /\ c.event.payload.domain = r
        /\ c.event.payload.type = EventOf["accrual"] /\ c.event.parents = {id}
    BY <2>2 DEF EventOf
  <2>6. "accrual" \in Started \ {"cadence", "issue"}
    BY DEF Started
  <2>7. running' = [running EXCEPT ![h] = c]
    BY <1>4, <1>5, <1>7
  <2> HIDE DEF c
  <2> QED BY <1>2, <1>3, <1>4, <2>4, <2>5, <2>6, <2>7 DEF GoesOnAs
<1> QED BY <1>6, <1>7

LEMMA IssueGoesOn ==
  ASSUME BaseInv, NEW h \in Handlers, NEW id, IssueAdded(h, id)
  PROVE  \E c : GoesOnAs(h, id, c)
<1> DEFINE old == running[h]
           r == old.at
           p == Transfer(r, old.event.payload.claim, old.more)
           c == [kind |-> "transfer", at |-> r, event |-> [parents |-> {id}, payload |-> p], more |-> {}]
<1>1. Added(h, "issue", id)
  BY DEF IssueAdded
<1>2. /\ old \in Call \ {Idle} /\ old.kind = "issue" /\ r \in Replicas /\ old.event \in Event(Payload)
      /\ old.event.payload.type = "claim-issue"
      /\ Insert(r, old.event, id) /\ id \in Ids
  BY <1>1, AddedFacts DEF EventOf
<1>3. committed' \in [Replicas -> SUBSET Ids] /\ committed' = committed
  BY DEF IssueAdded, BaseInv, TypeOK
<1>4. /\ running' = [running EXCEPT ![h] = c]
      /\ UNCHANGED <<lastEventId, genesisId, lastCadenceId, epoch, pending, reloads, forked, raced>>
  <2>1. c = [kind |-> "transfer", at |-> r, more |-> {}, event |-> [parents |-> {id}, payload |-> p]]
    OBVIOUS
  <2> HIDE DEF c
  <2> QED BY <2>1 DEF IssueAdded, tips
<1>5. old.event.payload.claim \in Seq(Owners \cup Nat) /\ old.more \in Recipients
  <2>1. old.event.payload \in Payload
    BY <1>2 DEF Event
  <2> QED BY <1>2, <2>1, CallFields, PayloadFields, ClaimIdIsSeq DEF ClaimIds
<1>6. p \in Payload /\ p.domain = r /\ p.type = "transfer"
  BY <1>2, <1>5, PayloadTypes DEF Transfer
<1>7. [parents |-> {id}, payload |-> p] \in Event(Payload)
  BY <1>2, <1>6, EventType
<1>8. c \in Call \ {Idle}
  <2> HIDE DEF p, r, old
  <2> QED BY <1>2, <1>7, CallTypes
<1>9. c.at = r /\ c.kind = "transfer" /\ c.event.payload.domain = r
      /\ c.event.payload.type = EventOf["transfer"] /\ c.event.parents = {id}
  BY <1>6 DEF EventOf
<1>10. "transfer" \in Started \ {"cadence", "issue"}
  BY DEF Started
<1> HIDE DEF c
<1> QED BY <1>2, <1>3, <1>4, <1>8, <1>9, <1>10 DEF GoesOnAs

LEMMA TransferGoesOn ==
  ASSUME BaseInv, NEW h \in Handlers, NEW id, TransferAdded(h, id)
  PROVE  \E c : GoesOnAs(h, id, c)
<1>1. Added(h, "transfer", id)
  BY DEF TransferAdded
<1>2. /\ running[h] \in Call \ {Idle} /\ running[h].kind = "transfer"
      /\ Insert(running[h].at, running[h].event, id)
  BY <1>1, AddedFacts
<1>3. committed' \in [Replicas -> SUBSET Ids] /\ committed' = committed
  BY DEF TransferAdded, BaseInv, TypeOK
<1>4. /\ running' = [running EXCEPT ![h] = Idle] /\ Idle \in Call
      /\ lastEventId' = [lastEventId EXCEPT ![running[h].at] = id]
      /\ UNCHANGED <<genesisId, lastCadenceId, epoch, pending, reloads, forked, raced>>
  BY DEF TransferAdded, Returns, Call
<1>5. Idle.kind # "importing"
  BY DEF Idle
<1> QED BY <1>2, <1>3, <1>4, <1>5 DEF GoesOnAs

\* The steps there are.
LEMMA StepIs ==
  ASSUME BaseInv, Next
  PROVE  \/ \E h \in Handlers, r \in Replicas : \E c : Begins(h, r, c)
         \/ \E h \in Handlers : \E id, c : GoesOnAs(h, id, c)
         \/ \E h \in Handlers : ReceptionStarts(h)
         \/ \E r \in Active : Commit(r) \/ Reload(r)
         \/ \E r \in Replicas : \E s \in Replicas \ {r} : Sync(r, s)
<1>1. ASSUME NEW h \in Handlers, HandlerGoesOn(h)
      PROVE  ReceptionStarts(h) \/ \E id, c : GoesOnAs(h, id, c)
  BY <1>1, CadenceGoesOn, ReceptionGoesOn, AccrualGoesOn, IssueGoesOn, TransferGoesOn DEF HandlerGoesOn
<1>2. ASSUME NEW h \in Handlers, NEW r \in Active, HandlerStarts(h, r)
      PROVE  \E c : Begins(h, r, c)
  <2>1. r \in Replicas
    BY LedgerAssumption
  <2>2. DOMAIN MaterializeConservation(r) \subseteq Seq(Owners \cup Nat)
    BY <2>1, Views, CStateIs DEF ClaimIds
  <2> QED BY <1>2, <2>1, <2>2, CadenceBegins, ClaimBegins, SendBegins, TransferBegins DEF HandlerStarts
<1>3. Active \subseteq Replicas
  BY LedgerAssumption
<1> QED BY <1>1, <1>2, <1>3 DEF Next

-----------------------------------------------------------------------------
(* Types                                                                   *)

LEMMA InitBase == ASSUME Init PROVE BaseInv
<1>1. PICK id \in [Replicas -> Ids] :
        /\ IsInjective(id)
        /\ content = [i \in Range(id) |-> [parents |-> {}, payload |->
                         Genesis(CHOOSE r \in Replicas : id[r] = i)]]
        /\ dag = [r \in Replicas |-> {id[r]}]
        /\ genesisId = id
        /\ lastEventId = id
  BY DEF Init
<1>2. DOMAIN content = Range(id) /\ Range(id) \subseteq Ids
  BY <1>1 DEF Range
<1>3. ASSUME NEW i \in DOMAIN content
      PROVE  /\ content[i] \in Event(Payload) /\ Parents(i) = {}
             /\ Domain(i) \in Replicas /\ id[Domain(i)] = i
  <2> DEFINE r == CHOOSE q \in Replicas : id[q] = i
  <2>1. r \in Replicas /\ id[r] = i
    BY <1>1, <1>2 DEF Range
  <2>2. content[i] = [parents |-> {}, payload |-> Genesis(r)]
    BY <1>1, <1>2
  <2> HIDE DEF r
  <2>3. Genesis(r) \in Payload /\ Genesis(r).domain = r
    BY <2>1, PayloadTypes DEF Genesis
  <2>4. content[i] \in Event(Payload) /\ Parents(i) = {} /\ Domain(i) = r
    <3>1. {} \in SUBSET Ids
      OBVIOUS
    <3> QED BY <2>2, <2>3, <3>1, EventType DEF Parents, Domain
  <2> QED BY <2>1, <2>4
<1>4. dag \in [Replicas -> SUBSET DOMAIN content]
  BY <1>1, <1>2 DEF Range
<1>5. DagTypeOK(Payload)
  <2>1. content = [i \in DOMAIN content |-> content[i]]
    BY <1>1
  <2> QED BY <1>2, <1>3, <1>4, <2>1 DEF DagTypeOK
<1>6. Acyclic
  BY <1>3 DEF Acyclic
<1>7. DagInv
  BY <1>2, <1>3, <1>4, <1>6 DEF DagInv
<1>8. OwnKnown
  BY <1>1, <1>3 DEF OwnKnown
<1>9. CallsMatch
  BY DEF Init, CallsMatch, Matches
<1>10. TypeOK
  <2>1. \A r \in Replicas : {genesisId[r], lastEventId[r]} \subseteq dag[r]
    BY <1>1
  <2>2. Idle \in Call
    BY DEF Call
  <2> QED BY <1>1, <1>5, <2>1, <2>2 DEF Init, TypeOK
<1> QED BY <1>7, <1>8, <1>9, <1>10 DEF BaseInv

\* DagTypeOK and what a domain knows of its own are about the events alone.
LEMMA DagStays ==
  ASSUME BaseInv, UNCHANGED dagVars PROVE DagTypeOK(Payload)' /\ DagInv' /\ OwnKnown'
<1>1. content' = content /\ dag' = dag
  BY DEF dagVars
<1> QED BY <1>1 DEF BaseInv, TypeOK, DagTypeOK, DagInv, Acyclic, Parents, OwnKnown, Domain

LEMMA BeginsBase ==
  ASSUME BaseInv, NEW h \in Handlers, NEW r \in Replicas, NEW c, Begins(h, r, c)
  PROVE  BaseInv'
<1>1. /\ running' = [running EXCEPT ![h] = c] /\ c \in Call /\ c.at = r /\ Matches(c)
      /\ pending' \in [Replicas -> Seq(Nat)]
      /\ UNCHANGED <<tips, committed>> /\ Starts(h, r)
  BY DEF Begins
<1>2. UNCHANGED dagVars /\ reloads' = reloads /\ forked' \cup raced' \subseteq Replicas
  BY <1>1 DEF Starts, BaseInv, TypeOK
<1>3. running' \in [Handlers -> Call]
  BY <1>1, BaseFields
<1>4. TypeOK'
  BY <1>1, <1>2, <1>3, DagStays DEF tips, dagVars, BaseInv, TypeOK
<1>5. CallsMatch'
  BY <1>1, <1>2, BaseFields DEF BaseInv, CallsMatch, Matches, dagVars
<1> QED BY <1>2, <1>4, <1>5, DagStays DEF BaseInv

\* After an event is added: what is known grows, by that event.
LEMMA InsertBase ==
  ASSUME BaseInv, NEW r \in Replicas, NEW e \in Event(Payload), NEW id,
         e.payload.domain = r, e.parents \subseteq dag[r], Insert(r, e, id)
  PROVE  /\ DagTypeOK(Payload)' /\ DagInv' /\ OwnKnown'
         /\ id \in Ids /\ DOMAIN content' = DOMAIN content \cup {id}
         /\ \A i \in DOMAIN content : content'[i] = content[i]
         /\ content'[id] = e
         /\ dag'[r] = dag[r] \cup {id}
         /\ \A s \in Replicas : dag[s] \subseteq dag'[s]
<1>1. /\ id \in Ids /\ DOMAIN content' = DOMAIN content \cup {id}
      /\ \A i \in DOMAIN content : content'[i] = content[i]
      /\ content'[id] = e
  BY HashFacts, BaseFields DEF Insert
<1>2. /\ DagInv' /\ dag'[r] = dag[r] \cup {id}
      /\ \A s \in Replicas \ {r} : dag'[s] = dag[s]
  BY InsertDag, BaseFields
<1>3. \A s \in Replicas : dag[s] \subseteq dag'[s]
  BY <1>2
<1>4. DagTypeOK(Payload)'
  <2>1. content' = [i \in DOMAIN content' |-> content'[i]]
    BY DEF Insert, HashIs
  <2>2. \A i \in DOMAIN content' : content'[i] \in Event(Payload)
    BY <1>1, BaseFields DEF DagTypeOK
  <2>3. content' \in [DOMAIN content' -> Event(Payload)]
    BY <2>1, <2>2
  <2>4. DOMAIN content' \subseteq Ids /\ dag' \in [Replicas -> SUBSET DOMAIN content']
    BY <1>2 DEF DagInv
  <2> QED BY <2>3, <2>4 DEF DagTypeOK
<1>5. OwnKnown'
  <2>1. \A i \in DOMAIN content : Domain(i)' = Domain(i) /\ Domain(i) \in Replicas /\ i \in dag[Domain(i)]
    BY <1>1, BaseFields, ContentFields DEF BaseInv, OwnKnown, Domain
  <2>2. Domain(id)' = r
    BY <1>1 DEF Domain
  <2> QED BY <1>1, <1>2, <1>3, <2>1, <2>2 DEF OwnKnown
<1> QED BY <1>1, <1>2, <1>3, <1>4, <1>5

LEMMA OldCall ==
  ASSUME BaseInv, NEW h \in Handlers, running[h] # Idle
  PROVE  /\ running[h].at \in Replicas /\ running[h].event \in Event(Payload)
         /\ running[h].event.payload.domain = running[h].at
         /\ running[h].event.payload.type = EventOf[running[h].kind]
         /\ running[h].event.parents \subseteq dag[running[h].at]
         /\ running[h].kind \in {"cadence", "importing", "reception", "accrual", "issue", "transfer"}
  BY BaseFields, CallFields DEF BaseInv, CallsMatch, Matches

LEMMA GoesOnBase ==
  ASSUME BaseInv, NEW h \in Handlers, NEW id, NEW c, GoesOnAs(h, id, c)
  PROVE  BaseInv'
<1> DEFINE old == running[h]
           r == old.at
<1>1. /\ old # Idle /\ Insert(r, old.event, id) /\ c \in Call
      /\ running' = [running EXCEPT ![h] = c]
  BY DEF GoesOnAs
<1>2. /\ r \in Replicas /\ old.event \in Event(Payload) /\ old.event.payload.domain = r
      /\ old.event.parents \subseteq dag[r] /\ old.event.payload.type = EventOf[old.kind]
  BY <1>1, OldCall
<1> HIDE DEF r, old
<1>3. /\ DagTypeOK(Payload)' /\ DagInv' /\ OwnKnown'
      /\ id \in Ids /\ dag'[r] = dag[r] \cup {id}
      /\ \A s \in Replicas : dag[s] \subseteq dag'[s]
  BY <1>1, <1>2, InsertBase
<1>4. running' \in [Handlers -> Call]
  BY <1>1, BaseFields
<1>5. /\ lastEventId' \in [Replicas -> Ids] /\ \A s \in Replicas : lastEventId'[s] \in dag'[s]
  <2>1. lastEventId' = lastEventId \/ lastEventId' = [lastEventId EXCEPT ![r] = id]
    BY DEF GoesOnAs, r, old
  <2>2. lastEventId \in [Replicas -> Ids] /\ \A s \in Replicas : lastEventId[s] \in dag[s]
    BY DEF BaseInv, TypeOK
  <2>3. CASE lastEventId' = lastEventId
    BY <1>3, <2>2, <2>3
  <2>4. CASE lastEventId' = [lastEventId EXCEPT ![r] = id]
    BY <1>2, <1>3, <2>2, <2>4
  <2> QED BY <2>1, <2>3, <2>4
<1>6. lastCadenceId' \in [Replicas -> Ids \cup {NoEvent}] /\ epoch' \in [Replicas -> Nat]
  <2>1. CASE old.kind = "cadence"
    <3>1. old.event.payload.epoch \in Nat
      <4>1. old.event.payload \in Payload /\ old.event.payload.type = "cadence"
        BY <1>2, <2>1 DEF Event, EventOf
      <4> QED BY <4>1, PayloadFields
    <3>2. /\ lastCadenceId' = [lastCadenceId EXCEPT ![r] = id]
          /\ epoch' = [epoch EXCEPT ![r] = old.event.payload.epoch]
      BY <2>1 DEF GoesOnAs, r, old
    <3> QED BY <1>3, <3>1, <3>2 DEF BaseInv, TypeOK
  <2>2. CASE old.kind # "cadence"
    BY <2>2 DEF GoesOnAs, old, BaseInv, TypeOK
  <2> QED BY <2>1, <2>2
<1>7. TypeOK'
  <2>1. \A s \in Replicas : genesisId'[s] \in dag'[s]
    BY <1>3, BaseFields DEF GoesOnAs
  <2>2. committed' \in [Replicas -> SUBSET Ids] /\ UNCHANGED <<genesisId, pending, reloads, forked, raced>>
    BY DEF GoesOnAs
  <2> QED BY <1>3, <1>4, <1>5, <1>6, <2>1, <2>2 DEF BaseInv, TypeOK
<1>8. Matches(c)'
  <2>1. CASE c = Idle
    BY <2>1 DEF Matches
  <2>2. CASE c # Idle
    <3>1. c.at = r /\ c.event.payload.domain = r /\ c.event.payload.type = EventOf[c.kind]
      BY <2>2 DEF GoesOnAs, old, r
    <3>2. c.event.parents = {id} \/ c.event = old.event
      BY <2>2 DEF GoesOnAs, old, r
    <3>3. c.event.parents \subseteq dag'[r]
      BY <1>2, <1>3, <3>2
    <3> QED BY <3>1, <3>3 DEF Matches
  <2> QED BY <2>1, <2>2
<1>9. CallsMatch'
  <2> SUFFICES ASSUME NEW o \in Handlers PROVE Matches(running[o])'
    BY DEF CallsMatch
  <2>1. CASE o = h
    <3>1. running'[o] = c
      BY <1>1, <2>1, BaseFields
    <3> QED BY <1>8, <3>1 DEF Matches
  <2>2. CASE o # h
    <3>1. running'[o] = running[o]
      BY <1>1, <2>2, BaseFields
    <3>2. running[o] # Idle => running[o].event.parents \subseteq dag'[running[o].at]
      BY <1>3, OldCall
    <3> QED BY <3>1, <3>2, OldCall DEF Matches
  <2> QED BY <2>1, <2>2
<1> QED BY <1>3, <1>7, <1>9 DEF BaseInv

LEMMA ReceptionStartsBase ==
  ASSUME BaseInv, NEW h \in Handlers, ReceptionStarts(h)
  PROVE  /\ BaseInv'
         /\ \E e \in Event(Payload) :
              /\ running' = [running EXCEPT ![h] =
                   [kind |-> "reception", at |-> running[h].at, event |-> e, more |-> running[h].more]]
              /\ e.parents = {lastEventId[running[h].at]}
<1> DEFINE old == running[h]
           r == old.at
           ps == {lastEventId[r]}
           p == Reception(r, old.event.payload.epoch, old.more)
           e == [parents |-> ps, payload |-> p]
           c == [kind |-> "reception", at |-> r, event |-> e, more |-> old.more]
<1>1. /\ old.kind = "importing" /\ AddEvent(h, r, "reception", ps, p, old.more)
      /\ UNCHANGED <<dagVars, tips, pending, committed, reloads, forked, raced>>
  BY DEF ReceptionStarts
<1>2. old # Idle
  BY <1>1 DEF Idle
<1>3. r \in Replicas /\ old.event \in Event(Payload) /\ old.event.payload.type = "cadence"
      /\ old.more \in SUBSET Ids
  BY <1>1, <1>2, OldCall, CallFields, BaseFields DEF EventOf
<1>4. old.event.payload.epoch \in Nat
  <2>1. old.event.payload \in Payload
    BY <1>3 DEF Event
  <2> QED BY <1>3, <2>1, PayloadFields
<1>5. p \in Payload /\ p.domain = r /\ p.type = EventOf["reception"]
  BY <1>3, <1>4, PayloadTypes DEF Reception, EventOf
<1>6. running' = [running EXCEPT ![h] = c] /\ ps \subseteq dag[r]
  BY <1>1 DEF AddEvent, MayAdd
<1>7. e \in Event(Payload) /\ e.parents = ps /\ e.payload = p
  <2>1. ps \in SUBSET Ids
    BY <1>1, <1>3, KnownParents DEF AddEvent
  <2> HIDE DEF ps, p
  <2> QED BY <1>5, <2>1, EventType
<1> HIDE DEF e
<1>8. c \in Call /\ c.at = r /\ c.event = e /\ c.kind = "reception"
  BY <1>3, <1>7, CallTypes
<1> HIDE DEF c, p
<1>9. running' \in [Handlers -> Call] /\ Matches(c)
  BY <1>5, <1>6, <1>7, <1>8, BaseFields DEF Matches
<1>10. TypeOK'
  BY <1>1, <1>9, DagStays DEF tips, dagVars, BaseInv, TypeOK
<1>11. CallsMatch'
  BY <1>1, <1>6, <1>9, BaseFields DEF BaseInv, CallsMatch, Matches, dagVars
<1> QED BY <1>1, <1>6, <1>7, <1>10, <1>11, DagStays DEF BaseInv, c

LEMMA CommitBase == ASSUME BaseInv, NEW r \in Replicas, Commit(r) PROVE BaseInv'
<1>1. UNCHANGED <<dagVars, tips, committed, running, reloads, forked, raced>>
      /\ pending' = [pending EXCEPT ![r] = Append(@, epoch[r])]
  BY DEF Commit
<1>2. pending' \in [Replicas -> Seq(Nat)]
  BY <1>1, BaseFields DEF BaseInv, TypeOK
<1>3. TypeOK'
  BY <1>1, <1>2, DagStays DEF tips, dagVars, BaseInv, TypeOK
<1>4. CallsMatch'
  BY <1>1 DEF BaseInv, CallsMatch, Matches, dagVars
<1> QED BY <1>1, <1>3, <1>4, DagStays DEF BaseInv

LEMMA SyncBase ==
  ASSUME BaseInv, NEW r \in Replicas, NEW s \in Replicas, Sync(r, s)
  PROVE  BaseInv' /\ UNCHANGED <<content, tips, running, forked, raced>>
<1>1. MergeBothWays(r, s) /\ UNCHANGED <<tips, pending, committed, running, reloads, forked, raced>>
  BY DEF Sync
<1>2. /\ DagInv' /\ \A t \in Replicas : dag[t] \subseteq dag'[t]
  BY <1>1, MergeDag, BaseFields
<1>3. content' = content
  BY <1>1 DEF MergeBothWays
<1>4. DagTypeOK(Payload)'
  BY <1>2, <1>3 DEF DagInv, BaseInv, TypeOK, DagTypeOK
<1>5. OwnKnown'
  BY <1>2, <1>3, BaseFields, ContentFields DEF BaseInv, OwnKnown, Domain
<1>6. CallsMatch'
  <2> SUFFICES ASSUME NEW o \in Handlers PROVE Matches(running[o])'
    BY DEF CallsMatch
  <2>1. running'[o] = running[o]
    BY <1>1
  <2> QED BY <1>2, <2>1, OldCall DEF Matches
<1>7. TypeOK'
  BY <1>1, <1>2, <1>4 DEF tips, BaseInv, TypeOK
<1> QED BY <1>1, <1>2, <1>3, <1>5, <1>6, <1>7 DEF BaseInv

LEMMA ReloadBase == ASSUME BaseInv, NEW r \in Replicas, Reload(r) PROVE BaseInv'
<1> DEFINE order == TopoOrder(r)
           n == Len(order)
           g == MaterializeG(r)
<1>1. /\ RestoreTips(r) /\ UNCHANGED dagVars
      /\ pending' = [pending EXCEPT ![r] = << >>]
      /\ committed' = [committed EXCEPT ![r] = {}]
      /\ running' = [h \in Handlers |-> IF running[h] # Idle /\ running[h].at = r THEN Idle
                                        ELSE running[h]]
      /\ forked' = IF \E id \in dag[r] : Domain(id) # r THEN forked \cup {r} ELSE forked
      /\ raced' = raced /\ reloads' = reloads + 1
  BY DEF Reload
<1>2. n \in Nat /\ order \in [1 .. n -> dag[r]] /\ n > 0 /\ g \in GState
  BY Views
<1>3. Head(order) \in dag[r] /\ Last(order) \in dag[r]
  <2>1. Head(order) = order[1] /\ Last(order) = order[n]
    BY <1>2 DEF Last
  <2> HIDE DEF order
  <2> QED BY <1>2, <2>1
<1>4. /\ genesisId' = [genesisId EXCEPT ![r] = Head(order)]
      /\ lastEventId' = [lastEventId EXCEPT ![r] = Last(order)]
      /\ lastCadenceId' = [lastCadenceId EXCEPT ![r] = g.last[r]]
      /\ epoch' = [epoch EXCEPT ![r] = g.epoch[r]]
  BY <1>1 DEF RestoreTips
<1>5. g.last[r] \in Ids \cup {NoEvent} /\ g.epoch[r] \in Nat
  BY <1>2 DEF GState
<1> HIDE DEF order, g
<1>6. running' \in [Handlers -> Call]
  <2>1. Idle \in Call
    BY DEF Call
  <2> QED BY <1>1, <2>1, BaseFields
<1>7. /\ genesisId' \in [Replicas -> Ids] /\ lastEventId' \in [Replicas -> Ids]
      /\ \A s \in Replicas : genesisId'[s] \in dag[s] /\ lastEventId'[s] \in dag[s]
  BY <1>3, <1>4, BaseFields DEF BaseInv, TypeOK
<1>8. lastCadenceId' \in [Replicas -> Ids \cup {NoEvent}] /\ epoch' \in [Replicas -> Nat]
  BY <1>4, <1>5 DEF BaseInv, TypeOK
<1>9. /\ pending' \in [Replicas -> Seq(Nat)] /\ committed' \in [Replicas -> SUBSET Ids]
      /\ reloads' \in Nat /\ forked' \cup raced' \subseteq Replicas
  BY <1>1 DEF BaseInv, TypeOK
<1>10. TypeOK'
  BY <1>1, <1>6, <1>7, <1>8, <1>9, DagStays DEF TypeOK, dagVars
<1>11. CallsMatch'
  BY <1>1 DEF BaseInv, CallsMatch, Matches, dagVars
<1> QED BY <1>1, <1>10, <1>11, DagStays DEF BaseInv

LEMMA BaseStep == BaseInv /\ [Next]_vars => BaseInv'
<1> SUFFICES ASSUME BaseInv, [Next]_vars PROVE BaseInv'
  OBVIOUS
<1>1. CASE Next
  <2>1. Active \subseteq Replicas
    BY LedgerAssumption
  <2> QED BY <1>1, <2>1, StepIs, BeginsBase, GoesOnBase, ReceptionStartsBase, CommitBase, ReloadBase,
             SyncBase
<1>2. CASE UNCHANGED vars
  <2>1. TypeOK'
    BY <1>2, DagStays DEF vars, dagVars, BaseInv, TypeOK
  <2>2. CallsMatch'
    BY <1>2 DEF vars, BaseInv, CallsMatch, Matches
  <2> QED BY <1>2, <2>1, <2>2, DagStays DEF vars, dagVars, BaseInv
<1> QED BY <1>1, <1>2

LEMMA BaseInvariance == Spec => []BaseInv
  BY InitBase, BaseStep, PTL DEF Spec

\* All state is well typed, and the tips a domain writes after are events it knows.
THEOREM TypeCorrect == Spec => []TypeOK
<1>1. BaseInv => TypeOK
  BY DEF BaseInv
<1> QED BY BaseInvariance, <1>1, PTL

(* topoOrder(), which every view is a fold over, lists what a domain knows *)
(* once each, parents first, however its handlers overlap.                 *)
THEOREM OrderIsCausal == Spec => []TopoOrderIsCausal
<1>1. BaseInv => DagInv
  BY DEF BaseInv
<1> QED BY BaseInvariance, TopoOrderCausal, <1>1, PTL

-----------------------------------------------------------------------------
(* A domain's own history                                                  *)

Wrote(r) == {id \in DOMAIN content : Domain(id) = r}
At(r) == {h \in Handlers : running[h] # Idle /\ running[h].at = r}

\* The events that a handler's next one comes after.
NextAfter(c) == IF c.kind = "importing" THEN {lastEventId[c.at]} ELSE c.event.parents

(* Of a domain whose handlers never overlapped: its history is a chain, at *)
(* most one handler is extending it, and that one, or else the tip, has    *)
(* all of it behind it.                                                    *)
OneChain(r) ==
  /\ IsChain(Wrote(r))
  /\ \A h, o \in At(r) : h = o
  /\ At(r) = {} => Wrote(r) \subseteq Under({lastEventId[r]})
  /\ \A h \in At(r) : Wrote(r) \subseteq Under(NextAfter(running[h]))

ForkInv == \A r \in Replicas \ forked : OneChain(r)

LEMMA WroteIsOwn == BaseInv => \A r \in Replicas : Wrote(r) = Own(r)
<1> SUFFICES ASSUME BaseInv, NEW r \in Replicas PROVE Wrote(r) = Own(r)
  OBVIOUS
<1>1. dag[r] \in SUBSET DOMAIN content
  BY BaseFields DEF DagInv
<1> QED BY <1>1 DEF BaseInv, OwnKnown, Wrote, Own

\* Nothing changed of r's history, its tip, and the handlers that extend it.
LEMMA ChainSame ==
  ASSUME BaseInv, NEW r \in Replicas, OneChain(r),
         content' = content, lastEventId'[r] = lastEventId[r], At(r)' = At(r),
         \A h \in At(r) : running'[h] = running[h]
  PROVE  OneChain(r)'
<1>1. Ancestors' = Ancestors
  BY AncestorsSame
<1>2. Wrote(r)' = Wrote(r)
  BY DEF Wrote, Domain
<1>3. \A S : IsChain(S)' <=> IsChain(S)
  BY <1>1 DEF IsChain
<1>4. IsChain(Wrote(r))' <=> IsChain(Wrote(r))
  BY <1>1, <1>2 DEF IsChain
<1>5. \A ids : Under(ids)' = Under(ids)
  BY <1>1 DEF Under
<1>6. Under({lastEventId[r]})' = Under({lastEventId[r]})
  BY <1>1 DEF Under
<1>7. \A h \in At(r) : NextAfter(running[h])' = NextAfter(running[h])
  BY DEF NextAfter, At
<1>8. \A h \in At(r) : Under(NextAfter(running[h]))' = Under(NextAfter(running[h]))
  BY <1>1, <1>7 DEF Under
<1> HIDE DEF At
<1> QED BY <1>2, <1>4, <1>6, <1>8 DEF OneChain

LEMMA BeginsChain ==
  ASSUME BaseInv, BaseInv', ForkInv, NEW h \in Handlers, NEW r \in Replicas, NEW c, Begins(h, r, c)
  PROVE  ForkInv'
<1>1. /\ running[h] = Idle /\ running' = [running EXCEPT ![h] = c]
      /\ c # Idle /\ c.at = r /\ c.kind # "importing" /\ lastEventId[r] \in c.event.parents
      /\ Starts(h, r) /\ UNCHANGED tips
  BY DEF Begins, Started
<1>2. /\ content' = content /\ lastEventId' = lastEventId
      /\ forked' = IF At(r) # {} THEN forked \cup {r} ELSE forked
  <2>1. {o \in Handlers \ {h} : running[o] # Idle /\ running[o].at = r} = At(r)
    BY <1>1 DEF At
  <2> QED BY <1>1, <2>1 DEF Starts, dagVars, tips
<1>3. running \in [Handlers -> Call]
  BY BaseFields
<1>4. running'[h] = c /\ \A o \in Handlers \ {h} : running'[o] = running[o]
  BY <1>1, <1>3
<1> SUFFICES ASSUME NEW s \in Replicas, s \notin forked' PROVE OneChain(s)'
  BY DEF ForkInv
<1>5. OneChain(s)
  BY <1>2 DEF ForkInv
<1>6. CASE s # r
  <2>1. At(s)' = At(s) /\ \A o \in At(s) : running'[o] = running[o]
    BY <1>1, <1>4, <1>6 DEF At
  <2> QED BY <1>2, <1>5, <2>1, ChainSame
<1>7. CASE s = r
  <2>1. At(r) = {} /\ At(r)' = {h}
    BY <1>1, <1>2, <1>4, <1>7 DEF At
  <2>2. Ancestors' = Ancestors
    BY <1>2, AncestorsSame
  <2>3. Wrote(r)' = Wrote(r)
    BY <1>2 DEF Wrote, Domain
  <2>4. IsChain(Wrote(r))'
    BY <1>5, <1>7, <2>2, <2>3 DEF IsChain, OneChain
  <2>5. NextAfter(running[h])' = c.event.parents
    BY <1>1, <1>4 DEF NextAfter
  <2>6. Wrote(r) \subseteq Under({lastEventId[r]})
    BY <1>5, <1>7, <2>1 DEF OneChain
  <2>7. Under({lastEventId[r]}) \subseteq Under(NextAfter(running[h]))'
    BY <1>1, <2>2, <2>5 DEF Under
  <2>8. Wrote(r)' \subseteq Under(NextAfter(running[h]))'
    BY <2>3, <2>6, <2>7
  <2> HIDE DEF At, Wrote
  <2> QED BY <1>7, <2>1, <2>4, <2>8 DEF OneChain
<1> QED BY <1>6, <1>7

LEMMA ReceptionStartsChain ==
  ASSUME BaseInv, BaseInv', ForkInv, NEW h \in Handlers, ReceptionStarts(h)
  PROVE  ForkInv'
<1>1. PICK e \in Event(Payload) :
        /\ running' = [running EXCEPT ![h] =
             [kind |-> "reception", at |-> running[h].at, event |-> e, more |-> running[h].more]]
        /\ e.parents = {lastEventId[running[h].at]}
  BY ReceptionStartsBase
<1>2. /\ running[h].kind = "importing" /\ running[h] # Idle
      /\ content' = content /\ lastEventId' = lastEventId /\ forked' = forked
  BY DEF ReceptionStarts, Idle, dagVars, tips
<1> DEFINE c == [kind |-> "reception", at |-> running[h].at, event |-> e, more |-> running[h].more]
<1>3. c.at = running[h].at /\ c.kind = "reception" /\ c.event = e /\ c # Idle
  BY DEF Idle
<1>4. running'[h] = c /\ \A o \in Handlers \ {h} : running'[o] = running[o]
  BY <1>1, BaseFields
<1> HIDE DEF c
<1> SUFFICES ASSUME NEW s \in Replicas, s \notin forked' PROVE OneChain(s)'
  BY DEF ForkInv
<1>5. OneChain(s)
  BY <1>2 DEF ForkInv
<1>6. At(s)' = At(s)
  BY <1>2, <1>3, <1>4 DEF At
<1>7. Ancestors' = Ancestors
  BY <1>2, AncestorsSame
<1>8. Wrote(s)' = Wrote(s)
  BY <1>2 DEF Wrote, Domain
<1>9. \A o \in At(s) : NextAfter(running[o])' = NextAfter(running[o])
  <2> SUFFICES ASSUME NEW o \in At(s) PROVE NextAfter(running[o])' = NextAfter(running[o])
    OBVIOUS
  <2>1. CASE o = h
    BY <1>1, <1>2, <1>3, <1>4, <2>1 DEF NextAfter
  <2>2. CASE o # h
    BY <1>2, <1>4, <2>2 DEF NextAfter, At
  <2> QED BY <2>1, <2>2
<1>10. IsChain(Wrote(s))'
  BY <1>5, <1>7, <1>8 DEF IsChain, OneChain
<1>11. Under({lastEventId[s]})' = Under({lastEventId[s]})
  BY <1>2, <1>7 DEF Under
<1>12. \A o \in At(s) : Under(NextAfter(running[o]))' = Under(NextAfter(running[o]))
  BY <1>7, <1>9 DEF Under
<1> HIDE DEF At, Wrote
<1> QED BY <1>5, <1>6, <1>8, <1>10, <1>11, <1>12 DEF OneChain

\* A chain stays one when what is put at its end has all of it behind.
LEMMA ChainGrows ==
  ASSUME BaseInv, BaseInv', ForkInv, NEW h \in Handlers, running[h] # Idle,
         running[h].kind # "importing", NEW r \in Replicas \ forked, r = running[h].at,
         NEW id, Insert(r, running[h].event, id)
  PROVE  /\ id \notin DOMAIN content /\ id \in DOMAIN content'
         /\ IsChain(Wrote(r))'
         /\ Wrote(r)' = Wrote(r) \cup {id}
         /\ Wrote(r)' \subseteq Under({id})'
         /\ At(r) = {h}
<1> DEFINE e == running[h].event
<1>1. /\ e \in Event(Payload) /\ e.payload.domain = r /\ e.parents \subseteq dag[r]
  BY OldCall
<1>2. HashIs(e, id)
  BY DEF Insert
<1>3. OneChain(r) /\ h \in At(r)
  BY <1>1 DEF ForkInv, At
<1>4. Wrote(r) \subseteq Under(e.parents) /\ IsChain(Wrote(r)) /\ At(r) = {h}
  BY <1>3 DEF OneChain, NextAfter
<1>5. /\ id \in Ids /\ DOMAIN content' = DOMAIN content \cup {id}
      /\ \A i \in DOMAIN content : content'[i] = content[i]
      /\ content'[id] = e
  BY <1>2, HashFacts, BaseFields
<1> HIDE DEF e
<1>6. id \notin DOMAIN content
  <2> SUFFICES ASSUME id \in DOMAIN content PROVE FALSE
    OBVIOUS
  <2>1. Parents(id) = e.parents /\ id \in Wrote(r)
    BY <1>1, <1>5 DEF Parents, Wrote, Domain
  <2>2. Ancestors[id] = Under(e.parents)
    BY <2>1, AncestorsUnder, BaseFields
  <2> QED BY <1>4, <2>1, <2>2, AncestorsIrreflexive, BaseFields
<1>7. DagInv /\ DagInv'
  BY BaseFields DEF BaseInv
<1>8. \A i \in DOMAIN content : Ancestors'[i] = Ancestors[i]
  BY <1>2, <1>7, AncestorsStay
<1>9. Ancestors'[id] = Under(e.parents)
  <2>1. e.parents \in SUBSET DOMAIN content
    BY <1>1, <1>7 DEF DagInv
  <2>2. Parents(id)' = e.parents
    BY <1>5 DEF Parents
  <2>3. Ancestors'[id] = Under(Parents(id))'
    BY <1>5, <1>7, AncestorsUnderNext
  <2>4. Under(Parents(id))' = Under(e.parents)
    BY <1>8, <2>1, <2>2 DEF Under
  <2> QED BY <2>3, <2>4
<1>10. Wrote(r)' = Wrote(r) \cup {id}
  BY <1>1, <1>5, <1>6 DEF Wrote, Domain
<1>11. IsChain(Wrote(r))'
  <2>1. Wrote(r) \subseteq DOMAIN content
    BY DEF Wrote
  <2>2. \A d, e0 \in Wrote(r) : d = e0 \/ d \in Ancestors'[e0] \/ e0 \in Ancestors'[d]
    BY <1>4, <1>8, <2>1 DEF IsChain
  <2>3. \A d \in Wrote(r) : d \in Ancestors'[id]
    BY <1>4, <1>9
  <2>4. \A d, e0 \in Wrote(r) \cup {id} : d = e0 \/ d \in Ancestors'[e0] \/ e0 \in Ancestors'[d]
    BY <2>2, <2>3
  <2> HIDE DEF Wrote
  <2> QED BY <1>10, <2>4 DEF IsChain
<1>12. Wrote(r)' \subseteq Under({id})'
  BY <1>4, <1>9, <1>10 DEF Under
<1> QED BY <1>4, <1>5, <1>6, <1>10, <1>11, <1>12

LEMMA GoesOnChain ==
  ASSUME BaseInv, BaseInv', ForkInv, NEW h \in Handlers, NEW id, NEW c, GoesOnAs(h, id, c)
  PROVE  ForkInv'
<1> DEFINE old == running[h]
           r == old.at
<1>1. /\ old # Idle /\ old.kind # "importing" /\ Insert(r, old.event, id) /\ c \in Call
      /\ running' = [running EXCEPT ![h] = c] /\ forked' = forked
      /\ lastEventId' = IF old.kind = "issue" THEN lastEventId ELSE [lastEventId EXCEPT ![r] = id]
      /\ c # Idle => c.at = r
  BY DEF GoesOnAs
<1>2. /\ r \in Replicas /\ old.event \in Event(Payload) /\ old.event.payload.domain = r
  BY <1>1, OldCall
<1>3. running'[h] = c /\ \A o \in Handlers \ {h} : running'[o] = running[o]
  BY <1>1, BaseFields
<1>4. HashIs(old.event, id) /\ DagInv /\ DagInv'
  BY <1>1, BaseFields DEF Insert, BaseInv
<1>5. lastEventId \in [Replicas -> Ids]
  BY DEF BaseInv, TypeOK
<1>6. c # Idle => IF c.kind = "importing" THEN lastEventId'[r] = id ELSE c.event.parents = {id}
  <2>1. old.kind = "cadence" /\ c # Idle => c.kind = "importing"
    BY DEF GoesOnAs
  <2>2. old.kind # "cadence" /\ c # Idle => c.kind # "importing" /\ c.event.parents = {id}
    BY DEF GoesOnAs, Started
  <2> QED BY <1>1, <1>2, <1>5, <2>1, <2>2
<1>7. c = Idle => lastEventId'[r] = id
  BY <1>1, <1>2, <1>5 DEF GoesOnAs
<1> HIDE DEF r, old
<1> SUFFICES ASSUME NEW s \in Replicas, s \notin forked' PROVE OneChain(s)'
  BY DEF ForkInv
<1>8. OneChain(s) /\ s \notin forked
  BY <1>1 DEF ForkInv
<1>9. CASE s # r
  <2>1. At(s)' = At(s) /\ \A o \in At(s) : running'[o] = running[o]
    BY <1>1, <1>3, <1>9 DEF At, r, old
  <2>2. lastEventId'[s] = lastEventId[s]
    BY <1>1, <1>2, <1>5, <1>9
  <2>3. /\ DOMAIN content' = DOMAIN content \cup {id} /\ id \in DOMAIN content'
        /\ \A i \in DOMAIN content : content'[i] = content[i]
        /\ content'[id] = old.event
    BY <1>4, HashFacts
  <2>4. Wrote(s)' = Wrote(s)
    BY <1>2, <1>9, <2>3 DEF Wrote, Domain
  <2>5. \A i \in DOMAIN content : Ancestors'[i] = Ancestors[i]
    BY <1>4, AncestorsStay
  <2>6. IsChain(Wrote(s))'
    <3>1. Wrote(s) \subseteq DOMAIN content
      BY DEF Wrote
    <3>2. \A d, e \in Wrote(s) : d = e \/ d \in Ancestors'[e] \/ e \in Ancestors'[d]
      BY <1>8, <2>5, <3>1 DEF OneChain, IsChain
    <3> HIDE DEF Wrote
    <3> QED BY <2>4, <3>2 DEF IsChain
  <2>7. Under({lastEventId[s]})' = Under({lastEventId[s]})
    <3>1. lastEventId[s] \in DOMAIN content
      BY BaseFields DEF DagInv
    <3> QED BY <2>2, <2>5, <3>1 DEF Under
  <2>8. \A o \in At(s) : Under(NextAfter(running[o]))' = Under(NextAfter(running[o]))
    <3> SUFFICES ASSUME NEW o \in At(s) PROVE Under(NextAfter(running[o]))' = Under(NextAfter(running[o]))
      OBVIOUS
    <3>1. running'[o] = running[o] /\ running[o] # Idle /\ running[o].at = s /\ o \in Handlers
      BY <2>1 DEF At
    <3>2. NextAfter(running[o])' = NextAfter(running[o])
      BY <2>2, <3>1 DEF NextAfter
    <3>3. NextAfter(running[o]) \subseteq DOMAIN content
      <4>1. dag[s] \subseteq DOMAIN content /\ lastEventId[s] \in dag[s]
        BY BaseFields DEF DagInv
      <4>2. running[o].event.parents \subseteq dag[s]
        BY <3>1, OldCall
      <4> QED BY <3>1, <4>1, <4>2 DEF NextAfter
    <3> QED BY <2>5, <3>2, <3>3 DEF Under
  <2> HIDE DEF At, Wrote
  <2> QED BY <1>8, <2>1, <2>4, <2>6, <2>7, <2>8 DEF OneChain
<1>10. CASE s = r
  <2>1. /\ IsChain(Wrote(s))' /\ Wrote(s)' \subseteq Under({id})' /\ At(s) = {h}
    BY <1>1, <1>8, <1>10, ChainGrows DEF r, old
  <2>2. At(s)' = IF c = Idle THEN {} ELSE {h}
    <3>1. \A o \in Handlers \ {h} : o \notin At(s)
      BY <2>1
    <3> QED BY <1>1, <1>3, <1>10, <3>1 DEF At
  <2>3. CASE c = Idle
    <3>1. Under({lastEventId[s]})' = Under({id})'
      BY <1>7, <1>10, <2>3 DEF Under
    <3> HIDE DEF At, Wrote
    <3> QED BY <1>10, <2>1, <2>2, <2>3, <3>1 DEF OneChain
  <2>4. CASE c # Idle
    <3>1. NextAfter(running[h])' = {id}
      BY <1>1, <1>3, <1>6, <2>4 DEF NextAfter
    <3>2. Under(NextAfter(running[h]))' = Under({id})'
      BY <3>1 DEF Under
    <3> HIDE DEF At, Wrote
    <3> QED BY <1>10, <2>1, <2>2, <2>4, <3>2 DEF OneChain
  <2> QED BY <2>3, <2>4
<1> QED BY <1>9, <1>10

\* A reload takes the end of the whole order, which is the domain's own if all of it is.
LEMMA ReloadChain ==
  ASSUME BaseInv, BaseInv', ForkInv, NEW r \in Replicas, Reload(r)
  PROVE  ForkInv'
<1> DEFINE order == TopoOrder(r)
           n == Len(order)
<1>1. /\ content' = content
      /\ lastEventId' = [lastEventId EXCEPT ![r] = Last(order)]
      /\ running' = [h \in Handlers |-> IF running[h] # Idle /\ running[h].at = r THEN Idle
                                        ELSE running[h]]
      /\ forked' = IF \E id \in dag[r] : Domain(id) # r THEN forked \cup {r} ELSE forked
  BY DEF Reload, RestoreTips, dagVars
<1>2. lastEventId \in [Replicas -> Ids]
  BY DEF BaseInv, TypeOK
<1> SUFFICES ASSUME NEW s \in Replicas, s \notin forked' PROVE OneChain(s)'
  BY DEF ForkInv
<1>3. OneChain(s)
  BY <1>1 DEF ForkInv
<1>4. CASE s # r
  <2>1. At(s)' = At(s) /\ \A o \in At(s) : running'[o] = running[o]
    BY <1>1, <1>4 DEF At
  <2>2. lastEventId'[s] = lastEventId[s]
    BY <1>1, <1>2, <1>4
  <2> QED BY <1>1, <1>3, <2>1, <2>2, ChainSame
<1>5. CASE s = r
  <2>1. At(r)' = {}
    BY <1>1 DEF At
  <2>2. \A id \in dag[r] : Domain(id) = r
    BY <1>1, <1>5
  <2>3. Wrote(r) = dag[r]
    BY <2>2, WroteIsOwn DEF Own
  <2>4. /\ n \in Nat /\ n > 0 /\ order \in [1 .. n -> dag[r]]
        /\ \A id \in dag[r] : \E i \in 1 .. n : order[i] = id
        /\ \A i, j \in 1 .. n : order[i] = order[j] => i = j
    BY Views, TopoOrderInOrder, BaseFields
  <2>5. Last(order) = order[n]
    BY DEF Last
  <2>6. \A a \in Ancestors[order[n]] : \E j \in 1 .. (n - 1) : order[j] = a
    <3>1. n \in 1 .. n
      BY <2>4
    <3> QED BY <3>1, AncestorsEarlier, BaseFields
  <2>7. \A i \in 1 .. n : \A a \in Ancestors[order[i]] : \E j \in 1 .. (i - 1) : order[j] = a
    BY AncestorsEarlier, BaseFields
  <2> HIDE DEF order, n
  <2>8. Wrote(r) \subseteq Under({order[n]})
    <3> SUFFICES ASSUME NEW id \in dag[r], id # order[n] PROVE id \in Ancestors[order[n]]
      BY <2>3 DEF Under
    <3>1. PICK i \in 1 .. n : order[i] = id
      BY <2>4
    <3>2. order[n] \in dag[r]
      BY <2>4
    <3>3. id \in Ancestors[order[n]] \/ order[n] \in Ancestors[id]
      BY <1>3, <1>5, <2>3, <3>2 DEF OneChain, IsChain
    <3>4. ASSUME order[n] \in Ancestors[id] PROVE FALSE
      <4>1. PICK j \in 1 .. (i - 1) : order[j] = order[n]
        BY <2>7, <3>1, <3>4
      <4> QED BY <2>4, <3>1, <4>1
    <3> QED BY <3>3, <3>4
  <2>9. Ancestors' = Ancestors
    BY <1>1, AncestorsSame
  <2>10. Wrote(r)' = Wrote(r)
    BY <1>1 DEF Wrote, Domain
  <2>11. IsChain(Wrote(r))'
    BY <1>3, <1>5, <2>9, <2>10 DEF OneChain, IsChain
  <2>12. Under({lastEventId[r]})' = Under({order[n]})
    BY <1>1, <1>2, <2>5, <2>9 DEF Under
  <2> HIDE DEF At, Wrote
  <2> QED BY <1>5, <2>1, <2>8, <2>10, <2>11, <2>12 DEF OneChain
<1> QED BY <1>4, <1>5

\* Steps that touch neither the events, nor the tips, nor the handlers.
LEMMA IdleChain ==
  ASSUME BaseInv, ForkInv, UNCHANGED <<content, lastEventId, running, forked>>
  PROVE  ForkInv'
<1> SUFFICES ASSUME NEW s \in Replicas, s \notin forked' PROVE OneChain(s)'
  BY DEF ForkInv
<1>1. OneChain(s)
  BY DEF ForkInv
<1>2. At(s)' = At(s)
  BY DEF At
<1> QED BY <1>1, <1>2, ChainSame

LEMMA InitChain == Init => ForkInv
<1> SUFFICES ASSUME Init, NEW r \in Replicas PROVE OneChain(r)
  BY DEF ForkInv
<1>1. PICK id \in [Replicas -> Ids] :
        /\ IsInjective(id)
        /\ content = [i \in Range(id) |-> [parents |-> {}, payload |->
                         Genesis(CHOOSE q \in Replicas : id[q] = i)]]
        /\ lastEventId = id
  BY DEF Init
<1>2. At(r) = {}
  BY DEF Init, At
<1>3. Wrote(r) = {id[r]}
  <2>1. ASSUME NEW q \in Replicas PROVE id[q] \in DOMAIN content /\ Domain(id[q]) = q
    <3>1. id[q] \in Range(id)
      BY DEF Range
    <3> DEFINE p == CHOOSE x \in Replicas : id[x] = id[q]
    <3>2. p \in Replicas /\ id[p] = id[q]
      OBVIOUS
    <3>3. content[id[q]] = [parents |-> {}, payload |-> Genesis(p)]
      BY <1>1, <3>1
    <3> HIDE DEF p
    <3>4. p = q
      BY <1>1, <3>2 DEF IsInjective
    <3> QED BY <1>1, <3>1, <3>3, <3>4 DEF Domain, Genesis
  <2>2. \A i \in DOMAIN content : \E q \in Replicas : i = id[q]
    BY <1>1 DEF Range
  <2> QED BY <2>1, <2>2 DEF Wrote
<1>4. IsChain({id[r]})
  BY DEF IsChain
<1> QED BY <1>1, <1>2, <1>3, <1>4 DEF OneChain, Under

LEMMA ForkStep == BaseInv /\ BaseInv' /\ ForkInv /\ [Next]_vars => ForkInv'
<1> SUFFICES ASSUME BaseInv, BaseInv', ForkInv, [Next]_vars PROVE ForkInv'
  OBVIOUS
<1>1. CASE Next
  <2>1. Active \subseteq Replicas
    BY LedgerAssumption
  <2>2. ASSUME NEW r \in Replicas, Commit(r) PROVE ForkInv'
    BY <2>2, IdleChain DEF Commit, dagVars, tips
  <2>3. ASSUME NEW r \in Replicas, NEW s \in Replicas, Sync(r, s) PROVE ForkInv'
    BY <2>3, SyncBase, IdleChain DEF tips
  <2> QED BY <1>1, <2>1, <2>2, <2>3, StepIs, BeginsChain, GoesOnChain, ReceptionStartsChain, ReloadChain
<1>2. CASE UNCHANGED vars
  BY <1>2, IdleChain DEF vars
<1> QED BY <1>1, <1>2

LEMMA ForkInvariance == Spec => [](BaseInv /\ ForkInv)
<1>1. Init => BaseInv /\ ForkInv
  BY InitBase, InitChain
<1>2. (BaseInv /\ ForkInv) /\ [Next]_vars => (BaseInv /\ ForkInv)'
  BY BaseStep, ForkStep
<1> QED BY <1>1, <1>2, PTL DEF Spec

(* "This domain's own history is a single chain in practice": it is, and   *)
(* the tip its handlers write after is its end, as long as two handlers of *)
(* it were never in progress at once, and no reload took the tips from a   *)
(* DAG with other domains' events; whatever is merged in between.          *)
THEOREM HistoryIsChain == Spec => []ForkNeedsOverlap
<1>1. BaseInv /\ ForkInv => ForkNeedsOverlap
  <2> SUFFICES ASSUME BaseInv, ForkInv, NEW r \in Replicas, r \notin forked
               PROVE  /\ IsChain(Own(r))
                      /\ ~Busy(r) => Own(r) \subseteq Ancestors[lastEventId[r]] \cup {lastEventId[r]}
    BY DEF ForkNeedsOverlap
  <2>1. OneChain(r) /\ Wrote(r) = Own(r)
    BY WroteIsOwn DEF ForkInv
  <2>2. ~Busy(r) => At(r) = {}
    BY DEF Busy, At
  <2> QED BY <2>1, <2>2 DEF OneChain, Under
<1> QED BY ForkInvariance, <1>1, PTL

-----------------------------------------------------------------------------
(* What an event does to a view                                            *)

\* Two views agree on the domain r.
Agree(f, g, r) ==
  /\ f.epoch[r] = g.epoch[r] /\ f.last[r] = g.last[r]
  /\ f.balance[r] = g.balance[r] /\ f.used[r] = g.used[r]

\* It is rejected, or only its domain is affected.
LEMMA ApplyElsewhere ==
  ASSUME DagTypeOK(Payload), NEW id \in DOMAIN content, NEW g \in GState
  PROVE  /\ ApplyG(g, id).rejected \subseteq g.rejected \cup {id}
         /\ \A r \in Replicas \ {Domain(id)} : Agree(ApplyG(g, id), g, r)
<1> DEFINE q == Domain(id)
<1>1. q \in Replicas
  BY ContentFields
<1>2. Reject(g, id) = [g EXCEPT !.rejected = g.rejected \cup {id}]
  BY DEF Reject
<1>3. CASE Type(id) = "cadence"
  <2> DEFINE n == content[id].payload.epoch
  <2>1. ApplyG(g, id) = [g EXCEPT !.epoch[q] = n, !.last[q] = id] \/ ApplyG(g, id) = Reject(g, id)
    BY <1>3 DEF ApplyG, ApplyCadence, Domain
  <2> HIDE DEF n
  <2>2. CASE ApplyG(g, id) = Reject(g, id)
    BY <1>2, <2>2 DEF Agree, GState
  <2>3. CASE ApplyG(g, id) = [g EXCEPT !.epoch[q] = n, !.last[q] = id]
    <3>1. /\ ApplyG(g, id).epoch = [g.epoch EXCEPT ![q] = n]
          /\ ApplyG(g, id).last = [g.last EXCEPT ![q] = id]
          /\ ApplyG(g, id).balance = g.balance /\ ApplyG(g, id).used = g.used
          /\ ApplyG(g, id).rejected = g.rejected
      <4> HIDE DEF q
      <4> QED BY <2>3 DEF GState
    <3> HIDE DEF q
    <3> QED BY <1>1, <3>1 DEF Agree, GState, q
  <2> QED BY <2>1, <2>2, <2>3
<1>4. CASE Type(id) = "accrual"
  <2> DEFINE e == content[id].payload
             left == Budget - g.used[e.domain]
             issued == IF Earned(g, e) < left THEN Earned(g, e) ELSE left
  <2>1. ApplyG(g, id) = [g EXCEPT !.balance[q] = g.balance[q] + issued, !.used[q] = g.used[q] + issued]
    BY <1>4 DEF ApplyG, ApplyAccrual, Domain
  <2> HIDE DEF q, issued
  <2> QED BY <1>1, <2>1 DEF Agree, GState, q
<1>5. CASE Type(id) = "claim-issue"
  <2> DEFINE a == content[id].payload.amount
  <2>1. ApplyG(g, id) = [g EXCEPT !.balance[q] = g.balance[q] - a] \/ ApplyG(g, id) = Reject(g, id)
    BY <1>5 DEF ApplyG, ApplyClaimIssue, Domain
  <2> HIDE DEF q, a
  <2> QED BY <1>1, <1>2, <2>1 DEF Agree, GState, q
<1>6. CASE Type(id) \notin {"cadence", "accrual", "claim-issue"}
  BY <1>6 DEF ApplyG, Agree
<1> QED BY <1>3, <1>4, <1>5, <1>6

\* Only cadence changes epochs.
LEMMA ApplyNoCadence ==
  ASSUME DagTypeOK(Payload), NEW id \in DOMAIN content, NEW g \in GState, Type(id) # "cadence"
  PROVE  ApplyG(g, id).epoch = g.epoch /\ ApplyG(g, id).last = g.last
<1> DEFINE q == Domain(id)
<1>1. CASE Type(id) = "accrual"
  <2> DEFINE e == content[id].payload
             left == Budget - g.used[e.domain]
             issued == IF Earned(g, e) < left THEN Earned(g, e) ELSE left
  <2>1. ApplyG(g, id) = [g EXCEPT !.balance[q] = g.balance[q] + issued, !.used[q] = g.used[q] + issued]
    BY <1>1 DEF ApplyG, ApplyAccrual, Domain
  <2> HIDE DEF q, issued
  <2> QED BY <2>1 DEF GState
<1>2. CASE Type(id) = "claim-issue"
  <2> DEFINE a == content[id].payload.amount
  <2>1. ApplyG(g, id) = [g EXCEPT !.balance[q] = g.balance[q] - a] \/ ApplyG(g, id) = Reject(g, id)
    BY <1>2 DEF ApplyG, ApplyClaimIssue, Domain
  <2> HIDE DEF q, a
  <2> QED BY <2>1 DEF GState, Reject
<1>3. CASE Type(id) \notin {"accrual", "claim-issue"}
  BY <1>3 DEF ApplyG
<1> QED BY <1>1, <1>2, <1>3

\* A cadence event that is the next one, and chained to the last one, is accepted.
LEMMA ApplyNext ==
  ASSUME DagTypeOK(Payload), NEW id \in DOMAIN content, NEW g \in GState, NEW r, r = Domain(id),
         Type(id) = "cadence", content[id].payload.epoch = g.epoch[r] + 1,
         g.last[r] = NoEvent \/ g.last[r] \in Parents(id)
  PROVE  /\ ApplyG(g, id).epoch[r] = g.epoch[r] + 1 /\ ApplyG(g, id).last[r] = id
         /\ ApplyG(g, id).rejected = g.rejected
<1> DEFINE n == content[id].payload.epoch
<1>1. r \in Replicas
  BY ContentFields
<1>2. ApplyG(g, id) = [g EXCEPT !.epoch[r] = n, !.last[r] = id]
  BY DEF ApplyG, ApplyCadence, Domain
<1>3. n = g.epoch[r] + 1
  OBVIOUS
<1> HIDE DEF n
<1> QED BY <1>1, <1>2, <1>3 DEF GState

-----------------------------------------------------------------------------
(* A domain's cadence                                                      *)

Epoch(id) == content[id].payload.epoch
Cads(r) == {id \in Wrote(r) : Type(id) = "cadence"}
Calling(r) == {h \in At(r) : running[h].kind = "cadence"}

\* One event per epoch, each naming the one of the epoch before as a parent.
CadenceChain(r) ==
  /\ \A c \in Cads(r) : Epoch(c) > 0
  /\ \A c, d \in Cads(r) : Epoch(c) = Epoch(d) => c = d
  /\ \A c \in Cads(r) : Epoch(c) > 1 => \E d \in Cads(r) \cap Parents(c) : Epoch(d) + 1 = Epoch(c)

\* id is r's cadence event of epoch n, or nothing if n is 0.
IsCadence(r, id, n) == IF n = 0 THEN id = NoEvent ELSE id \in Cads(r) /\ Epoch(id) = n

\* The tips are its end.
CadenceTip(r) ==
  /\ IsCadence(r, lastCadenceId[r], epoch[r])
  /\ \A c \in Cads(r) : Epoch(c) <= epoch[r]

IsNext(r, e) == e.payload.epoch = epoch[r] + 1 /\ (epoch[r] = 0 \/ lastCadenceId[r] \in e.parents)

(* The calls in progress are all adding one event: the next one, or the    *)
(* last one once more.                                                     *)
CadenceCalls(r) ==
  /\ \A h, o \in Calling(r) : running[h].event = running[o].event
  /\ \A h \in Calling(r) : \/ IsNext(r, running[h].event)
                           \/ epoch[r] # 0 /\ running[h].event = content[lastCadenceId[r]]

CadenceInv == \A r \in Replicas \ raced : CadenceChain(r) /\ CadenceTip(r) /\ CadenceCalls(r)

\* A view of the events S has the cadence of r among them, and no more.
CadenceSoFar(r, g, S) ==
  /\ \A c \in Cads(r) : c \in S <=> Epoch(c) <= g.epoch[r]
  /\ IsCadence(r, g.last[r], g.epoch[r])
  /\ g.rejected \cap Cads(r) = {}

LEMMA CadenceSoFarStep ==
  ASSUME BaseInv, NEW r \in Replicas, CadenceChain(r), NEW g \in GState, NEW S,
         NEW id \in DOMAIN content, id \notin S, Parents(id) \subseteq S, CadenceSoFar(r, g, S)
  PROVE  CadenceSoFar(r, ApplyG(g, id), S \cup {id})
<1> DEFINE f == ApplyG(g, id)
<1>0. DagTypeOK(Payload) /\ f \in GState
  BY BaseFields, ApplyGType
<1>1. \A c \in Cads(r) : Epoch(c) \in Nat /\ c \in DOMAIN content
  BY <1>0, ContentFields DEF Cads, Wrote, Epoch
<1>2. g.epoch[r] \in Nat
  BY DEF GState
<1>3. CASE id \in Cads(r)
  <2>1. Domain(id) = r /\ Type(id) = "cadence" /\ Epoch(id) > g.epoch[r]
    BY <1>1, <1>2, <1>3 DEF Cads, Wrote, CadenceSoFar
  <2>2. Epoch(id) = g.epoch[r] + 1 /\ (g.epoch[r] = 0 \/ g.last[r] \in Parents(id))
    <3>1. CASE Epoch(id) > 1
      <4>1. PICK d \in Cads(r) \cap Parents(id) : Epoch(d) + 1 = Epoch(id)
        BY <1>3, <3>1 DEF CadenceChain
      <4>2. d \in S /\ Epoch(d) <= g.epoch[r]
        BY <4>1 DEF CadenceSoFar
      <4>3. Epoch(d) = g.epoch[r] /\ g.epoch[r] # 0
        BY <1>1, <1>2, <1>3, <2>1, <3>1, <4>1, <4>2
      <4>4. g.last[r] = d
        BY <4>1, <4>3 DEF CadenceChain, CadenceSoFar, IsCadence
      <4> QED BY <4>1, <4>3, <4>4
    <3>2. CASE ~(Epoch(id) > 1)
      BY <1>1, <1>2, <1>3, <2>1, <3>2
    <3> QED BY <3>1, <3>2
  <2>3. g.last[r] = NoEvent \/ g.last[r] \in Parents(id)
    BY <2>2 DEF CadenceSoFar, IsCadence
  <2>4. f.epoch[r] = g.epoch[r] + 1 /\ f.last[r] = id /\ f.rejected = g.rejected
    BY <1>0, <2>1, <2>2, <2>3, ApplyNext DEF Epoch
  <2>5. ASSUME NEW c \in Cads(r) PROVE c \in S \cup {id} <=> Epoch(c) <= f.epoch[r]
    <3>1. c = id <=> Epoch(c) = g.epoch[r] + 1
      BY <1>3, <2>2 DEF CadenceChain
    <3> QED BY <1>1, <1>2, <2>4, <3>1 DEF CadenceSoFar
  <2>6. IsCadence(r, f.last[r], f.epoch[r])
    BY <1>2, <1>3, <2>2, <2>4 DEF IsCadence
  <2> HIDE DEF f
  <2> QED BY <2>4, <2>5, <2>6 DEF CadenceSoFar, f
<1>4. CASE id \notin Cads(r)
  <2>1. f.rejected \subseteq g.rejected \cup {id}
    BY <1>0, ApplyElsewhere
  <2>2. f.epoch[r] = g.epoch[r] /\ f.last[r] = g.last[r]
    <3>1. CASE Domain(id) # r
      BY <1>0, <3>1, ApplyElsewhere DEF Agree
    <3>2. CASE Domain(id) = r
      <4>1. Type(id) # "cadence"
        BY <1>4, <3>2 DEF Cads, Wrote
      <4> QED BY <1>0, <4>1, ApplyNoCadence
    <3> QED BY <3>1, <3>2
  <2> HIDE DEF f
  <2> QED BY <1>4, <2>1, <2>2 DEF CadenceSoFar, f
<1> QED BY <1>3, <1>4

\* The first n events of an order.
First(order, n) == {order[i] : i \in 1 .. n}

LEMMA FirstNext ==
  ASSUME NEW order, NEW n \in Nat PROVE First(order, n + 1) = First(order, n) \cup {order[n + 1]}
<1>1. 1 .. (n + 1) = (1 .. n) \cup {n + 1}
  OBVIOUS
<1> QED BY <1>1 DEF First

\* One event at a time along a replica's order, each new, its parents there.
LEMMA Along ==
  ASSUME BaseInv, NEW s \in Replicas
  PROVE  LET order == TopoOrder(s)
             n == Len(order)
             g == GAlong(order)
         IN  /\ n \in Nat /\ g[0] = InitialG /\ First(order, 0) = {} /\ First(order, n) = dag[s]
             /\ MaterializeG(s) = g[n]
             /\ \A i \in 0 .. n : g[i] \in GState
             /\ \A i \in 1 .. n :
                  /\ g[i] = ApplyG(g[i - 1], order[i])
                  /\ order[i] \in DOMAIN content /\ order[i] \in dag[s]
                  /\ order[i] \notin First(order, i - 1)
                  /\ Parents(order[i]) \subseteq First(order, i - 1)
                  /\ Ancestors[order[i]] \subseteq First(order, i - 1)
                  /\ First(order, i) = First(order, i - 1) \cup {order[i]}
<1> DEFINE order == TopoOrder(s)
           n == Len(order)
           g == GAlong(order)
<1>1. /\ order \in [1 .. n -> dag[s]] /\ n \in Nat
      /\ \A id \in dag[s] : \E i \in 1 .. n : order[i] = id
      /\ \A i, j \in 1 .. n : order[i] = order[j] => i = j
      /\ \A i \in 1 .. n : \A p \in Parents(order[i]) : \E j \in 1 .. (i - 1) : order[j] = p
  BY BaseFields, TopoOrderInOrder
<1>2. MaterializeG(s) = g[n] /\ \A i \in 1 .. n : order[i] \in DOMAIN content
  BY Views
<1>3. \A i \in 1 .. n : \A a \in Ancestors[order[i]] : \E j \in 1 .. (i - 1) : order[j] = a
  BY BaseFields, AncestorsEarlier
<1>4. /\ g \in [0 .. n -> GState] /\ g[0] = InitialG
      /\ \A i \in 1 .. n : g[i] = ApplyG(g[i - 1], order[i])
  <2> HIDE DEF order
  <2> QED BY <1>1, <1>2, BaseFields, GAlongIs
<1> HIDE DEF order, n, g
<1>5. First(order, 0) = {} /\ First(order, n) = dag[s]
  BY <1>1 DEF First
<1>6. ASSUME NEW i \in 1 .. n
      PROVE  /\ order[i] \in dag[s] /\ order[i] \notin First(order, i - 1)
             /\ Parents(order[i]) \subseteq First(order, i - 1)
             /\ Ancestors[order[i]] \subseteq First(order, i - 1)
             /\ First(order, i) = First(order, i - 1) \cup {order[i]}
  <2>1. order[i] \notin First(order, i - 1)
    BY <1>1 DEF First
  <2>2. i - 1 \in Nat /\ (i - 1) + 1 = i
    BY <1>1
  <2>3. First(order, i) = First(order, i - 1) \cup {order[i]}
    BY <2>2, FirstNext
  <2> QED BY <1>1, <1>3, <2>1, <2>3 DEF First
<1> QED BY <1>1, <1>2, <1>4, <1>5, <1>6 DEF order, n, g

\* Every replica's view has all cadence of r among the events it knows.
LEMMA CadenceViewed ==
  ASSUME BaseInv, NEW r \in Replicas, CadenceChain(r), NEW s \in Replicas
  PROVE  CadenceSoFar(r, MaterializeG(s), dag[s])
<1> DEFINE order == TopoOrder(s)
           n == Len(order)
           g == GAlong(order)
           P(i) == CadenceSoFar(r, g[i], First(order, i))
           T == {i \in 0 .. n : P(i)}
<1>1. n \in Nat /\ MaterializeG(s) = g[n] /\ First(order, n) = dag[s]
  BY Along
<1>2. 0 \in T
  <2>1. g[0] = InitialG /\ First(order, 0) = {}
    BY Along
  <2>2. \A c \in Cads(r) : Epoch(c) > 0 /\ Epoch(c) \in Nat
    BY BaseFields, ContentFields DEF CadenceChain, Cads, Wrote, Epoch
  <2> HIDE DEF g, order, n
  <2> QED BY <1>1, <2>1, <2>2 DEF CadenceSoFar, IsCadence, InitialG
<1>3. ASSUME NEW i \in 1 .. n, P(i - 1) PROVE P(i)
  <2>1. /\ g[i - 1] \in GState /\ g[i] = ApplyG(g[i - 1], order[i])
        /\ order[i] \in DOMAIN content /\ order[i] \notin First(order, i - 1)
        /\ Parents(order[i]) \subseteq First(order, i - 1)
        /\ First(order, i) = First(order, i - 1) \cup {order[i]}
    <3>1. i - 1 \in 0 .. n
      BY <1>1
    <3> QED BY <3>1, Along
  <2> HIDE DEF order, g, n
  <2> QED BY <1>3, <2>1, CadenceSoFarStep
<1>4. 0 .. n \subseteq T
  <2> HIDE DEF P, n
  <2>1. ASSUME NEW i \in 0 .. (n - 1), i \in T PROVE i + 1 \in T
    <3>1. i + 1 \in 1 .. n /\ (i + 1) - 1 = i
      BY <1>1
    <3>2. P(i)
      BY <2>1
    <3>3. P(i + 1)
      BY <1>3, <3>1, <3>2
    <3> QED BY <3>1, <3>3
  <2> HIDE DEF T
  <2> QED BY <1>1, <1>2, <2>1, Induction
<1>5. P(n)
  BY <1>1, <1>4
<1> QED BY <1>1, <1>5

\* A domain knows all its cadence, so its view of it and its tips agree.
LEMMA TipsAgree ==
  ASSUME BaseInv, NEW r \in Replicas, CadenceChain(r), CadenceTip(r)
  PROVE  MaterializeG(r).epoch[r] = epoch[r] /\ MaterializeG(r).last[r] = lastCadenceId[r]
<1> DEFINE g == MaterializeG(r)
<1>1. CadenceSoFar(r, g, dag[r])
  BY CadenceViewed
<1>2. Cads(r) \subseteq dag[r]
  BY WroteIsOwn DEF Cads, Own
<1>3. g.epoch[r] \in Nat /\ epoch[r] \in Nat
  BY Views, BaseFields DEF GState
<1>4. \A c \in Cads(r) : Epoch(c) \in Nat
  BY BaseFields, ContentFields DEF Cads, Wrote, Epoch
<1> HIDE DEF g
<1>5. epoch[r] <= g.epoch[r]
  <2>1. CASE epoch[r] = 0
    BY <1>3, <2>1
  <2>2. CASE epoch[r] # 0
    <3>1. lastCadenceId[r] \in Cads(r) /\ Epoch(lastCadenceId[r]) = epoch[r]
      BY <2>2 DEF CadenceTip, IsCadence
    <3> QED BY <1>1, <1>2, <3>1 DEF CadenceSoFar
  <2> QED BY <2>1, <2>2
<1>6. g.epoch[r] <= epoch[r]
  <2>1. CASE g.epoch[r] = 0
    BY <1>3, <2>1
  <2>2. CASE g.epoch[r] # 0
    <3>1. g.last[r] \in Cads(r) /\ Epoch(g.last[r]) = g.epoch[r]
      BY <1>1, <2>2 DEF CadenceSoFar, IsCadence
    <3> QED BY <3>1 DEF CadenceTip
  <2> QED BY <2>1, <2>2
<1>7. g.epoch[r] = epoch[r]
  BY <1>3, <1>5, <1>6
<1>8. g.last[r] = lastCadenceId[r]
  BY <1>1, <1>7 DEF CadenceSoFar, CadenceTip, CadenceChain, IsCadence
<1> QED BY <1>7, <1>8 DEF g

LEMMA CadenceChainSame ==
  ASSUME NEW r, content' = content PROVE Cads(r)' = Cads(r) /\ CadenceChain(r)' = CadenceChain(r)
<1>1. Cads(r)' = Cads(r)
  BY DEF Cads, Wrote, Domain, Type
<1>2. \A c : Epoch(c)' = Epoch(c) /\ Parents(c)' = Parents(c)
  BY DEF Epoch, Parents
<1> HIDE DEF Cads, Epoch, Parents
<1>3. CadenceChain(r)' = CadenceChain(r)
  BY <1>1, <1>2 DEF CadenceChain
<1> QED BY <1>1, <1>3

\* Nothing happened to r's cadence; some calls may be gone.
LEMMA CadenceSame ==
  ASSUME NEW r, CadenceChain(r), CadenceTip(r), CadenceCalls(r), content' = content,
         lastCadenceId'[r] = lastCadenceId[r], epoch'[r] = epoch[r],
         Calling(r)' \subseteq Calling(r), \A h \in Calling(r)' : running'[h] = running[h]
  PROVE  CadenceChain(r)' /\ CadenceTip(r)' /\ CadenceCalls(r)'
<1>1. Cads(r)' = Cads(r) /\ CadenceChain(r)'
  BY CadenceChainSame
<1>2. \A c : Epoch(c)' = Epoch(c)
  BY DEF Epoch
<1> HIDE DEF Cads, Epoch, Calling
<1>3. CadenceTip(r)'
  BY <1>1, <1>2 DEF CadenceTip, IsCadence
<1>4. \A h \in Calling(r)' : running'[h].event = running[h].event /\ h \in Calling(r)
  OBVIOUS
<1>5. \A h, o \in Calling(r)' : running'[h].event = running'[o].event
  BY <1>4 DEF CadenceCalls
<1>6. \A h \in Calling(r)' : \/ IsNext(r, running[h].event)
                             \/ epoch[r] # 0 /\ running[h].event = content[lastCadenceId[r]]
  BY <1>4 DEF CadenceCalls
<1>7. \A h \in Calling(r)' : \/ IsNext(r, running[h].event)'
                             \/ epoch'[r] # 0 /\ running'[h].event = content'[lastCadenceId'[r]]
  BY <1>4, <1>6 DEF IsNext
<1>8. CadenceCalls(r)'
  BY <1>5, <1>7 DEF CadenceCalls
<1> QED BY <1>1, <1>3, <1>8

LEMMA BeginsCadence ==
  ASSUME BaseInv, CadenceInv, NEW h \in Handlers, NEW q \in Replicas, NEW c, Begins(h, q, c)
  PROVE  CadenceInv'
<1>1. /\ running[h] = Idle /\ running' = [running EXCEPT ![h] = c]
      /\ c # Idle /\ c.at = q /\ Starts(h, q) /\ UNCHANGED tips
      /\ c.kind = "cadence" =>
           c.event = [parents |-> {IF lastCadenceId[q] = NoEvent THEN genesisId[q] ELSE lastCadenceId[q],
                                   lastEventId[q]},
                      payload |-> Cadence(q, epoch[q] + 1)]
  BY DEF Begins
<1>2. content' = content /\ lastCadenceId' = lastCadenceId /\ epoch' = epoch
  BY <1>1 DEF Starts, dagVars, tips
<1>3. running'[h] = c /\ \A o \in Handlers \ {h} : running'[o] = running[o]
  BY <1>1, BaseFields
<1> SUFFICES ASSUME NEW r \in Replicas, r \notin raced'
             PROVE  CadenceChain(r)' /\ CadenceTip(r)' /\ CadenceCalls(r)'
  BY DEF CadenceInv
<1>4. r \notin raced
  BY <1>1 DEF Starts
<1>5. CadenceChain(r) /\ CadenceTip(r) /\ CadenceCalls(r)
  BY <1>4 DEF CadenceInv
<1>6. CASE ~(r = q /\ c.kind = "cadence")
  <2>1. Calling(r)' = Calling(r) /\ \A o \in Calling(r)' : running'[o] = running[o]
    BY <1>1, <1>3, <1>6 DEF Calling, At
  <2> QED BY <1>2, <1>5, <2>1, CadenceSame
<1>7. CASE r = q /\ c.kind = "cadence"
  <2>1. Cads(r)' = Cads(r) /\ CadenceChain(r)' /\ \A x : Epoch(x)' = Epoch(x)
    BY <1>2, <1>5, CadenceChainSame DEF Epoch
  <2>2. CadenceTip(r)'
    BY <1>2, <1>5, <2>1 DEF CadenceTip, IsCadence
  <2>3. Calling(r)' = Calling(r) \cup {h} /\ h \notin Calling(r)
    BY <1>1, <1>3, <1>7 DEF Calling, At
  <2>4. \A o \in Calling(r) : running[o].event = c.event
    <3> SUFFICES ASSUME NEW o \in Calling(r), running[o].event # c.event PROVE FALSE
      OBVIOUS
    <3> DEFINE others == {x \in Handlers \ {h} : running[x] # Idle /\ running[x].at = q}
               rivals == {x \in others : /\ running[x].kind = "cadence" /\ running'[h].kind = "cadence"
                                         /\ running[x].event # running'[h].event}
    <3>1. o \in rivals
      BY <1>3, <1>7, <2>3 DEF Calling, At
    <3>2. raced' = IF rivals # {} THEN raced \cup {q} ELSE raced
      BY <1>1 DEF Starts
    <3> HIDE DEF rivals
    <3> QED BY <1>7, <3>1, <3>2
  <2>5. IsNext(r, c.event)
    <3>1. c.event.payload.epoch = epoch[r] + 1
      BY <1>1, <1>7 DEF Cadence
    <3>2. ASSUME epoch[r] # 0 PROVE lastCadenceId[r] \in c.event.parents
      <4>1. lastCadenceId[r] \in DOMAIN content
        BY <1>5, <3>2 DEF CadenceTip, IsCadence, Cads, Wrote
      <4>2. lastCadenceId[r] # NoEvent
        BY <4>1, LedgerAssumption, BaseFields, ContentFields
      <4> QED BY <1>1, <1>7, <4>2
    <3> QED BY <3>1, <3>2 DEF IsNext
  <2>6. \A o \in Calling(r)' : running'[o].event = c.event
    BY <1>3, <2>3, <2>4 DEF Calling, At
  <2>7. IsNext(r, c.event)'
    BY <1>2, <2>5 DEF IsNext
  <2>8. CadenceCalls(r)'
    <3>1. \A o \in Calling(r)' : IsNext(r, running[o].event)'
      BY <1>2, <2>6, <2>5 DEF IsNext
    <3> HIDE DEF Calling
    <3> QED BY <2>6, <3>1 DEF CadenceCalls
  <2> QED BY <2>1, <2>2, <2>8
<1> QED BY <1>6, <1>7

\* The next cadence event is added, and is the new end of the chain.
LEMMA NextCadence ==
  ASSUME BaseInv, BaseInv', NEW r \in Replicas, CadenceChain(r), CadenceTip(r),
         NEW e \in Event(Payload), e.payload.domain = r, e.payload.type = "cadence", IsNext(r, e),
         NEW id, HashIs(e, id), lastCadenceId'[r] = id, epoch'[r] = e.payload.epoch
  PROVE  CadenceChain(r)' /\ CadenceTip(r)'
<1>1. /\ id \in Ids /\ DOMAIN content' = DOMAIN content \cup {id}
      /\ \A i \in DOMAIN content : content'[i] = content[i]
      /\ content'[id] = e
  BY HashFacts, BaseFields
<1>2. epoch[r] \in Nat /\ \A c \in Cads(r) : Epoch(c) \in Nat /\ Epoch(c) <= epoch[r]
  BY BaseFields, ContentFields DEF CadenceTip, Cads, Wrote, Epoch
<1>3. id \notin DOMAIN content
  <2> SUFFICES ASSUME id \in DOMAIN content PROVE FALSE
    OBVIOUS
  <2>1. id \in Cads(r) /\ Epoch(id) = epoch[r] + 1
    BY <1>1 DEF Cads, Wrote, Domain, Type, Epoch, IsNext
  <2> QED BY <1>2, <2>1
<1>4. Cads(r)' = Cads(r) \cup {id} /\ id \notin Cads(r)
  BY <1>1, <1>3 DEF Cads, Wrote, Domain, Type
<1>5. \A c \in Cads(r) : Epoch(c)' = Epoch(c) /\ Parents(c)' = Parents(c)
  BY <1>1 DEF Cads, Wrote, Epoch, Parents
<1>6. Epoch(id)' = epoch[r] + 1 /\ Parents(id)' = e.parents /\ epoch'[r] = epoch[r] + 1
  BY <1>1 DEF Epoch, Parents, IsNext
<1>7. CadenceTip(r)'
  <2>1. IsCadence(r, lastCadenceId[r], epoch[r])'
    BY <1>2, <1>4, <1>6 DEF IsCadence
  <2>2. \A c \in Cads(r)' : Epoch(c)' <= epoch'[r]
    BY <1>2, <1>4, <1>5, <1>6
  <2> HIDE DEF Cads, Epoch
  <2> QED BY <2>1, <2>2 DEF CadenceTip
<1>8. CadenceChain(r)'
  <2>1. \A c \in Cads(r)' : Epoch(c)' > 0
    BY <1>2, <1>4, <1>5, <1>6 DEF CadenceChain
  <2>2. \A c, d \in Cads(r)' : Epoch(c)' = Epoch(d)' => c = d
    BY <1>2, <1>4, <1>5, <1>6 DEF CadenceChain
  <2>3. ASSUME NEW c \in Cads(r)', Epoch(c)' > 1
        PROVE  \E d \in (Cads(r) \cap Parents(c))' : Epoch(d)' + 1 = Epoch(c)'
    <3>1. CASE c = id
      <4>1. lastCadenceId[r] \in Cads(r) /\ Epoch(lastCadenceId[r]) = epoch[r] /\ lastCadenceId[r] \in e.parents
        BY <1>2, <1>6, <2>3, <3>1 DEF IsNext, CadenceTip, IsCadence
      <4>2. lastCadenceId[r] \in (Cads(r) \cap Parents(c))'
        BY <1>4, <1>6, <3>1, <4>1
      <4>3. Epoch(lastCadenceId[r]) + 1 = Epoch(c)'
        BY <1>6, <3>1, <4>1
      <4> DEFINE d == lastCadenceId[r]
      <4>4. \A x \in Cads(r) : Epoch(x)' = Epoch(x)
        BY <1>5
      <4> QED BY <4>1, <4>2, <4>3, <4>4
    <3>2. CASE c # id
      <4>1. c \in Cads(r) /\ Epoch(c) > 1
        BY <1>4, <1>5, <2>3, <3>2
      <4>2. PICK d \in Cads(r) \cap Parents(c) : Epoch(d) + 1 = Epoch(c)
        BY <4>1 DEF CadenceChain
      <4>3. d \in (Cads(r) \cap Parents(c))' /\ Epoch(d)' + 1 = Epoch(c)'
        BY <1>4, <1>5, <4>1, <4>2
      <4> QED BY <4>3
    <3> QED BY <3>1, <3>2
  <2> HIDE DEF Cads, Epoch, Parents
  <2> QED BY <2>1, <2>2, <2>3 DEF CadenceChain
<1> QED BY <1>7, <1>8

\* What is added is not cadence of r: r's stays.
LEMMA CadenceElsewhere ==
  ASSUME BaseInv, NEW r \in Replicas, NEW e, NEW id, HashIs(e, id),
         ~(e.payload.domain = r /\ e.payload.type = "cadence")
  PROVE  /\ Cads(r)' = Cads(r) /\ \A c \in Cads(r) : content'[c] = content[c]
         /\ CadenceChain(r) => CadenceChain(r)'
<1>1. /\ DOMAIN content' = DOMAIN content \cup {id}
      /\ \A i \in DOMAIN content : content'[i] = content[i]
      /\ content'[id] = e
  BY HashFacts, BaseFields
<1>2. Cads(r)' = Cads(r)
  BY <1>1 DEF Cads, Wrote, Domain, Type
<1>3. \A c \in Cads(r) : content'[c] = content[c]
  BY <1>1 DEF Cads, Wrote
<1>4. \A c \in Cads(r) : Epoch(c)' = Epoch(c) /\ Parents(c)' = Parents(c)
  BY <1>3 DEF Epoch, Parents
<1> HIDE DEF Cads, Epoch, Parents
<1>5. CadenceChain(r) => CadenceChain(r)'
  BY <1>2, <1>4 DEF CadenceChain
<1> QED BY <1>2, <1>3, <1>5

LEMMA GoesOnCadence ==
  ASSUME BaseInv, BaseInv', CadenceInv, NEW h \in Handlers, NEW id, NEW c, GoesOnAs(h, id, c)
  PROVE  CadenceInv'
<1> DEFINE old == running[h]
           e == old.event
<1>1. /\ old # Idle /\ old.kind # "importing" /\ Insert(old.at, e, id)
      /\ running' = [running EXCEPT ![h] = c] /\ raced' = raced
      /\ IF old.kind = "cadence"
         THEN /\ lastCadenceId' = [lastCadenceId EXCEPT ![old.at] = id]
              /\ epoch' = [epoch EXCEPT ![old.at] = e.payload.epoch]
         ELSE UNCHANGED <<lastCadenceId, epoch>>
      /\ c # Idle => c.at = old.at /\ c.kind # "cadence"
  BY DEF GoesOnAs
<1>2. /\ old.at \in Replicas /\ e \in Event(Payload) /\ e.payload.domain = old.at
      /\ e.payload.type = EventOf[old.kind] /\ HashIs(e, id)
      /\ old.kind \in {"cadence", "importing", "reception", "accrual", "issue", "transfer"}
  BY <1>1, OldCall DEF Insert
<1>3. e.payload.type = "cadence" <=> old.kind = "cadence"
  BY <1>1, <1>2 DEF EventOf
<1>4. running'[h] = c /\ \A o \in Handlers \ {h} : running'[o] = running[o]
  BY <1>1, BaseFields
<1>5. lastCadenceId \in [Replicas -> Ids \cup {NoEvent}] /\ epoch \in [Replicas -> Nat]
  BY DEF BaseInv, TypeOK
<1>6. /\ DOMAIN content' = DOMAIN content \cup {id}
      /\ \A i \in DOMAIN content : content'[i] = content[i]
      /\ content'[id] = e
  BY <1>2, HashFacts, BaseFields
<1> HIDE DEF old, e
<1> SUFFICES ASSUME NEW r \in Replicas, r \notin raced'
             PROVE  CadenceChain(r)' /\ CadenceTip(r)' /\ CadenceCalls(r)'
  BY DEF CadenceInv
<1>7. CadenceChain(r) /\ CadenceTip(r) /\ CadenceCalls(r)
  BY <1>1 DEF CadenceInv
<1>8. Calling(r)' = Calling(r) \ {h} /\ \A o \in Calling(r)' : running'[o] = running[o] /\ o \in Calling(r)
  BY <1>1, <1>4 DEF Calling, At
<1>9. CASE ~(r = old.at /\ old.kind = "cadence")
  <2>1. lastCadenceId'[r] = lastCadenceId[r] /\ epoch'[r] = epoch[r]
    BY <1>1, <1>2, <1>5, <1>9
  <2>2. /\ Cads(r)' = Cads(r) /\ \A x \in Cads(r) : content'[x] = content[x]
        /\ CadenceChain(r)'
    BY <1>2, <1>3, <1>7, <1>9, CadenceElsewhere
  <2>3. \A x \in Cads(r) : Epoch(x)' = Epoch(x)
    BY <2>2 DEF Epoch
  <2>4. CadenceTip(r)'
    BY <1>7, <2>1, <2>2, <2>3 DEF CadenceTip, IsCadence
  <2>5. epoch[r] # 0 => content'[lastCadenceId[r]] = content[lastCadenceId[r]]
    BY <1>7, <2>2 DEF CadenceTip, IsCadence
  <2>6. CadenceCalls(r)'
    <3>1. \A o, x \in Calling(r)' : running'[o].event = running'[x].event
      BY <1>7, <1>8 DEF CadenceCalls
    <3>2. ASSUME NEW o \in Calling(r)'
          PROVE  \/ IsNext(r, running[o].event)'
                 \/ epoch'[r] # 0 /\ running'[o].event = content'[lastCadenceId'[r]]
      <4>1. o \in Calling(r) /\ running'[o] = running[o]
        BY <1>8
      <4>2. \/ IsNext(r, running[o].event)
            \/ epoch[r] # 0 /\ running[o].event = content[lastCadenceId[r]]
        BY <1>7, <4>1 DEF CadenceCalls
      <4>3. IsNext(r, running[o].event) => IsNext(r, running[o].event)'
        BY <2>1, <4>1 DEF IsNext
      <4> QED BY <2>1, <2>5, <4>1, <4>2, <4>3
    <3> HIDE DEF Calling
    <3> QED BY <3>1, <3>2 DEF CadenceCalls
  <2> QED BY <2>2, <2>4, <2>6
<1>10. CASE r = old.at /\ old.kind = "cadence"
  <2>1. lastCadenceId'[r] = id /\ epoch'[r] = e.payload.epoch
    BY <1>1, <1>5, <1>10
  <2>2. h \in Calling(r) /\ \A o \in Calling(r) : running[o].event = e
    BY <1>1, <1>7, <1>10 DEF Calling, At, CadenceCalls, old, e
  <2>3. IsNext(r, e) \/ (epoch[r] # 0 /\ e = content[lastCadenceId[r]])
    BY <1>7, <2>2 DEF CadenceCalls, e, old
  <2>4. CASE IsNext(r, e)
    <3>1. CadenceChain(r)' /\ CadenceTip(r)'
      BY <1>2, <1>3, <1>7, <1>10, <2>1, <2>4, NextCadence
    <3>2. epoch'[r] # 0
      BY <1>5, <2>1, <2>4 DEF IsNext
    <3>3. \A o \in Calling(r)' : running'[o].event = content'[lastCadenceId'[r]]
      BY <1>6, <1>8, <2>1, <2>2
    <3>4. CadenceCalls(r)'
      <4> HIDE DEF Calling
      <4> QED BY <3>2, <3>3 DEF CadenceCalls
    <3> QED BY <3>1, <3>4
  <2>5. CASE epoch[r] # 0 /\ e = content[lastCadenceId[r]]
    <3>1. lastCadenceId[r] \in Cads(r) /\ Epoch(lastCadenceId[r]) = epoch[r] /\ lastCadenceId[r] \in DOMAIN content
      BY <1>7, <2>5 DEF CadenceTip, IsCadence, Cads, Wrote
    <3>2. id \in DOMAIN content /\ content[id] = e
      BY <1>2, <2>5, <3>1 DEF HashIs
    <3>3. id \in Cads(r) /\ Epoch(id) = epoch[r]
      BY <1>2, <1>3, <1>10, <2>5, <3>1, <3>2 DEF Cads, Wrote, Domain, Type, Epoch
    <3>4. id = lastCadenceId[r]
      BY <1>7, <3>1, <3>3 DEF CadenceChain
    <3>5. lastCadenceId'[r] = lastCadenceId[r] /\ epoch'[r] = epoch[r]
      BY <2>1, <2>5, <3>1, <3>4 DEF Epoch
    <3>6. content' = content
      <4>1. content = [i \in DOMAIN content |-> content[i]]
        BY BaseFields DEF DagTypeOK
      <4>2. content' = [i \in DOMAIN content \cup {id} |->
                          IF i \in DOMAIN content THEN content[i] ELSE e]
        BY <1>2 DEF HashIs
      <4>3. DOMAIN content \cup {id} = DOMAIN content
        BY <3>2
      <4> QED BY <4>1, <4>2, <4>3
    <3>7. Calling(r)' \subseteq Calling(r) /\ \A o \in Calling(r)' : running'[o] = running[o]
      BY <1>8
    <3> QED BY <1>7, <3>5, <3>6, <3>7, CadenceSame
  <2> QED BY <2>3, <2>4, <2>5
<1> QED BY <1>9, <1>10

LEMMA ReceptionStartsCadence ==
  ASSUME BaseInv, CadenceInv, NEW h \in Handlers, ReceptionStarts(h) PROVE CadenceInv'
<1>1. PICK e \in Event(Payload) :
        running' = [running EXCEPT ![h] =
           [kind |-> "reception", at |-> running[h].at, event |-> e, more |-> running[h].more]]
  BY ReceptionStartsBase
<1>2. running[h].kind = "importing" /\ content' = content /\ lastCadenceId' = lastCadenceId
      /\ epoch' = epoch /\ raced' = raced
  BY DEF ReceptionStarts, dagVars, tips
<1>3. running'[h].kind = "reception" /\ \A o \in Handlers \ {h} : running'[o] = running[o]
  BY <1>1, BaseFields
<1> SUFFICES ASSUME NEW r \in Replicas, r \notin raced'
             PROVE  CadenceChain(r)' /\ CadenceTip(r)' /\ CadenceCalls(r)'
  BY DEF CadenceInv
<1>4. CadenceChain(r) /\ CadenceTip(r) /\ CadenceCalls(r)
  BY <1>2 DEF CadenceInv
<1>5. Calling(r)' \subseteq Calling(r) /\ \A o \in Calling(r)' : running'[o] = running[o]
  BY <1>2, <1>3 DEF Calling, At
<1> QED BY <1>2, <1>4, <1>5, CadenceSame

\* What a reload guesses of the cadence is what it was.
LEMMA ReloadCadence ==
  ASSUME BaseInv, CadenceInv, NEW q \in Replicas, Reload(q) PROVE CadenceInv'
<1> DEFINE g == MaterializeG(q)
<1>1. /\ content' = content /\ raced' = raced
      /\ running' = [h \in Handlers |-> IF running[h] # Idle /\ running[h].at = q THEN Idle
                                        ELSE running[h]]
      /\ lastCadenceId' = [lastCadenceId EXCEPT ![q] = g.last[q]]
      /\ epoch' = [epoch EXCEPT ![q] = g.epoch[q]]
  BY DEF Reload, RestoreTips, dagVars
<1>2. lastCadenceId \in [Replicas -> Ids \cup {NoEvent}] /\ epoch \in [Replicas -> Nat]
  BY DEF BaseInv, TypeOK
<1> SUFFICES ASSUME NEW r \in Replicas, r \notin raced'
             PROVE  CadenceChain(r)' /\ CadenceTip(r)' /\ CadenceCalls(r)'
  BY DEF CadenceInv
<1>3. CadenceChain(r) /\ CadenceTip(r) /\ CadenceCalls(r)
  BY <1>1 DEF CadenceInv
<1>4. MaterializeG(r).epoch[r] = epoch[r] /\ MaterializeG(r).last[r] = lastCadenceId[r]
  BY <1>3, TipsAgree
<1>5. lastCadenceId'[r] = lastCadenceId[r] /\ epoch'[r] = epoch[r]
  <2>1. CASE r = q
    BY <1>1, <1>2, <1>4, <2>1
  <2>2. CASE r # q
    BY <1>1, <1>2, <2>2
  <2> QED BY <2>1, <2>2
<1>6. Calling(r)' \subseteq Calling(r) /\ \A o \in Calling(r)' : running'[o] = running[o]
  BY <1>1 DEF Calling, At
<1> QED BY <1>1, <1>3, <1>5, <1>6, CadenceSame

LEMMA IdleCadence ==
  ASSUME CadenceInv, UNCHANGED <<content, lastCadenceId, epoch, running, raced>> PROVE CadenceInv'
<1> SUFFICES ASSUME NEW r \in Replicas, r \notin raced'
             PROVE  CadenceChain(r)' /\ CadenceTip(r)' /\ CadenceCalls(r)'
  BY DEF CadenceInv
<1>1. CadenceChain(r) /\ CadenceTip(r) /\ CadenceCalls(r)
  BY DEF CadenceInv
<1>2. Calling(r)' \subseteq Calling(r) /\ \A o \in Calling(r)' : running'[o] = running[o]
  BY DEF Calling, At
<1> QED BY <1>1, <1>2, CadenceSame

LEMMA InitCadence == Init => CadenceInv
<1> SUFFICES ASSUME Init, NEW r \in Replicas PROVE CadenceChain(r) /\ CadenceTip(r) /\ CadenceCalls(r)
  BY DEF CadenceInv
<1>1. \A i \in DOMAIN content : Type(i) = "genesis"
  BY DEF Init, Type, Genesis
<1>2. Cads(r) = {}
  BY <1>1 DEF Cads, Wrote
<1>3. Calling(r) = {}
  BY DEF Init, Calling, At
<1>4. epoch[r] = 0 /\ lastCadenceId[r] = NoEvent
  BY DEF Init
<1> QED BY <1>2, <1>3, <1>4 DEF CadenceChain, CadenceTip, CadenceCalls, IsCadence

LEMMA CadenceStep == BaseInv /\ BaseInv' /\ CadenceInv /\ [Next]_vars => CadenceInv'
<1> SUFFICES ASSUME BaseInv, BaseInv', CadenceInv, [Next]_vars PROVE CadenceInv'
  OBVIOUS
<1>1. CASE Next
  <2>1. Active \subseteq Replicas
    BY LedgerAssumption
  <2>2. ASSUME NEW r \in Replicas, Commit(r) PROVE CadenceInv'
    BY <2>2, IdleCadence DEF Commit, dagVars, tips
  <2>3. ASSUME NEW r \in Replicas, NEW s \in Replicas, Sync(r, s) PROVE CadenceInv'
    BY <2>3, SyncBase, IdleCadence DEF tips
  <2> QED BY <1>1, <2>1, <2>2, <2>3, StepIs, BeginsCadence, GoesOnCadence, ReceptionStartsCadence,
             ReloadCadence
<1>2. CASE UNCHANGED vars
  BY <1>2, IdleCadence DEF vars
<1> QED BY <1>1, <1>2

LEMMA CadenceInvariance == Spec => [](BaseInv /\ CadenceInv)
<1>1. Init => BaseInv /\ CadenceInv
  BY InitBase, InitCadence
<1>2. (BaseInv /\ CadenceInv) /\ [Next]_vars => (BaseInv /\ CadenceInv)'
  BY BaseStep, CadenceStep
<1> QED BY <1>1, <1>2, PTL DEF Spec

(* The tips advanceCadence() keeps in memory, and those a reload guesses,  *)
(* are what the reducer gets from the DAG, whatever other handlers overlap *)
(* with it, unless two advanceCadence() of the domain wrote different      *)
(* events after the same tip.                                              *)
THEOREM TipsFollowCadence == Spec => []CadenceTipsAgree
<1>1. BaseInv /\ CadenceInv => CadenceTipsAgree
  BY TipsAgree DEF CadenceInv, CadenceTipsAgree
<1> QED BY CadenceInvariance, <1>1, PTL

-----------------------------------------------------------------------------
(* What a domain issues                                                    *)

\* What an event does to its domain depends on what the view says of it, no more.
LEMMA ApplyAgrees ==
  ASSUME DagTypeOK(Payload), NEW id \in DOMAIN content, NEW f \in GState, NEW g \in GState,
         NEW r, r = Domain(id), Agree(f, g, r)
  PROVE  Agree(ApplyG(f, id), ApplyG(g, id), r)
<1>1. r \in Replicas
  BY ContentFields
<1>2. \A x \in GState : Agree(Reject(x, id), x, r)
  BY DEF Reject, GState, Agree
<1>3. CASE Type(id) = "cadence"
  <2> DEFINE n == content[id].payload.epoch
             Accepted(x) == n = x.epoch[r] + 1 /\ (x.last[r] = NoEvent \/ x.last[r] \in Parents(id))
             Next1(x) == [x EXCEPT !.epoch[r] = n, !.last[r] = id]
  <2>1. \A x : ApplyG(x, id) = IF Accepted(x) THEN Next1(x) ELSE Reject(x, id)
    BY <1>3 DEF ApplyG, ApplyCadence, Domain
  <2>2. Accepted(f) <=> Accepted(g)
    BY DEF Agree
  <2> HIDE DEF n
  <2>3. Agree(Next1(f), Next1(g), r)
    BY <1>1 DEF Agree, GState
  <2>4. CASE Accepted(f)
    BY <2>1, <2>2, <2>3, <2>4
  <2>5. CASE ~Accepted(f)
    <3>1. ApplyG(f, id) = Reject(f, id) /\ ApplyG(g, id) = Reject(g, id)
      BY <2>1, <2>2, <2>5
    <3> QED BY <1>2, <3>1 DEF Agree
  <2> QED BY <2>4, <2>5
<1>4. CASE Type(id) = "accrual"
  <2> DEFINE e == content[id].payload
             Left(x) == Budget - x.used[r]
             Issued(x) == IF Earned(x, e) < Left(x) THEN Earned(x, e) ELSE Left(x)
             Next1(x, a) == [x EXCEPT !.balance[r] = x.balance[r] + a, !.used[r] = x.used[r] + a]
             k == Issued(f)
  <2>1. Issued(g) = k
    BY DEF Agree, Earned, Domain
  <2>2. ApplyG(f, id) = Next1(f, k) /\ ApplyG(g, id) = Next1(g, k)
    BY <1>4, <2>1 DEF ApplyG, ApplyAccrual, Domain
  <2> HIDE DEF k
  <2>3. Agree(Next1(f, k), Next1(g, k), r)
    BY <1>1 DEF Agree, GState
  <2> QED BY <2>2, <2>3
<1>5. CASE Type(id) = "claim-issue"
  <2> DEFINE a == content[id].payload.amount
             Next1(x) == [x EXCEPT !.balance[r] = x.balance[r] - a]
  <2>1. \A x : ApplyG(x, id) = IF a > x.balance[r] THEN Reject(x, id) ELSE Next1(x)
    BY <1>5 DEF ApplyG, ApplyClaimIssue, Domain
  <2> HIDE DEF a
  <2>2. Agree(Next1(f), Next1(g), r) /\ f.balance[r] = g.balance[r]
    BY <1>1 DEF Agree, GState
  <2>3. CASE a > f.balance[r]
    <3>1. ApplyG(f, id) = Reject(f, id) /\ ApplyG(g, id) = Reject(g, id)
      BY <2>1, <2>2, <2>3
    <3> QED BY <1>2, <3>1 DEF Agree
  <2>4. CASE ~(a > f.balance[r])
    BY <2>1, <2>2, <2>4
  <2> QED BY <2>3, <2>4
<1>6. CASE Type(id) \notin {"cadence", "accrual", "claim-issue"}
  BY <1>6 DEF ApplyG
<1> QED BY <1>3, <1>4, <1>5, <1>6

\* A claim its issuer can pay is not rejected.
LEMMA ApplyPaid ==
  ASSUME DagTypeOK(Payload), NEW id \in DOMAIN content, NEW g \in GState, Type(id) = "claim-issue",
         content[id].payload.amount <= g.balance[Domain(id)]
  PROVE  ApplyG(g, id).rejected = g.rejected
<1> DEFINE a == content[id].payload.amount
           r == Domain(id)
<1>1. r \in Replicas /\ a \in Nat /\ g.balance[r] \in Nat
  BY ContentFields DEF GState
<1>2. ApplyG(g, id) = IF a > g.balance[r] THEN Reject(g, id)
                      ELSE [g EXCEPT !.balance[r] = g.balance[r] - a]
  BY DEF ApplyG, ApplyClaimIssue, Domain
<1>3. ~(a > g.balance[r])
  BY <1>1
<1> HIDE DEF a, r
<1> QED BY <1>2, <1>3 DEF GState

\* What an event does depends on what it says.
LEMMA ApplyStays ==
  ASSUME NEW id, content'[id] = content[id]
  PROVE  \A g : ApplyG(g, id)' = ApplyG(g, id)
  BY DEF ApplyG, ApplyCadence, ApplyAccrual, ApplyClaimIssue, Type, Parents, Reject, Earned, Reward

LEMMA ApplyGTypeNext ==
  DagTypeOK(Payload)' => (\A id \in DOMAIN content, g \in GState : ApplyG(g, id) \in GState)'
  BY ApplyGType, PTL

\* Nothing else is rejected.
LEMMA ApplySettles ==
  ASSUME DagTypeOK(Payload), NEW id \in DOMAIN content, NEW g \in GState,
         Type(id) \notin {"cadence", "claim-issue"}
  PROVE  ApplyG(g, id).rejected = g.rejected
<1> DEFINE q == Domain(id)
           e == content[id].payload
           left == Budget - g.used[e.domain]
           issued == IF Earned(g, e) < left THEN Earned(g, e) ELSE left
<1>1. CASE Type(id) = "accrual"
  <2>1. ApplyG(g, id) = [g EXCEPT !.balance[q] = g.balance[q] + issued, !.used[q] = g.used[q] + issued]
    BY <1>1 DEF ApplyG, ApplyAccrual, Domain
  <2> HIDE DEF q, issued
  <2> QED BY <2>1 DEF GState
<1>2. CASE Type(id) # "accrual"
  BY <1>2 DEF ApplyG
<1> QED BY <1>1, <1>2

\* Of the events S, t is the last one of r's history.
IsTop(r, t, S) == t \in Wrote(r) \cap S /\ \A w \in Wrote(r) \cap S : w = t \/ w \in Ancestors[t]

LEMMA OneTop ==
  ASSUME DagInv, NEW r, NEW S, NEW t, NEW u, IsTop(r, t, S), IsTop(r, u, S) PROVE t = u
<1> SUFFICES ASSUME t # u PROVE FALSE
  OBVIOUS
<1>1. t \in Ancestors[u] /\ u \in Ancestors[t] /\ u \in DOMAIN content
  BY DEF IsTop, Wrote
<1>2. u \in Ancestors[u]
  BY <1>1, AncestorsTransitive
<1> QED BY <1>1, <1>2, AncestorsIrreflexive

(* V is what r's own history comes to after each of its events, and covers *)
(* what it issues.                                                         *)
Valued(r, V) ==
  /\ V \in [Wrote(r) -> GState]
  /\ \A id \in Wrote(r) : Wrote(r) \cap Ancestors[id] = {} =>
       Type(id) = "genesis" /\ Agree(V[id], InitialG, r)
  /\ \A id \in Wrote(r) : \A p \in Wrote(r) : IsTop(r, p, Ancestors[id]) =>
       /\ Agree(V[id], ApplyG(V[p], id), r)
       /\ Type(id) = "claim-issue" => content[id].payload.amount <= V[p].balance[r]

\* So does the claim that is being issued.
Covered(r, V) ==
  \A h \in At(r) : running[h].kind = "issue" =>
    \A t \in Wrote(r) : IsTop(r, t, Wrote(r)) => running[h].event.payload.amount <= V[t].balance[r]

PaidInv == \A r \in Replicas \ forked : Wrote(r) # {} /\ \E V : Valued(r, V) /\ Covered(r, V)

\* A view of the events S says of r what the last one of r's in S came to.
IssuedSoFar(r, V, g, S) ==
  /\ \A id \in g.rejected : ~(Domain(id) = r /\ Type(id) = "claim-issue")
  /\ \/ Wrote(r) \cap S = {} /\ Agree(g, InitialG, r)
     \/ \E t \in Wrote(r) : IsTop(r, t, S) /\ Agree(g, V[t], r)

LEMMA IssuedSoFarStep ==
  ASSUME BaseInv, NEW r \in Replicas, IsChain(Wrote(r)), NEW V, Valued(r, V), NEW g \in GState, NEW S,
         \A w \in S : Ancestors[w] \subseteq S,
         NEW id \in DOMAIN content, id \notin S, Ancestors[id] \subseteq S, IssuedSoFar(r, V, g, S)
  PROVE  IssuedSoFar(r, V, ApplyG(g, id), S \cup {id})
<1> DEFINE f == ApplyG(g, id)
<1>0. DagTypeOK(Payload) /\ f \in GState /\ f.rejected \subseteq g.rejected \cup {id}
  BY BaseFields, ApplyGType, ApplyElsewhere
<1>1. CASE id \notin Wrote(r)
  <2>1. Domain(id) # r
    BY <1>1 DEF Wrote
  <2>2. Agree(f, g, r)
    BY <1>0, <2>1, ApplyElsewhere
  <2>3. Wrote(r) \cap (S \cup {id}) = Wrote(r) \cap S
    BY <1>1
  <2> HIDE DEF f
  <2>4. \A t : IsTop(r, t, S) => IsTop(r, t, S \cup {id})
    BY <2>3 DEF IsTop
  <2>5. \A x : Agree(g, x, r) => Agree(f, x, r)
    BY <2>2 DEF Agree
  <2> QED BY <1>0, <2>1, <2>3, <2>4, <2>5 DEF IssuedSoFar, f
<1>2. CASE id \in Wrote(r)
  <2>1. Domain(id) = r
    BY <1>2 DEF Wrote
  <2>2. Wrote(r) \cap S = Wrote(r) \cap Ancestors[id]
    <3> SUFFICES ASSUME NEW w \in Wrote(r) \cap S PROVE w \in Ancestors[id]
      OBVIOUS
    <3>1. w # id /\ id \notin Ancestors[w]
      OBVIOUS
    <3> QED BY <1>2, <3>1 DEF IsChain
  <2>3. IsTop(r, id, S \cup {id})
    BY <1>2, <2>2 DEF IsTop
  <2>4. CASE Wrote(r) \cap S = {} /\ Agree(g, InitialG, r)
    <3>1. Type(id) = "genesis" /\ Agree(V[id], InitialG, r)
      BY <1>2, <2>2, <2>4 DEF Valued
    <3>2. f = g
      BY <3>1 DEF ApplyG
    <3>3. Agree(f, V[id], r)
      BY <2>4, <3>1, <3>2 DEF Agree
    <3> HIDE DEF f
    <3> QED BY <1>2, <2>3, <3>2, <3>3 DEF IssuedSoFar, f
  <2>5. ASSUME NEW t \in Wrote(r), IsTop(r, t, S), Agree(g, V[t], r)
        PROVE  IssuedSoFar(r, V, f, S \cup {id})
    <3>1. IsTop(r, t, Ancestors[id])
      BY <2>2, <2>5 DEF IsTop
    <3>2. /\ Agree(V[id], ApplyG(V[t], id), r)
          /\ Type(id) = "claim-issue" => content[id].payload.amount <= V[t].balance[r]
      BY <1>2, <3>1 DEF Valued
    <3>3. V[t] \in GState
      BY DEF Valued
    <3>4. Agree(f, ApplyG(V[t], id), r)
      BY <1>0, <2>1, <2>5, <3>3, ApplyAgrees
    <3>5. Agree(f, V[id], r)
      BY <3>2, <3>4 DEF Agree
    <3>6. Type(id) = "claim-issue" => f.rejected = g.rejected
      BY <1>0, <2>1, <2>5, <3>2, ApplyPaid DEF Agree
    <3>7. \A x \in f.rejected : ~(Domain(x) = r /\ Type(x) = "claim-issue")
      BY <1>0, <3>6 DEF IssuedSoFar
    <3> HIDE DEF f
    <3> QED BY <1>2, <2>3, <3>5, <3>7 DEF IssuedSoFar
  <2> QED BY <2>4, <2>5 DEF IssuedSoFar
<1> QED BY <1>1, <1>2

\* Every replica's view has what r issued paid for.
LEMMA IssuedViewed ==
  ASSUME BaseInv, NEW r \in Replicas, IsChain(Wrote(r)), NEW V, Valued(r, V), NEW s \in Replicas
  PROVE  IssuedSoFar(r, V, MaterializeG(s), dag[s])
<1> DEFINE order == TopoOrder(s)
           n == Len(order)
           g == GAlong(order)
           Closed1(i) == \A w \in First(order, i) : Ancestors[w] \subseteq First(order, i)
           P(i) == Closed1(i) /\ IssuedSoFar(r, V, g[i], First(order, i))
           T == {i \in 0 .. n : P(i)}
<1>1. n \in Nat /\ MaterializeG(s) = g[n] /\ First(order, n) = dag[s]
  BY Along
<1>2. 0 \in T
  <2>1. g[0] = InitialG /\ First(order, 0) = {}
    BY Along
  <2> HIDE DEF g, order, n
  <2>2. InitialG.rejected = {} /\ Agree(InitialG, InitialG, r)
    BY DEF InitialG, Agree
  <2>3. IssuedSoFar(r, V, g[0], First(order, 0))
    BY <2>1, <2>2 DEF IssuedSoFar
  <2> QED BY <1>1, <2>1, <2>3
<1>3. ASSUME NEW i \in 1 .. n, P(i - 1) PROVE P(i)
  <2>1. /\ g[i - 1] \in GState /\ g[i] = ApplyG(g[i - 1], order[i])
        /\ order[i] \in DOMAIN content /\ order[i] \notin First(order, i - 1)
        /\ Ancestors[order[i]] \subseteq First(order, i - 1)
        /\ First(order, i) = First(order, i - 1) \cup {order[i]}
    <3>1. i - 1 \in 0 .. n
      BY <1>1
    <3> QED BY <3>1, Along
  <2> HIDE DEF order, g, n
  <2>2. Closed1(i)
    BY <1>3, <2>1
  <2>3. \A w \in First(order, i - 1) : Ancestors[w] \subseteq First(order, i - 1)
    BY <1>3
  <2>4. IssuedSoFar(r, V, g[i - 1], First(order, i - 1))
    BY <1>3
  <2>5. IssuedSoFar(r, V, ApplyG(g[i - 1], order[i]), First(order, i - 1) \cup {order[i]})
    BY <2>1, <2>3, <2>4, IssuedSoFarStep
  <2> QED BY <2>1, <2>2, <2>5
<1>4. 0 .. n \subseteq T
  <2> HIDE DEF P, n
  <2>1. ASSUME NEW i \in 0 .. (n - 1), i \in T PROVE i + 1 \in T
    <3>1. i + 1 \in 1 .. n /\ (i + 1) - 1 = i
      BY <1>1
    <3>2. P(i)
      BY <2>1
    <3>3. P(i + 1)
      BY <1>3, <3>1, <3>2
    <3> QED BY <3>1, <3>3
  <2> HIDE DEF T
  <2> QED BY <1>1, <1>2, <2>1, Induction
<1>5. P(n)
  BY <1>1, <1>4
<1> QED BY <1>1, <1>5

\* Of all that r wrote one event is the last, and r's view says what it came to.
LEMMA OwnView ==
  ASSUME BaseInv, NEW r \in Replicas, IsChain(Wrote(r)), Wrote(r) # {}, NEW V, Valued(r, V)
  PROVE  \E t \in Wrote(r) : IsTop(r, t, Wrote(r)) /\ Agree(MaterializeG(r), V[t], r)
<1>1. Wrote(r) \cap dag[r] = Wrote(r)
  BY WroteIsOwn DEF Own
<1>2. IssuedSoFar(r, V, MaterializeG(r), dag[r])
  BY IssuedViewed
<1>3. PICK t \in Wrote(r) : IsTop(r, t, dag[r]) /\ Agree(MaterializeG(r), V[t], r)
  BY <1>1, <1>2 DEF IssuedSoFar
<1>4. IsTop(r, t, Wrote(r))
  BY <1>1, <1>3 DEF IsTop
<1> QED BY <1>3, <1>4

\* Nothing happened to r's history; some calls may be gone, or new ones have started.
LEMMA ValuedSame ==
  ASSUME NEW r, content' = content
  PROVE  /\ Wrote(r)' = Wrote(r)
         /\ \A V : Valued(r, V) => Valued(r, V)'
<1>1. Wrote(r)' = Wrote(r) /\ \A id : Type(id)' = Type(id)
  BY DEF Wrote, Domain, Type
<1>2. Ancestors' = Ancestors
  BY AncestorsSame
<1> HIDE DEF Wrote
<1>5. \A id, p : IsTop(r, p, Ancestors[id])' <=> IsTop(r, p, Ancestors[id])
  BY <1>1, <1>2 DEF IsTop
<1>6. ASSUME NEW V, Valued(r, V) PROVE Valued(r, V)'
  <2>1. V \in [Wrote(r)' -> GState]
    BY <1>1, <1>6 DEF Valued
  <2>2. \A id \in Wrote(r)' : Wrote(r)' \cap Ancestors'[id] = {} =>
          Type(id)' = "genesis" /\ Agree(V[id], InitialG, r)
    BY <1>1, <1>2, <1>6 DEF Valued
  <2>3. ASSUME NEW id \in Wrote(r)', NEW p \in Wrote(r)', IsTop(r, p, Ancestors[id])'
        PROVE  /\ Agree(V[id], ApplyG(V[p], id)', r)
               /\ Type(id)' = "claim-issue" => content'[id].payload.amount <= V[p].balance[r]
    <3>1. id \in Wrote(r) /\ p \in Wrote(r) /\ IsTop(r, p, Ancestors[id])
      BY <1>1, <1>5, <2>3
    <3>2. ApplyG(V[p], id)' = ApplyG(V[p], id)
      BY ApplyStays
    <3> QED BY <1>1, <1>6, <3>1, <3>2 DEF Valued
  <2> QED BY <2>1, <2>2, <2>3 DEF Valued
<1> QED BY <1>1, <1>6

Issuing(r) == {h \in At(r) : running[h].kind = "issue"}

LEMMA CoveredIs ==
  \A r, V : Covered(r, V) <=>
    \A h \in Issuing(r) : \A t \in Wrote(r) :
      IsTop(r, t, Wrote(r)) => running[h].event.payload.amount <= V[t].balance[r]
  BY DEF Covered, Issuing

LEMMA CoveredIsNext ==
  (\A r, V : Covered(r, V) <=>
     \A h \in Issuing(r) : \A t \in Wrote(r) :
       IsTop(r, t, Wrote(r)) => running[h].event.payload.amount <= V[t].balance[r])'
  BY CoveredIs, PTL

LEMMA PaidSame ==
  ASSUME NEW r, Wrote(r) # {} /\ \E V : Valued(r, V) /\ Covered(r, V), content' = content,
         Issuing(r)' \subseteq Issuing(r), \A h \in Issuing(r)' : running'[h] = running[h]
  PROVE  (Wrote(r) # {} /\ \E V : Valued(r, V) /\ Covered(r, V))'
<1>1. PICK V : Valued(r, V) /\ Covered(r, V)
  OBVIOUS
<1>2. Wrote(r)' = Wrote(r) /\ Valued(r, V)'
  BY <1>1, ValuedSame
<1>3. \A t : IsTop(r, t, Wrote(r))' <=> IsTop(r, t, Wrote(r))
  BY <1>2, AncestorsSame DEF IsTop
<1>4. \A h \in Issuing(r)' : h \in Issuing(r) /\ running'[h].event = running[h].event
  OBVIOUS
<1> HIDE DEF Issuing, Wrote
<1>5. \A h \in Issuing(r) : \A t \in Wrote(r) :
        IsTop(r, t, Wrote(r)) => running[h].event.payload.amount <= V[t].balance[r]
  BY <1>1, CoveredIs
<1>6. \A h \in Issuing(r)' : \A t \in Wrote(r)' :
        IsTop(r, t, Wrote(r))' => running'[h].event.payload.amount <= V[t].balance[r]
  BY <1>2, <1>3, <1>4, <1>5
<1>7. Covered(r, V)'
  BY <1>6, CoveredIsNext
<1> QED BY <1>2, <1>7

LEMMA BeginsPaid ==
  ASSUME BaseInv, ForkInv, PaidInv, NEW h \in Handlers, NEW q \in Replicas, NEW c, Begins(h, q, c)
  PROVE  PaidInv'
<1>1. /\ running[h] = Idle /\ running' = [running EXCEPT ![h] = c] /\ c # Idle /\ c.at = q
      /\ c.kind = "issue" => c.event.payload.amount <= MaterializeG(q).balance[q]
      /\ content' = content /\ forked \subseteq forked'
  BY DEF Begins, Starts, dagVars
<1>2. running'[h] = c /\ \A o \in Handlers \ {h} : running'[o] = running[o]
  BY <1>1, BaseFields
<1> SUFFICES ASSUME NEW r \in Replicas, r \notin forked'
             PROVE  (Wrote(r) # {} /\ \E V : Valued(r, V) /\ Covered(r, V))'
  BY DEF PaidInv
<1>3. Wrote(r) # {} /\ (\E V : Valued(r, V) /\ Covered(r, V)) /\ OneChain(r)
  BY <1>1 DEF PaidInv, ForkInv
<1>4. CASE ~(r = q /\ c.kind = "issue")
  <2>1. Issuing(r)' \subseteq Issuing(r) /\ \A o \in Issuing(r)' : running'[o] = running[o]
    BY <1>1, <1>2, <1>4 DEF Issuing, At
  <2> QED BY <1>1, <1>3, <2>1, PaidSame
<1>5. CASE r = q /\ c.kind = "issue"
  <2>1. PICK V : Valued(r, V) /\ Covered(r, V)
    BY <1>3
  <2>2. IsChain(Wrote(r))
    BY <1>3 DEF OneChain
  <2>3. PICK t \in Wrote(r) : IsTop(r, t, Wrote(r)) /\ Agree(MaterializeG(r), V[t], r)
    BY <1>3, <2>1, <2>2, OwnView
  <2>4. c.event.payload.amount <= V[t].balance[r]
    BY <1>1, <1>5, <2>3 DEF Agree
  <2>5. \A u \in Wrote(r) : IsTop(r, u, Wrote(r)) => u = t
    BY <2>3, OneTop, BaseFields
  <2>6. Wrote(r)' = Wrote(r) /\ Valued(r, V)'
    BY <1>1, <2>1, ValuedSame
  <2>7. \A u : IsTop(r, u, Wrote(r))' <=> IsTop(r, u, Wrote(r))
    BY <1>1, <2>6, AncestorsSame DEF IsTop
  <2>8. \A o \in Issuing(r)' : o \in Issuing(r) \/ o = h
    BY <1>2 DEF Issuing, At
  <2>9. \A o \in Issuing(r) : o # h /\ running'[o] = running[o]
    BY <1>1, <1>2 DEF Issuing, At
  <2> HIDE DEF Issuing, Wrote
  <2>10. ASSUME NEW o \in Issuing(r)', NEW u \in Wrote(r)', IsTop(r, u, Wrote(r))'
         PROVE  running'[o].event.payload.amount <= V[u].balance[r]
    <3>1. u \in Wrote(r) /\ IsTop(r, u, Wrote(r)) /\ u = t
      BY <2>5, <2>6, <2>7, <2>10
    <3>2. CASE o = h
      BY <1>2, <2>4, <3>1, <3>2
    <3>3. CASE o \in Issuing(r)
      <4>1. running[o].event.payload.amount <= V[u].balance[r]
        BY <2>1, <3>1, <3>3, CoveredIs
      <4> QED BY <2>9, <3>3, <4>1
    <3> QED BY <2>8, <3>2, <3>3
  <2>11. Covered(r, V)'
    BY <2>10, CoveredIsNext
  <2> QED BY <1>3, <2>6, <2>11
<1> QED BY <1>4, <1>5

Extended(V, id, g) == [w \in DOMAIN V \cup {id} |-> IF w = id THEN g ELSE V[w]]

\* What r writes next is covered, and what it comes to is known.
LEMMA ValuedGrows ==
  ASSUME BaseInv, BaseInv', NEW r \in Replicas, NEW V, Valued(r, V), NEW t \in Wrote(r),
         IsTop(r, t, Wrote(r)),
         NEW e, e.payload.domain = r, NEW id, HashIs(e, id), id \notin DOMAIN content,
         Wrote(r)' = Wrote(r) \cup {id}, Wrote(r)' \subseteq Under({id})',
         e.payload.type = "claim-issue" => e.payload.amount <= V[t].balance[r],
         NEW a, a = ApplyG(V[t], id)'
  PROVE  Valued(r, Extended(V, id, a))'
<1> DEFINE W == Extended(V, id, a)
<1>0. DagInv
  BY BaseFields
<1>1. /\ DOMAIN content' = DOMAIN content \cup {id} /\ id \in DOMAIN content'
      /\ \A i \in DOMAIN content : content'[i] = content[i]
      /\ content'[id] = e
  BY <1>0, HashFacts
<1>2. DagInv /\ DagInv' /\ DagTypeOK(Payload)'
  BY BaseFields DEF BaseInv, TypeOK
<1>3. \A i \in DOMAIN content : Ancestors'[i] = Ancestors[i] /\ Ancestors[i] \subseteq DOMAIN content
  BY <1>2, AncestorsStay, AncestorsKnown
<1>4. Wrote(r) \subseteq DOMAIN content /\ V \in [Wrote(r) -> GState]
  BY DEF Wrote, Valued
<1>5. id \notin Ancestors'[id]
  <2>1. (\A i \in DOMAIN content : i \notin Ancestors[i])'
    <3>1. DagInv' => (\A i \in DOMAIN content : i \notin Ancestors[i])'
      BY AncestorsIrreflexiveNext
    <3> QED BY <1>2, <3>1
  <2> QED BY <1>1, <2>1
<1>6. \A w \in Wrote(r) : w \in Ancestors'[id]
  BY <1>4 DEF Under
<1>7. a \in GState
  BY <1>1, <1>2, <1>4, ApplyGTypeNext
<1>8. W \in [Wrote(r)' -> GState] /\ W[id] = a /\ \A w \in Wrote(r) : W[w] = V[w]
  BY <1>4, <1>7 DEF Extended
<1> HIDE DEF W
<1>9. ASSUME NEW w \in Wrote(r)'
      PROVE  Wrote(r)' \cap Ancestors'[w] = IF w = id THEN Wrote(r) ELSE Wrote(r) \cap Ancestors[w]
  <2>1. CASE w = id
    BY <1>5, <1>6, <2>1
  <2>2. CASE w # id
    BY <1>3, <1>4, <2>2
  <2> QED BY <2>1, <2>2
<1>10. \A i \in DOMAIN content : Type(i)' = Type(i)
  BY <1>1 DEF Type
<1>11. \A w \in Wrote(r)' : Wrote(r)' \cap Ancestors'[w] = {} =>
         Type(w)' = "genesis" /\ Agree(W[w], InitialG, r)
  <2> SUFFICES ASSUME NEW w \in Wrote(r)', Wrote(r)' \cap Ancestors'[w] = {}
               PROVE  Type(w)' = "genesis" /\ Agree(W[w], InitialG, r)
    OBVIOUS
  <2>1. w \in Wrote(r) /\ Wrote(r) \cap Ancestors[w] = {}
    BY <1>9
  <2> QED BY <1>4, <1>8, <1>10, <2>1 DEF Valued
<1>12. ASSUME NEW w \in Wrote(r)', NEW p \in Wrote(r)', IsTop(r, p, Ancestors[w])'
       PROVE  /\ Agree(W[w], ApplyG(W[p], w)', r)
              /\ Type(w)' = "claim-issue" => content'[w].payload.amount <= W[p].balance[r]
  <2>1. /\ p \in Wrote(r)' \cap Ancestors'[w]
        /\ \A x \in Wrote(r)' \cap Ancestors'[w] : x = p \/ x \in Ancestors'[p]
    BY <1>12 DEF IsTop
  <2>2. p \in Wrote(r)
    BY <1>9, <2>1
  <2>3. CASE w = id
    <3>1. \A x \in Wrote(r) : x = p \/ x \in Ancestors[p]
      BY <1>3, <1>4, <1>9, <2>1, <2>2, <2>3
    <3>2. IsTop(r, p, Wrote(r))
      BY <2>2, <3>1 DEF IsTop
    <3>3. p = t
      BY <1>2, <3>2, OneTop
    <3>4. W[w] = a /\ W[p] = V[t]
      BY <1>8, <2>3, <3>3
    <3>5. Agree(W[w], ApplyG(W[p], w)', r)
      BY <2>3, <3>4 DEF Agree
    <3> QED BY <1>1, <2>3, <3>4, <3>5 DEF Type
  <2>4. CASE w # id
    <3>1. w \in Wrote(r) /\ w \in DOMAIN content
      BY <1>4, <2>4
    <3>2. \A x \in Wrote(r) \cap Ancestors[w] : x = p \/ x \in Ancestors[p]
      BY <1>3, <1>4, <1>9, <2>1, <2>2, <2>4
    <3>3. IsTop(r, p, Ancestors[w])
      BY <1>9, <2>1, <2>4, <3>2 DEF IsTop
    <3>4. /\ Agree(V[w], ApplyG(V[p], w), r)
          /\ Type(w) = "claim-issue" => content[w].payload.amount <= V[p].balance[r]
      BY <2>2, <3>1, <3>3 DEF Valued
    <3>5. content'[w] = content[w]
      BY <1>1, <3>1
    <3>6. ApplyG(V[p], w)' = ApplyG(V[p], w)
      BY <3>5, ApplyStays
    <3> QED BY <1>8, <2>2, <3>1, <3>4, <3>5, <3>6 DEF Type
  <2> QED BY <2>3, <2>4
<1>13. Valued(r, W)'
  BY <1>8, <1>11, <1>12 DEF Valued
<1> QED BY <1>13 DEF W

LEMMA GoesOnPaid ==
  ASSUME BaseInv, BaseInv', ForkInv, PaidInv, NEW h \in Handlers, NEW id, NEW c, GoesOnAs(h, id, c)
  PROVE  PaidInv'
<1> DEFINE old == running[h]
<1>1. /\ old # Idle /\ old.kind # "importing" /\ Insert(old.at, old.event, id)
      /\ running' = [running EXCEPT ![h] = c] /\ forked' = forked
      /\ c # Idle => c.at = old.at /\ c.kind # "issue"
  BY DEF GoesOnAs, EventOf
<1>2. /\ old.at \in Replicas /\ old.event.payload.domain = old.at /\ HashIs(old.event, id)
      /\ old.event.payload.type = EventOf[old.kind]
      /\ old.kind \in {"cadence", "importing", "reception", "accrual", "issue", "transfer"}
  BY <1>1, OldCall DEF Insert
<1>3. running'[h] = c /\ \A o \in Handlers \ {h} : running'[o] = running[o]
  BY <1>1, BaseFields
<1>4. /\ DOMAIN content' = DOMAIN content \cup {id}
      /\ \A i \in DOMAIN content : content'[i] = content[i]
      /\ content'[id] = old.event
  BY <1>2, HashFacts, BaseFields
<1>5. DagInv /\ DagInv'
  BY BaseFields DEF BaseInv
<1> HIDE DEF old
<1> SUFFICES ASSUME NEW r \in Replicas, r \notin forked'
             PROVE  (Wrote(r) # {} /\ \E V : Valued(r, V) /\ Covered(r, V))'
  BY DEF PaidInv
<1>6. Wrote(r) # {} /\ OneChain(r) /\ \E V : Valued(r, V) /\ Covered(r, V)
  BY <1>1 DEF PaidInv, ForkInv
<1>7. PICK V : Valued(r, V) /\ Covered(r, V)
  BY <1>6
<1>8. Issuing(r)' = Issuing(r) \ {h} /\ \A o \in Issuing(r)' : running'[o] = running[o] /\ o \in Issuing(r)
  BY <1>1, <1>3 DEF Issuing, At
<1>9. CASE r # old.at
  <2>1. Wrote(r)' = Wrote(r) /\ Wrote(r) \subseteq DOMAIN content
    BY <1>2, <1>4, <1>9 DEF Wrote, Domain
  <2>2. \A w \in Wrote(r) : Ancestors'[w] = Ancestors[w] /\ content'[w] = content[w]
    BY <1>2, <1>4, <1>5, <2>1, AncestorsStay
  <2> HIDE DEF Wrote
  <2>3. ASSUME NEW t \in Wrote(r), NEW S PROVE IsTop(r, t, S)' <=> IsTop(r, t, S)
    BY <2>1, <2>2 DEF IsTop
  <2>4. Valued(r, V)'
    <3>1. V \in [Wrote(r)' -> GState]
      BY <1>7, <2>1 DEF Valued
    <3>2. \A w \in Wrote(r)' : Wrote(r)' \cap Ancestors'[w] = {} =>
            Type(w)' = "genesis" /\ Agree(V[w], InitialG, r)
      BY <1>7, <2>1, <2>2 DEF Valued, Type
    <3>3. ASSUME NEW w \in Wrote(r)', NEW p \in Wrote(r)', IsTop(r, p, Ancestors[w])'
          PROVE  /\ Agree(V[w], ApplyG(V[p], w)', r)
                 /\ Type(w)' = "claim-issue" => content'[w].payload.amount <= V[p].balance[r]
      <4>1. w \in Wrote(r) /\ p \in Wrote(r) /\ content'[w] = content[w]
        BY <2>1, <2>2
      <4>2. IsTop(r, p, Ancestors[w])
        BY <2>1, <2>2, <3>3, <4>1 DEF IsTop
      <4>3. ApplyG(V[p], w)' = ApplyG(V[p], w)
        BY <4>1, ApplyStays
      <4> QED BY <1>7, <4>1, <4>2, <4>3 DEF Valued, Type
    <3> QED BY <3>1, <3>2, <3>3 DEF Valued
  <2>5. \A t \in Wrote(r) : IsTop(r, t, Wrote(r))' <=> IsTop(r, t, Wrote(r))
    BY <2>1, <2>2 DEF IsTop
  <2>6. \A o \in Issuing(r)' : \A t \in Wrote(r)' :
          IsTop(r, t, Wrote(r))' => running'[o].event.payload.amount <= V[t].balance[r]
    <3>1. \A o \in Issuing(r) : \A t \in Wrote(r) :
            IsTop(r, t, Wrote(r)) => running[o].event.payload.amount <= V[t].balance[r]
      BY <1>7, CoveredIs
    <3> QED BY <1>8, <2>1, <2>5, <3>1
  <2>7. Covered(r, V)'
    BY <2>6, CoveredIsNext
  <2> QED BY <1>6, <2>1, <2>4, <2>7
<1>10. CASE r = old.at
  <2>1. /\ id \notin DOMAIN content /\ Wrote(r)' = Wrote(r) \cup {id} /\ Wrote(r)' \subseteq Under({id})'
        /\ At(r) = {h}
    <3>1. r \in Replicas \ forked /\ r = running[h].at
      BY <1>1, <1>10 DEF old
    <3>2. running[h] # Idle /\ running[h].kind # "importing" /\ Insert(r, running[h].event, id)
      BY <1>1, <1>10 DEF old
    <3> HIDE DEF old
    <3> QED BY <3>1, <3>2, ChainGrows
  <2>2. IsChain(Wrote(r))
    BY <1>6 DEF OneChain
  <2>3. PICK t \in Wrote(r) : IsTop(r, t, Wrote(r)) /\ Agree(MaterializeG(r), V[t], r)
    BY <1>6, <1>7, <2>2, OwnView
  <2>4. old.event.payload.type = "claim-issue" => old.event.payload.amount <= V[t].balance[r]
    <3> SUFFICES ASSUME old.event.payload.type = "claim-issue"
                 PROVE  old.event.payload.amount <= V[t].balance[r]
      OBVIOUS
    <3>1. h \in Issuing(r)
      BY <1>2, <2>1 DEF Issuing, old, EventOf
    <3>2. \A o \in Issuing(r) : \A u \in Wrote(r) :
            IsTop(r, u, Wrote(r)) => running[o].event.payload.amount <= V[u].balance[r]
      BY <1>7, CoveredIs
    <3> QED BY <2>3, <3>1, <3>2 DEF old
  <2> PICK a : a = ApplyG(V[t], id)'
    OBVIOUS
  <2> DEFINE W == Extended(V, id, a)
  <2>5. Valued(r, W)'
    BY <1>2, <1>7, <1>10, <2>1, <2>3, <2>4, ValuedGrows
  <2>6. Issuing(r)' = {}
    BY <1>8, <2>1 DEF Issuing
  <2> HIDE DEF W, Issuing, Wrote
  <2>7. Covered(r, W)'
    BY <2>6, CoveredIsNext
  <2> QED BY <2>1, <2>5, <2>7
<1> QED BY <1>9, <1>10

LEMMA OtherPaid ==
  ASSUME PaidInv, content' = content, forked \subseteq forked',
         \A r \in Replicas : Issuing(r)' \subseteq Issuing(r) /\ \A h \in Issuing(r)' : running'[h] = running[h]
  PROVE  PaidInv'
<1> SUFFICES ASSUME NEW r \in Replicas, r \notin forked'
             PROVE  (Wrote(r) # {} /\ \E V : Valued(r, V) /\ Covered(r, V))'
  BY DEF PaidInv
<1>1. Wrote(r) # {} /\ \E V : Valued(r, V) /\ Covered(r, V)
  BY DEF PaidInv
<1>2. Issuing(r)' \subseteq Issuing(r) /\ \A h \in Issuing(r)' : running'[h] = running[h]
  OBVIOUS
<1> QED BY <1>1, <1>2, PaidSame

LEMMA ReceptionStartsPaid ==
  ASSUME BaseInv, PaidInv, NEW h \in Handlers, ReceptionStarts(h) PROVE PaidInv'
<1>1. PICK e \in Event(Payload) :
        running' = [running EXCEPT ![h] =
           [kind |-> "reception", at |-> running[h].at, event |-> e, more |-> running[h].more]]
  BY ReceptionStartsBase
<1>2. running'[h].kind = "reception" /\ \A o \in Handlers \ {h} : running'[o] = running[o]
  BY <1>1, BaseFields
<1>3. content' = content /\ forked' = forked
  BY DEF ReceptionStarts, dagVars
<1>4. \A r \in Replicas : Issuing(r)' \subseteq Issuing(r) /\ \A o \in Issuing(r)' : running'[o] = running[o]
  BY <1>2 DEF Issuing, At
<1> QED BY <1>3, <1>4, OtherPaid

LEMMA ReloadPaid ==
  ASSUME BaseInv, PaidInv, NEW q \in Replicas, Reload(q) PROVE PaidInv'
<1>1. /\ content' = content /\ forked \subseteq forked'
      /\ running' = [h \in Handlers |-> IF running[h] # Idle /\ running[h].at = q THEN Idle
                                        ELSE running[h]]
  BY DEF Reload, dagVars
<1>2. \A r \in Replicas : Issuing(r)' \subseteq Issuing(r) /\ \A o \in Issuing(r)' : running'[o] = running[o]
  BY <1>1 DEF Issuing, At
<1> QED BY <1>1, <1>2, OtherPaid

LEMMA IdlePaid ==
  ASSUME PaidInv, UNCHANGED <<content, running, forked>> PROVE PaidInv'
<1>1. \A r \in Replicas : Issuing(r)' \subseteq Issuing(r) /\ \A o \in Issuing(r)' : running'[o] = running[o]
  BY DEF Issuing, At
<1> QED BY <1>1, OtherPaid

LEMMA InitPaid == Init => PaidInv
<1> SUFFICES ASSUME Init, NEW r \in Replicas
             PROVE  Wrote(r) # {} /\ \E V : Valued(r, V) /\ Covered(r, V)
  BY DEF PaidInv
<1>1. BaseInv /\ OneChain(r)
  BY InitBase, InitChain DEF Init, ForkInv
<1>2. Wrote(r) # {}
  <2>1. lastEventId[r] \in dag[r] /\ dag[r] = {genesisId[r]} /\ lastEventId = genesisId
    BY <1>1, BaseFields DEF Init
  <2>2. dag[r] \in SUBSET DOMAIN content
    BY <1>1, BaseFields DEF DagInv
  <2>3. PICK id \in [Replicas -> Ids] :
          /\ IsInjective(id)
          /\ content = [i \in Range(id) |-> [parents |-> {}, payload |->
                           Genesis(CHOOSE q \in Replicas : id[q] = i)]]
          /\ genesisId = id
    BY DEF Init
  <2> DEFINE q == CHOOSE x \in Replicas : id[x] = id[r]
  <2>4. q \in Replicas /\ id[q] = id[r]
    OBVIOUS
  <2>5. content[id[r]] = [parents |-> {}, payload |-> Genesis(q)] /\ id[r] \in DOMAIN content
    BY <2>1, <2>2, <2>3
  <2> HIDE DEF q
  <2>6. q = r
    BY <2>3, <2>4 DEF IsInjective
  <2> QED BY <2>5, <2>6 DEF Wrote, Domain, Genesis
<1>3. \A id \in DOMAIN content : Type(id) = "genesis" /\ Parents(id) = {}
  BY DEF Init, Type, Parents, Genesis
<1>4. \A id \in DOMAIN content : Ancestors[id] = {}
  BY <1>1, <1>3, AncestorsAre, BaseFields
<1> DEFINE V == [id \in Wrote(r) |-> InitialG]
<1>5. Wrote(r) \subseteq DOMAIN content
  BY DEF Wrote
<1>6. Valued(r, V)
  <2>1. V \in [Wrote(r) -> GState]
    BY InitialGType
  <2>2. \A id \in Wrote(r) : Agree(V[id], InitialG, r)
    BY DEF Agree
  <2> HIDE DEF Wrote, V
  <2> QED BY <1>3, <1>4, <1>5, <2>1, <2>2 DEF Valued, IsTop
<1>7. Covered(r, V)
  BY DEF Init, Covered, At
<1> QED BY <1>2, <1>6, <1>7

LEMMA PaidStep == BaseInv /\ BaseInv' /\ ForkInv /\ PaidInv /\ [Next]_vars => PaidInv'
<1> SUFFICES ASSUME BaseInv, BaseInv', ForkInv, PaidInv, [Next]_vars PROVE PaidInv'
  OBVIOUS
<1>1. CASE Next
  <2>1. Active \subseteq Replicas
    BY LedgerAssumption
  <2>2. ASSUME NEW r \in Replicas, Commit(r) PROVE PaidInv'
    BY <2>2, IdlePaid DEF Commit, dagVars, tips
  <2>3. ASSUME NEW r \in Replicas, NEW s \in Replicas, Sync(r, s) PROVE PaidInv'
    BY <2>3, SyncBase, IdlePaid DEF tips
  <2> QED BY <1>1, <2>1, <2>2, <2>3, StepIs, BeginsPaid, GoesOnPaid, ReceptionStartsPaid, ReloadPaid
<1>2. CASE UNCHANGED vars
  BY <1>2, IdlePaid DEF vars
<1> QED BY <1>1, <1>2

LedgerInv == BaseInv /\ ForkInv /\ CadenceInv /\ PaidInv

LEMMA LedgerInvariance == Spec => []LedgerInv
<1>1. Init => LedgerInv
  BY InitBase, InitChain, InitCadence, InitPaid DEF LedgerInv
<1>2. LedgerInv /\ [Next]_vars => LedgerInv'
  BY BaseStep, ForkStep, CadenceStep, PaidStep DEF LedgerInv
<1> QED BY <1>1, <1>2, PTL DEF Spec

\* Only cadence and claims are ever rejected.
LEMMA RejectedAre ==
  ASSUME BaseInv, NEW s \in Replicas
  PROVE  \A id \in MaterializeG(s).rejected :
           /\ id \in DOMAIN content /\ Domain(id) \in Replicas
           /\ Type(id) \in {"cadence", "claim-issue"}
<1> DEFINE order == TopoOrder(s)
           n == Len(order)
           g == GAlong(order)
           Good(id) == id \in DOMAIN content /\ Type(id) \in {"cadence", "claim-issue"}
           V == {x \in GState : \A id \in x.rejected : Good(id)}
<1>1. /\ n \in Nat /\ g[0] = InitialG /\ MaterializeG(s) = g[n] /\ \A i \in 0 .. n : g[i] \in GState
      /\ \A i \in 1 .. n : g[i] = ApplyG(g[i - 1], order[i]) /\ order[i] \in DOMAIN content
  BY Along
<1> HIDE DEF order, n, g
<1>2. g[0] \in V
  BY <1>1, InitialGType DEF InitialG
<1>3. \A i \in 1 .. n : g[i - 1] \in V => g[i] \in V
  <2> SUFFICES ASSUME NEW i \in 1 .. n, g[i - 1] \in V PROVE g[i] \in V
    OBVIOUS
  <2>1. g[i] \in GState /\ g[i] = ApplyG(g[i - 1], order[i]) /\ order[i] \in DOMAIN content
    BY <1>1
  <2>2. \A id \in g[i].rejected : id \in g[i - 1].rejected \/ (id = order[i] /\ Type(id) \in {"cadence", "claim-issue"})
    <3>1. g[i].rejected \subseteq g[i - 1].rejected \cup {order[i]}
      BY <2>1, ApplyElsewhere, BaseFields
    <3>2. CASE Type(order[i]) \in {"cadence", "claim-issue"}
      BY <3>1, <3>2
    <3>3. CASE Type(order[i]) \notin {"cadence", "claim-issue"}
      <4>1. g[i].rejected = g[i - 1].rejected
        BY <2>1, <3>3, ApplySettles, BaseFields
      <4> QED BY <4>1
    <3> QED BY <3>2, <3>3
  <2> QED BY <2>1, <2>2
<1>4. g[n] \in V
  <2> HIDE DEF V
  <2> QED BY <1>1, <1>2, <1>3, FoldKeeps
<1> QED BY <1>1, <1>4, BaseFields, ContentFields

(* Whatever the hashes are and whatever is merged in between, every        *)
(* replica's view accepts all that a domain wrote, if its handlers never   *)
(* overlapped: the cadence, because each event names the one before as a   *)
(* parent; what it issues, because every order of the DAG lists its chain  *)
(* the same way, so that the balance the send button checked is the one    *)
(* the reducer finds.                                                      *)
THEOREM RejectionExplained == Spec => []RejectionNeedsOverlap
<1>1. LedgerInv => RejectionNeedsOverlap
  <2> SUFFICES ASSUME LedgerInv, NEW s \in Replicas, NEW id \in MaterializeG(s).rejected
               PROVE  Domain(id) \in IF Type(id) = "cadence" THEN raced ELSE forked
    BY DEF RejectionNeedsOverlap
  <2> DEFINE r == Domain(id)
  <2>1. BaseInv /\ ForkInv /\ CadenceInv /\ PaidInv
    BY DEF LedgerInv
  <2>2. id \in DOMAIN content /\ r \in Replicas /\ Type(id) \in {"cadence", "claim-issue"}
    BY <2>1, RejectedAre
  <2> HIDE DEF r
  <2>3. CASE Type(id) = "cadence"
    <3> SUFFICES ASSUME r \notin raced PROVE FALSE
      BY <2>3 DEF r
    <3>1. CadenceChain(r)
      BY <2>1, <2>2 DEF CadenceInv
    <3>2. CadenceSoFar(r, MaterializeG(s), dag[s])
      BY <2>1, <2>2, <3>1, CadenceViewed
    <3>3. id \in Cads(r)
      BY <2>2, <2>3 DEF Cads, Wrote, r
    <3> QED BY <3>2, <3>3 DEF CadenceSoFar
  <2>4. CASE Type(id) = "claim-issue"
    <3> SUFFICES ASSUME r \notin forked PROVE FALSE
      BY <2>4 DEF r
    <3>1. PICK V : Valued(r, V)
      BY <2>1, <2>2 DEF PaidInv
    <3>2. IsChain(Wrote(r))
      BY <2>1, <2>2 DEF ForkInv, OneChain
    <3>3. IssuedSoFar(r, V, MaterializeG(s), dag[s])
      BY <2>1, <2>2, <3>1, <3>2, IssuedViewed
    <3> QED BY <2>4, <3>3 DEF IssuedSoFar, r
  <2> QED BY <2>2, <2>3, <2>4
<1> QED BY LedgerInvariance, <1>1, PTL
-----------------------------------------------------------------------------
(* What balances and claims are worth together                             *)

Issues == {id \in DOMAIN content : Type(id) = "claim-issue"}
Sending == {h \in Handlers : running[h].kind = "issue"}
Number(e) == e.payload.claim[2]

\* No two claims have one number, in the DAG or about to be issued.
NumbersOnce ==
  /\ \A d, e \in Issues : Number(content[d]) = Number(content[e]) => d = e
  /\ \A h \in Sending : \A d \in Issues : Number(running[h].event) # Number(content[d])
  /\ \A h, o \in Sending : Number(running[h].event) = Number(running[o].event) => h = o

LEMMA NumbersSame ==
  ASSUME NumbersOnce, content' = content,
         Sending' \subseteq Sending, \A h \in Sending' : running'[h] = running[h]
  PROVE  NumbersOnce'
<1>1. Issues' = Issues
  BY DEF Issues, Type
<1>2. \A h \in Sending' : h \in Sending /\ running'[h] = running[h]
  OBVIOUS
<1> HIDE DEF Issues, Sending
<1> QED BY <1>1, <1>2 DEF NumbersOnce, Number

LEMMA BeginsNumbers ==
  ASSUME BaseInv, NumbersOnce, NEW h \in Handlers, NEW r \in Replicas, NEW c, Begins(h, r, c)
  PROVE  NumbersOnce'
<1>1. running'[h] = c /\ \A o \in Handlers \ {h} : running'[o] = running[o]
  BY BaseFields DEF Begins
<1>2. content' = content
  BY DEF Begins, Starts, dagVars
<1>3. CASE c.kind # "issue"
  <2>1. Sending' \subseteq Sending /\ \A o \in Sending' : running'[o] = running[o]
    BY <1>1, <1>3 DEF Sending
  <2> QED BY <1>2, <2>1, NumbersSame
<1>4. CASE c.kind = "issue"
  <2>1. c.event.payload.claim = <<r, FreshClaim(r)>>
    BY <1>4 DEF Begins
  <2>2. Number(c.event) = FreshClaim(r)
    BY <2>1 DEF Number
  <2>3. /\ \A d \in Issues : Number(content[d]) # Number(c.event)
        /\ \A o \in Sending : Number(running[o].event) # Number(c.event)
    BY <2>2, FreshClaimType DEF BaseInv, Issues, Sending, Number
  <2>4. \A o \in Sending' : o = h \/ (o \in Sending /\ running'[o] = running[o])
    BY <1>1 DEF Sending
  <2>5. Issues' = Issues
    BY <1>2 DEF Issues, Type
  <2> HIDE DEF Issues, Sending
  <2>6. \A o \in Sending' : \A d \in Issues : Number(running'[o].event) # Number(content[d])
    BY <1>1, <2>3, <2>4 DEF NumbersOnce
  <2>7. \A o, p \in Sending' : Number(running'[o].event) = Number(running'[p].event) => o = p
    BY <1>1, <2>3, <2>4 DEF NumbersOnce
  <2> QED BY <1>2, <2>5, <2>6, <2>7 DEF NumbersOnce, Number
<1> QED BY <1>3, <1>4

LEMMA GoesOnNumbers ==
  ASSUME BaseInv, NumbersOnce, NEW h \in Handlers, NEW id, NEW c, GoesOnAs(h, id, c)
  PROVE  NumbersOnce'
<1> DEFINE old == running[h]
           e == old.event
<1>1. running'[h] = c /\ \A o \in Handlers \ {h} : running'[o] = running[o]
  BY BaseFields DEF GoesOnAs
<1>2. old \in Call \ {Idle} /\ HashIs(e, id)
  BY DEF GoesOnAs, Insert
<1>3. e.payload.type = EventOf[old.kind]
      /\ old.kind \in {"cadence", "importing", "reception", "accrual", "issue", "transfer"}
  BY <1>2, OldCall
<1>4. e.payload.type = "claim-issue" <=> old.kind = "issue"
  BY <1>3 DEF EventOf
<1>5. c.kind # "issue"
  BY DEF GoesOnAs, Started, Idle
<1>6. Sending' = Sending \ {h} /\ \A o \in Sending' : running'[o] = running[o]
  BY <1>1, <1>5 DEF Sending
<1>7. /\ DOMAIN content' = DOMAIN content \cup {id}
      /\ \A i \in DOMAIN content : content'[i] = content[i]
      /\ content'[id] = e
  BY <1>2, HashFacts, BaseFields
<1>8. CASE old.kind # "issue"
  <2>1. Issues' = Issues /\ \A i \in Issues : content'[i] = content[i]
    BY <1>4, <1>7, <1>8 DEF Issues, Type
  <2> HIDE DEF Issues, Sending
  <2> QED BY <1>6, <2>1 DEF NumbersOnce, Number
<1>9. CASE old.kind = "issue"
  <2>1. h \in Sending
    BY <1>9 DEF Sending
  <2>2. Issues' = Issues \cup {id} /\ \A i \in Issues : content'[i] = content[i]
    BY <1>4, <1>7, <1>9 DEF Issues, Type
  <2> HIDE DEF Issues, Sending
  <2>3. \A d \in Issues : Number(content[d]) # Number(e)
    BY <2>1 DEF NumbersOnce
  <2>4. \A o \in Sending' : Number(running[o].event) # Number(e)
    BY <1>6, <2>1 DEF NumbersOnce
  <2>5. \A d, f \in Issues' : Number(content'[d]) = Number(content'[f]) => d = f
    BY <1>7, <2>2, <2>3 DEF NumbersOnce
  <2>6. \A o \in Sending' : \A d \in Issues' : Number(running'[o].event) # Number(content'[d])
    BY <1>6, <1>7, <2>2, <2>4 DEF NumbersOnce
  <2>7. \A o, p \in Sending' : Number(running'[o].event) = Number(running'[p].event) => o = p
    BY <1>6 DEF NumbersOnce
  <2> QED BY <2>5, <2>6, <2>7 DEF NumbersOnce, Number
<1> QED BY <1>8, <1>9

LEMMA ReceptionStartsNumbers ==
  ASSUME BaseInv, NumbersOnce, NEW h \in Handlers, ReceptionStarts(h) PROVE NumbersOnce'
<1>1. PICK e \in Event(Payload) :
        running' = [running EXCEPT ![h] =
           [kind |-> "reception", at |-> running[h].at, event |-> e, more |-> running[h].more]]
  BY ReceptionStartsBase
<1>2. running'[h].kind = "reception" /\ \A o \in Handlers \ {h} : running'[o] = running[o]
  BY <1>1, BaseFields
<1>3. content' = content
  BY DEF ReceptionStarts, dagVars
<1>4. Sending' \subseteq Sending /\ \A o \in Sending' : running'[o] = running[o]
  BY <1>2 DEF Sending
<1> QED BY <1>3, <1>4, NumbersSame

LEMMA ReloadNumbers ==
  ASSUME NumbersOnce, NEW q \in Replicas, Reload(q) PROVE NumbersOnce'
<1>1. /\ content' = content
      /\ running' = [h \in Handlers |-> IF running[h] # Idle /\ running[h].at = q THEN Idle
                                        ELSE running[h]]
  BY DEF Reload, dagVars
<1>2. Sending' \subseteq Sending /\ \A o \in Sending' : running'[o] = running[o]
  BY <1>1 DEF Sending, Idle
<1> QED BY <1>1, <1>2, NumbersSame

LEMMA IdleNumbers == ASSUME NumbersOnce, UNCHANGED <<content, running>> PROVE NumbersOnce'
<1>1. Sending' = Sending
  BY DEF Sending
<1> QED BY <1>1, NumbersSame

LEMMA NumbersStep == BaseInv /\ NumbersOnce /\ [Next]_vars => NumbersOnce'
<1> SUFFICES ASSUME BaseInv, NumbersOnce, [Next]_vars PROVE NumbersOnce'
  OBVIOUS
<1>1. CASE Next
  <2>1. Active \subseteq Replicas
    BY LedgerAssumption
  <2>2. ASSUME NEW r \in Replicas, Commit(r) PROVE NumbersOnce'
    BY <2>2, IdleNumbers DEF Commit, dagVars
  <2>3. ASSUME NEW r \in Replicas, NEW s \in Replicas, Sync(r, s) PROVE NumbersOnce'
    BY <2>3, SyncBase, IdleNumbers
  <2> QED BY <1>1, <2>1, <2>2, <2>3, StepIs, BeginsNumbers, GoesOnNumbers,
             ReceptionStartsNumbers, ReloadNumbers
<1>2. CASE UNCHANGED vars
  BY <1>2, IdleNumbers DEF vars
<1> QED BY <1>1, <1>2

LEMMA NumbersInvariance == Spec => [](BaseInv /\ NumbersOnce)
<1>1. Init => BaseInv /\ NumbersOnce
  <2> SUFFICES ASSUME Init PROVE NumbersOnce
    BY InitBase
  <2>1. \A id \in DOMAIN content : Type(id) = "genesis"
    BY DEF Init, Type, Genesis
  <2>2. Issues = {} /\ Sending = {}
    BY <2>1 DEF Init, Issues, Sending, Idle
  <2> QED BY <2>2 DEF NumbersOnce
<1>2. (BaseInv /\ NumbersOnce) /\ [Next]_vars => (BaseInv /\ NumbersOnce)'
  BY BaseStep, NumbersStep
<1> QED BY <1>1, <1>2, PTL DEF Spec

\* Balances, less what was ever issued; and the issues a view rejected.
Net(g) == SumFunction(g.balance) - SumFunction(g.used)
Bad(g) == {id \in g.rejected : Type(id) = "claim-issue"}
BadAmounts(g) == [id \in Bad(g) |-> content[id].payload.amount]

LEMMA NetType ==
  \A g \in GState : SumFunction(g.balance) \in Int /\ SumFunction(g.used) \in Int
<1> TAKE g \in GState
<1>1. Addable(g.balance, Replicas) /\ Addable(g.used, Replicas)
      /\ DOMAIN g.balance = Replicas /\ DOMAIN g.used = Replicas
  BY LedgerAssumption DEF GState, Addable
<1> QED BY <1>1, SumType DEF SumFunction

(* What one event does to that: an accrual adds as much to the balance as  *)
(* to what was issued, and a claim-issue takes its amount from the balance *)
(* or is rejected.                                                         *)
LEMMA BalanceStep ==
  ASSUME DagTypeOK(Payload), NEW id \in DOMAIN content, NEW g \in GState
  PROVE  LET f == ApplyG(g, id)
         IN  /\ Type(id) # "claim-issue" => Net(f) = Net(g) /\ Bad(f) = Bad(g)
             /\ Type(id) = "claim-issue" =>
                  \/ Net(f) = Net(g) - content[id].payload.amount /\ Bad(f) = Bad(g)
                  \/ Net(f) = Net(g) /\ Bad(f) = Bad(g) \cup {id}
<1> DEFINE f == ApplyG(g, id)
           e == content[id].payload
           r == e.domain
<1>1. /\ r \in Replicas /\ g.balance[r] \in Nat /\ g.used[r] \in Nat
      /\ g.balance \in [Replicas -> Int] /\ g.used \in [Replicas -> Int] /\ IsFiniteSet(Replicas)
  BY ContentFields, LedgerAssumption DEF Domain, GState
<1>2. CASE Type(id) = "cadence"
  <2>1. f.balance = g.balance /\ f.used = g.used /\ (f.rejected = g.rejected \/ f.rejected = g.rejected \cup {id})
    <3>1. f = Reject(g, id) \/ f = [g EXCEPT !.epoch[r] = e.epoch, !.last[r] = id]
      BY <1>2 DEF ApplyG, ApplyCadence
    <3>2. Reject(g, id).balance = g.balance /\ Reject(g, id).used = g.used
          /\ Reject(g, id).rejected = g.rejected \cup {id}
      BY DEF Reject, GState
    <3> HIDE DEF f, e, r
    <3>3. CASE f = Reject(g, id)
      BY <3>2, <3>3
    <3>4. CASE f = [g EXCEPT !.epoch[r] = e.epoch, !.last[r] = id]
      BY <3>4 DEF GState
    <3> QED BY <3>1, <3>3, <3>4
  <2> HIDE DEF f
  <2> QED BY <1>2, <2>1 DEF Net, Bad, f
<1>3. CASE Type(id) = "accrual"
  <2> DEFINE left == Budget - g.used[r]
             issued == IF Earned(g, e) < left THEN Earned(g, e) ELSE left
  <2>1. f = [g EXCEPT !.balance[r] = g.balance[r] + issued, !.used[r] = g.used[r] + issued]
    BY <1>3 DEF ApplyG, ApplyAccrual
  <2>2. issued \in Int
    <3>1. content[id].payload.q0 \in Nat /\ g.epoch[r] \in Nat /\ g.used[r] \in Int
      BY <1>1, <1>3, ContentFields DEF GState
    <3>2. Earned(g, e) \in Nat
      BY <3>1, LedgerAssumption DEF Earned, Reward
    <3> QED BY <3>1, <3>2, LedgerAssumption
  <2> HIDE DEF issued, f, r
  <2>3. f.balance = [g.balance EXCEPT ![r] = g.balance[r] + issued]
        /\ f.used = [g.used EXCEPT ![r] = g.used[r] + issued] /\ f.rejected = g.rejected
    BY <2>1 DEF GState
  <2>4. SumFunction(f.balance) = SumFunction(g.balance) - g.balance[r] + (g.balance[r] + issued)
    BY <1>1, <2>2, <2>3, SumExcept
  <2>5. SumFunction(f.used) = SumFunction(g.used) - g.used[r] + (g.used[r] + issued)
    BY <1>1, <2>2, <2>3, SumExcept
  <2>6. Net(f) = Net(g)
    BY <1>1, <2>2, <2>4, <2>5, NetType DEF Net
  <2> QED BY <1>3, <2>3, <2>6 DEF Bad, f
<1>4. CASE Type(id) = "claim-issue"
  <2> DEFINE a == e.amount
  <2>1. f = IF a > g.balance[r] THEN Reject(g, id) ELSE [g EXCEPT !.balance[r] = g.balance[r] - a]
    BY <1>4 DEF ApplyG, ApplyClaimIssue
  <2>2. a \in Nat
    BY <1>4, ContentFields
  <2>3. Reject(g, id).balance = g.balance /\ Reject(g, id).used = g.used
        /\ Reject(g, id).rejected = g.rejected \cup {id}
    BY DEF Reject, GState
  <2> HIDE DEF f, r, e
  <2>5. CASE a > g.balance[r]
    <3>1. f.balance = g.balance /\ f.used = g.used /\ f.rejected = g.rejected \cup {id}
      BY <2>1, <2>3, <2>5
    <3> QED BY <1>4, <3>1 DEF Net, Bad, f
  <2>6. CASE ~(a > g.balance[r])
    <3>1. f.balance = [g.balance EXCEPT ![r] = g.balance[r] - a]
          /\ f.used = g.used /\ f.rejected = g.rejected
      BY <2>1, <2>6 DEF GState
    <3>2. SumFunction(f.balance) = SumFunction(g.balance) - g.balance[r] + (g.balance[r] - a)
      BY <1>1, <2>2, <3>1, SumExcept
    <3>3. Net(f) = Net(g) - a
      BY <1>1, <2>2, <3>1, <3>2, NetType DEF Net
    <3> QED BY <1>4, <3>1, <3>3 DEF Bad, f, e
  <2> QED BY <2>5, <2>6
<1>5. CASE Type(id) \notin {"cadence", "accrual", "claim-issue"}
  BY <1>5 DEF ApplyG
<1> QED BY <1>2, <1>3, <1>4, <1>5

\* The issue a claim comes from: what its id begins with, however often it was passed on.
Root(c) == <<c[1], c[2]>>

(* Of what the events S made: each active claim comes from an issue among  *)
(* them, and no two from the same.                                         *)
ClaimsSoFar(f, S) ==
  /\ f \in CState /\ IsFiniteSet(DOMAIN f)
  /\ \A c \in DOMAIN f : Len(c) >= 2 /\ \E d \in S \cap Issues : content[d].payload.claim = Root(c)
  /\ \A c, d \in DOMAIN f : Root(c) = Root(d) => c = d

AmountsIn(f) == [c \in DOMAIN f |-> f[c].amount]

LEMMA AmountsAdd ==
  \A f \in CState : IsFiniteSet(DOMAIN f) => Addable(AmountsIn(f), DOMAIN f)
  BY CStateIs DEF Addable, AmountsIn, Claim

LEMMA IssueStep ==
  ASSUME DagTypeOK(Payload), NumbersOnce, NEW S, NEW id \in DOMAIN content, id \notin S,
         NEW f, ClaimsSoFar(f, S), Type(id) = "claim-issue"
  PROVE  LET k == ApplyConservation(f, id)
         IN  /\ ClaimsSoFar(k, S \cup {id})
             /\ SumFunction(AmountsIn(k)) = SumFunction(AmountsIn(f)) + content[id].payload.amount
<1> DEFINE e == content[id].payload
           c == e.claim
           v == [owner |-> e.domain, amount |-> e.amount]
           k == ApplyConservation(f, id)
<1>1. c \in Replicas \X Nat /\ e.amount \in Nat /\ c \in ClaimIds /\ v.amount = e.amount
  BY ContentFields, ClaimIdIsSeq
<1>2. k = With(f, c, v)
  BY DEF ApplyConservation, Type
<1>3. k \in CState
  BY ApplyConservationType DEF ClaimsSoFar
<1>4. id \in Issues /\ Number(content[id]) = c[2]
  BY DEF Issues, Number
<1>5. Root(c) = c /\ Len(c) = 2
  BY <1>1 DEF Root
<1>6. \A b \in DOMAIN f : Root(b) # c
  <2> SUFFICES ASSUME NEW b \in DOMAIN f, Root(b) = c PROVE FALSE
    OBVIOUS
  <2>1. PICK d \in S \cap Issues : content[d].payload.claim = c
    BY DEF ClaimsSoFar
  <2>2. Number(content[d]) = Number(content[id])
    BY <2>1 DEF Number
  <2> QED BY <1>4, <2>1, <2>2 DEF NumbersOnce
<1>7. c \notin DOMAIN f
  BY <1>5, <1>6
<1> HIDE DEF k, v, c
<1>8. DOMAIN k = DOMAIN f \cup {c} /\ k[c] = v /\ \A b \in DOMAIN f : k[b] = f[b]
  BY <1>2, <1>7 DEF With
<1>9. ClaimsSoFar(k, S \cup {id})
  <2>1. IsFiniteSet(DOMAIN k)
    BY <1>8, FS_AddElement DEF ClaimsSoFar
  <2>2. \A b \in DOMAIN k :
          Len(b) >= 2 /\ \E d \in (S \cup {id}) \cap Issues : content[d].payload.claim = Root(b)
    <3>1. Len(c) >= 2 /\ content[id].payload.claim = Root(c)
      BY <1>5 DEF c
    <3> QED BY <1>4, <1>8, <3>1 DEF ClaimsSoFar
  <2>3. \A a, b \in DOMAIN k : Root(a) = Root(b) => a = b
    BY <1>5, <1>6, <1>8 DEF ClaimsSoFar
  <2> QED BY <1>3, <2>1, <2>2, <2>3 DEF ClaimsSoFar
<1>10. SumFunction(AmountsIn(k)) = SumFunction(AmountsIn(f)) + e.amount
  <2>1. Addable(AmountsIn(f), DOMAIN f) /\ DOMAIN AmountsIn(f) = DOMAIN f
    BY AmountsAdd DEF ClaimsSoFar, AmountsIn
  <2>2. /\ DOMAIN AmountsIn(k) = DOMAIN f \cup {c} /\ AmountsIn(k)[c] = e.amount
        /\ \A b \in DOMAIN f : AmountsIn(k)[b] = AmountsIn(f)[b]
    BY <1>1, <1>8 DEF AmountsIn
  <2>3. e.amount \in Int
    BY <1>1
  <2> HIDE DEF e
  <2> QED BY <1>7, <2>1, <2>2, <2>3, SumMore
<1> QED BY <1>9, <1>10 DEF k

LEMMA TransferStep ==
  ASSUME DagTypeOK(Payload), NEW S, NEW id \in DOMAIN content,
         NEW f, ClaimsSoFar(f, S), Type(id) = "transfer"
  PROVE  LET k == ApplyConservation(f, id)
         IN  ClaimsSoFar(k, S \cup {id}) /\ SumFunction(AmountsIn(k)) = SumFunction(AmountsIn(f))
<1> DEFINE e == content[id].payload
           c == e.claim
           n == Append(c, e.to)
           v == [f[c] EXCEPT !.owner = e.to]
           g == Without(f, c)
           k == ApplyConservation(f, id)
<1>1. k = ApplyTransfer(f, e)
  BY DEF ApplyConservation, Type
<1>2. k \in CState
  BY ApplyConservationType DEF ClaimsSoFar
<1>3. CASE ~(c \in DOMAIN f /\ f[c].owner = e.domain)
  <2>1. k = f
    BY <1>1, <1>3 DEF ApplyTransfer
  <2>2. \A a : ClaimsSoFar(a, S) => ClaimsSoFar(a, S \cup {id})
    BY DEF ClaimsSoFar
  <2> HIDE DEF k
  <2> QED BY <2>1, <2>2 DEF k
<1>4. CASE c \in DOMAIN f /\ f[c].owner = e.domain
  <2>1. k = With(g, n, v)
    BY <1>1, <1>4 DEF ApplyTransfer
  <2>2. c \in Seq(Owners \cup Nat) /\ Len(c) >= 2 /\ f[c] \in Claim
    BY <1>4, CStateIs DEF ClaimsSoFar, ClaimIds
  <2>3. v.amount = f[c].amount
    BY <2>2 DEF Claim
  <2>4. Len(n) = Len(c) + 1 /\ n[1] = c[1] /\ n[2] = c[2]
    BY <2>2
  <2>5. Root(n) = Root(c) /\ n # c /\ Len(n) >= 2
    BY <2>2, <2>4 DEF Root
  <2> HIDE DEF e, c, n, v, k
  <2>6. n \notin DOMAIN f /\ \A b \in DOMAIN f \ {c} : Root(b) # Root(n)
    BY <1>4, <2>5 DEF ClaimsSoFar
  <2>7. DOMAIN g = DOMAIN f \ {c} /\ \A b \in DOMAIN g : g[b] = f[b]
    BY DEF Without
  <2> HIDE DEF g
  <2>8. DOMAIN k = DOMAIN g \cup {n} /\ k[n] = v /\ \A b \in DOMAIN g : k[b] = g[b]
    BY <2>1, <2>6, <2>7 DEF With
  <2>9. IsFiniteSet(DOMAIN g)
    BY <2>7, FS_Subset DEF ClaimsSoFar
  <2>10. ClaimsSoFar(k, S \cup {id})
    <3>1. IsFiniteSet(DOMAIN k)
      BY <2>8, <2>9, FS_AddElement
    <3>2. \A b \in DOMAIN k :
            Len(b) >= 2 /\ \E d \in (S \cup {id}) \cap Issues : content[d].payload.claim = Root(b)
      <4> SUFFICES ASSUME NEW b \in DOMAIN k
                   PROVE  Len(b) >= 2 /\ \E d \in (S \cup {id}) \cap Issues : content[d].payload.claim = Root(b)
        OBVIOUS
      <4>1. PICK a \in DOMAIN f : Root(a) = Root(b) /\ Len(b) >= 2
        BY <1>4, <2>5, <2>7, <2>8 DEF ClaimsSoFar
      <4> QED BY <4>1 DEF ClaimsSoFar
    <3>3. \A a, b \in DOMAIN k : Root(a) = Root(b) => a = b
      BY <2>6, <2>7, <2>8 DEF ClaimsSoFar
    <3> QED BY <1>2, <3>1, <3>2, <3>3 DEF ClaimsSoFar
  <2>11. SumFunction(AmountsIn(g)) = SumFunction(AmountsIn(f)) - f[c].amount
    <3>1. Addable(AmountsIn(f), DOMAIN AmountsIn(f)) /\ DOMAIN AmountsIn(f) = DOMAIN f
      BY AmountsAdd DEF ClaimsSoFar, AmountsIn
    <3>2. /\ DOMAIN AmountsIn(g) = DOMAIN AmountsIn(f) \ {c} /\ AmountsIn(f)[c] = f[c].amount
          /\ \A b \in DOMAIN AmountsIn(g) : AmountsIn(g)[b] = AmountsIn(f)[b]
      BY <1>4, <2>7 DEF AmountsIn
    <3>3. c \in DOMAIN AmountsIn(f)
      BY <1>4, <3>1
    <3> QED BY <3>1, <3>2, <3>3, SumLess
  <2>12. SumFunction(AmountsIn(k)) = SumFunction(AmountsIn(g)) + f[c].amount
    <3>1. Addable(AmountsIn(g), DOMAIN g) /\ DOMAIN AmountsIn(g) = DOMAIN g
      <4>1. \A b \in DOMAIN g : f[b].amount \in Int
        BY <2>7, CStateIs DEF ClaimsSoFar, Claim
      <4> QED BY <2>7, <2>9, <4>1 DEF Addable, AmountsIn
    <3>2. /\ DOMAIN AmountsIn(k) = DOMAIN g \cup {n} /\ AmountsIn(k)[n] = f[c].amount
          /\ \A b \in DOMAIN g : AmountsIn(k)[b] = AmountsIn(g)[b]
      BY <2>3, <2>8 DEF AmountsIn
    <3>3. f[c].amount \in Int /\ n \notin DOMAIN g
      BY <2>2, <2>6, <2>7 DEF Claim
    <3> QED BY <3>1, <3>2, <3>3, SumMore
  <2>13. SumFunction(AmountsIn(f)) \in Int /\ f[c].amount \in Int
    BY <2>2, AmountsAdd, SumType DEF ClaimsSoFar, AmountsIn, SumFunction, Claim
  <2> QED BY <2>10, <2>11, <2>12, <2>13 DEF k
<1> QED BY <1>3, <1>4

Worth(g, f) == Net(g) + SumFunction(AmountsIn(f)) = SumFunction(BadAmounts(g))

LEMMA BadAdd ==
  ASSUME DagTypeOK(Payload)
  PROVE  \A g \in GState : g.rejected \subseteq DOMAIN content =>
           Addable(BadAmounts(g), Bad(g)) /\ DOMAIN BadAmounts(g) = Bad(g)
<1> SUFFICES ASSUME NEW g \in GState, g.rejected \subseteq DOMAIN content
             PROVE  Addable(BadAmounts(g), Bad(g)) /\ DOMAIN BadAmounts(g) = Bad(g)
  OBVIOUS
<1>1. IsFiniteSet(Ids)
  BY DagAssumption, FS_Interval DEF Ids
<1>2. Bad(g) \subseteq Ids
  BY DEF DagTypeOK, Bad
<1>3. \A id \in Bad(g) : content[id].payload.amount \in Int
  BY ContentFields DEF Bad
<1> QED BY <1>1, <1>2, <1>3, FS_Subset DEF Addable, BadAmounts

\* After each event of an order: what is rejected is among its events, and the views agree.
WorthStep(S, g, f) == ClaimsSoFar(f, S) /\ g.rejected \subseteq S /\ Worth(g, f)

LEMMA WorthKept ==
  ASSUME DagTypeOK(Payload), NumbersOnce, NEW S \in SUBSET DOMAIN content,
         NEW id \in DOMAIN content, id \notin S, NEW g \in GState, NEW f, WorthStep(S, g, f)
  PROVE  WorthStep(S \cup {id}, ApplyG(g, id), ApplyConservation(f, id))
<1> DEFINE h == ApplyG(g, id)
           k == ApplyConservation(f, id)
           a == content[id].payload.amount
<1>1. h \in GState /\ h.rejected \subseteq g.rejected \cup {id}
  BY ApplyGType, ApplyElsewhere
<1>2. h.rejected \subseteq S \cup {id}
  BY <1>1 DEF WorthStep
<1>3. ClaimsSoFar(f, S) /\ f \in CState /\ IsFiniteSet(DOMAIN f)
  BY DEF WorthStep, ClaimsSoFar
<1>4. SumFunction(AmountsIn(f)) \in Int
  BY <1>3, AmountsAdd, SumType DEF AmountsIn, SumFunction
<1>5. /\ Addable(BadAmounts(g), Bad(g)) /\ DOMAIN BadAmounts(g) = Bad(g)
      /\ Addable(BadAmounts(h), Bad(h)) /\ DOMAIN BadAmounts(h) = Bad(h)
  BY <1>1, <1>2, BadAdd DEF WorthStep
<1>6. SumFunction(BadAmounts(g)) \in Int /\ Net(g) \in Int
  BY <1>5, SumType, NetType DEF SumFunction, Net
<1>7. Net(g) + SumFunction(AmountsIn(f)) = SumFunction(BadAmounts(g))
  BY DEF WorthStep, Worth
<1>8. CASE Type(id) = "claim-issue"
  <2>1. ClaimsSoFar(k, S \cup {id}) /\ SumFunction(AmountsIn(k)) = SumFunction(AmountsIn(f)) + a
    BY <1>3, <1>8, IssueStep
  <2>2. \/ Net(h) = Net(g) - a /\ Bad(h) = Bad(g)
        \/ Net(h) = Net(g) /\ Bad(h) = Bad(g) \cup {id}
    BY <1>8, BalanceStep
  <2>3. a \in Int
    BY <1>8, ContentFields
  <2>4. id \notin Bad(g)
    BY DEF WorthStep, Bad
  <2>5. Bad(h) = Bad(g) => BadAmounts(h) = BadAmounts(g)
    BY DEF BadAmounts
  <2>6. Bad(h) = Bad(g) \cup {id} => SumFunction(BadAmounts(h)) = SumFunction(BadAmounts(g)) + a
    <3> SUFFICES ASSUME Bad(h) = Bad(g) \cup {id}
                 PROVE  SumFunction(BadAmounts(h)) = SumFunction(BadAmounts(g)) + a
      OBVIOUS
    <3>1. BadAmounts(h)[id] = a /\ \A b \in Bad(g) : BadAmounts(h)[b] = BadAmounts(g)[b]
      BY DEF BadAmounts
    <3> HIDE DEF h, a
    <3> QED BY <1>5, <2>3, <2>4, <3>1, SumMore
  <2> HIDE DEF h, k, a
  <2>7. Worth(h, k)
    BY <1>4, <1>6, <1>7, <2>1, <2>2, <2>3, <2>5, <2>6 DEF Worth
  <2> QED BY <1>2, <2>1, <2>7 DEF WorthStep, h, k
<1>9. CASE Type(id) # "claim-issue"
  <2>1. Net(h) = Net(g) /\ Bad(h) = Bad(g)
    BY <1>9, BalanceStep
  <2>2. ClaimsSoFar(k, S \cup {id}) /\ SumFunction(AmountsIn(k)) = SumFunction(AmountsIn(f))
    <3>1. CASE Type(id) = "transfer"
      BY <1>3, <3>1, TransferStep
    <3>2. CASE Type(id) # "transfer"
      <4>1. k = f
        BY <1>9, <3>2 DEF ApplyConservation, Type
      <4>2. ClaimsSoFar(f, S \cup {id})
        BY <1>3 DEF ClaimsSoFar
      <4> HIDE DEF k
      <4> QED BY <4>1, <4>2
    <3> QED BY <3>1, <3>2
  <2>3. BadAmounts(h) = BadAmounts(g)
    BY <2>1 DEF BadAmounts
  <2> HIDE DEF h, k
  <2>4. Worth(h, k)
    BY <1>7, <2>1, <2>2, <2>3 DEF Worth
  <2> QED BY <1>2, <2>2, <2>4 DEF WorthStep, h, k
<1> QED BY <1>8, <1>9

LEMMA InitialWorth == WorthStep({}, InitialG, [c \in {} |-> c])
<1> DEFINE none == [c \in {} |-> c]
           zero == [r \in Replicas |-> 0]
<1>1. ClaimsSoFar(none, {})
  BY CStateIs, FS_EmptySet DEF ClaimsSoFar
<1>2. InitialG.rejected = {} /\ InitialG.balance = zero /\ InitialG.used = zero
  BY DEF InitialG
<1>3. Net(InitialG) = 0
  <2>1. Addable(zero, Replicas) /\ DOMAIN zero = Replicas
    BY LedgerAssumption DEF Addable
  <2>2. SumFunction(zero) \in Int
    <3> HIDE DEF zero
    <3> QED BY <2>1, SumType DEF SumFunction
  <2> HIDE DEF zero
  <2> QED BY <1>2, <2>2 DEF Net
<1>4. SumFunction(AmountsIn(none)) = 0
  <2>1. DOMAIN AmountsIn(none) = {}
    BY DEF AmountsIn
  <2> HIDE DEF none
  <2> QED BY <2>1, SumEmpty DEF SumFunction
<1>5. SumFunction(BadAmounts(InitialG)) = 0
  <2>1. DOMAIN BadAmounts(InitialG) = {}
    BY <1>2 DEF BadAmounts, Bad
  <2> QED BY <2>1, SumEmpty DEF SumFunction
<1> HIDE DEF none
<1> QED BY <1>1, <1>2, <1>3, <1>4, <1>5 DEF WorthStep, Worth, none

LEMMA ViewsWorth ==
  ASSUME BaseInv, NumbersOnce, NEW r \in Replicas
  PROVE  /\ Worth(MaterializeG(r), MaterializeConservation(r))
         /\ MaterializeG(r) \in GState
         /\ SumFunction(AmountsIn(MaterializeConservation(r))) \in Int
<1> DEFINE order == TopoOrder(r)
           n == Len(order)
           g == GAlong(order)
           k == ClaimsAlong(order)
           T == {i \in 0 .. n : WorthStep(First(order, i), g[i], k[i])}
<1>1. /\ n \in Nat /\ g[0] = InitialG /\ First(order, 0) = {} /\ First(order, n) = dag[r]
      /\ MaterializeG(r) = g[n]
      /\ \A i \in 0 .. n : g[i] \in GState
      /\ \A i \in 1 .. n :
           /\ g[i] = ApplyG(g[i - 1], order[i])
           /\ order[i] \in DOMAIN content
           /\ order[i] \notin First(order, i - 1)
           /\ First(order, i) = First(order, i - 1) \cup {order[i]}
  BY Along
<1>2. MaterializeConservation(r) = k[n]
  BY DEF MaterializeConservation
<1> HIDE DEF order, n, g
<1>3. k[0] = [c \in {} |-> c] /\ \A i \in 1 .. n : k[i] = ApplyConservation(k[i - 1], order[i])
  BY <1>1, ClaimsAlongIs, BaseFields DEF n
<1>4. \A i \in 0 .. n : First(order, i) \in SUBSET DOMAIN content
  BY <1>1 DEF First
<1> HIDE DEF k
<1>0. WorthStep(First(order, 0), g[0], k[0])
  <2> HIDE DEF T
  <2> DEFINE none == [c \in {} |-> c]
  <2>1. WorthStep({}, InitialG, none)
    BY InitialWorth
  <2>2. k[0] = none
    BY <1>3
  <2> HIDE DEF none
  <2> QED BY <1>1, <2>1, <2>2
<1>5. 0 \in T
  <2>1. 0 \in 0 .. n
    BY <1>1
  <2> QED BY <1>0, <2>1
<1>6. ASSUME NEW i \in 0 .. (n - 1), i \in T PROVE i + 1 \in T
  <2> DEFINE S == First(order, i)
             id == order[i + 1]
  <2>1. i + 1 \in 1 .. n /\ (i + 1) - 1 = i /\ i \in 0 .. n
    BY <1>1
  <2>2. /\ g[i + 1] = ApplyG(g[i], id) /\ k[i + 1] = ApplyConservation(k[i], id)
        /\ id \in DOMAIN content /\ id \notin S /\ First(order, i + 1) = S \cup {id}
    BY <1>1, <1>3, <2>1
  <2>3. S \in SUBSET DOMAIN content /\ g[i] \in GState /\ WorthStep(S, g[i], k[i])
    BY <1>1, <1>4, <1>6, <2>1
  <2> HIDE DEF S, id
  <2>4. WorthStep(S \cup {id}, ApplyG(g[i], id), ApplyConservation(k[i], id))
    BY <2>2, <2>3, WorthKept, BaseFields
  <2>5. WorthStep(First(order, i + 1), g[i + 1], k[i + 1])
    BY <2>2, <2>4
  <2> QED BY <2>1, <2>5
<1>7. n \in T
  <2>1. 0 .. n \subseteq T
    <3> HIDE DEF T
    <3> QED BY <1>1, <1>5, <1>6, Induction
  <2> QED BY <1>1, <2>1
<1>8. WorthStep(dag[r], g[n], k[n])
  BY <1>1, <1>7
<1>9. SumFunction(AmountsIn(k[n])) \in Int
  BY <1>8, AmountsAdd, SumType DEF AmountsIn, SumFunction, WorthStep, ClaimsSoFar
<1>10. g[n] \in GState
  BY <1>1
<1> QED BY <1>1, <1>2, <1>8, <1>9, <1>10 DEF WorthStep

(* Balances and active claims are two folds over the same events that never *)
(* meet: whatever domains, handlers, merges and reloads do, in every        *)
(* replica's view they are worth together what was ever issued, and more    *)
(* only by the issues the balance fold rejected.                            *)
THEOREM Balanced == Spec => []ViewsBalance
<1>1. BaseInv /\ NumbersOnce => ViewsBalance
  <2> SUFFICES ASSUME BaseInv, NumbersOnce, NEW r \in Replicas
               PROVE  LET g == MaterializeG(r)
                          bad == {id \in g.rejected : Type(id) = "claim-issue"}
                      IN  SumFunction(g.balance) + Claimed(r) =
                            SumFunction(g.used) + SumFunction([id \in bad |-> content[id].payload.amount])
    BY DEF ViewsBalance
  <2> DEFINE g == MaterializeG(r)
             f == MaterializeConservation(r)
  <2>1. Worth(g, f) /\ g \in GState
    BY ViewsWorth
  <2>2. Claimed(r) = SumFunction(AmountsIn(f))
    BY DEF Claimed, AmountsIn
  <2> HIDE DEF g, f
  <2>3. SumFunction(g.balance) \in Int /\ SumFunction(g.used) \in Int
    BY <2>1, NetType
  <2>4. SumFunction(AmountsIn(f)) \in Int
    BY ViewsWorth DEF f
  <2>5. SumFunction(g.balance) - SumFunction(g.used) + Claimed(r) = SumFunction(BadAmounts(g))
    BY <2>1, <2>2 DEF Worth, Net
  <2>6. SumFunction(g.balance) + Claimed(r) = SumFunction(g.used) + SumFunction(BadAmounts(g))
    BY <2>2, <2>3, <2>4, <2>5
  <2> QED BY <2>6 DEF Bad, BadAmounts, g
<1> QED BY <1>1, NumbersInvariance, PTL

-----------------------------------------------------------------------------
(* The epoch an event stands for                                           *)

\* An event's epochs to choose from, if it has none of its own.
Behind(id) ==
  {0} \cup {content[c].payload.epoch : c \in
              {p \in Ancestors[id] : Type(p) = "cadence" /\ Domain(p) = Domain(id)}}

LEMMA BehindIs ==
  ASSUME BaseInv, NEW id \in DOMAIN content
  PROVE  Behind(id) \in SUBSET Nat /\ IsFiniteSet(Behind(id)) /\ 0 \in Behind(id)
<1> DEFINE C == {p \in Ancestors[id] : Type(p) = "cadence" /\ Domain(p) = Domain(id)}
           E == {content[c].payload.epoch : c \in C}
<1>1. Ancestors[id] \subseteq DOMAIN content /\ DOMAIN content \subseteq Ids
  BY BaseFields, AncestorsKnown DEF DagInv
<1>2. \A c \in C : content[c].payload.epoch \in Nat
  BY <1>1, BaseFields, ContentFields
<1>3. IsFiniteSet(Ids)
  BY FS_Interval, DagAssumption DEF Ids
<1>4. C \subseteq Ids /\ IsFiniteSet(C)
  BY <1>1, <1>3, FS_Subset
<1>5. IsFiniteSet(E)
  <2> DEFINE f == [c \in C |-> content[c].payload.epoch]
  <2>1. f \in Surjection(C, E)
    BY DEF Surjection
  <2> HIDE DEF C, E, f
  <2> QED BY <1>4, <2>1, FS_Surjection
<1>6. IsFiniteSet(E \cup {0})
  BY <1>5, FS_AddElement
<1>7. Behind(id) = E \cup {0}
  BY DEF Behind
<1> QED BY <1>2, <1>6, <1>7

\* It is the latest epoch behind an event, or its own.
LEMMA SourceEpochIs ==
  ASSUME BaseInv, NEW id \in DOMAIN content
  PROVE  /\ SourceEpoch(id) \in Nat
         /\ Type(id) = "cadence" => SourceEpoch(id) = Epoch(id)
         /\ Type(id) # "cadence" =>
              /\ \A c \in Ancestors[id] :
                   Type(c) = "cadence" /\ Domain(c) = Domain(id) => Epoch(c) <= SourceEpoch(id)
              /\ \/ SourceEpoch(id) = 0
                 \/ \E c \in Ancestors[id] : /\ Type(c) = "cadence" /\ Domain(c) = Domain(id)
                                             /\ SourceEpoch(id) = Epoch(c)
<1>1. CASE Type(id) = "cadence"
  <2>1. Epoch(id) \in Nat
    BY <1>1, BaseFields, ContentFields DEF Epoch
  <2> QED BY <1>1, <2>1 DEF SourceEpoch, Epoch
<1>2. CASE Type(id) # "cadence"
  <2>1. SourceEpoch(id) = Max(Behind(id))
    BY <1>2 DEF SourceEpoch, Behind
  <2>2. Max(Behind(id)) \in Behind(id) /\ \A x \in Behind(id) : x <= Max(Behind(id))
    BY BehindIs, MaxOf
  <2>3. \A c \in Ancestors[id] : Type(c) = "cadence" /\ Domain(c) = Domain(id) => Epoch(c) \in Behind(id)
    BY DEF Behind, Epoch
  <2>4. \A x \in Behind(id) :
          x = 0 \/ \E c \in Ancestors[id] : Type(c) = "cadence" /\ Domain(c) = Domain(id) /\ x = Epoch(c)
    BY DEF Behind, Epoch
  <2>5. SourceEpoch(id) \in Nat
    BY <2>1, <2>2, BehindIs
  <2> HIDE DEF Behind
  <2> QED BY <1>2, <2>1, <2>2, <2>3, <2>4, <2>5
<1> QED BY <1>1, <1>2

\* Each event of a domain's cadence is behind all later ones.
LEMMA CadenceInOrder ==
  ASSUME BaseInv, NEW s, CadenceChain(s), NEW c \in Cads(s), NEW d \in Cads(s), Epoch(c) < Epoch(d)
  PROVE  c \in Ancestors[d]
<1>0. DagInv /\ \A x \in Cads(s) : x \in DOMAIN content /\ Epoch(x) \in Nat /\ Epoch(x) > 0
  BY BaseFields, ContentFields DEF Cads, Wrote, Epoch, CadenceChain
<1> DEFINE T == {x \in Cads(s) : Epoch(c) < Epoch(x) /\ c \notin Ancestors[x]}
<1> SUFFICES ASSUME T # {} PROVE FALSE
  OBVIOUS
<1>1. PICK x \in T : Parents(x) \cap T = {}
  <2>1. T \in SUBSET DOMAIN content
    BY <1>0
  <2> HIDE DEF T
  <2> QED BY <1>0, <2>1 DEF DagInv, Acyclic
<1>2. Epoch(x) > 1
  BY <1>0
<1>3. PICK p \in Cads(s) \cap Parents(x) : Epoch(p) + 1 = Epoch(x)
  BY <1>2 DEF CadenceChain
<1>4. p \in Ancestors[x] /\ Ancestors[p] \subseteq Ancestors[x]
  BY <1>0, <1>3, AncestorsOf
<1>5. CASE Epoch(c) = Epoch(p)
  BY <1>4, <1>5 DEF CadenceChain
<1>6. CASE Epoch(c) < Epoch(p)
  <2>1. c \in Ancestors[p]
    BY <1>1, <1>3, <1>6
  <2> QED BY <1>4, <2>1
<1> QED BY <1>0, <1>3, <1>5, <1>6

\* Along a domain's history the epoch never goes down.
LEMMA EpochGrows ==
  ASSUME BaseInv, NEW s, CadenceChain(s), NEW a \in Wrote(s), NEW b \in Wrote(s), a \in Ancestors[b]
  PROVE  SourceEpoch(a) <= SourceEpoch(b)
<1>1. /\ DagInv /\ a \in DOMAIN content /\ b \in DOMAIN content /\ Domain(a) = s /\ Domain(b) = s
      /\ Ancestors[a] \subseteq Ancestors[b] /\ Ancestors[b] \subseteq DOMAIN content
  BY BaseFields, AncestorsTransitive, AncestorsKnown DEF Wrote
<1>2. SourceEpoch(a) \in Nat /\ SourceEpoch(b) \in Nat /\ \A c \in Cads(s) : Epoch(c) \in Nat
  BY <1>1, SourceEpochIs, BaseFields, ContentFields DEF Cads, Wrote, Epoch
<1>3. ASSUME NEW c \in Cads(s), c \in Ancestors[b] PROVE Epoch(c) <= SourceEpoch(b)
  <2>1. Type(c) = "cadence" /\ Domain(c) = s /\ c \in DOMAIN content
    BY DEF Cads, Wrote
  <2>2. CASE Type(b) # "cadence"
    BY <1>1, <1>3, <2>1, <2>2, SourceEpochIs
  <2>3. CASE Type(b) = "cadence"
    <3>1. b \in Cads(s) /\ SourceEpoch(b) = Epoch(b)
      BY <1>1, <2>3, SourceEpochIs DEF Cads
    <3>2. ~(Epoch(b) < Epoch(c))
      <4> SUFFICES ASSUME Epoch(b) < Epoch(c) PROVE FALSE
        OBVIOUS
      <4>1. b \in Ancestors[c]
        BY <3>1, CadenceInOrder
      <4>2. b \in Ancestors[b]
        BY <1>1, <1>3, <4>1, AncestorsTransitive
      <4> QED BY <1>1, <4>2, AncestorsIrreflexive
    <3> QED BY <1>2, <3>1, <3>2
  <2> QED BY <2>2, <2>3
<1>4. SourceEpoch(a) = 0 \/ \E c \in Cads(s) : c \in Ancestors[b] /\ SourceEpoch(a) = Epoch(c)
  <2>1. CASE Type(a) = "cadence"
    BY <1>1, <2>1, SourceEpochIs DEF Cads
  <2>2. CASE Type(a) # "cadence"
    BY <1>1, <2>2, SourceEpochIs DEF Cads, Wrote
  <2> QED BY <2>1, <2>2
<1> QED BY <1>2, <1>3, <1>4
-----------------------------------------------------------------------------
(* What is reported                                                        *)

\* What r reports, once it has it.
Foreign(r, id) == Type(id) # "transfer" /\ Domain(id) # r

Refs(id) == content[id].payload.refs
Reports(r) == {id \in Wrote(r) : Type(id) = "reception"}
Importing(r) == {h \in Handlers : running[h].kind \in {"importing", "reception"} /\ running[h].at = r}

(* Whoever knows a report knows what it names, which is another domain's;  *)
(* and so it is for a report in progress.                                  *)
ReportsKnown ==
  /\ \A r \in Replicas : \A id \in dag[r] : Type(id) = "reception" => Refs(id) \subseteq dag[r]
  /\ \A r \in Replicas : \A id \in Reports(r) : \A i \in Refs(id) : Foreign(r, i)
  /\ \A r \in Replicas : \A h \in Importing(r) :
       /\ running[h].more \subseteq dag[r]
       /\ \A i \in running[h].more : Foreign(r, i)
       /\ running[h].kind = "reception" => running[h].event.payload.refs = running[h].more

\* S has all that r should report before what is in it.
Whole(r, S) == \A i \in S : \A a \in Ancestors[i] : Foreign(r, a) => a \in S

\* No later report names what an earlier one did, or what is behind that.
Onward(r) ==
  \A d, e \in Reports(r) : d \in Ancestors[e] =>
    \A i \in Refs(d), j \in Refs(e) : j # i /\ j \notin Ancestors[i]

(* What r has reported is in committed, which is whole, and would still be *)
(* with what a handler is about to report, all of which is new.            *)
ReportsNew(r) ==
  /\ \A id \in Reports(r) : Refs(id) \subseteq committed[r]
  /\ committed[r] \subseteq dag[r] /\ Whole(r, committed[r])
  /\ \A h \in Importing(r) : /\ running[h].more \cap committed[r] = {}
                             /\ Whole(r, committed[r] \cup running[h].more)
  /\ Onward(r)

ReportInv ==
  /\ ReportsKnown
  /\ raced \subseteq forked
  /\ \A r \in Replicas \ forked : ReportsNew(r)

\* Nothing is added, and handlers report no more than they were about to.
LEMMA ReportsSame ==
  ASSUME BaseInv, ReportInv, content' = content, committed' = committed,
         forked \subseteq forked', raced' \subseteq forked',
         \A r \in Replicas : dag[r] \subseteq dag'[r],
         \A r \in Replicas : \A id \in dag'[r] :
           \E s \in Replicas : id \in dag[s] /\ dag[s] \subseteq dag'[r],
         \A r \in Replicas : \A h \in Importing(r)' :
           /\ h \in Importing(r) /\ running'[h].more = running[h].more
           /\ \/ running'[h] = running[h]
              \/ running'[h].event.payload.refs = running[h].more
  PROVE  ReportInv'
<1>1. /\ \A id : Refs(id)' = Refs(id) /\ Type(id)' = Type(id) /\ Domain(id)' = Domain(id)
      /\ \A r, id : Foreign(r, id)' <=> Foreign(r, id)
      /\ Ancestors' = Ancestors
  BY AncestorsSame DEF Refs, Type, Domain, Foreign
<1>2. \A r \in Replicas : Reports(r)' = Reports(r)
  BY DEF Reports, Wrote, Type, Domain
<1>3. ReportsKnown'
  <2>1. \A r \in Replicas : \A id \in dag'[r] : Type(id) = "reception" => Refs(id) \subseteq dag'[r]
    BY DEF ReportInv, ReportsKnown
  <2>2. \A r \in Replicas : \A h \in Importing(r)' :
          /\ running'[h].more \subseteq dag'[r]
          /\ \A i \in running'[h].more : Foreign(r, i)
          /\ running'[h].kind = "reception" => running'[h].event.payload.refs = running'[h].more
    <3> TAKE r \in Replicas
    <3> TAKE h \in Importing(r)'
    <3>1. /\ h \in Importing(r) /\ running'[h].more = running[h].more
          /\ running'[h] = running[h] \/ running'[h].event.payload.refs = running[h].more
      OBVIOUS
    <3>2. /\ running[h].more \subseteq dag[r] /\ \A i \in running[h].more : Foreign(r, i)
          /\ running[h].kind = "reception" => running[h].event.payload.refs = running[h].more
      BY <3>1 DEF ReportInv, ReportsKnown
    <3>3. dag[r] \subseteq dag'[r]
      OBVIOUS
    <3> HIDE DEF Importing
    <3> QED BY <3>1, <3>2, <3>3
  <2> HIDE DEF Importing, Reports, Refs, Foreign
  <2>3. \A r \in Replicas : \A id \in Reports(r) : \A i \in Refs(id) : Foreign(r, i)
    BY DEF ReportInv, ReportsKnown
  <2> QED BY <1>1, <1>2, <2>1, <2>2, <2>3 DEF ReportsKnown
<1>4. ASSUME NEW r \in Replicas, r \notin forked' PROVE ReportsNew(r)'
  <2>1. ReportsNew(r)
    BY <1>4 DEF ReportInv
  <2>2. \A S : Whole(r, S)' <=> Whole(r, S)
    BY <1>1 DEF Whole
  <2>3. Whole(r, committed[r])' <=> Whole(r, committed[r])
    BY <1>1 DEF Whole
  <2>4. Onward(r)'
    BY <1>1, <1>2, <2>1 DEF Onward, ReportsNew
  <2>5. \A h \in Importing(r)' : /\ running'[h].more \cap committed'[r] = {}
                                 /\ Whole(r, committed[r] \cup running[h].more)'
    <3> TAKE h \in Importing(r)'
    <3>1. h \in Importing(r) /\ running'[h].more = running[h].more
      OBVIOUS
    <3>2. Whole(r, committed[r] \cup running[h].more) /\ running[h].more \cap committed[r] = {}
      BY <2>1, <3>1 DEF ReportsNew
    <3>3. Whole(r, committed[r] \cup running[h].more)' <=> Whole(r, committed[r] \cup running[h].more)
      BY <1>1, <3>1 DEF Whole
    <3> QED BY <3>1, <3>2, <3>3
  <2>6. committed[r] \subseteq dag'[r]
    <3>1. committed[r] \subseteq dag[r] /\ dag[r] \subseteq dag'[r]
      BY <2>1 DEF ReportsNew
    <3> QED BY <3>1
  <2> QED BY <1>1, <1>2, <2>1, <2>3, <2>4, <2>5, <2>6 DEF ReportsNew
<1> QED BY <1>3, <1>4 DEF ReportInv

\* A handler that starts has nothing to report yet.
LEMMA BeginsReports ==
  ASSUME BaseInv, ReportInv, NEW h \in Handlers, NEW r \in Replicas, NEW c, Begins(h, r, c)
  PROVE  ReportInv'
<1>1. /\ running[h] = Idle /\ running' = [running EXCEPT ![h] = c] /\ c.kind \in Started
      /\ Starts(h, r) /\ committed' = committed
  BY DEF Begins
<1>2. content' = content /\ dag' = dag
  BY <1>1 DEF Starts, dagVars
<1>3. forked \subseteq forked' /\ raced' \subseteq forked'
  BY <1>1 DEF Starts, ReportInv
<1>4. /\ running'[h].kind \notin {"importing", "reception"}
      /\ \A o \in Handlers \ {h} : running'[o] = running[o]
  BY <1>1, BaseFields DEF Started
<1>5. \A q \in Replicas : \A o \in Importing(q)' : o \in Importing(q) /\ running'[o] = running[o]
  BY <1>4 DEF Importing
<1> HIDE DEF Importing
<1> QED BY <1>1, <1>2, <1>3, <1>5, ReportsSame

\* The report is what was new when the cadence was added.
LEMMA ReceptionStartsReports ==
  ASSUME BaseInv, ReportInv, NEW h \in Handlers, ReceptionStarts(h)
  PROVE  ReportInv'
<1>1. /\ running[h].kind = "importing"
      /\ running' = [running EXCEPT ![h] =
           [kind |-> "reception", at |-> running[h].at,
            event |-> [parents |-> {lastEventId[running[h].at]},
                       payload |-> Reception(running[h].at, running[h].event.payload.epoch,
                                             running[h].more)],
            more |-> running[h].more]]
      /\ UNCHANGED <<content, dag, committed, forked, raced>>
  BY DEF ReceptionStarts, AddEvent, dagVars
<1>2. /\ running'[h].more = running[h].more /\ running'[h].at = running[h].at
      /\ running'[h].event.payload.refs = running[h].more
      /\ \A o \in Handlers \ {h} : running'[o] = running[o]
  BY <1>1, BaseFields DEF Reception
<1>3. \A q \in Replicas : \A o \in Importing(q)' :
        /\ o \in Importing(q) /\ running'[o].more = running[o].more
        /\ running'[o] = running[o] \/ running'[o].event.payload.refs = running[o].more
  BY <1>1, <1>2 DEF Importing
<1>4. forked \subseteq forked' /\ raced' \subseteq forked'
  BY <1>1 DEF ReportInv
<1> HIDE DEF Importing
<1> QED BY <1>1, <1>3, <1>4, ReportsSame

LEMMA IdleReports ==
  ASSUME BaseInv, ReportInv, UNCHANGED <<content, dag, committed, running, forked, raced>>
  PROVE  ReportInv'
<1>1. \A q \in Replicas : \A o \in Importing(q)' : o \in Importing(q) /\ running'[o] = running[o]
  BY DEF Importing
<1>2. forked \subseteq forked' /\ raced' \subseteq forked'
  BY DEF ReportInv
<1> HIDE DEF Importing
<1> QED BY <1>1, <1>2, ReportsSame

\* What is merged in comes with the DAG it was in, whole.
LEMMA SyncReports ==
  ASSUME BaseInv, ReportInv, NEW r \in Replicas, NEW s \in Replicas, Sync(r, s)
  PROVE  ReportInv'
<1>1. /\ dag' = [dag EXCEPT ![r] = @ \cup dag[s], ![s] = @ \cup dag[r]]
      /\ UNCHANGED <<content, committed, running, forked, raced>>
  BY DEF Sync, MergeBothWays
<1>2. \A q \in Replicas : dag[q] \subseteq dag'[q]
  BY <1>1, BaseFields DEF DagInv
<1>3. \A q \in Replicas : \A id \in dag'[q] :
        \E p \in Replicas : id \in dag[p] /\ dag[p] \subseteq dag'[q]
  BY <1>1, BaseFields DEF DagInv
<1>4. \A q \in Replicas : \A o \in Importing(q)' : o \in Importing(q) /\ running'[o] = running[o]
  BY <1>1 DEF Importing
<1>5. forked \subseteq forked' /\ raced' \subseteq forked'
  BY <1>1 DEF ReportInv
<1> HIDE DEF Importing
<1> QED BY <1>1, <1>2, <1>3, <1>4, <1>5, ReportsSame

(* A reload forgets what was reported; if its domain is not to be blamed   *)
(* for guessing its tip, it knows nothing it could have reported.          *)
LEMMA ReloadReports ==
  ASSUME BaseInv, ReportInv, NEW q \in Replicas, Reload(q)
  PROVE  ReportInv'
<1>1. /\ UNCHANGED <<content, dag, raced>>
      /\ committed' = [committed EXCEPT ![q] = {}]
      /\ running' = [h \in Handlers |-> IF running[h] # Idle /\ running[h].at = q THEN Idle
                                        ELSE running[h]]
      /\ forked' = IF \E id \in dag[q] : Domain(id) # q THEN forked \cup {q} ELSE forked
  BY DEF Reload, dagVars
<1>2. \A r \in Replicas : \A h \in Importing(r)' :
        r # q /\ h \in Importing(r) /\ running'[h] = running[h]
  BY <1>1 DEF Importing, Idle
<1>3. /\ \A id : Refs(id)' = Refs(id) /\ Type(id)' = Type(id) /\ Domain(id)' = Domain(id)
      /\ \A r, id : Foreign(r, id)' <=> Foreign(r, id)
      /\ Ancestors' = Ancestors
  BY <1>1, AncestorsSame DEF Refs, Type, Domain, Foreign
<1>4. \A r \in Replicas : Reports(r)' = Reports(r) /\ (Onward(r) => Onward(r)')
  <2>1. \A r : Reports(r)' = Reports(r)
    BY <1>1 DEF Reports, Wrote, Type, Domain
  <2> QED BY <1>3, <2>1 DEF Onward
<1>5. forked \subseteq forked' /\ raced' \subseteq forked'
  BY <1>1 DEF ReportInv
<1>6. ReportsKnown'
  <2> HIDE DEF Importing, Reports, Refs, Foreign
  <2>1. \A r \in Replicas : \A id \in Reports(r) : \A i \in Refs(id) : Foreign(r, i)
    BY DEF ReportInv, ReportsKnown
  <2>2. \A r \in Replicas : \A id \in dag[r] : Type(id) = "reception" => Refs(id) \subseteq dag[r]
    BY DEF ReportInv, ReportsKnown
  <2>3. \A r \in Replicas : \A h \in Importing(r)' :
          /\ running[h].more \subseteq dag[r]
          /\ \A i \in running[h].more : Foreign(r, i)
          /\ running[h].kind = "reception" => running[h].event.payload.refs = running[h].more
    BY <1>2 DEF ReportInv, ReportsKnown
  <2> QED BY <1>1, <1>2, <1>3, <1>4, <2>1, <2>2, <2>3 DEF ReportsKnown
<1>7. ASSUME NEW r \in Replicas, r \notin forked' PROVE ReportsNew(r)'
  <2>1. ReportsNew(r)
    BY <1>5, <1>7 DEF ReportInv
  <2>2. CASE r = q
    <3>1. \A id \in dag[q] : Domain(id) = q
      BY <1>1, <1>7, <2>2
    <3>2. ASSUME NEW id \in Reports(q) PROVE Refs(id) = {}
      <4>1. id \in dag[q] /\ Type(id) = "reception"
        BY WroteIsOwn DEF Reports, Own
      <4>2. Refs(id) \subseteq dag[q] /\ \A i \in Refs(id) : Foreign(q, i)
        BY <4>1 DEF ReportInv, ReportsKnown
      <4> QED BY <3>1, <4>2 DEF Foreign
    <3>3. committed'[r] = {}
      BY <1>1, <2>2 DEF BaseInv, TypeOK
    <3>4. Whole(r, {})'
      BY DEF Whole
    <3>5. Importing(r)' = {}
      BY <1>2, <2>2
    <3>6. \A id \in Reports(r)' : Refs(id)' = {}
      BY <1>3, <1>4, <2>2, <3>2
    <3>7. Onward(r)'
      BY <1>4, <2>1 DEF ReportsNew
    <3>8. Whole(r, committed[r])'
      BY <3>3 DEF Whole
    <3> HIDE DEF Importing, Reports, Refs, Whole
    <3> QED BY <3>3, <3>5, <3>6, <3>7, <3>8 DEF ReportsNew
  <2>3. CASE r # q
    <3>1. committed'[r] = committed[r] /\ dag' = dag
      BY <1>1, <2>3 DEF BaseInv, TypeOK
    <3>2. Whole(r, committed[r])' <=> Whole(r, committed[r])
      BY <1>3, <3>1 DEF Whole
    <3>3. \A h \in Importing(r)' : /\ running'[h].more \cap committed'[r] = {}
                                   /\ Whole(r, committed[r] \cup running[h].more)'
      <4> TAKE h \in Importing(r)'
      <4>1. h \in Importing(r) /\ running'[h] = running[h]
        BY <1>2
      <4>2. Whole(r, committed[r] \cup running[h].more) /\ running[h].more \cap committed[r] = {}
        BY <2>1, <4>1 DEF ReportsNew
      <4>3. Whole(r, committed[r] \cup running[h].more)' <=> Whole(r, committed[r] \cup running[h].more)
        BY <1>3, <3>1, <4>1 DEF Whole
      <4> QED BY <3>1, <4>1, <4>2, <4>3
    <3>4. \A id \in Reports(r)' : Refs(id)' \subseteq committed'[r]
      BY <1>3, <1>4, <2>1, <3>1 DEF ReportsNew
    <3>5. Onward(r)'
      BY <1>4, <2>1 DEF ReportsNew
    <3>6. committed'[r] \subseteq dag'[r]
      BY <2>1, <3>1 DEF ReportsNew
    <3> HIDE DEF Importing, Reports, Refs
    <3> QED BY <2>1, <3>2, <3>3, <3>4, <3>5, <3>6 DEF ReportsNew
  <2> QED BY <2>2, <2>3
<1> QED BY <1>5, <1>6, <1>7 DEF ReportInv

\* What there was to report, by whom and after what, an insertion leaves alone.
LEMMA InsertReports ==
  ASSUME BaseInv, BaseInv', NEW e, NEW id, HashIs(e, id)
  PROVE  /\ \A i \in DOMAIN content :
              /\ Refs(i)' = Refs(i) /\ Type(i)' = Type(i) /\ Domain(i)' = Domain(i)
              /\ Ancestors'[i] = Ancestors[i] /\ Ancestors[i] \subseteq DOMAIN content
              /\ \A r : Foreign(r, i)' <=> Foreign(r, i)
         /\ DOMAIN content' = DOMAIN content \cup {id}
         /\ Refs(id)' = e.payload.refs /\ Type(id)' = e.payload.type /\ Domain(id)' = e.payload.domain
         /\ id \notin DOMAIN content \/ content[id] = e
         /\ id \notin Ancestors'[id]
<1>1. /\ DOMAIN content' = DOMAIN content \cup {id}
      /\ \A i \in DOMAIN content : content'[i] = content[i]
      /\ content'[id] = e
  BY HashFacts, BaseFields
<1>2. DagInv /\ DagInv'
  BY DEF BaseInv
<1>3. \A i \in DOMAIN content : Ancestors'[i] = Ancestors[i] /\ Ancestors[i] \subseteq DOMAIN content
  BY <1>2, AncestorsStay, AncestorsKnown
<1>4. \A i \in DOMAIN content : Refs(i)' = Refs(i) /\ Type(i)' = Type(i) /\ Domain(i)' = Domain(i)
  BY <1>1 DEF Refs, Type, Domain
<1>5. \A i \in DOMAIN content : \A r : Foreign(r, i)' <=> Foreign(r, i)
  BY <1>4 DEF Foreign
<1>6. id \notin Ancestors'[id]
  BY <1>1, <1>2, AncestorsIrreflexiveNext
<1>7. Refs(id)' = e.payload.refs /\ Type(id)' = e.payload.type /\ Domain(id)' = e.payload.domain
  BY <1>1 DEF Refs, Type, Domain
<1>8. id \notin DOMAIN content \/ content[id] = e
  BY <1>1
<1> QED BY <1>1, <1>3, <1>4, <1>5, <1>6, <1>7, <1>8

\* What an added event means to the reports: the facts that matter below.
LEMMA AddedReports ==
  ASSUME BaseInv, BaseInv', ReportInv, NEW h \in Handlers, NEW id, NEW c, GoesOnAs(h, id, c),
         NEW q, q = running[h].at
  PROVE  /\ q \in Replicas
         /\ \A r \in Replicas \ {q} : Reports(r)' = Reports(r) /\ Importing(r)' = Importing(r)
                                      /\ committed'[r] = committed[r]
         /\ \A r \in Replicas : dag[r] \subseteq dag'[r] /\ dag'[r] \subseteq dag[r] \cup {id}
         /\ \A r \in Replicas \ {q} : dag'[r] = dag[r]
         /\ \A o \in Handlers \ {h} : running'[o] = running[o]
         /\ \A o \in Importing(q)' : \/ o \in Importing(q) /\ o # h
                                     \/ /\ o = h /\ running[h].kind = "cadence"
                                        /\ running'[h].kind = "importing"
                                        /\ running'[h].more = NewForeign(q, dag[q])
         /\ IF running[h].kind = "reception"
            THEN /\ h \in Importing(q) /\ Refs(id)' = running[h].more
                 /\ Reports(q)' = Reports(q) \cup {id}
                 /\ committed'[q] = committed[q] \cup running[h].more
            ELSE Reports(q)' = Reports(q) /\ committed'[q] = committed[q]
         /\ Type(id)' = "reception" => running[h].kind = "reception" /\ Refs(id)' = running[h].more
         /\ forked' = forked /\ raced' = raced
<1> DEFINE old == running[h]
           e == old.event
<1>1. /\ old \in Call \ {Idle} /\ old.kind # "importing" /\ Insert(q, e, id)
      /\ running' = [running EXCEPT ![h] = c]
      /\ c # Idle => c.at = q
      /\ old.kind # "cadence" /\ c # Idle => c.kind \in Started
      /\ old.kind = "cadence" => c.kind = "importing"
      /\ c.kind = "importing" => c.more = NewForeign(q, dag[q])
      /\ committed' = IF old.kind = "reception" THEN [committed EXCEPT ![q] = @ \cup old.more]
                      ELSE committed
      /\ forked' = forked /\ raced' = raced
  BY DEF GoesOnAs
<1>2. /\ q \in Replicas /\ e \in Event(Payload) /\ e.payload.domain = q /\ e.parents \subseteq dag[q]
      /\ e.payload.type = EventOf[old.kind]
      /\ old.kind \in {"cadence", "importing", "reception", "accrual", "issue", "transfer"}
  BY <1>1, OldCall
<1>3. e.payload.type = "reception" <=> old.kind = "reception"
  BY <1>2 DEF EventOf
<1>4. running'[h] = c /\ \A o \in Handlers \ {h} : running'[o] = running[o]
  BY <1>1, BaseFields
<1>5. HashIs(e, id)
  BY <1>1 DEF Insert
<1>6. /\ DOMAIN content' = DOMAIN content \cup {id}
      /\ \A i \in DOMAIN content : Refs(i)' = Refs(i) /\ Type(i)' = Type(i) /\ Domain(i)' = Domain(i)
      /\ Refs(id)' = e.payload.refs /\ Type(id)' = e.payload.type /\ Domain(id)' = e.payload.domain
  BY <1>5, InsertReports
<1>7. /\ dag'[q] = dag[q] \cup {id} /\ \A r \in Replicas \ {q} : dag'[r] = dag[r]
  BY <1>1, <1>2, InsertDag, BaseFields
<1>8. c # Idle => c.kind \notin {"importing", "reception"} \/ old.kind = "cadence"
  BY <1>1 DEF Started
<1>9. Idle.kind \notin {"importing", "reception"}
  BY DEF Idle
<1>10. old.kind = "reception" => h \in Importing(q) /\ e.payload.refs = old.more
  <2> SUFFICES ASSUME old.kind = "reception" PROVE h \in Importing(q) /\ e.payload.refs = old.more
    OBVIOUS
  <2>1. h \in Importing(q)
    BY DEF Importing
  <2> QED BY <1>2, <2>1 DEF ReportInv, ReportsKnown
<1>11. \A r \in Replicas : committed'[r] = IF old.kind = "reception" /\ r = q THEN committed[r] \cup old.more
                                            ELSE committed[r]
  BY <1>1, <1>2 DEF BaseInv, TypeOK
<1>12. \A r \in Replicas \ {q} : Importing(r)' = Importing(r)
  BY <1>1, <1>4, <1>8, <1>9 DEF Importing
<1>13. \A o \in Importing(q)' : \/ o \in Importing(q) /\ o # h
                                \/ o = h /\ old.kind = "cadence" /\ c.kind = "importing"
  BY <1>1, <1>4, <1>8, <1>9 DEF Importing
<1>14. \A r \in Replicas : Reports(r)' =
         IF r = q /\ old.kind = "reception" THEN Reports(r) \cup {id} ELSE Reports(r)
  <2>1. Domain(id)' = q /\ (Type(id)' = "reception" <=> old.kind = "reception")
    BY <1>2, <1>3, <1>6
  <2> HIDE DEF old, e
  <2>2. \A r, i : i \in Reports(r)' <=> i \in DOMAIN content' /\ Domain(i)' = r /\ Type(i)' = "reception"
    BY DEF Reports, Wrote
  <2>3. \A r, i : i \in Reports(r) <=> i \in DOMAIN content /\ Domain(i) = r /\ Type(i) = "reception"
    BY DEF Reports, Wrote
  <2> HIDE DEF Reports
  <2>4. \A r \in Replicas : \A i : i \in Reports(r)' <=>
          i \in Reports(r) \/ (i = id /\ r = q /\ old.kind = "reception")
    BY <1>6, <2>1, <2>2, <2>3
  <2> QED BY <2>4
<1> HIDE DEF e, old, Importing, Reports, Refs
<1>15. forked' = forked /\ raced' = raced
  BY <1>1
<1>16. Type(id)' = "reception" => old.kind = "reception" /\ Refs(id)' = old.more
  BY <1>3, <1>6, <1>10
<1>17. \A r \in Replicas : dag[r] \subseteq dag'[r] /\ dag'[r] \subseteq dag[r] \cup {id}
  BY <1>7
<1>18. \A o \in Importing(q)' : \/ o \in Importing(q) /\ o # h
                                \/ /\ o = h /\ old.kind = "cadence"
                                   /\ running'[h].kind = "importing"
                                   /\ running'[h].more = NewForeign(q, dag[q])
  BY <1>1, <1>4, <1>13
<1>19. IF old.kind = "reception"
       THEN /\ h \in Importing(q) /\ Refs(id)' = old.more
            /\ Reports(q)' = Reports(q) \cup {id}
            /\ committed'[q] = committed[q] \cup old.more
       ELSE Reports(q)' = Reports(q) /\ committed'[q] = committed[q]
  BY <1>2, <1>6, <1>10, <1>11, <1>14
<1>20. \A r \in Replicas \ {q} : Reports(r)' = Reports(r) /\ Importing(r)' = Importing(r)
                                 /\ committed'[r] = committed[r]
  BY <1>11, <1>12, <1>14
<1> QED BY <1>2, <1>4, <1>7, <1>15, <1>16, <1>17, <1>18, <1>19, <1>20 DEF old

LEMMA GoesOnKnown ==
  ASSUME BaseInv, BaseInv', ReportInv, NEW h \in Handlers, NEW id, NEW c, GoesOnAs(h, id, c)
  PROVE  ReportsKnown'
<1>0. PICK q : q = running[h].at
  OBVIOUS
<1>1. HashIs(running[h].event, id)
  BY DEF GoesOnAs, Insert
<1>2. \A i \in DOMAIN content :
        /\ Refs(i)' = Refs(i) /\ Type(i)' = Type(i)
        /\ \A r : Foreign(r, i)' <=> Foreign(r, i)
  BY <1>1, InsertReports
<1>3. \A r \in Replicas : dag[r] \subseteq DOMAIN content /\ Reports(r) \subseteq dag[r]
  BY BaseFields, WroteIsOwn DEF DagInv, Reports, Own
<1>4. /\ q \in Replicas
      /\ \A r \in Replicas \ {q} : Reports(r)' = Reports(r) /\ Importing(r)' = Importing(r)
      /\ \A r \in Replicas : dag[r] \subseteq dag'[r] /\ dag'[r] \subseteq dag[r] \cup {id}
      /\ \A r \in Replicas \ {q} : dag'[r] = dag[r]
      /\ \A o \in Handlers \ {h} : running'[o] = running[o]
      /\ \A o \in Importing(q)' : \/ o \in Importing(q) /\ o # h
                                  \/ /\ o = h /\ running'[h].kind = "importing"
                                     /\ running'[h].more = NewForeign(q, dag[q])
      /\ Type(id)' = "reception" => running[h].kind = "reception" /\ Refs(id)' = running[h].more
      /\ IF running[h].kind = "reception"
         THEN h \in Importing(q) /\ Reports(q)' = Reports(q) \cup {id}
         ELSE Reports(q)' = Reports(q)
  BY <1>0, AddedReports
<1>5. \A r \in Replicas : \A o \in Importing(r) :
        /\ running[o].more \subseteq dag[r]
        /\ \A i \in running[o].more : Foreign(r, i)
        /\ running[o].kind = "reception" => running[o].event.payload.refs = running[o].more
  BY DEF ReportInv, ReportsKnown
<1>6. \A i \in NewForeign(q, dag[q]) : i \in dag[q] /\ Foreign(q, i)
  BY DEF NewForeign, Foreign
<1>7. \A r \in Replicas : Importing(r) \subseteq Handlers /\ Importing(r)' \subseteq Handlers
  BY DEF Importing
<1>8. h \in Importing(q)' => \A r \in Replicas \ {q} : h \notin Importing(r)
  BY <1>0 DEF Importing
<1>9. \A i \in Reports(q)' : Type(i)' = "reception"
  BY DEF Reports
<1> HIDE DEF Importing, Reports, Refs, Foreign
<1>10. ASSUME NEW r \in Replicas, NEW i \in dag'[r], Type(i)' = "reception"
       PROVE  Refs(i)' \subseteq dag'[r]
  <2>1. CASE i \in dag[r]
    <3>1. Type(i) = "reception" /\ Refs(i)' = Refs(i)
      BY <1>2, <1>3, <1>10, <2>1
    <3>2. Refs(i) \subseteq dag[r]
      BY <2>1, <3>1 DEF ReportInv, ReportsKnown
    <3> QED BY <1>4, <3>1, <3>2
  <2>2. CASE i \notin dag[r]
    <3>1. i = id /\ r = q
      BY <1>4, <1>10, <2>2
    <3>2. running[h].kind = "reception" /\ Refs(id)' = running[h].more
      BY <1>4, <1>10, <3>1
    <3>3. running[h].more \subseteq dag[q]
      BY <1>4, <1>5, <3>2
    <3> QED BY <1>4, <3>1, <3>2, <3>3
  <2> QED BY <2>1, <2>2
<1>11. ASSUME NEW r \in Replicas, NEW i \in Reports(r)', NEW j \in Refs(i)' PROVE Foreign(r, j)'
  <2>1. CASE i \in Reports(r)
    <3>1. Refs(i)' = Refs(i) /\ Type(i)' = Type(i) /\ i \in dag[r]
      BY <1>2, <1>3, <2>1
    <3>2. Foreign(r, j)
      BY <2>1, <3>1 DEF ReportInv, ReportsKnown
    <3>3. Type(i) = "reception"
      BY <2>1 DEF Reports
    <3>4. j \in dag[r]
      BY <3>1, <3>3 DEF ReportInv, ReportsKnown
    <3> QED BY <1>2, <1>3, <3>2, <3>4
  <2>2. CASE i \notin Reports(r)
    <3>1. r = q /\ i = id /\ running[h].kind = "reception"
      BY <1>4, <2>2
    <3>2. j \in running[h].more
      BY <1>4, <1>9, <3>1
    <3>3. j \in dag[q] /\ Foreign(q, j)
      BY <1>4, <1>5, <3>1, <3>2
    <3> QED BY <1>2, <1>3, <1>4, <3>1, <3>3
  <2> QED BY <2>1, <2>2
<1>12. ASSUME NEW r \in Replicas, NEW o \in Importing(r)'
       PROVE  /\ running'[o].more \subseteq dag'[r]
              /\ \A i \in running'[o].more : Foreign(r, i)'
              /\ running'[o].kind = "reception" => running'[o].event.payload.refs = running'[o].more
  <2>1. CASE r = q /\ o = h
    <3>1. running'[h].kind = "importing" /\ running'[h].more = NewForeign(q, dag[q])
      BY <1>4, <2>1
    <3> QED BY <1>2, <1>3, <1>4, <1>6, <2>1, <3>1
  <2>2. CASE ~(r = q /\ o = h)
    <3>1. o \in Importing(r) /\ o # h
      <4>1. CASE r = q
        BY <1>4, <2>2, <4>1
      <4>2. CASE r # q
        <5>1. o \in Importing(r)
          BY <1>4, <4>2
        <5>2. o = h => running'[h].at = r /\ running[h].at = r
          BY <1>4, <4>2, <5>1 DEF Importing
        <5> QED BY <1>0, <4>2, <5>1, <5>2
      <4> QED BY <4>1, <4>2
    <3>2. running'[o] = running[o]
      BY <1>4, <1>7, <3>1
    <3>3. /\ running[o].more \subseteq dag[r] /\ \A i \in running[o].more : Foreign(r, i)
          /\ running[o].kind = "reception" => running[o].event.payload.refs = running[o].more
      BY <1>5, <3>1
    <3>4. running[o].more \subseteq DOMAIN content /\ running[o].more \subseteq dag'[r]
      BY <1>3, <1>4, <3>3
    <3> QED BY <1>2, <3>2, <3>3, <3>4
  <2> QED BY <2>1, <2>2
<1> QED BY <1>10, <1>11, <1>12 DEF ReportsKnown

\* Of the domains whose handlers went on undisturbed: what is reported stays new.
LEMMA GoesOnElsewhere ==
  ASSUME BaseInv, BaseInv', ReportInv, NEW h \in Handlers, NEW id, NEW c, GoesOnAs(h, id, c),
         NEW q, q = running[h].at, NEW s \in Replicas \ {q}, ReportsNew(s)
  PROVE  ReportsNew(s)'
<1>1. HashIs(running[h].event, id)
  BY DEF GoesOnAs, Insert
<1>2. \A i \in DOMAIN content :
        /\ Refs(i)' = Refs(i) /\ Ancestors'[i] = Ancestors[i]
        /\ \A r : Foreign(r, i)' <=> Foreign(r, i)
        /\ Ancestors[i] \subseteq DOMAIN content
  BY <1>1, InsertReports
<1>3. /\ Reports(s)' = Reports(s) /\ Importing(s)' = Importing(s) /\ committed'[s] = committed[s]
      /\ dag'[s] = dag[s] /\ \A o \in Importing(s)' : running'[o] = running[o]
  <2>1. \A o \in Importing(s) : o \in Handlers \ {h}
    BY DEF Importing
  <2> HIDE DEF Importing
  <2> QED BY <2>1, AddedReports
<1>4. Reports(s) \subseteq dag[s] /\ dag[s] \subseteq DOMAIN content /\ committed[s] \subseteq dag[s]
  BY BaseFields, WroteIsOwn DEF DagInv, Reports, Own, ReportsNew
<1>5. \A i \in Reports(s) : Type(i) = "reception"
  BY DEF Reports
<1>6. \A i \in Reports(s) : Refs(i) \subseteq dag[s]
  BY <1>4, <1>5 DEF ReportInv, ReportsKnown
<1>7. \A o \in Importing(s) : running[o].more \subseteq dag[s]
  BY DEF ReportInv, ReportsKnown
<1> HIDE DEF Importing, Reports, Refs, Foreign
<1>8. \A S \in SUBSET DOMAIN content :
        (\A i \in S : \A a \in Ancestors'[i] : Foreign(s, a)' => a \in S) <=> Whole(s, S)
  BY <1>2 DEF Whole
<1>9. Whole(s, committed[s])'
  <2>1. Whole(s, committed[s])
    BY DEF ReportsNew
  <2> QED BY <1>3, <1>4, <1>8, <2>1 DEF Whole
<1>10. ASSUME NEW o \in Importing(s)'
       PROVE  running'[o].more \cap committed'[s] = {} /\ Whole(s, committed[s] \cup running[o].more)'
  <2>1. o \in Importing(s) /\ running'[o] = running[o]
    BY <1>3
  <2>2. running[o].more \cap committed[s] = {} /\ Whole(s, committed[s] \cup running[o].more)
    BY <2>1 DEF ReportsNew
  <2>3. committed[s] \cup running[o].more \in SUBSET DOMAIN content
    BY <1>4, <1>7, <2>1
  <2> QED BY <1>3, <1>8, <2>1, <2>2, <2>3 DEF Whole
<1>11. \A i \in Reports(s)' : Refs(i)' \subseteq committed'[s]
  BY <1>2, <1>3, <1>4 DEF ReportsNew
<1>12. Onward(s)'
  <2>1. Onward(s)
    BY DEF ReportsNew
  <2>2. \A d, e \in Reports(s) : d \in Ancestors'[e] =>
          \A i \in Refs(d)', j \in Refs(e)' : j # i /\ j \notin Ancestors'[i]
    BY <1>2, <1>4, <1>6, <2>1 DEF Onward
  <2> QED BY <1>3, <2>2 DEF Onward
<1> QED BY <1>3, <1>4, <1>9, <1>10, <1>11, <1>12 DEF ReportsNew

\* Nothing that is about to be reported is reported, or behind what is.
LEMMA NewIsOnward ==
  ASSUME NEW S, NEW more, NEW q, Whole(q, S), more \cap S = {}, \A j \in more : Foreign(q, j),
         NEW i \in S, NEW j \in more
  PROVE  j # i /\ j \notin Ancestors[i]
  BY DEF Whole

\* Of the domain whose handler went on: one that overlaps no other.
LEMMA GoesOnHere ==
  ASSUME BaseInv, BaseInv', ForkInv, ReportInv, NEW h \in Handlers, NEW id, NEW c,
         GoesOnAs(h, id, c), NEW q, q = running[h].at, q \notin forked, ReportsNew(q)
  PROVE  ReportsNew(q)'
<1>1. HashIs(running[h].event, id) /\ Insert(q, running[h].event, id) /\ running[h] # Idle
      /\ running[h].kind # "importing"
  BY DEF GoesOnAs, Insert
<1>2. /\ \A i \in DOMAIN content :
           /\ Refs(i)' = Refs(i) /\ Ancestors'[i] = Ancestors[i]
           /\ \A r : Foreign(r, i)' <=> Foreign(r, i)
           /\ Ancestors[i] \subseteq DOMAIN content
      /\ id \notin Ancestors'[id]
  BY <1>1, InsertReports
<1>3. /\ q \in Replicas
      /\ dag[q] \subseteq dag'[q]
      /\ \A o \in Importing(q)' : \/ o \in Importing(q) /\ o # h
                                  \/ /\ o = h /\ running[h].kind = "cadence"
                                     /\ running'[h].kind = "importing"
                                     /\ running'[h].more = NewForeign(q, dag[q])
      /\ IF running[h].kind = "reception"
         THEN /\ h \in Importing(q) /\ Refs(id)' = running[h].more
              /\ Reports(q)' = Reports(q) \cup {id}
              /\ committed'[q] = committed[q] \cup running[h].more
         ELSE Reports(q)' = Reports(q) /\ committed'[q] = committed[q]
  BY AddedReports
<1>4. id \notin DOMAIN content /\ At(q) = {h}
  BY <1>1, <1>3, ChainGrows
<1>5. Importing(q) \subseteq {h}
  <2>1. \A o \in Importing(q) : o \in At(q)
    BY DEF Importing, At, Idle
  <2> HIDE DEF Importing
  <2> QED BY <1>4, <2>1
<1>6. /\ Reports(q) \subseteq dag[q] /\ dag[q] \subseteq DOMAIN content /\ committed[q] \subseteq dag[q]
      /\ \A i \in dag[q] : Ancestors[i] \subseteq dag[q]
  BY <1>3, BaseFields, WroteIsOwn, AncestorsKnown DEF DagInv, Reports, Own, ReportsNew
<1>7. \A i \in Reports(q) : Refs(i) \subseteq committed[q]
  BY DEF ReportsNew
<1>8. Onward(q) /\ Whole(q, committed[q])
  BY DEF ReportsNew
<1>9. \A S \in SUBSET DOMAIN content :
        (\A i \in S : \A a \in Ancestors'[i] : Foreign(q, a)' => a \in S) <=> Whole(q, S)
  <2> HIDE DEF Foreign
  <2> QED BY <1>2 DEF Whole
<1>10. CASE running[h].kind = "reception"
  <2> DEFINE more == running[h].more
  <2>1. /\ more \subseteq dag[q] /\ \A i \in more : Foreign(q, i)
    BY <1>3, <1>10 DEF ReportInv, ReportsKnown
  <2>2. more \cap committed[q] = {} /\ Whole(q, committed[q] \cup more)
    BY <1>3, <1>10 DEF ReportsNew
  <2>3. Importing(q)' = {}
    <3> HIDE DEF Importing
    <3> QED BY <1>3, <1>5, <1>10
  <2>4. Reports(q)' = Reports(q) \cup {id} /\ committed'[q] = committed[q] \cup more
        /\ Refs(id)' = more
    BY <1>3, <1>10
  <2> HIDE DEF Importing, Reports, Refs, Foreign, more
  <2>5. committed'[q] \in SUBSET DOMAIN content /\ committed'[q] \subseteq dag'[q]
    BY <1>3, <1>6, <2>1, <2>4
  <2>6. Whole(q, committed[q])'
    BY <1>9, <2>2, <2>4, <2>5 DEF Whole
  <2>7. \A i \in Reports(q)' : Refs(i)' \subseteq committed'[q]
    BY <1>2, <1>6, <1>7, <2>4
  <2>8. ASSUME NEW d \in Reports(q)', NEW e \in Reports(q)', d \in Ancestors'[e],
               NEW i \in Refs(d)', NEW j \in Refs(e)'
        PROVE  j # i /\ j \notin Ancestors'[i]
    <3>1. d # id
      <4>1. e # id => d \in DOMAIN content
        BY <1>2, <1>6, <2>4, <2>8
      <4> QED BY <1>2, <1>4, <2>8, <4>1
    <3>2. d \in Reports(q) /\ i \in Refs(d) /\ i \in committed[q] /\ i \in DOMAIN content
      BY <1>2, <1>6, <1>7, <2>4, <2>8, <3>1
    <3>3. CASE e = id
      <4>1. j \in more
        BY <2>4, <2>8, <3>3
      <4>2. j # i /\ j \notin Ancestors[i]
        BY <1>8, <2>1, <2>2, <3>2, <4>1, NewIsOnward
      <4> QED BY <1>2, <3>2, <4>2
    <3>4. CASE e # id
      <4>1. e \in Reports(q) /\ j \in Refs(e) /\ d \in Ancestors[e]
        BY <1>2, <1>6, <2>4, <2>8, <3>4
      <4> QED BY <1>2, <1>8, <3>2, <4>1 DEF Onward
    <3> QED BY <3>3, <3>4
  <2>9. Onward(q)'
    BY <2>8 DEF Onward
  <2> QED BY <2>3, <2>5, <2>6, <2>7, <2>9 DEF ReportsNew
<1>11. CASE running[h].kind # "reception"
  <2>1. Reports(q)' = Reports(q) /\ committed'[q] = committed[q]
    BY <1>3, <1>11
  <2>2. \A i \in NewForeign(q, dag[q]) : i \in dag[q] /\ i \notin committed[q]
    BY DEF NewForeign
  <2>3. \A i \in dag[q] : Foreign(q, i) => i \in committed[q] \cup NewForeign(q, dag[q])
    BY DEF NewForeign, Foreign
  <2> HIDE DEF Importing, Reports, Refs, Foreign
  <2>4. ASSUME NEW o \in Importing(q)'
        PROVE  running'[o].more \cap committed'[q] = {} /\ Whole(q, committed[q] \cup running[o].more)'
    <3> DEFINE more == NewForeign(q, dag[q])
    <3>1. running'[o].more = more
      BY <1>3, <1>5
    <3>2. Whole(q, committed[q] \cup more)
      <4>1. committed[q] \cup more \subseteq dag[q]
        BY <1>6, <2>2
      <4> HIDE DEF more
      <4> QED BY <1>6, <2>3, <4>1 DEF Whole, more
    <3>3. committed[q] \cup more \in SUBSET DOMAIN content
      BY <1>6, <2>2
    <3>4. more \cap committed[q] = {}
      BY <2>2
    <3> HIDE DEF more
    <3> QED BY <1>9, <2>1, <3>1, <3>2, <3>3, <3>4 DEF Whole
  <2>5. Whole(q, committed[q])'
    <3>1. committed[q] \in SUBSET DOMAIN content
      BY <1>6
    <3> QED BY <1>8, <1>9, <2>1, <3>1 DEF Whole
  <2>6. \A i \in Reports(q)' : Refs(i)' \subseteq committed'[q]
    BY <1>2, <1>6, <1>7, <2>1
  <2>7. Onward(q)'
    <3>1. \A d, e \in Reports(q) : d \in Ancestors'[e] =>
            \A i \in Refs(d)', j \in Refs(e)' : j # i /\ j \notin Ancestors'[i]
      BY <1>2, <1>6, <1>7, <1>8 DEF Onward
    <3> QED BY <2>1, <3>1 DEF Onward
  <2>8. committed'[q] \subseteq dag'[q]
    BY <1>3, <1>6, <2>1
  <2> QED BY <2>4, <2>5, <2>6, <2>7, <2>8 DEF ReportsNew
<1> QED BY <1>10, <1>11

LEMMA GoesOnReports ==
  ASSUME BaseInv, BaseInv', ForkInv, ReportInv, NEW h \in Handlers, NEW id, NEW c,
         GoesOnAs(h, id, c)
  PROVE  ReportInv'
<1>0. PICK q : q = running[h].at
  OBVIOUS
<1>1. forked' = forked /\ raced' = raced
  BY DEF GoesOnAs
<1>2. ASSUME NEW s \in Replicas, s \notin forked PROVE ReportsNew(s)'
  <2>1. ReportsNew(s)
    BY <1>2 DEF ReportInv
  <2>2. CASE s = q
    BY <1>0, <1>2, <2>1, <2>2, GoesOnHere
  <2>3. CASE s # q
    BY <1>0, <2>1, <2>3, GoesOnElsewhere
  <2> QED BY <2>2, <2>3
<1>3. ReportsKnown'
  BY GoesOnKnown
<1>4. raced \subseteq forked
  BY DEF ReportInv
<1> QED BY <1>1, <1>2, <1>3, <1>4 DEF ReportInv

\* At first nobody has written anything but its genesis.
LEMMA InitReports == Init => ReportInv
<1> SUFFICES ASSUME Init PROVE ReportInv
  OBVIOUS
<1>1. \A id \in DOMAIN content : content[id].payload.type = "genesis"
  BY DEF Init, Genesis
<1>2. /\ \A r \in Replicas : dag[r] \subseteq DOMAIN content /\ committed[r] = {}
      /\ raced = {} /\ \A h \in Handlers : running[h] = Idle
  <2>1. BaseInv
    BY InitBase
  <2> QED BY <2>1, BaseFields DEF Init, DagInv
<1>3. \A r \in Replicas : Reports(r) = {} /\ Importing(r) = {}
  <2>1. \A id \in DOMAIN content : Type(id) # "reception"
    BY <1>1 DEF Type
  <2> QED BY <1>2, <2>1 DEF Reports, Wrote, Importing, Idle
<1>4. \A r \in Replicas : \A id \in dag[r] : Type(id) # "reception"
  BY <1>1, <1>2 DEF Type
<1>5. ReportsKnown
  BY <1>3, <1>4 DEF ReportsKnown
<1>6. \A r \in Replicas : ReportsNew(r)
  BY <1>2, <1>3 DEF ReportsNew, Whole, Onward
<1> QED BY <1>2, <1>5, <1>6 DEF ReportInv

LEMMA ReportStep == BaseInv /\ BaseInv' /\ ForkInv /\ ReportInv /\ [Next]_vars => ReportInv'
<1> SUFFICES ASSUME BaseInv, BaseInv', ForkInv, ReportInv, [Next]_vars PROVE ReportInv'
  OBVIOUS
<1>1. CASE Next
  <2>1. Active \subseteq Replicas
    BY LedgerAssumption
  <2>2. ASSUME NEW r \in Replicas, Commit(r) PROVE ReportInv'
    BY <2>2, IdleReports DEF Commit, dagVars, tips
  <2> QED BY <1>1, <2>1, <2>2, StepIs, BeginsReports, GoesOnReports, ReceptionStartsReports,
             SyncReports, ReloadReports
<1>2. CASE UNCHANGED vars
  BY <1>2, IdleReports DEF vars
<1> QED BY <1>1, <1>2

LEMMA ReportInvariance == Spec => [](LedgerInv /\ ReportInv)
<1>1. Init => ReportInv
  BY InitReports
<1>2. LedgerInv /\ LedgerInv' /\ ReportInv /\ [Next]_vars => ReportInv'
  BY ReportStep DEF LedgerInv
<1> QED BY <1>1, <1>2, LedgerInvariance, PTL DEF Spec
-----------------------------------------------------------------------------
(* The fold                                                                *)

RState == [maxSeen : [Replicas -> [Replicas -> Nat]], rejected : SUBSET Ids]
Sources(id) == {Domain(i) : i \in Refs(id)}

\* The latest epoch of a source that is named.
LEMMA ResolvedIs ==
  ASSUME BaseInv, NEW id, Refs(id) \subseteq DOMAIN content, NEW s \in Sources(id)
  PROVE  /\ Resolved(id, s) \in Nat
         /\ \A i \in Refs(id) : Domain(i) = s => SourceEpoch(i) <= Resolved(id, s)
         /\ \E i \in Refs(id) : Domain(i) = s /\ SourceEpoch(i) = Resolved(id, s)
<1> DEFINE J == {j \in Refs(id) : Domain(j) = s}
           E == {SourceEpoch(i) : i \in J}
<1>1. \A i \in J : SourceEpoch(i) \in Nat
  BY SourceEpochIs
<1>2. J # {}
  BY DEF Sources
<1>3. IsFiniteSet(J)
  <2>1. IsFiniteSet(Ids) /\ J \subseteq Ids
    BY FS_Interval, DagAssumption, BaseFields DEF Ids, DagInv
  <2> HIDE DEF J
  <2> QED BY <2>1, FS_Subset
<1>4. IsFiniteSet(E)
  <2> DEFINE f == [i \in J |-> SourceEpoch(i)]
  <2>1. f \in Surjection(J, E)
    BY DEF Surjection
  <2> HIDE DEF J, E, f
  <2> QED BY <1>3, <2>1, FS_Surjection
<1>5. E \in SUBSET Nat /\ E # {}
  <2> HIDE DEF J
  <2> QED BY <1>1, <1>2
<1>6. Resolved(id, s) = Max(E)
  BY DEF Resolved, Refs
<1>7. Max(E) \in E /\ \A x \in E : x <= Max(E)
  <2> HIDE DEF E
  <2> QED BY <1>4, <1>5, MaxOf
<1> DEFINE m == Max(E)
<1>8. \A i \in J : SourceEpoch(i) <= m
  <2> HIDE DEF m, J
  <2> QED BY <1>7 DEF m
<1>9. \E i \in J : SourceEpoch(i) = m
  <2> HIDE DEF m, J
  <2> QED BY <1>7 DEF m
<1>10. m \in Nat
  BY <1>5, <1>7
<1> HIDE DEF m
<1> QED BY <1>6, <1>8, <1>9, <1>10 DEF m

LEMMA ApplyReceptionType ==
  ASSUME BaseInv, NEW known \in SUBSET DOMAIN content
  PROVE  \A id \in DOMAIN content, st \in RState : ApplyReception(st, id, known) \in RState
<1> TAKE id \in DOMAIN content, st \in RState
<1> DEFINE q == Domain(id)
           new == [s \in Replicas |-> IF s \in Sources(id) THEN Resolved(id, s) ELSE st.maxSeen[q][s]]
<1>1. id \in Ids /\ q \in Replicas
  BY BaseFields, ContentFields
<1>2. Reject(st, id) \in RState
  BY <1>1 DEF RState, Reject
<1>3. ASSUME Refs(id) \subseteq known PROVE [st EXCEPT !.maxSeen[q] = new] \in RState
  <2>1. \A s \in Sources(id) : Resolved(id, s) \in Nat
    BY <1>3, ResolvedIs
  <2>2. new \in [Replicas -> Nat]
    <3>1. \A s \in Replicas : st.maxSeen[q][s] \in Nat
      BY <1>1 DEF RState
    <3> HIDE DEF q
    <3> QED BY <2>1, <3>1
  <2> HIDE DEF new, q
  <2> QED BY <1>1, <2>2 DEF RState
<1>4. \/ ApplyReception(st, id, known) \in {st, Reject(st, id)}
      \/ Refs(id) \subseteq known /\ ApplyReception(st, id, known) = [st EXCEPT !.maxSeen[q] = new]
  BY DEF ApplyReception, Refs, Sources, Domain
<1> HIDE DEF new, q
<1> QED BY <1>2, <1>3, <1>4

LEMMA InitialReceptionsType == InitialReceptions \in RState
  BY DEF InitialReceptions, RState

\* The recursion that defines the view has a solution, for any sequence of events.
LEMMA ReceptionsAlongIs ==
  ASSUME BaseInv, NEW known \in SUBSET DOMAIN content, NEW order, NEW n \in Nat, Len(order) = n,
         \A i \in 1 .. n : order[i] \in DOMAIN content
  PROVE  /\ ReceptionsAlong(order, known) \in [0 .. n -> RState]
         /\ ReceptionsAlong(order, known)[0] = InitialReceptions
         /\ \A i \in 1 .. n : ReceptionsAlong(order, known)[i] =
              ApplyReception(ReceptionsAlong(order, known)[i - 1], order[i], known)
<1> DEFINE step == [i \in 1 .. n |-> [x \in RState |-> ApplyReception(x, order[i], known)]]
           Right(x) == x = [i \in 0 .. n |-> IF i = 0 THEN InitialReceptions
                                             ELSE ApplyReception(x[i - 1], order[i], known)]
           st == CHOOSE f : Right(f)
<1>1. Steps(step, n, RState)
  BY ApplyReceptionType DEF Steps
<1>2. PICK f \in [0 .. n -> RState] :
        f[0] = InitialReceptions /\ \A i \in 1 .. n : f[i] = step[i][f[i - 1]]
  <2> HIDE DEF step
  <2> QED BY <1>1, InitialReceptionsType, FoldExists
<1>3. \A i \in 1 .. n : f[i] = ApplyReception(f[i - 1], order[i], known)
  <2> TAKE i \in 1 .. n
  <2>1. f[i - 1] \in RState
    OBVIOUS
  <2>2. f[i] = step[i][f[i - 1]]
    BY <1>2
  <2> QED BY <2>1, <2>2
<1>4. Right(f)
  <2>1. \A i \in 0 .. n : f[i] = IF i = 0 THEN InitialReceptions
                                 ELSE ApplyReception(f[i - 1], order[i], known)
    BY <1>2, <1>3
  <2> QED BY <2>1
<1>5. Right(st)
  <2> HIDE DEF Right
  <2> QED BY <1>4
<1>6. ReceptionsAlong(order, known) = st
  BY DEF ReceptionsAlong
<1> HIDE DEF st
<1>7. st[0] = InitialReceptions
      /\ \A i \in 1 .. n : st[i] = ApplyReception(st[i - 1], order[i], known)
  BY <1>5
<1>8. \A i \in 0 .. n : st[i] \in RState
  <2>1. st[0] \in RState
    BY <1>7, InitialReceptionsType
  <2>2. \A i \in 1 .. n : st[i - 1] \in RState => st[i] \in RState
    BY <1>7, ApplyReceptionType
  <2> QED BY <2>1, <2>2, FoldKeeps
<1> QED BY <1>5, <1>6, <1>7, <1>8

Excused(id) == \E d \in {Domain(id)} \cup Sources(id) : d \in forked

\* What a view of the events S holds q to, of the source s, q reported in one of them.
Reported(st, S, q, s) ==
  \/ st.maxSeen[q][s] = 0
  \/ \E d \in S \cap Reports(q) : s \in Sources(d) /\ st.maxSeen[q][s] = Resolved(d, s)

SeenSoFar(st, S) ==
  /\ \A q, s \in Replicas : Reported(st, S, q, s)
  /\ \A id \in st.rejected : Excused(id)

\* A later report of an honest domain has come no less far with an honest source.
LEMMA LaterIsFurther ==
  ASSUME LedgerInv, ReportInv, NEW q \in Replicas \ forked, NEW s \in Replicas \ forked,
         NEW d \in Reports(q), NEW e \in Reports(q), d \in Ancestors[e],
         s \in Sources(d), s \in Sources(e),
         Refs(d) \subseteq DOMAIN content, Refs(e) \subseteq DOMAIN content
  PROVE  Resolved(d, s) <= Resolved(e, s)
<1>0. BaseInv
  BY DEF LedgerInv
<1>1. PICK i \in Refs(d) : Domain(i) = s /\ SourceEpoch(i) = Resolved(d, s)
  BY <1>0, ResolvedIs
<1>2. PICK j \in Refs(e) : Domain(j) = s
  BY DEF Sources
<1>3. SourceEpoch(j) <= Resolved(e, s) /\ Resolved(e, s) \in Nat
  BY <1>0, <1>2, ResolvedIs
<1>4. j # i /\ j \notin Ancestors[i]
  BY <1>1, <1>2 DEF ReportInv, ReportsNew, Onward
<1>5. i \in Wrote(s) /\ j \in Wrote(s)
  BY <1>1, <1>2 DEF Wrote
<1>6. i \in Ancestors[j]
  BY <1>4, <1>5 DEF LedgerInv, ForkInv, OneChain, IsChain
<1>7. CadenceChain(s)
  BY DEF LedgerInv, CadenceInv, ReportInv
<1>8. SourceEpoch(i) <= SourceEpoch(j)
  BY <1>0, <1>5, <1>6, <1>7, EpochGrows
<1>9. SourceEpoch(i) \in Nat /\ SourceEpoch(j) \in Nat
  BY <1>0, <1>5, SourceEpochIs DEF Wrote
<1> QED BY <1>1, <1>3, <1>8, <1>9

LEMMA SeenSoFarStep ==
  ASSUME LedgerInv, ReportInv, NEW r \in Replicas, NEW st \in RState, NEW S \in SUBSET dag[r],
         NEW id \in dag[r], id \notin S, \A x \in S : Ancestors[x] \subseteq S, SeenSoFar(st, S)
  PROVE  SeenSoFar(ApplyReception(st, id, dag[r]), S \cup {id})
<1> DEFINE q == Domain(id)
           new == [s \in Replicas |-> IF s \in Sources(id) THEN Resolved(id, s) ELSE st.maxSeen[q][s]]
           next == ApplyReception(st, id, dag[r])
<1>0. BaseInv /\ ForkInv
  BY DEF LedgerInv
<1>1. dag[r] \subseteq DOMAIN content /\ id \in DOMAIN content /\ q \in Replicas
  BY <1>0, BaseFields, ContentFields DEF DagInv
<1>2. \A p, s \in Replicas : Reported(st, S \cup {id}, p, s)
  BY DEF SeenSoFar, Reported
<1>3. CASE Type(id) # "reception"
  <2>1. next = st
    BY <1>3 DEF ApplyReception
  <2> HIDE DEF next
  <2> QED BY <1>2, <2>1 DEF SeenSoFar, next
<1>4. CASE Type(id) = "reception"
  <2>1. Refs(id) \subseteq dag[r] /\ id \in Reports(q)
    BY <1>1, <1>4 DEF ReportInv, ReportsKnown, Reports, Wrote
  <2>2. \A s \in Sources(id) : s \in Replicas /\ Resolved(id, s) \in Nat
    <3>1. \A s \in Sources(id) : Resolved(id, s) \in Nat
      BY <1>0, <1>1, <2>1, ResolvedIs
    <3>2. \A i \in Refs(id) : Domain(i) \in Replicas
      BY <1>0, <1>1, <2>1, BaseFields, ContentFields
    <3> QED BY <3>1, <3>2 DEF Sources
  <2>3. \A s \in Replicas : st.maxSeen[q][s] \in Nat
    BY <1>1 DEF RState
  <2>4. next = IF \E s \in Sources(id) : Resolved(id, s) < st.maxSeen[q][s]
               THEN Reject(st, id) ELSE [st EXCEPT !.maxSeen[q] = new]
    BY <1>4, <2>1 DEF ApplyReception, Refs, Sources, Domain
  <2>5. CASE \E s \in Sources(id) : Resolved(id, s) < st.maxSeen[q][s]
    <3>1. PICK s \in Sources(id) : Resolved(id, s) < st.maxSeen[q][s]
      BY <2>5
    <3>2. next = Reject(st, id)
      BY <2>4, <2>5
    <3> HIDE DEF next, new
    <3>3. Excused(id)
      <4> SUFFICES ASSUME q \notin forked, s \notin forked PROVE FALSE
        BY <3>1 DEF Excused
      <4>1. s \in Replicas /\ Resolved(id, s) \in Nat /\ st.maxSeen[q][s] # 0
        BY <2>2, <2>3, <3>1
      <4>2. PICK d \in S \cap Reports(q) : s \in Sources(d) /\ st.maxSeen[q][s] = Resolved(d, s)
        BY <1>1, <4>1 DEF SeenSoFar, Reported
      <4>3. d \in Wrote(q) /\ id \in Wrote(q) /\ d # id /\ id \notin Ancestors[d]
        BY <2>1, <4>2 DEF Reports
      <4>4. d \in Ancestors[id]
        BY <1>0, <1>1, <4>3 DEF ForkInv, OneChain, IsChain
      <4>5. Refs(d) \subseteq dag[r]
        BY <4>2 DEF ReportInv, ReportsKnown, Reports
      <4>6. Resolved(d, s) <= Resolved(id, s)
        <5> HIDE DEF q, Reports
        <5>1. Refs(d) \subseteq DOMAIN content /\ Refs(id) \subseteq DOMAIN content
          BY <1>1, <2>1, <4>5
        <5> QED BY <1>1, <2>1, <3>1, <4>1, <4>2, <4>4, <5>1, LaterIsFurther
      <4>7. st.maxSeen[q][s] \in Nat
        BY <2>3, <4>1
      <4> QED BY <3>1, <4>1, <4>2, <4>6, <4>7
    <3>4. next.maxSeen = st.maxSeen /\ next.rejected = st.rejected \cup {id}
      BY <3>2 DEF Reject, RState
    <3>5. \A p, t \in Replicas : Reported(next, S \cup {id}, p, t)
      BY <1>2, <3>4 DEF Reported
    <3>6. \A x \in next.rejected : Excused(x)
      BY <3>3, <3>4 DEF SeenSoFar
    <3> QED BY <3>5, <3>6 DEF SeenSoFar, next
  <2>6. CASE ~\E s \in Sources(id) : Resolved(id, s) < st.maxSeen[q][s]
    <3>1. next = [st EXCEPT !.maxSeen[q] = new]
      BY <2>4, <2>6
    <3>2. /\ next.rejected = st.rejected
          /\ \A p \in Replicas \ {q} : next.maxSeen[p] = st.maxSeen[p]
          /\ next.maxSeen[q] = new
      <4> HIDE DEF next, new, q
      <4> QED BY <1>1, <3>1 DEF RState
    <3>3. \A s \in Replicas : next.maxSeen[q][s] = IF s \in Sources(id) THEN Resolved(id, s)
                                                   ELSE st.maxSeen[q][s]
      BY <3>2
    <3> HIDE DEF next, new, q
    <3>4. ASSUME NEW p \in Replicas, NEW s \in Replicas PROVE Reported(next, S \cup {id}, p, s)
      <4>1. Reported(st, S \cup {id}, p, s)
        BY <1>2
      <4>2. CASE p = q /\ s \in Sources(id)
        <5>1. next.maxSeen[p][s] = Resolved(id, s)
          BY <3>3, <4>2
        <5> QED BY <2>1, <4>2, <5>1 DEF Reported
      <4>3. CASE ~(p = q /\ s \in Sources(id))
        <5>1. next.maxSeen[p][s] = st.maxSeen[p][s]
          BY <3>2, <3>3, <4>3
        <5> QED BY <4>1, <5>1 DEF Reported
      <4> QED BY <4>2, <4>3
    <3>5. \A x \in next.rejected : Excused(x)
      BY <3>2 DEF SeenSoFar
    <3> QED BY <3>4, <3>5 DEF SeenSoFar, next
  <2> QED BY <2>5, <2>6
<1> QED BY <1>3, <1>4

\* Every replica's view of the reports, once it has folded all it knows.
LEMMA ReceptionsViewed ==
  ASSUME LedgerInv, ReportInv, NEW r \in Replicas
  PROVE  SeenSoFar(MaterializeReceptionCadence(r), dag[r])
<1> DEFINE order == TopoOrder(r)
           n == Len(order)
           st == ReceptionsAlong(order, dag[r])
           P(i) == SeenSoFar(st[i], First(order, i))
           T == {i \in 0 .. n : P(i)}
<1>0. BaseInv
  BY DEF LedgerInv
<1>1. /\ n \in Nat /\ First(order, 0) = {} /\ First(order, n) = dag[r]
      /\ \A i \in 1 .. n :
           /\ order[i] \in DOMAIN content /\ order[i] \in dag[r]
           /\ order[i] \notin First(order, i - 1)
           /\ Ancestors[order[i]] \subseteq First(order, i - 1)
           /\ First(order, i) = First(order, i - 1) \cup {order[i]}
  BY <1>0, Along
<1>2. /\ st \in [0 .. n -> RState] /\ st[0] = InitialReceptions
      /\ \A i \in 1 .. n : st[i] = ApplyReception(st[i - 1], order[i], dag[r])
  <2>1. dag[r] \in SUBSET DOMAIN content
    BY <1>0, BaseFields DEF DagInv
  <2> DEFINE known == dag[r]
  <2>2. \A i \in 1 .. n : order[i] \in DOMAIN content
    BY <1>1
  <2>3. n \in Nat /\ known \in SUBSET DOMAIN content
    BY <1>1, <2>1
  <2> HIDE DEF order, known
  <2>4. /\ ReceptionsAlong(order, known) \in [0 .. n -> RState]
        /\ ReceptionsAlong(order, known)[0] = InitialReceptions
        /\ \A i \in 1 .. n : ReceptionsAlong(order, known)[i] =
             ApplyReception(ReceptionsAlong(order, known)[i - 1], order[i], known)
    <3> HIDE DEF n
    <3>1. Len(order) = n
      BY DEF n
    <3> QED BY <1>0, <2>2, <2>3, <3>1, ReceptionsAlongIs
  <2> QED BY <2>4 DEF known
<1>3. MaterializeReceptionCadence(r) = st[n]
  BY DEF MaterializeReceptionCadence
<1> HIDE DEF order, st, n
<1>4. ASSUME NEW i \in 0 .. n
      PROVE  First(order, i) \subseteq dag[r] /\ \A x \in First(order, i) : Ancestors[x] \subseteq First(order, i)
  <2>1. First(order, i) \subseteq dag[r]
    BY <1>1 DEF First
  <2>2. ASSUME NEW k \in 1 .. i PROVE Ancestors[order[k]] \subseteq First(order, i)
    <3>1. k \in 1 .. n
      BY <1>1
    <3>2. First(order, k - 1) \subseteq First(order, i)
      BY <1>1 DEF First
    <3> QED BY <1>1, <3>1, <3>2
  <2> QED BY <2>1, <2>2 DEF First
<1>5. 0 \in T
  <2>1. P(0)
    BY <1>1, <1>2 DEF SeenSoFar, Reported, InitialReceptions
  <2> QED BY <1>1, <2>1
<1>6. ASSUME NEW i \in 0 .. (n - 1), i \in T PROVE i + 1 \in T
  <2>1. i + 1 \in 1 .. n /\ (i + 1) - 1 = i /\ i \in 0 .. n
    BY <1>1
  <2>2. /\ order[i + 1] \in dag[r] /\ order[i + 1] \notin First(order, i)
        /\ First(order, i + 1) = First(order, i) \cup {order[i + 1]}
        /\ st[i + 1] = ApplyReception(st[i], order[i + 1], dag[r]) /\ st[i] \in RState
    <3>1. \A k \in 1 .. n :
            /\ order[k] \in dag[r] /\ order[k] \notin First(order, k - 1)
            /\ First(order, k) = First(order, k - 1) \cup {order[k]}
            /\ st[k] = ApplyReception(st[k - 1], order[k], dag[r])
      BY <1>1, <1>2
    <3>2. st[i] \in RState
      BY <1>2, <2>1
    <3>3. /\ order[i + 1] \in dag[r] /\ order[i + 1] \notin First(order, (i + 1) - 1)
          /\ First(order, i + 1) = First(order, (i + 1) - 1) \cup {order[i + 1]}
          /\ st[i + 1] = ApplyReception(st[(i + 1) - 1], order[i + 1], dag[r])
      BY <2>1, <3>1
    <3> QED BY <2>1, <3>2, <3>3
  <2>3. P(i)
    BY <1>6
  <2>4. P(i + 1)
    BY <1>4, <2>1, <2>2, <2>3, SeenSoFarStep
  <2> QED BY <2>1, <2>4
<1>7. 0 .. n \subseteq T
  <2> HIDE DEF T
  <2> QED BY <1>1, <1>5, <1>6, Induction
<1>8. P(n)
  BY <1>1, <1>7
<1> QED BY <1>1, <1>3, <1>8

(* An honest domain is never caught going backwards: at any replica, in    *)
(* whatever order the histories were merged, the fold only rejects a       *)
(* commitment if the chain of its signer, or of a source it names, had     *)
(* forked.  What postReceptionCommitment() reports is never behind what it *)
(* reported before, because committedForeignEventIds always holds all that *)
(* is foreign and behind its events; so each report names a later event of *)
(* a source's chain, whose epoch is no less.                               *)
THEOREM NeverBackwards == Spec => []HonestReceptionsAccepted
<1>1. LedgerInv /\ ReportInv => HonestReceptionsAccepted
  <2> SUFFICES ASSUME LedgerInv, ReportInv, NEW r \in Replicas,
                      NEW id \in MaterializeReceptionCadence(r).rejected
               PROVE  Excused(id)
    BY DEF HonestReceptionsAccepted, Excused, Sources, Refs
  <2> QED BY ReceptionsViewed DEF SeenSoFar
<1> QED BY ReportInvariance, <1>1, PTL
=============================================================================
