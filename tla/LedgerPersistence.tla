-------------------------- MODULE LedgerPersistence --------------------------
(***************************************************************************)
(* public/js/core/event-dag-persistence.js over event-dag.js: browser tabs *)
(* of one wallet, each with its own DAG in memory and all with the same    *)
(* IndexedDB store, and the test peers of main.js, whose DAGs live in the  *)
(* memory of a tab.  A tab may be closed, or crash, at any time.           *)
(***************************************************************************)
EXTENDS EventDag

CONSTANTS Payloads,      \* the domain that signs an event, and what it says
          Tabs,
          PageOf,        \* PageOf[p] is the tab whose memory peer p lives in
          DomainOf,      \* the payload domain a replica writes
          Backend,       \* what createLedger finds: "js" or "wasm"
          MaxEvents,     \* bound: different events ever created
          MaxFailures    \* bound: different events whose write ever failed

Peers == Replicas \ Tabs

ASSUME PersistenceAssumption ==
  /\ Tabs \subseteq Replicas
  /\ PageOf \in [Peers -> Tabs]
  /\ DomainOf \in [Replicas -> Payloads]
  /\ MaxEvents \in Nat /\ MaxFailures \in Nat

VARIABLES inserted,  \* the Map's order: <<d, e>> if d went in before e
          adding,    \* addEvent() calls that await computeId
          status,    \* of each tab's wallet: "closed", "open", or "failed"
          stored,    \* the ids in the object store
          writing,   \* <<tab, id>>: persistEvent() calls not settled
          failed     \* history: ids some persistEvent() failed to store

vars == <<content, dag, inserted, adding, status, stored, writing, failed>>

Call == [at : Replicas, event : Event(Payloads)]

Page(r) == IF r \in Tabs THEN r ELSE PageOf[r]
Live(r) == status[Page(r)] = "open"

Init ==
  /\ DagInit
  /\ inserted = [r \in Replicas |-> {}]
  /\ adding = {}
  /\ status = [t \in Tabs |-> "closed"]
  /\ stored = {}
  /\ writing = {}
  /\ failed = {}

-----------------------------------------------------------------------------
(* The order of events in a replica's Map                                  *)

(* The order of r's Map once it also holds new: first what it had, then    *)
(* the new ones in the order given.                                        *)
Appended(r, new, order) ==
  inserted[r] \cup (dag[r] \X new) \cup (order \cap (new \X new))

\* Mutant: the other's events are taken in id order, as a sorted map has them.
MergeOrder_ById(r, s) ==
  Appended(r, dag[s] \ dag[r], {p \in dag[s] \X dag[s] : p[1] < p[2]})

\* The order of r's Map after r.merge(s): s's new events in s's own order.
MergeOrder(r, s) == Appended(r, dag[s] \ dag[r], inserted[s])

-----------------------------------------------------------------------------
(* The subscription                                                        *)

\* Mutant: what a domain adds itself is persisted, but not what it merges.
Notified_OwnOnly(r) ==
  {w \in (Tabs \cap {r}) \X (dag'[r] \ dag[r]) : content'[w[2]].payload = DomainOf[r]}

\* Each event new to a tab's DAG is persisted; a peer's has no subscriber.
Notified(r) == (Tabs \cap {r}) \X (dag'[r] \ dag[r])

\* addEvent() up to its await ...
Add(r, ps) ==
  /\ Live(r) /\ (ps = {} => dag[r] = {})
  /\ MayAdd(r, ps) /\ Cardinality(DOMAIN content) + Cardinality(adding) < MaxEvents
  /\ adding' = adding \cup {[at |-> r, event |-> [parents |-> ps, payload |-> DomainOf[r]]]}
  /\ UNCHANGED <<content, dag, inserted, status, stored, writing, failed>>

\* ... and from there on.
Added(c, id) ==
  /\ Insert(c.at, c.event, id)
  /\ inserted' = [inserted EXCEPT ![c.at] = Appended(c.at, {id} \ dag[c.at], {})]
  /\ adding' = adding \ {c}
  /\ writing' = writing \cup Notified(c.at)
  /\ UNCHANGED <<status, stored, failed>>

(* syncWith, over a link that is up: the tab's domain and a peer of its    *)
(* page exchange all they know.                                            *)
Sync(t, p) ==
  /\ Live(t) /\ Page(p) = t
  /\ MergeBothWays(t, p)
  /\ inserted' = [inserted EXCEPT ![t] = MergeOrder(t, p), ![p] = MergeOrder(p, t)]
  /\ writing' = writing \cup Notified(t)
  /\ UNCHANGED <<adding, status, stored, failed>>

-----------------------------------------------------------------------------
(* persistEvent: IndexedDB runs one tab's transactions in the order they   *)
(* were asked for.  A transaction that fails is reported and forgotten; or *)
(* not even reported, if it aborts: onabort is not listened to.            *)

FirstInLine(t, id) ==
  /\ <<t, id>> \in writing
  /\ \A d \in dag[t] : <<d, id>> \in inserted[t] => <<t, d>> \notin writing

WriteCompletes(t, id) ==
  /\ FirstInLine(t, id)
  /\ stored' = stored \cup {id}
  /\ writing' = writing \ {<<t, id>>}
  /\ UNCHANGED <<content, dag, inserted, adding, status, failed>>

WriteFails(t, id) ==
  /\ FirstInLine(t, id) /\ Cardinality(failed \cup {id}) <= MaxFailures
  /\ failed' = failed \cup {id}
  /\ writing' = writing \ {<<t, id>>}
  /\ UNCHANGED <<content, dag, inserted, adding, status, stored>>

-----------------------------------------------------------------------------
(* createPersistedLedger                                                   *)

\* Mutant: the store's own order is replayed, which is that of the ids.
ReplayOrder_ByKey == Ascending(stored)

(* getAll() lists the store by key; topologicalSortForReplay() reorders    *)
(* it.  (It visits an event's parents in the order they were named, which  *)
(* the model does not keep: by id here.)                                   *)
ReplayOrder == DepthFirst(stored)

\* addEvent() finds the parents of each event of the sequence known.
Replays(order) ==
  /\ order \in Seq(stored)
  /\ \A i \in DOMAIN order : Parents(order[i]) \subseteq {order[j] : j \in 1 .. (i - 1)}

(* Everything stored is added to an empty DAG, and then the subscription   *)
(* begins.  (A ledger that is still empty then gets its genesis by Add.)   *)
Open(t) ==
  /\ status[t] = "closed"
  /\ Replays(ReplayOrder) /\ Backend = "js"
  /\ status' = [status EXCEPT ![t] = "open"]
  /\ dag' = [dag EXCEPT ![t] = Range(ReplayOrder)]
  /\ inserted' = [inserted EXCEPT ![t] =
       {<<ReplayOrder[q[1]], ReplayOrder[q[2]]>> :
          q \in {p \in (DOMAIN ReplayOrder) \X (DOMAIN ReplayOrder) : p[1] < p[2]}}]
  /\ UNCHANGED <<content, adding, stored, writing, failed>>

(* addEvent() throws on an unknown parent; or dag.subscribe is not a       *)
(* function, which it is not on a WasmLedgerAdapter.                       *)
OpenFails(t) ==
  /\ status[t] = "closed"
  /\ ~Replays(ReplayOrder) \/ Backend = "wasm"
  /\ status' = [status EXCEPT ![t] = "failed"]
  /\ UNCHANGED <<content, dag, inserted, adding, stored, writing, failed>>

\* The tab is closed or crashes: its memory goes, and with it what it awaits.
Close(t) ==
  /\ status[t] # "closed"
  /\ status' = [status EXCEPT ![t] = "closed"]
  /\ dag' = [r \in Replicas |-> IF Page(r) = t THEN {} ELSE dag[r]]
  /\ inserted' = [r \in Replicas |-> IF Page(r) = t THEN {} ELSE inserted[r]]
  /\ adding' = {c \in adding : Page(c.at) # t}
  /\ writing' = {w \in writing : w[1] # t}
  /\ UNCHANGED <<content, stored, failed>>

-----------------------------------------------------------------------------

Next ==
  \/ \E r \in Replicas : \E ps \in SUBSET DOMAIN content : Add(r, ps)
  \/ \E c \in adding, id \in Ids : Added(c, id)
  \/ \E t \in Tabs :
       \/ \E p \in Peers : Sync(t, p)
       \/ \E id \in dag[t] : WriteCompletes(t, id) \/ WriteFails(t, id)
       \/ Open(t)
       \/ OpenFails(t)
       \/ Close(t)

Spec == Init /\ [][Next]_vars

(* IndexedDB settles what it is asked, a promise that settles is resumed,  *)
(* and the user keeps reconciling with each peer.                          *)
Fairness ==
  /\ \A t \in Tabs : WF_vars(\E id \in dag[t] : WriteCompletes(t, id) \/ WriteFails(t, id))
  /\ \A p \in Peers : WF_vars(Sync(PageOf[p], p))

FairSpec == Spec /\ Fairness

-----------------------------------------------------------------------------

TypeOK ==
  /\ DagTypeOK(Payloads)
  /\ inserted \in [Replicas -> SUBSET (Ids \X Ids)]
  /\ adding \subseteq Call /\ \A c \in adding : c.event.parents \subseteq dag[c.at]
  /\ status \in [Tabs -> {"closed", "open", "failed"}]
  /\ stored \subseteq DOMAIN content
  /\ writing \subseteq Tabs \X DOMAIN content
  /\ failed \subseteq DOMAIN content

(* Unknown parents are refused once, before an await, and never again: all *)
(* the same a replica's Map holds every event after all its parents, the   *)
(* order merge() copies it in and the store is written in.                 *)
CausalOrder ==
  \A r \in Replicas : \A e \in dag[r] : \A p \in Parents(e) :
    p \in dag[r] /\ <<p, e>> \in inserted[r]

(* "Every future genuinely-new event (from addEvent() or merge()) is       *)
(* automatically persisted": what an open tab knows is stored, or about to *)
(* be, or its write failed.                                                *)
OpenMemoryIsDurable ==
  \A t \in Tabs : status[t] = "open" =>
    dag[t] \subseteq stored \cup failed \cup {id \in dag[t] : <<t, id>> \in writing}

(* Whenever a tab dies, and whatever another tab of the wallet writes      *)
(* meanwhile, the store lacks a parent of a stored event only if a write   *)
(* of that parent failed.                                                  *)
HoleNeedsFailedWrite == \A id \in stored : Parents(id) \subseteq stored \cup failed

(* An event whose parent is not in the store is "tolerated rather than     *)
(* crashing", and createPersistedLedger() "composes with the WASM backend  *)
(* transparently": a saved wallet can be opened again.                     *)
OpenNeverFails == \A t \in Tabs : status[t] # "failed"

(* A wallet that is opened has its whole history back, all that any tab of *)
(* it ever stored, or is not opened at all.                                *)
ReopenRestores ==
  [][\A t \in Tabs : status[t] = "closed" /\ status'[t] # "closed" =>
       IF \E id \in stored : ~(Parents(id) \subseteq stored) THEN status'[t] = "failed"
       ELSE status'[t] = "open" /\ dag'[t] = stored]_vars

(* What a peer knows, which nobody persists for it, reaches the store in   *)
(* the end through the tab it is reconciled with, if the page stays open   *)
(* and the write does not fail.                                            *)
EventuallyStored ==
  \A p \in Peers, id \in Ids :
    id \in dag[p] ~> (id \in stored \cup failed \/ ~Live(p))
=============================================================================
