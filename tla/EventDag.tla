------------------------------ MODULE EventDag ------------------------------
(***************************************************************************)
(* public/js/core/event-dag.js (rust-core/src/core.rs has the same rules): *)
(* a replica's grow-only set of events linked to their causal parents.     *)
(* addEvent() awaits the hash between its parent check, MayAdd, and its    *)
(* insertion, Insert: the modules that use it make them two actions, as    *)
(* other calls may run in between; merge() is synchronous.                 *)
(*                                                                         *)
(* An event's id is its SHA-256.  The model keeps what follows from that:  *)
(* an id never stands for two contents, equal contents get the same id at  *)
(* every replica, and how ids compare says nothing about which event is    *)
(* older.  Ids are numbers, whose order is the order of the hashes.        *)
(***************************************************************************)
EXTENDS Naturals, Sequences, FiniteSets, SequencesExt

CONSTANTS MaxId,        \* bound: the hashes events may get are 1 .. MaxId,
          NewIds(_),    \* bound: and of them these, when some are taken
          Replicas,
          MaxParents    \* the app names at most two parents

Ids == 1 .. MaxId

ASSUME DagAssumption ==
  /\ MaxId \in Nat
  /\ MaxParents \in Nat
  /\ \A S \in SUBSET Ids : NewIds(S) \subseteq Ids \ S

VARIABLES content,    \* the hash function so far: id -> the event it names
          dag         \* _events: the ids each replica knows

\* An event that says one of these payloads, signed by the domain it names.
Event(payloads) == [parents : SUBSET Ids, payload : payloads]

Parents(id) == content[id].parents

\* What has a path to an event, among everything ever created.
Ancestors ==
  LET above[id \in DOMAIN content] ==
        Parents(id) \cup UNION {above[p] : p \in Parents(id)}
  IN  above

DagInit ==
  /\ content = [id \in {} |-> id]
  /\ dag = [r \in Replicas |-> {}]

-----------------------------------------------------------------------------
(* addEvent                                                                *)

\* Mutant: no check that the parents are known locally.
MayAdd_Unchecked(r, ps) == Cardinality(ps) <= MaxParents

\* The check made before the hash is awaited: an unknown parent is an error.
MayAdd(r, ps) == ps \subseteq dag[r] /\ Cardinality(ps) <= MaxParents

\* computeId: id is the hash of e, its old one if e was ever hashed before.
HashIs(e, id) ==
  /\ IF e \in {content[i] : i \in DOMAIN content}
     THEN id \in DOMAIN content /\ content[id] = e
     ELSE id \in NewIds(DOMAIN content)
  /\ content' = [i \in DOMAIN content \cup {id} |->
                   IF i \in DOMAIN content THEN content[i] ELSE e]

(* The hash is there: the event is inserted, and the listeners notified,   *)
(* unless it is known already.                                             *)
Insert(r, e, id) ==
  /\ HashIs(e, id)
  /\ dag' = [dag EXCEPT ![r] = @ \cup {id}]

-----------------------------------------------------------------------------
(* merge                                                                   *)

\* simulatedNetworkSend: s.merge(r) and r.merge(s), with no await between.
MergeBothWays(r, s) ==
  /\ dag' = [dag EXCEPT ![r] = @ \cup dag[s], ![s] = @ \cup dag[r]]
  /\ UNCHANGED content

-----------------------------------------------------------------------------
(* topoOrder                                                               *)

Ascending(S) == SelectSeq([i \in Ids |-> i], LAMBDA i : i \in S)

\* The first id of a set in the order of the hashes.
Least(S) == CHOOSE i \in S : \A j \in S : i <= j

\* Mutant: an event is emitted before its parents are visited.
DepthFirst_Preorder(S) ==
  LET emit[todo \in SUBSET S] ==
        [order \in Seq(S) |->
           IF todo = {} THEN order
           ELSE LET id == Least(todo)
                IN  emit[todo \ {id}]
                      [IF id \in Range(order) THEN order
                       ELSE emit[Parents(id) \cap S][Append(order, id)]]]
  IN  emit[S][<< >>]

(* Depth first from each id of S in turn: what order becomes once todo has *)
(* been visited, an event being emitted once all its parents in S are.     *)
DepthFirst(S) ==
  LET emit[todo \in SUBSET S] ==
        [order \in Seq(S) |->
           IF todo = {} THEN order
           ELSE LET id == Least(todo)
                IN  emit[todo \ {id}]
                      [IF id \in Range(order) THEN order
                       ELSE Append(emit[Parents(id) \cap S][order], id)]]
  IN  emit[S][<< >>]

\* What every materialized view of replica r is a fold over.
TopoOrder(r) == DepthFirst(dag[r])

-----------------------------------------------------------------------------

DagTypeOK(payloads) ==
  /\ content \in [DOMAIN content -> Event(payloads)] /\ DOMAIN content \subseteq Ids
  /\ dag \in [Replicas -> SUBSET DOMAIN content]

(* topoOrder() lists each known event once, parents before children,       *)
(* though ids are visited in the order of their hashes.                    *)
TopoOrderIsCausal ==
  \A r \in Replicas :
    LET order == TopoOrder(r)
    IN  /\ Len(order) = Cardinality(dag[r]) /\ Range(order) = dag[r]
        /\ \A i \in DOMAIN order : Parents(order[i]) \subseteq Range(SubSeq(order, 1, i - 1))
=============================================================================
