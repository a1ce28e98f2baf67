-------------------------- MODULE ReceptionCadence --------------------------
(***************************************************************************)
(* public/js/core/reception-cadence.js: at every cadence a domain signs    *)
(* what it has newly received (DomainLedger's ReceptionStarts); this fold  *)
(* checks that it never claims to have seen less of a source than before.  *)
(*                                                                         *)
(* A reference is an event's id: the source it names is that event's own   *)
(* domain, since postReceptionCommitment() copies it from there; and the   *)
(* commitment is 'full' exactly if it has references.                      *)
(***************************************************************************)
EXTENDS DomainLedger

InitialReceptions ==
  [maxSeen |-> [r \in Replicas |-> [s \in Replicas |-> 0]], rejected |-> {}]

\* Mutant: only a cadence event has an epoch.
SourceEpoch_NoWalk(id) == IF Type(id) = "cadence" THEN content[id].payload.epoch ELSE 0

(* deriveSourceEpochLookup, of an event that is known: the epoch of its    *)
(* domain that produced it.  The walk is bounded at 10000 events.          *)
SourceEpoch(id) ==
  IF Type(id) = "cadence" THEN content[id].payload.epoch
  ELSE Max({0} \cup {content[c].payload.epoch : c \in
             {p \in Ancestors[id] : Type(p) = "cadence" /\ Domain(p) = Domain(id)}})

\* How far id, a commitment, has come with source s.
Resolved(id, s) == Max({SourceEpoch(i) : i \in {j \in content[id].payload.refs : Domain(j) = s}})

(* applyReceptionCommitEvent, where known is all there is to resolve       *)
(* references; an event of another type is passed over.                    *)
ApplyReception(st, id, known) ==
  LET e == content[id].payload
      sources == {Domain(i) : i \in e.refs}
      seen == st.maxSeen[e.domain]
  IN  IF Type(id) # "reception" THEN st
      ELSE IF ~(e.refs \subseteq known) \/ \E s \in sources : Resolved(id, s) < seen[s]
      THEN Reject(st, id)
      ELSE [st EXCEPT !.maxSeen[e.domain] =
             [s \in Replicas |-> IF s \in sources THEN Resolved(id, s) ELSE seen[s]]]

\* The view after each event of a sequence.
ReceptionsAlong(order, known) ==
  LET st[n \in 0 .. Len(order)] ==
        IF n = 0 THEN InitialReceptions ELSE ApplyReception(st[n - 1], order[n], known)
  IN  st

MaterializeReceptionCadence(r) ==
  LET order == TopoOrder(r) IN ReceptionsAlong(order, dag[r])[Len(order)]

-----------------------------------------------------------------------------

(* An honest domain is never caught going backwards: at any replica, in    *)
(* whatever order the histories were merged, a commitment is only rejected *)
(* if the chain of its signer or of a source it names had forked, through  *)
(* overlapping handlers or a reload.                                       *)
HonestReceptionsAccepted ==
  \A r \in Replicas : \A id \in MaterializeReceptionCadence(r).rejected :
    \E d \in {Domain(id)} \cup {Domain(i) : i \in content[id].payload.refs} : d \in forked
=============================================================================
