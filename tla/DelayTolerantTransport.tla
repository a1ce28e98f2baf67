----------------------- MODULE DelayTolerantTransport -----------------------
(***************************************************************************)
(* public/js/core/transport/delay-tolerant-transport.js: per-peer queues,  *)
(* and the calls of send() and flush() that work on them.  JavaScript runs *)
(* one call at a time between awaits, so an action is the code from one    *)
(* await of sendFn to the next; what other calls do while sendFn is        *)
(* outstanding is any sequence of such actions.                            *)
(*                                                                         *)
(* Message i is the i-th that was sent (the code's id m<i-1>); its data is *)
(* nothing to the transport.                                               *)
(***************************************************************************)
EXTENDS Integers, Sequences, SequencesExt, FiniteSets, FiniteSetsExt

CONSTANTS Peers,
          Broadcast,    \* the key of the broadcast queue (peerId null)
          Flushers,     \* calls of flush() that may be in progress at once
          MaxMessages,  \* bound: messages ever sent
          MaxSends      \* bound: calls of send() in progress at once

ASSUME TransportAssumption ==
  /\ Broadcast \notin Peers
  /\ MaxMessages \in Nat
  /\ MaxSends \in Nat

VARIABLES queues,      \* key -> the FIFO of queued messages
          opened,      \* the peers that have a queue, in the Map's order
          dest,        \* dest[i] is the key message i was sent to
          sending,     \* message -> outcome of its send() call's sendFn
          flushing,    \* flusher -> the attempt it awaits, or Idle
          left,        \* history: how often message i has left the machine
          overlapped   \* history: keys on which a flush met another call

vars == <<queues, opened, dest, sending, flushing, left, overlapped>>

Keys == Peers \cup {Broadcast}
Messages == DOMAIN dest
Outcomes == {"pending", "sent", "failed"}
Attempt == [key : Keys, entry : 1 .. MaxMessages, outcome : Outcomes]
Idle == [key |-> Broadcast, entry |-> 0, outcome |-> "none"]

Members(s) == {s[i] : i \in DOMAIN s}

Init ==
  /\ queues = [k \in Keys |-> << >>]
  /\ opened = << >>
  /\ dest = << >>
  /\ sending = [m \in {} |-> "pending"]
  /\ flushing = [f \in Flushers |-> Idle]
  /\ left = [m \in 1 .. MaxMessages |-> 0]
  /\ overlapped = {}

-----------------------------------------------------------------------------
(* send                                                                    *)

\* Mutant: broadcasts get a queue among the peers' too.
Enqueue_NullKey(k, m) ==
  /\ queues' = [queues EXCEPT ![k] = Append(@, m)]
  /\ opened' = IF k \in Members(opened) THEN opened ELSE Append(opened, k)

\* enqueue: at the end of the peer's queue, made on first use.
Enqueue(k, m) ==
  /\ queues' = [queues EXCEPT ![k] = Append(@, m)]
  /\ opened' = IF k = Broadcast \/ k \in Members(opened) THEN opened
               ELSE Append(opened, k)

\* Mutant: the message is queued only if its first attempt fails.
Send_AttemptFirst(k) ==
  /\ Len(dest) < MaxMessages /\ Cardinality(DOMAIN sending) < MaxSends
  /\ dest' = Append(dest, k)
  /\ sending' = [m \in DOMAIN sending \cup {Len(dest) + 1} |->
                   IF m = Len(dest) + 1 THEN "pending" ELSE sending[m]]
  /\ UNCHANGED <<queues, opened, flushing, left>>

\* send(k, data) up to its await: the message is queued, then attempted.
Send(k) ==
  /\ Len(dest) < MaxMessages /\ Cardinality(DOMAIN sending) < MaxSends
  /\ dest' = Append(dest, k)
  /\ Enqueue(k, Len(dest) + 1)
  /\ sending' = [m \in DOMAIN sending \cup {Len(dest) + 1} |->
                   IF m = Len(dest) + 1 THEN "pending" ELSE sending[m]]
  /\ UNCHANGED <<flushing, left>>

(* sendFn settles for send()'s attempt: the message leaves, or the network *)
(* is down or rejects, which attemptSend turns into false.                 *)
SendSettles(m) ==
  /\ m \in DOMAIN sending /\ sending[m] = "pending"
  /\ \/ /\ sending' = [sending EXCEPT ![m] = "sent"]
        /\ left' = [left EXCEPT ![m] = @ + 1]
     \/ /\ sending' = [sending EXCEPT ![m] = "failed"]
        /\ UNCHANGED left
  /\ UNCHANGED <<queues, opened, dest, flushing>>

\* removeFromQueue: by id, wherever the message is now; perhaps nowhere.
RemoveFromQueue(m) ==
  LET q == queues[dest[m]]
  IN  \/ m \notin Members(q) /\ UNCHANGED queues
      \/ \E i \in DOMAIN q : q[i] = m /\ queues' = [queues EXCEPT ![dest[m]] = RemoveAt(q, i)]

\* Mutant: the message is removed whatever became of the attempt.
SendReturns_Blind(m) ==
  /\ m \in DOMAIN sending /\ sending[m] # "pending"
  /\ RemoveFromQueue(m)
  /\ sending' = [x \in DOMAIN sending \ {m} |-> sending[x]]
  /\ UNCHANGED <<opened, dest, flushing, left>>

\* send() resumes and returns.
SendReturns(m) ==
  /\ m \in DOMAIN sending /\ sending[m] # "pending"
  /\ IF sending[m] = "sent" THEN RemoveFromQueue(m) ELSE UNCHANGED queues
  /\ sending' = [x \in DOMAIN sending \ {m} |-> sending[x]]
  /\ UNCHANGED <<opened, dest, flushing, left>>

-----------------------------------------------------------------------------
(* flush                                                                   *)

\* Mutant: flush() forgets the broadcast queue.
FlushKeys_PeersOnly == opened

\* What flush() visits, in order: the peers' queues, then broadcast.
FlushKeys == opened \o <<Broadcast>>

\* The keys flush() has still to visit after k: newer peers, then broadcast.
KeysAfter(k) ==
  LET i == CHOOSE j \in DOMAIN FlushKeys : FlushKeys[j] = k
  IN  SubSeq(FlushKeys, i + 1, Len(FlushKeys))

(* flush() runs on with the keys ks: it attempts the head of the first     *)
(* queue that is not empty, or returns when there is none.                 *)
FlushOn(f, ks) ==
  \/ /\ \A i \in DOMAIN ks : queues'[ks[i]] = << >>
     /\ flushing' = [flushing EXCEPT ![f] = Idle]
  \/ \E i \in DOMAIN ks :
       /\ queues'[ks[i]] # << >> /\ \A j \in 1 .. i - 1 : queues'[ks[j]] = << >>
       /\ flushing' = [flushing EXCEPT ![f] =
            [key |-> ks[i], entry |-> Head(queues'[ks[i]]), outcome |-> "pending"]]

FlushStarts(f) ==
  /\ flushing[f] = Idle
  /\ \E k \in Keys : queues[k] # << >>
  /\ UNCHANGED queues
  /\ FlushOn(f, FlushKeys)
  /\ UNCHANGED <<opened, dest, sending, left>>

FlushLeaves(f) ==
  /\ flushing[f].outcome = "pending"
  /\ flushing' = [flushing EXCEPT ![f].outcome = "sent"]
  /\ left' = [left EXCEPT ![flushing[f].entry] = @ + 1]
  /\ UNCHANGED <<queues, opened, dest, sending>>

FlushFails(f) ==
  /\ flushing[f].outcome = "pending"
  /\ flushing' = [flushing EXCEPT ![f].outcome = "failed"]
  /\ UNCHANGED <<queues, opened, dest, sending, left>>

\* Array.shift() of a queue, which other calls may have emptied meanwhile.
Shift(q) == IF q = << >> THEN q ELSE Tail(q)

\* Mutant: a message that failed goes to the end of its queue.
FlushReturns_Requeue(f) ==
  LET k == flushing[f].key
  IN  /\ flushing[f].outcome \in {"sent", "failed"}
      /\ queues' = [queues EXCEPT ![k] = IF flushing[f].outcome = "sent" THEN Shift(@)
                                         ELSE Append(Shift(@), flushing[f].entry)]
      /\ FlushOn(f, KeysAfter(k))
      /\ UNCHANGED <<opened, dest, sending, left>>

\* Mutant: a sent message stays at the front of the queue flush() took it from.
FlushReturns_NoShift(f) ==
  LET k == flushing[f].key
  IN  /\ flushing[f].outcome \in {"sent", "failed"}
      /\ UNCHANGED queues
      /\ FlushOn(f, KeysAfter(k))
      /\ UNCHANGED <<opened, dest, sending, left>>

(* The attempt's await returns.  Sent: shift the queue, whatever is first  *)
(* in it now, and go on with the same peer.  Failed: go on with the next.  *)
FlushReturns(f) ==
  LET k == flushing[f].key
  IN  /\ \/ /\ flushing[f].outcome = "sent"
            /\ queues' = [queues EXCEPT ![k] = Shift(@)]
            /\ FlushOn(f, <<k>> \o KeysAfter(k))
         \/ /\ flushing[f].outcome = "failed"
            /\ UNCHANGED queues
            /\ FlushOn(f, KeysAfter(k))
      /\ UNCHANGED <<opened, dest, sending, left>>

-----------------------------------------------------------------------------

\* A flush() attempt on k is in progress together with another call on k.
Overlap(k) ==
  \E f \in Flushers :
    /\ flushing[f] # Idle /\ flushing[f].key = k
    /\ \/ \E m \in DOMAIN sending : dest[m] = k
       \/ \E g \in Flushers \ {f} : flushing[g] # Idle /\ flushing[g].key = k

NoteOverlaps == overlapped' = overlapped \cup {k \in Keys : Overlap(k)'}

Call ==
  \/ \E k \in Keys : Send(k)
  \/ \E m \in Messages : SendSettles(m) \/ SendReturns(m)
  \/ \E f \in Flushers :
       FlushStarts(f) \/ FlushLeaves(f) \/ FlushFails(f) \/ FlushReturns(f)

Next == Call /\ NoteOverlaps

Spec == Init /\ [][Next]_vars

(* A promise that settles is resumed, sendFn settles, contact windows keep *)
(* coming (flush() is called again and again), and a message attempted     *)
(* again and again on one key gets through once.                           *)
Fairness ==
  /\ \A m \in 1 .. MaxMessages :
       WF_vars((SendSettles(m) \/ SendReturns(m)) /\ NoteOverlaps)
  /\ \A f \in Flushers :
       /\ WF_vars((FlushStarts(f) \/ FlushLeaves(f) \/ FlushFails(f) \/ FlushReturns(f))
                  /\ NoteOverlaps)
       /\ \A k \in Keys : SF_vars(flushing[f].key = k /\ FlushLeaves(f) /\ NoteOverlaps)

FairSpec == Spec /\ Fairness

-----------------------------------------------------------------------------

TypeOK ==
  /\ queues \in [Keys -> Seq(Messages)]
  /\ opened \in Seq(Peers) /\ \A i, j \in DOMAIN opened : opened[i] = opened[j] => i = j
  /\ dest \in Seq(Keys) /\ Len(dest) <= MaxMessages
  /\ sending \in [DOMAIN sending -> Outcomes] /\ DOMAIN sending \subseteq Messages
  /\ flushing \in [Flushers -> Attempt \cup {Idle}]
  /\ left \in [1 .. MaxMessages -> Nat]
  /\ overlapped \subseteq Keys

Queued(m) == m \in Members(queues[dest[m]])
Left(m) == left[m] > 0

(* send() queues before it attempts, "so a crash between enqueueing and    *)
(* sending never loses it silently": until a message has left the machine  *)
(* it is queued, or its own send() may still make it leave.                *)
NoMessageLost ==
  \A m \in Messages : Queued(m) \/ Left(m) \/ m \in DOMAIN sending

(* What the code does keep: a message is lost only on a queue on which a   *)
(* flush() was in progress together with another send() or flush().        *)
LossNeedsOverlap == \A m \in Messages : Queued(m) \/ Left(m) \/ dest[m] \in overlapped

\* Nor does a message leave twice without such an overlap.
DuplicateNeedsOverlap ==
  \A m \in Messages : left[m] > 1 => dest[m] \in overlapped

(* Whatever overlaps, a queue loses no more messages than departures to    *)
(* its peer: each one lost has a duplicate of another to show for it.      *)
RemovalsArePaidFor ==
  \A k \in Keys :
    LET sent == {m \in Messages : dest[m] = k}
    IN  Cardinality(sent) - Len(queues[k]) <= SumFunctionOnSet(left, sent)

(* "A later message never overtakes an earlier one still stuck", of        *)
(* flush(): what it attempts is older than all that is queued for the      *)
(* peer, even when other calls changed the queue since.                    *)
FlushKeepsOrder ==
  \A f \in Flushers :
    flushing[f].outcome = "pending" =>
      \A m \in Members(queues[flushing[f].key]) : flushing[f].entry <= m

\* Every message leaves in the end, unless an overlap lost it.
EventuallyLeaves ==
  \A m \in 1 .. MaxMessages :
    m \in Messages ~> (m \in Messages /\ (Left(m) \/ dest[m] \in overlapped))
=============================================================================
