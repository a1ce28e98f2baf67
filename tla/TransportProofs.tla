-------------------------- MODULE TransportProofs --------------------------
(***************************************************************************)
(* Proofs about DelayTolerantTransport.tla, for any peers, any number of   *)
(* messages and any number of calls at once.                               *)
(***************************************************************************)
EXTENDS DelayTolerantTransport, SequenceTheorems, RecursionProofs

-----------------------------------------------------------------------------
(* Queues as sequences.                                                    *)

Increasing(q) == \A i, j \in 1 .. Len(q) : i < j => q[i] < q[j]

\* Len and DOMAIN, as the lemmas below need them.
LEMMA QueueShape ==
  ASSUME NEW S, NEW q \in Seq(S)
  PROVE  /\ Len(q) \in Nat /\ DOMAIN q = 1 .. Len(q)
         /\ q # << >> => Len(q) > 0 /\ Head(q) = q[1]
         /\ \A i \in 1 .. Len(q) : q[i] \in S
         /\ Members(q) = {q[i] : i \in 1 .. Len(q)}
BY DEF Members

\* A message sent now is newer than all that are queued.
LEMMA Appended ==
  ASSUME NEW n \in Nat, NEW q \in Seq(1 .. n), Increasing(q)
  PROVE  /\ Append(q, n + 1) \in Seq(1 .. n + 1) /\ Append(q, n + 1) # << >>
         /\ Increasing(Append(q, n + 1))
         /\ Members(Append(q, n + 1)) = Members(q) \cup {n + 1}
         /\ q # << >> => Head(Append(q, n + 1)) = Head(q)
<1> DEFINE r == Append(q, n + 1)
<1>1. /\ r \in Seq(1 .. n + 1) /\ Len(r) = Len(q) + 1
      /\ r[Len(q) + 1] = n + 1 /\ \A i \in 1 .. Len(q) : r[i] = q[i]
      /\ q # << >> => Head(r) = Head(q)
  OBVIOUS
<1>2. /\ Len(q) \in Nat /\ \A i \in 1 .. Len(q) : q[i] \in 1 .. n
      /\ Members(q) = {q[i] : i \in 1 .. Len(q)}
  BY QueueShape
<1> HIDE DEF r
<1>3. Members(r) = {r[i] : i \in 1 .. Len(r)}
  BY <1>1, QueueShape
<1>4. Increasing(r)
  <2> SUFFICES ASSUME NEW i \in 1 .. Len(r), NEW j \in 1 .. Len(r), i < j PROVE r[i] < r[j]
    BY DEF Increasing
  <2>1. i \in 1 .. Len(q) /\ r[i] = q[i] /\ q[i] \in 1 .. n
    BY <1>1, <1>2
  <2>2. CASE j \in 1 .. Len(q)
    <3>1. r[j] = q[j] /\ q[i] < q[j]
      BY <1>1, <2>1, <2>2 DEF Increasing
    <3>2. QED
      BY <2>1, <3>1
  <2>3. CASE j = Len(q) + 1
    BY <1>1, <2>1, <2>3
  <2>4. j \in 1 .. Len(q) \/ j = Len(q) + 1
    <3>1. Len(r) = Len(q) + 1 /\ Len(q) \in Nat
      BY <1>1, <1>2
    <3>2. j \in Nat /\ 1 <= j /\ j <= Len(q) + 1
      BY <3>1
    <3>3. QED
      BY <3>1, <3>2
  <2>5. QED
    BY <2>2, <2>3, <2>4
<1>5. Members(r) = Members(q) \cup {n + 1}
  <2>1. ASSUME NEW m \in Members(r) PROVE m \in Members(q) \cup {n + 1}
    <3>1. PICK i \in 1 .. Len(r) : m = r[i]
      BY <1>3
    <3>2. i \in 1 .. Len(q) \/ i = Len(q) + 1
      BY <1>1, <1>2
    <3>3. QED
      BY <1>1, <1>2, <3>1, <3>2
  <2>2. ASSUME NEW m \in Members(q) PROVE m \in Members(r)
    <3>1. PICK i \in 1 .. Len(q) : m = q[i]
      BY <1>2
    <3>2. i \in 1 .. Len(r) /\ r[i] = m
      BY <1>1, <1>2, <3>1
    <3>3. QED
      BY <1>3, <3>2
  <2>3. n + 1 \in Members(r)
    <3>1. Len(q) + 1 \in 1 .. Len(r)
      BY <1>1, <1>2
    <3>2. QED
      BY <1>1, <1>3, <3>1
  <2>4. QED
    BY <2>1, <2>2, <2>3
<1>6. r # << >>
  BY <1>1, <1>2
<1>7. QED
  BY <1>1, <1>4, <1>5, <1>6 DEF r

\* What shift() leaves of a queue is newer than what it took.
LEMMA Shifted ==
  ASSUME NEW n \in Nat, NEW q \in Seq(1 .. n), Increasing(q), q # << >>
  PROVE  /\ Shift(q) \in Seq(1 .. n) /\ Increasing(Shift(q)) /\ Head(q) \in Members(q)
         /\ Members(Shift(q)) = Members(q) \ {Head(q)}
         /\ \A m \in Members(Shift(q)) : Head(q) < m
         /\ Len(Shift(q)) = Len(q) - 1
<1> DEFINE r == Tail(q)
<1>1. /\ Shift(q) = r /\ r \in Seq(1 .. n) /\ Len(r) = Len(q) - 1
      /\ \A i \in 1 .. Len(r) : r[i] = q[i + 1]
  BY HeadTailProperties DEF Shift
<1>2. /\ Len(q) \in Nat \ {0} /\ Head(q) = q[1] /\ \A i \in 1 .. Len(q) : q[i] \in 1 .. n
      /\ Members(q) = {q[i] : i \in 1 .. Len(q)}
  BY QueueShape
<1>3. Members(r) = {r[i] : i \in 1 .. Len(r)}
  BY <1>1, QueueShape
<1> HIDE DEF r
<1>4. \A i, j \in 1 .. Len(q) : i < j => q[i] < q[j]
  BY DEF Increasing
<1>5. Increasing(r)
  <2> SUFFICES ASSUME NEW i \in 1 .. Len(r), NEW j \in 1 .. Len(r), i < j PROVE r[i] < r[j]
    BY DEF Increasing
  <2>1. i + 1 \in 1 .. Len(q) /\ j + 1 \in 1 .. Len(q) /\ i + 1 < j + 1
    BY <1>1, <1>2
  <2>2. q[i + 1] < q[j + 1]
    BY <1>4, <2>1
  <2>3. QED
    BY <1>1, <2>2
<1>6. \A i \in 1 .. Len(r) : i + 1 \in 1 .. Len(q) /\ q[1] < r[i] /\ r[i] \in 1 .. n
  <2> TAKE i \in 1 .. Len(r)
  <2>1. i + 1 \in 1 .. Len(q) /\ 1 \in 1 .. Len(q) /\ 1 < i + 1
    BY <1>1, <1>2
  <2>2. q[1] < q[i + 1] /\ q[i + 1] \in 1 .. n
    BY <1>2, <1>4, <2>1
  <2>3. QED
    BY <1>1, <2>1, <2>2
<1>7. \A i \in 1 .. Len(q) : i # 1 => i - 1 \in 1 .. Len(r) /\ r[i - 1] = q[i]
  BY <1>1, <1>2
<1>8. \A m \in Members(r) : m \in Members(q) /\ q[1] < m /\ m # q[1]
  <2> TAKE m \in Members(r)
  <2>1. PICK i \in 1 .. Len(r) : m = r[i]
    BY <1>3
  <2>2. i + 1 \in 1 .. Len(q) /\ m = q[i + 1] /\ q[1] < m /\ m \in 1 .. n
    BY <1>1, <1>6, <2>1
  <2>3. 1 \in 1 .. Len(q) /\ q[1] \in 1 .. n
    BY <1>2
  <2>4. QED
    BY <1>2, <2>2, <2>3
<1>9. \A m \in Members(q) : m # q[1] => m \in Members(r)
  BY <1>2, <1>3, <1>7
<1>10. q[1] \in Members(q)
  BY <1>2
<1>11. QED
  BY <1>1, <1>2, <1>5, <1>8, <1>9, <1>10

\* splice(i, 1) takes out the one message that is at i.
LEMMA Spliced ==
  ASSUME NEW n \in Nat, NEW q \in Seq(1 .. n), Increasing(q), NEW i \in 1 .. Len(q)
  PROVE  /\ RemoveAt(q, i) \in Seq(1 .. n) /\ Increasing(RemoveAt(q, i))
         /\ Members(RemoveAt(q, i)) = Members(q) \ {q[i]}
         /\ Len(RemoveAt(q, i)) = Len(q) - 1
<1> DEFINE s == SubSeq(q, 1, i - 1)
           t == SubSeq(q, i + 1, Len(q))
           r == RemoveAt(q, i)
<1>1. /\ Len(q) \in Nat /\ \A j \in 1 .. Len(q) : q[j] \in 1 .. n
      /\ Members(q) = {q[j] : j \in 1 .. Len(q)}
  BY QueueShape
<1>2. /\ s \in Seq(1 .. n) /\ Len(s) = i - 1 /\ \A j \in 1 .. i - 1 : s[j] = q[j]
  <2>1. 1 \in Int /\ i - 1 \in Int /\ \A j \in 1 .. i - 1 : q[j] \in 1 .. n
    BY <1>1
  <2>2. /\ s \in Seq(1 .. n) /\ Len(s) = (IF 1 <= i - 1 THEN i - 1 - 1 + 1 ELSE 0)
        /\ \A j \in 1 .. i - 1 - 1 + 1 : s[j] = q[1 + j - 1]
    BY <2>1, SubSeqProperties
  <2> HIDE DEF s
  <2>3. QED
    BY <2>2
<1>3. /\ t \in Seq(1 .. n) /\ Len(t) = Len(q) - i
      /\ \A j \in 1 .. Len(q) - i : t[j] = q[j + i]
  <2>1. i + 1 \in Int /\ Len(q) \in Int /\ \A j \in i + 1 .. Len(q) : q[j] \in 1 .. n
    BY <1>1
  <2>2. /\ t \in Seq(1 .. n) /\ Len(t) = (IF i + 1 <= Len(q) THEN Len(q) - (i + 1) + 1 ELSE 0)
        /\ \A j \in 1 .. Len(q) - (i + 1) + 1 : t[j] = q[i + 1 + j - 1]
    BY <2>1, SubSeqProperties
  <2> HIDE DEF t
  <2>3. Len(t) = Len(q) - i /\ Len(q) - (i + 1) + 1 = Len(q) - i
    BY <1>1, <2>2
  <2>4. ASSUME NEW j \in 1 .. Len(q) - i PROVE t[j] = q[j + i]
    <3>1. j \in 1 .. Len(q) - (i + 1) + 1 /\ i + 1 + j - 1 = j + i
      BY <1>1, <2>3
    <3>2. QED
      BY <2>2, <3>1
  <2>5. QED
    BY <2>2, <2>3, <2>4
<1>4. r = s \o t
  BY DEF RemoveAt
<1> HIDE DEF s, t, r
<1>5. /\ r \in Seq(1 .. n) /\ Len(r) = Len(s) + Len(t)
      /\ \A j \in 1 .. Len(s) + Len(t) : r[j] = IF j <= Len(s) THEN s[j] ELSE t[j - Len(s)]
  BY <1>2, <1>3, <1>4, ConcatProperties
<1>6. Len(r) = Len(q) - 1 /\ Members(r) = {r[j] : j \in 1 .. Len(r)}
  BY <1>1, <1>2, <1>3, <1>5, QueueShape
<1>7. \A j \in 1 .. Len(r) : r[j] = IF j < i THEN q[j] ELSE q[j + 1]
  <2> TAKE j \in 1 .. Len(r)
  <2>1. CASE j < i
    BY <1>1, <1>2, <1>3, <1>5, <1>6, <2>1
  <2>2. CASE ~(j < i)
    <3>1. /\ ~(j <= Len(s)) /\ j \in 1 .. Len(s) + Len(t) /\ j - Len(s) = j - (i - 1)
          /\ j - (i - 1) \in 1 .. Len(q) - i
      BY <1>1, <1>2, <1>3, <1>6, <2>2
    <3>2. r[j] = t[j - (i - 1)]
      BY <1>5, <3>1
    <3>3. t[j - (i - 1)] = q[j - (i - 1) + i]
      BY <1>3, <3>1
    <3>4. j - (i - 1) + i = j + 1
      BY <1>1, <1>6
    <3>5. QED
      BY <2>2, <3>2, <3>3, <3>4
  <2>3. QED
    BY <2>1, <2>2
<1>8. \A x, y \in 1 .. Len(q) : x < y => q[x] < q[y]
  BY DEF Increasing
<1>9. Increasing(r)
  <2> SUFFICES ASSUME NEW x \in 1 .. Len(r), NEW y \in 1 .. Len(r), x < y PROVE r[x] < r[y]
    BY DEF Increasing
  <2> DEFINE a == IF x < i THEN x ELSE x + 1
             b == IF y < i THEN y ELSE y + 1
  <2>1. a \in 1 .. Len(q) /\ b \in 1 .. Len(q) /\ a < b
    BY <1>1, <1>6
  <2>2. r[x] = q[a] /\ r[y] = q[b]
    BY <1>7
  <2>3. QED
    BY <1>8, <2>1, <2>2
<1>10. \A j \in 1 .. Len(r) : r[j] \in Members(q) \ {q[i]}
  <2> TAKE j \in 1 .. Len(r)
  <2> DEFINE a == IF j < i THEN j ELSE j + 1
  <2>1. a \in 1 .. Len(q) /\ (a < i \/ i < a) /\ r[j] = q[a]
    BY <1>1, <1>6, <1>7
  <2>2. q[a] \in 1 .. n /\ q[i] \in 1 .. n /\ (q[a] < q[i] \/ q[i] < q[a])
    BY <1>1, <1>8, <2>1
  <2>3. QED
    BY <1>1, <2>1, <2>2
<1>11. \A j \in 1 .. Len(q) : j # i => q[j] \in Members(r)
  <2> TAKE j \in 1 .. Len(q)
  <2>1. CASE j < i
    <3>1. j \in 1 .. Len(r) /\ r[j] = q[j]
      BY <1>1, <1>6, <1>7, <2>1
    <3>2. QED
      BY <1>6, <3>1
  <2>2. CASE i < j
    <3>1. j - 1 \in 1 .. Len(r) /\ ~(j - 1 < i) /\ j - 1 + 1 = j
      BY <1>1, <1>6, <2>2
    <3>2. r[j - 1] = q[j]
      BY <1>7, <3>1
    <3>3. QED
      BY <1>6, <3>1, <3>2
  <2>3. QED
    BY <1>1, <2>1, <2>2
<1>12. Members(r) = Members(q) \ {q[i]}
  BY <1>1, <1>6, <1>10, <1>11
<1>13. QED
  BY <1>5, <1>6, <1>9, <1>12 DEF r

-----------------------------------------------------------------------------
(* What the queues and the attempts are, whatever overlaps.                *)

\* Each queue is in the order of sending, and of messages to its key.
QueuesOK ==
  \A k \in Keys : Increasing(queues[k]) /\ \A m \in Members(queues[k]) : dest[m] = k

Visited == Members(opened) \cup {Broadcast}

\* What a flush() attempts was taken from the queue it visits, and is older than the rest.
AttemptsOK ==
  \A f \in Flushers : flushing[f] # Idle =>
    /\ flushing[f].key \in Visited
    /\ flushing[f].entry \in Messages /\ dest[flushing[f].entry] = flushing[f].key
    /\ \A m \in Members(queues[flushing[f].key]) : flushing[f].entry <= m

QInv == TypeOK /\ QueuesOK /\ AttemptsOK

\* Shapes, as the steps below need them.
LEMMA Shapes ==
  ASSUME TypeOK
  PROVE  /\ Messages = 1 .. Len(dest) /\ Len(dest) \in Nat /\ Len(dest) <= MaxMessages
         /\ \A k \in Keys : queues[k] \in Seq(1 .. Len(dest))
         /\ \A m \in Messages : dest[m] \in Keys
         /\ Visited \subseteq Keys
         /\ \A f \in Flushers : flushing[f] # Idle => flushing[f] \in Attempt
<1>1. /\ dest \in Seq(Keys) /\ opened \in Seq(Peers) /\ queues \in [Keys -> Seq(Messages)]
      /\ flushing \in [Flushers -> Attempt \cup {Idle}] /\ Len(dest) <= MaxMessages
  BY DEF TypeOK
<1>2. Messages = 1 .. Len(dest) /\ Len(dest) \in Nat /\ \A m \in Messages : dest[m] \in Keys
  BY <1>1 DEF Messages
<1>3. \A k \in Keys : queues[k] \in Seq(1 .. Len(dest))
  BY <1>1, <1>2
<1>4. Members(opened) = {opened[i] : i \in 1 .. Len(opened)} /\ \A i \in 1 .. Len(opened) : opened[i] \in Peers
  BY <1>1, QueueShape
<1>5. Visited \subseteq Keys
  BY <1>4 DEF Visited, Keys
<1>6. QED
  BY <1>1, <1>2, <1>3, <1>5

\* The first message of a queue is the oldest in it.
LEMMA Heads ==
  ASSUME TypeOK, QueuesOK, NEW k \in Keys, queues[k] # << >>
  PROVE  /\ Head(queues[k]) \in Messages /\ dest[Head(queues[k])] = k
         /\ Head(queues[k]) \in Members(queues[k])
         /\ \A m \in Members(queues[k]) : Head(queues[k]) <= m
<1>1. /\ Len(dest) \in Nat /\ queues[k] \in Seq(1 .. Len(dest)) /\ Increasing(queues[k])
      /\ Messages = 1 .. Len(dest)
  BY Shapes DEF QueuesOK
<1>2. /\ Head(queues[k]) \in Members(queues[k])
      /\ Members(Shift(queues[k])) = Members(queues[k]) \ {Head(queues[k])}
      /\ \A m \in Members(Shift(queues[k])) : Head(queues[k]) < m
  BY <1>1, Shifted
<1>3. /\ \A i \in 1 .. Len(queues[k]) : queues[k][i] \in 1 .. Len(dest)
      /\ Members(queues[k]) = {queues[k][i] : i \in 1 .. Len(queues[k])}
  BY <1>1, QueueShape
<1>4. \A m \in Members(queues[k]) : m \in 1 .. Len(dest)
  BY <1>3
<1>5. \A m \in Members(queues[k]) : m = Head(queues[k]) \/ Head(queues[k]) < m
  BY <1>2
<1>6. QED
  BY <1>1, <1>2, <1>4, <1>5 DEF QueuesOK

\* The keys that flush() visits, and those it has still to visit.
LEMMA VisitedKeys ==
  ASSUME TypeOK, NEW k \in Visited
  PROVE  /\ FlushKeys \in Seq(Visited)
         /\ KeysAfter(k) \in Seq(Visited)
         /\ <<k>> \o KeysAfter(k) \in Seq(Visited)
<1>1. opened \in Seq(Visited)
  <2>1. opened \in Seq(Peers) /\ Len(opened) \in Nat /\ Members(opened) = {opened[i] : i \in 1 .. Len(opened)}
    BY QueueShape DEF TypeOK
  <2>2. \A i \in 1 .. Len(opened) : opened[i] \in Visited
    BY <2>1 DEF Visited
  <2>3. opened = [i \in 1 .. Len(opened) |-> opened[i]]
    BY <2>1
  <2>4. QED
    BY <2>1, <2>2, <2>3
<1>2. <<Broadcast>> \in Seq(Visited) /\ <<k>> \in Seq(Visited)
  BY DEF Visited
<1>3. FlushKeys \in Seq(Visited)
  BY <1>1, <1>2, ConcatProperties DEF FlushKeys
<1>4. \E j \in DOMAIN FlushKeys : FlushKeys[j] = k
  <2>1. /\ Len(opened) \in Nat /\ Len(FlushKeys) = Len(opened) + 1
        /\ FlushKeys[Len(opened) + 1] = Broadcast
        /\ \A i \in 1 .. Len(opened) : FlushKeys[i] = opened[i]
    BY <1>1, <1>2 DEF FlushKeys
  <2>2. DOMAIN FlushKeys = 1 .. Len(opened) + 1
    BY <1>3, <2>1
  <2>3. k = Broadcast \/ \E i \in 1 .. Len(opened) : k = opened[i]
    BY <1>1 DEF Visited, Members
  <2>4. QED
    BY <2>1, <2>2, <2>3
<1>5. KeysAfter(k) \in Seq(Visited)
  <2> DEFINE i == CHOOSE j \in DOMAIN FlushKeys : FlushKeys[j] = k
  <2>1. i \in DOMAIN FlushKeys /\ DOMAIN FlushKeys = 1 .. Len(FlushKeys) /\ Len(FlushKeys) \in Nat
    BY <1>3, <1>4
  <2>2. KeysAfter(k) = SubSeq(FlushKeys, i + 1, Len(FlushKeys))
    BY DEF KeysAfter
  <2> HIDE DEF i
  <2>3. i + 1 \in Int /\ Len(FlushKeys) \in Int /\ \A j \in i + 1 .. Len(FlushKeys) : FlushKeys[j] \in Visited
    BY <1>3, <2>1
  <2>4. SubSeq(FlushKeys, i + 1, Len(FlushKeys)) \in Seq(Visited)
    BY <2>3, SubSeqProperties
  <2>5. QED
    BY <2>2, <2>4
<1>6. <<k>> \o KeysAfter(k) \in Seq(Visited)
  BY <1>2, <1>5, ConcatProperties
<1>7. QED
  BY <1>3, <1>5, <1>6

\* Flush f goes on with the first message of some queue, or is done.
Picks(f) ==
  \/ flushing' = [flushing EXCEPT ![f] = Idle]
  \/ \E k \in Visited :
       /\ queues'[k] # << >>
       /\ flushing' = [flushing EXCEPT ![f] =
            [key |-> k, entry |-> Head(queues'[k]), outcome |-> "pending"]]

LEMMA FlushPicks ==
  ASSUME QInv, NEW f \in Flushers, FlushStarts(f) \/ FlushReturns(f)
  PROVE  Picks(f)
<1>1. ASSUME NEW ks \in Seq(Visited), FlushOn(f, ks)
      PROVE  Picks(f)
  <2>1. \A i \in DOMAIN ks : ks[i] \in Visited
    OBVIOUS
  <2>2. QED
    BY <1>1, <2>1 DEF FlushOn, Picks
<1>2. CASE FlushStarts(f)
  <2>1. Broadcast \in Visited
    BY DEF Visited
  <2>2. QED
    BY <1>1, <1>2, <2>1, VisitedKeys DEF FlushStarts, QInv
<1>3. CASE FlushReturns(f)
  <2>1. flushing[f] # Idle
    BY <1>3 DEF FlushReturns, Idle
  <2>2. flushing[f].key \in Visited
    BY <2>1 DEF QInv, AttemptsOK
  <2>3. QED
    BY <1>1, <1>3, <2>2, VisitedKeys DEF FlushReturns, QInv
<1>4. QED
  BY <1>2, <1>3

\* A send() that resumes takes its message, and no other, out of its queue.
LEMMA Removal ==
  ASSUME TypeOK, QueuesOK, NEW m \in Messages, RemoveFromQueue(m)
  PROVE  /\ queues' \in [Keys -> Seq(1 .. Len(dest))]
         /\ \A k \in Keys : Increasing(queues'[k])
         /\ Members(queues'[dest[m]]) = Members(queues[dest[m]]) \ {m}
         /\ \A k \in Keys : k # dest[m] => queues'[k] = queues[k]
<1> DEFINE q == queues[dest[m]]
<1>1. /\ dest[m] \in Keys /\ queues \in [Keys -> Seq(1 .. Len(dest))] /\ Len(dest) \in Nat
      /\ q \in Seq(1 .. Len(dest)) /\ \A k \in Keys : Increasing(queues[k])
  BY Shapes DEF TypeOK, QueuesOK
<1>2. CASE m \notin Members(q) /\ UNCHANGED queues
  BY <1>1, <1>2
<1>3. ASSUME NEW i \in DOMAIN q, q[i] = m, queues' = [queues EXCEPT ![dest[m]] = RemoveAt(q, i)]
      PROVE  /\ queues' \in [Keys -> Seq(1 .. Len(dest))]
             /\ \A k \in Keys : Increasing(queues'[k])
             /\ Members(queues'[dest[m]]) = Members(queues[dest[m]]) \ {m}
             /\ \A k \in Keys : k # dest[m] => queues'[k] = queues[k]
  <2>1. i \in 1 .. Len(q)
    BY <1>1, QueueShape
  <2>2. /\ RemoveAt(q, i) \in Seq(1 .. Len(dest)) /\ Increasing(RemoveAt(q, i))
        /\ Members(RemoveAt(q, i)) = Members(q) \ {m}
    BY <1>1, <1>3, <2>1, Spliced
  <2> HIDE DEF q
  <2>3. /\ queues'[dest[m]] = RemoveAt(q, i)
        /\ \A k \in Keys : k # dest[m] => queues'[k] = queues[k]
    BY <1>1, <1>3
  <2>4. queues' \in [Keys -> Seq(1 .. Len(dest))]
    BY <1>1, <1>3, <2>2
  <2>5. QED
    BY <1>1, <2>2, <2>3, <2>4 DEF q
<1>4. QED
  BY <1>2, <1>3 DEF RemoveFromQueue

\* A flush() whose attempt succeeded takes the first message of its queue.
LEMMA Taking ==
  ASSUME TypeOK, QueuesOK, NEW c \in Keys, queues' = [queues EXCEPT ![c] = Shift(@)]
  PROVE  /\ queues' \in [Keys -> Seq(1 .. Len(dest))]
         /\ \A k \in Keys : Increasing(queues'[k])
         /\ Members(queues'[c]) = Members(queues[c]) \ {Head(queues[c])}
         /\ \A m \in Members(queues'[c]) : queues[c] # << >> /\ Head(queues[c]) < m
         /\ \A k \in Keys : k # c => queues'[k] = queues[k]
<1>1. /\ queues \in [Keys -> Seq(1 .. Len(dest))] /\ Len(dest) \in Nat
      /\ queues[c] \in Seq(1 .. Len(dest)) /\ \A k \in Keys : Increasing(queues[k])
  BY Shapes DEF TypeOK, QueuesOK
<1>2. /\ queues'[c] = Shift(queues[c]) /\ \A k \in Keys : k # c => queues'[k] = queues[k]
  BY <1>1
<1>3. CASE queues[c] = << >>
  <2>1. queues'[c] = queues[c] /\ Members(queues[c]) = {}
    BY <1>2, <1>3 DEF Shift, Members
  <2>2. queues' = queues
    BY <1>1, <1>2, <2>1
  <2>3. QED
    BY <1>1, <2>1, <2>2
<1>4. CASE queues[c] # << >>
  <2>1. /\ Shift(queues[c]) \in Seq(1 .. Len(dest)) /\ Increasing(Shift(queues[c]))
        /\ Members(Shift(queues[c])) = Members(queues[c]) \ {Head(queues[c])}
        /\ \A m \in Members(Shift(queues[c])) : Head(queues[c]) < m
    BY <1>1, <1>4, Shifted
  <2>2. queues' \in [Keys -> Seq(1 .. Len(dest))]
    BY <1>1, <2>1
  <2>3. QED
    BY <1>1, <1>2, <1>4, <2>1, <2>2
<1>5. QED
  BY <1>3, <1>4

(* Steps that add nothing to a queue, and of which at most flush f moves   *)
(* on, keep the queues and the attempts as they should be.                 *)
LEMMA QueuesShrink ==
  ASSUME QInv, NEW f \in Flushers, UNCHANGED <<dest, opened>>,
         queues' \in [Keys -> Seq(1 .. Len(dest))],
         \A k \in Keys : Increasing(queues'[k]) /\ Members(queues'[k]) \subseteq Members(queues[k]),
         \/ UNCHANGED flushing
         \/ Picks(f)
         \/ \E o \in Outcomes : flushing[f] # Idle /\ flushing' = [flushing EXCEPT ![f].outcome = o]
  PROVE  QueuesOK' /\ AttemptsOK' /\ flushing' \in [Flushers -> Attempt \cup {Idle}]
<1> USE DEF QInv
<1>1. /\ flushing \in [Flushers -> Attempt \cup {Idle}] /\ Messages = 1 .. Len(dest) /\ Len(dest) \in Nat
      /\ Len(dest) <= MaxMessages /\ MaxMessages \in Nat /\ Visited \subseteq Keys
      /\ Messages' = Messages /\ Visited' = Visited
  BY Shapes, TransportAssumption DEF TypeOK, Messages, Visited
<1>2. QueuesOK'
  BY DEF QueuesOK
<1>3. ASSUME NEW k \in Keys, queues'[k] # << >>
      PROVE  /\ Head(queues'[k]) \in Messages /\ dest[Head(queues'[k])] = k
             /\ \A m \in Members(queues'[k]) : Head(queues'[k]) <= m
  <2>1. /\ queues'[k] \in Seq(1 .. Len(dest)) /\ Increasing(queues'[k])
    OBVIOUS
  <2>2. /\ Head(queues'[k]) \in Members(queues'[k])
        /\ Members(Shift(queues'[k])) = Members(queues'[k]) \ {Head(queues'[k])}
        /\ \A m \in Members(Shift(queues'[k])) : Head(queues'[k]) < m
    BY <1>1, <1>3, <2>1, Shifted
  <2>3. \A m \in Members(queues'[k]) : m \in 1 .. Len(dest)
    BY <2>1, QueueShape
  <2>4. \A m \in Members(queues'[k]) : m = Head(queues'[k]) \/ Head(queues'[k]) < m
    BY <2>2
  <2>5. dest[Head(queues'[k])] = k
    BY <2>2 DEF QueuesOK
  <2>6. Head(queues'[k]) \in Messages
    BY <1>1, <2>2, <2>3
  <2>7. ASSUME NEW m \in Members(queues'[k]) PROVE Head(queues'[k]) <= m
    <3>1. m \in Nat /\ Head(queues'[k]) \in Nat
      BY <1>1, <2>3, <2>6
    <3>2. QED
      BY <2>4, <3>1
  <2>8. QED
    BY <2>5, <2>6, <2>7
<1>4. ASSUME NEW g \in Flushers, flushing'[g] # Idle, flushing[g] # Idle,
             flushing'[g].key = flushing[g].key, flushing'[g].entry = flushing[g].entry
      PROVE  /\ flushing'[g].key \in Visited'
             /\ flushing'[g].entry \in Messages' /\ dest'[flushing'[g].entry] = flushing'[g].key
             /\ \A m \in Members(queues'[flushing'[g].key]) : flushing'[g].entry <= m
  BY <1>1, <1>4 DEF AttemptsOK
<1>5. CASE UNCHANGED flushing
  BY <1>1, <1>2, <1>4, <1>5 DEF AttemptsOK
<1>6. ASSUME NEW o \in Outcomes, flushing[f] # Idle, flushing' = [flushing EXCEPT ![f].outcome = o]
      PROVE  QueuesOK' /\ AttemptsOK' /\ flushing' \in [Flushers -> Attempt \cup {Idle}]
  <2>1. flushing[f] \in Attempt
    BY <1>1, <1>6
  <2>2. flushing'[f] = [flushing[f] EXCEPT !.outcome = o] /\ \A g \in Flushers : g # f => flushing'[g] = flushing[g]
    BY <1>1, <1>6
  <2>3. /\ flushing'[f] \in Attempt /\ flushing'[f].key = flushing[f].key
        /\ flushing'[f].entry = flushing[f].entry
    BY <2>1, <2>2 DEF Attempt
  <2>4. flushing' \in [Flushers -> Attempt \cup {Idle}]
    BY <1>1, <1>6, <2>2, <2>3
  <2>5. AttemptsOK'
    BY <1>4, <1>6, <2>2, <2>3 DEF AttemptsOK
  <2>6. QED
    BY <1>2, <2>4, <2>5
<1>7. CASE flushing' = [flushing EXCEPT ![f] = Idle]
  <2>1. flushing'[f] = Idle /\ \A g \in Flushers : g # f => flushing'[g] = flushing[g]
    BY <1>1, <1>7
  <2>2. AttemptsOK'
    BY <1>4, <2>1 DEF AttemptsOK
  <2>3. QED
    BY <1>1, <1>2, <1>7, <2>2
<1>8. ASSUME NEW k \in Visited, queues'[k] # << >>,
             flushing' = [flushing EXCEPT ![f] =
               [key |-> k, entry |-> Head(queues'[k]), outcome |-> "pending"]]
      PROVE  QueuesOK' /\ AttemptsOK' /\ flushing' \in [Flushers -> Attempt \cup {Idle}]
  <2> DEFINE a == [key |-> k, entry |-> Head(queues'[k]), outcome |-> "pending"]
  <2>1. flushing'[f] = a /\ \A g \in Flushers : g # f => flushing'[g] = flushing[g]
    BY <1>1, <1>8
  <2>2. /\ k \in Keys /\ Head(queues'[k]) \in Messages /\ dest[Head(queues'[k])] = k
        /\ \A m \in Members(queues'[k]) : Head(queues'[k]) <= m
    BY <1>1, <1>3, <1>8
  <2>3. a \in Attempt
    BY <1>1, <2>2 DEF Attempt, Outcomes
  <2>4. flushing' \in [Flushers -> Attempt \cup {Idle}]
    BY <1>1, <1>8, <2>3
  <2>5. a.key = k /\ a.entry = Head(queues'[k])
    OBVIOUS
  <2> HIDE DEF a
  <2>6. ASSUME NEW g \in Flushers, flushing'[g] # Idle
        PROVE  /\ flushing'[g].key \in Visited'
               /\ flushing'[g].entry \in Messages' /\ dest'[flushing'[g].entry] = flushing'[g].key
               /\ \A m \in Members(queues'[flushing'[g].key]) : flushing'[g].entry <= m
    <3>1. CASE g = f
      BY <1>1, <1>8, <2>1, <2>2, <2>5, <3>1
    <3>2. CASE g # f
      BY <1>4, <2>1, <2>6, <3>2
    <3>3. QED
      BY <3>1, <3>2
  <2>7. AttemptsOK'
    BY <2>6 DEF AttemptsOK
  <2>8. QED
    BY <1>2, <2>4, <2>7
<1>9. QED
  BY <1>5, <1>6, <1>7, <1>8 DEF Picks

\* send() appends a message that is newer than any, and is of its key.
LEMMA SendQ ==
  ASSUME QInv, NEW k \in Keys, Send(k), NoteOverlaps
  PROVE  QInv'
<1> USE DEF QInv
<1> DEFINE new == Len(dest) + 1
<1>1. /\ Messages = 1 .. Len(dest) /\ Len(dest) \in Nat /\ MaxMessages \in Nat
      /\ queues \in [Keys -> Seq(1 .. Len(dest))] /\ Visited \subseteq Keys
      /\ \A m \in Messages : dest[m] \in Keys
  BY Shapes, TransportAssumption DEF TypeOK
<1>2. /\ Len(dest) < MaxMessages /\ dest' = Append(dest, k)
      /\ queues' = [queues EXCEPT ![k] = Append(@, new)]
      /\ opened' = (IF k = Broadcast \/ k \in Members(opened) THEN opened ELSE Append(opened, k))
      /\ sending' = [m \in DOMAIN sending \cup {new} |-> IF m = new THEN "pending" ELSE sending[m]]
      /\ UNCHANGED <<flushing, left>>
  BY DEF Send, Enqueue
<1>3. /\ dest' \in Seq(Keys) /\ Len(dest') = new /\ new \in Nat /\ new <= MaxMessages
      /\ dest'[new] = k /\ \A m \in Messages : dest'[m] = dest[m]
      /\ Messages' = Messages \cup {new} /\ Messages' = 1 .. new /\ new \notin Messages
  <2>1. dest \in Seq(Keys)
    BY DEF TypeOK
  <2>2. /\ dest' \in Seq(Keys) /\ Len(dest') = new /\ DOMAIN dest' = 1 .. new
        /\ dest'[new] = k /\ \A m \in 1 .. Len(dest) : dest'[m] = dest[m]
    BY <1>2, <2>1
  <2>3. QED
    BY <1>1, <1>2, <2>2 DEF Messages
<1>4. /\ Append(queues[k], new) \in Seq(1 .. new) /\ Increasing(Append(queues[k], new))
      /\ Members(Append(queues[k], new)) = Members(queues[k]) \cup {new}
  BY <1>1, Appended DEF QueuesOK
<1>5. /\ queues'[k] = Append(queues[k], new)
      /\ \A c \in Keys : c # k => queues'[c] = queues[c]
  BY <1>1, <1>2
<1>6. queues' \in [Keys -> Seq(Messages')]
  <2>1. \A c \in Keys : queues'[c] \in Seq(1 .. new)
    <3> TAKE c \in Keys
    <3>1. CASE c = k
      BY <1>4, <1>5, <3>1
    <3>2. CASE c # k
      <4>1. queues[c] \in Seq(1 .. Len(dest)) /\ (1 .. Len(dest)) \subseteq (1 .. new)
        BY <1>1
      <4>2. QED
        BY <1>5, <3>2, <4>1, SeqMonotonic
    <3>3. QED
      BY <3>1, <3>2
  <2>2. QED
    BY <1>1, <1>2, <1>3, <2>1
<1>7. \A c \in Keys : \A m \in Members(queues[c]) : m \in Messages
  BY <1>1, QueueShape
<1>8. QueuesOK'
  <2> SUFFICES ASSUME NEW c \in Keys
               PROVE  Increasing(queues'[c]) /\ \A m \in Members(queues'[c]) : dest'[m] = c
    BY DEF QueuesOK
  <2>1. CASE c = k
    BY <1>3, <1>4, <1>5, <1>7, <2>1 DEF QueuesOK
  <2>2. CASE c # k
    BY <1>3, <1>5, <1>7, <2>2 DEF QueuesOK
  <2>3. QED
    BY <2>1, <2>2
<1>9. /\ opened' \in Seq(Peers) /\ Visited \subseteq Visited'
      /\ \A i, j \in DOMAIN opened' : opened'[i] = opened'[j] => i = j
  <2>1. /\ opened \in Seq(Peers) /\ \A i, j \in DOMAIN opened : opened[i] = opened[j] => i = j
    BY DEF TypeOK
  <2>2. CASE UNCHANGED opened
    BY <2>1, <2>2 DEF Visited
  <2>3. CASE k # Broadcast /\ k \notin Members(opened) /\ opened' = Append(opened, k)
    <3>1. k \in Peers
      BY <2>3 DEF Keys
    <3>2. /\ opened' \in Seq(Peers) /\ Len(opened) \in Nat /\ DOMAIN opened' = 1 .. Len(opened) + 1
          /\ DOMAIN opened = 1 .. Len(opened)
          /\ opened'[Len(opened) + 1] = k /\ \A i \in 1 .. Len(opened) : opened'[i] = opened[i]
      BY <2>1, <2>3, <3>1
    <3>3. \A i \in 1 .. Len(opened) : opened[i] # k
      BY <2>3, <3>2 DEF Members
    <3>4. \A i \in DOMAIN opened' : i \in 1 .. Len(opened) \/ i = Len(opened) + 1
      BY <3>2
    <3>5. \A i, j \in DOMAIN opened' : opened'[i] = opened'[j] => i = j
      BY <2>1, <3>2, <3>3, <3>4
    <3>6. Members(opened) \subseteq Members(opened')
      BY <3>2 DEF Members
    <3>7. QED
      BY <3>2, <3>5, <3>6 DEF Visited
  <2>4. QED
    BY <1>2, <2>2, <2>3
<1>10. AttemptsOK'
  <2> SUFFICES ASSUME NEW f \in Flushers, flushing[f] # Idle
               PROVE  /\ flushing[f].key \in Visited'
                      /\ flushing[f].entry \in Messages' /\ dest'[flushing[f].entry] = flushing[f].key
                      /\ \A m \in Members(queues'[flushing[f].key]) : flushing[f].entry <= m
    BY <1>2 DEF AttemptsOK
  <2>1. /\ flushing[f].key \in Visited /\ flushing[f].key \in Keys
        /\ flushing[f].entry \in Messages /\ dest[flushing[f].entry] = flushing[f].key
        /\ \A m \in Members(queues[flushing[f].key]) : flushing[f].entry <= m
    BY <1>1 DEF AttemptsOK
  <2>2. flushing[f].entry <= new
    BY <1>1, <2>1
  <2>3. \A m \in Members(queues'[flushing[f].key]) : m \in Members(queues[flushing[f].key]) \/ m = new
    <3>1. CASE flushing[f].key = k
      <4>1. Members(queues'[k]) = Members(queues[k]) \cup {new}
        BY <1>4, <1>5
      <4>2. QED
        BY <3>1, <4>1
    <3>2. CASE flushing[f].key # k
      <4>1. queues'[flushing[f].key] = queues[flushing[f].key]
        BY <1>5, <2>1, <3>2
      <4>2. QED
        BY <4>1
    <3>3. QED
      BY <3>1, <3>2
  <2>4. QED
    BY <1>3, <1>9, <2>1, <2>2, <2>3
<1>11. sending' \in [DOMAIN sending' -> Outcomes] /\ DOMAIN sending' \subseteq Messages'
  BY <1>2, <1>3 DEF TypeOK, Outcomes
<1>12. overlapped' \subseteq Keys
  BY DEF NoteOverlaps, TypeOK
<1>13. TypeOK'
  BY <1>2, <1>3, <1>6, <1>9, <1>11, <1>12 DEF TypeOK
<1>14. QED
  BY <1>8, <1>10, <1>13

\* The rest of send() and flush() keeps the queues and the attempts in order.
LEMMA CallQ ==
  ASSUME QInv, Call, NoteOverlaps
  PROVE  QInv'
<1> USE DEF QInv
<1>1. /\ queues \in [Keys -> Seq(1 .. Len(dest))] /\ Messages = 1 .. Len(dest)
      /\ flushing \in [Flushers -> Attempt \cup {Idle}] /\ left \in [1 .. MaxMessages -> Nat]
      /\ \A k \in Keys : Increasing(queues[k])
      /\ MaxMessages \in Nat /\ Len(dest) \in Nat /\ Len(dest) <= MaxMessages
  BY Shapes, TransportAssumption DEF TypeOK, QueuesOK
<1>2. overlapped' \subseteq Keys
  BY DEF NoteOverlaps, TypeOK
<1>3. ASSUME UNCHANGED <<opened, dest>>,
             queues' \in [Keys -> Seq(1 .. Len(dest))], QueuesOK', AttemptsOK',
             flushing' \in [Flushers -> Attempt \cup {Idle}], left' \in [1 .. MaxMessages -> Nat],
             sending' \in [DOMAIN sending' -> Outcomes] /\ DOMAIN sending' \subseteq Messages
      PROVE  QInv'
  <2>1. Messages' = Messages
    BY <1>3 DEF Messages
  <2>2. TypeOK'
    BY <1>1, <1>2, <1>3, <2>1 DEF TypeOK
  <2>3. QED
    BY <1>3, <2>2
<1>4. ASSUME UNCHANGED <<opened, dest, queues, flushing>>
      PROVE  QueuesOK' /\ AttemptsOK'
  BY <1>4 DEF QueuesOK, AttemptsOK, Visited, Messages
<1>5. ASSUME NEW k \in Keys, Send(k) PROVE QInv'
  BY <1>5, SendQ
<1>6. ASSUME NEW m \in Messages, SendSettles(m) PROVE QInv'
  <2>1. m \in 1 .. MaxMessages /\ left' \in [1 .. MaxMessages -> Nat]
    BY <1>1, <1>6 DEF SendSettles
  <2>2. sending' \in [DOMAIN sending' -> Outcomes] /\ DOMAIN sending' \subseteq Messages
    BY <1>6 DEF SendSettles, TypeOK, Outcomes
  <2>3. UNCHANGED <<opened, dest, queues, flushing>>
    BY <1>6 DEF SendSettles
  <2>4. QED
    BY <1>1, <1>3, <1>4, <2>1, <2>2, <2>3
<1>7. ASSUME NEW m \in Messages, SendReturns(m) PROVE QInv'
  <2>1. /\ UNCHANGED <<opened, dest, flushing, left>>
        /\ sending' = [x \in DOMAIN sending \ {m} |-> sending[x]]
    BY <1>7 DEF SendReturns
  <2>2. sending' \in [DOMAIN sending' -> Outcomes] /\ DOMAIN sending' \subseteq Messages
    BY <2>1 DEF TypeOK
  <2>3. CASE UNCHANGED queues
    BY <1>1, <1>3, <1>4, <2>1, <2>2, <2>3
  <2>4. CASE RemoveFromQueue(m)
    <3>1. /\ queues' \in [Keys -> Seq(1 .. Len(dest))]
          /\ \A k \in Keys : Increasing(queues'[k]) /\ Members(queues'[k]) \subseteq Members(queues[k])
      BY <2>4, Removal
    <3>2. QueuesOK'
      BY <2>1, <3>1 DEF QueuesOK
    <3>3. Visited \subseteq Keys /\ Visited' = Visited /\ Messages' = Messages
      BY <2>1, Shapes DEF Visited, Messages
    <3>4. AttemptsOK'
      BY <2>1, <3>1, <3>3 DEF AttemptsOK
    <3>5. QED
      BY <1>1, <1>3, <2>1, <2>2, <3>1, <3>2, <3>4
  <2>5. QED
    BY <1>7, <2>3, <2>4 DEF SendReturns
<1>8. ASSUME NEW f \in Flushers, UNCHANGED <<opened, dest, sending>>,
             left' \in [1 .. MaxMessages -> Nat],
             queues' \in [Keys -> Seq(1 .. Len(dest))],
             \A k \in Keys : Increasing(queues'[k]) /\ Members(queues'[k]) \subseteq Members(queues[k]),
             \/ Picks(f)
             \/ \E o \in Outcomes : flushing[f] # Idle /\ flushing' = [flushing EXCEPT ![f].outcome = o]
      PROVE  QInv'
  <2>1. QueuesOK' /\ AttemptsOK' /\ flushing' \in [Flushers -> Attempt \cup {Idle}]
    BY <1>8, QueuesShrink
  <2>2. sending' \in [DOMAIN sending' -> Outcomes] /\ DOMAIN sending' \subseteq Messages
    BY <1>8 DEF TypeOK
  <2>3. QED
    BY <1>3, <1>8, <2>1, <2>2
<1>9. ASSUME NEW f \in Flushers, FlushStarts(f) PROVE QInv'
  <2>1. Picks(f) /\ UNCHANGED <<queues, opened, dest, sending, left>>
    BY <1>9, FlushPicks DEF FlushStarts
  <2>2. QED
    BY <1>1, <1>8, <2>1
<1>10. ASSUME NEW f \in Flushers, FlushLeaves(f) \/ FlushFails(f) PROVE QInv'
  <2>1. flushing[f] # Idle /\ UNCHANGED <<queues, opened, dest, sending>>
    BY <1>10 DEF FlushLeaves, FlushFails, Idle
  <2>2. \E o \in Outcomes : flushing' = [flushing EXCEPT ![f].outcome = o]
    BY <1>10 DEF FlushLeaves, FlushFails, Outcomes
  <2>3. left' \in [1 .. MaxMessages -> Nat]
    BY <1>1, <1>10, <2>1 DEF FlushLeaves, FlushFails, AttemptsOK
  <2>4. QED
    BY <1>1, <1>8, <2>1, <2>2, <2>3
<1>11. ASSUME NEW f \in Flushers, FlushReturns(f) PROVE QInv'
  <2>1. Picks(f) /\ UNCHANGED <<opened, dest, sending, left>>
    BY <1>11, FlushPicks DEF FlushReturns
  <2>2. flushing[f].key \in Keys
    <3>1. flushing[f] # Idle
      BY <1>11 DEF FlushReturns, Idle
    <3>2. QED
      BY <3>1, Shapes DEF AttemptsOK
  <2>3. CASE UNCHANGED queues
    BY <1>1, <1>8, <2>1, <2>3
  <2>4. CASE queues' = [queues EXCEPT ![flushing[f].key] = Shift(@)]
    <3>1. /\ queues' \in [Keys -> Seq(1 .. Len(dest))]
          /\ \A k \in Keys : Increasing(queues'[k]) /\ Members(queues'[k]) \subseteq Members(queues[k])
      BY <2>2, <2>4, Taking
    <3>2. QED
      BY <1>1, <1>8, <2>1, <3>1
  <2>5. QED
    BY <1>11, <2>3, <2>4 DEF FlushReturns
<1>12. QED
  BY <1>5, <1>6, <1>7, <1>9, <1>10, <1>11 DEF Call

LEMMA InitQ == Init => QInv
<1> SUFFICES ASSUME Init PROVE QInv
  OBVIOUS
<1>1. Messages = {} /\ Len(dest) = 0
  BY DEF Init, Messages
<1>2. \A k \in Keys : queues[k] = << >>
  BY DEF Init
<1>3. \A k \in Keys : Members(queues[k]) = {} /\ Increasing(queues[k])
  BY <1>2 DEF Members, Increasing
<1>4. TypeOK
  BY <1>1, TransportAssumption DEF Init, TypeOK
<1>5. QED
  BY <1>3, <1>4 DEF QInv, QueuesOK, AttemptsOK, Init

LEMMA StutterQ == QInv /\ UNCHANGED vars => QInv'
BY DEF vars, QInv, TypeOK, QueuesOK, AttemptsOK, Messages, Visited

THEOREM Queues == Spec => []QInv
<1>1. QInv /\ [Next]_vars => QInv'
  BY CallQ, StutterQ DEF Next
<1>2. QED
  BY <1>1, InitQ, PTL DEF Spec

\* The transport's state has the shape of the code's.
THEOREM TypeCorrect == Spec => []TypeOK
BY Queues, PTL DEF QInv

(* What flush() attempts is older than all that is queued for its peer,    *)
(* whatever send() and other flushes did to the queue since.               *)
THEOREM OldestFirst == Spec => []FlushKeepsOrder
<1>1. QInv => FlushKeepsOrder
  BY DEF QInv, AttemptsOK, FlushKeepsOrder, Idle
<1>2. QED
  BY <1>1, Queues, PTL

-----------------------------------------------------------------------------
(* Where no calls have overlapped, what leaves is what is removed, once.   *)

OverlapsNoted == \A k \in Keys : Overlap(k) => k \in overlapped

SentHaveLeft ==
  /\ \A m \in DOMAIN sending : sending[m] = "sent" => Left(m)
  /\ \A f \in Flushers : flushing[f].outcome = "sent" => Left(flushing[f].entry)

\* What a flush() attempts is still first in its queue.
AtHead ==
  \A f \in Flushers : flushing[f] # Idle =>
    \/ flushing[f].key \in overlapped
    \/ queues[flushing[f].key] # << >> /\ Head(queues[flushing[f].key]) = flushing[f].entry

NotYet == \A m \in 1 .. MaxMessages : m \notin Messages => left[m] = 0

(* A message under way has not left yet; and one that has left, but is     *)
(* still queued, is about to be removed by the call that made it leave.    *)
Once(m) ==
  /\ left[m] \in {0, 1}
  /\ m \in DOMAIN sending /\ sending[m] # "sent" => left[m] = 0
  /\ \A f \in Flushers : flushing[f].entry = m /\ flushing[f].outcome # "sent" => left[m] = 0
  /\ Queued(m) /\ left[m] # 0 =>
       \/ m \in DOMAIN sending /\ sending[m] = "sent"
       \/ \E f \in Flushers : flushing[f].entry = m /\ flushing[f].outcome = "sent"

OnceEach == \A m \in Messages : dest[m] \in overlapped \/ Once(m)

OInv ==
  QInv /\ OverlapsNoted /\ SentHaveLeft /\ AtHead /\ NotYet /\ LossNeedsOverlap /\ OnceEach

\* On a key without an overlap a flush() is alone, before and after a step.
LEMMA Calm ==
  ASSUME OverlapsNoted, NoteOverlaps, NEW k \in Keys, k \notin overlapped'
  PROVE  /\ k \notin overlapped
         /\ \A f \in Flushers : flushing[f] # Idle /\ flushing[f].key = k =>
              /\ \A m \in DOMAIN sending : dest[m] # k
              /\ \A g \in Flushers : flushing[g] # Idle /\ flushing[g].key = k => g = f
         /\ \A f \in Flushers : flushing'[f] # Idle /\ flushing'[f].key = k =>
              /\ \A m \in DOMAIN sending' : dest'[m] # k
              /\ \A g \in Flushers : flushing'[g] # Idle /\ flushing'[g].key = k => g = f
<1>1. k \notin overlapped /\ ~Overlap(k)' /\ ~Overlap(k)
  BY DEF NoteOverlaps, OverlapsNoted
<1>2. QED
  BY <1>1 DEF Overlap

LEMMA NotedStep == NoteOverlaps => OverlapsNoted'
BY DEF NoteOverlaps, OverlapsNoted

\* Flushes that attempt a message, and what they attempt.
LEMMA Attempts ==
  ASSUME QInv, NEW f \in Flushers
  PROVE  /\ flushing[f] = Idle <=> flushing[f].outcome = "none"
         /\ flushing[f] = Idle => flushing[f].entry = 0
         /\ flushing[f] # Idle => /\ flushing[f].key \in Keys
                                  /\ flushing[f].entry \in Messages
                                  /\ dest[flushing[f].entry] = flushing[f].key
                                  /\ flushing[f].outcome \in Outcomes
<1>1. flushing[f] # Idle => flushing[f] \in Attempt
  BY DEF QInv, TypeOK
<1>2. QED
  BY <1>1 DEF QInv, AttemptsOK, Attempt, Outcomes, Idle

LEMMA SendO ==
  ASSUME OInv, QInv', NEW k \in Keys, Send(k), NoteOverlaps
  PROVE  OInv'
<1> PICK new : new = Len(dest) + 1
  OBVIOUS
<1> USE DEF OInv
<1>1. /\ Messages = 1 .. Len(dest) /\ Len(dest) \in Nat /\ new \in 1 .. MaxMessages
      /\ new \notin Messages /\ queues \in [Keys -> Seq(1 .. Len(dest))]
      /\ left \in [1 .. MaxMessages -> Nat]
  <2>1. MaxMessages \in Nat /\ Len(dest) < MaxMessages
    BY TransportAssumption DEF Send
  <2>2. QED
    BY <2>1, Shapes DEF QInv, TypeOK
<1>2. /\ dest' = Append(dest, k) /\ queues' = [queues EXCEPT ![k] = Append(@, new)]
      /\ sending' = [m \in DOMAIN sending \cup {new} |-> IF m = new THEN "pending" ELSE sending[m]]
      /\ UNCHANGED <<flushing, left>>
  BY DEF Send, Enqueue
<1>3. /\ Messages' = Messages \cup {new} /\ dest'[new] = k
      /\ \A m \in Messages : dest'[m] = dest[m] /\ m # new
  <2>1. dest \in Seq(Keys)
    BY DEF QInv, TypeOK
  <2>2. /\ DOMAIN dest' = 1 .. new
        /\ dest'[new] = k /\ \A m \in 1 .. Len(dest) : dest'[m] = dest[m]
    BY <1>2, <2>1
  <2>3. QED
    BY <1>1, <2>2 DEF Messages
<1>4. /\ queues'[k] = Append(queues[k], new) /\ Members(queues'[k]) = Members(queues[k]) \cup {new}
      /\ \A c \in Keys : c # k => queues'[c] = queues[c]
  <2>1. /\ queues[k] \in Seq(1 .. Len(dest)) /\ Increasing(queues[k])
    BY <1>1 DEF QInv, QueuesOK
  <2>2. Members(Append(queues[k], new)) = Members(queues[k]) \cup {new}
    BY <1>1, <2>1, Appended
  <2>3. QED
    BY <1>1, <1>2, <2>2
<1>5. \A m \in Messages : dest[m] \in Keys /\ (Queued(m)' <=> Queued(m))
  <2> TAKE m \in Messages
  <2>1. dest[m] \in Keys /\ dest'[m] = dest[m] /\ m # new
    BY <1>3, Shapes DEF QInv
  <2>2. m \in Members(queues'[dest[m]]) <=> m \in Members(queues[dest[m]])
    <3>1. CASE dest[m] = k
      BY <1>4, <2>1, <3>1
    <3>2. CASE dest[m] # k
      BY <1>4, <2>1, <3>2
    <3>3. QED
      BY <3>1, <3>2
  <2>3. QED
    BY <2>1, <2>2 DEF Queued
<1>6. DOMAIN sending \subseteq Messages /\ DOMAIN sending' = DOMAIN sending \cup {new}
      /\ sending'[new] = "pending" /\ \A m \in Messages : m \in DOMAIN sending => sending'[m] = sending[m]
  BY <1>2, <1>3 DEF QInv, TypeOK
<1>7. SentHaveLeft'
  BY <1>2, <1>3, <1>6 DEF SentHaveLeft, Left
<1>8. AtHead'
  <2> SUFFICES ASSUME NEW f \in Flushers, flushing[f] # Idle, flushing[f].key \notin overlapped'
               PROVE  /\ queues'[flushing[f].key] # << >>
                      /\ Head(queues'[flushing[f].key]) = flushing[f].entry
    BY <1>2 DEF AtHead
  <2>1. flushing[f].key \in Keys /\ flushing[f].key # k
    <3>1. flushing[f].key \in Keys
      BY Attempts
    <3>2. \A m \in DOMAIN sending' : dest'[m] # flushing[f].key
      BY <1>2, <3>1, Calm
    <3>3. QED
      BY <1>3, <1>6, <3>1, <3>2
  <2>2. flushing[f].key \notin overlapped
    BY <2>1, Calm
  <2>3. QED
    BY <1>4, <2>1, <2>2 DEF AtHead
<1>9. NotYet'
  BY <1>2, <1>3 DEF NotYet
<1>10. overlapped \subseteq overlapped'
  BY DEF NoteOverlaps
<1>11. LossNeedsOverlap'
  <2>1. Queued(new)'
    BY <1>3, <1>4 DEF Queued
  <2>2. \A m \in Messages : Queued(m)' \/ Left(m)' \/ dest'[m] \in overlapped'
    BY <1>2, <1>3, <1>5, <1>10 DEF LossNeedsOverlap, Left
  <2>3. QED
    BY <1>3, <2>1, <2>2 DEF LossNeedsOverlap
<1>12. OnceEach'
  <2>1. ASSUME NEW m \in Messages, dest'[m] \notin overlapped' PROVE Once(m)'
    <3>1. Once(m)
      BY <1>3, <1>10, <2>1 DEF OnceEach
    <3>2. m \in DOMAIN sending' <=> m \in DOMAIN sending
      BY <1>3, <1>6
    <3>3. m \in DOMAIN sending => sending'[m] = sending[m]
      BY <1>6
    <3>4. QED
      BY <1>2, <1>5, <3>1, <3>2, <3>3 DEF Once
  <2>2. left'[new] = 0
    BY <1>1, <1>2 DEF NotYet
  <2>3. Once(new)'
    BY <2>2 DEF Once
  <2>4. QED
    BY <1>3, <2>1, <2>3 DEF OnceEach
<1>13. QED
  BY <1>7, <1>8, <1>9, <1>11, <1>12, NotedStep

\* What a step that sends nothing leaves as it is.
LEMMA Settled ==
  ASSUME QInv, NoteOverlaps, UNCHANGED dest
  PROVE  /\ Messages' = Messages /\ Messages = 1 .. Len(dest) /\ Messages \subseteq 1 .. MaxMessages
         /\ 0 \notin Messages /\ \A m \in Messages : dest[m] \in Keys
         /\ overlapped \subseteq overlapped'
         /\ DOMAIN sending \subseteq Messages /\ left \in [1 .. MaxMessages -> Nat]
<1>1. /\ Messages = 1 .. Len(dest) /\ Len(dest) \in Nat /\ Len(dest) <= MaxMessages
      /\ MaxMessages \in Nat /\ \A m \in Messages : dest[m] \in Keys
  BY Shapes, TransportAssumption DEF QInv
<1>2. Messages' = Messages /\ overlapped \subseteq overlapped'
  BY DEF Messages, NoteOverlaps
<1>3. QED
  BY <1>1, <1>2 DEF QInv, TypeOK

LEMMA SendSettlesO ==
  ASSUME OInv, QInv', NEW m \in Messages, SendSettles(m), NoteOverlaps
  PROVE  OInv'
<1> USE DEF OInv
<1>1. /\ UNCHANGED <<queues, dest, flushing>> /\ m \in DOMAIN sending /\ sending[m] = "pending"
      /\ DOMAIN sending' = DOMAIN sending /\ \A x \in DOMAIN sending : x # m => sending'[x] = sending[x]
      /\ \/ sending'[m] = "sent" /\ left' = [left EXCEPT ![m] = @ + 1]
         \/ sending'[m] = "failed" /\ left' = left
  BY DEF SendSettles
<1>2. /\ Messages' = Messages /\ Messages \subseteq 1 .. MaxMessages /\ 0 \notin Messages
      /\ DOMAIN sending \subseteq Messages /\ overlapped \subseteq overlapped'
      /\ \A x \in Messages : dest[x] \in Keys
  BY <1>1, Settled
<1>3. /\ \A x \in 1 .. MaxMessages : x # m => left'[x] = left[x]
      /\ sending'[m] = "sent" => left'[m] = left[m] + 1
      /\ sending'[m] # "sent" => left'[m] = left[m]
      /\ \A x \in 1 .. MaxMessages : left[x] \in Nat
  BY <1>1, <1>2, Settled
<1>4. \A x \in Messages : Left(x) => left'[x] > 0
  BY <1>2, <1>3 DEF Left
<1>5. SentHaveLeft'
  <2>1. ASSUME NEW x \in DOMAIN sending', sending'[x] = "sent" PROVE left'[x] > 0
    <3>1. CASE x = m
      BY <1>2, <1>3, <2>1, <3>1
    <3>2. CASE x # m
      BY <1>1, <1>2, <1>4, <2>1, <3>2 DEF SentHaveLeft
    <3>3. QED
      BY <3>1, <3>2
  <2>2. ASSUME NEW f \in Flushers, flushing[f].outcome = "sent" PROVE left'[flushing[f].entry] > 0
    <3>1. flushing[f].entry \in Messages /\ Left(flushing[f].entry)
      BY <2>2, Attempts DEF SentHaveLeft
    <3>2. QED
      BY <1>4, <3>1
  <2>3. QED
    BY <1>1, <2>1, <2>2 DEF SentHaveLeft, Left
<1>6. AtHead'
  BY <1>1, <1>2 DEF AtHead
<1>7. NotYet'
  BY <1>2, <1>3 DEF NotYet
<1>8. LossNeedsOverlap'
  BY <1>1, <1>2, <1>4 DEF LossNeedsOverlap, Queued, Left
<1>9. OnceEach'
  <2> SUFFICES ASSUME NEW x \in Messages, dest[x] \notin overlapped' PROVE Once(x)'
    BY <1>1, <1>2 DEF OnceEach
  <2>1. Once(x)
    BY <1>2 DEF OnceEach
  <2>2. CASE x # m
    BY <1>1, <1>2, <1>3, <2>1, <2>2 DEF Once, Queued
  <2>3. CASE x = m
    <3>1. left[m] = 0
      BY <1>1, <2>1, <2>3 DEF Once
    <3>2. ASSUME NEW f \in Flushers PROVE flushing[f].entry # m
      <4>1. CASE flushing[f] = Idle
        BY <1>2, <4>1, Attempts
      <4>2. CASE flushing[f] # Idle
        BY <1>1, <1>2, <2>3, <4>2, Attempts, Calm
      <4>3. QED
        BY <4>1, <4>2
    <3>3. left'[m] \in {0, 1} /\ (sending'[m] # "sent" => left'[m] = 0)
      BY <1>2, <1>3, <3>1
    <3>4. QED
      BY <1>1, <2>3, <3>2, <3>3 DEF Once
  <2>4. QED
    BY <2>2, <2>3
<1>10. QED
  BY <1>5, <1>6, <1>7, <1>8, <1>9, NotedStep

LEMMA SendReturnsO ==
  ASSUME OInv, QInv', NEW m \in Messages, SendReturns(m), NoteOverlaps
  PROVE  OInv'
<1> USE DEF OInv
<1>1. /\ UNCHANGED <<dest, flushing, left>> /\ m \in DOMAIN sending
      /\ DOMAIN sending' = DOMAIN sending \ {m} /\ \A x \in DOMAIN sending' : sending'[x] = sending[x]
      /\ \/ sending[m] = "sent" /\ RemoveFromQueue(m)
         \/ sending[m] # "sent" /\ UNCHANGED queues
  BY DEF SendReturns
<1>2. /\ Messages' = Messages /\ 0 \notin Messages /\ overlapped \subseteq overlapped'
      /\ \A x \in Messages : dest[x] \in Keys
  BY <1>1, Settled
<1>3. /\ \A c \in Keys : c # dest[m] => queues'[c] = queues[c]
      /\ sending[m] = "sent" => Members(queues'[dest[m]]) = Members(queues[dest[m]]) \ {m}
      /\ sending[m] # "sent" => Members(queues'[dest[m]]) = Members(queues[dest[m]])
  BY <1>1, Removal DEF QInv
<1>4. \A x \in Messages : x # m => (x \in Members(queues'[dest[x]]) <=> x \in Members(queues[dest[x]]))
  <2> SUFFICES ASSUME NEW x \in Messages, x # m
               PROVE  x \in Members(queues'[dest[x]]) <=> x \in Members(queues[dest[x]])
    OBVIOUS
  <2>1. CASE dest[x] = dest[m]
    BY <1>3, <2>1
  <2>2. CASE dest[x] # dest[m]
    <3>1. queues'[dest[x]] = queues[dest[x]]
      BY <1>2, <1>3, <2>2
    <3>2. QED
      BY <3>1
  <2>3. QED
    BY <2>1, <2>2
<1>5. SentHaveLeft'
  BY <1>1 DEF SentHaveLeft, Left
<1>6. AtHead'
  <2> SUFFICES ASSUME NEW f \in Flushers, flushing[f] # Idle, flushing[f].key \notin overlapped'
               PROVE  /\ queues'[flushing[f].key] # << >>
                      /\ Head(queues'[flushing[f].key]) = flushing[f].entry
    BY <1>1 DEF AtHead
  <2>1. flushing[f].key \in Keys
    BY Attempts
  <2>2. dest[m] # flushing[f].key /\ flushing[f].key \notin overlapped
    BY <1>1, <2>1, Calm
  <2>3. QED
    BY <1>3, <2>1, <2>2 DEF AtHead
<1>7. NotYet'
  BY <1>1, <1>2 DEF NotYet
<1>8. LossNeedsOverlap'
  <2> SUFFICES ASSUME NEW x \in Messages
               PROVE  x \in Members(queues'[dest[x]]) \/ left[x] > 0 \/ dest[x] \in overlapped'
    BY <1>1, <1>2 DEF LossNeedsOverlap, Queued, Left
  <2>1. x \in Members(queues[dest[x]]) \/ left[x] > 0 \/ dest[x] \in overlapped'
    BY <1>2 DEF LossNeedsOverlap, Queued, Left
  <2>2. CASE x = m
    BY <1>1, <1>3, <2>1, <2>2 DEF SentHaveLeft, Left
  <2>3. QED
    BY <1>4, <2>1, <2>2
<1>9. OnceEach'
  <2> SUFFICES ASSUME NEW x \in Messages, dest[x] \notin overlapped' PROVE Once(x)'
    BY <1>1, <1>2 DEF OnceEach
  <2>1. Once(x)
    BY <1>2 DEF OnceEach
  <2>2. CASE x # m
    BY <1>1, <1>4, <2>1, <2>2 DEF Once, Queued
  <2>3. CASE x = m
    <3>1. m \notin Members(queues'[dest[m]]) \/ left[m] = 0
      BY <1>1, <1>3, <2>1, <2>3 DEF Once
    <3>2. QED
      BY <1>1, <2>1, <2>3, <3>1 DEF Once, Queued
  <2>4. QED
    BY <2>2, <2>3
<1>10. QED
  BY <1>5, <1>6, <1>7, <1>8, <1>9, NotedStep

LEMMA FlushSettlesO ==
  ASSUME OInv, QInv', NEW f \in Flushers, FlushLeaves(f) \/ FlushFails(f), NoteOverlaps
  PROVE  OInv'
<1> USE DEF OInv
<1> DEFINE e == flushing[f].entry
<1>1. flushing[f].outcome = "pending" /\ UNCHANGED <<queues, dest, sending>>
  BY DEF FlushLeaves, FlushFails
<1>2. /\ flushing[f] # Idle /\ flushing[f].key \in Keys /\ e \in Messages /\ dest[e] = flushing[f].key
  BY <1>1, Attempts
<1>3. /\ Messages' = Messages /\ Messages \subseteq 1 .. MaxMessages /\ 0 \notin Messages
      /\ DOMAIN sending \subseteq Messages /\ overlapped \subseteq overlapped'
      /\ left \in [1 .. MaxMessages -> Nat] /\ \A x \in Messages : dest[x] \in Keys
  BY <1>1, Settled
<1>4. /\ \A g \in Flushers : g # f => flushing'[g] = flushing[g]
      /\ flushing'[f].key = flushing[f].key /\ flushing'[f].entry = e
      /\ \/ flushing'[f].outcome = "sent" /\ left' = [left EXCEPT ![e] = @ + 1]
         \/ flushing'[f].outcome = "failed" /\ left' = left
  <2>1. flushing \in [Flushers -> Attempt \cup {Idle}] /\ flushing[f] \in Attempt
    BY <1>2 DEF QInv, TypeOK
  <2>2. \/ flushing' = [flushing EXCEPT ![f].outcome = "sent"] /\ left' = [left EXCEPT ![e] = @ + 1]
        \/ flushing' = [flushing EXCEPT ![f].outcome = "failed"] /\ left' = left
    BY DEF FlushLeaves, FlushFails
  <2>3. QED
    BY <2>1, <2>2 DEF Attempt
<1>5. /\ \A x \in 1 .. MaxMessages : x # e => left'[x] = left[x]
      /\ flushing'[f].outcome = "sent" => left'[e] = left[e] + 1
      /\ flushing'[f].outcome # "sent" => left'[e] = left[e]
      /\ \A x \in 1 .. MaxMessages : left[x] \in Nat
  BY <1>2, <1>3, <1>4
<1>6. \A x \in Messages : Left(x) => left'[x] > 0
  <2> SUFFICES ASSUME NEW x \in Messages, left[x] > 0 PROVE left'[x] > 0
    BY DEF Left
  <2>1. CASE x = e
    BY <1>3, <1>4, <1>5, <2>1
  <2>2. CASE x # e
    BY <1>3, <1>5, <2>2
  <2>3. QED
    BY <2>1, <2>2
<1> HIDE DEF e
<1>7. SentHaveLeft'
  <2>1. ASSUME NEW x \in DOMAIN sending', sending'[x] = "sent" PROVE left'[x] > 0
    BY <1>1, <1>3, <1>6, <2>1 DEF SentHaveLeft
  <2>2. ASSUME NEW g \in Flushers, flushing'[g].outcome = "sent" PROVE left'[flushing'[g].entry] > 0
    <3>1. CASE g = f
      BY <1>2, <1>3, <1>4, <1>5, <2>2, <3>1
    <3>2. CASE g # f
      <4>1. flushing'[g] = flushing[g] /\ flushing[g].entry \in Messages /\ Left(flushing[g].entry)
        BY <1>4, <2>2, <3>2, Attempts DEF SentHaveLeft
      <4>2. QED
        BY <1>6, <4>1
    <3>3. QED
      BY <3>1, <3>2
  <2>3. QED
    BY <2>1, <2>2 DEF SentHaveLeft, Left
<1>8. AtHead'
  <2> SUFFICES ASSUME NEW g \in Flushers, flushing'[g] # Idle, flushing'[g].key \notin overlapped'
               PROVE  /\ queues[flushing'[g].key] # << >>
                      /\ Head(queues[flushing'[g].key]) = flushing'[g].entry
    BY <1>1 DEF AtHead
  <2>1. /\ flushing[g] # Idle /\ flushing'[g].key = flushing[g].key
        /\ flushing'[g].entry = flushing[g].entry
    BY <1>2, <1>4 DEF e
  <2>2. QED
    BY <1>3, <2>1 DEF AtHead
<1>9. NotYet'
  BY <1>2, <1>3, <1>5 DEF NotYet
<1>10. LossNeedsOverlap'
  BY <1>1, <1>3, <1>6 DEF LossNeedsOverlap, Queued, Left
<1>11. OnceEach'
  <2> SUFFICES ASSUME NEW x \in Messages, dest[x] \notin overlapped' PROVE Once(x)'
    BY <1>1, <1>3 DEF OnceEach
  <2>1. Once(x)
    BY <1>3 DEF OnceEach
  <2>2. CASE x # e
    <3>1. left'[x] = left[x]
      BY <1>3, <1>5, <2>2
    <3>2. \A g \in Flushers : flushing'[g].entry = x => g # f /\ flushing'[g] = flushing[g]
      BY <1>4, <2>2
    <3>3. \A g \in Flushers : flushing[g].entry = x => g # f /\ flushing'[g] = flushing[g]
      BY <1>4, <2>2 DEF e
    <3>4. QED
      BY <1>1, <2>1, <3>1, <3>2, <3>3 DEF Once, Queued
  <2>3. CASE x = e
    <3>1. left[e] = 0
      BY <1>1, <2>1, <2>3 DEF Once, e
    <3>2. e \notin DOMAIN sending
      BY <1>2, <2>3, Calm
    <3>3. ASSUME NEW g \in Flushers, g # f PROVE flushing'[g].entry # e
      <4>1. flushing[g] # Idle => flushing[g].entry # e
        BY <1>2, <2>3, <3>3, Attempts, Calm
      <4>2. flushing[g].entry # e
        BY <1>2, <1>3, <4>1, Attempts
      <4>3. QED
        BY <1>4, <3>3, <4>2
    <3>4. left'[e] \in {0, 1} /\ (flushing'[f].outcome # "sent" => left'[e] = 0)
      BY <1>4, <1>5, <3>1
    <3>5. flushing'[f].entry = e
      BY <1>4
    <3>6. QED
      BY <1>1, <2>3, <3>2, <3>3, <3>4, <3>5 DEF Once
  <2>4. QED
    BY <2>2, <2>3
<1>12. QED
  BY <1>7, <1>8, <1>9, <1>10, <1>11, NotedStep

(* Flush f goes on, having taken from its queue, if anything, the message  *)
(* that left.  What it attempts next has not left: the call that made it   *)
(* leave would overlap.                                                    *)
LEMMA FlushMovesO ==
  ASSUME OInv, QInv', NEW f \in Flushers, Picks(f), NoteOverlaps,
         UNCHANGED <<dest, sending, left>>,
         \/ UNCHANGED queues /\ flushing[f].outcome # "sent"
         \/ /\ flushing[f].outcome = "sent"
            /\ queues' = [queues EXCEPT ![flushing[f].key] = Shift(@)]
  PROVE  OInv'
<1> USE DEF OInv
<1> DEFINE e == flushing[f].entry
           c == flushing[f].key
           sent == flushing[f].outcome = "sent"
<1>1. /\ Messages' = Messages /\ 0 \notin Messages /\ overlapped \subseteq overlapped'
      /\ \A x \in Messages : dest[x] \in Keys
      /\ flushing \in [Flushers -> Attempt \cup {Idle}] /\ Visited \subseteq Keys
  BY Settled, Shapes DEF QInv, TypeOK
<1>2. sent => flushing[f] # Idle /\ c \in Keys /\ e \in Messages /\ dest[e] = c /\ Left(e)
  BY Attempts DEF SentHaveLeft
<1>3. /\ \A k \in Keys : Members(queues'[k]) \subseteq Members(queues[k])
      /\ \A k \in Keys : ~(sent /\ k = c) => queues'[k] = queues[k]
      /\ sent /\ c \notin overlapped => Members(queues'[c]) = Members(queues[c]) \ {e}
  <2>1. CASE UNCHANGED queues /\ ~sent
    BY <2>1
  <2>2. CASE sent /\ queues' = [queues EXCEPT ![c] = Shift(@)]
    <3>1. /\ Members(queues'[c]) = Members(queues[c]) \ {Head(queues[c])}
          /\ \A k \in Keys : k # c => queues'[k] = queues[k]
      BY <1>2, <2>2, Taking DEF QInv
    <3>2. c \notin overlapped => Head(queues[c]) = e
      BY <1>2, <2>2 DEF AtHead
    <3>3. ASSUME NEW k \in Keys PROVE Members(queues'[k]) \subseteq Members(queues[k])
      <4>1. CASE k = c
        BY <3>1, <4>1
      <4>2. CASE k # c
        BY <3>1, <4>2
      <4>3. QED
        BY <4>1, <4>2
    <3>4. QED
      BY <2>2, <3>1, <3>2, <3>3
  <2>3. QED
    BY <2>1, <2>2
<1>4. \A g \in Flushers : g # f => flushing'[g] = flushing[g]
  BY <1>1 DEF Picks
<1>5. \/ flushing'[f] = Idle
      \/ /\ flushing'[f] # Idle /\ flushing'[f].outcome = "pending" /\ flushing'[f].key \in Keys
         /\ queues'[flushing'[f].key] # << >>
         /\ flushing'[f].entry = Head(queues'[flushing'[f].key])
         /\ flushing'[f].entry \in Members(queues'[flushing'[f].key])
         /\ flushing'[f].entry \in Messages /\ dest[flushing'[f].entry] = flushing'[f].key
  <2>1. CASE flushing' = [flushing EXCEPT ![f] = Idle]
    BY <1>1, <2>1
  <2>2. ASSUME NEW k \in Visited, queues'[k] # << >>,
               flushing' = [flushing EXCEPT ![f] =
                 [key |-> k, entry |-> Head(queues'[k]), outcome |-> "pending"]]
        PROVE  /\ flushing'[f] # Idle /\ flushing'[f].outcome = "pending" /\ flushing'[f].key \in Keys
               /\ queues'[flushing'[f].key] # << >>
               /\ flushing'[f].entry = Head(queues'[flushing'[f].key])
               /\ flushing'[f].entry \in Members(queues'[flushing'[f].key])
               /\ flushing'[f].entry \in Messages /\ dest[flushing'[f].entry] = flushing'[f].key
    <3>1. /\ flushing'[f].key = k /\ flushing'[f].outcome = "pending"
          /\ flushing'[f].entry = Head(queues'[k])
      BY <1>1, <2>2
    <3>2. flushing'[f] # Idle
      BY <3>1 DEF Idle
    <3>3. queues'[k] \in Seq(Messages')
      BY <1>1, <2>2 DEF QInv, TypeOK
    <3>4. Head(queues'[k]) \in Members(queues'[k])
      BY <2>2, <3>3, QueueShape
    <3>5. flushing'[f].entry \in Messages /\ dest[flushing'[f].entry] = k
      BY <1>1, <3>1, <3>2 DEF QInv, AttemptsOK
    <3>6. QED
      BY <1>1, <2>2, <3>1, <3>2, <3>4, <3>5
  <2>3. QED
    BY <2>1, <2>2 DEF Picks
<1> HIDE DEF e, c, sent
<1>6. SentHaveLeft'
  <2>1. flushing'[f].outcome # "sent"
    BY <1>5 DEF Idle
  <2>2. ASSUME NEW g \in Flushers, flushing'[g].outcome = "sent" PROVE left'[flushing'[g].entry] > 0
    BY <1>4, <2>1, <2>2 DEF SentHaveLeft, Left
  <2>3. QED
    BY <2>2 DEF SentHaveLeft, Left
<1>7. AtHead'
  <2> SUFFICES ASSUME NEW g \in Flushers, flushing'[g] # Idle, flushing'[g].key \notin overlapped'
               PROVE  /\ queues'[flushing'[g].key] # << >>
                      /\ Head(queues'[flushing'[g].key]) = flushing'[g].entry
    BY DEF AtHead
  <2>1. CASE g = f
    BY <1>5, <2>1
  <2>2. CASE g # f
    <3>1. flushing'[g] = flushing[g] /\ flushing[g].key \in Keys
      BY <1>4, <2>2, Attempts
    <3>2. /\ queues[flushing[g].key] # << >> /\ Head(queues[flushing[g].key]) = flushing[g].entry
      BY <1>1, <3>1 DEF AtHead
    <3>3. ~(sent /\ flushing[g].key = c)
      BY <1>2, <2>2, <3>1, Calm DEF c
    <3>4. queues'[flushing[g].key] = queues[flushing[g].key]
      BY <1>3, <3>1, <3>3
    <3>5. QED
      BY <3>1, <3>2, <3>4
  <2>3. QED
    BY <2>1, <2>2
<1>8. NotYet'
  BY <1>1 DEF NotYet
<1>9. LossNeedsOverlap'
  <2> SUFFICES ASSUME NEW x \in Messages, dest[x] \notin overlapped', ~Left(x)
               PROVE  x \in Members(queues'[dest[x]])
    BY <1>1 DEF LossNeedsOverlap, Queued, Left
  <2>1. x \in Members(queues[dest[x]]) /\ dest[x] \in Keys
    BY <1>1 DEF LossNeedsOverlap, Queued
  <2>2. CASE sent /\ dest[x] = c
    <3>1. c \notin overlapped /\ x # e
      BY <1>1, <1>2, <2>2
    <3>2. QED
      BY <1>3, <2>1, <2>2, <3>1
  <2>3. CASE ~(sent /\ dest[x] = c)
    BY <1>3, <2>1, <2>3
  <2>4. QED
    BY <2>2, <2>3
<1>10. OnceEach'
  <2> SUFFICES ASSUME NEW x \in Messages, dest[x] \notin overlapped' PROVE Once(x)'
    BY <1>1 DEF OnceEach
  <2> DEFINE k == dest[x]
  <2>1. Once(x) /\ k \in Keys /\ k \notin overlapped /\ x # 0
    BY <1>1 DEF OnceEach
  \* What f attempted and has left is no longer queued.
  <2>2. x \in Members(queues'[k]) => x \in Members(queues[k]) /\ ~(sent /\ x = e)
    <3>1. Members(queues'[k]) \subseteq Members(queues[k])
      BY <1>3, <2>1
    <3>2. sent /\ x = e => Members(queues'[k]) = Members(queues[k]) \ {x}
      BY <1>2, <1>3, <2>1
    <3>3. QED
      BY <3>1, <3>2
  \* If x is queued and has left, another call knows.
  <2>3. x \in Members(queues'[k]) /\ left[x] # 0 =>
          \/ x \in DOMAIN sending /\ sending[x] = "sent"
          \/ \E g \in Flushers : g # f /\ flushing[g].entry = x /\ flushing[g].outcome = "sent"
    BY <2>1, <2>2 DEF Once, Queued, sent, e
  <2>4. ASSUME flushing'[f].entry = x PROVE left[x] = 0
    <3>1. /\ flushing'[f] # Idle /\ flushing'[f].key = k /\ x \in Members(queues'[k])
      BY <1>5, <2>1, <2>4 DEF Idle
    <3>2. x \notin DOMAIN sending
      BY <2>1, <3>1, Calm
    <3>3. ASSUME NEW g \in Flushers, g # f PROVE ~(flushing[g].entry = x /\ flushing[g].outcome = "sent")
      <4>1. flushing'[g] = flushing[g]
        BY <1>4, <3>3
      <4>2. flushing[g].entry = x => flushing[g] # Idle /\ flushing[g].key = k
        BY <2>1, Attempts
      <4>3. QED
        BY <2>1, <3>1, <3>3, <4>1, <4>2, Calm
    <3>4. QED
      BY <2>3, <3>1, <3>2, <3>3
  <2>5. ASSUME NEW g \in Flushers, flushing'[g].entry = x, flushing'[g].outcome # "sent"
        PROVE  left[x] = 0
    <3>1. CASE g = f
      BY <2>4, <2>5, <3>1
    <3>2. CASE g # f
      BY <1>4, <2>1, <2>5, <3>2 DEF Once
    <3>3. QED
      BY <3>1, <3>2
  <2>6. ASSUME x \in Members(queues'[k]), left[x] # 0
        PROVE  \/ x \in DOMAIN sending /\ sending[x] = "sent"
               \/ \E g \in Flushers : flushing'[g].entry = x /\ flushing'[g].outcome = "sent"
    BY <1>4, <2>3, <2>6
  <2>7. /\ left'[x] \in {0, 1} /\ (x \in DOMAIN sending' /\ sending'[x] # "sent" => left'[x] = 0)
    BY <2>1 DEF Once
  <2>8. dest'[x] = k
    OBVIOUS
  <2> HIDE DEF k
  <2>9. QED
    BY <2>5, <2>6, <2>7, <2>8 DEF Once, Queued
<1>11. QED
  BY <1>6, <1>7, <1>8, <1>9, <1>10, NotedStep

LEMMA CallO ==
  ASSUME OInv, QInv', Call, NoteOverlaps
  PROVE  OInv'
<1>1. ASSUME NEW k \in Keys, Send(k) PROVE OInv'
  BY <1>1, SendO
<1>2. ASSUME NEW m \in Messages, SendSettles(m) PROVE OInv'
  BY <1>2, SendSettlesO
<1>3. ASSUME NEW m \in Messages, SendReturns(m) PROVE OInv'
  BY <1>3, SendReturnsO
<1>4. ASSUME NEW f \in Flushers, FlushLeaves(f) \/ FlushFails(f) PROVE OInv'
  BY <1>4, FlushSettlesO
<1>5. ASSUME NEW f \in Flushers, FlushStarts(f) PROVE OInv'
  <2>1. Picks(f)
    BY <1>5, FlushPicks DEF OInv
  <2>2. UNCHANGED <<queues, dest, sending, left>> /\ flushing[f].outcome # "sent"
    BY <1>5 DEF FlushStarts, Idle
  <2>3. QED
    BY <2>1, <2>2, FlushMovesO
<1>6. ASSUME NEW f \in Flushers, FlushReturns(f) PROVE OInv'
  <2>1. Picks(f)
    BY <1>6, FlushPicks DEF OInv
  <2>2. /\ UNCHANGED <<dest, sending, left>>
        /\ \/ UNCHANGED queues /\ flushing[f].outcome # "sent"
           \/ /\ flushing[f].outcome = "sent"
              /\ queues' = [queues EXCEPT ![flushing[f].key] = Shift(@)]
    BY <1>6 DEF FlushReturns
  <2>3. QED
    BY <2>1, <2>2, FlushMovesO
<1>7. QED
  BY <1>1, <1>2, <1>3, <1>4, <1>5, <1>6 DEF Call

LEMMA InitO == Init => OInv
<1> SUFFICES ASSUME Init PROVE OInv
  OBVIOUS
<1>1. Messages = {} /\ QInv
  BY InitQ DEF Init, Messages
<1>2. OverlapsNoted /\ SentHaveLeft /\ AtHead
  BY DEF Init, OverlapsNoted, Overlap, SentHaveLeft, AtHead, Idle
<1>3. NotYet /\ LossNeedsOverlap /\ OnceEach
  BY <1>1 DEF Init, NotYet, LossNeedsOverlap, OnceEach
<1>4. QED
  BY <1>1, <1>2, <1>3 DEF OInv

LEMMA StutterO == OInv /\ UNCHANGED vars => OInv'
<1> SUFFICES ASSUME OInv, UNCHANGED vars PROVE OInv'
  OBVIOUS
<1>1. QInv'
  BY StutterQ DEF OInv
<1>2. /\ UNCHANGED <<queues, dest, sending, flushing, left, overlapped>> /\ Messages' = Messages
  BY DEF vars, Messages
<1>3. OverlapsNoted' /\ SentHaveLeft' /\ AtHead' /\ NotYet'
  BY <1>2 DEF OInv, OverlapsNoted, Overlap, SentHaveLeft, AtHead, NotYet, Left
<1>4. LossNeedsOverlap' /\ OnceEach'
  BY <1>2 DEF OInv, LossNeedsOverlap, OnceEach, Once, Queued, Left
<1>5. QED
  BY <1>1, <1>3, <1>4 DEF OInv

THEOREM Apart == Spec => []OInv
<1>1. OInv /\ [Next]_vars => OInv'
  BY CallO, CallQ, StutterO DEF Next, OInv
<1>2. QED
  BY <1>1, InitO, PTL DEF Spec

(* A message is lost only on a queue on which a flush() was in progress    *)
(* together with another send() or flush().                                *)
THEOREM Delivery == Spec => []LossNeedsOverlap
BY Apart, PTL DEF OInv

\* Nor does a message leave twice without such an overlap.
THEOREM AtMostOnce == Spec => []DuplicateNeedsOverlap
<1>1. ASSUME OInv PROVE DuplicateNeedsOverlap
  <2> SUFFICES ASSUME NEW m \in Messages, left[m] > 1, dest[m] \notin overlapped PROVE FALSE
    BY DEF DuplicateNeedsOverlap
  <2>1. left[m] \in {0, 1}
    BY <1>1 DEF OInv, OnceEach, Once
  <2>2. QED
    BY <2>1
<1>2. QED
  BY <1>1, Apart, PTL

-----------------------------------------------------------------------------
(* What queues lose against what leaves, whatever overlaps.                *)

To(k) == {m \in Messages : dest[m] = k}

\* The calls that are about to remove a message of k, as one left: send()s and flushes.
Removing(k) == {m \in DOMAIN sending : dest[m] = k /\ sending[m] = "sent"}
Shifting(k) == {f \in Flushers : flushing[f].key = k /\ flushing[f].outcome = "sent"}

\* What k has lost, or is about to lose, and what left for it.
Debt(k) ==
  Cardinality(To(k)) - Len(queues[k]) + Cardinality(Removing(k)) + Cardinality(Shifting(k))
Credit(k) == SumFunctionOnSet(left, To(k))

Paid(k) == IsFiniteSet(Shifting(k)) /\ Debt(k) <= Credit(k)

PaidInv == QInv /\ \A k \in Keys : Paid(k)

\* The numbers above are numbers.
LEMMA Numbers ==
  ASSUME QInv, NEW k \in Keys
  PROVE  /\ IsFiniteSet(To(k)) /\ IsFiniteSet(Removing(k)) /\ Addable(left, To(k))
         /\ Cardinality(To(k)) \in Nat /\ Cardinality(Removing(k)) \in Nat
         /\ Len(queues[k]) \in Nat /\ Credit(k) \in Int
         /\ To(k) \subseteq 1 .. MaxMessages
<1>1. /\ Messages = 1 .. Len(dest) /\ Len(dest) \in Nat /\ Len(dest) <= MaxMessages
      /\ queues[k] \in Seq(1 .. Len(dest)) /\ DOMAIN sending \subseteq Messages
      /\ left \in [1 .. MaxMessages -> Nat] /\ MaxMessages \in Nat
  BY Shapes, TransportAssumption DEF QInv, TypeOK
<1>2. IsFiniteSet(Messages)
  BY <1>1, FS_Interval
<1>3. To(k) \subseteq Messages /\ Removing(k) \subseteq Messages
  BY <1>1 DEF To, Removing
<1>4. IsFiniteSet(To(k)) /\ IsFiniteSet(Removing(k))
  BY <1>2, <1>3, FS_Subset
<1>5. To(k) \subseteq 1 .. MaxMessages
  BY <1>1, <1>3
<1>6. Addable(left, To(k))
  BY <1>1, <1>4, <1>5 DEF Addable
<1>7. Credit(k) \in Int
  BY <1>6, SumType DEF Credit
<1>8. Len(queues[k]) \in Nat
  BY <1>1
<1> QED BY <1>4, <1>5, <1>6, <1>7, <1>8, FS_CardinalityType

\* When a message leaves, the credit of its key grows by one.
LEMMA OneMore ==
  ASSUME QInv, NEW m \in Messages, left' = [left EXCEPT ![m] = @ + 1], UNCHANGED dest
  PROVE  \A k \in Keys : Credit(k)' = IF k = dest[m] THEN Credit(k) + 1 ELSE Credit(k)
<1> TAKE k \in Keys
<1>1. /\ IsFiniteSet(To(k)) /\ Addable(left, To(k)) /\ To(k) \subseteq 1 .. MaxMessages
      /\ Credit(k) \in Int
  BY Numbers
<1>2. To(k)' = To(k) /\ Credit(k)' = SumFunctionOnSet(left', To(k))
  BY DEF To, Credit, Messages
<1>3. left \in [1 .. MaxMessages -> Nat]
  BY DEF QInv, TypeOK
<1>4. \A x \in To(k) : left'[x] = IF x = m THEN left[x] + 1 ELSE left[x]
  BY <1>1, <1>3
<1>5. Addable(left', To(k))
  BY <1>1, <1>3, <1>4 DEF Addable
<1>6. CASE k = dest[m]
  <2> DEFINE S == To(k) \ {m}
  <2>1. m \in To(k)
    BY <1>6 DEF To
  <2>2. Addable(left, S) /\ \A x \in S : left[x] = left'[x]
    BY <1>1, <1>4, FS_RemoveElement DEF Addable
  <2>3. left'[m] = left[m] + 1 /\ left[m] \in Int
    BY <1>1, <1>3, <1>4, <2>1
  <2>4. /\ SumFunctionOnSet(left, To(k)) = left[m] + SumFunctionOnSet(left, S)
        /\ SumFunctionOnSet(left', To(k)) = left'[m] + SumFunctionOnSet(left', S)
    <3>1. \A f : Addable(f, To(k)) => SumFunctionOnSet(f, To(k)) = f[m] + SumFunctionOnSet(f, S)
      BY <2>1, SumWithout
    <3> QED BY <1>1, <1>5, <3>1
  <2>5. SumFunctionOnSet(left, S) = SumFunctionOnSet(left', S) /\ SumFunctionOnSet(left, S) \in Int
    BY <2>2, SumSame, SumType
  <2> HIDE DEF S
  <2> QED BY <1>2, <1>6, <2>3, <2>4, <2>5 DEF Credit
<1>7. CASE k # dest[m]
  <2>1. m \notin To(k)
    BY <1>7 DEF To
  <2>2. SumFunctionOnSet(left, To(k)) = SumFunctionOnSet(left', To(k))
    BY <1>1, <1>4, <2>1, SumSame
  <2> QED BY <1>2, <1>7, <2>2 DEF Credit
<1> QED BY <1>6, <1>7

LEMMA PaidSend ==
  ASSUME PaidInv, NEW k \in Keys, Send(k), NoteOverlaps
  PROVE  PaidInv'
<1> DEFINE new == Len(dest) + 1
<1>0. QInv /\ QInv' /\ \A c \in Keys : Paid(c)
  BY CallQ DEF PaidInv, Call
<1>1. /\ Messages = 1 .. Len(dest) /\ Len(dest) \in Nat /\ new <= MaxMessages /\ new \in Nat
      /\ Messages' = Messages \cup {new} /\ new \notin Messages
      /\ dest'[new] = k /\ \A m \in Messages : dest'[m] = dest[m]
      /\ DOMAIN sending \subseteq Messages
  <2>1. dest \in Seq(Keys) /\ dest' = Append(dest, k) /\ Len(dest) < MaxMessages /\ MaxMessages \in Nat
    BY <1>0, TransportAssumption DEF Send, QInv, TypeOK
  <2>2. DOMAIN sending \subseteq Messages
    BY <1>0 DEF QInv, TypeOK
  <2> QED BY <2>1, <2>2 DEF Messages
<1>2. /\ queues' = [queues EXCEPT ![k] = Append(@, new)] /\ UNCHANGED <<flushing, left>>
      /\ sending' = [m \in DOMAIN sending \cup {new} |-> IF m = new THEN "pending" ELSE sending[m]]
  BY DEF Send, Enqueue
<1>3. /\ To(k)' = To(k) \cup {new} /\ new \notin To(k)
      /\ \A c \in Keys : c # k => To(c)' = To(c)
  BY <1>1 DEF To
<1>4. \A c \in Keys : Removing(c)' = Removing(c) /\ Shifting(c)' = Shifting(c)
  BY <1>1, <1>2 DEF Removing, Shifting
<1>5. queues \in [Keys -> Seq(1 .. Len(dest))]
  BY <1>0, <1>1 DEF QInv, TypeOK
<1>6. \A c \in Keys : Len(queues'[c]) = IF c = k THEN Len(queues[c]) + 1 ELSE Len(queues[c])
  <2> TAKE c \in Keys
  <2>1. CASE c = k
    <3>1. queues'[c] = Append(queues[c], new) /\ queues[c] \in Seq(1 .. Len(dest))
      BY <1>2, <1>5, <2>1
    <3> QED BY <2>1, <3>1
  <2>2. CASE c # k
    BY <1>2, <1>5, <2>2
  <2> QED BY <2>1, <2>2
<1> SUFFICES ASSUME NEW c \in Keys PROVE Paid(c)'
  BY <1>0 DEF PaidInv
<1>7. /\ IsFiniteSet(To(c)) /\ Addable(left, To(c)) /\ Cardinality(To(c)) \in Nat
      /\ Cardinality(Removing(c)) \in Nat /\ Len(queues[c]) \in Nat /\ Credit(c) \in Int
  BY <1>0, Numbers
<1>8. IsFiniteSet(Shifting(c)) /\ Debt(c) <= Credit(c) /\ Cardinality(Shifting(c)) \in Nat
  BY <1>0, FS_CardinalityType DEF Paid
<1>9. CASE c # k
  <2>1. Debt(c)' = Debt(c) /\ Credit(c)' = Credit(c)
    BY <1>2, <1>3, <1>4, <1>6, <1>9 DEF Debt, Credit
  <2> QED BY <1>4, <1>8, <2>1 DEF Paid
<1>10. CASE c = k
  <2>1. Cardinality(To(c)') = Cardinality(To(c)) + 1
    BY <1>3, <1>7, <1>10, FS_AddElement
  <2>2. Debt(c)' = Debt(c)
    <3>1. Len(queues'[c]) = Len(queues[c]) + 1
      BY <1>6, <1>10
    <3>2. /\ Cardinality(Removing(c)') = Cardinality(Removing(c))
          /\ Cardinality(Shifting(c)') = Cardinality(Shifting(c))
      BY <1>4
    <3>3. Debt(c)' = Cardinality(To(c)') - Len(queues'[c])
                       + Cardinality(Removing(c)') + Cardinality(Shifting(c)')
      BY DEF Debt
    <3>4. Cardinality(To(c)') - Len(queues'[c]) = Cardinality(To(c)) - Len(queues[c])
      BY <1>7, <2>1, <3>1
    <3> QED BY <3>2, <3>3, <3>4 DEF Debt
  <2>3. Credit(c)' = left[new] + Credit(c)
    <3> DEFINE S == To(c) \cup {new}
    <3>1. left \in [1 .. MaxMessages -> Nat] /\ new \in 1 .. MaxMessages
      BY <1>0, <1>1 DEF QInv, TypeOK
    <3>2. Addable(left, S)
      BY <1>7, <3>1, FS_AddElement DEF Addable
    <3>3. SumFunctionOnSet(left, S) = left[new] + SumFunctionOnSet(left, S \ {new}) /\ S \ {new} = To(c)
      BY <1>3, <1>10, <3>2, SumWithout
    <3>4. Credit(c)' = SumFunctionOnSet(left, S)
      BY <1>2, <1>3, <1>10 DEF Credit
    <3> HIDE DEF S
    <3> QED BY <3>3, <3>4 DEF Credit
  <2>4. left[new] \in Nat
    BY <1>0, <1>1 DEF QInv, TypeOK
  <2> HIDE DEF new
  <2>5. Debt(c)' <= Credit(c)'
    <3>1. Debt(c) \in Int
      BY <1>7, <1>8 DEF Debt
    <3> QED BY <1>7, <1>8, <2>2, <2>3, <2>4, <3>1
  <2> QED BY <1>4, <1>8, <2>5 DEF Paid
<1> QED BY <1>9, <1>10

\* A step that leaves dest alone keeps the accounts if it does so for each key.
Square(k) == IsFiniteSet(Shifting(k)') /\ Debt(k)' - Debt(k) <= Credit(k)' - Credit(k)

\* Nothing changes for a key.
Untouched(k) ==
  /\ Len(queues'[k]) = Len(queues[k]) /\ Credit(k)' = Credit(k)
  /\ Removing(k)' = Removing(k) /\ Shifting(k)' = Shifting(k)

LEMMA Totals ==
  ASSUME PaidInv, NEW k \in Keys
  PROVE  /\ Cardinality(Shifting(k)) \in Nat /\ Debt(k) \in Int /\ Credit(k) \in Int
         /\ IsFiniteSet(Shifting(k)) /\ Debt(k) <= Credit(k)
<1>1. /\ Cardinality(To(k)) \in Nat /\ Cardinality(Removing(k)) \in Nat
      /\ Len(queues[k]) \in Nat /\ Credit(k) \in Int
  BY Numbers DEF PaidInv
<1>2. Cardinality(Shifting(k)) \in Nat /\ IsFiniteSet(Shifting(k)) /\ Debt(k) <= Credit(k)
  BY FS_CardinalityType DEF PaidInv, Paid
<1> QED BY <1>1, <1>2 DEF Debt

LEMMA NumbersAll ==
  QInv => \A k \in Keys : /\ Credit(k) \in Int /\ Cardinality(To(k)) \in Nat
                         /\ Cardinality(Removing(k)) \in Nat /\ Len(queues[k]) \in Nat
BY Numbers

LEMMA NumbersNext ==
  QInv' => \A k \in Keys : /\ Credit(k)' \in Int /\ Cardinality(To(k)') \in Nat
                          /\ Cardinality(Removing(k)') \in Nat /\ Len(queues'[k]) \in Nat
<1>1. (QInv => \A k \in Keys : /\ Credit(k) \in Int /\ Cardinality(To(k)) \in Nat
                              /\ Cardinality(Removing(k)) \in Nat /\ Len(queues[k]) \in Nat)'
  BY NumbersAll, PTL
<1> QED BY <1>1

LEMMA DebtIs ==
  \A k : Debt(k) = Cardinality(To(k)) - Len(queues[k]) + Cardinality(Removing(k))
                    + Cardinality(Shifting(k))
BY DEF Debt

LEMMA DebtNext ==
  \A k : Debt(k)' = Cardinality(To(k)') - Len(queues'[k]) + Cardinality(Removing(k)')
                     + Cardinality(Shifting(k)')
BY DEF Debt

LEMMA SquareAll ==
  ASSUME PaidInv, QInv', UNCHANGED dest, \A k \in Keys : Untouched(k) \/ Square(k)
  PROVE  PaidInv'
<1> SUFFICES ASSUME NEW k \in Keys PROVE Paid(k)'
  BY DEF PaidInv
<1>0. /\ Cardinality(Shifting(k)) \in Nat /\ Debt(k) \in Int /\ Credit(k) \in Int
      /\ IsFiniteSet(Shifting(k)) /\ Debt(k) <= Credit(k)
  BY Totals
<1>1. CASE Untouched(k)
  <2>1. To(k)' = To(k)
    BY DEF To, Messages
  <2>2. Debt(k)' = Debt(k) /\ Credit(k)' = Credit(k) /\ Shifting(k)' = Shifting(k)
    BY <1>1, <2>1, DebtNext DEF Debt, Untouched
  <2> QED BY <1>0, <2>2 DEF Paid
<1>2. CASE Square(k)
  <2>1. Credit(k)' \in Int /\ Cardinality(To(k)') \in Nat /\ Cardinality(Removing(k)') \in Nat /\ Len(queues'[k]) \in Nat
    BY NumbersNext
  <2>2. Cardinality(Shifting(k)') \in Nat
    BY <1>2, FS_CardinalityType DEF Square
  <2>3. Debt(k)' \in Int
    BY <2>1, <2>2, DebtNext
  <2> QED BY <1>0, <1>2, <2>1, <2>3 DEF Square, Paid
<1> QED BY <1>1, <1>2

LEMMA PaidSettles ==
  ASSUME PaidInv, QInv', NEW m \in Messages, SendSettles(m)
  PROVE  PaidInv'
<1>0. QInv /\ UNCHANGED <<queues, opened, dest, flushing>> /\ dest[m] \in Keys
  BY Shapes DEF SendSettles, PaidInv, QInv
<1>1. m \in DOMAIN sending /\ sending[m] = "pending"
  BY DEF SendSettles
<1>2. \A k \in Keys : Shifting(k)' = Shifting(k) /\ To(k)' = To(k) /\ Len(queues'[k]) = Len(queues[k])
  BY <1>0 DEF Shifting, To, Messages
<1>3. CASE sending' = [sending EXCEPT ![m] = "sent"] /\ left' = [left EXCEPT ![m] = @ + 1]
  <2>1. \A k \in Keys : Credit(k)' = IF k = dest[m] THEN Credit(k) + 1 ELSE Credit(k)
    BY <1>0, <1>3, OneMore
  <2>2. DOMAIN sending' = DOMAIN sending /\ sending'[m] = "sent" /\ \A x \in DOMAIN sending : x # m => sending'[x] = sending[x]
    BY <1>1, <1>3
  <2>3. \A k \in Keys : k # dest[m] => Removing(k)' = Removing(k)
    BY <1>0, <2>2 DEF Removing
  <2>4. \A k \in Keys : k = dest[m] => Removing(k)' = Removing(k) \cup {m} /\ m \notin Removing(k)
    BY <1>0, <1>1, <2>2 DEF Removing
  <2>5. ASSUME NEW k \in Keys, k = dest[m] PROVE Square(k)
    <3>1. /\ IsFiniteSet(Removing(k)) /\ Cardinality(Removing(k)) \in Nat /\ Cardinality(To(k)) \in Nat
          /\ Len(queues[k]) \in Nat /\ Credit(k) \in Int
      BY <1>0, Numbers
    <3>2. Cardinality(Removing(k)') = Cardinality(Removing(k)) + 1
      <4>1. Removing(k)' = Removing(k) \cup {m} /\ m \notin Removing(k)
        BY <2>4, <2>5
      <4>2. Cardinality(Removing(k) \cup {m}) = Cardinality(Removing(k)) + 1
        BY <3>1, <4>1, FS_AddElement
      <4> QED BY <4>1, <4>2
    <3>3. Cardinality(Shifting(k)) \in Nat /\ IsFiniteSet(Shifting(k))
      BY Totals
    <3>4. Credit(k)' = Credit(k) + 1
      BY <2>1, <2>5
    <3>0. /\ Cardinality(To(k)') = Cardinality(To(k)) /\ Cardinality(Shifting(k)') = Cardinality(Shifting(k))
          /\ Len(queues'[k]) = Len(queues[k])
      BY <1>2
    <3>7. Debt(k) = Cardinality(To(k)) - Len(queues[k]) + Cardinality(Removing(k)) + Cardinality(Shifting(k))
      BY DebtIs
    <3>8. Debt(k)' = Cardinality(To(k)') - Len(queues'[k]) + Cardinality(Removing(k)') + Cardinality(Shifting(k)')
      BY DebtNext
    <3>9. Debt(k)' - Debt(k) <= Credit(k)' - Credit(k)
      BY <3>0, <3>1, <3>2, <3>3, <3>4, <3>7, <3>8
    <3> QED BY <1>2, <3>1, <3>2, <3>3, <3>4, <3>9 DEF Square
  <2>6. \A k \in Keys : Untouched(k) \/ Square(k)
    BY <1>2, <2>1, <2>3, <2>5 DEF Untouched
  <2> QED BY <1>0, <2>6, SquareAll
<1>4. CASE sending' = [sending EXCEPT ![m] = "failed"] /\ UNCHANGED left
  <2>1. DOMAIN sending' = DOMAIN sending /\ sending'[m] = "failed" /\ \A x \in DOMAIN sending : x # m => sending'[x] = sending[x]
    BY <1>1, <1>4
  <2>2. \A k \in Keys : Removing(k)' = Removing(k)
    BY <1>0, <1>1, <2>1 DEF Removing
  <2>3. \A k \in Keys : Untouched(k)
    BY <1>2, <1>4, <2>2 DEF Untouched, Credit
  <2> QED BY <1>0, <2>3, SquareAll
<1> QED BY <1>3, <1>4 DEF SendSettles

\* Whatever a call removes from a queue is one message, or none.
LEMMA RemovesOne ==
  ASSUME QInv, NEW m \in Messages, RemoveFromQueue(m)
  PROVE  /\ Len(queues'[dest[m]]) >= Len(queues[dest[m]]) - 1
         /\ \A k \in Keys : k # dest[m] => queues'[k] = queues[k]
<1> DEFINE q == queues[dest[m]]
<1>1. /\ dest[m] \in Keys /\ queues \in [Keys -> Seq(1 .. Len(dest))] /\ Len(dest) \in Nat
      /\ q \in Seq(1 .. Len(dest)) /\ Increasing(q) /\ Len(q) \in Nat
  BY Shapes, QueueShape DEF QInv, TypeOK, QueuesOK
<1>2. CASE UNCHANGED queues
  BY <1>1, <1>2
<1>3. ASSUME NEW i \in DOMAIN q, queues' = [queues EXCEPT ![dest[m]] = RemoveAt(q, i)]
      PROVE  Len(queues'[dest[m]]) >= Len(q) - 1
  <2>1. i \in 1 .. Len(q)
    BY <1>1, QueueShape
  <2>2. Len(RemoveAt(q, i)) = Len(q) - 1
    BY <1>1, <2>1, Spliced
  <2> HIDE DEF q
  <2>3. queues'[dest[m]] = RemoveAt(q, i)
    BY <1>1, <1>3
  <2> QED BY <1>1, <2>2, <2>3
<1>4. \A k \in Keys : k # dest[m] => queues'[k] = queues[k]
  BY Removal DEF QInv
<1> QED BY <1>2, <1>3, <1>4 DEF RemoveFromQueue

LEMMA PaidReturns ==
  ASSUME PaidInv, QInv', NEW m \in Messages, SendReturns(m)
  PROVE  PaidInv'
<1>0. QInv /\ UNCHANGED <<opened, dest, flushing, left>> /\ dest[m] \in Keys
  BY Shapes DEF SendReturns, PaidInv, QInv
<1>1. m \in DOMAIN sending /\ sending' = [x \in DOMAIN sending \ {m} |-> sending[x]]
  BY DEF SendReturns
<1>2. \A k \in Keys : Shifting(k)' = Shifting(k) /\ To(k)' = To(k) /\ Credit(k)' = Credit(k)
  BY <1>0 DEF Shifting, To, Messages, Credit
<1>3. \A k \in Keys : Removing(k)' = Removing(k) \ {m}
  BY <1>0, <1>1 DEF Removing
<1>4. CASE sending[m] = "sent" /\ RemoveFromQueue(m)
  <2>1. /\ Len(queues'[dest[m]]) >= Len(queues[dest[m]]) - 1
        /\ \A k \in Keys : k # dest[m] => queues'[k] = queues[k]
    BY <1>0, <1>4, RemovesOne
  <2>2. \A k \in Keys : k # dest[m] => m \notin Removing(k)
    BY DEF Removing
  <2>3. ASSUME NEW k \in Keys, k = dest[m] PROVE Square(k)
    <3>1. /\ IsFiniteSet(Removing(k)) /\ Cardinality(Removing(k)) \in Nat /\ Cardinality(To(k)) \in Nat
          /\ Len(queues[k]) \in Nat /\ Credit(k) \in Int
      BY <1>0, Numbers
    <3>2. m \in Removing(k)
      BY <1>1, <1>4, <2>3 DEF Removing
    <3>3. Cardinality(Removing(k)') = Cardinality(Removing(k)) - 1
      BY <1>3, <3>1, <3>2, FS_RemoveElement
    <3>4. Cardinality(Shifting(k)) \in Nat /\ IsFiniteSet(Shifting(k))
      BY Totals
    <3>5. Len(queues'[k]) \in Nat /\ Len(queues'[k]) >= Len(queues[k]) - 1
      BY <2>1, <2>3, NumbersNext
    <3>0. /\ Cardinality(To(k)') = Cardinality(To(k)) /\ Cardinality(Shifting(k)') = Cardinality(Shifting(k))
          /\ Credit(k)' = Credit(k)
      BY <1>2
    <3>7. Debt(k) = Cardinality(To(k)) - Len(queues[k]) + Cardinality(Removing(k)) + Cardinality(Shifting(k))
      BY DebtIs
    <3>8. Debt(k)' = Cardinality(To(k)') - Len(queues'[k]) + Cardinality(Removing(k)') + Cardinality(Shifting(k)')
      BY DebtNext
    <3>9. Debt(k)' <= Debt(k) /\ Debt(k) \in Int /\ Debt(k)' \in Int
      <4> DEFINE t == Cardinality(To(k))
                 a == Cardinality(Removing(k))
                 b == Cardinality(Shifting(k))
                 q == Len(queues[k])
                 r == Len(queues'[k])
      <4>1. t \in Int /\ a \in Int /\ b \in Int /\ q \in Int /\ r \in Int /\ r >= q - 1
        BY <3>1, <3>3, <3>4, <3>5
      <4>2. Debt(k) = t - q + a + b /\ Debt(k)' = t - r + (a - 1) + b
        BY <3>0, <3>3, <3>7, <3>8
      <4> HIDE DEF t, a, b, q, r
      <4> QED BY <4>1, <4>2
    <3>10. Debt(k)' - Debt(k) <= Credit(k)' - Credit(k)
      BY <3>0, <3>1, <3>9
    <3> QED BY <1>2, <3>1, <3>3, <3>4, <3>5, <3>10 DEF Square
  <2>4. \A k \in Keys : Untouched(k) \/ Square(k)
    BY <1>2, <1>3, <2>1, <2>2, <2>3 DEF Untouched
  <2> QED BY <1>0, <2>4, SquareAll
<1>5. CASE sending[m] # "sent" /\ UNCHANGED queues
  <2>1. \A k \in Keys : Removing(k)' = Removing(k)
    BY <1>3, <1>5 DEF Removing
  <2>2. \A k \in Keys : Untouched(k)
    BY <1>2, <1>5, <2>1 DEF Untouched
  <2> QED BY <1>0, <2>2, SquareAll
<1> QED BY <1>4, <1>5 DEF SendReturns

LEMMA PaidFlushStarts ==
  ASSUME PaidInv, QInv', NEW f \in Flushers, FlushStarts(f)
  PROVE  PaidInv'
<1>1. QInv /\ Picks(f) /\ UNCHANGED <<queues, opened, dest, sending, left>>
  BY FlushPicks DEF FlushStarts, PaidInv
<1>2. \A k \in Keys : /\ To(k)' = To(k) /\ Removing(k)' = Removing(k)
                      /\ Credit(k)' = Credit(k) /\ Len(queues'[k]) = Len(queues[k])
  BY <1>1 DEF To, Removing, Credit, Messages
<1>3. flushing[f] = Idle /\ flushing \in [Flushers -> Attempt \cup {Idle}]
  BY <1>1 DEF FlushStarts, QInv, TypeOK
<1>4. /\ flushing'[f].outcome # "sent" /\ flushing[f].outcome # "sent"
      /\ \A g \in Flushers : g # f => flushing'[g] = flushing[g]
  BY <1>1, <1>3 DEF Picks, Idle
<1>5. \A k \in Keys : Shifting(k)' = Shifting(k)
  BY <1>4 DEF Shifting
<1>6. \A k \in Keys : Untouched(k)
  BY <1>2, <1>5 DEF Untouched
<1> QED BY <1>1, <1>6, SquareAll

LEMMA PaidFlushSettles ==
  ASSUME PaidInv, QInv', NEW f \in Flushers, FlushLeaves(f) \/ FlushFails(f)
  PROVE  PaidInv'
<1> DEFINE c == flushing[f].key
           m == flushing[f].entry
<1>0. /\ QInv /\ flushing[f] # Idle /\ flushing[f].outcome = "pending"
      /\ UNCHANGED <<queues, opened, dest, sending>>
      /\ flushing \in [Flushers -> Attempt \cup {Idle}]
  BY DEF FlushLeaves, FlushFails, Idle, PaidInv, QInv, TypeOK
<1>1. c \in Keys /\ m \in Messages /\ dest[m] = c /\ flushing[f] \in Attempt
  BY <1>0, Shapes DEF QInv, AttemptsOK
<1>2. \A k \in Keys : /\ To(k)' = To(k) /\ Removing(k)' = Removing(k)
                      /\ Len(queues'[k]) = Len(queues[k])
  BY <1>0 DEF To, Removing, Messages
<1>3. CASE FlushLeaves(f)
  <2>1. flushing' = [flushing EXCEPT ![f].outcome = "sent"] /\ left' = [left EXCEPT ![m] = @ + 1]
    BY <1>3 DEF FlushLeaves
  <2>2. \A k \in Keys : Credit(k)' = IF k = c THEN Credit(k) + 1 ELSE Credit(k)
    BY <1>0, <1>1, <2>1, OneMore
  <2>3. /\ flushing'[f].outcome = "sent" /\ flushing'[f].key = c
        /\ \A g \in Flushers : g # f => flushing'[g] = flushing[g]
    BY <1>0, <1>1, <2>1 DEF Attempt
  <2>4. \A k \in Keys : k # c => Shifting(k)' = Shifting(k)
    BY <2>3 DEF Shifting
  <2>5. ASSUME NEW k \in Keys, k = c PROVE Square(k)
    <3>1. /\ Cardinality(To(k)) \in Nat /\ Cardinality(Removing(k)) \in Nat
          /\ Len(queues[k]) \in Nat /\ Credit(k) \in Int
      BY <1>0, Numbers
    <3>2. Shifting(k)' = Shifting(k) \cup {f} /\ f \notin Shifting(k)
      BY <1>0, <2>3, <2>5 DEF Shifting
    <3>3. IsFiniteSet(Shifting(k)) /\ Cardinality(Shifting(k)) \in Nat
      BY Totals
    <3>4. /\ Cardinality(Shifting(k) \cup {f}) = Cardinality(Shifting(k)) + 1
          /\ IsFiniteSet(Shifting(k) \cup {f})
      BY <3>2, <3>3, FS_AddElement
    <3>5. Credit(k)' = Credit(k) + 1
      BY <2>2, <2>5
    <3>6. Cardinality(Shifting(k)') = Cardinality(Shifting(k)) + 1 /\ IsFiniteSet(Shifting(k)')
      BY <3>2, <3>4
    <3>7. Debt(k) = Cardinality(To(k)) - Len(queues[k]) + Cardinality(Removing(k)) + Cardinality(Shifting(k))
      BY DebtIs
    <3>8. Debt(k)' = Cardinality(To(k)') - Len(queues'[k]) + Cardinality(Removing(k)') + Cardinality(Shifting(k)')
      BY DebtNext
    <3>9. /\ Cardinality(To(k)') = Cardinality(To(k)) /\ Len(queues'[k]) = Len(queues[k])
          /\ Cardinality(Removing(k)') = Cardinality(Removing(k))
      BY <1>2
    <3>10. Debt(k)' = Debt(k) + 1
      <4>1. Debt(k)' = Cardinality(To(k)) - Len(queues[k])
                         + Cardinality(Removing(k)) + (Cardinality(Shifting(k)) + 1)
        BY <3>6, <3>8, <3>9
      <4>2. \A a, b, d, e \in Int : a - b + d + (e + 1) = (a - b + d + e) + 1
        OBVIOUS
      <4> QED BY <3>1, <3>3, <3>7, <4>1, <4>2
    <3>11. Debt(k) \in Int
      BY <3>1, <3>3, <3>7
    <3>12. Debt(k)' - Debt(k) <= Credit(k)' - Credit(k)
      BY <3>1, <3>5, <3>10, <3>11
    <3> QED BY <3>6, <3>12 DEF Square
  <2>6. \A k \in Keys : Untouched(k) \/ Square(k)
    BY <1>2, <2>2, <2>4, <2>5 DEF Untouched
  <2> QED BY <1>0, <2>6, SquareAll
<1>4. CASE FlushFails(f)
  <2>1. flushing' = [flushing EXCEPT ![f].outcome = "failed"] /\ UNCHANGED left
    BY <1>4 DEF FlushFails
  <2>2. /\ flushing'[f].outcome = "failed"
        /\ \A g \in Flushers : g # f => flushing'[g] = flushing[g]
    BY <1>0, <1>1, <2>1 DEF Attempt
  <2>3. \A k \in Keys : Shifting(k)' = Shifting(k)
    BY <1>0, <2>2 DEF Shifting
  <2>4. \A k \in Keys : Untouched(k)
    BY <1>2, <2>1, <2>3 DEF Untouched, Credit
  <2> QED BY <1>0, <2>4, SquareAll
<1> QED BY <1>3, <1>4

LEMMA ShiftsOne ==
  ASSUME QInv, NEW c \in Keys, queues' = [queues EXCEPT ![c] = Shift(@)]
  PROVE  /\ Len(queues'[c]) >= Len(queues[c]) - 1
         /\ \A k \in Keys : k # c => queues'[k] = queues[k]
<1>1. /\ queues \in [Keys -> Seq(1 .. Len(dest))] /\ Len(dest) \in Nat
      /\ queues[c] \in Seq(1 .. Len(dest)) /\ Increasing(queues[c]) /\ Len(queues[c]) \in Nat
  BY Shapes, QueueShape DEF QInv, TypeOK, QueuesOK
<1>2. queues'[c] = Shift(queues[c]) /\ \A k \in Keys : k # c => queues'[k] = queues[k]
  BY <1>1
<1>3. CASE queues[c] = << >>
  BY <1>1, <1>2, <1>3 DEF Shift
<1>4. CASE queues[c] # << >>
  <2>1. Len(Shift(queues[c])) = Len(queues[c]) - 1
    BY <1>1, <1>4, Shifted
  <2> QED BY <1>1, <1>2, <2>1
<1> QED BY <1>2, <1>3, <1>4

LEMMA PaidFlushReturns ==
  ASSUME PaidInv, QInv', NEW f \in Flushers, FlushReturns(f)
  PROVE  PaidInv'
<1> DEFINE c == flushing[f].key
<1>0. /\ QInv /\ flushing[f] # Idle /\ Picks(f)
      /\ UNCHANGED <<opened, dest, sending, left>>
      /\ flushing \in [Flushers -> Attempt \cup {Idle}]
  BY FlushPicks DEF FlushReturns, Idle, PaidInv, QInv, TypeOK
<1>1. c \in Keys /\ flushing[f] \in Attempt
  BY <1>0, Shapes DEF QInv, AttemptsOK, Attempt
<1>2. \A k \in Keys : To(k)' = To(k) /\ Removing(k)' = Removing(k) /\ Credit(k)' = Credit(k)
  BY <1>0 DEF To, Removing, Messages, Credit
<1>3. /\ flushing'[f].outcome # "sent"
      /\ \A g \in Flushers : g # f => flushing'[g] = flushing[g]
  BY <1>0 DEF Picks, Idle
<1>4. \A k \in Keys : Shifting(k)' = Shifting(k) \ {f}
  BY <1>3 DEF Shifting
<1>5. CASE flushing[f].outcome = "sent" /\ queues' = [queues EXCEPT ![c] = Shift(@)]
  <2>1. /\ Len(queues'[c]) >= Len(queues[c]) - 1
        /\ \A k \in Keys : k # c => queues'[k] = queues[k]
    BY <1>0, <1>1, <1>5, ShiftsOne
  <2>2. \A k \in Keys : k # c => f \notin Shifting(k)
    BY DEF Shifting
  <2>3. ASSUME NEW k \in Keys, k = c PROVE Square(k)
    <3>1. /\ Cardinality(To(k)) \in Nat /\ Cardinality(Removing(k)) \in Nat
          /\ Len(queues[k]) \in Nat /\ Credit(k) \in Int
      BY <1>0, Numbers
    <3>2. f \in Shifting(k)
      BY <1>5, <2>3 DEF Shifting
    <3>3. IsFiniteSet(Shifting(k)) /\ Cardinality(Shifting(k)) \in Nat
      BY Totals
    <3>4. /\ Cardinality(Shifting(k) \ {f}) = Cardinality(Shifting(k)) - 1
          /\ IsFiniteSet(Shifting(k) \ {f})
      BY <3>2, <3>3, FS_RemoveElement
    <3>5. Len(queues'[k]) \in Nat /\ Len(queues'[k]) >= Len(queues[k]) - 1
      BY <2>1, <2>3, NumbersNext
    <3>6. Cardinality(Shifting(k)') = Cardinality(Shifting(k)) - 1 /\ IsFiniteSet(Shifting(k)')
      BY <1>4, <3>4
    <3>0. /\ Cardinality(To(k)') = Cardinality(To(k)) /\ Cardinality(Removing(k)') = Cardinality(Removing(k))
          /\ Credit(k)' = Credit(k)
      BY <1>2
    <3>7. Debt(k) = Cardinality(To(k)) - Len(queues[k]) + Cardinality(Removing(k)) + Cardinality(Shifting(k))
      BY DebtIs
    <3>8. Debt(k)' = Cardinality(To(k)') - Len(queues'[k]) + Cardinality(Removing(k)') + Cardinality(Shifting(k)')
      BY DebtNext
    <3>9. Debt(k)' <= Debt(k) /\ Debt(k) \in Int /\ Debt(k)' \in Int
      <4> DEFINE t == Cardinality(To(k))
                 a == Cardinality(Removing(k))
                 b == Cardinality(Shifting(k))
                 q == Len(queues[k])
                 r == Len(queues'[k])
      <4>1. t \in Int /\ a \in Int /\ b \in Int /\ q \in Int /\ r \in Int /\ r >= q - 1
        BY <3>1, <3>3, <3>5
      <4>2. Debt(k) = t - q + a + b /\ Debt(k)' = t - r + a + (b - 1)
        BY <3>0, <3>3, <3>6, <3>7, <3>8
      <4> HIDE DEF t, a, b, q, r
      <4> QED BY <4>1, <4>2
    <3>10. Debt(k)' - Debt(k) <= Credit(k)' - Credit(k)
      BY <3>0, <3>1, <3>9
    <3> QED BY <1>2, <3>1, <3>3, <3>5, <3>6, <3>10 DEF Square
  <2>4. \A k \in Keys : Untouched(k) \/ Square(k)
    BY <1>2, <1>4, <2>1, <2>2, <2>3 DEF Untouched
  <2> QED BY <1>0, <2>4, SquareAll
<1>6. CASE flushing[f].outcome = "failed" /\ UNCHANGED queues
  <2>1. \A k \in Keys : Shifting(k)' = Shifting(k)
    BY <1>4, <1>6 DEF Shifting
  <2>2. \A k \in Keys : Untouched(k)
    BY <1>2, <1>6, <2>1 DEF Untouched
  <2> QED BY <1>0, <2>2, SquareAll
<1> QED BY <1>5, <1>6 DEF FlushReturns

LEMMA InitPaid == Init => PaidInv
<1> SUFFICES ASSUME Init, NEW k \in Keys PROVE Paid(k)
  BY InitQ DEF PaidInv
<1>1. Messages = {} /\ DOMAIN sending = {} /\ \A f \in Flushers : flushing[f] = Idle
  BY DEF Init, Messages
<1>2. To(k) = {} /\ Removing(k) = {} /\ Shifting(k) = {} /\ Len(queues[k]) = 0
  BY <1>1 DEF To, Removing, Shifting, Idle, Init
<1>3. Credit(k) = 0
  BY <1>2, SumEmpty DEF Credit
<1> QED BY <1>2, <1>3, FS_EmptySet DEF Paid, Debt

LEMMA StutterPaid == PaidInv /\ UNCHANGED vars => PaidInv'
BY StutterQ DEF vars, PaidInv, Paid, Debt, Credit, To, Removing, Shifting, Messages

(* Whatever overlaps, a queue loses no more messages than have left for    *)
(* its peer: every removal, of the message meant or of another that has    *)
(* become first, is by a call whose attempt was a departure.               *)
THEOREM LossesPaid == Spec => []RemovalsArePaidFor
<1>1. PaidInv /\ [Next]_vars => PaidInv'
  <2> SUFFICES ASSUME PaidInv, Call, NoteOverlaps PROVE PaidInv'
    BY StutterPaid DEF Next
  <2>1. QInv'
    BY CallQ DEF PaidInv
  <2> QED BY <2>1, PaidSend, PaidSettles, PaidReturns, PaidFlushStarts, PaidFlushSettles,
             PaidFlushReturns DEF Call
<1>2. PaidInv => RemovalsArePaidFor
  <2> SUFFICES ASSUME PaidInv, NEW k \in Keys
               PROVE  Cardinality(To(k)) - Len(queues[k]) <= Credit(k)
    BY DEF RemovalsArePaidFor, To, Credit
  <2>1. /\ Cardinality(To(k)) \in Nat /\ Cardinality(Removing(k)) \in Nat
        /\ Len(queues[k]) \in Nat /\ Credit(k) \in Int
    BY Numbers DEF PaidInv
  <2>2. Cardinality(Shifting(k)) \in Nat /\ Debt(k) <= Credit(k)
    BY Totals
  <2> QED BY <2>1, <2>2, DebtIs
<1> QED BY <1>1, <1>2, InitPaid, PTL DEF Spec
=============================================================================
