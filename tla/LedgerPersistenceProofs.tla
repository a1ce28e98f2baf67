----------------------- MODULE LedgerPersistenceProofs -----------------------
(***************************************************************************)
(* For any number of tabs, peers and events: every DAG in memory is closed *)
(* under parents and ordered causally, and a store has a hole only where a *)
(* write failed.                                                           *)
(***************************************************************************)
EXTENDS LedgerPersistence, EventDagProofs

\* Only the memory of an open tab holds anything.
OnlyLiveMemory ==
  /\ \A r \in Replicas : ~Live(r) => dag[r] = {}
  /\ \A c \in adding : Live(c.at)
  /\ \A w \in writing : status[w[1]] = "open" /\ w[2] \in dag[w[1]]

(* A write that completes finds its event's parents stored or failed only  *)
(* because the tab still knows them, they come first in its line, and what *)
(* it knows is accounted for.                                              *)
IInv == TypeOK /\ OnlyLiveMemory /\ CausalOrder /\ OpenMemoryIsDurable /\ HoleNeedsFailedWrite

(* The hash function only grows: what an id names never changes, and a new *)
(* id names the event it was computed for.                                 *)
LEMMA Hashing ==
  ASSUME DagTypeOK(Payloads), NEW e \in Event(Payloads), NEW id, HashIs(e, id)
  PROVE  /\ id \in Ids
         /\ DOMAIN content' = DOMAIN content \cup {id}
         /\ \A i \in DOMAIN content : content'[i] = content[i]
         /\ content'[id] = e
         /\ content' \in [DOMAIN content' -> Event(Payloads)]
<1>1. DOMAIN content \in SUBSET Ids
  BY DEF DagTypeOK
<1>2. NewIds(DOMAIN content) \subseteq Ids \ DOMAIN content
  BY <1>1, DagAssumption
<1> QED BY <1>1, <1>2 DEF DagTypeOK, HashIs

LEMMA PageIsTab == \A r \in Replicas : Page(r) \in Tabs
  BY PersistenceAssumption DEF Page, Peers

-----------------------------------------------------------------------------

LEMMA InitInv == Init => IInv
<1> SUFFICES ASSUME Init PROVE IInv
  OBVIOUS
<1> USE DEF Init, DagInit
<1>1. content \in [DOMAIN content -> Event(Payloads)] /\ DOMAIN content = {}
  OBVIOUS
<1>2. TypeOK
  BY <1>1 DEF TypeOK, DagTypeOK
<1>3. OnlyLiveMemory
  BY DEF OnlyLiveMemory
<1>4. CausalOrder /\ OpenMemoryIsDurable /\ HoleNeedsFailedWrite
  BY DEF CausalOrder, OpenMemoryIsDurable, HoleNeedsFailedWrite
<1> QED BY <1>2, <1>3, <1>4 DEF IInv

LEMMA AddInv ==
  ASSUME IInv, NEW r \in Replicas, NEW ps \in SUBSET DOMAIN content, Add(r, ps)
  PROVE  IInv'
<1> USE DEF IInv, Add, MayAdd
<1>1. [at |-> r, event |-> [parents |-> ps, payload |-> DomainOf[r]]] \in Call
  BY PersistenceAssumption DEF TypeOK, DagTypeOK, Call, Event
<1>2. TypeOK'
  BY <1>1 DEF TypeOK, DagTypeOK
<1>3. OnlyLiveMemory'
  BY DEF OnlyLiveMemory, Live
<1>4. CausalOrder' /\ OpenMemoryIsDurable' /\ HoleNeedsFailedWrite'
  BY DEF CausalOrder, OpenMemoryIsDurable, HoleNeedsFailedWrite, Parents
<1> QED BY <1>2, <1>3, <1>4

LEMMA AddedInv ==
  ASSUME IInv, NEW c \in adding, NEW id \in Ids, Added(c, id)
  PROVE  IInv'
<1> USE DEF IInv, Added, Insert
<1> DEFINE r == c.at
<1>1. /\ c \in Call /\ r \in Replicas /\ c.event \in Event(Payloads) /\ Live(r)
      /\ c.event.parents \subseteq dag[r]
  BY DEF TypeOK, DagTypeOK, Call, OnlyLiveMemory
<1>2. /\ DOMAIN content' = DOMAIN content \cup {id}
      /\ \A i \in DOMAIN content : content'[i] = content[i]
      /\ content'[id] = c.event
      /\ content' \in [DOMAIN content' -> Event(Payloads)]
  BY <1>1, Hashing DEF TypeOK
<1>3. /\ dag'[r] = dag[r] \cup {id}
      /\ \A s \in Replicas : s # r => dag'[s] = dag[s] /\ inserted'[s] = inserted[s]
      /\ inserted'[r] = inserted[r] \cup (dag[r] \X ({id} \ dag[r]))
      /\ dag' \in [Replicas -> SUBSET DOMAIN content']
  BY <1>1, <1>2 DEF TypeOK, DagTypeOK, Appended
<1>4. inserted' \in [Replicas -> SUBSET (Ids \X Ids)]
  <2>1. dag[r] \X ({id} \ dag[r]) \subseteq Ids \X Ids
    BY <1>1 DEF TypeOK, DagTypeOK
  <2> QED BY <2>1, <1>1, <1>3 DEF TypeOK, DagTypeOK
<1>5. writing' = writing \cup ((Tabs \cap {r}) \X ({id} \ dag[r]))
  BY <1>3 DEF Notified
<1>6. TypeOK'
  <2>1. DagTypeOK(Payloads)'
    BY <1>2, <1>3 DEF TypeOK, DagTypeOK
  <2>2. /\ adding' \subseteq Call
        /\ \A d \in adding' : d.event.parents \subseteq dag'[d.at]
    BY <1>1, <1>3 DEF TypeOK, DagTypeOK, Call
  <2>3. writing' \subseteq Tabs \X DOMAIN content'
    BY <1>2, <1>5 DEF TypeOK
  <2> QED BY <2>1, <2>2, <2>3, <1>2, <1>4 DEF TypeOK
<1>7. OnlyLiveMemory'
  BY <1>1, <1>3, <1>5 DEF OnlyLiveMemory, Live, Page, TypeOK, DagTypeOK
<1>8. CausalOrder'
  <2> SUFFICES ASSUME NEW s \in Replicas, NEW e \in dag'[s], NEW q \in Parents(e)'
               PROVE  q \in dag'[s] /\ <<q, e>> \in inserted'[s]
    BY DEF CausalOrder
  <2>1. CASE e \in dag[s]
    <3>1. e \in DOMAIN content
      BY <2>1 DEF TypeOK, DagTypeOK
    <3>2. q \in Parents(e)
      BY <1>2, <3>1 DEF Parents
    <3>3. q \in dag[s] /\ <<q, e>> \in inserted[s]
      BY <2>1, <3>2 DEF CausalOrder
    <3> QED BY <3>3, <1>1, <1>3
  <2>2. CASE e \notin dag[s]
    <3>1. s = r /\ e = id
      BY <2>2, <1>3
    <3>2. q \in dag[r]
      BY <3>1, <1>1, <1>2 DEF Parents
    <3> QED BY <3>1, <3>2, <2>2, <1>3
  <2> QED BY <2>1, <2>2
<1>9. OpenMemoryIsDurable'
  BY <1>1, <1>3, <1>5, PersistenceAssumption DEF OpenMemoryIsDurable
<1>10. HoleNeedsFailedWrite'
  BY <1>2 DEF HoleNeedsFailedWrite, Parents, TypeOK
<1> QED BY <1>6, <1>7, <1>8, <1>9, <1>10

\* What r holds after merging s comes after its parents, in the order merge() left.
LEMMA MergedInOrder ==
  ASSUME CausalOrder, NEW r \in Replicas, NEW s \in Replicas,
         NEW e \in dag[r] \cup dag[s], NEW q \in Parents(e)
  PROVE  q \in dag[r] \cup dag[s] /\ <<q, e>> \in MergeOrder(r, s)
<1>1. CASE e \in dag[r]
  BY <1>1 DEF CausalOrder, MergeOrder, Appended
<1>2. CASE e \notin dag[r]
  <2>1. e \in dag[s] /\ q \in dag[s] /\ <<q, e>> \in inserted[s]
    BY <1>2 DEF CausalOrder
  <2> QED BY <2>1, <1>2 DEF MergeOrder, Appended
<1> QED BY <1>1, <1>2

LEMMA SyncInv ==
  ASSUME IInv, NEW t \in Tabs, NEW p \in Peers, Sync(t, p)
  PROVE  IInv'
<1> USE DEF IInv, Sync, MergeBothWays
<1>1. t \in Replicas /\ p \in Replicas /\ t # p /\ p \notin Tabs
  BY PersistenceAssumption DEF Peers
<1>2. /\ dag'[t] = dag[t] \cup dag[p] /\ dag'[p] = dag[t] \cup dag[p]
      /\ inserted'[t] = MergeOrder(t, p) /\ inserted'[p] = MergeOrder(p, t)
      /\ \A s \in Replicas \ {t, p} : dag'[s] = dag[s] /\ inserted'[s] = inserted[s]
      /\ dag' \in [Replicas -> SUBSET DOMAIN content]
  BY <1>1 DEF TypeOK, DagTypeOK
<1>3. writing' = writing \cup ({t} \X (dag[p] \ dag[t]))
  <2>1. Tabs \cap {t} = {t} /\ dag'[t] \ dag[t] = dag[p] \ dag[t]
    BY <1>2
  <2> QED BY <2>1 DEF Notified
<1>4. TypeOK'
  <2>1. MergeOrder(t, p) \subseteq Ids \X Ids /\ MergeOrder(p, t) \subseteq Ids \X Ids
    BY <1>1 DEF MergeOrder, Appended, TypeOK, DagTypeOK
  <2>2. inserted' \in [Replicas -> SUBSET (Ids \X Ids)]
    BY <2>1, <1>1 DEF TypeOK, DagTypeOK
  <2>3. \A c \in adding : c.event.parents \subseteq dag'[c.at]
    BY <1>1, <1>2 DEF TypeOK, DagTypeOK, Call
  <2>4. DagTypeOK(Payloads)'
    BY <1>2 DEF TypeOK, DagTypeOK
  <2>5. writing' \subseteq Tabs \X DOMAIN content
    <3>1. dag[p] \subseteq DOMAIN content
      BY <1>1 DEF TypeOK, DagTypeOK
    <3> QED BY <3>1, <1>3 DEF TypeOK
  <2> QED BY <2>2, <2>3, <2>4, <2>5 DEF TypeOK
<1>5. OnlyLiveMemory'
  <2>1. Live(t) /\ Live(p) /\ status[t] = "open"
    BY DEF Live, Page
  <2>2. \A r \in Replicas : ~Live(r)' => dag'[r] = {}
    BY <2>1, <1>1, <1>2 DEF OnlyLiveMemory, Live, Page
  <2>3. \A c \in adding : Live(c.at)'
    BY DEF OnlyLiveMemory, Live, Page
  <2>4. \A w \in writing' : status'[w[1]] = "open" /\ w[2] \in dag'[w[1]]
    BY <2>1, <1>1, <1>2, <1>3, PersistenceAssumption DEF OnlyLiveMemory, TypeOK
  <2> QED BY <2>2, <2>3, <2>4 DEF OnlyLiveMemory, Live, Page
<1>6. CausalOrder'
  <2> HIDE DEF Sync, MergeBothWays
  <2>1. \A e \in dag'[t] : \A q \in Parents(e) : q \in dag'[t] /\ <<q, e>> \in inserted'[t]
    <3> SUFFICES ASSUME NEW e \in dag'[t], NEW q \in Parents(e)
                 PROVE  q \in dag'[t] /\ <<q, e>> \in inserted'[t]
      OBVIOUS
    <3>1. q \in dag[t] \cup dag[p] /\ <<q, e>> \in MergeOrder(t, p)
      BY MergedInOrder, <1>1, <1>2
    <3> QED BY <3>1, <1>2
  <2>2. \A e \in dag'[p] : \A q \in Parents(e) : q \in dag'[p] /\ <<q, e>> \in inserted'[p]
    <3> SUFFICES ASSUME NEW e \in dag'[p], NEW q \in Parents(e)
                 PROVE  q \in dag'[p] /\ <<q, e>> \in inserted'[p]
      OBVIOUS
    <3>1. e \in dag[p] \cup dag[t]
      BY <1>2
    <3>2. q \in dag[p] \cup dag[t] /\ <<q, e>> \in MergeOrder(p, t)
      BY MergedInOrder, <1>1, <3>1
    <3> QED BY <3>2, <1>2
  <2>3. \A s \in Replicas \ {t, p} : \A e \in dag'[s] : \A q \in Parents(e) :
          q \in dag'[s] /\ <<q, e>> \in inserted'[s]
    BY <1>2 DEF CausalOrder
  <2>4. \A e : Parents(e)' = Parents(e)
    BY DEF Parents, Sync, MergeBothWays
  <2> QED BY <2>1, <2>2, <2>3, <2>4 DEF CausalOrder
<1>7. OpenMemoryIsDurable'
  BY <1>1, <1>2, <1>3, PersistenceAssumption DEF OpenMemoryIsDurable
<1>8. HoleNeedsFailedWrite'
  BY DEF HoleNeedsFailedWrite, Parents
<1> QED BY <1>4, <1>5, <1>6, <1>7, <1>8

LEMMA WriteInv ==
  ASSUME IInv, NEW t \in Tabs, NEW id \in dag[t],
         WriteCompletes(t, id) \/ WriteFails(t, id)
  PROVE  IInv'
<1> USE DEF IInv
<1>1. /\ UNCHANGED <<content, dag, inserted, adding, status>>
      /\ writing' = writing \ {<<t, id>>}
      /\ <<t, id>> \in writing
      /\ stored \subseteq stored' /\ failed \subseteq failed'
      /\ stored' \cup failed' = stored \cup failed \cup {id}
  BY DEF WriteCompletes, WriteFails, FirstInLine
<1>2. TypeOK'
  BY <1>1 DEF TypeOK, DagTypeOK
<1>3. OnlyLiveMemory' /\ CausalOrder'
  BY <1>1 DEF OnlyLiveMemory, CausalOrder, Live, Page, Parents
<1>4. OpenMemoryIsDurable'
  BY <1>1 DEF OpenMemoryIsDurable
<1>5. HoleNeedsFailedWrite'
  <2>1. CASE WriteFails(t, id)
    BY <2>1, <1>1 DEF WriteFails, HoleNeedsFailedWrite, Parents
  <2>2. CASE WriteCompletes(t, id)
    <3>1. Parents(id) \subseteq stored \cup failed
      <4> SUFFICES ASSUME NEW q \in Parents(id) PROVE q \in stored \cup failed
        OBVIOUS
      <4>1. q \in dag[t] /\ <<q, id>> \in inserted[t]
        BY PersistenceAssumption DEF CausalOrder
      <4>2. <<t, q>> \notin writing
        BY <4>1, <2>2 DEF WriteCompletes, FirstInLine
      <4>3. status[t] = "open"
        BY <1>1 DEF OnlyLiveMemory
      <4> QED BY <4>1, <4>2, <4>3 DEF OpenMemoryIsDurable
    <3> QED BY <3>1, <2>2, <1>1 DEF WriteCompletes, HoleNeedsFailedWrite, Parents
  <2> QED BY <2>1, <2>2
<1> QED BY <1>2, <1>3, <1>4, <1>5

LEMMA OpenInv ==
  ASSUME IInv, NEW t \in Tabs, Open(t)
  PROVE  IInv'
<1> USE DEF IInv
<1> DEFINE order == ReplayOrder
<1>0. t \in Replicas /\ Page(t) = t
  BY PersistenceAssumption DEF Page
<1>1. /\ status[t] = "closed" /\ status' = [status EXCEPT ![t] = "open"]
      /\ UNCHANGED <<content, adding, stored, writing, failed>>
      /\ order \in Seq(stored)
      /\ \A i \in DOMAIN order : Parents(order[i]) \subseteq {order[j] : j \in 1 .. (i - 1)}
  BY DEF Open, Replays
<1>2. \A i \in DOMAIN order : order[i] \in stored
  BY <1>1
<1>3. /\ dag'[t] = {order[i] : i \in DOMAIN order}
      /\ \A e, q : (\E i, j \in DOMAIN order : i < j /\ q = order[i] /\ e = order[j])
                     => <<q, e>> \in inserted'[t]
      /\ \A s \in Replicas \ {t} : dag'[s] = dag[s] /\ inserted'[s] = inserted[s]
      /\ dag' \in [Replicas -> SUBSET DOMAIN content]
      /\ inserted' \in [Replicas -> SUBSET (Ids \X Ids)]
  <2> DEFINE after == {<<order[q[1]], order[q[2]]>> :
                q \in {p \in (DOMAIN order) \X (DOMAIN order) : p[1] < p[2]}}
  <2>1. /\ dag' = [dag EXCEPT ![t] = Range(order)]
        /\ inserted' = [inserted EXCEPT ![t] = after]
    BY DEF Open
  <2>2. Range(order) = {order[i] : i \in DOMAIN order}
    BY DEF Range
  <2>3. Range(order) \subseteq DOMAIN content /\ DOMAIN content \subseteq Ids
    BY <2>2, <1>2 DEF TypeOK, DagTypeOK
  <2>4. after \subseteq Ids \X Ids
    BY <2>3, <1>2 DEF TypeOK
  <2>5. \A i, j \in DOMAIN order : i < j => <<order[i], order[j]>> \in after
    <3> SUFFICES ASSUME NEW i \in DOMAIN order, NEW j \in DOMAIN order, i < j
                 PROVE  <<order[i], order[j]>> \in after
      OBVIOUS
    <3> DEFINE pair == <<i, j>>
    <3>1. pair \in {p \in (DOMAIN order) \X (DOMAIN order) : p[1] < p[2]}
      OBVIOUS
    <3>2. <<order[i], order[j]>> = <<order[pair[1]], order[pair[2]]>>
      OBVIOUS
    <3> QED BY <3>1, <3>2
  <2>6. \A e, q : (\E i, j \in DOMAIN order : i < j /\ q = order[i] /\ e = order[j])
                   => <<q, e>> \in after
    BY <2>5
  <2> HIDE DEF after, order
  <2>7. dag'[t] = Range(order) /\ inserted'[t] = after
    BY <2>1, <1>0 DEF TypeOK, DagTypeOK
  <2>8. \A s \in Replicas \ {t} : dag'[s] = dag[s] /\ inserted'[s] = inserted[s]
    BY <2>1, <1>0 DEF TypeOK, DagTypeOK
  <2>9. dag' \in [Replicas -> SUBSET DOMAIN content]
    BY <2>1, <2>3 DEF TypeOK, DagTypeOK
  <2>10. inserted' \in [Replicas -> SUBSET (Ids \X Ids)]
    BY <2>1, <2>4 DEF TypeOK, DagTypeOK
  <2> QED BY <2>2, <2>6, <2>7, <2>8, <2>9, <2>10
<1> HIDE DEF order
<1>4. dag[t] = {} /\ \A c \in adding : c.at # t
  BY <1>0, <1>1 DEF OnlyLiveMemory, Live
<1>5. \A w \in writing : w[1] # t
  BY <1>1 DEF OnlyLiveMemory
<1>6. TypeOK'
  <2>1. \A c \in adding : c.event.parents \subseteq dag'[c.at]
    BY <1>3, <1>4 DEF TypeOK, DagTypeOK, Call
  <2> QED BY <2>1, <1>1, <1>3 DEF TypeOK, DagTypeOK
<1>7. OnlyLiveMemory'
  <2>1. \A r \in Replicas : Live(r) => Live(r)'
    BY <1>1, PageIsTab DEF Live, Page, TypeOK
  <2>2. \A r \in Replicas : ~Live(r)' => dag'[r] = {}
    BY <2>1, <1>0, <1>1, <1>3 DEF OnlyLiveMemory, Live, TypeOK, Page
  <2>3. \A c \in adding' : Live(c.at)'
    BY <2>1, <1>1 DEF OnlyLiveMemory, TypeOK, DagTypeOK, Call
  <2>4. \A w \in writing' : status'[w[1]] = "open" /\ w[2] \in dag'[w[1]]
    BY <1>1, <1>3, <1>5, PersistenceAssumption DEF OnlyLiveMemory, TypeOK
  <2> QED BY <2>2, <2>3, <2>4 DEF OnlyLiveMemory
<1>8. CausalOrder'
  <2>1. ASSUME NEW e \in dag'[t], NEW q \in Parents(e)
        PROVE  q \in dag'[t] /\ <<q, e>> \in inserted'[t]
    <3>1. PICK i \in DOMAIN order : e = order[i]
      BY <1>3
    <3>2. PICK j \in 1 .. (i - 1) : q = order[j]
      BY <3>1, <1>1
    <3>3. j \in DOMAIN order /\ j < i
      BY <3>1, <3>2, <1>1
    <3> QED BY <3>1, <3>2, <3>3, <1>3
  <2> QED BY <2>1, <1>1, <1>3 DEF CausalOrder, Parents
<1>9. OpenMemoryIsDurable'
  <2>1. dag'[t] \subseteq stored
    BY <1>2, <1>3
  <2>2. \A s \in Tabs \ {t} : status'[s] = status[s] /\ dag'[s] = dag[s]
    BY <1>1, <1>3, PersistenceAssumption DEF TypeOK
  <2>3. stored' = stored /\ failed' = failed /\ writing' = writing
    BY <1>1
  <2> QED BY <2>1, <2>2, <2>3 DEF OpenMemoryIsDurable
<1>10. HoleNeedsFailedWrite'
  BY <1>1 DEF HoleNeedsFailedWrite, Parents
<1> QED BY <1>6, <1>7, <1>8, <1>9, <1>10

LEMMA OpenFailsInv ==
  ASSUME IInv, NEW t \in Tabs, OpenFails(t)
  PROVE  IInv'
<1> USE DEF IInv, OpenFails
<1>1. TypeOK'
  BY DEF TypeOK, DagTypeOK
<1>2. \A r \in Replicas : Live(r) <=> Live(r)'
  BY PageIsTab DEF Live, Page, TypeOK
<1>3. OnlyLiveMemory'
  <2>1. \A c \in adding : c.at \in Replicas
    BY DEF TypeOK, DagTypeOK, Call
  <2> QED BY <1>2, <2>1 DEF OnlyLiveMemory, TypeOK
<1>4. CausalOrder' /\ OpenMemoryIsDurable' /\ HoleNeedsFailedWrite'
  BY DEF CausalOrder, OpenMemoryIsDurable, HoleNeedsFailedWrite, Parents, TypeOK
<1> QED BY <1>1, <1>3, <1>4

LEMMA CloseInv ==
  ASSUME IInv, NEW t \in Tabs, Close(t)
  PROVE  IInv'
<1> USE DEF IInv, Close
<1>1. \A r \in Replicas : /\ Page(r) # t => dag'[r] = dag[r] /\ inserted'[r] = inserted[r]
                          /\ Page(r) = t => dag'[r] = {} /\ inserted'[r] = {}
  OBVIOUS
<1>2. TypeOK'
  <2>1. \A c \in adding' : c.event.parents \subseteq dag'[c.at]
    BY <1>1 DEF TypeOK, DagTypeOK, Call
  <2>2. /\ dag' \in [Replicas -> SUBSET DOMAIN content]
        /\ inserted' \in [Replicas -> SUBSET (Ids \X Ids)]
    BY DEF TypeOK, DagTypeOK
  <2>3. adding' \subseteq Call /\ writing' \subseteq Tabs \X DOMAIN content
    BY DEF TypeOK, DagTypeOK
  <2> QED BY <2>1, <2>2, <2>3 DEF TypeOK, DagTypeOK
<1>3. \A r \in Replicas : Live(r)' <=> Live(r) /\ Page(r) # t
  BY PageIsTab DEF Live, Page, TypeOK
<1>4. OnlyLiveMemory'
  <2>1. \A c \in adding' : Live(c.at)'
    BY <1>3 DEF OnlyLiveMemory, TypeOK, DagTypeOK, Call
  <2>2. \A w \in writing' : status'[w[1]] = "open" /\ w[2] \in dag'[w[1]]
    <3>1. \A w \in writing' : w \in writing /\ w[1] # t /\ w[1] \in Tabs
      BY DEF TypeOK
    <3>2. \A s \in Tabs : s # t => dag'[s] = dag[s] /\ status'[s] = status[s]
      BY <1>1, PersistenceAssumption DEF Page, TypeOK
    <3> QED BY <3>1, <3>2 DEF OnlyLiveMemory
  <2> QED BY <1>1, <1>3, <2>1, <2>2 DEF OnlyLiveMemory
<1>5. CausalOrder'
  BY <1>1 DEF CausalOrder, Parents
<1>6. OpenMemoryIsDurable'
  <2>1. \A s \in Tabs : status'[s] = "open" => s # t /\ status[s] = "open" /\ dag'[s] = dag[s]
    BY <1>1, PersistenceAssumption DEF Page, TypeOK
  <2> QED BY <2>1 DEF OpenMemoryIsDurable
<1>7. HoleNeedsFailedWrite'
  BY DEF HoleNeedsFailedWrite, Parents
<1> QED BY <1>2, <1>4, <1>5, <1>6, <1>7

-----------------------------------------------------------------------------

LEMMA StepInv == IInv /\ [Next]_vars => IInv'
<1> SUFFICES ASSUME IInv, [Next]_vars PROVE IInv'
  OBVIOUS
<1>1. CASE \E r \in Replicas : \E ps \in SUBSET DOMAIN content : Add(r, ps)
  BY <1>1, AddInv
<1>2. CASE \E c \in adding, id \in Ids : Added(c, id)
  BY <1>2, AddedInv
<1>3. CASE \E t \in Tabs, p \in Peers : Sync(t, p)
  BY <1>3, SyncInv
<1>4. CASE \E t \in Tabs : \E id \in dag[t] : WriteCompletes(t, id) \/ WriteFails(t, id)
  BY <1>4, WriteInv
<1>5. CASE \E t \in Tabs : Open(t) \/ OpenFails(t) \/ Close(t)
  BY <1>5, OpenInv, OpenFailsInv, CloseInv
<1>6. CASE UNCHANGED vars
  BY <1>6 DEF vars, IInv, TypeOK, DagTypeOK, OnlyLiveMemory, Live, Page, CausalOrder,
              OpenMemoryIsDurable, HoleNeedsFailedWrite, Parents
<1> QED BY <1>1, <1>2, <1>3, <1>4, <1>5, <1>6 DEF Next

\* Every reachable state satisfies the inductive invariant.
THEOREM Invariance == Spec => []IInv
  BY InitInv, StepInv, PTL DEF Spec

\* All state is well typed, and a checked parent is still known after the await.
THEOREM TypeCorrect == Spec => []TypeOK
<1>1. IInv => TypeOK
  BY DEF IInv
<1> QED BY Invariance, <1>1, PTL

\* At any replica every known event comes after all its parents.
THEOREM CausallyOrdered == Spec => []CausalOrder
<1>1. IInv => CausalOrder
  BY DEF IInv
<1> QED BY Invariance, <1>1, PTL

(* What an open tab knows is stored, being stored, or failed to be stored, *)
(* whichever of addEvent(), merge() and reload brought it.                 *)
THEOREM AccountedFor == Spec => []OpenMemoryIsDurable
<1>1. IInv => OpenMemoryIsDurable
  BY DEF IInv
<1> QED BY Invariance, <1>1, PTL

(* Crashes and other tabs alone never leave a store that cannot be opened: *)
(* a missing parent is one whose write failed.                             *)
THEOREM HolesAreFailures == Spec => []HoleNeedsFailedWrite
<1>1. IInv => HoleNeedsFailedWrite
  BY DEF IInv
<1> QED BY Invariance, <1>1, PTL

-----------------------------------------------------------------------------
(* The order of the DAG                                                    *)

LEMMA InitDag == Init => DagInv
  BY DEF Init, DagInit, DagInv, Acyclic

LEMMA StepDag == IInv /\ IInv' /\ DagInv /\ [Next]_vars => DagInv'
<1> SUFFICES ASSUME IInv, IInv', DagInv, [Next]_vars PROVE DagInv'
  OBVIOUS
<1>1. CASE content' = content
  <2>1. dag' \in [Replicas -> SUBSET DOMAIN content'] /\ DOMAIN content' \subseteq Ids
    BY DEF IInv, TypeOK, DagTypeOK
  <2>2. \A r \in Replicas : \A id \in dag'[r] : Parents(id)' \subseteq dag'[r]
    BY DEF IInv, CausalOrder
  <2>3. Acyclic'
    BY <1>1 DEF DagInv, Acyclic, Parents
  <2>4. \A id \in DOMAIN content' : Parents(id)' \subseteq DOMAIN content'
    BY <1>1 DEF DagInv, Parents
  <2> QED BY <2>1, <2>2, <2>3, <2>4 DEF DagInv
<1>2. ASSUME NEW c \in adding, NEW id \in Ids, Added(c, id) PROVE DagInv'
  <2>1. c.at \in Replicas /\ c.event.parents \subseteq dag[c.at]
    BY DEF IInv, TypeOK, Call
  <2>2. Insert(c.at, c.event, id)
    BY <1>2 DEF Added
  <2> QED BY <2>1, <2>2, InsertDag
<1>3. content' = content \/ \E c \in adding, id \in Ids : Added(c, id)
  BY DEF Next, vars, Add, Sync, MergeBothWays, WriteCompletes, WriteFails, Open, OpenFails, Close
<1> QED BY <1>1, <1>2, <1>3

\* Every reachable DAG is acyclic and closed under parents.
THEOREM DagInvariance == Spec => []DagInv
  BY InitDag, StepDag, Invariance, PTL DEF Spec

(* topoOrder() lists what a replica knows, each event once and parents     *)
(* before children, whatever the hashes are and whatever was merged,       *)
(* reloaded or lost.                                                       *)
THEOREM OrderIsCausal == Spec => []TopoOrderIsCausal
  BY DagInvariance, TopoOrderCausal, PTL

\* topologicalSortForReplay() of a store without holes can be replayed, and is all of it.
LEMMA ReplayIsWhole ==
  ASSUME IInv, DagInv
  PROVE  /\ Range(ReplayOrder) = stored
         /\ Replays(ReplayOrder) <=> \A id \in stored : Parents(id) \subseteq stored
<1>1. stored \in SUBSET DOMAIN content
  BY DEF IInv, TypeOK
<1> DEFINE order == ReplayOrder
<1>2. order \in Seq(stored) /\ InOrder(stored, order) /\ Range(order) = stored
  BY <1>1, DepthFirstInOrder DEF ReplayOrder
<1> HIDE DEF order
<1>3. ASSUME \A id \in stored : Parents(id) \subseteq stored
      PROVE  Replays(order)
  <2> SUFFICES ASSUME NEW i \in DOMAIN order, NEW p \in Parents(order[i])
               PROVE  p \in {order[j] : j \in 1 .. (i - 1)}
    BY <1>2 DEF Replays
  <2>1. order[i] \in stored
    BY <1>2
  <2>2. PICK j \in 1 .. (i - 1) : order[j] = p
    BY <1>2, <1>3, <2>1 DEF InOrder
  <2> QED BY <2>2
<1>4. ASSUME Replays(order), NEW id \in stored, NEW p \in Parents(id)
      PROVE  p \in stored
  <2>1. PICK i \in DOMAIN order : order[i] = id
    BY <1>2 DEF Range
  <2>2. PICK j \in 1 .. (i - 1) : order[j] = p
    BY <1>4, <2>1 DEF Replays
  <2>3. j \in DOMAIN order
    BY <1>2, <2>1, <2>2
  <2> QED BY <1>2, <2>2, <2>3
<1> QED BY <1>2, <1>3, <1>4 DEF order

(* A wallet that is opened has all that was ever stored, or a parent is    *)
(* missing there and it is not opened at all.                              *)
THEOREM ReopenRestored == ASSUME Backend = "js" PROVE Spec => ReopenRestores
<1> DEFINE Restored ==
      \A t \in Tabs : status[t] = "closed" /\ status'[t] # "closed" =>
        IF \E id \in stored : ~(Parents(id) \subseteq stored) THEN status'[t] = "failed"
        ELSE status'[t] = "open" /\ dag'[t] = stored
<1>1. ASSUME IInv, DagInv, [Next]_vars PROVE [Restored]_vars
  <2> SUFFICES ASSUME NEW t \in Tabs, status[t] = "closed", status'[t] # "closed"
               PROVE  IF \E id \in stored : ~(Parents(id) \subseteq stored) THEN status'[t] = "failed"
                      ELSE status'[t] = "open" /\ dag'[t] = stored
    OBVIOUS
  <2>0. status \in [Tabs -> {"closed", "open", "failed"}] /\ dag \in [Replicas -> SUBSET DOMAIN content]
        /\ Tabs \subseteq Replicas
    BY <1>1, PersistenceAssumption DEF IInv, TypeOK, DagTypeOK
  <2>1. Open(t) \/ OpenFails(t)
    <3>1. ASSUME NEW s \in Tabs, Open(s) \/ OpenFails(s) \/ Close(s)
          PROVE  Open(t) \/ OpenFails(t)
      BY <2>0, <3>1 DEF Open, OpenFails, Close
    <3>2. status' # status
      OBVIOUS
    <3> QED BY <1>1, <3>1, <3>2 DEF Next, vars, Add, Added, Sync, WriteCompletes, WriteFails
  <2>2. Range(ReplayOrder) = stored
        /\ (Replays(ReplayOrder) <=> \A id \in stored : Parents(id) \subseteq stored)
    BY <1>1, ReplayIsWhole
  <2>3. CASE Open(t)
    BY <2>0, <2>2, <2>3 DEF Open
  <2>4. CASE OpenFails(t)
    BY <2>0, <2>2, <2>4 DEF OpenFails
  <2> QED BY <2>1, <2>3, <2>4
<1> QED BY <1>1, Invariance, DagInvariance, PTL DEF ReopenRestores, Spec
=============================================================================
