--------------------------- MODULE EventDagProofs ---------------------------
(***************************************************************************)
(* What every materialized view rests on: topoOrder() lists the events a   *)
(* replica knows once each, parents before children, whatever their hashes *)
(* are.                                                                    *)
(***************************************************************************)
EXTENDS EventDag, RecursionProofs

-----------------------------------------------------------------------------
(* The event DAG                                                           *)

\* No event is its own ancestor: in every set of events some event comes first.
Acyclic ==
  \A S \in SUBSET DOMAIN content : S # {} => \E id \in S : Parents(id) \cap S = {}

DagInv ==
  /\ DOMAIN content \subseteq Ids
  /\ \A id \in DOMAIN content : Parents(id) \subseteq DOMAIN content
  /\ Acyclic
  /\ dag \in [Replicas -> SUBSET DOMAIN content]
  /\ \A r \in Replicas : \A id \in dag[r] : Parents(id) \subseteq dag[r]

(* The hash function only grows: what an id names never changes, and a new *)
(* id names the event it was computed for.                                 *)
LEMMA HashFacts ==
  ASSUME DagInv, NEW e, NEW id, HashIs(e, id)
  PROVE  /\ id \in Ids
         /\ DOMAIN content' = DOMAIN content \cup {id}
         /\ \A i \in DOMAIN content : content'[i] = content[i]
         /\ content'[id] = e
<1>1. DOMAIN content \in SUBSET Ids
  BY DEF DagInv
<1>2. NewIds(DOMAIN content) \subseteq Ids \ DOMAIN content
  BY <1>1, DagAssumption
<1> QED BY <1>1, <1>2 DEF HashIs

\* An event whose parents the replica knows leaves the DAG closed, without a cycle.
LEMMA InsertDag ==
  ASSUME DagInv, NEW r \in Replicas, NEW e, NEW id, e.parents \subseteq dag[r], Insert(r, e, id)
  PROVE  /\ DagInv'
         /\ dag'[r] = dag[r] \cup {id}
         /\ \A s \in Replicas \ {r} : dag'[s] = dag[s]
<1>1. /\ id \in Ids
      /\ DOMAIN content' = DOMAIN content \cup {id}
      /\ \A i \in DOMAIN content : content'[i] = content[i]
      /\ content'[id] = e
  BY HashFacts DEF Insert
<1>2. /\ dag'[r] = dag[r] \cup {id}
      /\ \A s \in Replicas \ {r} : dag'[s] = dag[s]
      /\ dag' \in [Replicas -> SUBSET DOMAIN content']
  BY <1>1 DEF Insert, DagInv
<1>3. dag[r] \subseteq DOMAIN content
  BY DEF DagInv
<1>4. \A i \in DOMAIN content : Parents(i)' = Parents(i) /\ Parents(i) \subseteq DOMAIN content
  BY <1>1 DEF DagInv, Parents
<1>5. Parents(id)' \subseteq dag[r]
  BY <1>1 DEF Parents
<1>6. Acyclic'
  <2> SUFFICES ASSUME NEW S \in SUBSET DOMAIN content', S # {}
               PROVE  \E i \in S : Parents(i)' \cap S = {}
    BY DEF Acyclic
  <2>1. CASE S \cap DOMAIN content # {}
    <3> DEFINE T == S \cap DOMAIN content
    <3>1. PICK i \in T : Parents(i) \cap T = {}
      BY <2>1 DEF DagInv, Acyclic
    <3>2. Parents(i)' \cap S = {}
      BY <1>4, <3>1
    <3> QED BY <3>1, <3>2
  <2>2. CASE S \cap DOMAIN content = {}
    <3>1. S = {id}
      BY <1>1, <2>2
    <3>2. Parents(id)' \cap S = {}
      BY <1>3, <1>5, <2>2
    <3> QED BY <3>1, <3>2
  <2> QED BY <2>1, <2>2
<1>7. \A i \in DOMAIN content' : Parents(i)' \subseteq DOMAIN content'
  BY <1>1, <1>3, <1>4, <1>5
<1>8. \A s \in Replicas : \A i \in dag'[s] : Parents(i)' \subseteq dag'[s]
  <2> SUFFICES ASSUME NEW s \in Replicas, NEW i \in dag'[s] PROVE Parents(i)' \subseteq dag'[s]
    OBVIOUS
  <2>1. i \in dag[s] \/ (s = r /\ i = id)
    BY <1>2
  <2>2. ASSUME i \in dag[s] PROVE Parents(i)' \subseteq dag[s]
    BY <1>4, <2>2 DEF DagInv
  <2>3. dag[s] \subseteq dag'[s]
    BY <1>2
  <2> QED BY <1>5, <2>1, <2>2, <2>3
<1> QED BY <1>1, <1>2, <1>6, <1>7, <1>8 DEF DagInv

LEMMA MergeDag ==
  ASSUME DagInv, NEW r \in Replicas, NEW s \in Replicas, MergeBothWays(r, s)
  PROVE  /\ DagInv'
         /\ dag'[r] = dag[r] \cup dag[s] /\ dag'[s] = dag[r] \cup dag[s]
         /\ \A t \in Replicas \ {r, s} : dag'[t] = dag[t]
<1>1. /\ dag'[r] = dag[r] \cup dag[s] /\ dag'[s] = dag[r] \cup dag[s]
      /\ \A t \in Replicas \ {r, s} : dag'[t] = dag[t]
      /\ dag' \in [Replicas -> SUBSET DOMAIN content]
  BY DEF MergeBothWays, DagInv
<1>2. content' = content
  BY DEF MergeBothWays
<1>3. Acyclic'
  BY <1>2 DEF DagInv, Acyclic, Parents
<1>4. \A t \in Replicas : \A id \in dag'[t] : Parents(id) \subseteq dag'[t]
  BY <1>1 DEF DagInv
<1> QED BY <1>1, <1>2, <1>3, <1>4 DEF DagInv, Parents

\* Who is a parent of whom, a relation with no infinite descent.
ParentOf == {p \in (DOMAIN content) \X (DOMAIN content) : p[1] \in Parents(p[2])}

LEMMA ParentsWellFounded == DagInv => IsWellFoundedOn(ParentOf, DOMAIN content)
<1> SUFFICES ASSUME DagInv PROVE IsWellFoundedOn(ParentOf, DOMAIN content)
  OBVIOUS
<1>1. ASSUME NEW T \in SUBSET DOMAIN content, T # {}
      PROVE  \E x \in T : \A y \in T : <<y, x>> \notin ParentOf
  BY <1>1 DEF DagInv, Acyclic, ParentOf
<1> QED BY <1>1, MinWF

\* The recursion that defines Ancestors has a solution.
LEMMA AncestorsAre ==
  DagInv => Ancestors = [id \in DOMAIN content |->
                           Parents(id) \cup UNION {Ancestors[p] : p \in Parents(id)}]
<1> SUFFICES ASSUME DagInv
             PROVE  Ancestors = [id \in DOMAIN content |->
                                   Parents(id) \cup UNION {Ancestors[p] : p \in Parents(id)}]
  OBVIOUS
<1> DEFINE S == DOMAIN content
           V == SUBSET S
           Above(id, g) == Parents(id) \cup UNION {g[p] : p \in Parents(id)}
           F == [id \in S |-> [g \in [S -> V] |-> Above(id, g)]]
<1>1. \A id \in S : Parents(id) \in SUBSET S
  BY DEF DagInv
<1>2. \A id \in S : \A g \in [S -> V] : Above(id, g) \in V /\ F[id][g] = Above(id, g)
  BY <1>1
<1>3. F \in [S -> [[S -> V] -> V]]
  BY <1>2
<1>4. \A x \in S : \A g, h \in [S -> V] :
        (\A y \in S : <<y, x>> \in ParentOf => g[y] = h[y]) => F[x][g] = F[x][h]
  <2> TAKE x \in S
  <2> TAKE g, h \in [S -> V]
  <2> HAVE \A y \in S : <<y, x>> \in ParentOf => g[y] = h[y]
  <2>1. \A p \in Parents(x) : p \in S /\ <<p, x>> \in ParentOf
    BY <1>1 DEF ParentOf
  <2>2. \A p \in Parents(x) : g[p] = h[p]
    BY <2>1
  <2>3. {g[p] : p \in Parents(x)} = {h[p] : p \in Parents(x)}
    BY <2>2
  <2>4. Above(x, g) = Above(x, h)
    BY <2>3
  <2> QED BY <1>2, <2>4
<1>5. IsWellFoundedOn(ParentOf, S)
  BY ParentsWellFounded
<1>6. V # {}
  OBVIOUS
<1>7. Defines(F, S, ParentOf, V)
  BY ONLY <1>3, <1>4, <1>5, <1>6 DEF Defines
<1>8. PICK f \in [S -> V] : \A x \in S : f[x] = F[x][f]
  <2> HIDE DEF F, V, S
  <2> QED BY <1>7, Recursion
<1>9. f = [id \in S |-> Parents(id) \cup UNION {f[p] : p \in Parents(id)}]
  BY <1>2, <1>8
<1> HIDE DEF F
<1> QED BY <1>9 DEF Ancestors

\* What is above an event: its parents, and what is above them.
LEMMA AncestorsOf ==
  DagInv => \A id \in DOMAIN content :
              /\ Parents(id) \subseteq DOMAIN content
              /\ Parents(id) \subseteq Ancestors[id]
              /\ \A p \in Parents(id) : Ancestors[p] \subseteq Ancestors[id]
              /\ \A a \in Ancestors[id] :
                   a \in Parents(id) \/ \E p \in Parents(id) : a \in Ancestors[p]
<1> HAVE DagInv
<1> TAKE id \in DOMAIN content
<1>1. Parents(id) \subseteq DOMAIN content
  BY DEF DagInv
<1>2. Ancestors[id] = Parents(id) \cup UNION {Ancestors[p] : p \in Parents(id)}
  BY AncestorsAre
<1> HIDE DEF Ancestors
<1> QED BY <1>1, <1>2

\* A set that has the parents of its events has all that is above them.
LEMMA ClosedAbove ==
  DagInv => \A D \in SUBSET DOMAIN content :
              (\A id \in D : Parents(id) \subseteq D) => \A id \in D : Ancestors[id] \subseteq D
<1> HAVE DagInv
<1> TAKE D \in SUBSET DOMAIN content
<1> HAVE \A id \in D : Parents(id) \subseteq D
<1> DEFINE T == {id \in D : ~(Ancestors[id] \subseteq D)}
<1> SUFFICES ASSUME T # {} PROVE FALSE
  OBVIOUS
<1>1. PICK x \in T : Parents(x) \cap T = {}
  BY DEF DagInv, Acyclic
<1>2. PICK a \in Ancestors[x] : a \notin D
  BY <1>1
<1>3. \A p \in Parents(x) : p \in D /\ Ancestors[p] \subseteq D
  BY <1>1
<1> QED BY <1>2, <1>3, AncestorsOf

LEMMA AncestorsKnown ==
  DagInv => /\ \A id \in DOMAIN content : Ancestors[id] \subseteq DOMAIN content
            /\ \A r \in Replicas : \A id \in dag[r] : Ancestors[id] \subseteq dag[r]
<1> HAVE DagInv
<1>1. \A id \in DOMAIN content : Parents(id) \subseteq DOMAIN content
  BY DEF DagInv
<1>2. \A r \in Replicas : dag[r] \in SUBSET DOMAIN content
                          /\ \A id \in dag[r] : Parents(id) \subseteq dag[r]
  BY DEF DagInv
<1> QED BY <1>1, <1>2, ClosedAbove

LEMMA AncestorsTransitive ==
  DagInv => \A id \in DOMAIN content : \A a \in Ancestors[id] : Ancestors[a] \subseteq Ancestors[id]
<1> HAVE DagInv
<1> TAKE id \in DOMAIN content
<1>1. Ancestors[id] \in SUBSET DOMAIN content
  BY AncestorsKnown
<1> DEFINE D == {a \in Ancestors[id] : Parents(a) \subseteq Ancestors[id]}
           T == {x \in DOMAIN content : \E a \in Ancestors[x] : ~(Ancestors[a] \subseteq Ancestors[x])}
<1> SUFFICES ASSUME T # {} PROVE FALSE
  OBVIOUS
<1>2. PICK x \in T : Parents(x) \cap T = {}
  BY DEF DagInv, Acyclic
<1>3. PICK a \in Ancestors[x] : ~(Ancestors[a] \subseteq Ancestors[x])
  BY <1>2
<1>4. a \notin Parents(x)
  BY <1>3, AncestorsOf
<1>5. PICK p \in Parents(x) : a \in Ancestors[p]
  BY <1>3, <1>4, AncestorsOf
<1>6. p \in DOMAIN content /\ p \notin T /\ Ancestors[p] \subseteq Ancestors[x]
  BY <1>2, AncestorsOf
<1>7. Ancestors[a] \subseteq Ancestors[p]
  BY <1>5, <1>6
<1> QED BY <1>3, <1>6, <1>7

\* No event is above itself.
LEMMA AncestorsIrreflexive == DagInv => \A id \in DOMAIN content : id \notin Ancestors[id]
<1> HAVE DagInv
<1> DEFINE T == {x \in DOMAIN content : x \in Ancestors[x]}
<1> SUFFICES ASSUME T # {} PROVE FALSE
  OBVIOUS
<1>1. PICK x \in T : Parents(x) \cap T = {}
  BY DEF DagInv, Acyclic
<1>2. x \notin Parents(x)
  BY <1>1
<1>3. PICK p \in Parents(x) : x \in Ancestors[p]
  BY <1>1, <1>2, AncestorsOf
<1>4. p \in DOMAIN content /\ p \in Ancestors[x]
  BY AncestorsOf
<1>5. p \in Ancestors[p]
  BY <1>3, <1>4, AncestorsTransitive
<1> QED BY <1>1, <1>4, <1>5

LEMMA AncestorsIrreflexiveNext == DagInv' => (\A id \in DOMAIN content : id \notin Ancestors[id])'
  BY AncestorsIrreflexive, PTL

LEMMA AncestorsAreNext ==
  DagInv' => (Ancestors = [id \in DOMAIN content |->
                             Parents(id) \cup UNION {Ancestors[p] : p \in Parents(id)}])'
  BY AncestorsAre, PTL

\* What is above an event does not change.
LEMMA AncestorsStay ==
  ASSUME DagInv, DagInv', NEW e, NEW id, HashIs(e, id)
  PROVE  \A i \in DOMAIN content : Ancestors'[i] = Ancestors[i] /\ Parents(i)' = Parents(i)
<1>1. /\ DOMAIN content' = DOMAIN content \cup {id}
      /\ \A i \in DOMAIN content : content'[i] = content[i]
  BY HashFacts
<1>2. \A i \in DOMAIN content : Parents(i)' = Parents(i)
  BY <1>1 DEF Parents
<1>3. \A i \in DOMAIN content : Parents(i) \subseteq DOMAIN content
  BY DEF DagInv
<1>4. \A i \in DOMAIN content : Ancestors[i] = Parents(i) \cup UNION {Ancestors[p] : p \in Parents(i)}
  BY AncestorsAre
<1>6. \A i \in DOMAIN content : Ancestors'[i] = Parents(i)' \cup UNION {Ancestors'[p] : p \in Parents(i)'}
  BY <1>1, AncestorsAreNext
<1> DEFINE T == {i \in DOMAIN content : Ancestors'[i] # Ancestors[i]}
<1> SUFFICES ASSUME T # {} PROVE FALSE
  BY <1>2
<1>7. PICK x \in T : Parents(x) \cap T = {}
  BY DEF DagInv, Acyclic
<1> HIDE DEF T
<1>8. \A p \in Parents(x) : Ancestors'[p] = Ancestors[p]
  BY <1>3, <1>7 DEF T
<1>9. x \in DOMAIN content
  BY <1>7 DEF T
<1>10. UNION {Ancestors'[p] : p \in Parents(x)} = UNION {Ancestors[p] : p \in Parents(x)}
  BY <1>8
<1>11. Ancestors'[x] = Ancestors[x]
  BY <1>2, <1>4, <1>6, <1>9, <1>10
<1> QED BY <1>7, <1>11 DEF T

-----------------------------------------------------------------------------
(* topoOrder                                                               *)

LEMMA LeastOf == \A S \in SUBSET Nat : S # {} => Least(S) \in S /\ \A j \in S : Least(S) <= j
  BY LeastNat DEF Least

\* The calls a visit of the ids of a set makes: of the others, and of its first one's parents.
CallsOf(S) ==
  {p \in (SUBSET S) \X (SUBSET S) :
     /\ p[2] # {}
     /\ p[1] = p[2] \ {Least(p[2])} \/ p[1] = Parents(Least(p[2])) \cap S}

LEMMA VisitsAre ==
  \A S : \A t, u \in SUBSET S :
    <<u, t>> \in CallsOf(S) <=> t # {} /\ (u = t \ {Least(t)} \/ u = Parents(Least(t)) \cap S)
<1> TAKE S
<1> DEFINE P == SUBSET S
           C(u, t) == t # {} /\ (u = t \ {Least(t)} \/ u = Parents(Least(t)) \cap S)
<1>1. CallsOf(S) = {p \in P \X P : C(p[1], p[2])}
  BY DEF CallsOf
<1> HIDE DEF P, C
<1>2. \A t, u \in P : <<u, t>> \in CallsOf(S) <=> C(u, t)
  BY <1>1
<1> QED BY <1>2 DEF P, C

LEMMA KnownIds ==
  DagInv => \A S \in SUBSET DOMAIN content : S \in SUBSET Nat /\ IsFiniteSet(S)
<1> HAVE DagInv
<1> TAKE S \in SUBSET DOMAIN content
<1>1. S \in SUBSET (1 .. MaxId)
  BY DEF DagInv, Ids
<1>2. MaxId \in Int /\ 1 \in Int
  BY DagAssumption
<1>3. IsFiniteSet(1 .. MaxId)
  BY <1>2, FS_Interval
<1> QED BY <1>1, <1>2, <1>3, FS_Subset

\* The visit terminates.
LEMMA VisitsWellFounded ==
  ASSUME DagInv, NEW S \in SUBSET DOMAIN content
  PROVE  IsWellFoundedOn(CallsOf(S), SUBSET S)
<1> SUFFICES ASSUME NEW T \in SUBSET (SUBSET S), T # {},
                    \A t \in T : \E u \in T : <<u, t>> \in CallsOf(S)
             PROVE  FALSE
  BY MinWF
<1> DEFINE Calls(t) == t # {} /\ (t \ {Least(t)} \in T \/ Parents(Least(t)) \cap S \in T)
           K == {k \in S : Parents(k) \cap S \in T}
<1>1. \A t \in T : Calls(t)
  <2> TAKE t \in T
  <2>1. PICK u \in T : <<u, t>> \in CallsOf(S)
    OBVIOUS
  <2>2. t \in SUBSET S /\ u \in SUBSET S
    OBVIOUS
  <2>3. t # {} /\ (u = t \ {Least(t)} \/ u = Parents(Least(t)) \cap S)
    BY ONLY <2>1, <2>2, VisitsAre
  <2>4. CASE u = t \ {Least(t)}
    BY ONLY <2>3, <2>4, u \in T
  <2>5. CASE u = Parents(Least(t)) \cap S
    BY ONLY <2>3, <2>5, u \in T
  <2> QED BY <2>3, <2>4, <2>5
<1>2. \A t \in T : t \in SUBSET Nat /\ IsFiniteSet(t)
  BY KnownIds
<1>3. ASSUME NEW A \in SUBSET T, A # {}
      PROVE  \E t \in A : t \ {Least(t)} \notin A
  <2> DEFINE N == {Cardinality(t) : t \in A}
  <2>1. N \in SUBSET Nat /\ N # {}
    BY <1>2, <1>3, FS_CardinalityType
  <2>2. PICK n \in N : \A m \in N : n <= m
    <3> HIDE DEF N
    <3> QED BY <2>1, LeastNat
  <2>3. PICK t \in A : n = Cardinality(t)
    BY <2>2
  <2>4. Least(t) \in t
    BY <1>1, <1>2, LeastOf
  <2>5. Cardinality(t \ {Least(t)}) = Cardinality(t) - 1
    <3>1. IsFiniteSet(t)
      BY <1>2
    <3> QED BY <2>4, <3>1, FS_RemoveElement
  <2>6. n \in Nat
    BY <2>1, <2>2
  <2>7. ~(n <= Cardinality(t \ {Least(t)}))
    BY <2>3, <2>5, <2>6
  <2> QED BY <2>2, <2>7
<1>4. ASSUME NEW t \in T PROVE K \cap t # {}
  <2> DEFINE A == {u \in T : u \subseteq t}
  <2>1. A \in SUBSET T /\ A # {}
    BY <1>4
  <2>2. PICK u \in A : u \ {Least(u)} \notin A
    <3> HIDE DEF A
    <3> QED BY <1>3, <2>1
  <2>3. Parents(Least(u)) \cap S \in T
    BY <1>1, <2>2
  <2>4. Least(u) \in u
    BY <1>1, <1>2, <2>2, LeastOf
  <2> QED BY <2>2, <2>3, <2>4
<1>5. K # {} /\ K \in SUBSET DOMAIN content
  BY <1>4
<1>6. PICK k \in K : Parents(k) \cap K = {}
  <2> HIDE DEF K
  <2> QED BY <1>5 DEF DagInv, Acyclic
<1> QED BY <1>4, <1>6

\* What emit makes of a call, given what it makes of the calls it depends on.
Emits(S, g, todo, order) ==
  IF todo = {} THEN order
  ELSE LET id == Least(todo)
       IN  g[todo \ {id}]
             [IF id \in Range(order) THEN order
              ELSE Append(g[Parents(id) \cap S][order], id)]

EmitOf(S) ==
  [todo \in SUBSET S |-> [g \in [SUBSET S -> [Seq(S) -> Seq(S)]] |->
     [order \in Seq(S) |-> Emits(S, g, todo, order)]]]

LEMMA EmitsSeq ==
  ASSUME NEW S \in SUBSET Nat, NEW g \in [SUBSET S -> [Seq(S) -> Seq(S)]],
         NEW todo \in SUBSET S, NEW order \in Seq(S)
  PROVE  Emits(S, g, todo, order) \in Seq(S)
<1>1. CASE todo = {}
  BY <1>1 DEF Emits
<1>2. CASE todo # {}
  <2> DEFINE id == Least(todo)
             mid == g[Parents(id) \cap S][order]
             next == IF id \in Range(order) THEN order ELSE Append(mid, id)
  <2>1. id \in S
    BY <1>2, LeastOf
  <2>2. Parents(id) \cap S \in SUBSET S /\ todo \ {id} \in SUBSET S
    OBVIOUS
  <2>3. mid \in Seq(S)
    BY <2>2
  <2>4. next \in Seq(S)
    <3> HIDE DEF mid, id
    <3> QED BY <2>1, <2>3
  <2>5. g[todo \ {id}][next] \in Seq(S)
    <3> HIDE DEF next, id
    <3> QED BY <2>2, <2>4
  <2> QED BY <1>2, <2>5 DEF Emits
<1> QED BY <1>1, <1>2

\* g and h agree on the calls that the visit of todo makes.
SameBelow(S, g, h, todo) == \A t \in SUBSET S : <<t, todo>> \in CallsOf(S) => g[t] = h[t]

LEMMA EmitsSame ==
  ASSUME NEW S, NEW g, NEW h, NEW todo \in SUBSET S, SameBelow(S, g, h, todo)
  PROVE  \A order \in Seq(S) : Emits(S, g, todo, order) = Emits(S, h, todo, order)
<1> TAKE order \in Seq(S)
<1>1. CASE todo = {}
  BY <1>1 DEF Emits
<1>2. CASE todo # {}
  <2> DEFINE id == Least(todo)
  <2>1. todo \ {id} \in SUBSET S /\ Parents(id) \cap S \in SUBSET S
    OBVIOUS
  <2>2. g[todo \ {id}] = h[todo \ {id}] /\ g[Parents(id) \cap S] = h[Parents(id) \cap S]
    BY <1>2, <2>1, VisitsAre DEF SameBelow
  <2> QED BY <1>2, <2>2 DEF Emits
<1> QED BY <1>1, <1>2

\* The recursion that defines topoOrder has a solution.
LEMMA DepthFirstIs ==
  ASSUME DagInv, NEW S \in SUBSET DOMAIN content
  PROVE  \E emit \in [SUBSET S -> [Seq(S) -> Seq(S)]] :
           /\ DepthFirst(S) = emit[S][<< >>]
           /\ \A todo \in SUBSET S : \A order \in Seq(S) :
                emit[todo][order] = Emits(S, emit, todo, order)
<1> DEFINE V == [Seq(S) -> Seq(S)]
           W == SUBSET S
           F == EmitOf(S)
<1>0. S \in SUBSET Nat
  BY KnownIds
<1>1. \A todo \in W : \A g \in [W -> V] :
        /\ F[todo][g] = [order \in Seq(S) |-> Emits(S, g, todo, order)]
        /\ F[todo][g] \in V
  <2> TAKE todo \in W
  <2> TAKE g \in [W -> V]
  <2>1. \A order \in Seq(S) : Emits(S, g, todo, order) \in Seq(S)
    BY <1>0, EmitsSeq
  <2>2. F[todo][g] = [order \in Seq(S) |-> Emits(S, g, todo, order)]
    BY DEF EmitOf
  <2> QED BY <2>1, <2>2
<1>2. F \in [W -> [[W -> V] -> V]]
  BY <1>1 DEF EmitOf
<1>3. \A todo \in W : \A g, h \in [W -> V] :
        (\A t \in W : <<t, todo>> \in CallsOf(S) => g[t] = h[t]) => F[todo][g] = F[todo][h]
  <2> TAKE todo \in W
  <2> TAKE g, h \in [W -> V]
  <2> HAVE \A t \in W : <<t, todo>> \in CallsOf(S) => g[t] = h[t]
  <2>0. SameBelow(S, g, h, todo)
    BY DEF SameBelow
  <2>1. \A order \in Seq(S) : Emits(S, g, todo, order) = Emits(S, h, todo, order)
    BY <2>0, EmitsSame
  <2>2. [order \in Seq(S) |-> Emits(S, g, todo, order)]
          = [order \in Seq(S) |-> Emits(S, h, todo, order)]
    BY <2>1
  <2>3. F[todo][g] = [order \in Seq(S) |-> Emits(S, g, todo, order)]
    BY <1>1
  <2>4. F[todo][h] = [order \in Seq(S) |-> Emits(S, h, todo, order)]
    BY <1>1
  <2> QED BY ONLY <2>2, <2>3, <2>4
<1>4. IsWellFoundedOn(CallsOf(S), W)
  BY VisitsWellFounded
<1>5. V # {}
  <2>1. [order \in Seq(S) |-> order] \in V
    OBVIOUS
  <2> QED BY <2>1
<1>6. Defines(F, W, CallsOf(S), V)
  BY ONLY <1>2, <1>3, <1>4, <1>5 DEF Defines
<1>7. PICK f \in [W -> V] : \A todo \in W : f[todo] = F[todo][f]
  <2> HIDE DEF F, V, W
  <2> QED BY <1>6, Recursion
<1>8. \A todo \in W : f[todo] = [order \in Seq(S) |-> Emits(S, f, todo, order)]
  BY <1>1, <1>7
<1> DEFINE Right(g) == g = [todo \in W |-> [order \in Seq(S) |-> Emits(S, g, todo, order)]]
           emit == CHOOSE g : Right(g)
<1>9. Right(f)
  BY <1>8
<1>10. Right(emit)
  <2> HIDE DEF Right
  <2> QED BY <1>9
<1>11. DepthFirst(S) = emit[S][<< >>]
  BY DEF DepthFirst, Emits
<1> HIDE DEF emit
<1>12. \A todo \in W : emit[todo] = [order \in Seq(S) |-> Emits(S, emit, todo, order)]
  BY <1>10
<1> DEFINE T == {todo \in W : emit[todo] # f[todo]}
<1>13. T = {}
  <2> SUFFICES ASSUME T # {} PROVE FALSE
    OBVIOUS
  <2>1. PICK x \in T : \A y \in T : <<y, x>> \notin CallsOf(S)
    <3>1. T \subseteq W
      OBVIOUS
    <3> HIDE DEF T, W
    <3> QED BY <1>4, <3>1, WFMin
  <2>2. SameBelow(S, emit, f, x)
    BY <2>1 DEF SameBelow
  <2>3. x \in W
    OBVIOUS
  <2>4. \A order \in Seq(S) : Emits(S, emit, x, order) = Emits(S, f, x, order)
    BY <2>2, <2>3, EmitsSame
  <2>5. [order \in Seq(S) |-> Emits(S, emit, x, order)]
          = [order \in Seq(S) |-> Emits(S, f, x, order)]
    BY <2>4
  <2>6. emit[x] = f[x]
    BY <1>8, <1>12, <2>3, <2>5
  <2> QED BY <2>6
<1>14. \A todo \in W : emit[todo] = f[todo]
  BY <1>13
<1>15. DepthFirst(S) = f[S][<< >>]
  BY <1>11, <1>14
<1>16. \A todo \in SUBSET S : \A order \in Seq(S) : f[todo][order] = Emits(S, f, todo, order)
  BY <1>8
<1> QED BY <1>15, <1>16

\* Each event once, and after its parents in S.
InOrder(S, order) ==
  /\ \A i, j \in DOMAIN order : order[i] = order[j] => i = j
  /\ \A i \in DOMAIN order : \A p \in Parents(order[i]) \cap S : \E j \in 1 .. (i - 1) : order[j] = p

MayFollow(S, order, id) == id \notin Range(order) /\ Parents(id) \cap S \subseteq Range(order)

LEMMA AppendInOrder ==
  ASSUME NEW S, NEW D \in SUBSET S, NEW order \in Seq(D), InOrder(S, order),
         NEW id \in D, MayFollow(S, order, id)
  PROVE  /\ Append(order, id) \in Seq(D) /\ InOrder(S, Append(order, id))
         /\ Range(Append(order, id)) = Range(order) \cup {id}
<1> DEFINE s == Append(order, id)
           n == Len(order)
<1>1. /\ s \in Seq(D) /\ n \in Nat /\ DOMAIN order = 1 .. n /\ DOMAIN s = 1 .. (n + 1)
      /\ \A i \in 1 .. n : s[i] = order[i]
      /\ s[n + 1] = id
  OBVIOUS
<1> HIDE DEF s, n
<1>2. \A i \in 1 .. (n + 1) : i \in 1 .. n \/ i = n + 1
  BY <1>1
<1>3. \A i \in 1 .. n : order[i] # id
  BY <1>1 DEF MayFollow, Range
<1>4. \A i, j \in DOMAIN s : s[i] = s[j] => i = j
  BY <1>1, <1>2, <1>3 DEF InOrder
<1>5. ASSUME NEW i \in DOMAIN s, NEW p \in Parents(s[i]) \cap S
      PROVE  \E j \in 1 .. (i - 1) : s[j] = p
  <2>1. CASE i \in 1 .. n
    <3>1. PICK j \in 1 .. (i - 1) : order[j] = p
      BY <1>1, <2>1 DEF InOrder
    <3> QED BY <1>1, <2>1, <3>1
  <2>2. CASE i = n + 1
    <3>1. PICK j \in 1 .. n : order[j] = p
      BY <1>1, <2>2 DEF MayFollow, Range
    <3> QED BY <1>1, <2>2, <3>1
  <2> QED BY <1>1, <1>2, <2>1, <2>2
<1>6. Range(s) = Range(order) \cup {id}
  BY <1>1, <1>2 DEF Range
<1> QED BY <1>1, <1>4, <1>5, <1>6 DEF InOrder, s

\* D has the parents in S of its events.
Closed(S, D) == \A id \in D : Parents(id) \cap S \subseteq D

\* The visit of todo appends it, and what it depends on, to any order that has begun well.
Visited(S, D, order, todo, out) ==
  /\ out \in Seq(D) /\ InOrder(S, out)
  /\ Range(order) \subseteq Range(out) /\ todo \subseteq Range(out)

EmitsWell(S, emit, todo) ==
  \A D \in SUBSET S : \A order \in Seq(D) :
    todo \subseteq D /\ Closed(S, D) /\ InOrder(S, order)
      => Visited(S, D, order, todo, emit[todo][order])

LEMMA RangeOf == \A D : \A s \in Seq(D) : Range(s) \subseteq D
  BY DEF Range

LEMMA EmitStep ==
  ASSUME DagInv, NEW S \in SUBSET DOMAIN content, NEW emit, NEW todo \in SUBSET S,
         \A order \in Seq(S) : emit[todo][order] = Emits(S, emit, todo, order),
         \A t \in SUBSET S : <<t, todo>> \in CallsOf(S) => EmitsWell(S, emit, t)
  PROVE  EmitsWell(S, emit, todo)
<1> SUFFICES ASSUME NEW D \in SUBSET S, NEW order \in Seq(D),
                    todo \subseteq D, Closed(S, D), InOrder(S, order)
             PROVE  Visited(S, D, order, todo, emit[todo][order])
  BY DEF EmitsWell
<1>0. order \in Seq(S)
  OBVIOUS
<1>1. CASE todo = {}
  BY <1>0, <1>1 DEF Emits, Visited
<1>2. CASE todo # {}
  <2> DEFINE id == Least(todo)
             above == Parents(id) \cap S
             rest == todo \ {id}
             mid == emit[above][order]
             next == IF id \in Range(order) THEN order ELSE Append(mid, id)
             out == emit[rest][next]
  <2>1. id \in todo
    BY <1>2, KnownIds, LeastOf
  <2>2. above \in SUBSET S /\ rest \in SUBSET S
    OBVIOUS
  <2>3. EmitsWell(S, emit, above) /\ EmitsWell(S, emit, rest)
    BY <1>2, <2>2, VisitsAre
  <2>4. emit[todo][order] = out
    BY <1>0, <1>2 DEF Emits
  <2>5. /\ next \in Seq(D) /\ InOrder(S, next)
        /\ Range(order) \subseteq Range(next) /\ id \in Range(next)
    <3>1. CASE id \in Range(order)
      BY <3>1
    <3>2. CASE id \notin Range(order)
      <4> DEFINE E == D \cap (Range(order) \cup Ancestors[id])
      <4>1. Range(order) \subseteq D
        BY RangeOf
      <4>2. E \in SUBSET S /\ id \notin E
        BY <2>1, <3>2, AncestorsIrreflexive
      <4>3. order \in Seq(E)
        <5>1. Range(order) \subseteq E
          BY <4>1
        <5> HIDE DEF E
        <5> QED BY <5>1 DEF Range
      <4>4. above \subseteq E
        BY <2>1, AncestorsOf DEF Closed
      <4>5. Closed(S, E)
        <5> SUFFICES ASSUME NEW x \in E, NEW p \in Parents(x) \cap S PROVE p \in E
          BY DEF Closed
        <5>1. p \in D
          BY DEF Closed
        <5>2. CASE x \in Range(order)
          <6>1. PICK i \in DOMAIN order : order[i] = x
            BY <5>2 DEF Range
          <6>2. PICK j \in 1 .. (i - 1) : order[j] = p
            BY <6>1 DEF InOrder
          <6>3. j \in DOMAIN order
            BY <6>2
          <6>4. p \in Range(order)
            BY <6>2, <6>3 DEF Range
          <6> QED BY <5>1, <6>4
        <5>3. CASE x \in Ancestors[id]
          <6>1. p \in Ancestors[x]
            BY AncestorsOf
          <6>2. p \in Ancestors[id]
            BY <2>1, <5>3, <6>1, AncestorsTransitive
          <6> QED BY <5>1, <6>2
        <5> QED BY <5>2, <5>3
      <4>6. Visited(S, E, order, above, mid)
        <5> HIDE DEF E, above, mid
        <5> QED BY <2>3, <4>2, <4>3, <4>4, <4>5 DEF EmitsWell, mid
      <4> HIDE DEF mid, id
      <4>7. mid \in Seq(E) /\ InOrder(S, mid) /\ above \subseteq Range(mid) /\ Range(order) \subseteq Range(mid)
        BY <4>6 DEF Visited
      <4>8. id \notin Range(mid)
        <5> HIDE DEF E
        <5> QED BY <4>2, <4>7, RangeOf
      <4>9. mid \in Seq(D)
        BY <4>7
      <4>10. /\ Append(mid, id) \in Seq(D) /\ InOrder(S, Append(mid, id))
             /\ Range(Append(mid, id)) = Range(mid) \cup {id}
        <5>1. id \in D /\ InOrder(S, mid) /\ MayFollow(S, mid, id)
          BY <2>1, <4>7, <4>8 DEF MayFollow
        <5> QED BY ONLY D \in SUBSET S, <4>9, <5>1, AppendInOrder
      <4> QED BY <3>2, <4>7, <4>10
    <3> QED BY <3>1, <3>2
  <2>6. Visited(S, D, next, rest, out)
    <3>1. rest \subseteq D
      OBVIOUS
    <3> HIDE DEF next, rest, out
    <3> QED BY <2>3, <2>5, <3>1 DEF EmitsWell, out
  <2>7. todo \subseteq rest \cup {id}
    OBVIOUS
  <2>8. Visited(S, D, order, todo, out)
    <3> HIDE DEF next, rest, out, id
    <3> QED BY <2>5, <2>6, <2>7 DEF Visited
  <2> QED BY <2>4, <2>8
<1> QED BY <1>1, <1>2

\* The order of a set of events: each once, its parents first.
LEMMA DepthFirstInOrder ==
  ASSUME DagInv, NEW S \in SUBSET DOMAIN content
  PROVE  /\ DepthFirst(S) \in Seq(S) /\ InOrder(S, DepthFirst(S))
         /\ Range(DepthFirst(S)) = S
<1>1. PICK emit \in [SUBSET S -> [Seq(S) -> Seq(S)]] :
        /\ DepthFirst(S) = emit[S][<< >>]
        /\ \A todo \in SUBSET S : \A order \in Seq(S) :
             emit[todo][order] = Emits(S, emit, todo, order)
  BY DepthFirstIs
<1> DEFINE T == {todo \in SUBSET S : ~EmitsWell(S, emit, todo)}
<1>2. T = {}
  <2> SUFFICES ASSUME T # {} PROVE FALSE
    OBVIOUS
  <2>1. PICK x \in T : \A y \in T : <<y, x>> \notin CallsOf(S)
    <3>1. T \subseteq SUBSET S
      OBVIOUS
    <3>2. IsWellFoundedOn(CallsOf(S), SUBSET S)
      BY VisitsWellFounded
    <3> HIDE DEF T
    <3> QED BY <3>1, <3>2, WFMin
  <2>2. \A t \in SUBSET S : <<t, x>> \in CallsOf(S) => EmitsWell(S, emit, t)
    BY <2>1
  <2>3. x \in SUBSET S /\ \A order \in Seq(S) : emit[x][order] = Emits(S, emit, x, order)
    BY <1>1
  <2>4. EmitsWell(S, emit, x)
    BY <2>2, <2>3, EmitStep
  <2> QED BY <2>4
<1>3. EmitsWell(S, emit, S)
  BY <1>2
<1>4. << >> \in Seq(S) /\ Closed(S, S) /\ InOrder(S, << >>)
  BY DEF Closed, InOrder
<1>5. Visited(S, S, << >>, S, DepthFirst(S))
  BY <1>1, <1>3, <1>4 DEF EmitsWell
<1>6. Range(DepthFirst(S)) \subseteq S
  BY <1>5, RangeOf DEF Visited
<1> QED BY <1>5, <1>6 DEF Visited

\* The same, of what a replica knows.
LEMMA TopoOrderInOrder ==
  ASSUME DagInv, NEW r \in Replicas
  PROVE  LET order == TopoOrder(r)
             n == Len(order)
         IN  /\ order \in [1 .. n -> dag[r]] /\ n \in Nat
             /\ \A id \in dag[r] : \E i \in 1 .. n : order[i] = id
             /\ \A i, j \in 1 .. n : order[i] = order[j] => i = j
             /\ \A i \in 1 .. n : \A p \in Parents(order[i]) : \E j \in 1 .. (i - 1) : order[j] = p
<1>1. dag[r] \in SUBSET DOMAIN content /\ \A id \in dag[r] : Parents(id) \subseteq dag[r]
  BY DEF DagInv
<1> DEFINE order == TopoOrder(r)
<1>2. order \in Seq(dag[r]) /\ InOrder(dag[r], order) /\ Range(order) = dag[r]
  BY <1>1, DepthFirstInOrder DEF TopoOrder
<1>3. Len(order) \in Nat /\ order \in [1 .. Len(order) -> dag[r]] /\ DOMAIN order = 1 .. Len(order)
  BY <1>2
<1> HIDE DEF order
<1>4. \A i \in 1 .. Len(order) : Parents(order[i]) \subseteq dag[r]
  BY <1>1, <1>3
<1>5. /\ \A id \in dag[r] : \E i \in 1 .. Len(order) : order[i] = id
      /\ \A i, j \in 1 .. Len(order) : order[i] = order[j] => i = j
      /\ \A i \in 1 .. Len(order) : \A p \in Parents(order[i]) : \E j \in 1 .. (i - 1) : order[j] = p
  BY <1>2, <1>3, <1>4 DEF InOrder, Range
<1> QED BY <1>3, <1>5 DEF order

(* topoOrder() lists each known event once, parents before children: this  *)
(* follows from the parent check of addEvent() and the union of merge().   *)
THEOREM TopoOrderCausal == DagInv => TopoOrderIsCausal
<1> SUFFICES ASSUME DagInv, NEW r \in Replicas
             PROVE  LET order == TopoOrder(r)
                    IN  /\ Len(order) = Cardinality(dag[r]) /\ Range(order) = dag[r]
                        /\ \A i \in DOMAIN order :
                             Parents(order[i]) \subseteq Range(SubSeq(order, 1, i - 1))
  BY DEF TopoOrderIsCausal
<1> DEFINE order == TopoOrder(r)
           n == Len(order)
<1>1. /\ order \in [1 .. n -> dag[r]] /\ n \in Nat
      /\ \A id \in dag[r] : \E i \in 1 .. n : order[i] = id
      /\ \A i, j \in 1 .. n : order[i] = order[j] => i = j
      /\ \A i \in 1 .. n : \A p \in Parents(order[i]) : \E j \in 1 .. (i - 1) : order[j] = p
  BY TopoOrderInOrder
<1> HIDE DEF order, n
<1>2. n = Cardinality(dag[r])
  <2>1. order \in Bijection(1 .. n, dag[r])
    BY <1>1 DEF Bijection, Injection, Surjection, IsInjective
  <2>2. ExistsBijection(1 .. n, dag[r])
    BY <2>1 DEF ExistsBijection
  <2> QED BY <1>1, <2>2, FS_CountingElements
<1>3. Range(order) = dag[r]
  BY <1>1 DEF Range
<1>4. ASSUME NEW i \in DOMAIN order, NEW p \in Parents(order[i])
      PROVE  p \in Range(SubSeq(order, 1, i - 1))
  <2>1. i \in 1 .. n
    BY <1>1
  <2>2. PICK j \in 1 .. (i - 1) : order[j] = p
    BY <1>1, <2>1
  <2>3. order \in Seq(dag[r]) /\ Len(order) = n
    BY <1>1 DEF n
  <2>4. DOMAIN SubSeq(order, 1, i - 1) = 1 .. (i - 1) /\ SubSeq(order, 1, i - 1)[j] = order[j]
    BY <1>1, <2>1, <2>2, <2>3
  <2> QED BY <2>2, <2>4 DEF Range
<1> QED BY <1>2, <1>3, <1>4 DEF order, n

\* The ancestors of an event come before it in the order.
LEMMA AncestorsEarlier ==
  ASSUME DagInv, NEW r \in Replicas, NEW i \in 1 .. Len(TopoOrder(r))
  PROVE  \A a \in Ancestors[TopoOrder(r)[i]] : \E j \in 1 .. (i - 1) : TopoOrder(r)[j] = a
<1> DEFINE order == TopoOrder(r)
           n == Len(order)
           D == {order[j] : j \in 1 .. i}
<1>1. /\ order \in [1 .. n -> dag[r]] /\ n \in Nat
      /\ \A k \in 1 .. n : \A p \in Parents(order[k]) : \E j \in 1 .. (k - 1) : order[j] = p
  BY TopoOrderInOrder
<1>2. dag[r] \in SUBSET DOMAIN content
  BY DEF DagInv
<1> HIDE DEF order, n
<1>3. D \in SUBSET DOMAIN content /\ order[i] \in D
  BY <1>1, <1>2 DEF n, order
<1>4. \A id \in D : Parents(id) \subseteq D
  <2> SUFFICES ASSUME NEW k \in 1 .. i, NEW p \in Parents(order[k]) PROVE p \in D
    OBVIOUS
  <2>1. k \in 1 .. n
    BY <1>1 DEF n, order
  <2>2. PICK j \in 1 .. (k - 1) : order[j] = p
    BY <1>1, <2>1
  <2> QED BY <1>1, <2>2 DEF n, order
<1>5. Ancestors[order[i]] \subseteq D /\ order[i] \notin Ancestors[order[i]]
  BY <1>3, <1>4, ClosedAbove, AncestorsIrreflexive
<1>6. ASSUME NEW a \in Ancestors[order[i]] PROVE \E j \in 1 .. (i - 1) : order[j] = a
  <2>1. PICK j \in 1 .. i : order[j] = a
    BY <1>5
  <2>2. j # i
    BY <1>5, <2>1
  <2> QED BY <1>1, <2>1, <2>2
<1> QED BY <1>6 DEF order

LEMMA AncestorsSame == content' = content => Ancestors' = Ancestors
  BY DEF Ancestors, Parents

\* Events, and what is above them.
Under(ids) == ids \cup UNION {Ancestors[p] : p \in ids}

LEMMA AncestorsUnder == DagInv => \A id \in DOMAIN content : Ancestors[id] = Under(Parents(id))
  BY AncestorsAre DEF Under

LEMMA AncestorsUnderNext == DagInv' => (\A id \in DOMAIN content : Ancestors[id] = Under(Parents(id)))'
  BY AncestorsUnder, PTL

=============================================================================
