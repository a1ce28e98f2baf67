--------------------------- MODULE RecursionProofs ---------------------------
(***************************************************************************)
(* Induction over numbers, recursion along a relation with no infinite     *)
(* descent, and sums over finite sets: what proofs about the functions     *)
(* that the specifications define by recursion, and about folds, rest on.  *)
(***************************************************************************)
EXTENDS Integers, FiniteSets, Functions, SequencesExt, TLAPS,
        FiniteSetTheorems, SequenceTheorems, WellFoundedInduction

-----------------------------------------------------------------------------
(* Induction                                                               *)

\* A set of numbers has a least element.
LEMMA LeastNat ==
  ASSUME NEW S \in SUBSET Nat, S # {}
  PROVE  \E n \in S : \A m \in S : n <= m
<1> DEFINE R == {p \in Nat \X Nat : p[1] < p[2]}
<1>1. IsWellFoundedOn(R, Nat)
  BY NatLessThanWellFounded DEF OpToRel
<1> HIDE DEF R
<1>2. PICK n \in S : \A m \in S : <<m, n>> \notin R
  BY <1>1, WFMin
<1>3. ASSUME NEW m \in S PROVE n <= m
  <2>1. <<m, n>> \in Nat \X Nat
    OBVIOUS
  <2>2. ~ (m < n)
    BY <1>2, <2>1 DEF R
  <2> QED BY <2>2
<1> QED BY <1>3

\* Induction, up to a bound: what holds of 0, and of n + 1 if of n, holds of all.
LEMMA Induction ==
  ASSUME NEW n \in Nat, NEW S, 0 \in S, \A i \in 0 .. (n - 1) : i \in S => i + 1 \in S
  PROVE  0 .. n \subseteq S
<1> SUFFICES ASSUME (0 .. n) \ S # {} PROVE FALSE
  OBVIOUS
<1>1. (0 .. n) \ S \subseteq Nat
  OBVIOUS
<1>2. PICK i \in (0 .. n) \ S : \A j \in (0 .. n) \ S : i <= j
  BY <1>1, LeastNat
<1>3. i # 0 /\ i - 1 \in 0 .. (n - 1)
  OBVIOUS
<1>4. i - 1 \in S
  BY <1>2, <1>3
<1>5. (i - 1) + 1 \in S
  BY <1>3, <1>4
<1> QED BY <1>3, <1>5

\* What a fold keeps at each step holds of all its values.
LEMMA FoldKeeps ==
  ASSUME NEW n \in Nat, NEW V, NEW f, f[0] \in V, \A i \in 1 .. n : f[i - 1] \in V => f[i] \in V
  PROVE  \A i \in 0 .. n : f[i] \in V
<1> DEFINE S == {i \in 0 .. n : f[i] \in V}
<1>1. 0 \in S
  OBVIOUS
<1>2. ASSUME NEW i \in 0 .. (n - 1), i \in S PROVE i + 1 \in S
  <2>1. i + 1 \in 1 .. n /\ (i + 1) - 1 = i
    OBVIOUS
  <2>2. f[i] \in V
    BY <1>2
  <2>3. f[i + 1] \in V
    BY <2>1, <2>2
  <2> QED BY <2>1, <2>3
<1>3. 0 .. n \subseteq S
  <2> HIDE DEF S
  <2> QED BY <1>1, <1>2, Induction
<1> QED BY <1>3

\* A finite set of numbers has a greatest one.
LEMMA MaxOf ==
  ASSUME NEW S \in SUBSET Nat, IsFiniteSet(S), S # {}
  PROVE  Max(S) \in S /\ \A x \in S : x <= Max(S)
<1> DEFINE Topped(U) == \E m \in U : \A x \in U : x <= m
           T == {n \in 0 .. Cardinality(S) :
                   \A U \in SUBSET S : Cardinality(U) = n /\ U # {} => Topped(U)}
<1>1. Cardinality(S) \in Nat
  BY FS_CardinalityType
<1>2. 0 \in T
  <2>1. ASSUME NEW U \in SUBSET S, Cardinality(U) = 0 PROVE U = {}
    BY <2>1, FS_Subset, FS_EmptySet
  <2> HIDE DEF Topped
  <2>2. 0 \in 0 .. Cardinality(S)
    BY <1>1
  <2> QED BY <2>1, <2>2
<1>3. ASSUME NEW i \in 0 .. (Cardinality(S) - 1), i \in T PROVE i + 1 \in T
  <2>1. i + 1 \in 0 .. Cardinality(S)
    BY <1>1
  <2>2. ASSUME NEW U \in SUBSET S, Cardinality(U) = i + 1, U # {} PROVE Topped(U)
    <3>1. PICK u \in U : TRUE
      BY <2>2
    <3> DEFINE W == U \ {u}
    <3>2. IsFiniteSet(U) /\ u \in Nat
      BY FS_Subset
    <3>3. Cardinality(W) = i
      <4>1. Cardinality(W) = Cardinality(U) - 1
        BY <3>2, FS_RemoveElement
      <4> QED BY <2>2, <4>1
    <3>4. CASE W = {}
      BY <3>1, <3>2, <3>4
    <3>5. CASE W # {}
      <4>1. PICK m \in W : \A x \in W : x <= m
        BY <1>3, <3>3, <3>5
      <4>2. m \in Nat /\ m \in U
        OBVIOUS
      <4>3. CASE u <= m
        BY <4>1, <4>2, <4>3
      <4>4. CASE ~(u <= m)
        <5>1. \A x \in U : x <= u
          BY <3>2, <4>1, <4>2, <4>4
        <5> QED BY <3>1, <5>1
      <4> QED BY <4>3, <4>4
    <3> QED BY <3>4, <3>5
  <2> HIDE DEF Topped
  <2> QED BY <2>1, <2>2
<1>4. 0 .. Cardinality(S) \subseteq T
  <2> HIDE DEF T
  <2> QED BY <1>1, <1>2, <1>3, Induction
<1>5. Topped(S)
  BY <1>1, <1>4
<1>6. PICK m \in S : \A x \in S : m >= x
  BY <1>5
<1> QED BY <1>6 DEF Max

\* The steps of a fold of n values in V, one for each.
Steps(st, n, V) == \A i \in 1 .. n : \A x \in V : st[i][x] \in V

LEMMA FoldExists ==
  ASSUME NEW n \in Nat, NEW V, NEW v \in V, NEW st, Steps(st, n, V)
  PROVE  \E f \in [0 .. n -> V] : f[0] = v /\ \A i \in 1 .. n : f[i] = st[i][f[i - 1]]
<1> DEFINE Solved(k, f) == f \in [0 .. k -> V] /\ f[0] = v /\ \A i \in 1 .. k : f[i] = st[i][f[i - 1]]
           S == {k \in 0 .. n : \E f : Solved(k, f)}
<1>1. 0 \in S
  <2>1. Solved(0, [i \in 0 .. 0 |-> v])
    OBVIOUS
  <2> HIDE DEF Solved
  <2> QED BY <2>1
<1>2. ASSUME NEW k \in 0 .. (n - 1), k \in S PROVE k + 1 \in S
  <2>1. PICK f : Solved(k, f)
    BY <1>2
  <2> DEFINE g == [i \in 0 .. (k + 1) |-> IF i = k + 1 THEN st[k + 1][f[k]] ELSE f[i]]
  <2>2. k + 1 \in 1 .. n /\ k \in 0 .. k
    OBVIOUS
  <2>3. st[k + 1][f[k]] \in V
    BY <2>1, <2>2 DEF Steps
  <2>4. g \in [0 .. (k + 1) -> V]
    BY <2>1, <2>3
  <2>5. g[0] = v
    BY <2>1
  <2>6. ASSUME NEW i \in 1 .. (k + 1) PROVE g[i] = st[i][g[i - 1]]
    <3>1. CASE i = k + 1
      BY <3>1
    <3>2. CASE i \in 1 .. k
      <4>1. g[i] = f[i] /\ g[i - 1] = f[i - 1]
        BY <3>2
      <4> QED BY <2>1, <3>2, <4>1
    <3> QED BY <3>1, <3>2
  <2>7. Solved(k + 1, g)
    BY <2>4, <2>5, <2>6
  <2> HIDE DEF Solved, g
  <2> QED BY <2>2, <2>7
<1>3. 0 .. n \subseteq S
  <2> HIDE DEF S
  <2> QED BY <1>1, <1>2, Induction
<1> QED BY <1>3

\* g[x] is what F makes of g, for each x in D; and D has all that is before them.
Solves(F, S, R, g, D) ==
  /\ D \subseteq S
  /\ \A x \in D : \A y \in S : <<y, x>> \in R => y \in D
  /\ \A x \in D : g[x] = F[x][g]

(* F says what a function on S with values in V is at x from what it is at *)
(* what R puts before x.                                                   *)
Defines(F, S, R, V) ==
  /\ IsWellFoundedOn(R, S)
  /\ V # {}
  /\ F \in [S -> [[S -> V] -> V]]
  /\ \A x \in S : \A g, h \in [S -> V] :
       (\A y \in S : <<y, x>> \in R => g[y] = h[y]) => F[x][g] = F[x][h]

\* Recursion: such a function exists.
LEMMA Recursion ==
  ASSUME NEW S, NEW R, NEW V, NEW F, Defines(F, S, R, V)
  PROVE  \E f \in [S -> V] : \A x \in S : f[x] = F[x][f]
<1>a. /\ IsWellFoundedOn(R, S)
      /\ V # {}
      /\ F \in [S -> [[S -> V] -> V]]
  BY DEF Defines
<1>b. \A x \in S : \A g, h \in [S -> V] :
        (\A y \in S : <<y, x>> \in R => g[y] = h[y]) => F[x][g] = F[x][h]
  BY DEF Defines
<1> DEFINE At(x) == CHOOSE g \in [S -> V] : \E D \in SUBSET S : x \in D /\ Solves(F, S, R, g, D)
           U == {x \in S : \E g \in [S -> V] : \E D \in SUBSET S : x \in D /\ Solves(F, S, R, g, D)}
           v == CHOOSE w : w \in V
           f == [x \in S |-> IF x \in U THEN At(x)[x] ELSE v]
<1>1. \A g, h \in [S -> V] : \A D, E \in SUBSET S :
        Solves(F, S, R, g, D) /\ Solves(F, S, R, h, E) => \A x \in D \cap E : g[x] = h[x]
  <2> TAKE g, h \in [S -> V]
  <2> TAKE D, E \in SUBSET S
  <2> HAVE Solves(F, S, R, g, D) /\ Solves(F, S, R, h, E)
  <2> DEFINE T == {x \in D \cap E : g[x] # h[x]}
  <2> SUFFICES ASSUME T # {} PROVE FALSE
    OBVIOUS
  <2>1. T \subseteq S
    OBVIOUS
  <2>2. PICK x \in T : \A y \in T : <<y, x>> \notin R
    <3> HIDE DEF T
    <3> QED BY <1>a, <2>1, WFMin
  <2>3. \A y \in S : <<y, x>> \in R => g[y] = h[y]
    BY <2>2 DEF Solves
  <2>4. F[x][g] = F[x][h]
    BY <1>b, <2>1, <2>3
  <2> QED BY <2>4 DEF Solves
<1>2. ASSUME NEW x \in U
      PROVE  At(x) \in [S -> V] /\ \E D \in SUBSET S : x \in D /\ Solves(F, S, R, At(x), D)
  BY <1>2
<1> HIDE DEF At
<1>3. v \in V
  BY <1>a
<1> HIDE DEF v
<1>4. f \in [S -> V]
  BY <1>2, <1>3
<1>5. ASSUME NEW g \in [S -> V], NEW D \in SUBSET S, Solves(F, S, R, g, D)
      PROVE  \A x \in D : x \in U /\ f[x] = g[x]
  <2> SUFFICES ASSUME NEW x \in D PROVE x \in U /\ f[x] = g[x]
    OBVIOUS
  <2>1. x \in U
    BY <1>5
  <2>2. PICK h \in [S -> V] : h = At(x) /\ \E E \in SUBSET S : x \in E /\ Solves(F, S, R, h, E)
    BY <1>2, <2>1
  <2>3. g[x] = h[x]
    <3> HIDE DEF U, f
    <3>1. PICK E \in SUBSET S : x \in E /\ Solves(F, S, R, h, E)
      BY <2>2
    <3>2. x \in D \cap E
      BY <3>1
    <3>3. g \in [S -> V] /\ h \in [S -> V] /\ D \in SUBSET S /\ E \in SUBSET S
      OBVIOUS
    <3> QED BY ONLY <1>1, <1>5, <3>1, <3>2, <3>3
  <2> HIDE DEF U
  <2> QED BY <2>1, <2>2, <2>3
<1>6. Solves(F, S, R, f, U)
  <2> SUFFICES ASSUME NEW x \in U
               PROVE  /\ \A y \in S : <<y, x>> \in R => y \in U
                      /\ f[x] = F[x][f]
    BY DEF U, Solves
  <2>1. PICK D \in SUBSET S : x \in D /\ Solves(F, S, R, At(x), D)
    BY <1>2
  <2>2. \A y \in D : y \in U /\ f[y] = At(x)[y]
    <3> HIDE DEF U, f
    <3> QED BY <1>2, <1>5, <2>1
  <2>3. \A y \in S : <<y, x>> \in R => y \in D
    BY <2>1 DEF Solves
  <2>4. F[x][f] = F[x][At(x)]
    <3> HIDE DEF U, f
    <3> QED BY <1>b, <1>2, <1>4, <2>1, <2>2, <2>3
  <2> HIDE DEF U, f
  <2> QED BY <2>1, <2>2, <2>3, <2>4 DEF Solves
<1>7. U = S
  <2> SUFFICES ASSUME S \ U # {} PROVE FALSE
    BY DEF U
  <2> HIDE DEF f, U
  <2>1. PICK x \in S \ U : \A y \in S \ U : <<y, x>> \notin R
    BY <1>a, WFMin
  <2> DEFINE g == [f EXCEPT ![x] = F[x][f]]
             D == U \cup {x}
  <2>2. g \in [S -> V] /\ \A y \in U : g[y] = f[y]
    BY <1>a, <1>4
  <2>3. U \subseteq S
    BY DEF U
  <2>4. \A y \in S : <<y, x>> \in R => y \in U /\ y # x
    BY <2>1
  <2>5. \A z \in D : \A y \in S : <<y, z>> \in R => y \in D
    BY <1>6, <2>4 DEF Solves
  <2>6. ASSUME NEW z \in D PROVE g[z] = F[z][g]
    <3>1. \A y \in S : <<y, z>> \in R => y \in U
      BY <1>6, <2>4 DEF Solves
    <3>2. F[z][g] = F[z][f]
      <4>1. \A y \in S : <<y, z>> \in R => g[y] = f[y]
        BY <2>2, <3>1
      <4> HIDE DEF g
      <4> QED BY <1>b, <1>4, <2>2, <2>3, <4>1
    <3>3. CASE z = x
      BY <1>4, <3>2, <3>3
    <3>4. CASE z \in U
      BY <1>6, <2>2, <3>2, <3>4 DEF Solves
    <3> QED BY <3>3, <3>4
  <2>7. Solves(F, S, R, g, D)
    BY <2>3, <2>5, <2>6 DEF Solves
  <2> QED
    <3> HIDE DEF g
    <3>1. D \in SUBSET S /\ x \in D
      BY <2>3
    <3> HIDE DEF D
    <3> QED BY <1>5, <2>1, <2>2, <2>7, <3>1
<1> QED
  <2> HIDE DEF f, U
  <2>1. \A x \in S : f[x] = F[x][f]
    BY <1>6, <1>7 DEF Solves
  <2> QED BY <1>4, <2>1
-----------------------------------------------------------------------------
(* Sums                                                                    *)

\* The member of a set that a sum takes next, and the relation of a set to what is left.
AnyOf(t) == CHOOSE x \in t : TRUE

Rest(S) == {p \in (SUBSET S) \X (SUBSET S) : p[2] # {} /\ p[1] = p[2] \ {AnyOf(p[2])}}

LEMMA RestIs ==
  \A S : \A t, u \in SUBSET S : <<u, t>> \in Rest(S) <=> t # {} /\ u = t \ {AnyOf(t)}
<1> TAKE S
<1> DEFINE P == SUBSET S
           C(u, t) == t # {} /\ u = t \ {AnyOf(t)}
<1>1. Rest(S) = {p \in P \X P : C(p[1], p[2])}
  BY DEF Rest
<1> HIDE DEF P, C
<1>2. \A t, u \in P : <<u, t>> \in Rest(S) <=> C(u, t)
  BY <1>1
<1> QED BY <1>2 DEF P, C

LEMMA RestWellFounded == ASSUME NEW S, IsFiniteSet(S) PROVE IsWellFoundedOn(Rest(S), SUBSET S)
<1> SUFFICES ASSUME NEW T \in SUBSET (SUBSET S), T # {},
                    \A t \in T : \E u \in T : <<u, t>> \in Rest(S)
             PROVE  FALSE
  BY MinWF
<1>1. \A t \in T : IsFiniteSet(t) /\ Cardinality(t) \in Nat
  BY FS_Subset, FS_CardinalityType
<1> DEFINE N == {Cardinality(t) : t \in T}
<1>2. N \in SUBSET Nat /\ N # {}
  BY <1>1
<1>3. PICK n \in N : \A m \in N : n <= m
  <2> HIDE DEF N
  <2> QED BY <1>2, LeastNat
<1>4. PICK t \in T : n = Cardinality(t)
  BY <1>3
<1>5. PICK u \in T : <<u, t>> \in Rest(S)
  OBVIOUS
<1>6. t # {} /\ u = t \ {AnyOf(t)}
  <2>1. t \in SUBSET S /\ u \in SUBSET S
    OBVIOUS
  <2> QED BY ONLY <1>5, <2>1, RestIs
<1>7. AnyOf(t) \in t
  BY <1>6 DEF AnyOf
<1>8. Cardinality(u) = Cardinality(t) - 1
  BY <1>1, <1>6, <1>7, FS_RemoveElement
<1> QED BY <1>1, <1>3, <1>4, <1>8

\* Numbers to be added, a finite number of them.
Addable(f, S) == IsFiniteSet(S) /\ \A x \in S : f[x] \in Int

\* The sum over t, given those over smaller sets.
PartialSum(f, g, t) == IF t = {} THEN 0 ELSE f[AnyOf(t)] + g[t \ {AnyOf(t)}]

\* The sums of a function over a set and all its subsets.
Sums(S, f, s) ==
  /\ s \in [SUBSET S -> Int]
  /\ SumFunctionOnSet(f, S) = s[S]
  /\ \A t \in SUBSET S : s[t] = PartialSum(f, s, t)

LEMMA SumIs == ASSUME NEW S, NEW f, Addable(f, S) PROVE \E s : Sums(S, f, s)
<1> DEFINE W == SUBSET S
           F == [t \in W |-> [g \in [W -> Int] |-> PartialSum(f, g, t)]]
<1>1. \A t \in W : \A g \in [W -> Int] : PartialSum(f, g, t) \in Int /\ F[t][g] = PartialSum(f, g, t)
  <2> TAKE t \in W
  <2> TAKE g \in [W -> Int]
  <2>1. t # {} => AnyOf(t) \in S /\ t \ {AnyOf(t)} \in W
    BY DEF AnyOf
  <2> QED BY <2>1 DEF PartialSum, Addable
<1>2. F \in [W -> [[W -> Int] -> Int]]
  BY <1>1
<1>3. \A t \in W : \A g, h \in [W -> Int] :
        (\A u \in W : <<u, t>> \in Rest(S) => g[u] = h[u]) => F[t][g] = F[t][h]
  <2> TAKE t \in W
  <2> TAKE g, h \in [W -> Int]
  <2> HAVE \A u \in W : <<u, t>> \in Rest(S) => g[u] = h[u]
  <2>1. t # {} => t \ {AnyOf(t)} \in W /\ <<t \ {AnyOf(t)}, t>> \in Rest(S)
    BY RestIs
  <2>2. t # {} => g[t \ {AnyOf(t)}] = h[t \ {AnyOf(t)}]
    BY <2>1
  <2>3. PartialSum(f, g, t) = PartialSum(f, h, t)
    BY <2>2 DEF PartialSum
  <2> QED BY <1>1, <2>3
<1>4. IsWellFoundedOn(Rest(S), W)
  BY RestWellFounded DEF Addable
<1>5. Defines(F, W, Rest(S), Int)
  BY ONLY <1>2, <1>3, <1>4, 0 \in Int DEF Defines
<1>6. PICK s \in [W -> Int] : \A t \in W : s[t] = F[t][s]
  <2> HIDE DEF F, W
  <2> QED BY <1>5, Recursion
<1>7. \A t \in W : s[t] = PartialSum(f, s, t)
  BY <1>1, <1>6
<1> DEFINE Right(g) == g = [t \in W |-> PartialSum(f, g, t)]
           iter == CHOOSE g : Right(g)
<1>8. Right(s)
  BY <1>7
<1>9. Right(iter)
  <2> HIDE DEF Right
  <2> QED BY <1>8
<1>10. SumFunctionOnSet(f, S) = iter[S]
  BY DEF SumFunctionOnSet, FoldFunctionOnSet, MapThenFoldSet, PartialSum, AnyOf
<1> HIDE DEF iter
<1>11. \A t \in W : iter[t] = PartialSum(f, iter, t)
  BY <1>9
<1> DEFINE T == {t \in W : iter[t] # s[t]}
<1>12. T = {}
  <2> SUFFICES ASSUME T # {} PROVE FALSE
    OBVIOUS
  <2>1. PICK x \in T : \A y \in T : <<y, x>> \notin Rest(S)
    <3>1. T \subseteq W
      OBVIOUS
    <3> HIDE DEF T, W
    <3> QED BY <1>4, <3>1, WFMin
  <2>2. x # {} => x \ {AnyOf(x)} \in W /\ <<x \ {AnyOf(x)}, x>> \in Rest(S)
    BY RestIs
  <2>3. x # {} => iter[x \ {AnyOf(x)}] = s[x \ {AnyOf(x)}]
    BY <2>1, <2>2
  <2>4. PartialSum(f, iter, x) = PartialSum(f, s, x)
    BY <2>3 DEF PartialSum
  <2> QED BY <1>7, <1>11, <2>4
<1>13. iter[S] = s[S]
  BY <1>12
<1>14. Sums(S, f, s)
  BY <1>7, <1>10, <1>13 DEF Sums
<1> QED BY <1>14

LEMMA SumEmpty == \A f : SumFunctionOnSet(f, {}) = 0
<1> TAKE f
<1>1. Addable(f, {})
  BY FS_EmptySet DEF Addable
<1>2. PICK s : Sums({}, f, s)
  BY ONLY <1>1, SumIs
<1> QED BY <1>2 DEF PartialSum, Sums

\* The sum over a set takes one member, and then sums over what is left.
LEMMA SumTakes ==
  ASSUME NEW S, NEW f, Addable(f, S), S # {}
  PROVE  SumFunctionOnSet(f, S) = f[AnyOf(S)] + SumFunctionOnSet(f, S \ {AnyOf(S)})
<1> DEFINE T == S \ {AnyOf(S)}
<1>0. PICK s : Sums(S, f, s)
  BY SumIs
<1>1. /\ s \in [SUBSET S -> Int]
      /\ SumFunctionOnSet(f, S) = s[S]
      /\ \A t \in SUBSET S : s[t] = PartialSum(f, s, t)
  BY <1>0 DEF Sums
<1>2. Addable(f, T)
  BY FS_Subset DEF Addable
<1>a. PICK u : Sums(T, f, u)
  <2> HIDE DEF T
  <2> QED BY <1>2, SumIs
<1>3. /\ u \in [SUBSET T -> Int]
      /\ SumFunctionOnSet(f, T) = u[T]
      /\ \A t \in SUBSET T : u[t] = PartialSum(f, u, t)
  BY <1>a DEF Sums
<1> DEFINE D == {t \in SUBSET T : s[t] # u[t]}
<1>4. D = {}
  <2> SUFFICES ASSUME D # {} PROVE FALSE
    OBVIOUS
  <2>1. PICK x \in D : \A y \in D : <<y, x>> \notin Rest(T)
    <3>1. D \subseteq SUBSET T
      OBVIOUS
    <3>2. IsWellFoundedOn(Rest(T), SUBSET T)
      BY <1>2, RestWellFounded DEF Addable
    <3> HIDE DEF T, D
    <3> QED BY ONLY <3>1, <3>2, D # {}, WFMin
  <2>2. x \in SUBSET T /\ x \in SUBSET S
    OBVIOUS
  <2>3. x # {} => x \ {AnyOf(x)} \in SUBSET T /\ <<x \ {AnyOf(x)}, x>> \in Rest(T)
    <3> HIDE DEF T, D
    <3> QED BY <2>2, RestIs
  <2>4. x # {} => s[x \ {AnyOf(x)}] = u[x \ {AnyOf(x)}]
    BY <2>1, <2>3
  <2>5. PartialSum(f, s, x) = PartialSum(f, u, x)
    BY <2>4 DEF PartialSum
  <2>6. s[x] = u[x]
    BY <1>1, <1>3, <2>2, <2>5
  <2> QED BY <2>6
<1>5. s[T] = u[T]
  BY <1>4
<1>6. s[S] = f[AnyOf(S)] + s[T]
  BY <1>1 DEF PartialSum
<1> QED BY <1>1, <1>3, <1>5, <1>6

LEMMA SumType == \A S, f : Addable(f, S) => SumFunctionOnSet(f, S) \in Int
<1> SUFFICES ASSUME NEW S, NEW f, Addable(f, S) PROVE SumFunctionOnSet(f, S) \in Int
  OBVIOUS
<1>1. PICK s : Sums(S, f, s)
  BY SumIs
<1> QED BY <1>1 DEF Sums

\* Whichever member it takes: the sum over a set is that of the others and any one.
LEMMA SumWithout ==
  ASSUME NEW S, NEW f, Addable(f, S), NEW x \in S
  PROVE  SumFunctionOnSet(f, S) = f[x] + SumFunctionOnSet(f, S \ {x})
<1> DEFINE Splits(t) == \A z \in t : SumFunctionOnSet(f, t) = f[z] + SumFunctionOnSet(f, t \ {z})
           D == {t \in SUBSET S : ~ Splits(t)}
<1>1. \A t \in SUBSET S : Addable(f, t) /\ Cardinality(t) \in Nat
  BY FS_Subset, FS_CardinalityType DEF Addable
<1>2. D = {}
  <2> SUFFICES ASSUME D # {} PROVE FALSE
    OBVIOUS
  <2> DEFINE N == {Cardinality(t) : t \in D}
  <2>1. N \in SUBSET Nat /\ N # {}
    BY <1>1
  <2>2. PICK n \in N : \A m \in N : n <= m
    <3> HIDE DEF N
    <3> QED BY <2>1, LeastNat
  <2>3. PICK t \in D : n = Cardinality(t)
    BY <2>2
  <2>4. \A u \in SUBSET S : Cardinality(u) = Cardinality(t) - 1 => Splits(u)
    <3> SUFFICES ASSUME NEW u \in SUBSET S, Cardinality(u) = Cardinality(t) - 1, ~ Splits(u)
                 PROVE  FALSE
      OBVIOUS
    <3>1. Cardinality(u) \in N
      OBVIOUS
    <3> HIDE DEF N
    <3> QED BY <1>1, <2>1, <2>2, <2>3, <3>1
  <2>5. t \in SUBSET S /\ ~ Splits(t)
    OBVIOUS
  <2>6. PICK z \in t : SumFunctionOnSet(f, t) # f[z] + SumFunctionOnSet(f, t \ {z})
    BY <2>5
  <2> HIDE DEF N, D
  <2>7. \A v \in t : t \ {v} \in SUBSET S /\ Splits(t \ {v})
    <3> SUFFICES ASSUME NEW v \in t PROVE t \ {v} \in SUBSET S /\ Splits(t \ {v})
      OBVIOUS
    <3>1. IsFiniteSet(t)
      BY <1>1, <2>5 DEF Addable
    <3>2. Cardinality(t \ {v}) = Cardinality(t) - 1
      BY <3>1, FS_RemoveElement
    <3>3. t \ {v} \in SUBSET S
      BY <2>5
    <3> HIDE DEF Splits
    <3> QED BY <2>4, <3>2, <3>3
  <2>8. PICK y \in t : y = AnyOf(t)
    BY <2>6 DEF AnyOf
  <2>9. SumFunctionOnSet(f, t) = f[y] + SumFunctionOnSet(f, t \ {y})
    BY <1>1, <2>5, <2>8, SumTakes
  <2>10. z # y
    BY <2>6, <2>9
  <2>11. SumFunctionOnSet(f, t \ {y}) = f[z] + SumFunctionOnSet(f, (t \ {y}) \ {z})
    BY <2>6, <2>7, <2>10
  <2>12. SumFunctionOnSet(f, t \ {z}) = f[y] + SumFunctionOnSet(f, (t \ {z}) \ {y})
    BY <2>7, <2>8, <2>10
  <2>13. (t \ {y}) \ {z} = (t \ {z}) \ {y} /\ (t \ {y}) \ {z} \in SUBSET S
    BY <2>5
  <2>14. f[y] \in Int /\ f[z] \in Int /\ SumFunctionOnSet(f, (t \ {y}) \ {z}) \in Int
    BY <1>1, <2>5, <2>13, SumType DEF Addable
  <2> DEFINE rest == SumFunctionOnSet(f, (t \ {y}) \ {z})
  <2>15. rest \in Int /\ SumFunctionOnSet(f, t \ {y}) = f[z] + rest
         /\ SumFunctionOnSet(f, t \ {z}) = f[y] + rest
    BY <2>11, <2>12, <2>13, <2>14
  <2> HIDE DEF rest
  <2>16. SumFunctionOnSet(f, t) = f[z] + SumFunctionOnSet(f, t \ {z})
    BY <2>9, <2>14, <2>15
  <2> QED BY <2>6, <2>16
<1>3. S \in SUBSET S
  OBVIOUS
<1>4. Splits(S)
  BY <1>2, <1>3
<1> QED BY <1>4

\* A sum only looks at the members of its set.
LEMMA SumSame ==
  ASSUME NEW S, NEW f, NEW g, Addable(f, S), \A x \in S : f[x] = g[x]
  PROVE  SumFunctionOnSet(f, S) = SumFunctionOnSet(g, S)
<1> DEFINE D == {t \in SUBSET S : SumFunctionOnSet(f, t) # SumFunctionOnSet(g, t)}
<1>1. \A t \in SUBSET S : Addable(f, t) /\ Addable(g, t)
  BY FS_Subset DEF Addable
<1>2. D = {}
  <2> SUFFICES ASSUME D # {} PROVE FALSE
    OBVIOUS
  <2>1. PICK t \in D : \A u \in D : <<u, t>> \notin Rest(S)
    <3>1. D \subseteq SUBSET S
      OBVIOUS
    <3>2. IsWellFoundedOn(Rest(S), SUBSET S)
      BY RestWellFounded DEF Addable
    <3> HIDE DEF D
    <3> QED BY <3>1, <3>2, WFMin
  <2>2. t \in SUBSET S
    OBVIOUS
  <2>3. t # {}
    BY SumEmpty
  <2>4. AnyOf(t) \in S /\ t \ {AnyOf(t)} \in SUBSET S /\ <<t \ {AnyOf(t)}, t>> \in Rest(S)
    <3>1. AnyOf(t) \in t
      BY <2>3 DEF AnyOf
    <3> QED BY <2>2, <2>3, <3>1, RestIs
  <2>5. SumFunctionOnSet(f, t \ {AnyOf(t)}) = SumFunctionOnSet(g, t \ {AnyOf(t)})
    BY <2>1, <2>4
  <2>6. SumFunctionOnSet(f, t) = f[AnyOf(t)] + SumFunctionOnSet(f, t \ {AnyOf(t)})
    BY <1>1, <2>2, <2>3, SumTakes
  <2>7. SumFunctionOnSet(g, t) = g[AnyOf(t)] + SumFunctionOnSet(g, t \ {AnyOf(t)})
    BY <1>1, <2>2, <2>3, SumTakes
  <2> QED BY <2>4, <2>5, <2>6, <2>7
<1>3. S \in SUBSET S
  OBVIOUS
<1> QED BY <1>2, <1>3

\* Sums of whole functions: one value more, one less, and one changed.
LEMMA SumMore ==
  ASSUME NEW S, NEW f, Addable(f, S), NEW x, x \notin S, NEW v \in Int,
         NEW g, DOMAIN g = S \cup {x}, g[x] = v, \A y \in S : g[y] = f[y], DOMAIN f = S
  PROVE  SumFunction(g) = SumFunction(f) + v
<1>1. Addable(g, DOMAIN g)
  BY FS_AddElement DEF Addable
<1>2. SumFunctionOnSet(g, DOMAIN g) = g[x] + SumFunctionOnSet(g, DOMAIN g \ {x})
  BY <1>1, SumWithout
<1>3. DOMAIN g \ {x} = S
  OBVIOUS
<1>4. SumFunctionOnSet(f, S) = SumFunctionOnSet(g, S)
  BY SumSame
<1>5. SumFunctionOnSet(f, S) \in Int
  BY SumType
<1>6. SumFunctionOnSet(g, DOMAIN g) = v + SumFunctionOnSet(f, S)
  BY <1>2, <1>3, <1>4
<1>7. SumFunction(g) = SumFunctionOnSet(g, DOMAIN g) /\ SumFunction(f) = SumFunctionOnSet(f, S)
  BY DEF SumFunction
<1> QED BY ONLY <1>5, <1>6, <1>7, v \in Int

LEMMA SumLess ==
  ASSUME NEW f, Addable(f, DOMAIN f), NEW x \in DOMAIN f,
         NEW g, DOMAIN g = DOMAIN f \ {x}, \A y \in DOMAIN g : g[y] = f[y]
  PROVE  SumFunction(g) = SumFunction(f) - f[x]
<1>1. Addable(g, DOMAIN g)
  BY FS_Subset DEF Addable
<1>2. SumFunctionOnSet(f, DOMAIN f) = f[x] + SumFunctionOnSet(f, DOMAIN f \ {x})
  BY SumWithout
<1>3. SumFunctionOnSet(g, DOMAIN g) = SumFunctionOnSet(f, DOMAIN g)
  BY <1>1, SumSame
<1>4. f[x] \in Int /\ SumFunctionOnSet(g, DOMAIN g) \in Int
  BY <1>1, SumType DEF Addable
<1> QED BY <1>2, <1>3, <1>4 DEF SumFunction

LEMMA SumExcept ==
  ASSUME NEW S, IsFiniteSet(S), NEW f \in [S -> Int], NEW x \in S, NEW v \in Int
  PROVE  SumFunction([f EXCEPT ![x] = v]) = SumFunction(f) - f[x] + v
<1> DEFINE g == [f EXCEPT ![x] = v]
<1>1. Addable(f, S) /\ Addable(g, S) /\ DOMAIN f = S /\ DOMAIN g = S
  BY DEF Addable
<1>2. Addable(f, S \ {x}) /\ \A y \in S \ {x} : f[y] = g[y]
  BY FS_Subset DEF Addable
<1>3. SumFunctionOnSet(f, S \ {x}) = SumFunctionOnSet(g, S \ {x})
  <2> HIDE DEF g
  <2> QED BY <1>2, SumSame
<1>4. SumFunctionOnSet(f, S) = f[x] + SumFunctionOnSet(f, S \ {x})
  BY <1>1, SumWithout
<1>5. SumFunctionOnSet(g, S) = g[x] + SumFunctionOnSet(g, S \ {x})
  <2> HIDE DEF g
  <2> QED BY <1>1, SumWithout
<1>6. g[x] = v /\ SumFunctionOnSet(f, S \ {x}) \in Int
  BY <1>2, SumType
<1> HIDE DEF g
<1>7. SumFunction(g) = SumFunction(f) - f[x] + v
  BY <1>1, <1>3, <1>4, <1>5, <1>6 DEF SumFunction
<1> QED BY <1>7 DEF g


-----------------------------------------------------------------------------
(* FoldLeft, which folds the last element of a sequence after the others   *)

\* What comes before a set of indices: the set without its last one.
Earlier(n) == {p \in (SUBSET (1 .. n)) \X (SUBSET (1 .. n)) : p[2] # {} /\ p[1] = p[2] \ {Max(p[2])}}

LEMMA EarlierIs ==
  \A n : \A t, u \in SUBSET (1 .. n) : <<u, t>> \in Earlier(n) <=> t # {} /\ u = t \ {Max(t)}
<1> TAKE n
<1> DEFINE P == SUBSET (1 .. n)
           C(u, t) == t # {} /\ u = t \ {Max(t)}
<1>1. Earlier(n) = {p \in P \X P : C(p[1], p[2])}
  BY DEF Earlier
<1> HIDE DEF P, C
<1>2. \A t, u \in P : <<u, t>> \in Earlier(n) <=> C(u, t)
  BY <1>1
<1> QED BY <1>2 DEF P, C

LEMMA MaxUpTo ==
  ASSUME NEW n \in Nat, NEW S \in SUBSET (1 .. n), S # {}
  PROVE  Max(S) \in S /\ \A i \in S : i <= Max(S)
<1> DEFINE T == {n - i : i \in S}
<1>1. T \in SUBSET Nat /\ T # {}
  <2>1. \A i \in S : n - i \in Nat
    OBVIOUS
  <2> QED BY <2>1
<1>2. PICK m \in T : \A k \in T : m <= k
  <2> HIDE DEF T
  <2> QED BY <1>1, LeastNat
<1>3. PICK x \in S : m = n - x
  BY <1>2
<1>4. \A i \in S : x >= i
  <2> TAKE i \in S
  <2>1. n - x <= n - i
    BY <1>2, <1>3
  <2> QED BY <2>1
<1>5. Max(S) \in S /\ \A i \in S : Max(S) >= i
  BY <1>4 DEF Max
<1> QED BY <1>5

LEMMA EarlierWellFounded == ASSUME NEW n \in Nat PROVE IsWellFoundedOn(Earlier(n), SUBSET (1 .. n))
<1> SUFFICES ASSUME NEW T \in SUBSET (SUBSET (1 .. n)), T # {},
                    \A t \in T : \E u \in T : <<u, t>> \in Earlier(n)
             PROVE  FALSE
  BY MinWF
<1>1. \A t \in T : IsFiniteSet(t) /\ Cardinality(t) \in Nat
  <2>1. IsFiniteSet(1 .. n)
    BY FS_Interval
  <2> QED BY <2>1, FS_Subset, FS_CardinalityType
<1> DEFINE N == {Cardinality(t) : t \in T}
<1>2. N \in SUBSET Nat /\ N # {}
  BY <1>1
<1>3. PICK k \in N : \A m \in N : k <= m
  <2> HIDE DEF N
  <2> QED BY <1>2, LeastNat
<1>4. PICK t \in T : k = Cardinality(t)
  BY <1>3
<1>5. PICK u \in T : <<u, t>> \in Earlier(n)
  OBVIOUS
<1>6. t # {} /\ u = t \ {Max(t)}
  <2>1. t \in SUBSET (1 .. n) /\ u \in SUBSET (1 .. n)
    OBVIOUS
  <2> QED BY ONLY <1>5, <2>1, EarlierIs
<1>7. Max(t) \in t
  BY <1>6, MaxUpTo
<1>8. Cardinality(u) = Cardinality(t) - 1
  BY <1>1, <1>6, <1>7, FS_RemoveElement
<1>9. Cardinality(u) \in N
  OBVIOUS
<1>10. k <= Cardinality(u) /\ k \in Nat
  <2> HIDE DEF N
  <2> QED BY <1>2, <1>3, <1>9
<1> QED BY <1>4, <1>8, <1>10

\* What becomes of v by steps st, one for each index of a set, the last one last.
After(st, v, it, s) == IF s = {} THEN v ELSE st[Max(s)][it[s \ {Max(s)}]]

Folds(st, n, v, it) == \A s \in SUBSET (1 .. n) : it[s] = After(st, v, it, s)

LEMMA FoldSets ==
  ASSUME NEW n \in Nat, NEW V, NEW v \in V, NEW st, Steps(st, n, V)
  PROVE  \E it \in [SUBSET (1 .. n) -> V] : Folds(st, n, v, it)
<1> DEFINE W == SUBSET (1 .. n)
           F == [s \in W |-> [g \in [W -> V] |-> After(st, v, g, s)]]
<1>1. \A s \in W : s # {} => Max(s) \in 1 .. n /\ s \ {Max(s)} \in W
  <2> TAKE s \in W
  <2> HAVE s # {}
  <2>1. Max(s) \in s
    BY MaxUpTo
  <2> QED BY <2>1
<1>2. \A s \in W : \A g \in [W -> V] : After(st, v, g, s) \in V /\ F[s][g] = After(st, v, g, s)
  <2> TAKE s \in W
  <2> TAKE g \in [W -> V]
  <2>1. After(st, v, g, s) \in V
    <3>1. CASE s = {}
      BY <3>1 DEF After
    <3>2. CASE s # {}
      <4>1. Max(s) \in 1 .. n /\ g[s \ {Max(s)}] \in V
        BY <1>1, <3>2
      <4> QED BY <3>2, <4>1 DEF After, Steps
    <3> QED BY <3>1, <3>2
  <2> QED BY <2>1
<1>3. F \in [W -> [[W -> V] -> V]]
  BY <1>2
<1>4. \A s \in W : \A g, h \in [W -> V] :
        (\A u \in W : <<u, s>> \in Earlier(n) => g[u] = h[u]) => F[s][g] = F[s][h]
  <2> TAKE s \in W
  <2> TAKE g, h \in [W -> V]
  <2> HAVE \A u \in W : <<u, s>> \in Earlier(n) => g[u] = h[u]
  <2>1. s # {} => s \ {Max(s)} \in W /\ <<s \ {Max(s)}, s>> \in Earlier(n)
    BY <1>1, EarlierIs
  <2>2. s # {} => g[s \ {Max(s)}] = h[s \ {Max(s)}]
    BY <2>1
  <2>3. After(st, v, g, s) = After(st, v, h, s)
    BY <2>2 DEF After
  <2> QED BY <1>2, <2>3
<1>5. IsWellFoundedOn(Earlier(n), W)
  BY EarlierWellFounded
<1>6. Defines(F, W, Earlier(n), V)
  BY ONLY <1>3, <1>4, <1>5, v \in V DEF Defines
<1>7. PICK it \in [W -> V] : \A s \in W : it[s] = F[s][it]
  <2> HIDE DEF F, W
  <2> QED BY <1>6, Recursion
<1>8. Folds(st, n, v, it)
  BY <1>2, <1>7 DEF Folds
<1> QED BY <1>8

\* The last index of a sequence, and the ones before it.
LEMMA LastIndex ==
  ASSUME NEW n \in Nat, NEW k \in 1 .. n
  PROVE  /\ Max(1 .. k) = k /\ (1 .. k) \ {Max(1 .. k)} = 1 .. (k - 1)
         /\ k - 1 \in 0 .. n /\ k \in 0 .. n /\ 1 .. k \in SUBSET (1 .. n) /\ 1 .. k # {}
<1>1. k \in Nat /\ 1 .. k # {} /\ 1 .. k \in SUBSET (1 .. k)
  OBVIOUS
<1>2. Max(1 .. k) \in 1 .. k /\ \A i \in 1 .. k : i <= Max(1 .. k)
  BY ONLY <1>1, MaxUpTo
<1>3. Max(1 .. k) = k
  BY <1>2
<1>4. (1 .. k) \ {Max(1 .. k)} = 1 .. (k - 1)
  BY <1>3
<1>5. k - 1 \in 0 .. n /\ k \in 0 .. n
  OBVIOUS
<1>6. 1 .. k \in SUBSET (1 .. n)
  OBVIOUS
<1> QED BY <1>1, <1>3, <1>4, <1>5, <1>6

=============================================================================
