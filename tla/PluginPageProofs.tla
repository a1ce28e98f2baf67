-------------------------- MODULE PluginPageProofs --------------------------
(***************************************************************************)
(* For any number of domains, modules, events and runs, and whatever users *)
(* and handlers do and merges bring: what the page's state is of; that     *)
(* what has been rendered as registered still is; that no verdict and no   *)
(* profile is shown past what outdates it; that what the user was told of  *)
(* is what the page shows; that the desktop keeps the modules added to it; *)
(* and that a runner that was never crowded shows what runs, and closing   *)
(* it stops it.                                                            *)
(*                                                                         *)
(* A registry is a fold, and is of the first claim of each key; an event's *)
(* ancestors come before it in topoOrder(), so that a claim which none of  *)
(* its ancestors makes is passed over only for one apart from it.          *)
(***************************************************************************)
EXTENDS PluginPage, EventDagProofs

(* In a page that was never crowded, a module that loads does so alone: in *)
(* the overlay, with no other loading or mounted.                          *)
OneAtATime ==
  \A p \in Pages : crowded[p] \/ \A n \in Loading(p) :
    /\ visible[p]
    /\ \A k \in Loading(p) : k = n
    /\ \A k \in Runs : frame[p][k] # "mounted"

HostInv == HostTypeOK /\ OneAtATime /\ ClosedMeansStopped

(* One more call is loading: everything mounted is taken out, so what is   *)
(* not crowded has nothing but the new frame.                              *)
LEMMA RunInv ==
  ASSUME HostInv, NEW p \in Pages, NEW n \in Runs, NEW m \in Runnable, Run(p, n, m)
  PROVE  HostInv'
<1> USE DEF HostInv, Run, Runs
<1>1. HostTypeOK'
  BY DEF HostTypeOK
<1>2. \A q \in Pages, k \in Runs : frame'[q][k] = "loading" =>
        frame[q][k] = "loading" \/ (q = p /\ k = n)
  BY DEF HostTypeOK
<1>3. \A k \in Runs : frame'[p][k] # "mounted"
  BY DEF HostTypeOK
<1>4. \A q \in Pages : q # p => /\ frame'[q] = frame[q] /\ visible'[q] = visible[q]
                               /\ crowded'[q] = crowded[q] /\ ran'[q] = ran[q]
  BY DEF HostTypeOK
<1>5. crowded'[p] \/ Loading(p) = {}
  BY DEF HostTypeOK
<1>6. visible'[p]
  BY DEF HostTypeOK
<1>7. OneAtATime'
  <2> SUFFICES ASSUME NEW q \in Pages, ~crowded'[q], NEW l \in Runs, frame'[q][l] = "loading"
               PROVE  /\ visible'[q]
                      /\ \A k \in Runs : frame'[q][k] = "loading" => k = l
                      /\ \A k \in Runs : frame'[q][k] # "mounted"
    BY DEF OneAtATime, Loading
  <2>1. CASE q = p
    BY <1>2, <1>3, <1>5, <1>6, <2>1 DEF Loading
  <2>2. CASE q # p
    BY <1>4, <2>2 DEF OneAtATime, Loading
  <2> QED BY <2>1, <2>2
<1>8. ClosedMeansStopped'
  BY <1>3, <1>4 DEF ClosedMeansStopped
<1> QED BY <1>1, <1>7, <1>8

LEMMA LoadFailsInv ==
  ASSUME HostInv, NEW p \in Pages, NEW n \in Runs, LoadFails(p, n)
  PROVE  HostInv'
<1> USE DEF HostInv, LoadFails, Runs
<1>1. HostTypeOK'
  BY DEF HostTypeOK
<1>2. \A q \in Pages, k \in Runs : frame'[q][k] \in {"loading", "mounted"} =>
        frame'[q][k] = frame[q][k]
  BY DEF HostTypeOK
<1>3. OneAtATime'
  BY <1>2 DEF OneAtATime, Loading
<1>4. ClosedMeansStopped'
  BY <1>2 DEF ClosedMeansStopped
<1> QED BY <1>1, <1>3, <1>4

(* The frame that is mounted is the only one if it was the only one to     *)
(* load, and the handle is its own.                                        *)
LEMMA MountsInv ==
  ASSUME HostInv, NEW p \in Pages, NEW n \in Runs, Mounts(p, n)
  PROVE  HostInv'
<1> USE DEF HostInv, Mounts, Runs
<1>1. HostTypeOK'
  BY HostAssumption DEF HostTypeOK
<1>2. n \in Loading(p)
  BY DEF Loading
<1>3. \A q \in Pages, k \in Runs : q # p \/ k # n => frame'[q][k] = frame[q][k]
  BY DEF HostTypeOK
<1>4. frame'[p][n] = "mounted" /\ handle'[p] = n /\ active'[p] = ran[p][n]
  BY DEF HostTypeOK
<1>5. OneAtATime'
  BY <1>2, <1>3, <1>4 DEF OneAtATime, Loading
<1>6. ClosedMeansStopped'
  <2> SUFFICES ASSUME NEW q \in Pages, ~crowded[q], NEW k \in Runs, frame'[q][k] = "mounted"
               PROVE  visible[q] /\ handle'[q] = k /\ active'[q] = ran[q][k]
    BY DEF ClosedMeansStopped
  <2>1. CASE q = p
    <3>1. visible[p] /\ \A l \in Runs : frame[p][l] # "mounted"
      BY <1>2, <2>1 DEF OneAtATime
    <3>2. k = n
      BY <1>3, <2>1, <3>1
    <3> QED BY <1>4, <2>1, <3>1, <3>2
  <2>2. CASE q # p
    BY <1>3, <2>2 DEF ClosedMeansStopped, HostTypeOK
  <2> QED BY <2>1, <2>2
<1> QED BY <1>1, <1>5, <1>6

(* If nothing was loading, what was mounted had the handle, and is gone.   *)
LEMMA StopInv ==
  ASSUME HostInv, NEW p \in Pages, Stop(p)
  PROVE  HostInv'
<1> USE DEF HostInv, Stop, Runs
<1>1. HostTypeOK'
  BY HostAssumption DEF HostTypeOK
<1>2. crowded'[p] \/ (~crowded[p] /\ Loading(p) = {})
  BY DEF HostTypeOK
<1>3. \A q \in Pages, k \in Runs : frame'[q][k] \in {"loading", "mounted"} =>
        frame'[q][k] = frame[q][k] /\ (q = p => k # handle[p])
  BY DEF HostTypeOK
<1>4. \A q \in Pages : q # p => /\ visible'[q] = visible[q] /\ crowded'[q] = crowded[q]
                               /\ handle'[q] = handle[q] /\ active'[q] = active[q]
  BY DEF HostTypeOK
<1>5. OneAtATime'
  BY <1>2, <1>3, <1>4 DEF OneAtATime, Loading
<1>6. ClosedMeansStopped'
  BY <1>2, <1>3, <1>4 DEF ClosedMeansStopped
<1> QED BY <1>1, <1>5, <1>6

LEMMA RestartInv ==
  ASSUME HostInv, NEW p \in Pages, Restart(p)
  PROVE  HostInv'
<1> USE DEF HostInv, Restart, Runs
<1>1. HostTypeOK'
  BY HostAssumption DEF HostTypeOK
<1>2. \A k \in Runs : frame'[p][k] = "none"
  BY DEF HostTypeOK
<1>3. \A q \in Pages : q # p =>
        /\ frame'[q] = frame[q] /\ ran'[q] = ran[q] /\ visible'[q] = visible[q]
        /\ crowded'[q] = crowded[q] /\ handle'[q] = handle[q] /\ active'[q] = active[q]
  BY DEF HostTypeOK
<1>4. OneAtATime'
  BY <1>2, <1>3 DEF OneAtATime, Loading
<1>5. ClosedMeansStopped'
  BY <1>2, <1>3 DEF ClosedMeansStopped
<1> QED BY <1>1, <1>4, <1>5

-----------------------------------------------------------------------------

(* The runner alone: its variables have the values of their types, and     *)
(* unless it was crowded what runs is shown and can be stopped.            *)
THEOREM HostCorrect == HostSpec => [](HostTypeOK /\ ClosedMeansStopped)
<1>1. HostInit => HostInv
  BY HostAssumption
  DEF HostInit, HostInv, HostTypeOK, OneAtATime, ClosedMeansStopped, Loading, Runs
<1>2. HostInv /\ [HostNext]_hostVars => HostInv'
  <2> SUFFICES ASSUME HostInv, [HostNext]_hostVars PROVE HostInv'
    OBVIOUS
  <2>1. CASE UNCHANGED hostVars
    BY <2>1 DEF HostInv, HostTypeOK, OneAtATime, ClosedMeansStopped, Loading, hostVars
  <2>2. CASE HostNext
    BY <2>2, RunInv, LoadFailsInv, MountsInv, StopInv, RestartInv DEF HostNext
  <2> QED BY <2>1, <2>2
<1>3. HostInv => HostTypeOK /\ ClosedMeansStopped
  BY DEF HostInv
<1> QED BY <1>1, <1>2, <1>3, PTL DEF HostSpec

(* Every step of the page is one of its runner, or leaves the runner as it *)
(* is.                                                                     *)
LEMMA StepIsHostStep == [Next]_vars => [HostNext]_hostVars
<1> SUFFICES ASSUME [Next]_vars PROVE [HostNext]_hostVars
  OBVIOUS
<1>1. CASE UNCHANGED vars
  BY <1>1 DEF vars
<1>2. CASE Next
  <2> PICK r \in Replicas :
         \/ UserStep(r)
         \/ HandlerStep(r)
         \/ ModuleLoads(r) \/ CloseRunner(r) \/ Render(r)
         \/ CloseFolder(r) \/ \E f \in Folders(shown[r].layout) : OpenFolder(r, f)
         \/ \E s \in Replicas : Sync(r, s)
    BY <1>2 DEF Next
  <2> r \in Pages
    BY PageAssumption
  <2>1. CASE UserStep(r)
    <3> PICK g \in Range(todo[r]) :
           \/ Mint(r, g) \/ Choose(r, g) \/ Burn(r, g) \/ Submit(r, g) \/ Post(r, g) \/ Advance(r, g) \/ Wait(r, g)
           \/ RunModule(r, g) \/ Pin(r, g) \/ Reload(r, g)
           \/ \E i, j \in DOMAIN shown[r].layout : Drop(r, g, i, j)
           \/ \E m \in rows[r] : Eject(r, g, m)
      BY <2>1 DEF UserStep
    <3>1. CASE Mint(r, g) \/ Choose(r, g) \/ Burn(r, g) \/ Submit(r, g) \/ Post(r, g)
      BY <3>1 DEF Mint, Choose, Burn, Submit, Post, OnlyHandlers
    <3>2. CASE Advance(r, g) \/ Wait(r, g)
      BY <3>2 DEF Advance, Wait
    <3>3. CASE RunModule(r, g)
      BY <3>3 DEF RunModule, RunsIt, Catalog, HostNext
    <3>4. CASE Pin(r, g)
      BY <3>4 DEF Pin, Arranged
    <3>5. CASE Reload(r, g)
      BY <3>5 DEF Reload, HostNext
    <3>6. CASE \E i, j \in DOMAIN shown[r].layout : Drop(r, g, i, j)
      BY <3>6 DEF Drop, Arranged
    <3>7. CASE \E m \in rows[r] : Eject(r, g, m)
      BY <3>7 DEF Eject, Arranged
    <3> QED BY <3>1, <3>2, <3>3, <3>4, <3>5, <3>6, <3>7
  <2>2. CASE HandlerStep(r)
    BY <2>2 DEF HandlerStep, BurnFails, BurnVerified, SubmissionBuilt, SubmissionRefused,
         SubmissionAccepted, Minted, IdentityAdded, ModuleAdded, Posted, Added, OnlyHandlers
  <2>3. CASE ModuleLoads(r)
    BY <2>3 DEF ModuleLoads, HostNext
  <2>4. CASE CloseRunner(r)
    BY <2>4 DEF CloseRunner, HostNext
  <2>5. CASE Render(r)
    BY <2>5 DEF Render
  <2>6. CASE CloseFolder(r) \/ \E f \in Folders(shown[r].layout) : OpenFolder(r, f)
    BY <2>6 DEF CloseFolder, OpenFolder, Arranged
  <2>7. CASE \E s \in Replicas : Sync(r, s)
    BY <2>7 DEF Sync
  <2> QED BY <2>1, <2>2, <2>3, <2>4, <2>5, <2>6, <2>7
<1> QED BY <1>1, <1>2

\* The page implements its runner.
THEOREM PageImplementsHost == Spec => HostSpec
<1>1. Init => HostInit
  BY DEF Init
<1> QED BY <1>1, StepIsHostStep, PTL DEF Spec, HostSpec

(* In the page, with its desktop, its handlers, merges and reloads: what   *)
(* runs is what the overlay shows, and closing it stops it, unless the     *)
(* page was crowded.                                                       *)
THEOREM PageStops == Spec => []ClosedMeansStopped
<1>1. HostTypeOK /\ ClosedMeansStopped => ClosedMeansStopped
  OBVIOUS
<1> QED BY <1>1, HostCorrect, PageImplementsHost, PTL

-----------------------------------------------------------------------------
(* Registries                                                              *)

Regs(K, E) == UNION {[D -> E] : D \in SUBSET K}

\* The values of the modules' registry.
ModuleIds == {content[i].payload.id : i \in Ids}
ModuleEntries ==
  [author : {content[i].payload.author : i \in Ids}, code : {content[i].payload.code : i \in Ids},
   audit : {"unaudited", "passed", "red-listed"}, by : Ids]

LEMMA NothingIn == \A K, E : Nothing \in Regs(K, E) /\ DOMAIN Nothing = {}
<1> TAKE K, E
<1>1. Nothing \in [{} -> E]
  BY DEF Nothing
<1>2. {} \in SUBSET K
  OBVIOUS
<1> QED BY <1>1, <1>2 DEF Regs, Nothing

LEMMA WithIs ==
  ASSUME NEW reg, NEW k, NEW e
  PROVE  /\ DOMAIN With(reg, k, e) = DOMAIN reg \cup {k} /\ With(reg, k, e)[k] = e
         /\ \A x \in DOMAIN reg : x # k => With(reg, k, e)[x] = reg[x]
BY DEF With

LEMMA WithIn ==
  ASSUME NEW K, NEW E, NEW reg \in Regs(K, E), NEW k \in K, NEW e \in E
  PROVE  With(reg, k, e) \in Regs(K, E) /\ Without(reg, k) \in Regs(K, E)
<1>1. PICK D \in SUBSET K : reg \in [D -> E]
  BY DEF Regs
<1>2. With(reg, k, e) \in [D \cup {k} -> E]
  BY <1>1 DEF With
<1>3. Without(reg, k) \in [D \ {k} -> E]
  BY <1>1 DEF Without
<1>4. D \cup {k} \in SUBSET K /\ D \ {k} \in SUBSET K
  OBVIOUS
<1> QED BY <1>2, <1>3, <1>4 DEF Regs

LEMMA RegsDomain ==
  ASSUME NEW K, NEW E, NEW reg \in Regs(K, E)
  PROVE  DOMAIN reg \in SUBSET K /\ \A k \in DOMAIN reg : reg[k] \in E
BY DEF Regs

LEMMA IdentitiesAre ==
  ASSUME NEW n \in Nat, NEW order \in [1 .. n -> Ids]
  PROVE  \E f : /\ f[0] = Nothing /\ Identities(order) = f[n]
                /\ \A k \in 1 .. n : f[k] = ApplyIdentity(f[k - 1], order[k])
<1> DEFINE W == SUBSET (1 .. n)
           K == {content[i].payload.domain : i \in Ids}
           E == [signature : {content[i].payload.signature : i \in Ids},
                 burned : {content[i].payload.burned : i \in Ids}, by : Ids]
           V == Regs(K, E)
           st == [k \in 1 .. n |-> [x \in V |-> ApplyIdentity(x, order[k])]]
           Right(g) == g = [s \in W |-> IF s = {} THEN Nothing
                                         ELSE ApplyIdentity(g[s \ {Max(s)}], order[Max(s)])]
           iter == CHOOSE g : Right(g)
           f == [k \in 0 .. n |-> iter[1 .. k]]
<1>1. ASSUME NEW id \in Ids, NEW reg \in V PROVE ApplyIdentity(reg, id) \in V
  <2>1. /\ content[id].payload.domain \in K
        /\ [signature |-> content[id].payload.signature, burned |-> content[id].payload.burned,
            by |-> id] \in E
    OBVIOUS
  <2> HIDE DEF K, E
  <2>2. With(reg, content[id].payload.domain,
             [signature |-> content[id].payload.signature, burned |-> content[id].payload.burned,
              by |-> id]) \in V
    BY <2>1, WithIn
  <2> HIDE DEF V
  <2> QED BY <2>2 DEF ApplyIdentity
<1>2. Nothing \in V
  BY NothingIn
<1>3. Steps(st, n, V)
  BY <1>1 DEF Steps
<1>4. PICK it \in [W -> V] : Folds(st, n, Nothing, it)
  <2> HIDE DEF V, st
  <2> QED BY ONLY n \in Nat, <1>2, <1>3, FoldSets
<1>5. \A s \in W : s # {} => Max(s) \in 1 .. n /\ s \ {Max(s)} \in W
  BY MaxUpTo
<1>6. \A s \in W : it[s] = IF s = {} THEN Nothing ELSE ApplyIdentity(it[s \ {Max(s)}], order[Max(s)])
  <2> TAKE s \in W
  <2>1. s # {} => st[Max(s)][it[s \ {Max(s)}]] = ApplyIdentity(it[s \ {Max(s)}], order[Max(s)])
    <3> HAVE s # {}
    <3>1. Max(s) \in 1 .. n /\ it[s \ {Max(s)}] \in V
      BY <1>5
    <3> HIDE DEF V
    <3> QED BY <3>1
  <2> QED BY <1>4, <2>1 DEF After, Folds
<1>7. Right(it)
  <2> HIDE DEF V
  <2> QED BY <1>6
<1>8. Right(iter)
  <2> HIDE DEF Right
  <2> QED BY <1>7
<1>9. Identities(order) = iter[1 .. n]
  BY DEF Identities, FoldLeft, MapThenFoldSet
<1> HIDE DEF iter
<1>10. \A s \in W : iter[s] = IF s = {} THEN Nothing ELSE ApplyIdentity(iter[s \ {Max(s)}], order[Max(s)])
  BY <1>8
<1>11. f[0] = Nothing
  <2>1. 1 .. 0 = {} /\ 0 \in 0 .. n /\ {} \in W
    OBVIOUS
  <2> QED BY <1>10, <2>1
<1>12. ASSUME NEW k \in 1 .. n PROVE f[k] = ApplyIdentity(f[k - 1], order[k])
  <2>1. /\ Max(1 .. k) = k /\ (1 .. k) \ {Max(1 .. k)} = 1 .. (k - 1)
        /\ k - 1 \in 0 .. n /\ k \in 0 .. n /\ 1 .. k \in W /\ 1 .. k # {}
    BY ONLY n \in Nat, k \in 1 .. n, LastIndex
  <2>2. f[k] = iter[1 .. k] /\ f[k - 1] = iter[1 .. (k - 1)]
    BY <2>1
  <2>3. iter[1 .. k] = ApplyIdentity(iter[(1 .. k) \ {Max(1 .. k)}], order[Max(1 .. k)])
    BY <1>10, <2>1
  <2> QED BY <2>1, <2>2, <2>3
<1>13. Identities(order) = f[n]
  BY <1>9
<1> QED BY <1>11, <1>12, <1>13

LEMMA FormulasAre ==
  ASSUME NEW n \in Nat, NEW order \in [1 .. n -> Ids]
  PROVE  \E f : /\ f[0] = Nothing /\ Formulas(order) = f[n]
                /\ \A k \in 1 .. n : f[k] = ApplyFormula(f[k - 1], order[k])
<1> DEFINE W == SUBSET (1 .. n)
           K == {content[i].payload.id : i \in Ids}
           E == [params : {content[i].payload.params : i \in Ids}, by : Ids]
           V == Regs(K, E)
           st == [k \in 1 .. n |-> [x \in V |-> ApplyFormula(x, order[k])]]
           Right(g) == g = [s \in W |-> IF s = {} THEN Nothing
                                         ELSE ApplyFormula(g[s \ {Max(s)}], order[Max(s)])]
           iter == CHOOSE g : Right(g)
           f == [k \in 0 .. n |-> iter[1 .. k]]
<1>1. ASSUME NEW id \in Ids, NEW reg \in V PROVE ApplyFormula(reg, id) \in V
  <2>1. /\ content[id].payload.id \in K
        /\ [params |-> content[id].payload.params, by |-> id] \in E
    OBVIOUS
  <2> HIDE DEF K, E
  <2>2. With(reg, content[id].payload.id, [params |-> content[id].payload.params, by |-> id]) \in V
    BY <2>1, WithIn
  <2> HIDE DEF V
  <2> QED BY <2>2 DEF ApplyFormula
<1>2. Nothing \in V
  BY NothingIn
<1>3. Steps(st, n, V)
  BY <1>1 DEF Steps
<1>4. PICK it \in [W -> V] : Folds(st, n, Nothing, it)
  <2> HIDE DEF V, st
  <2> QED BY ONLY n \in Nat, <1>2, <1>3, FoldSets
<1>5. \A s \in W : s # {} => Max(s) \in 1 .. n /\ s \ {Max(s)} \in W
  BY MaxUpTo
<1>6. \A s \in W : it[s] = IF s = {} THEN Nothing ELSE ApplyFormula(it[s \ {Max(s)}], order[Max(s)])
  <2> TAKE s \in W
  <2>1. s # {} => st[Max(s)][it[s \ {Max(s)}]] = ApplyFormula(it[s \ {Max(s)}], order[Max(s)])
    <3> HAVE s # {}
    <3>1. Max(s) \in 1 .. n /\ it[s \ {Max(s)}] \in V
      BY <1>5
    <3> HIDE DEF V
    <3> QED BY <3>1
  <2> QED BY <1>4, <2>1 DEF After, Folds
<1>7. Right(it)
  <2> HIDE DEF V
  <2> QED BY <1>6
<1>8. Right(iter)
  <2> HIDE DEF Right
  <2> QED BY <1>7
<1>9. Formulas(order) = iter[1 .. n]
  BY DEF Formulas, FoldLeft, MapThenFoldSet
<1> HIDE DEF iter
<1>10. \A s \in W : iter[s] = IF s = {} THEN Nothing ELSE ApplyFormula(iter[s \ {Max(s)}], order[Max(s)])
  BY <1>8
<1>11. f[0] = Nothing
  <2>1. 1 .. 0 = {} /\ 0 \in 0 .. n /\ {} \in W
    OBVIOUS
  <2> QED BY <1>10, <2>1
<1>12. ASSUME NEW k \in 1 .. n PROVE f[k] = ApplyFormula(f[k - 1], order[k])
  <2>1. /\ Max(1 .. k) = k /\ (1 .. k) \ {Max(1 .. k)} = 1 .. (k - 1)
        /\ k - 1 \in 0 .. n /\ k \in 0 .. n /\ 1 .. k \in W /\ 1 .. k # {}
    BY ONLY n \in Nat, k \in 1 .. n, LastIndex
  <2>2. f[k] = iter[1 .. k] /\ f[k - 1] = iter[1 .. (k - 1)]
    BY <2>1
  <2>3. iter[1 .. k] = ApplyFormula(iter[(1 .. k) \ {Max(1 .. k)}], order[Max(1 .. k)])
    BY <1>10, <2>1
  <2> QED BY <2>1, <2>2, <2>3
<1>13. Formulas(order) = f[n]
  BY <1>9
<1> QED BY <1>11, <1>12, <1>13

LEMMA ModulesAre ==
  ASSUME NEW n \in Nat, NEW order \in [1 .. n -> Ids]
  PROVE  \E f : /\ f[0] = Nothing /\ Modules(order) = f[n]
                /\ \A k \in 1 .. n : f[k] = ApplyModule(f[k - 1], order[k])
                /\ \A k \in 0 .. n : f[k] \in Regs(ModuleIds, ModuleEntries)
<1> DEFINE W == SUBSET (1 .. n)
           K == ModuleIds
           E == ModuleEntries
           V == Regs(K, E)
           st == [k \in 1 .. n |-> [x \in V |-> ApplyModule(x, order[k])]]
           Right(g) == g = [s \in W |-> IF s = {} THEN Nothing
                                         ELSE ApplyModule(g[s \ {Max(s)}], order[Max(s)])]
           iter == CHOOSE g : Right(g)
           f == [k \in 0 .. n |-> iter[1 .. k]]
<1>1. ASSUME NEW id \in Ids, NEW reg \in V PROVE ApplyModule(reg, id) \in V
  <2> DEFINE e == content[id].payload
  <2>1. /\ e.id \in K /\ e.code \in {content[i].payload.code : i \in Ids}
        /\ [author |-> e.author, code |-> e.code, audit |-> "unaudited", by |-> id] \in E
    BY DEF ModuleIds, ModuleEntries
  <2> HIDE DEF K
  <2>2. PICK D \in SUBSET K : reg \in [D -> E]
    BY DEF Regs
  <2>3. Register(reg, e, id) \in V
    <3> HIDE DEF e
    <3>1. With(reg, e.id, [author |-> e.author, code |-> e.code, audit |-> "unaudited", by |-> id]) \in V
      BY <2>1, WithIn
    <3> HIDE DEF V
    <3> QED BY <3>1 DEF Register
  <2>4. UpdateCode(reg, e) \in [D -> E]
    <3> HIDE DEF e
    <3> QED BY <2>1, <2>2 DEF UpdateCode, ModuleEntries
  <2>5. SetAuditStatus(reg, e) \in [D -> E]
    <3> HIDE DEF e
    <3> QED BY <2>2 DEF SetAuditStatus, ModuleEntries
  <2>6. [D -> E] \subseteq V
    BY DEF Regs
  <2> HIDE DEF V
  <2> QED BY <2>3, <2>4, <2>5, <2>6 DEF ApplyModule
<1>2. Nothing \in V
  BY NothingIn
<1>3. Steps(st, n, V)
  BY <1>1 DEF Steps
<1>4. PICK it \in [W -> V] : Folds(st, n, Nothing, it)
  <2> HIDE DEF V, st
  <2> QED BY ONLY n \in Nat, <1>2, <1>3, FoldSets
<1>5. \A s \in W : s # {} => Max(s) \in 1 .. n /\ s \ {Max(s)} \in W
  BY MaxUpTo
<1>6. \A s \in W : it[s] = IF s = {} THEN Nothing ELSE ApplyModule(it[s \ {Max(s)}], order[Max(s)])
  <2> TAKE s \in W
  <2>1. s # {} => st[Max(s)][it[s \ {Max(s)}]] = ApplyModule(it[s \ {Max(s)}], order[Max(s)])
    <3> HAVE s # {}
    <3>1. Max(s) \in 1 .. n /\ it[s \ {Max(s)}] \in V
      BY <1>5
    <3> HIDE DEF V
    <3> QED BY <3>1
  <2> QED BY <1>4, <2>1 DEF After, Folds
<1>7. Right(it)
  <2> HIDE DEF V
  <2> QED BY <1>6
<1>8. Right(iter)
  <2> HIDE DEF Right
  <2> QED BY <1>7
<1>9. Modules(order) = iter[1 .. n]
  BY DEF Modules, FoldLeft, MapThenFoldSet
<1> HIDE DEF iter
<1>10. \A s \in W : iter[s] = IF s = {} THEN Nothing ELSE ApplyModule(iter[s \ {Max(s)}], order[Max(s)])
  BY <1>8
<1>11. f[0] = Nothing
  <2>1. 1 .. 0 = {} /\ 0 \in 0 .. n /\ {} \in W
    OBVIOUS
  <2> QED BY <1>10, <2>1
<1>12. ASSUME NEW k \in 1 .. n PROVE f[k] = ApplyModule(f[k - 1], order[k])
  <2>1. /\ Max(1 .. k) = k /\ (1 .. k) \ {Max(1 .. k)} = 1 .. (k - 1)
        /\ k - 1 \in 0 .. n /\ k \in 0 .. n /\ 1 .. k \in W /\ 1 .. k # {}
    BY ONLY n \in Nat, k \in 1 .. n, LastIndex
  <2>2. f[k] = iter[1 .. k] /\ f[k - 1] = iter[1 .. (k - 1)]
    BY <2>1
  <2>3. iter[1 .. k] = ApplyModule(iter[(1 .. k) \ {Max(1 .. k)}], order[Max(1 .. k)])
    BY <1>10, <2>1
  <2> QED BY <2>1, <2>2, <2>3
<1>13. Modules(order) = f[n]
  BY <1>9
<1>14. \A k \in 0 .. n : f[k] \in V
  <2>1. \A k \in 1 .. n : f[k - 1] \in V => f[k] \in V
    <3> TAKE k \in 1 .. n
    <3>1. order[k] \in Ids
      OBVIOUS
    <3>2. f[k] = ApplyModule(f[k - 1], order[k])
      BY <1>12
    <3> HIDE DEF V, f
    <3> QED BY <1>1, <3>1, <3>2
  <2> HIDE DEF V, f
  <2> QED BY <1>2, <1>11, <2>1, FoldKeeps
<1> QED BY <1>11, <1>12, <1>13, <1>14

LEMMA ProfilesAre ==
  ASSUME NEW n \in Nat, NEW order \in [1 .. n -> Ids]
  PROVE  \E f : /\ f[0] = Nothing /\ Profiles(order) = f[n]
                /\ \A k \in 1 .. n : f[k] = ApplyProfile(f[k - 1], order[k])
<1> DEFINE W == SUBSET (1 .. n)
           K == {<<content[i].payload.domain, content[i].payload.key>> : i \in Ids}
           E == {content[i].payload.value : i \in Ids}
           V == Regs(K, E)
           st == [k \in 1 .. n |-> [x \in V |-> ApplyProfile(x, order[k])]]
           Right(g) == g = [s \in W |-> IF s = {} THEN Nothing
                                         ELSE ApplyProfile(g[s \ {Max(s)}], order[Max(s)])]
           iter == CHOOSE g : Right(g)
           f == [k \in 0 .. n |-> iter[1 .. k]]
<1>1. ASSUME NEW id \in Ids, NEW reg \in V PROVE ApplyProfile(reg, id) \in V
  <2> DEFINE e == content[id].payload
  <2>1. <<e.domain, e.key>> \in K /\ e.value \in E
    OBVIOUS
  <2> HIDE DEF K, E, e
  <2>2. With(reg, <<e.domain, e.key>>, e.value) \in V /\ Without(reg, <<e.domain, e.key>>) \in V
    BY <2>1, WithIn
  <2> HIDE DEF V
  <2> QED BY <2>2 DEF ApplyProfile, e
<1>2. Nothing \in V
  BY NothingIn
<1>3. Steps(st, n, V)
  BY <1>1 DEF Steps
<1>4. PICK it \in [W -> V] : Folds(st, n, Nothing, it)
  <2> HIDE DEF V, st
  <2> QED BY ONLY n \in Nat, <1>2, <1>3, FoldSets
<1>5. \A s \in W : s # {} => Max(s) \in 1 .. n /\ s \ {Max(s)} \in W
  BY MaxUpTo
<1>6. \A s \in W : it[s] = IF s = {} THEN Nothing ELSE ApplyProfile(it[s \ {Max(s)}], order[Max(s)])
  <2> TAKE s \in W
  <2>1. s # {} => st[Max(s)][it[s \ {Max(s)}]] = ApplyProfile(it[s \ {Max(s)}], order[Max(s)])
    <3> HAVE s # {}
    <3>1. Max(s) \in 1 .. n /\ it[s \ {Max(s)}] \in V
      BY <1>5
    <3> HIDE DEF V
    <3> QED BY <3>1
  <2> QED BY <1>4, <2>1 DEF After, Folds
<1>7. Right(it)
  <2> HIDE DEF V
  <2> QED BY <1>6
<1>8. Right(iter)
  <2> HIDE DEF Right
  <2> QED BY <1>7
<1>9. Profiles(order) = iter[1 .. n]
  BY DEF Profiles, FoldLeft, MapThenFoldSet
<1> HIDE DEF iter
<1>10. \A s \in W : iter[s] = IF s = {} THEN Nothing ELSE ApplyProfile(iter[s \ {Max(s)}], order[Max(s)])
  BY <1>8
<1>11. f[0] = Nothing
  <2>1. 1 .. 0 = {} /\ 0 \in 0 .. n /\ {} \in W
    OBVIOUS
  <2> QED BY <1>10, <2>1
<1>12. ASSUME NEW k \in 1 .. n PROVE f[k] = ApplyProfile(f[k - 1], order[k])
  <2>1. /\ Max(1 .. k) = k /\ (1 .. k) \ {Max(1 .. k)} = 1 .. (k - 1)
        /\ k - 1 \in 0 .. n /\ k \in 0 .. n /\ 1 .. k \in W /\ 1 .. k # {}
    BY ONLY n \in Nat, k \in 1 .. n, LastIndex
  <2>2. f[k] = iter[1 .. k] /\ f[k - 1] = iter[1 .. (k - 1)]
    BY <2>1
  <2>3. iter[1 .. k] = ApplyProfile(iter[(1 .. k) \ {Max(1 .. k)}], order[Max(1 .. k)])
    BY <1>10, <2>1
  <2> QED BY <2>1, <2>2, <2>3
<1>13. Profiles(order) = f[n]
  BY <1>9
<1> QED BY <1>11, <1>12, <1>13

(* The registration of an event that makes a claim of a key: it has it,    *)
(* unless the key is taken.                                                *)
Takes(reg, new, id, claims, k) ==
  IF claims /\ k \notin DOMAIN reg
  THEN /\ DOMAIN new = DOMAIN reg \cup {k} /\ new[k].by = id
       /\ \A x \in DOMAIN reg : new[x].by = reg[x].by
  ELSE DOMAIN new = DOMAIN reg /\ \A x \in DOMAIN reg : new[x].by = reg[x].by

\* At i, the first claim of x.
IsFirst(order, C, key, i, x) ==
  /\ order[i] \in C /\ key[order[i]] = x
  /\ \A j \in 1 .. (i - 1) : order[j] \in C => key[order[j]] # x

\* A registry of the first claims, of the first k events.
FirstsOf(order, C, key, k, reg) ==
  /\ \A x \in DOMAIN reg : \E i \in 1 .. k : reg[x].by = order[i] /\ IsFirst(order, C, key, i, x)
  /\ \A i \in 1 .. k : order[i] \in C => key[order[i]] \in DOMAIN reg

LEMMA FirstWins ==
  ASSUME NEW n \in Nat, NEW order, NEW C, NEW key, NEW f, DOMAIN f[0] = {},
         \A k \in 1 .. n : Takes(f[k - 1], f[k], order[k], order[k] \in C, key[order[k]])
  PROVE  FirstsOf(order, C, key, n, f[n])
<1> DEFINE S == {k \in 0 .. n : FirstsOf(order, C, key, k, f[k])}
<1>1. 0 \in S
  <2>1. FirstsOf(order, C, key, 0, f[0])
    BY DEF FirstsOf
  <2> QED BY <2>1
<1>2. ASSUME NEW m \in 0 .. (n - 1), m \in S PROVE m + 1 \in S
  <2> DEFINE k == m + 1
             id == order[k]
             x == key[id]
             old == f[m]
             new == f[k]
  <2>1. k \in 1 .. n /\ k - 1 = m /\ k \in 0 .. n /\ m \in Nat
    OBVIOUS
  <2>2. Takes(old, new, id, id \in C, x)
    BY <2>1
  <2>3. /\ \A y \in DOMAIN old : \E i \in 1 .. m : old[y].by = order[i] /\ IsFirst(order, C, key, i, y)
        /\ \A i \in 1 .. m : order[i] \in C => key[order[i]] \in DOMAIN old
    BY <1>2 DEF FirstsOf
  <2> HIDE DEF old, new
  <2>4. DOMAIN old \subseteq DOMAIN new /\ \A y \in DOMAIN old : new[y].by = old[y].by
    BY <2>2 DEF Takes
  <2>5. \A y \in DOMAIN new : \E i \in 1 .. k : new[y].by = order[i] /\ IsFirst(order, C, key, i, y)
    <3> TAKE y \in DOMAIN new
    <3>1. CASE y \in DOMAIN old
      BY <2>1, <2>3, <2>4, <3>1
    <3>2. CASE y \notin DOMAIN old
      <4>1. id \in C /\ y = x /\ new[y].by = id
        BY <2>2, <3>2 DEF Takes
      <4>2. \A j \in 1 .. (k - 1) : order[j] \in C => key[order[j]] # y
        BY <2>1, <2>3, <3>2
      <4>3. IsFirst(order, C, key, k, y)
        BY <4>1, <4>2 DEF IsFirst
      <4> QED BY <2>1, <4>1, <4>3
    <3> QED BY <3>1, <3>2
  <2>6. \A i \in 1 .. k : order[i] \in C => key[order[i]] \in DOMAIN new
    <3> TAKE i \in 1 .. k
    <3> HAVE order[i] \in C
    <3>1. CASE i = k
      BY <2>2, <3>1 DEF Takes
    <3>2. CASE i # k
      <4>1. i \in 1 .. m
        BY <3>2
      <4> QED BY <2>3, <2>4, <4>1
    <3> QED BY <3>1, <3>2
  <2>7. FirstsOf(order, C, key, k, f[k])
    BY <2>5, <2>6 DEF FirstsOf, new
  <2> QED BY <2>1, <2>7
<1>3. 0 .. n \subseteq S
  <2> HIDE DEF S
  <2> QED BY <1>1, <1>2, Induction
<1> QED BY <1>3

-----------------------------------------------------------------------------
(* What counts as a registration, if the key is free                       *)

IdentityClaims ==
  {i \in Ids : LET e == content[i].payload IN
     /\ e.type = "identity-register"
     /\ e.burned > 0 /\ e.burned >= RequiredBurnLamports(e.slot)}

FormulaClaims ==
  {i \in Ids : LET e == content[i].payload IN e.type = "formula-register" /\ e.id # Genesis}

ModuleClaims ==
  {i \in Ids : LET e == content[i].payload IN
     /\ e.type = "module-register"
     /\ ~(e.economics # None /\ ~ValidEconomics(e.economics))}

Owner == [i \in Ids |-> Domain(i)]
Name == [i \in Ids |-> content[i].payload.id]

(* A burn's signature is of the wallet whose identity it registers: no     *)
(* event claims one domain's burn for another's identity.                  *)
Signed ==
  \A i \in DOMAIN content : Type(i) = "identity-register" => content[i].payload.signature[1] = Domain(i)

LEMMA TakesWith ==
  ASSUME NEW reg, NEW new, NEW id, NEW C, NEW k, NEW entry, entry.by = id,
         new = IF id \in C /\ k \notin DOMAIN reg THEN With(reg, k, entry) ELSE reg
  PROVE  Takes(reg, new, id, id \in C, k)
<1>1. CASE id \in C /\ k \notin DOMAIN reg
  <2>1. new = With(reg, k, entry)
    BY <1>1
  <2>2. DOMAIN new = DOMAIN reg \cup {k} /\ new[k] = entry /\ \A x \in DOMAIN reg : new[x] = reg[x]
    BY <1>1, <2>1 DEF With
  <2> QED BY <1>1, <2>2 DEF Takes
<1>2. CASE ~(id \in C /\ k \notin DOMAIN reg)
  BY <1>2 DEF Takes
<1> QED BY <1>1, <1>2

LEMMA FormulasFirst ==
  ASSUME NEW n \in Nat, NEW order \in [1 .. n -> Ids]
  PROVE  FirstsOf(order, FormulaClaims, Name, n, Formulas(order))
<1>1. PICK f : /\ f[0] = Nothing /\ Formulas(order) = f[n]
               /\ \A k \in 1 .. n : f[k] = ApplyFormula(f[k - 1], order[k])
  BY FormulasAre
<1>2. ASSUME NEW reg, NEW id \in Ids
      PROVE  Takes(reg, ApplyFormula(reg, id), id, id \in FormulaClaims, Name[id])
  <2> DEFINE e == content[id].payload
             entry == [params |-> e.params, by |-> id]
  <2>1. entry.by = id
    OBVIOUS
  <2>2. Name[id] = e.id
    BY DEF Name
  <2>3. id \in FormulaClaims <=> e.type = "formula-register" /\ e.id # Genesis
    BY DEF FormulaClaims
  <2>4. ApplyFormula(reg, id) = IF id \in FormulaClaims /\ Name[id] \notin DOMAIN reg
                                THEN With(reg, Name[id], entry) ELSE reg
    BY <2>2, <2>3 DEF ApplyFormula
  <2> HIDE DEF e, entry
  <2> QED BY <2>1, <2>4, TakesWith
<1>3. \A k \in 1 .. n :
        Takes(f[k - 1], f[k], order[k], order[k] \in FormulaClaims, Name[order[k]])
  <2> TAKE k \in 1 .. n
  <2>1. order[k] \in Ids
    OBVIOUS
  <2> QED BY <1>1, <1>2, <2>1
<1>4. DOMAIN f[0] = {}
  BY <1>1, NothingIn
<1>5. FirstsOf(order, FormulaClaims, Name, n, f[n])
  BY <1>3, <1>4, FirstWins
<1> QED BY <1>1, <1>5

LEMMA ModuleTakes ==
  ASSUME NEW reg \in Regs(ModuleIds, ModuleEntries), NEW id \in Ids
  PROVE  Takes(reg, ApplyModule(reg, id), id, id \in ModuleClaims, Name[id])
<1> DEFINE e == content[id].payload
           entry == [author |-> e.author, code |-> e.code, audit |-> "unaudited", by |-> id]
           new == ApplyModule(reg, id)
<1>1. entry.by = id
  OBVIOUS
<1>2. Name[id] = e.id
  BY DEF Name
<1>3. id \in ModuleClaims <=>
        e.type = "module-register" /\ ~(e.economics # None /\ ~ValidEconomics(e.economics))
  BY DEF ModuleClaims
<1>4. Register(reg, e, id) =
        IF Name[id] \in DOMAIN reg \/ (e.economics # None /\ ~ValidEconomics(e.economics))
        THEN reg ELSE With(reg, Name[id], entry)
  BY <1>2 DEF Register
<1>5. CASE e.type = "module-register"
  <2>1. new = Register(reg, e, id)
    BY <1>5 DEF ApplyModule
  <2>2. new = IF id \in ModuleClaims /\ Name[id] \notin DOMAIN reg
              THEN With(reg, Name[id], entry) ELSE reg
    <3> HIDE DEF e, entry, new
    <3> QED BY <1>3, <1>4, <1>5, <2>1
  <2> HIDE DEF e, entry, new
  <2>3. Takes(reg, new, id, id \in ModuleClaims, Name[id])
    BY <1>1, <2>2, TakesWith
  <2> QED BY <2>3 DEF new
<1>6. CASE e.type # "module-register"
  <2>1. id \notin ModuleClaims
    BY <1>3, <1>6
  <2>2. new \in {reg, UpdateCode(reg, e), SetAuditStatus(reg, e)}
    BY <1>6 DEF ApplyModule
  <2>3. DOMAIN new = DOMAIN reg /\ \A x \in DOMAIN reg : new[x].by = reg[x].by
    <3>1. \A x \in DOMAIN reg : reg[x] \in ModuleEntries
      BY RegsDomain
    <3> HIDE DEF e, new
    <3>2. CASE new = reg
      BY <3>2
    <3>3. CASE new = UpdateCode(reg, e)
      BY <3>1, <3>3 DEF UpdateCode, ModuleEntries
    <3>4. CASE new = SetAuditStatus(reg, e)
      BY <3>1, <3>4 DEF SetAuditStatus, ModuleEntries
    <3> QED BY <2>2, <3>2, <3>3, <3>4
  <2> HIDE DEF new
  <2>4. Takes(reg, new, id, id \in ModuleClaims, Name[id])
    BY <2>1, <2>3 DEF Takes
  <2> QED BY <2>4 DEF new
<1> QED BY <1>5, <1>6

LEMMA ModulesFirst ==
  ASSUME NEW n \in Nat, NEW order \in [1 .. n -> Ids]
  PROVE  FirstsOf(order, ModuleClaims, Name, n, Modules(order))
<1>1. PICK f : /\ f[0] = Nothing /\ Modules(order) = f[n]
               /\ \A k \in 1 .. n : f[k] = ApplyModule(f[k - 1], order[k])
               /\ \A k \in 0 .. n : f[k] \in Regs(ModuleIds, ModuleEntries)
  BY ModulesAre
<1>2. \A k \in 1 .. n :
        Takes(f[k - 1], f[k], order[k], order[k] \in ModuleClaims, Name[order[k]])
  <2> TAKE k \in 1 .. n
  <2>1. order[k] \in Ids /\ k - 1 \in 0 .. n
    OBVIOUS
  <2> QED BY <1>1, <2>1, ModuleTakes
<1>3. DOMAIN f[0] = {}
  BY <1>1, NothingIn
<1>4. FirstsOf(order, ModuleClaims, Name, n, f[n])
  BY <1>2, <1>3, FirstWins
<1> QED BY <1>1, <1>4

(* A signature that backs an identity is of the domain whose it is, so     *)
(* that only a second registration of a domain finds its own taken.        *)
LEMMA IdentitiesFirst ==
  ASSUME Signed, DOMAIN content \subseteq Ids, NEW n \in Nat, NEW order \in [1 .. n -> DOMAIN content]
  PROVE  FirstsOf(order, IdentityClaims, Owner, n, Identities(order))
<1>0. order \in [1 .. n -> Ids]
  OBVIOUS
<1>1. PICK f : /\ f[0] = Nothing /\ Identities(order) = f[n]
               /\ \A k \in 1 .. n : f[k] = ApplyIdentity(f[k - 1], order[k])
  BY <1>0, IdentitiesAre
<1> DEFINE Own(reg) == \A d \in DOMAIN reg : reg[d].signature[1] = d
<1>2. ASSUME NEW reg, NEW id \in DOMAIN content, Own(reg)
      PROVE  /\ Takes(reg, ApplyIdentity(reg, id), id, id \in IdentityClaims, Owner[id])
             /\ Own(ApplyIdentity(reg, id))
  <2> DEFINE e == content[id].payload
             entry == [signature |-> e.signature, burned |-> e.burned, by |-> id]
             new == ApplyIdentity(reg, id)
             unused == \A d \in DOMAIN reg : reg[d].signature # e.signature
  <2>1. entry.by = id /\ entry.signature = e.signature
    OBVIOUS
  <2>2. Owner[id] = e.domain
    BY DEF Owner, Domain
  <2>3. id \in IdentityClaims <=> /\ e.type = "identity-register"
                                 /\ e.burned > 0 /\ e.burned >= RequiredBurnLamports(e.slot)
    BY DEF IdentityClaims
  <2>4. id \in IdentityClaims => e.signature[1] = e.domain
    BY <2>3 DEF Signed, Type, Domain
  <2>5. new = IF id \in IdentityClaims /\ unused /\ Owner[id] \notin DOMAIN reg
              THEN With(reg, Owner[id], entry) ELSE reg
    <3> HIDE DEF entry, unused
    <3>1. new = IF /\ e.type = "identity-register" /\ unused /\ e.domain \notin DOMAIN reg
                   /\ e.burned > 0 /\ e.burned >= RequiredBurnLamports(e.slot)
                THEN With(reg, e.domain, entry) ELSE reg
      BY DEF ApplyIdentity, entry, unused
    <3> HIDE DEF new, e
    <3> QED BY <2>2, <2>3, <3>1
  <2> HIDE DEF e, entry, new
  <2>6. id \in IdentityClaims /\ Owner[id] \notin DOMAIN reg => unused
    BY <1>2, <2>2, <2>4
  <2> HIDE DEF unused
  <2>7. new = IF id \in IdentityClaims /\ Owner[id] \notin DOMAIN reg
              THEN With(reg, Owner[id], entry) ELSE reg
    BY <2>5, <2>6
  <2>8. Takes(reg, new, id, id \in IdentityClaims, Owner[id])
    BY <2>1, <2>7, TakesWith
  <2>9. Own(new)
    <3> TAKE d \in DOMAIN new
    <3>1. CASE id \in IdentityClaims /\ Owner[id] \notin DOMAIN reg
      <4>1. new = With(reg, Owner[id], entry)
        BY <2>7, <3>1
      <4>2. /\ DOMAIN new = DOMAIN reg \cup {Owner[id]} /\ new[Owner[id]] = entry
            /\ \A x \in DOMAIN reg : x # Owner[id] => new[x] = reg[x]
        BY <4>1 DEF With
      <4> QED BY <1>2, <2>1, <2>2, <2>4, <3>1, <4>2
    <3>2. CASE ~(id \in IdentityClaims /\ Owner[id] \notin DOMAIN reg)
      BY <1>2, <2>7, <3>2
    <3> QED BY <3>1, <3>2
  <2> QED BY <2>8, <2>9 DEF new
<1> DEFINE S == {k \in 0 .. n : Own(f[k])}
<1>3. \A k \in 0 .. n : Own(f[k])
  <2>1. 0 \in S
    BY <1>1, NothingIn
  <2>2. ASSUME NEW m \in 0 .. (n - 1), m \in S PROVE m + 1 \in S
    <3>1. m + 1 \in 1 .. n /\ (m + 1) - 1 = m /\ m + 1 \in 0 .. n
      OBVIOUS
    <3>2. f[m + 1] = ApplyIdentity(f[m], order[m + 1]) /\ order[m + 1] \in DOMAIN content
      BY <1>1, <3>1
    <3>3. Own(f[m])
      BY <2>2
    <3> HIDE DEF Own
    <3> QED BY <1>2, <3>1, <3>2, <3>3
  <2>3. 0 .. n \subseteq S
    <3> HIDE DEF S
    <3> QED BY <2>1, <2>2, Induction
  <2> QED BY <2>3
<1>4. \A k \in 1 .. n :
        Takes(f[k - 1], f[k], order[k], order[k] \in IdentityClaims, Owner[order[k]])
  <2> TAKE k \in 1 .. n
  <2>1. order[k] \in DOMAIN content /\ k - 1 \in 0 .. n
    OBVIOUS
  <2>2. Own(f[k - 1])
    BY <1>3, <2>1
  <2>3. f[k] = ApplyIdentity(f[k - 1], order[k])
    BY <1>1
  <2> HIDE DEF Own
  <2> QED BY <1>2, <2>1, <2>2, <2>3
<1>5. DOMAIN f[0] = {}
  BY <1>1, NothingIn
<1>6. FirstsOf(order, IdentityClaims, Owner, n, f[n])
  BY <1>4, <1>5, FirstWins
<1> QED BY <1>1, <1>6

Claims == IdentityClaims \cup FormulaClaims \cup ModuleClaims

\* A claim of a key that no earlier event claims.
Undisputed(id) == id \in Claims /\ \A a \in Ancestors[id] \cap Claims : Key(a) # Key(id)

\* Registries are of the first claims, of an identity if its burns are signed.
Trusted(key) == key[1] # "identity" \/ Signed

LEMMA KeyOf ==
  /\ \A id \in IdentityClaims : Key(id) = <<"identity", Owner[id]>>
  /\ \A id \in FormulaClaims : Key(id) = <<"formula", Name[id]>>
  /\ \A id \in ModuleClaims : Key(id) = <<"module", Name[id]>>
<1>1. ASSUME NEW id \in IdentityClaims PROVE Key(id) = <<"identity", Owner[id]>>
  <2>1. content[id].payload.type = "identity-register" /\ id \in Ids
    BY DEF IdentityClaims
  <2> QED BY <2>1 DEF Key, Owner, Domain
<1>2. ASSUME NEW id \in FormulaClaims PROVE Key(id) = <<"formula", Name[id]>>
  <2>1. content[id].payload.type = "formula-register" /\ id \in Ids
    BY DEF FormulaClaims
  <2> QED BY <2>1 DEF Key, Name
<1>3. ASSUME NEW id \in ModuleClaims PROVE Key(id) = <<"module", Name[id]>>
  <2>1. content[id].payload.type = "module-register" /\ id \in Ids
    BY DEF ModuleClaims
  <2> QED BY <2>1 DEF Key, Name
<1> QED BY <1>1, <1>2, <1>3

\* In the order of a replica, the first claim has no other above it.
LEMMA FirstAbove ==
  ASSUME DagInv, NEW r \in Replicas, NEW C, NEW key, NEW reg,
         FirstsOf(TopoOrder(r), C, key, Len(TopoOrder(r)), reg)
  PROVE  /\ \A x \in DOMAIN reg :
              /\ reg[x].by \in dag[r] /\ reg[x].by \in C /\ key[reg[x].by] = x
              /\ \A a \in Ancestors[reg[x].by] : a \in C => key[a] # x
         /\ \A id \in dag[r] : id \in C => key[id] \in DOMAIN reg
<1> DEFINE order == TopoOrder(r)
           n == Len(order)
<1>1. /\ order \in [1 .. n -> dag[r]] /\ n \in Nat
      /\ \A id \in dag[r] : \E i \in 1 .. n : order[i] = id
  BY TopoOrderInOrder
<1>2. \A i \in 1 .. n : \A a \in Ancestors[order[i]] : \E j \in 1 .. (i - 1) : order[j] = a
  BY AncestorsEarlier
<1> HIDE DEF order, n
<1>3. /\ \A x \in DOMAIN reg : \E i \in 1 .. n : reg[x].by = order[i] /\ IsFirst(order, C, key, i, x)
      /\ \A i \in 1 .. n : order[i] \in C => key[order[i]] \in DOMAIN reg
  BY DEF FirstsOf, order, n
<1>4. ASSUME NEW x \in DOMAIN reg
      PROVE  /\ reg[x].by \in dag[r] /\ reg[x].by \in C /\ key[reg[x].by] = x
             /\ \A a \in Ancestors[reg[x].by] : a \in C => key[a] # x
  <2>1. PICK i \in 1 .. n : reg[x].by = order[i] /\ IsFirst(order, C, key, i, x)
    BY <1>3
  <2>2. /\ order[i] \in C /\ key[order[i]] = x
        /\ \A j \in 1 .. (i - 1) : order[j] \in C => key[order[j]] # x
    BY <2>1 DEF IsFirst
  <2>3. \A a \in Ancestors[order[i]] : a \in C => key[a] # x
    BY <1>2, <2>2
  <2> QED BY <1>1, <2>1, <2>2, <2>3
<1>5. ASSUME NEW id \in dag[r], id \in C PROVE key[id] \in DOMAIN reg
  BY <1>1, <1>3, <1>5
<1> QED BY <1>4, <1>5

LEMMA OrderTypes ==
  ASSUME DagInv, NEW r \in Replicas
  PROVE  /\ TopoOrder(r) \in [1 .. Len(TopoOrder(r)) -> Ids] /\ Len(TopoOrder(r)) \in Nat
         /\ TopoOrder(r) \in [1 .. Len(TopoOrder(r)) -> DOMAIN content]
         /\ DOMAIN content \subseteq Ids
<1>1. /\ TopoOrder(r) \in [1 .. Len(TopoOrder(r)) -> dag[r]] /\ Len(TopoOrder(r)) \in Nat
  BY TopoOrderInOrder
<1>2. dag[r] \subseteq DOMAIN content /\ DOMAIN content \subseteq Ids
  BY DEF DagInv
<1> QED BY <1>1, <1>2

LEMMA RegistriesAre ==
  ASSUME DagInv, NEW r \in Replicas
  PROVE  LET order == TopoOrder(r)
         IN  /\ FirstsOf(order, FormulaClaims, Name, Len(order), Formulas(order))
             /\ FirstsOf(order, ModuleClaims, Name, Len(order), Modules(order))
             /\ Signed => FirstsOf(order, IdentityClaims, Owner, Len(order), Identities(order))
BY OrderTypes, FormulasFirst, ModulesFirst, IdentitiesFirst

\* The registrations that count at a replica are claims without an earlier one.
LEMMA RegisteredAre ==
  ASSUME DagInv, NEW r \in Replicas, NEW entry \in Registered(r), Trusted(entry[1])
  PROVE  \E id \in dag[r] : entry = <<Key(id), id>> /\ Undisputed(id)
<1> DEFINE order == TopoOrder(r)
<1>1. ASSUME NEW reg, NEW C \in SUBSET Claims, NEW key, NEW kind,
             FirstsOf(order, C, key, Len(order), reg),
             NEW x \in DOMAIN reg, entry = <<<<kind, x>>, reg[x].by>>,
             \A i \in C : Key(i) = <<kind, key[i]>>,
             \A i \in Claims : Key(i)[1] = kind => i \in C
      PROVE  \E id \in dag[r] : entry = <<Key(id), id>> /\ Undisputed(id)
  <2> DEFINE id == reg[x].by
  <2>1. /\ id \in dag[r] /\ id \in C /\ key[id] = x
        /\ \A a \in Ancestors[id] : a \in C => key[a] # x
    BY <1>1, FirstAbove
  <2>2. Key(id) = <<kind, x>>
    BY <1>1, <2>1
  <2>3. ASSUME NEW a \in Ancestors[id] \cap Claims, Key(a) = Key(id) PROVE FALSE
    <3>1. Key(a)[1] = kind
      BY <2>2, <2>3
    <3>2. a \in C /\ Key(a) = <<kind, key[a]>>
      BY <1>1, <3>1
    <3> QED BY <2>1, <2>2, <2>3, <3>2
  <2>4. Undisputed(id)
    BY <2>1, <2>3 DEF Undisputed
  <2> QED BY <1>1, <2>1, <2>2, <2>4
<1>2. /\ \A i \in Claims : Key(i)[1] = "identity" => i \in IdentityClaims
      /\ \A i \in Claims : Key(i)[1] = "formula" => i \in FormulaClaims
      /\ \A i \in Claims : Key(i)[1] = "module" => i \in ModuleClaims
  BY KeyOf DEF Claims
<1>3. CASE \E x \in DOMAIN Identities(order) : entry = <<<<"identity", x>>, Identities(order)[x].by>>
  <2>1. PICK x \in DOMAIN Identities(order) : entry = <<<<"identity", x>>, Identities(order)[x].by>>
    BY <1>3
  <2>2. FirstsOf(order, IdentityClaims, Owner, Len(order), Identities(order))
    <3>1. entry[1][1] = "identity"
      BY <2>1
    <3> QED BY <3>1, RegistriesAre DEF Trusted
  <2>3. IdentityClaims \in SUBSET Claims
    BY DEF Claims
  <2> HIDE DEF order
  <2> QED BY <1>1, <1>2, <2>1, <2>2, <2>3, KeyOf
<1>4. CASE \E x \in DOMAIN Formulas(order) : entry = <<<<"formula", x>>, Formulas(order)[x].by>>
  <2>1. PICK x \in DOMAIN Formulas(order) : entry = <<<<"formula", x>>, Formulas(order)[x].by>>
    BY <1>4
  <2>2. FirstsOf(order, FormulaClaims, Name, Len(order), Formulas(order))
    BY RegistriesAre
  <2>3. FormulaClaims \in SUBSET Claims
    BY DEF Claims
  <2> HIDE DEF order
  <2> QED BY <1>1, <1>2, <2>1, <2>2, <2>3, KeyOf
<1>5. CASE \E x \in DOMAIN Modules(order) : entry = <<<<"module", x>>, Modules(order)[x].by>>
  <2>1. PICK x \in DOMAIN Modules(order) : entry = <<<<"module", x>>, Modules(order)[x].by>>
    BY <1>5
  <2>2. FirstsOf(order, ModuleClaims, Name, Len(order), Modules(order))
    BY RegistriesAre
  <2>3. ModuleClaims \in SUBSET Claims
    BY DEF Claims
  <2> HIDE DEF order
  <2> QED BY <1>1, <1>2, <2>1, <2>2, <2>3, KeyOf
<1> QED BY <1>3, <1>4, <1>5 DEF Registered

\* And any claim has its key registered.
LEMMA ClaimsRegistered ==
  ASSUME DagInv, NEW r \in Replicas, NEW id \in dag[r], id \in Claims, Trusted(Key(id))
  PROVE  \E by : <<Key(id), by>> \in Registered(r)
<1> DEFINE order == TopoOrder(r)
           identities == Identities(order)
           formulas == Formulas(order)
           modules == Modules(order)
<1>1. Registered(r) = {<<<<"identity", d>>, identities[d].by>> : d \in DOMAIN identities}
                        \cup {<<<<"formula", f>>, formulas[f].by>> : f \in DOMAIN formulas}
                        \cup {<<<<"module", m>>, modules[m].by>> : m \in DOMAIN modules}
  BY DEF Registered
<1>2. /\ FirstsOf(order, FormulaClaims, Name, Len(order), formulas)
      /\ FirstsOf(order, ModuleClaims, Name, Len(order), modules)
      /\ Signed => FirstsOf(order, IdentityClaims, Owner, Len(order), identities)
  BY RegistriesAre
<1> HIDE DEF identities, formulas, modules
<1>3. CASE id \in IdentityClaims
  <2>1. Key(id) = <<"identity", Owner[id]>>
    BY <1>3, KeyOf
  <2>2. FirstsOf(order, IdentityClaims, Owner, Len(order), identities)
    BY <1>2, <2>1 DEF Trusted
  <2>3. Owner[id] \in DOMAIN identities
    BY <1>3, <2>2, FirstAbove
  <2> QED BY <1>1, <2>1, <2>3
<1>4. CASE id \in FormulaClaims
  <2>1. Key(id) = <<"formula", Name[id]>>
    BY <1>4, KeyOf
  <2>2. Name[id] \in DOMAIN formulas
    BY <1>2, <1>4, FirstAbove
  <2> QED BY <1>1, <2>1, <2>2
<1>5. CASE id \in ModuleClaims
  <2>1. Key(id) = <<"module", Name[id]>>
    BY <1>5, KeyOf
  <2>2. Name[id] \in DOMAIN modules
    BY <1>2, <1>5, FirstAbove
  <2> QED BY <1>1, <2>1, <2>2
<1> QED BY <1>3, <1>4, <1>5 DEF Claims

(* So a claim without an earlier one is registered, unless one apart from  *)
(* it is.                                                                  *)
LEMMA Stands ==
  ASSUME DagInv, NEW r \in Replicas, NEW id \in dag[r], Undisputed(id), Trusted(Key(id))
  PROVE  \/ <<Key(id), id>> \in Registered(r)
         \/ \E j \in dag[r] : Key(j) = Key(id) /\ Apart(j, id)
<1>1. PICK by : <<Key(id), by>> \in Registered(r)
  BY ClaimsRegistered DEF Undisputed
<1>2. PICK j \in dag[r] : <<Key(id), by>> = <<Key(j), j>> /\ Undisputed(j)
  <2>1. Trusted(<<Key(id), by>>[1])
    OBVIOUS
  <2> QED BY <1>1, <2>1, RegisteredAre
<1>3. by = j /\ Key(j) = Key(id)
  BY <1>2
<1>4. j \notin Ancestors[id] /\ id \notin Ancestors[j]
  BY <1>2, <1>3 DEF Undisputed
<1> QED BY <1>1, <1>3, <1>4 DEF Apart

-----------------------------------------------------------------------------
(* Handlers, and the events they add                                       *)

Gestures == UNION {Range(v[r]) : v \in Visits, r \in Replicas}

Acts(do) == {g \in Gestures : g.do = do}

Economics ==
  {None} \cup {[backed |-> b] @@ g.economics : b \in BOOLEAN,
               g \in {s \in Acts("submit") : s.economics # None}}

Posts == {[domain |-> r] @@ g.payload : g \in Acts("post"), r \in Replicas}

(* No module posts a registration of an identity, which the page would     *)
(* pass on: those there are, users have burned for.                        *)
OwnBurns == \A p \in Posts : p.type # "identity-register"

GenesisOf(r) == [type |-> "genesis", domain |-> r]
FormulaOf(r, g) == [type |-> "formula-register", id |-> g.id, params |-> g.params, by |-> r]
IdentityOf(r, g) ==
  [type |-> "identity-register", domain |-> r, signature |-> <<r, g.slot>>,
   burned |-> g.lamports, slot |-> g.slot]
UpdateOf(g) == [type |-> "module-update", id |-> g.id, code |-> g.code]
ModuleOf(r, g, e) ==
  [type |-> "module-register", id |-> g.id, code |-> g.code, author |-> r, economics |-> e]

LEMMA PayloadIs ==
  Payload = [type : {"genesis"}, domain : Replicas]
              \cup {FormulaOf(r, g) : g \in Acts("mint"), r \in Replicas}
              \cup {IdentityOf(r, g) : g \in Acts("burn"), r \in Replicas}
              \cup {UpdateOf(g) : g \in Acts("submit")}
              \cup {ModuleOf(r, g, e) : g \in Acts("submit"), r \in Replicas, e \in Economics}
              \cup Posts
BY DEF Payload, Acts, Gestures, Economics, Posts, FormulaOf, IdentityOf, UpdateOf, ModuleOf

\* What a handler of r has as its event says what its user did.
Says(r, g, p) ==
  \/ g.do = "mint" /\ p = FormulaOf(r, g)
  \/ g.do = "burn" /\ p = IdentityOf(r, g)
  \/ g.do = "submit" /\ (p = UpdateOf(g) \/ \E e \in Economics : p = ModuleOf(r, g, e))
  \/ g.do = "post" /\ p = [domain |-> r] @@ g.payload

LEMMA SaidIsPayload ==
  \A r \in Replicas, g \in Gestures : \A p : Says(r, g, p) => p \in Payload
<1> TAKE r \in Replicas, g \in Gestures
<1> TAKE p
<1> HAVE Says(r, g, p)
<1>1. CASE g.do = "mint" /\ p = FormulaOf(r, g)
  BY <1>1, PayloadIs DEF Acts
<1>2. CASE g.do = "burn" /\ p = IdentityOf(r, g)
  BY <1>2, PayloadIs DEF Acts
<1>3. CASE g.do = "submit" /\ p = UpdateOf(g)
  BY <1>3, PayloadIs DEF Acts
<1>4. CASE g.do = "submit" /\ \E e \in Economics : p = ModuleOf(r, g, e)
  <2>1. g \in Acts("submit")
    BY <1>4 DEF Acts
  <2> QED BY <1>4, <2>1, PayloadIs
<1>5. CASE g.do = "post" /\ p = [domain |-> r] @@ g.payload
  <2>1. p \in Posts
    BY <1>5 DEF Posts, Acts
  <2> QED BY <2>1, PayloadIs
<1> QED BY <1>1, <1>2, <1>3, <1>4, <1>5 DEF Says

\* Then a burn's signature is of the domain whose identity it registers.
LEMMA PayloadSigned ==
  OwnBurns => \A p \in Payload : p.type = "identity-register" => p.signature[1] = p.domain
<1> SUFFICES ASSUME OwnBurns, NEW p \in Payload, p.type = "identity-register"
             PROVE  p.signature[1] = p.domain
  OBVIOUS
<1>1. CASE p \in [type : {"genesis"}, domain : Replicas]
  BY <1>1
<1>2. CASE \E g \in Acts("mint"), r \in Replicas : p = FormulaOf(r, g)
  BY <1>2 DEF FormulaOf
<1>3. CASE \E g \in Acts("burn"), r \in Replicas : p = IdentityOf(r, g)
  BY <1>3 DEF IdentityOf
<1>4. CASE \E g \in Acts("submit") : p = UpdateOf(g)
  BY <1>4 DEF UpdateOf
<1>5. CASE \E g \in Acts("submit"), r \in Replicas, e \in Economics : p = ModuleOf(r, g, e)
  BY <1>5 DEF ModuleOf
<1>6. CASE p \in Posts
  BY <1>6 DEF OwnBurns
<1> QED BY <1>1, <1>2, <1>3, <1>4, <1>5, <1>6, PayloadIs

-----------------------------------------------------------------------------
(* What holds of the events and the handlers                               *)

Good(r, h, known) ==
  /\ h.step \in {"broadcasting", "hashing", "validating", "adding"}
  /\ h.g \in Gestures
  /\ h.step = "broadcasting" => h.g.do = "burn"
  /\ h.step = "hashing" => h.g.do = "submit"
  /\ h.step = "validating" => h.g.do = "submit" /\ h.economics \in Economics
  /\ h.step = "adding" => /\ h.event \in [parents : SUBSET known, payload : Payload]
                          /\ Says(r, h.g, h.event.payload)

PageInv ==
  /\ DagInv
  /\ content \in [DOMAIN content -> Event(Payload)]
  /\ todo \in [Replicas -> Seq(Gestures)]
  /\ running = [r \in Replicas |-> running[r]]
  /\ \A r \in Replicas : \A h \in running[r] : Good(r, h, dag[r])
  /\ lastEventId \in [Replicas -> Ids] /\ \A r \in Replicas : lastEventId[r] \in dag[r]

LEMMA PageInit == Init => PageInv
<1> SUFFICES ASSUME Init PROVE PageInv
  OBVIOUS
<1>1. PICK id \in [Replicas -> Ids] :
        /\ \A r, s \in Replicas : id[r] = id[s] => r = s
        /\ content = [i \in {id[r] : r \in Replicas} |-> Genesis0(CHOOSE r \in Replicas : id[r] = i)]
        /\ dag = [r \in Replicas |-> {id[r]}]
        /\ lastEventId = id
  BY DEF Init
<1>2. \A i \in DOMAIN content : \E r \in Replicas :
        content[i] = [parents |-> {}, payload |-> GenesisOf(r)]
  BY <1>1 DEF Genesis0, GenesisOf
<1>3. \A r \in Replicas : GenesisOf(r) \in Payload
  BY PayloadIs DEF GenesisOf
<1>4. content \in [DOMAIN content -> Event(Payload)]
  <2>1. content = [i \in DOMAIN content |-> content[i]]
    BY <1>1
  <2>2. \A i \in DOMAIN content : content[i] \in Event(Payload)
    BY <1>2, <1>3 DEF Event
  <2> QED BY <2>1, <2>2
<1>5. \A i \in DOMAIN content : Parents(i) = {}
  BY <1>2 DEF Parents
<1>6. DagInv
  <2>1. DOMAIN content \subseteq Ids
    BY <1>1
  <2>2. dag \in [Replicas -> SUBSET DOMAIN content]
    BY <1>1
  <2>3. Acyclic
    BY <1>5 DEF Acyclic
  <2> QED BY <1>5, <2>1, <2>2, <2>3 DEF DagInv
<1>7. todo \in [Replicas -> Seq(Gestures)]
  <2>1. todo \in Visits
    BY DEF Init
  <2> DEFINE S == UNION {Range(todo[r]) : r \in DOMAIN todo}
  <2>2. todo \in [Replicas -> Seq(S)]
    BY <2>1, VisitsAssumption
  <2>3. S \subseteq Gestures
    BY <2>1, <2>2 DEF Gestures
  <2>4. \A r \in Replicas : todo[r] \in Seq(Gestures)
    <3> HIDE DEF S
    <3> TAKE r \in Replicas
    <3>1. todo[r] \in Seq(S)
      BY <2>2
    <3> QED BY <2>3, <3>1
  <2>5. todo = [r \in Replicas |-> todo[r]]
    <3> HIDE DEF S
    <3> QED BY <2>2
  <2> QED BY <2>4, <2>5
<1>8. running = [r \in Replicas |-> {}]
  BY DEF Init
<1> QED BY <1>1, <1>4, <1>6, <1>7, <1>8 DEF PageInv

\* What the user does next is what there is still to do.
LEMMA DoesGesture ==
  ASSUME PageInv, NEW r \in Replicas, NEW g, Does(r, g)
  PROVE  g \in Gestures /\ todo' \in [Replicas -> Seq(Gestures)]
<1>1. todo \in [Replicas -> Seq(Gestures)]
  BY DEF PageInv
<1>2. todo[r] \in Seq(Gestures) /\ todo[r] # << >>
  BY <1>1 DEF Does
<1>3. Head(todo[r]) \in Gestures /\ Tail(todo[r]) \in Seq(Gestures)
  BY <1>2
<1> QED BY <1>1, <1>3 DEF Does

\* Handlers that have ended, begun or gone on.
LEMMA HandlersChange ==
  ASSUME PageInv, NEW r \in Replicas, NEW K, running' = [running EXCEPT ![r] = K],
         \A h \in K : h \in running[r] \/ Good(r, h, dag[r]),
         UNCHANGED <<content, dag, lastEventId>>, todo' \in [Replicas -> Seq(Gestures)]
  PROVE  PageInv'
<1>1. DagInv' /\ (content \in [DOMAIN content -> Event(Payload)])'
  BY DEF PageInv, DagInv, Acyclic, Parents
<1>2. running = [s \in Replicas |-> running[s]] /\ dag' = dag
  BY DEF PageInv
<1>3. running' = [s \in Replicas |-> running'[s]]
  BY <1>2
<1>4. ASSUME NEW s \in Replicas, NEW h \in running'[s] PROVE Good(s, h, dag'[s])
  <2>1. CASE s = r
    <3>1. h \in K
      BY <1>2, <2>1
    <3> QED BY <1>2, <2>1, <3>1 DEF PageInv
  <2>2. CASE s # r
    <3>1. h \in running[s]
      BY <1>2, <2>2
    <3> QED BY <1>2, <3>1 DEF PageInv
  <2> QED BY <2>1, <2>2
<1>5. (lastEventId \in [Replicas -> Ids] /\ \A s \in Replicas : lastEventId[s] \in dag[s])'
  BY DEF PageInv
<1> QED BY <1>1, <1>3, <1>4, <1>5 DEF PageInv

LEMMA HandlersStay ==
  ASSUME PageInv, UNCHANGED <<content, dag, lastEventId, running>>, todo' \in [Replicas -> Seq(Gestures)]
  PROVE  PageInv'
<1>1. DagInv' /\ (content \in [DOMAIN content -> Event(Payload)])'
  BY DEF PageInv, DagInv, Acyclic, Parents
<1>2. (running = [s \in Replicas |-> running[s]])'
      /\ (\A s \in Replicas : \A h \in running[s] : Good(s, h, dag[s]))'
  BY DEF PageInv
<1>3. (lastEventId \in [Replicas -> Ids] /\ \A s \in Replicas : lastEventId[s] \in dag[s])'
  BY DEF PageInv
<1> QED BY <1>1, <1>2, <1>3 DEF PageInv

\* More is known: a handler is as good as it was.
LEMMA GoodStays ==
  \A r, h, D, E : D \subseteq E /\ Good(r, h, D) => Good(r, h, E)
BY DEF Good

\* A handler has added its event.
Grown(r, h, id) ==
  /\ h.event \in [parents : SUBSET dag[r], payload : Payload] /\ Says(r, h.g, h.event.payload)
  /\ DagInv' /\ id \in Ids
  /\ DOMAIN content' = DOMAIN content \cup {id}
  /\ \A i \in DOMAIN content : content'[i] = content[i]
  /\ content'[id] = h.event
  /\ dag'[r] = dag[r] \cup {id}
  /\ \A s \in Replicas \ {r} : dag'[s] = dag[s]
  /\ \A i \in DOMAIN content : Ancestors'[i] = Ancestors[i]

LEMMA AddedFacts ==
  ASSUME PageInv, NEW r \in Replicas, NEW h \in running[r], NEW id, NEW keys, Added(r, h, id, keys)
  PROVE  Grown(r, h, id)
<1>1. h.step = "adding" /\ Good(r, h, dag[r]) /\ DagInv
  BY DEF PageInv, Added
<1>2. h.event \in [parents : SUBSET dag[r], payload : Payload] /\ Says(r, h.g, h.event.payload)
  BY <1>1 DEF Good
<1>3. Insert(r, h.event, id) /\ HashIs(h.event, id)
  BY DEF Added, Insert
<1>4. h.event.parents \subseteq dag[r]
  BY <1>2
<1>5. /\ DagInv' /\ dag'[r] = dag[r] \cup {id}
      /\ \A s \in Replicas \ {r} : dag'[s] = dag[s]
  BY <1>1, <1>3, <1>4, InsertDag
<1>6. /\ id \in Ids /\ DOMAIN content' = DOMAIN content \cup {id}
      /\ \A i \in DOMAIN content : content'[i] = content[i]
      /\ content'[id] = h.event
  BY <1>1, <1>3, HashFacts
<1>7. \A i \in DOMAIN content : Ancestors'[i] = Ancestors[i]
  BY <1>1, <1>3, <1>5, AncestorsStay
<1> QED BY <1>2, <1>5, <1>6, <1>7 DEF Grown

LEMMA AddedInv ==
  ASSUME PageInv, NEW r \in Replicas, NEW h \in running[r], NEW id, NEW keys, Added(r, h, id, keys)
  PROVE  PageInv'
<1>1. /\ h.event \in [parents : SUBSET dag[r], payload : Payload]
      /\ DagInv' /\ id \in Ids
      /\ DOMAIN content' = DOMAIN content \cup {id}
      /\ \A i \in DOMAIN content : content'[i] = content[i]
      /\ content'[id] = h.event
      /\ dag'[r] = dag[r] \cup {id}
      /\ \A s \in Replicas \ {r} : dag'[s] = dag[s]
  <2>1. Grown(r, h, id)
    BY AddedFacts
  <2> QED BY <2>1 DEF Grown
<1>2. dag[r] \subseteq Ids
  BY DEF PageInv, DagInv
<1>3. h.event \in Event(Payload)
  BY <1>1, <1>2 DEF Event
<1>4. (content \in [DOMAIN content -> Event(Payload)])'
  <2>1. content \in [DOMAIN content -> Event(Payload)]
    BY DEF PageInv
  <2>2. content' = [i \in DOMAIN content' |-> content'[i]]
    BY DEF Added, Insert, HashIs
  <2>3. \A i \in DOMAIN content' : content'[i] \in Event(Payload)
    BY <1>1, <1>3, <2>1
  <2> QED BY <2>2, <2>3
<1>5. /\ running' = [running EXCEPT ![r] = @ \ {h}] /\ lastEventId' = [lastEventId EXCEPT ![r] = id]
      /\ todo' = todo
  BY DEF Added, Ends
<1>6. \A s \in Replicas : dag[s] \subseteq dag'[s]
  BY <1>1
<1>7. (\A s \in Replicas : \A k \in running[s] : Good(s, k, dag[s]))'
  <2> SUFFICES ASSUME NEW s \in Replicas, NEW k \in running'[s] PROVE Good(s, k, dag'[s])
    OBVIOUS
  <2>1. k \in running[s]
    BY <1>5 DEF PageInv
  <2> QED BY <1>6, <2>1, GoodStays DEF PageInv
<1>8. running' = [s \in Replicas |-> running'[s]]
  BY <1>5 DEF PageInv
<1>9. (lastEventId \in [Replicas -> Ids] /\ \A s \in Replicas : lastEventId[s] \in dag[s])'
  BY <1>1, <1>5 DEF PageInv
<1> QED BY <1>1, <1>4, <1>5, <1>7, <1>8, <1>9 DEF PageInv

LEMMA SyncInv ==
  ASSUME PageInv, NEW r \in Replicas, NEW s \in Replicas, Sync(r, s)
  PROVE  PageInv' /\ \A t \in Replicas : dag[t] \subseteq dag'[t]
<1>1. MergeBothWays(r, s) /\ UNCHANGED <<todo, running, lastEventId, content>>
  BY DEF Sync, handling, MergeBothWays
<1>2. /\ DagInv'
      /\ dag'[r] = dag[r] \cup dag[s] /\ dag'[s] = dag[r] \cup dag[s]
      /\ \A t \in Replicas \ {r, s} : dag'[t] = dag[t]
  BY <1>1, MergeDag DEF PageInv
<1>3. \A t \in Replicas : dag[t] \subseteq dag'[t]
  BY <1>2
<1>4. (\A t \in Replicas : \A k \in running[t] : Good(t, k, dag[t]))'
  BY <1>1, <1>3, GoodStays DEF PageInv
<1>5. (lastEventId \in [Replicas -> Ids] /\ \A t \in Replicas : lastEventId[t] \in dag[t])'
  BY <1>1, <1>3 DEF PageInv
<1> QED BY <1>1, <1>2, <1>3, <1>4, <1>5 DEF PageInv

\* The end of the whole order is an event that is known.
LEMMA LastKnown ==
  ASSUME DagInv, NEW r \in Replicas, dag[r] # {}
  PROVE  Last(TopoOrder(r)) \in dag[r]
<1> DEFINE order == TopoOrder(r)
           n == Len(order)
<1>1. /\ order \in [1 .. n -> dag[r]] /\ n \in Nat
      /\ \A id \in dag[r] : \E i \in 1 .. n : order[i] = id
  BY TopoOrderInOrder
<1> HIDE DEF order
<1>2. n # 0
  BY <1>1
<1>3. n \in 1 .. n
  BY <1>1, <1>2
<1>4. Last(order) = order[n]
  BY DEF Last
<1> QED BY <1>1, <1>3, <1>4 DEF order

LEMMA ReloadInv ==
  ASSUME PageInv, NEW r \in Replicas, NEW g, Reload(r, g)
  PROVE  PageInv'
<1>1. /\ running' = [running EXCEPT ![r] = {}]
      /\ lastEventId' = [lastEventId EXCEPT ![r] = Last(TopoOrder(r))]
      /\ UNCHANGED <<content, dag>> /\ Does(r, g)
  BY DEF Reload
<1>2. DagInv' /\ (content \in [DOMAIN content -> Event(Payload)])'
  BY <1>1 DEF PageInv, DagInv, Acyclic, Parents
<1>3. todo' \in [Replicas -> Seq(Gestures)]
  BY <1>1, DoesGesture
<1>4. running' = [s \in Replicas |-> running'[s]]
      /\ \A s \in Replicas : running'[s] \subseteq running[s]
  BY <1>1 DEF PageInv
<1>5. (\A s \in Replicas : \A k \in running[s] : Good(s, k, dag[s]))'
  BY <1>1, <1>4 DEF PageInv
<1>6. Last(TopoOrder(r)) \in dag[r] /\ dag[r] \subseteq Ids
  BY LastKnown DEF PageInv, DagInv
<1>7. (lastEventId \in [Replicas -> Ids] /\ \A t \in Replicas : lastEventId[t] \in dag[t])'
  BY <1>1, <1>6 DEF PageInv
<1> QED BY <1>2, <1>3, <1>4, <1>5, <1>7 DEF PageInv

LEMMA AddingGood ==
  ASSUME PageInv, NEW r \in Replicas, NEW g \in Gestures
  PROVE  \A p : Says(r, g, p) => Good(r, Adding(r, g, p), dag[r])
<1> TAKE p
<1> HAVE Says(r, g, p)
<1> DEFINE h == Adding(r, g, p)
           e == [parents |-> {lastEventId[r]}, payload |-> p]
<1>1. h.step = "adding" /\ h.g = g /\ h.event = e
  BY DEF Adding
<1>2. p \in Payload
  BY SaidIsPayload
<1>3. e \in [parents : SUBSET dag[r], payload : Payload] /\ e.payload = p
  BY <1>2 DEF PageInv
<1> HIDE DEF h, e
<1>4. Says(r, h.g, h.event.payload)
  BY <1>1, <1>3
<1> QED BY <1>1, <1>3, <1>4 DEF Good, h

LEMMA GestureInv ==
  ASSUME PageInv, NEW r \in Replicas, NEW g,
         \/ Mint(r, g) \/ Choose(r, g) \/ Burn(r, g) \/ Submit(r, g) \/ Post(r, g)
         \/ Advance(r, g) \/ Wait(r, g) \/ RunModule(r, g) \/ Pin(r, g)
         \/ (\E i, j \in DOMAIN shown[r].layout : Drop(r, g, i, j))
         \/ (\E m \in rows[r] : Eject(r, g, m))
  PROVE  PageInv'
<1>0. g \in Gestures /\ todo' \in [Replicas -> Seq(Gestures)]
  <2>1. Does(r, g)
    BY DEF Mint, Choose, Burn, Submit, Post, Advance, Wait, RunModule, Pin, Drop, Eject
  <2> QED BY <2>1, DoesGesture
<1>a. running = [s \in Replicas |-> running[s]] /\ lastEventId[r] \in dag[r]
  BY DEF PageInv
<1>c. \A p : Says(r, g, p) => Good(r, Adding(r, g, p), dag[r])
  BY <1>0, AddingGood
<1>1. CASE Mint(r, g)
  <2> DEFINE h == Adding(r, g, FormulaOf(r, g))
  <2>1. running' = running \/ running' = [running EXCEPT ![r] = running[r] \cup {h}]
    BY <1>1, <1>a DEF Mint, FormulaOf
  <2>2. Good(r, h, dag[r])
    BY <1>1, <1>c DEF Mint, Says
  <2>3. UNCHANGED <<content, dag, lastEventId>>
    BY <1>1 DEF Mint, OnlyHandlers
  <2> HIDE DEF h
  <2>4. \A k \in running[r] \cup {h} : k \in running[r] \/ Good(r, k, dag[r])
    BY <2>2
  <2>5. CASE running' = running
    BY <1>0, <2>3, <2>5, HandlersStay
  <2>6. CASE running' = [running EXCEPT ![r] = running[r] \cup {h}]
    BY <1>0, <2>3, <2>4, <2>6, HandlersChange
  <2> QED BY <2>1, <2>5, <2>6
<1>2. CASE Burn(r, g)
  <2> DEFINE h == [step |-> "broadcasting", g |-> g]
  <2>1. running' = [running EXCEPT ![r] = running[r] \cup {h}]
    BY <1>2, <1>a DEF Burn
  <2>2. Good(r, h, dag[r])
    BY <1>0, <1>2 DEF Burn, Good
  <2>3. UNCHANGED <<content, dag, lastEventId>>
    BY <1>2 DEF Burn, OnlyHandlers
  <2> HIDE DEF h
  <2>4. \A k \in running[r] \cup {h} : k \in running[r] \/ Good(r, k, dag[r])
    BY <2>2
  <2> QED BY <1>0, <2>1, <2>3, <2>4, HandlersChange
<1>3. CASE Submit(r, g)
  <2> DEFINE h == [step |-> "hashing", g |-> g]
  <2>1. running' = [running EXCEPT ![r] = running[r] \cup {h}]
    BY <1>3, <1>a DEF Submit
  <2>2. Good(r, h, dag[r])
    BY <1>0, <1>3 DEF Submit, Good
  <2>3. UNCHANGED <<content, dag, lastEventId>>
    BY <1>3 DEF Submit, OnlyHandlers
  <2> HIDE DEF h
  <2>4. \A k \in running[r] \cup {h} : k \in running[r] \/ Good(r, k, dag[r])
    BY <2>2
  <2> QED BY <1>0, <2>1, <2>3, <2>4, HandlersChange
<1>4. CASE Post(r, g)
  <2> DEFINE h == Adding(r, g, [domain |-> r] @@ g.payload)
  <2>1. running' = [running EXCEPT ![r] = running[r] \cup {h}]
    BY <1>4, <1>a DEF Post
  <2>2. Good(r, h, dag[r])
    BY <1>4, <1>c DEF Post, Says
  <2>3. UNCHANGED <<content, dag, lastEventId>>
    BY <1>4 DEF Post, OnlyHandlers
  <2> HIDE DEF h
  <2>4. \A k \in running[r] \cup {h} : k \in running[r] \/ Good(r, k, dag[r])
    BY <2>2
  <2> QED BY <1>0, <2>1, <2>3, <2>4, HandlersChange
<1>5. CASE \/ Choose(r, g) \/ Advance(r, g) \/ Wait(r, g) \/ RunModule(r, g) \/ Pin(r, g)
           \/ (\E i, j \in DOMAIN shown[r].layout : Drop(r, g, i, j))
           \/ (\E m \in rows[r] : Eject(r, g, m))
  <2>1. UNCHANGED <<content, dag, lastEventId, running>>
    BY <1>5 DEF Choose, Advance, Wait, RunModule, RunsIt, Pin, Drop, Eject, Arranged, handling
  <2> QED BY <1>0, <2>1, HandlersStay
<1> QED BY <1>1, <1>2, <1>3, <1>4, <1>5

LEMMA HandlerInv ==
  ASSUME PageInv, NEW r \in Replicas, NEW h \in running[r],
         \/ BurnFails(r, h) \/ BurnVerified(r, h)
         \/ SubmissionBuilt(r, h) \/ SubmissionRefused(r, h) \/ SubmissionAccepted(r, h)
  PROVE  PageInv'
<1>0. /\ todo' \in [Replicas -> Seq(Gestures)] /\ Good(r, h, dag[r]) /\ h.g \in Gestures
      /\ UNCHANGED <<content, dag, lastEventId>>
  BY DEF PageInv, Good, BurnFails, BurnVerified, SubmissionBuilt, SubmissionRefused,
         SubmissionAccepted, OnlyHandlers
<1>a. running = [s \in Replicas |-> running[s]] /\ lastEventId[r] \in dag[r]
  BY DEF PageInv
<1>c. \A p : Says(r, h.g, p) => Good(r, Adding(r, h.g, p), dag[r])
  BY <1>0, AddingGood
<1>d. ASSUME NEW k, GoesOn(r, h, k), Good(r, k, dag[r]) PROVE PageInv'
  <2> DEFINE K == (running[r] \ {h}) \cup {k}
  <2>1. running' = [running EXCEPT ![r] = K]
    BY <1>a, <1>d DEF GoesOn
  <2>2. \A l \in K : l \in running[r] \/ Good(r, l, dag[r])
    BY <1>d
  <2> HIDE DEF K
  <2> QED BY <1>0, <2>1, <2>2, HandlersChange
<1>1. CASE BurnFails(r, h) \/ SubmissionRefused(r, h)
  <2> DEFINE K == running[r] \ {h}
  <2>1. running' = [running EXCEPT ![r] = K]
    BY <1>a, <1>1 DEF BurnFails, SubmissionRefused, Ends
  <2>2. \A l \in K : l \in running[r]
    OBVIOUS
  <2> HIDE DEF K
  <2> QED BY <1>0, <2>1, <2>2, HandlersChange
<1>2. CASE BurnVerified(r, h)
  <2>1. GoesOn(r, h, Adding(r, h.g, IdentityOf(r, h.g)))
    BY <1>2 DEF BurnVerified, IdentityOf
  <2>2. Says(r, h.g, IdentityOf(r, h.g))
    BY <1>0, <1>2 DEF BurnVerified, Good, Says
  <2> QED BY <1>c, <1>d, <2>1, <2>2
<1>3. CASE SubmissionBuilt(r, h)
  <2> DEFINE k == [step |-> "validating", g |-> h.g, existing |-> h.g.id \in DOMAIN Modules(TopoOrder(r)),
                   economics |-> IF h.g.economics = None THEN None
                                 ELSE [backed |-> HasIdentityCost(r)] @@ h.g.economics]
  <2>1. GoesOn(r, h, k) /\ h.step = "hashing"
    BY <1>3 DEF SubmissionBuilt
  <2>2. h.g \in Acts("submit")
    BY <1>0, <2>1 DEF Good, Acts
  <2>3. k.economics \in Economics
    <3>1. CASE h.g.economics = None
      BY <3>1 DEF Economics
    <3>2. CASE h.g.economics # None
      <4>1. h.g \in {s \in Acts("submit") : s.economics # None}
        BY <2>2, <3>2
      <4>2. HasIdentityCost(r) \in BOOLEAN
        BY DEF HasIdentityCost
      <4>3. k.economics = [backed |-> HasIdentityCost(r)] @@ h.g.economics
        BY <3>2
      <4> HIDE DEF k
      <4> QED BY <4>1, <4>2, <4>3 DEF Economics
    <3> QED BY <3>1, <3>2
  <2>4. k.step = "validating" /\ k.g = h.g
    OBVIOUS
  <2> HIDE DEF k
  <2>5. Good(r, k, dag[r])
    BY <1>0, <2>2, <2>3, <2>4 DEF Good, Acts
  <2> QED BY <1>d, <2>1, <2>5
<1>4. CASE SubmissionAccepted(r, h)
  <2> DEFINE p == IF h.existing THEN UpdateOf(h.g) ELSE ModuleOf(r, h.g, h.economics)
  <2>1. GoesOn(r, h, Adding(r, h.g, p)) /\ h.step = "validating"
    BY <1>4 DEF SubmissionAccepted, UpdateOf, ModuleOf
  <2>2. Says(r, h.g, p)
    BY <1>0, <2>1 DEF Good, Says
  <2> HIDE DEF p
  <2> QED BY <1>c, <1>d, <2>1, <2>2
<1> QED BY <1>1, <1>2, <1>3, <1>4

\* A step is of one of these kinds.
LEMMA StepKinds ==
  ASSUME Next
  PROVE  \E r \in Replicas :
           \/ \E g :
                \/ Mint(r, g) \/ Choose(r, g) \/ Burn(r, g) \/ Submit(r, g) \/ Post(r, g)
                \/ Advance(r, g) \/ Wait(r, g) \/ RunModule(r, g) \/ Pin(r, g)
                \/ (\E i, j \in DOMAIN shown[r].layout : Drop(r, g, i, j))
                \/ (\E m \in rows[r] : Eject(r, g, m))
           \/ \E g : Reload(r, g)
           \/ \E h \in running[r] :
                \/ BurnFails(r, h) \/ BurnVerified(r, h)
                \/ SubmissionBuilt(r, h) \/ SubmissionRefused(r, h) \/ SubmissionAccepted(r, h)
           \/ \E h \in running[r], id \in Ids :
                \/ Minted(r, h, id) \/ IdentityAdded(r, h, id)
                \/ ModuleAdded(r, h, id) \/ Posted(r, h, id)
           \/ ModuleLoads(r) \/ CloseRunner(r) \/ Render(r)
           \/ CloseFolder(r) \/ \E f \in Folders(shown[r].layout) : OpenFolder(r, f)
           \/ \E s \in Replicas : Sync(r, s)
<1>1. PICK r \in Replicas :
         \/ UserStep(r)
         \/ HandlerStep(r)
         \/ ModuleLoads(r) \/ CloseRunner(r) \/ Render(r)
         \/ CloseFolder(r) \/ \E f \in Folders(shown[r].layout) : OpenFolder(r, f)
         \/ \E s \in Replicas : Sync(r, s)
  BY DEF Next
<1>2. CASE UserStep(r)
  BY <1>2 DEF UserStep
<1>3. CASE HandlerStep(r)
  BY <1>3 DEF HandlerStep
<1> QED BY <1>1, <1>2, <1>3

LEMMA AddedSome ==
  ASSUME NEW r \in Replicas, NEW h \in running[r], NEW id,
         Minted(r, h, id) \/ IdentityAdded(r, h, id) \/ ModuleAdded(r, h, id) \/ Posted(r, h, id)
  PROVE  \E keys : Added(r, h, id, keys)
BY DEF Minted, IdentityAdded, ModuleAdded, Posted

LEMMA PageStep == PageInv /\ [Next]_vars => PageInv'
<1> SUFFICES ASSUME PageInv, [Next]_vars PROVE PageInv'
  OBVIOUS
<1>0. todo \in [Replicas -> Seq(Gestures)]
  BY DEF PageInv
<1>1. CASE UNCHANGED vars
  BY <1>0, <1>1, HandlersStay DEF vars, handling
<1>2. CASE Next
  <2>1. PICK r \in Replicas :
           \/ \E g :
                \/ Mint(r, g) \/ Choose(r, g) \/ Burn(r, g) \/ Submit(r, g) \/ Post(r, g)
                \/ Advance(r, g) \/ Wait(r, g) \/ RunModule(r, g) \/ Pin(r, g)
                \/ (\E i, j \in DOMAIN shown[r].layout : Drop(r, g, i, j))
                \/ (\E m \in rows[r] : Eject(r, g, m))
           \/ \E g : Reload(r, g)
           \/ \E h \in running[r] :
                \/ BurnFails(r, h) \/ BurnVerified(r, h)
                \/ SubmissionBuilt(r, h) \/ SubmissionRefused(r, h) \/ SubmissionAccepted(r, h)
           \/ \E h \in running[r], id \in Ids :
                \/ Minted(r, h, id) \/ IdentityAdded(r, h, id)
                \/ ModuleAdded(r, h, id) \/ Posted(r, h, id)
           \/ ModuleLoads(r) \/ CloseRunner(r) \/ Render(r)
           \/ CloseFolder(r) \/ \E f \in Folders(shown[r].layout) : OpenFolder(r, f)
           \/ \E s \in Replicas : Sync(r, s)
    BY <1>2, StepKinds
  <2>2. ASSUME NEW h \in running[r], NEW id \in Ids,
               Minted(r, h, id) \/ IdentityAdded(r, h, id) \/ ModuleAdded(r, h, id) \/ Posted(r, h, id)
        PROVE  PageInv'
    BY <2>2, AddedSome, AddedInv
  <2>3. CASE ModuleLoads(r) \/ CloseRunner(r) \/ Render(r) \/ CloseFolder(r)
             \/ \E f \in Folders(shown[r].layout) : OpenFolder(r, f)
    <3>1. UNCHANGED <<content, dag, lastEventId, running, todo>>
      BY <2>3 DEF ModuleLoads, CloseRunner, Render, CloseFolder, OpenFolder, Arranged, handling
    <3> QED BY <1>0, <3>1, HandlersStay
  <2>4. CASE \E s \in Replicas : Sync(r, s)
    BY <2>4, SyncInv
  <2>5. CASE \E g : Reload(r, g)
    BY <2>5, ReloadInv
  <2> QED BY <2>1, <2>2, <2>3, <2>4, <2>5, GestureInv, HandlerInv
<1> QED BY <1>1, <1>2

\* The events and handlers of a page are as they should be.
LEMMA PageSound == Spec => []PageInv
<1> QED BY PageInit, PageStep, PTL DEF Spec

-----------------------------------------------------------------------------
(* What was registered                                                     *)

\* No event is lost, or changed, or comes under another.
Grows ==
  /\ \A i \in DOMAIN content : i \in DOMAIN content' /\ content'[i] = content[i] /\ Ancestors'[i] = Ancestors[i]
  /\ \A r \in Replicas : dag[r] \subseteq dag'[r]

LEMMA SameGrows ==
  ASSUME UNCHANGED <<content, dag>> PROVE Grows
<1>1. Ancestors' = Ancestors
  BY AncestorsSame
<1> QED BY <1>1 DEF Grows

LEMMA StepGrows == PageInv /\ [Next]_vars => Grows
<1> SUFFICES ASSUME PageInv, [Next]_vars PROVE Grows
  OBVIOUS
<1>1. CASE UNCHANGED vars
  BY <1>1, SameGrows DEF vars
<1>2. CASE Next
  <2>1. PICK r \in Replicas :
           \/ \E g :
                \/ Mint(r, g) \/ Choose(r, g) \/ Burn(r, g) \/ Submit(r, g) \/ Post(r, g)
                \/ Advance(r, g) \/ Wait(r, g) \/ RunModule(r, g) \/ Pin(r, g)
                \/ (\E i, j \in DOMAIN shown[r].layout : Drop(r, g, i, j))
                \/ (\E m \in rows[r] : Eject(r, g, m))
           \/ \E g : Reload(r, g)
           \/ \E h \in running[r] :
                \/ BurnFails(r, h) \/ BurnVerified(r, h)
                \/ SubmissionBuilt(r, h) \/ SubmissionRefused(r, h) \/ SubmissionAccepted(r, h)
           \/ \E h \in running[r], id \in Ids :
                \/ Minted(r, h, id) \/ IdentityAdded(r, h, id)
                \/ ModuleAdded(r, h, id) \/ Posted(r, h, id)
           \/ ModuleLoads(r) \/ CloseRunner(r) \/ Render(r)
           \/ CloseFolder(r) \/ \E f \in Folders(shown[r].layout) : OpenFolder(r, f)
           \/ \E s \in Replicas : Sync(r, s)
    BY <1>2, StepKinds
  <2>2. ASSUME NEW g,
                \/ Mint(r, g) \/ Choose(r, g) \/ Burn(r, g) \/ Submit(r, g) \/ Post(r, g)
                \/ Advance(r, g) \/ Wait(r, g) \/ RunModule(r, g) \/ Pin(r, g)
                \/ (\E i, j \in DOMAIN shown[r].layout : Drop(r, g, i, j))
                \/ (\E m \in rows[r] : Eject(r, g, m))
                \/ Reload(r, g)
        PROVE  Grows
    <3>1. UNCHANGED <<content, dag>>
      BY <2>2 DEF Mint, Choose, Burn, Submit, Post, Advance, Wait, RunModule, RunsIt, Pin, Drop, Eject,
           Arranged, OnlyHandlers, Reload
    <3> QED BY <3>1, SameGrows
  <2>3. ASSUME NEW h \in running[r],
                \/ BurnFails(r, h) \/ BurnVerified(r, h)
                \/ SubmissionBuilt(r, h) \/ SubmissionRefused(r, h) \/ SubmissionAccepted(r, h)
        PROVE  Grows
    <3>1. UNCHANGED <<content, dag>>
      BY <2>3 DEF BurnFails, BurnVerified, SubmissionBuilt, SubmissionRefused, SubmissionAccepted,
           OnlyHandlers
    <3> QED BY <3>1, SameGrows
  <2>4. ASSUME NEW h \in running[r], NEW id \in Ids,
               Minted(r, h, id) \/ IdentityAdded(r, h, id) \/ ModuleAdded(r, h, id) \/ Posted(r, h, id)
        PROVE  Grows
    <3>1. Grown(r, h, id)
      BY <2>4, AddedSome, AddedFacts
    <3> QED BY <3>1 DEF Grown, Grows
  <2>5. CASE ModuleLoads(r) \/ CloseRunner(r) \/ Render(r) \/ CloseFolder(r)
             \/ \E f \in Folders(shown[r].layout) : OpenFolder(r, f)
    <3>1. UNCHANGED <<content, dag>>
      BY <2>5 DEF ModuleLoads, CloseRunner, Render, CloseFolder, OpenFolder, Arranged
    <3> QED BY <3>1, SameGrows
  <2>6. ASSUME NEW s \in Replicas, Sync(r, s) PROVE Grows
    <3>1. content' = content
      BY <2>6 DEF Sync, MergeBothWays
    <3>2. Ancestors' = Ancestors
      BY <3>1, AncestorsSame
    <3>3. \A t \in Replicas : dag[t] \subseteq dag'[t]
      BY <2>6, SyncInv
    <3> QED BY <3>1, <3>2, <3>3 DEF Grows
  <2> QED BY <2>1, <2>2, <2>3, <2>4, <2>5, <2>6
<1> QED BY <1>1, <1>2

\* What an event claims, and that no earlier one does, stays.
LEMMA ClaimsStay ==
  ASSUME PageInv, Grows
  PROVE  \A i \in DOMAIN content : /\ Key(i)' = Key(i)
                                   /\ i \in Claims' <=> i \in Claims
                                   /\ Undisputed(i)' <=> Undisputed(i)
<1>1. ASSUME NEW i \in DOMAIN content PROVE Key(i)' = Key(i) /\ (i \in Claims' <=> i \in Claims)
  <2>1. content'[i] = content[i]
    BY DEF Grows
  <2>2. Key(i)' = Key(i)
    BY <2>1 DEF Key
  <2>3. i \in IdentityClaims' <=> i \in IdentityClaims
    BY <2>1 DEF IdentityClaims
  <2>4. i \in FormulaClaims' <=> i \in FormulaClaims
    BY <2>1 DEF FormulaClaims
  <2>5. i \in ModuleClaims' <=> i \in ModuleClaims
    BY <2>1 DEF ModuleClaims
  <2> QED BY <2>2, <2>3, <2>4, <2>5 DEF Claims
<1>2. ASSUME NEW i \in DOMAIN content PROVE Undisputed(i)' <=> Undisputed(i)
  <2>1. Ancestors'[i] = Ancestors[i] /\ Ancestors[i] \subseteq DOMAIN content
    BY AncestorsKnown DEF Grows, PageInv
  <2> QED BY <1>1, <2>1 DEF Undisputed
<1> QED BY <1>1, <1>2

\* The registries that can be relied on, whatever modules post.
Relied(key) == key[1] # "identity" \/ OwnBurns

LEMMA ReliedTrusted == PageInv => \A key : Relied(key) => Trusted(key)
<1> SUFFICES ASSUME PageInv, OwnBurns PROVE Signed
  BY DEF Relied, Trusted
<1>1. \A i \in DOMAIN content : content[i].payload \in Payload
  BY DEF PageInv, Event
<1> QED BY <1>1, PayloadSigned DEF Signed, Type, Domain

Entry(r, entry) == \E id \in dag[r] : entry = <<Key(id), id>> /\ Undisputed(id)

(* What has been rendered as registered is, of its replica's events, a     *)
(* claim that no event above it makes.                                     *)
ShownInv ==
  /\ shown = [r \in Replicas |-> shown[r]]
  /\ \A r \in Replicas : \A entry \in shown[r].entries : Relied(entry[1]) => Entry(r, entry)

LEMMA ShownStep == PageInv /\ ShownInv /\ [Next]_vars => ShownInv'
<1> SUFFICES ASSUME PageInv, ShownInv, [Next]_vars PROVE ShownInv'
  OBVIOUS
<1>1. Grows /\ PageInv'
  BY StepGrows, PageStep
<1>2. ASSUME NEW r \in Replicas, NEW entry, Entry(r, entry) PROVE Entry(r, entry)'
  <2>1. PICK id \in dag[r] : entry = <<Key(id), id>> /\ Undisputed(id)
    BY <1>2 DEF Entry
  <2>2. id \in DOMAIN content /\ id \in dag'[r]
    BY <1>1 DEF PageInv, DagInv, Grows
  <2>3. Key(id)' = Key(id) /\ Undisputed(id)'
    BY <1>1, <2>1, <2>2, ClaimsStay
  <2> QED BY <2>1, <2>2, <2>3 DEF Entry
<1>3. shown' = shown \/ \E r \in Replicas : shown' = [shown EXCEPT ![r] = Present(r)]
  <2>1. CASE UNCHANGED vars
    BY <2>1 DEF vars
  <2>2. CASE Next
    <3>1. PICK r \in Replicas :
             \/ UserStep(r)
             \/ HandlerStep(r)
             \/ ModuleLoads(r) \/ CloseRunner(r) \/ Render(r)
             \/ CloseFolder(r) \/ \E f \in Folders(shown[r].layout) : OpenFolder(r, f)
             \/ \E s \in Replicas : Sync(r, s)
      BY <2>2 DEF Next
    <3>2. CASE UserStep(r)
      BY <3>2 DEF UserStep, Mint, Choose, Burn, Submit, Post, Advance, Wait, RunModule, RunsIt, Pin,
           Drop, Eject, Arranged, OnlyHandlers, Reload
    <3>3. CASE HandlerStep(r)
      BY <3>3 DEF HandlerStep, BurnFails, BurnVerified, SubmissionBuilt, SubmissionRefused,
           SubmissionAccepted, Minted, IdentityAdded, ModuleAdded, Posted, Added, OnlyHandlers
    <3>4. CASE ModuleLoads(r) \/ CloseRunner(r) \/ Render(r)
      BY <3>4 DEF ModuleLoads, CloseRunner, Render
    <3>5. CASE CloseFolder(r) \/ \E f \in Folders(shown[r].layout) : OpenFolder(r, f)
      BY <3>5 DEF CloseFolder, OpenFolder, Arranged
    <3>6. CASE \E s \in Replicas : Sync(r, s)
      BY <3>6 DEF Sync
    <3> QED BY <3>1, <3>2, <3>3, <3>4, <3>5, <3>6
  <2> QED BY <2>1, <2>2
<1>4. ASSUME NEW r \in Replicas, NEW entry \in Present(r).entries, Relied(entry[1]) PROVE Entry(r, entry)
  <2>1. entry \in Registered(r) /\ Trusted(entry[1])
    BY <1>4, ReliedTrusted DEF Present
  <2> QED BY <2>1, RegisteredAre DEF Entry, PageInv
<1>5. shown' = [r \in Replicas |-> shown'[r]]
  BY <1>3 DEF ShownInv
<1>6. ASSUME NEW r \in Replicas, NEW entry \in shown'[r].entries, Relied(entry[1]) PROVE Entry(r, entry)'
  <2>1. shown'[r] = shown[r] \/ shown'[r] = Present(r)
    BY <1>3 DEF ShownInv
  <2>2. Entry(r, entry)
    BY <1>4, <1>6, <2>1 DEF ShownInv
  <2> QED BY <1>2, <2>2
<1> QED BY <1>5, <1>6 DEF ShownInv, Relied

LEMMA ShownHolds == Spec => []ShownInv
<1>1. Init => ShownInv
  BY DEF Init, ShownInv
<1> QED BY <1>1, ShownStep, PageSound, PTL DEF Spec

\* FirstRegistrationStands, of the keys that can be relied on.
LEMMA EntriesStand ==
  ASSUME PageInv, ShownInv, NEW r \in Replicas, NEW entry \in shown[r].entries, Relied(entry[1])
  PROVE  \/ entry \in Registered(r)
         \/ \E id \in dag[r] : Key(id) = entry[1] /\ Apart(id, entry[2])
<1>1. PICK id \in dag[r] : entry = <<Key(id), id>> /\ Undisputed(id)
  BY DEF ShownInv, Entry
<1>2. Trusted(Key(id))
  BY <1>1, ReliedTrusted
<1>3. \/ <<Key(id), id>> \in Registered(r)
      \/ \E j \in dag[r] : Key(j) = Key(id) /\ Apart(j, id)
  BY <1>1, <1>2, Stands DEF PageInv
<1> QED BY <1>1, <1>3

(* What is rendered as a formula's or a module's first registration stays  *)
(* it, unless an event that neither follows nor precedes it registers the  *)
(* same; whatever modules post.                                            *)
THEOREM FormulasAndModulesStand ==
  Spec => [](\A r \in Replicas : LET registered == Registered(r) IN
               \A entry \in shown[r].entries : entry[1][1] # "identity" =>
                 \/ entry \in registered
                 \/ \E id \in dag[r] : Key(id) = entry[1] /\ Apart(id, entry[2]))
<1>1. PageInv /\ ShownInv =>
        \A r \in Replicas : LET registered == Registered(r) IN
          \A entry \in shown[r].entries : entry[1][1] # "identity" =>
            \/ entry \in registered
            \/ \E id \in dag[r] : Key(id) = entry[1] /\ Apart(id, entry[2])
  BY EntriesStand DEF Relied
<1> QED BY <1>1, PageSound, ShownHolds, PTL

(* And so does what is rendered as an identity, for any users, gestures    *)
(* and interleavings of handlers, merges and reloads, if no module posts   *)
(* the registration of an identity: a signature would then be of one       *)
(* domain's burn and in another's event, and whichever comes first in the  *)
(* order of hashes has it.                                                 *)
THEOREM RegistrationsStand ==
  ASSUME OwnBurns
  PROVE  Spec => []FirstRegistrationStands
<1>1. PageInv /\ ShownInv => FirstRegistrationStands
  BY EntriesStand DEF Relied, FirstRegistrationStands
<1> QED BY <1>1, PageSound, ShownHolds, PTL

-----------------------------------------------------------------------------
(* Types                                                                   *)

\* The last submission was at an epoch that has been.
StandingInv ==
  /\ epochs \in [Replicas -> Nat]
  /\ lastSubmission = [r \in Replicas |-> lastSubmission[r]]
  /\ \A r \in Replicas : lastSubmission[r] # None => lastSubmission[r].epochs \in 0 .. epochs[r]

LEMMA StandingStep == StandingInv /\ [Next]_vars => StandingInv'
<1> SUFFICES ASSUME StandingInv, [Next]_vars PROVE StandingInv'
  OBVIOUS
<1>1. \/ UNCHANGED <<epochs, lastSubmission>>
      \/ \E r \in Replicas : epochs' = [epochs EXCEPT ![r] = @ + 1] /\ UNCHANGED lastSubmission
      \/ \E r \in Replicas : /\ UNCHANGED epochs
                            /\ \/ lastSubmission' = [lastSubmission EXCEPT ![r] = None]
                               \/ lastSubmission' = [lastSubmission EXCEPT ![r] = Standing(r)]
  <2>1. CASE UNCHANGED vars
    BY <2>1 DEF vars, handling, desk, local
  <2>2. CASE Next
    <3>1. PICK r \in Replicas :
             \/ UserStep(r)
             \/ HandlerStep(r)
             \/ ModuleLoads(r) \/ CloseRunner(r) \/ Render(r)
             \/ CloseFolder(r) \/ \E f \in Folders(shown[r].layout) : OpenFolder(r, f)
             \/ \E s \in Replicas : Sync(r, s)
      BY <2>2 DEF Next
    <3>2. CASE UserStep(r)
      BY <3>2 DEF UserStep, Mint, Choose, Burn, Submit, Post, Advance, Wait, RunModule, RunsIt, Pin,
           Drop, Eject, Arranged, OnlyHandlers, Reload, handling, desk, local
    <3>3. CASE HandlerStep(r)
      BY <3>3 DEF HandlerStep, BurnFails, BurnVerified, SubmissionBuilt, SubmissionRefused,
           SubmissionAccepted, Minted, IdentityAdded, ModuleAdded, Posted, Added, OnlyHandlers, desk, local
    <3>4. CASE ModuleLoads(r) \/ CloseRunner(r) \/ Render(r)
      BY <3>4 DEF ModuleLoads, CloseRunner, Render, handling, desk, local
    <3>5. CASE CloseFolder(r) \/ \E f \in Folders(shown[r].layout) : OpenFolder(r, f)
      BY <3>5 DEF CloseFolder, OpenFolder, Arranged, handling, desk, local
    <3>6. CASE \E s \in Replicas : Sync(r, s)
      BY <3>6 DEF Sync, handling, desk, local
    <3> QED BY <3>1, <3>2, <3>3, <3>4, <3>5, <3>6
  <2> QED BY <2>1, <2>2
<1>2. CASE UNCHANGED <<epochs, lastSubmission>>
  BY <1>2 DEF StandingInv
<1>3. CASE \E r \in Replicas : epochs' = [epochs EXCEPT ![r] = @ + 1] /\ UNCHANGED lastSubmission
  <2>1. PICK r \in Replicas : epochs' = [epochs EXCEPT ![r] = @ + 1] /\ UNCHANGED lastSubmission
    BY <1>3
  <2>2. epochs' \in [Replicas -> Nat] /\ \A s \in Replicas : epochs[s] <= epochs'[s]
    BY <2>1 DEF StandingInv
  <2>3. ASSUME NEW s \in Replicas, lastSubmission[s] # None
        PROVE  lastSubmission[s].epochs \in 0 .. epochs'[s]
    <3>1. epochs[s] \in Nat /\ epochs'[s] \in Nat /\ epochs[s] <= epochs'[s]
      BY <2>2 DEF StandingInv
    <3>2. lastSubmission[s].epochs \in 0 .. epochs[s]
      BY <2>3 DEF StandingInv
    <3> QED BY <3>1, <3>2
  <2> QED BY <2>1, <2>2, <2>3 DEF StandingInv
<1>4. CASE \E r \in Replicas : /\ UNCHANGED epochs
                              /\ \/ lastSubmission' = [lastSubmission EXCEPT ![r] = None]
                                 \/ lastSubmission' = [lastSubmission EXCEPT ![r] = Standing(r)]
  <2>1. PICK r \in Replicas : /\ UNCHANGED epochs
                              /\ \/ lastSubmission' = [lastSubmission EXCEPT ![r] = None]
                                 \/ lastSubmission' = [lastSubmission EXCEPT ![r] = Standing(r)]
    BY <1>4
  <2>2. epochs[r] \in Nat /\ Standing(r).epochs = epochs[r]
    BY DEF StandingInv, Standing
  <2>3. Standing(r).epochs \in 0 .. epochs[r]
    BY <2>2
  <2> QED BY <2>1, <2>3 DEF StandingInv
<1> QED BY <1>1, <1>2, <1>3, <1>4

\* What the user was told of is known.
ToldKnown ==
  /\ told = [r \in Replicas |-> told[r]]
  /\ \A r \in Replicas : \A k \in DOMAIN told[r] : told[r][k] \in dag[r]

LEMMA ToldKnownStep == PageInv /\ ToldKnown /\ [Next]_vars => ToldKnown'
<1> SUFFICES ASSUME PageInv, ToldKnown, [Next]_vars PROVE ToldKnown'
  OBVIOUS
<1>1. Grows
  BY StepGrows
<1>2. \/ told' = told
      \/ \E r \in Replicas : \E h \in running[r] : \E id, keys : Added(r, h, id, keys)
  <2>1. CASE UNCHANGED vars
    BY <2>1 DEF vars, handling
  <2>2. CASE Next
    <3>1. PICK r \in Replicas :
             \/ UserStep(r)
             \/ HandlerStep(r)
             \/ ModuleLoads(r) \/ CloseRunner(r) \/ Render(r)
             \/ CloseFolder(r) \/ \E f \in Folders(shown[r].layout) : OpenFolder(r, f)
             \/ \E s \in Replicas : Sync(r, s)
      BY <2>2 DEF Next
    <3>2. CASE UserStep(r)
      BY <3>2 DEF UserStep, Mint, Choose, Burn, Submit, Post, Advance, Wait, RunModule, RunsIt, Pin,
           Drop, Eject, Arranged, OnlyHandlers, Reload, handling
    <3>3. CASE HandlerStep(r)
      BY <3>3 DEF HandlerStep, BurnFails, BurnVerified, SubmissionBuilt, SubmissionRefused,
           SubmissionAccepted, Minted, IdentityAdded, ModuleAdded, Posted, OnlyHandlers
    <3>4. CASE ModuleLoads(r) \/ CloseRunner(r) \/ Render(r)
      BY <3>4 DEF ModuleLoads, CloseRunner, Render, handling
    <3>5. CASE CloseFolder(r) \/ \E f \in Folders(shown[r].layout) : OpenFolder(r, f)
      BY <3>5 DEF CloseFolder, OpenFolder, Arranged, handling
    <3>6. CASE \E s \in Replicas : Sync(r, s)
      BY <3>6 DEF Sync, handling
    <3> QED BY <3>1, <3>2, <3>3, <3>4, <3>5, <3>6
  <2> QED BY <2>1, <2>2
<1>3. CASE told' = told
  BY <1>1, <1>3 DEF ToldKnown, Grows
<1>4. CASE \E r \in Replicas : \E h \in running[r] : \E id, keys : Added(r, h, id, keys)
  <2>1. PICK r \in Replicas : \E h \in running[r] : \E id, keys : Added(r, h, id, keys)
    BY <1>4
  <2>2. PICK h \in running[r] : \E id, keys : Added(r, h, id, keys)
    BY <2>1
  <2>3. PICK id, keys : Added(r, h, id, keys)
    BY <2>2
  <2>4. id \in dag'[r]
    <3>1. Grown(r, h, id)
      BY <2>3, AddedFacts
    <3> QED BY <3>1 DEF Grown
  <2>5. /\ told' = [s \in Replicas |-> told'[s]]
        /\ \A s \in Replicas : s # r => told'[s] = told[s]
        /\ told'[r] = [k \in DOMAIN told[r] \cup keys |-> IF k \in keys THEN id ELSE told[r][k]]
    BY <2>3 DEF Added, ToldKnown
  <2>6. ASSUME NEW s \in Replicas, NEW k \in DOMAIN told'[s] PROVE told'[s][k] \in dag'[s]
    <3>1. CASE s # r
      BY <1>1, <2>5, <2>6, <3>1 DEF ToldKnown, Grows
    <3>2. CASE s = r
      BY <1>1, <2>4, <2>5, <2>6, <3>2 DEF ToldKnown, Grows
    <3> QED BY <3>1, <3>2
  <2> QED BY <2>5, <2>6 DEF ToldKnown
<1> QED BY <1>2, <1>3, <1>4

\* An open folder was rendered.
FolderInv ==
  /\ folder = [r \in Replicas |-> folder[r]] /\ shown = [r \in Replicas |-> shown[r]]
  /\ \A r \in Replicas : folder[r] = NoFolder \/ folder[r] \in Folders(shown[r].layout)

LEMMA FolderStep == FolderInv /\ [Next]_vars => FolderInv'
<1> SUFFICES ASSUME FolderInv, [Next]_vars PROVE FolderInv'
  OBVIOUS
<1>1. \/ UNCHANGED <<folder, shown>>
      \/ \E r \in Replicas :
           \/ /\ folder' = [folder EXCEPT ![r] = NoFolder]
              /\ shown' = shown \/ shown' = [shown EXCEPT ![r] = Present(r)]
           \/ \E f \in Folders(shown[r].layout) :
                folder' = [folder EXCEPT ![r] = f] /\ UNCHANGED shown
           \/ Render(r)
  <2>1. CASE UNCHANGED vars
    BY <2>1 DEF vars, handling, desk, local
  <2>2. CASE Next
    <3>1. PICK r \in Replicas :
             \/ UserStep(r)
             \/ HandlerStep(r)
             \/ ModuleLoads(r) \/ CloseRunner(r) \/ Render(r)
             \/ CloseFolder(r) \/ \E f \in Folders(shown[r].layout) : OpenFolder(r, f)
             \/ \E s \in Replicas : Sync(r, s)
      BY <2>2 DEF Next
    <3>2. CASE UserStep(r)
      BY <3>2 DEF UserStep, Mint, Choose, Burn, Submit, Post, Advance, Wait, RunModule, RunsIt, Pin,
           Drop, Eject, Arranged, OnlyHandlers, Reload, handling, desk, local
    <3>3. CASE HandlerStep(r)
      BY <3>3 DEF HandlerStep, BurnFails, BurnVerified, SubmissionBuilt, SubmissionRefused,
           SubmissionAccepted, Minted, IdentityAdded, ModuleAdded, Posted, Added, OnlyHandlers, desk, local
    <3>4. CASE ModuleLoads(r) \/ CloseRunner(r) \/ Render(r)
      BY <3>4 DEF ModuleLoads, CloseRunner, Render, handling, desk, local
    <3>5. CASE CloseFolder(r) \/ \E f \in Folders(shown[r].layout) : OpenFolder(r, f)
      BY <3>5 DEF CloseFolder, OpenFolder, Arranged, handling, desk, local
    <3>6. CASE \E s \in Replicas : Sync(r, s)
      BY <3>6 DEF Sync, handling, desk, local
    <3> QED BY <3>1, <3>2, <3>3, <3>4, <3>5, <3>6
  <2> QED BY <2>1, <2>2
<1>2. CASE UNCHANGED <<folder, shown>>
  BY <1>2 DEF FolderInv
<1>3. ASSUME NEW r \in Replicas, folder' = [folder EXCEPT ![r] = NoFolder],
             shown' = shown \/ shown' = [shown EXCEPT ![r] = Present(r)]
      PROVE  FolderInv'
  BY <1>3 DEF FolderInv
<1>4. ASSUME NEW r \in Replicas, NEW f \in Folders(shown[r].layout),
             folder' = [folder EXCEPT ![r] = f], UNCHANGED shown
      PROVE  FolderInv'
  BY <1>4 DEF FolderInv
<1>5. ASSUME NEW r \in Replicas, Render(r) PROVE FolderInv'
  <2>1. /\ shown' = [shown EXCEPT ![r] = Present(r)]
        /\ folder' = [folder EXCEPT ![r] = IF @ \in Folders(layout[r]) THEN @ ELSE NoFolder]
    BY <1>5 DEF Render
  <2>2. shown'[r].layout = layout[r]
    BY <2>1 DEF Present, FolderInv
  <2>3. folder'[r] = NoFolder \/ folder'[r] \in Folders(shown'[r].layout)
    BY <2>1, <2>2 DEF FolderInv
  <2> QED BY <2>1, <2>3 DEF FolderInv
<1> QED BY <1>1, <1>2, <1>3, <1>4, <1>5

(* Whatever users do and however handlers, merges and reloads interleave:  *)
(* each event is one that a handler writes, of parents that its replica    *)
(* knows; the tip is known, what the user was told of too; and an open     *)
(* folder is one that was rendered.                                        *)
THEOREM PageTypes == Spec => []TypeOK
<1>1. Init => StandingInv /\ ToldKnown /\ FolderInv
  BY NothingIn DEF Init, StandingInv, ToldKnown, FolderInv
<1>2. PageInv /\ StandingInv /\ ToldKnown /\ FolderInv /\ HostTypeOK => TypeOK
  <2> SUFFICES ASSUME PageInv, StandingInv, ToldKnown, FolderInv, HostTypeOK PROVE TypeOK
    OBVIOUS
  <2>1. DagTypeOK(Payload)
    BY DEF DagTypeOK, PageInv, DagInv
  <2>2. ASSUME NEW r \in Replicas, NEW h \in running[r]
        PROVE  /\ h.step \in {"broadcasting", "hashing", "validating", "adding"}
               /\ h.step = "adding" => h.event \in Event(Payload) /\ h.event.parents \subseteq dag[r]
    <3>1. Good(r, h, dag[r])
      BY DEF PageInv
    <3>2. dag[r] \subseteq Ids
      BY DEF PageInv, DagInv
    <3> QED BY <3>1, <3>2 DEF Good, Event
  <2>3. \A r \in Replicas : Range(told[r]) \subseteq dag[r]
    BY DEF ToldKnown, Range
  <2> QED BY <2>1, <2>2, <2>3 DEF TypeOK, PageInv, StandingInv, FolderInv
<1>3. HostTypeOK /\ ClosedMeansStopped => HostTypeOK
  OBVIOUS
<1> QED BY <1>1, <1>2, <1>3, StandingStep, ToldKnownStep, FolderStep, PageSound, HostCorrect,
           PageImplementsHost, PTL DEF Spec

-----------------------------------------------------------------------------
(* What is shown of a module or of a profile                               *)

(* At i, an event that says this of x, and after it no event of those that *)
(* end what was said of x.                                                 *)
IsLast(order, says, ends, n, i, x, v) ==
  /\ <<order[i], x, v>> \in says
  /\ \A j \in (i + 1) .. n : <<order[j], x>> \notin ends

(* A view that shows, after each event, nothing but what the event says,   *)
(* and what it showed before and the event does not end.                   *)
LEMMA LastShown ==
  ASSUME NEW n \in Nat, NEW order, NEW says, NEW ends, NEW seen, seen[0] = {},
         \A k \in 1 .. n : \A p \in seen[k] :
           \/ <<order[k], p[1], p[2]>> \in says
           \/ p \in seen[k - 1] /\ <<order[k], p[1]>> \notin ends
  PROVE  \A p \in seen[n] : \E i \in 1 .. n : IsLast(order, says, ends, n, i, p[1], p[2])
<1> DEFINE Q(k) == \A p \in seen[k] : \E i \in 1 .. k : IsLast(order, says, ends, k, i, p[1], p[2])
           S == {k \in 0 .. n : Q(k)}
<1>1. 0 \in S
  BY 0 \in 0 .. n
<1>2. ASSUME NEW m \in 0 .. (n - 1), m \in S PROVE m + 1 \in S
  <2> DEFINE k == m + 1
  <2>1. k \in 1 .. n /\ k - 1 = m /\ k \in 0 .. n /\ m \in Nat
    OBVIOUS
  <2>2. Q(m)
    BY <1>2
  <2>3. ASSUME NEW p \in seen[k]
        PROVE  \E i \in 1 .. k : IsLast(order, says, ends, k, i, p[1], p[2])
    <3>1. CASE <<order[k], p[1], p[2]>> \in says
      <4>1. (k + 1) .. k = {} /\ k \in 1 .. k
        BY <2>1
      <4>2. IsLast(order, says, ends, k, k, p[1], p[2])
        BY <3>1, <4>1 DEF IsLast
      <4> QED BY <4>1, <4>2
    <3>2. CASE p \in seen[m] /\ <<order[k], p[1]>> \notin ends
      <4>1. PICK i \in 1 .. m : IsLast(order, says, ends, m, i, p[1], p[2])
        BY <2>2, <3>2
      <4>2. \A j \in (i + 1) .. k : j = k \/ j \in (i + 1) .. m
        BY <2>1
      <4>3. IsLast(order, says, ends, k, i, p[1], p[2])
        BY <3>2, <4>1, <4>2 DEF IsLast
      <4> QED BY <2>1, <4>1, <4>3
    <3> QED BY <2>1, <3>1, <3>2
  <2>4. Q(k)
    BY <2>3
  <2> HIDE DEF Q
  <2> QED BY <2>1, <2>4
<1>3. 0 .. n \subseteq S
  <2> HIDE DEF S
  <2> QED BY <1>1, <1>2, Induction
<1>4. Q(n)
  BY <1>3
<1> QED BY <1>4

\* The last to say something has nothing under it that ends what it says.
LEMMA LastStands ==
  ASSUME DagInv, NEW r \in Replicas, NEW says, NEW ends, NEW x, NEW v,
         NEW i \in 1 .. Len(TopoOrder(r)),
         IsLast(TopoOrder(r), says, ends, Len(TopoOrder(r)), i, x, v)
  PROVE  \E a \in dag[r] : <<a, x, v>> \in says
                           /\ \A u \in dag[r] : <<u, x>> \in ends => a \notin Ancestors[u]
<1> DEFINE order == TopoOrder(r)
           n == Len(order)
<1>1. /\ order \in [1 .. n -> dag[r]] /\ n \in Nat
      /\ \A id \in dag[r] : \E j \in 1 .. n : order[j] = id
      /\ \A j, k \in 1 .. n : order[j] = order[k] => j = k
  BY TopoOrderInOrder
<1>2. \A j \in 1 .. n : \A a \in Ancestors[order[j]] : \E k \in 1 .. (j - 1) : order[k] = a
  BY AncestorsEarlier
<1>3. i \in 1 .. n /\ <<order[i], x, v>> \in says /\ \A j \in (i + 1) .. n : <<order[j], x>> \notin ends
  BY DEF IsLast
<1> HIDE DEF order, n
<1>4. order[i] \in dag[r]
  BY <1>1, <1>3
<1>5. ASSUME NEW u \in dag[r], <<u, x>> \in ends, order[i] \in Ancestors[u] PROVE FALSE
  <2>1. PICK j \in 1 .. n : order[j] = u
    BY <1>1
  <2>2. PICK k \in 1 .. (j - 1) : order[k] = order[i]
    BY <1>2, <1>5, <2>1
  <2>3. k = i
    BY <1>1, <1>3, <2>2
  <2>4. j \in (i + 1) .. n
    BY <1>1, <1>3, <2>2, <2>3
  <2> QED BY <1>3, <1>5, <2>1, <2>4
<1> QED BY <1>3, <1>4, <1>5

\* What a verdict is of, and what outdates it; what is published of a key.
Verdicts ==
  {<<a, Name[a], content[a].payload.status>> : a \in {i \in Ids : Type(i) = "module-audit"}}
Updates == {<<u, Name[u]>> : u \in {i \in Ids : Type(i) = "module-update"}}
Place == [i \in Ids |-> <<Domain(i), content[i].payload.key>>]
Published == {i \in Ids : Type(i) = "module-data-published"}
Publications == {<<p, Place[p], content[p].payload.value>> : p \in Published}
Overwrites == {<<p, Place[p]>> : p \in Published}

\* The modules shown as audited, and the profiles, of a registry.
Audited(reg) == {<<m, reg[m].audit>> : m \in {m \in DOMAIN reg : reg[m].audit # "unaudited"}}
Entries(reg) == {<<k, reg[k]>> : k \in DOMAIN reg}

\* One event: a module shown as audited was so, or the event is the audit.
LEMMA AuditedStep ==
  ASSUME NEW reg \in Regs(ModuleIds, ModuleEntries), NEW id \in Ids,
         NEW p \in Audited(ApplyModule(reg, id))
  PROVE  \/ <<id, p[1], p[2]>> \in Verdicts
         \/ p \in Audited(reg) /\ <<id, p[1]>> \notin Updates
<1> DEFINE e == content[id].payload
           new == ApplyModule(reg, id)
<1>0. \A x \in DOMAIN reg : reg[x] \in ModuleEntries
  BY RegsDomain
<1>1. PICK m \in DOMAIN new : p = <<m, new[m].audit>> /\ new[m].audit # "unaudited"
  BY DEF Audited
<1>2. Name[id] = e.id /\ Type(id) = e.type
  BY DEF Name, Type
<1>3. <<id, m>> \in Updates => e.type = "module-update" /\ m = e.id
  BY <1>2 DEF Updates
<1>4. e.type = "module-audit" => <<id, e.id, e.status>> \in Verdicts
  BY <1>2 DEF Verdicts
<1>5. m \in DOMAIN reg /\ new[m] = reg[m] => p \in Audited(reg)
  BY <1>1 DEF Audited
<1> HIDE DEF e
<1>6. CASE e.type = "module-register"
  <2>1. new = Register(reg, e, id)
    BY <1>6 DEF ApplyModule, e
  <2> HIDE DEF new
  <2> DEFINE entry == [author |-> e.author, code |-> e.code, audit |-> "unaudited", by |-> id]
  <2>2. new = reg \/ new = With(reg, e.id, entry)
    BY <2>1 DEF Register
  <2>3. entry.audit = "unaudited"
    OBVIOUS
  <2> HIDE DEF entry
  <2>4. m \in DOMAIN reg /\ new[m] = reg[m]
    <3>1. CASE new = reg
      BY <3>1
    <3>2. CASE new = With(reg, e.id, entry)
      <4>1. /\ DOMAIN new = DOMAIN reg \cup {e.id} /\ new[e.id] = entry
            /\ \A x \in DOMAIN reg : x # e.id => new[x] = reg[x]
        BY <3>2 DEF With
      <4> QED BY <1>1, <2>3, <4>1
    <3> QED BY <2>2, <3>1, <3>2
  <2> QED BY <1>1, <1>3, <1>5, <1>6, <2>4
<1>7. CASE e.type = "module-update"
  <2>1. new = UpdateCode(reg, e)
    BY <1>7 DEF ApplyModule, e
  <2> HIDE DEF new
  <2>2. /\ DOMAIN new = DOMAIN reg
        /\ e.id \in DOMAIN reg => new[e.id].audit = "unaudited"
        /\ \A x \in DOMAIN reg : x # e.id => new[x] = reg[x]
    BY <1>0, <2>1 DEF UpdateCode, ModuleEntries
  <2>3. m # e.id /\ m \in DOMAIN reg /\ new[m] = reg[m]
    BY <1>1, <2>2
  <2> QED BY <1>1, <1>3, <1>5, <2>3
<1>8. CASE e.type = "module-audit"
  <2>1. new = SetAuditStatus(reg, e)
    BY <1>8 DEF ApplyModule, e
  <2> HIDE DEF new
  <2>2. /\ DOMAIN new = DOMAIN reg
        /\ \A x \in DOMAIN reg : new[x] = reg[x] \/ (x = e.id /\ new[x].audit = e.status)
    BY <1>0, <2>1 DEF SetAuditStatus, ModuleEntries
  <2> QED BY <1>1, <1>3, <1>4, <1>5, <1>8, <2>2
<1>9. CASE e.type \notin {"module-register", "module-update", "module-audit"}
  <2>1. new = reg
    BY <1>9 DEF ApplyModule, e
  <2> QED BY <1>1, <1>3, <1>5, <1>9, <2>1
<1> QED BY <1>6, <1>7, <1>8, <1>9

\* One event: what a profile shows it showed, or the event publishes it.
LEMMA EntriesStep ==
  ASSUME NEW reg, NEW id \in Ids, NEW p \in Entries(ApplyProfile(reg, id))
  PROVE  \/ <<id, p[1], p[2]>> \in Publications
         \/ p \in Entries(reg) /\ <<id, p[1]>> \notin Overwrites
<1> DEFINE e == content[id].payload
           new == ApplyProfile(reg, id)
           x == <<e.domain, e.key>>
<1>1. PICK k \in DOMAIN new : p = <<k, new[k]>>
  BY DEF Entries
<1>2. Place[id] = x /\ Type(id) = e.type
  BY DEF Place, Type, Domain
<1>3. <<id, k>> \in Overwrites => e.type = "module-data-published" /\ k = x
  BY <1>2 DEF Overwrites, Published
<1>4. e.type = "module-data-published" => <<id, x, e.value>> \in Publications
  BY <1>2 DEF Publications, Published
<1>5. k \in DOMAIN reg /\ new[k] = reg[k] => p \in Entries(reg)
  BY <1>1 DEF Entries
<1>6. new = IF e.type # "module-data-published" THEN reg
            ELSE IF e.value = None THEN Without(reg, x) ELSE With(reg, x, e.value)
  BY DEF ApplyProfile
<1> HIDE DEF e, new, x
<1>7. CASE e.type # "module-data-published"
  BY <1>1, <1>3, <1>5, <1>6, <1>7
<1>8. CASE e.type = "module-data-published" /\ e.value = None
  <2>1. DOMAIN new = DOMAIN reg \ {x} /\ \A y \in DOMAIN new : new[y] = reg[y]
    BY <1>6, <1>8 DEF Without
  <2>2. k # x /\ k \in DOMAIN reg /\ new[k] = reg[k]
    BY <1>1, <2>1
  <2> QED BY <1>1, <1>3, <1>5, <2>2
<1>9. CASE e.type = "module-data-published" /\ e.value # None
  <2>1. new = With(reg, x, e.value)
    BY <1>6, <1>9
  <2>2. /\ DOMAIN new = DOMAIN reg \cup {x} /\ new[x] = e.value
        /\ \A y \in DOMAIN reg : y # x => new[y] = reg[y]
    BY <2>1 DEF With
  <2>3. CASE k = x
    BY <1>1, <1>4, <1>9, <2>2, <2>3
  <2>4. CASE k # x
    BY <1>1, <1>3, <1>5, <2>2, <2>4
  <2> QED BY <2>3, <2>4
<1> QED BY <1>7, <1>8, <1>9

\* What a replica's views say was never ended by what it knows to follow.
LEMMA NotOutlived ==
  ASSUME DagInv, NEW r \in Replicas
  PROVE  /\ \A p \in Audited(Modules(TopoOrder(r))) :
              \E a \in dag[r] : /\ <<a, p[1], p[2]>> \in Verdicts
                                /\ \A u \in dag[r] : <<u, p[1]>> \in Updates => a \notin Ancestors[u]
         /\ \A p \in Entries(Profiles(TopoOrder(r))) :
              \E a \in dag[r] : /\ <<a, p[1], p[2]>> \in Publications
                                /\ \A u \in dag[r] : <<u, p[1]>> \in Overwrites => a \notin Ancestors[u]
<1> DEFINE order == TopoOrder(r)
           n == Len(order)
<1>1. order \in [1 .. n -> Ids] /\ n \in Nat
  BY OrderTypes
<1>2. \A p \in Audited(Modules(order)) :
        \E i \in 1 .. n : IsLast(order, Verdicts, Updates, n, i, p[1], p[2])
  <2> HIDE DEF order, n
  <2>1. PICK f : /\ f[0] = Nothing /\ Modules(order) = f[n]
                 /\ \A k \in 1 .. n : f[k] = ApplyModule(f[k - 1], order[k])
                 /\ \A k \in 0 .. n : f[k] \in Regs(ModuleIds, ModuleEntries)
    BY <1>1, ModulesAre
  <2> DEFINE seen == [k \in 0 .. n |-> Audited(f[k])]
  <2>2. seen[0] = {}
    BY <1>1, <2>1, NothingIn DEF Audited
  <2>3. ASSUME NEW k \in 1 .. n, NEW p \in seen[k]
        PROVE  \/ <<order[k], p[1], p[2]>> \in Verdicts
               \/ p \in seen[k - 1] /\ <<order[k], p[1]>> \notin Updates
    <3>1. k - 1 \in 0 .. n /\ k \in 0 .. n /\ order[k] \in Ids
      BY <1>1
    <3>2. p \in Audited(ApplyModule(f[k - 1], order[k])) /\ f[k - 1] \in Regs(ModuleIds, ModuleEntries)
      BY <2>1, <3>1
    <3>3. \/ <<order[k], p[1], p[2]>> \in Verdicts
          \/ p \in Audited(f[k - 1]) /\ <<order[k], p[1]>> \notin Updates
      BY <3>1, <3>2, AuditedStep
    <3> QED BY <3>1, <3>3
  <2>4. seen[n] = Audited(Modules(order))
    BY <1>1, <2>1
  <2> HIDE DEF seen
  <2>5. \A p \in seen[n] : \E i \in 1 .. n : IsLast(order, Verdicts, Updates, n, i, p[1], p[2])
    BY <1>1, <2>2, <2>3, LastShown
  <2> QED BY <2>4, <2>5
<1>3. \A p \in Entries(Profiles(order)) :
        \E i \in 1 .. n : IsLast(order, Publications, Overwrites, n, i, p[1], p[2])
  <2> HIDE DEF order, n
  <2>1. PICK f : /\ f[0] = Nothing /\ Profiles(order) = f[n]
                 /\ \A k \in 1 .. n : f[k] = ApplyProfile(f[k - 1], order[k])
    BY <1>1, ProfilesAre
  <2> DEFINE seen == [k \in 0 .. n |-> Entries(f[k])]
  <2>2. seen[0] = {}
    BY <1>1, <2>1, NothingIn DEF Entries
  <2>3. ASSUME NEW k \in 1 .. n, NEW p \in seen[k]
        PROVE  \/ <<order[k], p[1], p[2]>> \in Publications
               \/ p \in seen[k - 1] /\ <<order[k], p[1]>> \notin Overwrites
    <3>1. k - 1 \in 0 .. n /\ k \in 0 .. n /\ order[k] \in Ids
      BY <1>1
    <3>2. p \in Entries(ApplyProfile(f[k - 1], order[k]))
      BY <2>1, <3>1
    <3>3. \/ <<order[k], p[1], p[2]>> \in Publications
          \/ p \in Entries(f[k - 1]) /\ <<order[k], p[1]>> \notin Overwrites
      BY <3>1, <3>2, EntriesStep
    <3> QED BY <3>1, <3>3
  <2>4. seen[n] = Entries(Profiles(order))
    BY <1>1, <2>1
  <2> HIDE DEF seen
  <2>5. \A p \in seen[n] : \E i \in 1 .. n : IsLast(order, Publications, Overwrites, n, i, p[1], p[2])
    BY <1>1, <2>2, <2>3, LastShown
  <2> QED BY <2>4, <2>5
<1>4. ASSUME NEW p \in Audited(Modules(order))
      PROVE  \E a \in dag[r] : /\ <<a, p[1], p[2]>> \in Verdicts
                               /\ \A u \in dag[r] : <<u, p[1]>> \in Updates => a \notin Ancestors[u]
  BY <1>2, LastStands
<1>5. ASSUME NEW p \in Entries(Profiles(order))
      PROVE  \E a \in dag[r] : /\ <<a, p[1], p[2]>> \in Publications
                               /\ \A u \in dag[r] : <<u, p[1]>> \in Overwrites => a \notin Ancestors[u]
  BY <1>3, LastStands
<1> QED BY <1>4, <1>5

(* Whatever is merged, and in whatever order: a module shown as audited    *)
(* has an audit that says so and that no known update of its code follows, *)
(* and a profile shows what was published under a key and nothing that     *)
(* was published or retracted there follows.                               *)
THEOREM NothingShownIsOutlived == Spec => []NothingIsOutlived
<1>1. PageInv => NothingIsOutlived
  <2> SUFFICES ASSUME PageInv, NEW r \in Replicas
               PROVE  LET order == TopoOrder(r)
                          modules == Modules(order)
                          profiles == Profiles(order)
                          Follows(u, a) == a \in Ancestors[u]
                          Audits(m) == {a \in dag[r] : Type(a) = "module-audit" /\ content[a].payload.id = m}
                          Renewed(m) == {u \in dag[r] : Type(u) = "module-update" /\ content[u].payload.id = m}
                          Placed(k) == {p \in dag[r] : /\ Type(p) = "module-data-published"
                                                       /\ k = <<Domain(p), content[p].payload.key>>}
                      IN  /\ \A m \in DOMAIN modules : modules[m].audit # "unaudited" =>
                               \E a \in Audits(m) : /\ content[a].payload.status = modules[m].audit
                                                    /\ \A u \in Renewed(m) : ~Follows(u, a)
                          /\ \A k \in DOMAIN profiles :
                               \E p \in Placed(k) : /\ content[p].payload.value = profiles[k]
                                                    /\ \A q \in Placed(k) : ~Follows(q, p)
    BY DEF NothingIsOutlived
  <2> DEFINE modules == Modules(TopoOrder(r))
             profiles == Profiles(TopoOrder(r))
  <2>1. dag[r] \subseteq Ids /\ DagInv
    BY DEF PageInv, DagInv
  <2>2. ASSUME NEW m \in DOMAIN modules, modules[m].audit # "unaudited"
        PROVE  \E a \in dag[r] :
                 /\ Type(a) = "module-audit" /\ content[a].payload.id = m
                 /\ content[a].payload.status = modules[m].audit
                 /\ \A u \in dag[r] : Type(u) = "module-update" /\ content[u].payload.id = m =>
                                        a \notin Ancestors[u]
    <3>1. <<m, modules[m].audit>> \in Audited(modules)
      BY <2>2 DEF Audited
    <3>2. PICK a \in dag[r] : /\ <<a, m, modules[m].audit>> \in Verdicts
                              /\ \A u \in dag[r] : <<u, m>> \in Updates => a \notin Ancestors[u]
      BY <2>1, <3>1, NotOutlived
    <3> HIDE DEF modules
    <3>3. /\ Type(a) = "module-audit" /\ content[a].payload.id = m
          /\ content[a].payload.status = modules[m].audit
      BY <3>2 DEF Verdicts, Name
    <3>4. ASSUME NEW u \in dag[r], Type(u) = "module-update", content[u].payload.id = m
          PROVE  <<u, m>> \in Updates
      BY <2>1, <3>4 DEF Updates, Name
    <3> QED BY <3>2, <3>3, <3>4
  <2>3. ASSUME NEW k \in DOMAIN profiles
        PROVE  \E p \in dag[r] :
                 /\ Type(p) = "module-data-published" /\ k = <<Domain(p), content[p].payload.key>>
                 /\ content[p].payload.value = profiles[k]
                 /\ \A q \in dag[r] :
                      (/\ Type(q) = "module-data-published"
                       /\ k = <<Domain(q), content[q].payload.key>>) => p \notin Ancestors[q]
    <3>1. <<k, profiles[k]>> \in Entries(profiles)
      BY DEF Entries
    <3>2. PICK p \in dag[r] : /\ <<p, k, profiles[k]>> \in Publications
                              /\ \A q \in dag[r] : <<q, k>> \in Overwrites => p \notin Ancestors[q]
      BY <2>1, <3>1, NotOutlived
    <3> HIDE DEF profiles
    <3>3. /\ Type(p) = "module-data-published" /\ k = <<Domain(p), content[p].payload.key>>
          /\ content[p].payload.value = profiles[k]
      BY <3>2 DEF Publications, Published, Place
    <3>4. ASSUME NEW q \in dag[r], Type(q) = "module-data-published",
                 k = <<Domain(q), content[q].payload.key>>
          PROVE  <<q, k>> \in Overwrites
      BY <2>1, <3>4 DEF Overwrites, Published, Place
    <3> QED BY <3>2, <3>3, <3>4
  <2> HIDE DEF modules, profiles
  <2> QED BY <2>2, <2>3 DEF modules, profiles
<1> QED BY <1>1, PageSound, PTL

-----------------------------------------------------------------------------
(* The code of a module                                                    *)

\* The module is registered, of what a replica knows.
Exists(r, m) == \E j \in dag[r] : j \in ModuleClaims /\ Name[j] = m

\* An update of a module that is registered, or its first registration.
Takeable(r, id, m) ==
  \/ Type(id) = "module-update" /\ content[id].payload.id = m /\ Exists(r, m)
  \/ id \in ModuleClaims /\ Name[id] = m /\ Undisputed(id)

\* An event that is taken shows its code; one that is not of the module leaves it.
LEMMA TakesCode ==
  ASSUME NEW reg \in Regs(ModuleIds, ModuleEntries), NEW id \in Ids, NEW m
  PROVE  /\ (Type(id) = "module-update" /\ content[id].payload.id = m /\ m \in DOMAIN reg) =>
              m \in DOMAIN ApplyModule(reg, id) /\ ApplyModule(reg, id)[m].code = content[id].payload.code
         /\ (id \in ModuleClaims /\ Name[id] = m /\ m \notin DOMAIN reg) =>
              m \in DOMAIN ApplyModule(reg, id) /\ ApplyModule(reg, id)[m].code = content[id].payload.code
         /\ (Key(id) # <<"module", m>> /\ m \in DOMAIN reg) =>
              m \in DOMAIN ApplyModule(reg, id) /\ ApplyModule(reg, id)[m].code = reg[m].code
<1> DEFINE e == content[id].payload
           new == ApplyModule(reg, id)
           entry == [author |-> e.author, code |-> e.code, audit |-> "unaudited", by |-> id]
<1>0. \A x \in DOMAIN reg : reg[x] \in ModuleEntries
  BY RegsDomain
<1>1. Name[id] = e.id /\ Type(id) = e.type /\ entry.code = e.code
  BY DEF Name, Type
<1>2. id \in ModuleClaims <=>
        e.type = "module-register" /\ ~(e.economics # None /\ ~ValidEconomics(e.economics))
  BY DEF ModuleClaims
<1>3. Key(id) # <<"module", m>> => e.type \notin {"module-register", "module-update"} \/ e.id # m
  BY DEF Key
<1>4. /\ e.type = "module-register" => new = Register(reg, e, id)
      /\ e.type = "module-update" => new = UpdateCode(reg, e)
      /\ e.type = "module-audit" => new = SetAuditStatus(reg, e)
      /\ e.type \notin {"module-register", "module-update", "module-audit"} => new = reg
  BY DEF ApplyModule
<1>5. Register(reg, e, id) =
        IF e.id \in DOMAIN reg \/ (e.economics # None /\ ~ValidEconomics(e.economics))
        THEN reg ELSE With(reg, e.id, entry)
  BY DEF Register
<1>6. /\ DOMAIN With(reg, e.id, entry) = DOMAIN reg \cup {e.id} /\ With(reg, e.id, entry)[e.id] = entry
      /\ \A x \in DOMAIN reg : x # e.id => With(reg, e.id, entry)[x] = reg[x]
  BY DEF With
<1> HIDE DEF e, new, entry
<1>7. ASSUME e.type = "module-update", e.id = m, m \in DOMAIN reg
      PROVE  m \in DOMAIN new /\ new[m].code = e.code
  <2>1. new = UpdateCode(reg, e) /\ reg[m] \in ModuleEntries
    BY <1>0, <1>4, <1>7
  <2>2. new = [[reg EXCEPT ![m].code = e.code] EXCEPT ![m].audit = "unaudited"]
    BY <1>7, <2>1 DEF UpdateCode
  <2>3. [[reg[m] EXCEPT !.code = e.code] EXCEPT !.audit = "unaudited"].code = e.code
    BY <2>1 DEF ModuleEntries
  <2>4. m \in DOMAIN new /\ new[m] = [[reg[m] EXCEPT !.code = e.code] EXCEPT !.audit = "unaudited"]
    BY <1>7, <2>2
  <2> QED BY <2>3, <2>4
<1>8. ASSUME id \in ModuleClaims, e.id = m, m \notin DOMAIN reg
      PROVE  m \in DOMAIN new /\ new[m].code = e.code
  <2>1. new = With(reg, e.id, entry)
    BY <1>2, <1>4, <1>5, <1>8
  <2> QED BY <1>1, <1>6, <1>8, <2>1
<1>9. ASSUME e.type \notin {"module-register", "module-update"} \/ e.id # m, m \in DOMAIN reg
      PROVE  m \in DOMAIN new /\ new[m].code = reg[m].code
  <2>1. CASE e.type = "module-register"
    <3>1. new = reg \/ new = With(reg, e.id, entry)
      BY <1>4, <1>5, <2>1
    <3> QED BY <1>6, <1>9, <2>1, <3>1
  <2>2. CASE e.type = "module-update"
    BY <1>0, <1>4, <1>9, <2>2 DEF UpdateCode, ModuleEntries
  <2>3. CASE e.type = "module-audit"
    BY <1>0, <1>4, <1>9, <2>3 DEF SetAuditStatus, ModuleEntries
  <2>4. CASE e.type \notin {"module-register", "module-update", "module-audit"}
    BY <1>4, <1>9, <2>4
  <2> QED BY <2>1, <2>2, <2>3, <2>4
<1> QED BY <1>1, <1>3, <1>7, <1>8, <1>9 DEF e, new

\* The last event of a module, if all its others are above it, is what is shown.
LEMMA CodeShown ==
  ASSUME DagInv, NEW r \in Replicas, NEW id \in dag[r], NEW m, Takeable(r, id, m),
         \A i \in dag[r] : i # id /\ Key(i) = <<"module", m>> => i \in Ancestors[id]
  PROVE  LET modules == Modules(TopoOrder(r))
         IN  m \in DOMAIN modules /\ modules[m].code = content[id].payload.code
<1> DEFINE order == TopoOrder(r)
           n == Len(order)
<1>1. order \in [1 .. n -> Ids] /\ n \in Nat
  BY OrderTypes
<1>2. /\ order \in [1 .. n -> dag[r]]
      /\ \A i \in dag[r] : \E k \in 1 .. n : order[k] = i
      /\ \A j, k \in 1 .. n : order[j] = order[k] => j = k
  BY TopoOrderInOrder
<1>3. \A k \in 1 .. n : \A a \in Ancestors[order[k]] : \E j \in 1 .. (k - 1) : order[j] = a
  BY AncestorsEarlier
<1> HIDE DEF order, n
<1>4. PICK f : /\ f[0] = Nothing /\ Modules(order) = f[n]
               /\ \A k \in 1 .. n : f[k] = ApplyModule(f[k - 1], order[k])
               /\ \A k \in 0 .. n : f[k] \in Regs(ModuleIds, ModuleEntries)
  BY <1>1, ModulesAre
<1>5. PICK q \in 1 .. n : order[q] = id
  BY <1>2
<1>6. ASSUME NEW k \in 1 .. n, k > q PROVE Key(order[k]) # <<"module", m>>
  <2> SUFFICES ASSUME Key(order[k]) = <<"module", m>> PROVE FALSE
    OBVIOUS
  <2>1. order[k] \in dag[r] /\ order[k] # id
    BY <1>2, <1>5, <1>6
  <2>2. order[k] \in Ancestors[order[q]]
    BY <1>5, <2>1
  <2>3. PICK j \in 1 .. (q - 1) : order[j] = order[k]
    BY <1>3, <2>2
  <2>4. j = k
    BY <1>1, <1>2, <2>3
  <2> QED BY <1>1, <1>6, <2>3, <2>4
<1>7. FirstsOf(order, ModuleClaims, Name, q - 1, f[q - 1])
  <2>1. q - 1 \in Nat /\ \A k \in 1 .. (q - 1) : k \in 1 .. n /\ k - 1 \in 0 .. n
    BY <1>1
  <2>2. \A k \in 1 .. (q - 1) :
          Takes(f[k - 1], f[k], order[k], order[k] \in ModuleClaims, Name[order[k]])
    <3> TAKE k \in 1 .. (q - 1)
    <3>1. f[k - 1] \in Regs(ModuleIds, ModuleEntries) /\ order[k] \in Ids
      BY <1>1, <1>4, <2>1
    <3>2. f[k] = ApplyModule(f[k - 1], order[k])
      BY <1>4, <2>1
    <3> QED BY <3>1, <3>2, ModuleTakes
  <2>3. DOMAIN f[0] = {}
    BY <1>4, NothingIn
  <2> QED BY <2>1, <2>2, <2>3, FirstWins
<1>8. q - 1 \in 0 .. n /\ f[q - 1] \in Regs(ModuleIds, ModuleEntries) /\ id \in Ids
  BY <1>1, <1>4, <1>5
<1>9. f[q] = ApplyModule(f[q - 1], id)
  BY <1>4, <1>5
<1>10. m \in DOMAIN f[q] /\ f[q][m].code = content[id].payload.code
  <2>1. CASE Type(id) = "module-update" /\ content[id].payload.id = m /\ Exists(r, m)
    <3>1. PICK j \in dag[r] : j \in ModuleClaims /\ Name[j] = m
      BY <2>1 DEF Exists
    <3>2. Key(j) = <<"module", m>> /\ content[j].payload.type = "module-register"
      BY <3>1, KeyOf DEF ModuleClaims
    <3>3. j # id
      BY <2>1, <3>2 DEF Type
    <3>4. j \in Ancestors[order[q]]
      BY <1>5, <3>2, <3>3
    <3>5. PICK k \in 1 .. (q - 1) : order[k] = j
      BY <1>3, <3>4
    <3>6. m \in DOMAIN f[q - 1]
      BY <1>7, <3>1, <3>5 DEF FirstsOf
    <3> QED BY <1>8, <1>9, <2>1, <3>6, TakesCode
  <2>2. CASE id \in ModuleClaims /\ Name[id] = m /\ Undisputed(id)
    <3>1. m \notin DOMAIN f[q - 1]
      <4> SUFFICES ASSUME m \in DOMAIN f[q - 1] PROVE FALSE
        OBVIOUS
      <4>1. PICK i \in 1 .. (q - 1) : IsFirst(order, ModuleClaims, Name, i, m)
        BY <1>7 DEF FirstsOf
      <4>2. order[i] \in ModuleClaims /\ Name[order[i]] = m
        BY <4>1 DEF IsFirst
      <4>3. Key(order[i]) = <<"module", m>> /\ Key(id) = <<"module", m>>
        BY <2>2, <4>2, KeyOf
      <4>4. i \in 1 .. n /\ i # q
        BY <1>1
      <4>5. order[i] \in dag[r] /\ order[i] # id
        BY <1>2, <1>5, <4>4
      <4>6. order[i] \in Ancestors[id]
        BY <4>3, <4>5
      <4>7. order[i] \in Claims
        BY <4>2 DEF Claims
      <4> QED BY <2>2, <4>3, <4>6, <4>7 DEF Undisputed
    <3> QED BY <1>8, <1>9, <2>2, <3>1, TakesCode
  <2> QED BY <2>1, <2>2 DEF Takeable
<1> DEFINE S == {k \in 0 .. (n - q) : m \in DOMAIN f[q + k] /\ f[q + k][m].code = content[id].payload.code}
<1>11. 0 \in S
  <2>1. q + 0 = q /\ 0 \in 0 .. (n - q)
    BY <1>1
  <2> QED BY <1>10, <2>1
<1>12. ASSUME NEW k \in 0 .. ((n - q) - 1), k \in S PROVE k + 1 \in S
  <2>1. /\ k + 1 \in 0 .. (n - q) /\ q + (k + 1) \in 1 .. n /\ q + (k + 1) > q
        /\ (q + (k + 1)) - 1 = q + k /\ q + k \in 0 .. n
    BY <1>1
  <2>2. f[q + (k + 1)] = ApplyModule(f[q + k], order[q + (k + 1)]) /\ order[q + (k + 1)] \in Ids
    BY <1>1, <1>4, <2>1
  <2>3. Key(order[q + (k + 1)]) # <<"module", m>>
    BY <1>6, <2>1
  <2>4. f[q + k] \in Regs(ModuleIds, ModuleEntries)
    BY <1>4, <2>1
  <2>5. m \in DOMAIN f[q + k] /\ f[q + k][m].code = content[id].payload.code
    BY <1>12
  <2>6. /\ m \in DOMAIN ApplyModule(f[q + k], order[q + (k + 1)])
        /\ ApplyModule(f[q + k], order[q + (k + 1)])[m].code = f[q + k][m].code
    BY <2>2, <2>3, <2>4, <2>5, TakesCode
  <2> QED BY <2>1, <2>2, <2>5, <2>6
<1>13. m \in DOMAIN f[n] /\ f[n][m].code = content[id].payload.code
  <2>1. n - q \in Nat /\ q + (n - q) = n
    BY <1>1
  <2>2. 0 .. (n - q) \subseteq S
    <3> HIDE DEF S
    <3> QED BY <1>11, <1>12, <2>1, Induction
  <2>3. n - q \in S
    BY <2>1, <2>2
  <2> QED BY <2>1, <2>3
<1> QED BY <1>4, <1>13 DEF order

-----------------------------------------------------------------------------
(* What the user is told                                                   *)

(* No module posts a registration of an identity or of a module, and a     *)
(* burn is of lamports: "Enter a positive lamport amount".                 *)
OwnRegistrations ==
  \A p \in Posts : p.type \notin {"identity-register", "module-register"}

RealBurns ==
  /\ \A g \in Acts("burn") : g.lamports \in Nat \ {0} /\ g.slot \in Nat
  /\ Churn # None => Churn.genesisSlot \in Nat /\ Churn.baseLamports \in Nat /\ Churn.lamportsPerSlot \in Nat

\* Nothing above these events, or one of them, registers the module.
Above(P) == P \cup UNION {Ancestors[p] : p \in P}
Clean(m, P) == \A a \in Above(P) : ~(a \in ModuleClaims /\ Name[a] = m)

\* Handlers past the reading of what exists, and handlers that burn.
Submits(h) == h.g.do = "submit" /\ h.step \in {"validating", "adding"}
Burns(h) == h.g.do = "burn"

\* A handler has as its event one that is valid when it comes in.
AddsWell(r, h) ==
  h.g.do = "submit" =>
    \/ h.event.payload = UpdateOf(h.g) /\ Exists(r, h.g.id)
    \/ /\ \E e \in Economics : h.event.payload = ModuleOf(r, h.g, e) /\ (e # None => ValidEconomics(e))
       /\ crossed[r] \/ Clean(h.g.id, h.event.parents)

(* And what is not yet signed will be: nothing that this page has written, *)
(* or has yet to write, comes between what was read and the event.         *)
WillAddWell(r, h) ==
  /\ h.existing => Exists(r, h.g.id)
  /\ ~h.existing => \/ crossed[r]
                    \/ /\ Clean(h.g.id, {lastEventId[r]})
                       /\ \A k \in running[r] : k.step = "adding" => Clean(h.g.id, k.event.parents)

OneEach(K) == \A h, k \in K : Submits(h) /\ Submits(k) /\ h.g.id = k.g.id => h = k
OneBurn(K) == \A h, k \in K : Burns(h) /\ Burns(k) => h = k

SubmitsWell(r) ==
  /\ \A h \in running[r] : /\ h.step = "adding" => AddsWell(r, h)
                           /\ h.step = "validating" => WillAddWell(r, h)
  /\ crossed[r] \/ OneEach(running[r])

\* Who burns has no identity yet.
NoIdentity(r) == \A i \in dag[r] : ~(i \in IdentityClaims /\ Owner[i] = r)

BurnsWell(r) ==
  crossed[r] \/ (OneBurn(running[r]) /\ \A h \in running[r] : Burns(h) => NoIdentity(r))

\* An identity is registered where its domain is.
IdentitiesHome ==
  \A i \in DOMAIN content : Type(i) = "identity-register" => Domain(i) \in Replicas /\ i \in dag[Domain(i)]

\* What was told is the first of its key, or an update, or a burn too low, or a mint.
Kept(r, key, id) ==
  \/ Undisputed(id) /\ Key(id) = key
  \/ Type(id) = "module-update" /\ key = <<"module", content[id].payload.id>> /\ Exists(r, key[2])
  \/ key[1] = "identity" /\ content[id].payload.burned < RequiredBurnLamports(content[id].payload.slot)
  \/ Type(id) = "formula-register" /\ Key(id) = key

ToldWell(r) ==
  crossed[r] \/ \A key \in DOMAIN told[r] : \E id \in dag[r] : told[r][key] = id /\ Kept(r, key, id)

ToldInv ==
  /\ IdentitiesHome
  /\ crossed = [r \in Replicas |-> crossed[r]] /\ told = [r \in Replicas |-> told[r]]
  /\ \A r \in Replicas : SubmitsWell(r) /\ BurnsWell(r) /\ ToldWell(r)

LEMMA RegistrationsOwn == OwnRegistrations => OwnBurns
BY DEF OwnRegistrations, OwnBurns

\* Which kind of event of what an event is does not change.
LEMMA KindsStay ==
  ASSUME PageInv, Grows
  PROVE  \A i \in DOMAIN content :
           /\ content'[i] = content[i] /\ i \in Ids /\ Type(i)' = Type(i) /\ Domain(i)' = Domain(i)
           /\ i \in ModuleClaims' <=> i \in ModuleClaims
           /\ i \in IdentityClaims' <=> i \in IdentityClaims
           /\ Name'[i] = Name[i] /\ Owner'[i] = Owner[i]
<1> TAKE i \in DOMAIN content
<1>1. content'[i] = content[i] /\ i \in Ids
  BY DEF Grows, PageInv, DagInv
<1>2. Type(i)' = Type(i) /\ Domain(i)' = Domain(i)
  BY <1>1 DEF Type, Domain
<1>3. i \in ModuleClaims' <=> i \in ModuleClaims
  BY <1>1 DEF ModuleClaims
<1>4. i \in IdentityClaims' <=> i \in IdentityClaims
  BY <1>1 DEF IdentityClaims
<1>5. Name'[i] = Name[i] /\ Owner'[i] = Owner[i]
  BY <1>1 DEF Name, Owner, Domain
<1> QED BY <1>1, <1>2, <1>3, <1>4, <1>5

LEMMA ExistsStays == PageInv /\ Grows => \A r \in Replicas : \A m : Exists(r, m) => Exists(r, m)'
<1> SUFFICES ASSUME PageInv, Grows, NEW r \in Replicas, NEW m, Exists(r, m) PROVE Exists(r, m)'
  OBVIOUS
<1>1. PICK j \in dag[r] : j \in ModuleClaims /\ Name[j] = m
  BY DEF Exists
<1>2. j \in DOMAIN content /\ j \in dag'[r]
  BY DEF Grows, PageInv, DagInv
<1> QED BY <1>1, <1>2, KindsStay DEF Exists

LEMMA AboveKnown ==
  ASSUME PageInv, NEW r \in Replicas, NEW P \in SUBSET dag[r]
  PROVE  Above(P) \subseteq dag[r] /\ dag[r] \subseteq DOMAIN content
<1>1. \A p \in P : Ancestors[p] \subseteq dag[r]
  BY AncestorsKnown DEF PageInv
<1>2. dag[r] \subseteq DOMAIN content
  BY DEF PageInv, DagInv
<1> QED BY <1>1, <1>2 DEF Above

LEMMA AboveStays ==
  ASSUME PageInv, Grows, NEW P \in SUBSET DOMAIN content
  PROVE  Above(P)' = Above(P)
<1>1. \A p \in P : Ancestors'[p] = Ancestors[p]
  BY DEF Grows
<1>2. {Ancestors'[p] : p \in P} = {Ancestors[p] : p \in P}
  BY <1>1
<1>3. Above(P)' = P \cup UNION {Ancestors'[p] : p \in P}
  BY DEF Above
<1> QED BY <1>2, <1>3 DEF Above

LEMMA CleanStays ==
  ASSUME PageInv, Grows, NEW r \in Replicas, NEW P \in SUBSET dag[r], NEW m, Clean(m, P)
  PROVE  Clean(m, P)'
<1>1. Above(P) \subseteq DOMAIN content /\ P \subseteq DOMAIN content
  BY AboveKnown
<1>2. Above(P)' = Above(P)
  BY <1>1, AboveStays
<1>3. \A a \in Above(P) : ~(a \in ModuleClaims' /\ Name'[a] = m)
  BY <1>1, KindsStay DEF Clean
<1> QED BY <1>2, <1>3 DEF Clean

\* What is above an event that has been added.
LEMMA AboveAdded ==
  ASSUME PageInv, NEW r \in Replicas, NEW h, NEW id, Grown(r, h, id), Grows
  PROVE  /\ Ancestors'[id] = Above(h.event.parents) /\ Ancestors'[id] \subseteq dag[r]
         /\ Above({id})' = {id} \cup Above(h.event.parents)
<1>1. /\ h.event.parents \in SUBSET dag[r] /\ id \in DOMAIN content' /\ content'[id] = h.event /\ DagInv'
  BY DEF Grown
<1>2. h.event.parents \subseteq DOMAIN content
  BY <1>1, AboveKnown
<1>3. Ancestors'[id] = Parents(id)' \cup UNION {Ancestors'[p] : p \in Parents(id)'}
  BY <1>1, AncestorsAreNext
<1>4. Parents(id)' = h.event.parents
  BY <1>1 DEF Parents
<1>5. Ancestors'[id] = Above(h.event.parents)'
  BY <1>3, <1>4 DEF Above
<1>6. Above(h.event.parents)' = Above(h.event.parents)
  <2>1. \A p \in h.event.parents : Ancestors'[p] = Ancestors[p]
    BY <1>2 DEF Grows
  <2>2. {Ancestors'[p] : p \in h.event.parents} = {Ancestors[p] : p \in h.event.parents}
    BY <2>1
  <2>3. Above(h.event.parents)' = h.event.parents \cup UNION {Ancestors'[p] : p \in h.event.parents}
    BY <1>3, <1>4, <1>5
  <2> QED BY <2>2, <2>3 DEF Above
<1>7. Above(h.event.parents) \subseteq dag[r]
  BY <1>1, AboveKnown
<1>8. Above({id})' = {id} \cup Ancestors'[id]
  BY DEF Above
<1> QED BY <1>5, <1>6, <1>7, <1>8

LEMMA AddingParents ==
  PageInv => \A r \in Replicas : /\ \A k \in running[r] : k.step = "adding" => k.event.parents \in SUBSET dag[r]
                                 /\ {lastEventId[r]} \in SUBSET dag[r]
BY DEF PageInv, Good

LEMMA AddsWellStays ==
  ASSUME PageInv, Grows, NEW r \in Replicas, NEW h, h.event.parents \in SUBSET dag[r],
         crossed[r] => crossed'[r], AddsWell(r, h)
  PROVE  AddsWell(r, h)'
<1> SUFFICES ASSUME h.g.do = "submit" PROVE AddsWell(r, h)'
  BY DEF AddsWell
<1>1. CASE h.event.payload = UpdateOf(h.g) /\ Exists(r, h.g.id)
  <2>1. Exists(r, h.g.id)'
    BY <1>1, ExistsStays
  <2> QED BY <1>1, <2>1 DEF AddsWell, UpdateOf
<1>2. CASE /\ \E e \in Economics : h.event.payload = ModuleOf(r, h.g, e) /\ (e # None => ValidEconomics(e))
           /\ crossed[r] \/ Clean(h.g.id, h.event.parents)
  <2>1. crossed'[r] \/ Clean(h.g.id, h.event.parents)'
    BY <1>2, CleanStays
  <2>2. (\E e \in Economics : h.event.payload = ModuleOf(r, h.g, e) /\ (e # None => ValidEconomics(e)))'
    <3>1. PICK e \in Economics : h.event.payload = ModuleOf(r, h.g, e) /\ (e # None => ValidEconomics(e))
      BY <1>2
    <3>2. Economics' = Economics
      BY DEF Economics, Acts, Gestures
    <3>3. ModuleOf(r, h.g, e)' = ModuleOf(r, h.g, e) /\ (ValidEconomics(e)' <=> ValidEconomics(e))
      BY DEF ModuleOf, ValidEconomics
    <3> QED BY <3>1, <3>2, <3>3
  <2> QED BY <2>1, <2>2 DEF AddsWell
<1> QED BY <1>1, <1>2 DEF AddsWell

\* Nothing new but other handlers' ends, and other replicas' events.
LEMMA SubmitsStay ==
  ASSUME PageInv, Grows, NEW r \in Replicas, SubmitsWell(r), running'[r] \subseteq running[r],
         lastEventId'[r] = lastEventId[r], crossed'[r] = crossed[r]
  PROVE  SubmitsWell(r)'
<1>1. ASSUME NEW h \in running'[r], h.step = "adding" PROVE AddsWell(r, h)'
  BY <1>1, AddingParents, AddsWellStays DEF SubmitsWell
<1>2. ASSUME NEW h \in running'[r], h.step = "validating" PROVE WillAddWell(r, h)'
  <2>1. WillAddWell(r, h) /\ h \in running[r]
    BY <1>2 DEF SubmitsWell
  <2>2. h.existing => Exists(r, h.g.id)'
    BY <2>1, ExistsStays DEF WillAddWell
  <2>3. ASSUME ~h.existing
        PROVE  \/ crossed'[r]
               \/ /\ Clean(h.g.id, {lastEventId[r]})'
                  /\ \A k \in running'[r] : k.step = "adding" => Clean(h.g.id, k.event.parents)'
    <3>1. CASE crossed[r]
      BY <3>1
    <3>2. CASE ~crossed[r]
      <4>1. /\ Clean(h.g.id, {lastEventId[r]})
            /\ \A k \in running[r] : k.step = "adding" => Clean(h.g.id, k.event.parents)
        BY <2>1, <2>3, <3>2 DEF WillAddWell
      <4>2. Clean(h.g.id, {lastEventId[r]})'
        <5>1. PICK t \in dag[r] : t = lastEventId[r]
          BY AddingParents
        <5>2. Clean(h.g.id, {t})'
          BY <4>1, <5>1, CleanStays
        <5> QED BY <5>1, <5>2 DEF Clean, Above
      <4>3. ASSUME NEW k \in running'[r], k.step = "adding" PROVE Clean(h.g.id, k.event.parents)'
        BY <4>1, <4>3, AddingParents, CleanStays
      <4> QED BY <4>2, <4>3
    <3> QED BY <3>1, <3>2
  <2> QED BY <2>2, <2>3 DEF WillAddWell
<1>3. crossed'[r] \/ OneEach(running'[r])
  BY DEF SubmitsWell, OneEach
<1> QED BY <1>1, <1>2, <1>3 DEF SubmitsWell

\* One more handler, whose event, if it has one, is after the tip.
LEMMA SubmitsMore ==
  ASSUME PageInv, NEW r \in Replicas, SubmitsWell(r), UNCHANGED <<content, dag, lastEventId>>,
         NEW K, NEW h, K \subseteq running[r], running'[r] = K \cup {h}, h.step # "validating",
         h.step = "adding" => AddsWell(r, h) /\ h.event.parents = {lastEventId[r]},
         crossed[r] => crossed'[r], crossed'[r] \/ OneEach(K \cup {h})
  PROVE  SubmitsWell(r)'
<1>0. Grows
  BY SameGrows
<1>1. ASSUME NEW k \in running'[r], k.step = "adding" PROVE AddsWell(r, k)'
  <2>1. k.event.parents \in SUBSET dag[r] /\ AddsWell(r, k)
    BY <1>1, AddingParents DEF SubmitsWell
  <2> QED BY <1>0, <2>1, AddsWellStays
<1>2. ASSUME NEW k \in running'[r], k.step = "validating" PROVE WillAddWell(r, k)'
  <2>1. WillAddWell(r, k) /\ k \in running[r]
    BY <1>2 DEF SubmitsWell
  <2>2. k.existing => Exists(r, k.g.id)'
    BY <1>0, <2>1, ExistsStays DEF WillAddWell
  <2>3. ASSUME ~k.existing, ~crossed'[r]
        PROVE  /\ Clean(k.g.id, {lastEventId[r]})'
               /\ \A j \in running'[r] : j.step = "adding" => Clean(k.g.id, j.event.parents)'
    <3>1. /\ Clean(k.g.id, {lastEventId[r]})
          /\ \A j \in running[r] : j.step = "adding" => Clean(k.g.id, j.event.parents)
      BY <2>1, <2>3 DEF WillAddWell
    <3>2. PICK t \in dag[r] : t = lastEventId[r]
      BY AddingParents
    <3>3. Clean(k.g.id, {t})'
      BY <1>0, <3>1, <3>2, CleanStays
    <3>4. Clean(k.g.id, {lastEventId[r]})'
      BY <3>2, <3>3 DEF Clean, Above
    <3>5. ASSUME NEW j \in running'[r], j.step = "adding" PROVE Clean(k.g.id, j.event.parents)'
      <4>1. CASE j \in running[r]
        BY <1>0, <3>1, <3>5, <4>1, AddingParents, CleanStays
      <4>2. CASE j = h
        <5>1. j.event.parents = {t}
          BY <3>2, <3>5, <4>2
        <5> QED BY <3>3, <5>1
      <4> QED BY <4>1, <4>2
    <3> QED BY <3>4, <3>5
  <2> QED BY <2>2, <2>3 DEF WillAddWell
<1>3. crossed'[r] \/ OneEach(running'[r])
  OBVIOUS
<1> QED BY <1>1, <1>2, <1>3 DEF SubmitsWell, OneEach

\* A handler reads what exists, and then has its event signed.
LEMMA SubmitsRead ==
  ASSUME PageInv, NEW r \in Replicas, SubmitsWell(r), UNCHANGED <<content, dag, lastEventId>>,
         NEW h \in running[r], NEW k, running'[r] = (running[r] \ {h}) \cup {k},
         h.step = "hashing", k.step = "validating", k.g = h.g,
         k.existing <=> h.g.id \in DOMAIN Modules(TopoOrder(r)),
         crossed'[r] <=> crossed[r] \/ \E j \in running[r] :
                                          j.g.do = "submit" /\ j.g.id = h.g.id /\ j.step # "hashing"
  PROVE  SubmitsWell(r)'
<1>0. Grows /\ DagInv
  BY SameGrows DEF PageInv
<1>1. ASSUME NEW j \in running'[r], j.step = "adding" PROVE AddsWell(r, j)'
  <2>1. j \in running[r] /\ j.event.parents \in SUBSET dag[r] /\ AddsWell(r, j)
    BY <1>1, AddingParents DEF SubmitsWell
  <2> QED BY <1>0, <2>1, AddsWellStays
<1>2. /\ h.g.id \in DOMAIN Modules(TopoOrder(r)) => Exists(r, h.g.id)
      /\ h.g.id \notin DOMAIN Modules(TopoOrder(r)) => \A a \in dag[r] : ~(a \in ModuleClaims /\ Name[a] = h.g.id)
  <2>1. FirstsOf(TopoOrder(r), ModuleClaims, Name, Len(TopoOrder(r)), Modules(TopoOrder(r)))
    BY <1>0, RegistriesAre
  <2> DEFINE modules == Modules(TopoOrder(r))
  <2>2. /\ \A x \in DOMAIN modules :
             /\ modules[x].by \in dag[r] /\ modules[x].by \in ModuleClaims /\ Name[modules[x].by] = x
        /\ \A id \in dag[r] : id \in ModuleClaims => Name[id] \in DOMAIN modules
    BY <1>0, <2>1, FirstAbove
  <2> HIDE DEF modules
  <2>3. h.g.id \in DOMAIN modules => Exists(r, h.g.id)
    BY <2>2 DEF Exists
  <2> QED BY <2>2, <2>3 DEF modules
<1>3. ASSUME NEW j \in running'[r], j.step = "validating" PROVE WillAddWell(r, j)'
  <2>1. j.existing => Exists(r, j.g.id)
    BY <1>2, <1>3 DEF SubmitsWell, WillAddWell
  <2>2. j.existing => Exists(r, j.g.id)'
    BY <1>0, <2>1, ExistsStays
  <2>3. ASSUME ~j.existing, ~crossed'[r]
        PROVE  /\ Clean(j.g.id, {lastEventId[r]})
               /\ \A i \in running[r] : i.step = "adding" => Clean(j.g.id, i.event.parents)
    <3>1. CASE j = k
      <4>1. \A a \in dag[r] : ~(a \in ModuleClaims /\ Name[a] = j.g.id)
        BY <1>2, <2>3, <3>1
      <4>2. \A P \in SUBSET dag[r] : Clean(j.g.id, P)
        BY <4>1, AboveKnown DEF Clean
      <4> QED BY <4>2, AddingParents
    <3>2. CASE j # k
      BY <1>3, <2>3, <3>2 DEF SubmitsWell, WillAddWell
    <3> QED BY <3>1, <3>2
  <2>4. ASSUME ~j.existing, ~crossed'[r]
        PROVE  /\ Clean(j.g.id, {lastEventId[r]})'
               /\ \A i \in running'[r] : i.step = "adding" => Clean(j.g.id, i.event.parents)'
    <3>1. PICK t \in dag[r] : t = lastEventId[r]
      BY AddingParents
    <3>2. Clean(j.g.id, {t})'
      BY <1>0, <2>3, <2>4, <3>1, CleanStays
    <3>3. Clean(j.g.id, {lastEventId[r]})'
      BY <3>1, <3>2 DEF Clean, Above
    <3>4. ASSUME NEW i \in running'[r], i.step = "adding" PROVE Clean(j.g.id, i.event.parents)'
      BY <1>0, <2>3, <2>4, <3>4, AddingParents, CleanStays
    <3> QED BY <3>3, <3>4
  <2> QED BY <2>2, <2>4 DEF WillAddWell
<1>4. crossed'[r] \/ OneEach(running'[r])
  <2> SUFFICES ASSUME ~crossed'[r], NEW i \in running'[r], NEW j \in running'[r],
                      Submits(i), Submits(j), i.g.id = j.g.id, i # j
               PROVE  FALSE
    BY DEF OneEach
  <2>1. ~(i \in running[r] /\ j \in running[r])
    BY DEF SubmitsWell, OneEach
  <2>2. \A l \in running[r] : Submits(l) => l.g.id # h.g.id
    BY DEF Submits
  <2> QED BY <2>1, <2>2
<1> QED BY <1>1, <1>3, <1>4 DEF SubmitsWell, OneEach

\* What an event registers is what its handler does.
LEMMA NewKinds ==
  ASSUME OwnRegistrations, NEW r \in Replicas, NEW h, h.g \in Gestures, NEW id, Grown(r, h, id)
  PROVE  /\ id \in ModuleClaims' => h.g.do = "submit" /\ Name'[id] = h.g.id
         /\ Type(id)' = "identity-register" => h.g.do = "burn" /\ h.event.payload = IdentityOf(r, h.g)
<1> DEFINE p == h.event.payload
<1>1. Says(r, h.g, p) /\ content'[id] = h.event /\ id \in Ids
  BY DEF Grown
<1>2. id \in ModuleClaims' => p.type = "module-register"
  BY <1>1 DEF ModuleClaims
<1>3. Name'[id] = p.id /\ Type(id)' = p.type
  BY <1>1 DEF Name, Type
<1> HIDE DEF p
<1>4. CASE h.g.do = "mint" /\ p = FormulaOf(r, h.g)
  BY <1>2, <1>3, <1>4 DEF FormulaOf
<1>5. CASE h.g.do = "burn" /\ p = IdentityOf(r, h.g)
  BY <1>2, <1>3, <1>5 DEF IdentityOf, p
<1>6. CASE h.g.do = "submit" /\ p = UpdateOf(h.g)
  BY <1>2, <1>3, <1>6 DEF UpdateOf
<1>7. CASE h.g.do = "submit" /\ \E e \in Economics : p = ModuleOf(r, h.g, e)
  BY <1>2, <1>3, <1>7 DEF ModuleOf
<1>8. CASE h.g.do = "post" /\ p = [domain |-> r] @@ h.g.payload
  <2>1. p \in Posts
    BY <1>8 DEF Posts, Acts
  <2>2. p.type \notin {"identity-register", "module-register"}
    BY <2>1 DEF OwnRegistrations
  <2> QED BY <1>2, <1>3, <2>2
<1> QED BY <1>1, <1>4, <1>5, <1>6, <1>7, <1>8 DEF Says

LEMMA SubmitsAdd ==
  ASSUME PageInv, OwnRegistrations, NEW r \in Replicas, SubmitsWell(r),
         NEW h \in running[r], h.step = "adding", NEW id, Grown(r, h, id), Grows,
         running'[r] = running[r] \ {h}, lastEventId'[r] = id, crossed'[r] = crossed[r]
  PROVE  SubmitsWell(r)'
<1>0. h.g \in Gestures /\ h.event.parents \in SUBSET dag[r]
  BY DEF PageInv, Good
<1>1. ASSUME NEW j \in running'[r], j.step = "adding" PROVE AddsWell(r, j)'
  <2>1. j \in running[r] /\ j.event.parents \in SUBSET dag[r] /\ AddsWell(r, j)
    BY <1>1, AddingParents DEF SubmitsWell
  <2> QED BY <2>1, AddsWellStays
<1>2. ASSUME NEW j \in running'[r], j.step = "validating" PROVE WillAddWell(r, j)'
  <2>1. WillAddWell(r, j) /\ j \in running[r] /\ j.g.do = "submit" /\ j # h
    BY <1>2 DEF SubmitsWell, PageInv, Good
  <2>2. j.existing => Exists(r, j.g.id)'
    BY <2>1, ExistsStays DEF WillAddWell
  <2>3. ASSUME ~j.existing, ~crossed[r]
        PROVE  /\ Clean(j.g.id, {lastEventId[r]})'
               /\ \A i \in running'[r] : i.step = "adding" => Clean(j.g.id, i.event.parents)'
    <3>1. \A i \in running[r] : i.step = "adding" => Clean(j.g.id, i.event.parents)
      BY <2>1, <2>3 DEF WillAddWell
    <3>2. ASSUME NEW i \in running'[r], i.step = "adding" PROVE Clean(j.g.id, i.event.parents)'
      BY <3>1, <3>2, AddingParents, CleanStays
    <3>3. Clean(j.g.id, h.event.parents)
      BY <3>1
    <3>4. ~(id \in ModuleClaims' /\ Name'[id] = j.g.id)
      <4>1. OneEach(running[r])
        BY <2>3 DEF SubmitsWell
      <4>2. h.g.do = "submit" => h.g.id # j.g.id
        BY <1>2, <2>1, <4>1 DEF OneEach, Submits
      <4> QED BY <1>0, <4>2, NewKinds
    <3>5. Above({id})' = {id} \cup Above(h.event.parents)
      BY AboveAdded
    <3>6. Above(h.event.parents) \subseteq DOMAIN content
      BY <1>0, AboveKnown
    <3>7. \A a \in Above(h.event.parents) : ~(a \in ModuleClaims' /\ Name'[a] = j.g.id)
      BY <3>3, <3>6, KindsStay DEF Clean
    <3>8. Clean(j.g.id, {id})'
      BY <3>4, <3>5, <3>7 DEF Clean
    <3>9. Clean(j.g.id, {lastEventId[r]})'
      BY <3>8 DEF Clean, Above
    <3> QED BY <3>2, <3>9
  <2> QED BY <2>2, <2>3 DEF WillAddWell
<1>3. crossed'[r] \/ OneEach(running'[r])
  BY DEF SubmitsWell, OneEach
<1> QED BY <1>1, <1>2, <1>3 DEF SubmitsWell, OneEach

-----------------------------------------------------------------------------

\* Burns, when nothing comes in, or what comes in is no identity of this domain.
LEMMA BurnsStay ==
  ASSUME PageInv, Grows, NEW r \in Replicas, BurnsWell(r), crossed[r] => crossed'[r],
         NoIdentity(r) => NoIdentity(r)', crossed'[r] \/ OneBurn(running'[r]),
         (\E h \in running'[r] : Burns(h)) => \E h \in running[r] : Burns(h)
  PROVE  BurnsWell(r)'
<1> SUFFICES ASSUME ~crossed'[r] PROVE BurnsWell(r)'
  BY DEF BurnsWell
<1>1. \A h \in running'[r] : Burns(h) => NoIdentity(r)'
  BY DEF BurnsWell
<1>2. OneBurn(running'[r])
  OBVIOUS
<1> QED BY <1>1, <1>2 DEF BurnsWell, OneBurn, Burns

LEMMA NoneNew ==
  ASSUME PageInv, Grows, NEW r \in Replicas, NoIdentity(r),
         \A i \in dag'[r] : i \in dag[r] \/ ~(i \in IdentityClaims' /\ Owner'[i] = r)
  PROVE  NoIdentity(r)'
<1>1. dag[r] \subseteq DOMAIN content
  BY DEF PageInv, DagInv
<1> QED BY <1>1, KindsStay DEF NoIdentity

LEMMA OwnerIs == \A i \in IdentityClaims : Type(i) = "identity-register" /\ Owner[i] = Domain(i)
BY DEF IdentityClaims, Owner, Type

\* The registry has it, if anything known claims it.
LEMMA IdentityKnown ==
  ASSUME PageInv, OwnBurns, NEW r \in Replicas, ~HasIdentityCost(r)
  PROVE  NoIdentity(r)
<1> SUFFICES ASSUME NEW i \in dag[r], i \in IdentityClaims, Owner[i] = r PROVE FALSE
  BY DEF NoIdentity
<1>1. Signed /\ DagInv
  <2>1. Trusted(<<"identity", r>>)
    BY ReliedTrusted DEF Relied
  <2> QED BY <2>1 DEF Trusted, PageInv
<1>2. FirstsOf(TopoOrder(r), IdentityClaims, Owner, Len(TopoOrder(r)), Identities(TopoOrder(r)))
  BY <1>1, RegistriesAre
<1>3. Owner[i] \in DOMAIN Identities(TopoOrder(r))
  BY <1>1, <1>2, FirstAbove
<1> QED BY <1>3 DEF HasIdentityCost

LEMMA KeptStays ==
  ASSUME PageInv, Grows, NEW r \in Replicas, NEW key, NEW id \in dag[r], Kept(r, key, id)
  PROVE  Kept(r, key, id)'
<1>1. id \in dag[r] /\ id \in DOMAIN content /\ id \in dag'[r] /\ content'[id] = content[id]
  BY DEF Grows, PageInv, DagInv
<1>2. /\ Key(id)' = Key(id) /\ (Undisputed(id)' <=> Undisputed(id)) /\ Type(id)' = Type(id)
  BY <1>1, ClaimsStay, KindsStay
<1>3. Exists(r, key[2]) => Exists(r, key[2])'
  BY ExistsStays
<1>4. RequiredBurnLamports(content[id].payload.slot)' = RequiredBurnLamports(content[id].payload.slot)
  BY <1>1 DEF RequiredBurnLamports, LinearCostCurve
<1>5. CASE Undisputed(id) /\ Key(id) = key
  BY <1>1, <1>2, <1>5 DEF Kept
<1>6. CASE Type(id) = "module-update" /\ key = <<"module", content[id].payload.id>> /\ Exists(r, key[2])
  BY <1>1, <1>2, <1>3, <1>6 DEF Kept
<1>7. CASE key[1] = "identity" /\ content[id].payload.burned < RequiredBurnLamports(content[id].payload.slot)
  BY <1>1, <1>4, <1>7 DEF Kept
<1>8. CASE Type(id) = "formula-register" /\ Key(id) = key
  BY <1>2, <1>8 DEF Kept
<1> QED BY <1>5, <1>6, <1>7, <1>8 DEF Kept

LEMMA ToldStays ==
  ASSUME PageInv, Grows, NEW r \in Replicas, ToldWell(r), told'[r] = told[r], crossed[r] => crossed'[r]
  PROVE  ToldWell(r)'
<1> SUFFICES ASSUME ~crossed'[r], NEW key \in DOMAIN told'[r]
             PROVE  \E id \in dag'[r] : told'[r][key] = id /\ Kept(r, key, id)'
  BY DEF ToldWell
<1>1. PICK id \in dag[r] : told[r][key] = id /\ Kept(r, key, id)
  BY DEF ToldWell
<1>2. Kept(r, key, id)' /\ id \in dag'[r]
  BY <1>1, KeptStays DEF Grows
<1> QED BY <1>1, <1>2

\* What is told of a page, of what its handlers do.
Well(r) == SubmitsWell(r) /\ BurnsWell(r) /\ ToldWell(r)

\* A replica where nothing happens, or handlers end.
LEMMA WellStays ==
  ASSUME PageInv, Grows, NEW r \in Replicas, Well(r), NoIdentity(r) => NoIdentity(r)',
         running'[r] \subseteq running[r], lastEventId'[r] = lastEventId[r],
         crossed'[r] = crossed[r], told'[r] = told[r]
  PROVE  Well(r)'
<1>1. SubmitsWell(r)'
  BY SubmitsStay DEF Well
<1>2. OneBurn(running[r]) => OneBurn(running'[r])
  BY DEF OneBurn
<1>3. BurnsWell(r)'
  <2>1. crossed'[r] \/ OneBurn(running'[r])
    BY <1>2 DEF Well, BurnsWell
  <2> QED BY <2>1, BurnsStay DEF Well
<1>4. ToldWell(r)'
  BY ToldStays DEF Well
<1> QED BY <1>1, <1>3, <1>4 DEF Well

\* One that is closed, and opened again.
LEMMA WellReloaded ==
  ASSUME PageInv, Grows, NEW r \in Replicas, Well(r), running'[r] = {}, crossed'[r] = crossed[r], told'[r] = told[r]
  PROVE  Well(r)'
<1>1. SubmitsWell(r)'
  BY DEF SubmitsWell, OneEach
<1>2. BurnsWell(r)'
  BY DEF BurnsWell, OneBurn
<1>3. ToldWell(r)'
  BY ToldStays DEF Well
<1> QED BY <1>1, <1>2, <1>3 DEF Well

\* One with a handler more, or one that goes on.
LEMMA WellMore ==
  ASSUME PageInv, NEW r \in Replicas, Well(r), UNCHANGED <<content, dag, lastEventId>>,
         NEW K, NEW h, K \subseteq running[r], running'[r] = K \cup {h}, h.step # "validating",
         h.step = "adding" => AddsWell(r, h) /\ h.event.parents = {lastEventId[r]},
         crossed[r] => crossed'[r], crossed'[r] \/ OneEach(K \cup {h}),
         crossed'[r] \/ (Burns(h) => NoIdentity(r) /\ \A k \in K : ~Burns(k)), told'[r] = told[r]
  PROVE  Well(r)'
<1>0. Grows
  BY SameGrows
<1>1. SubmitsWell(r)'
  BY SubmitsMore DEF Well
<1>2. BurnsWell(r)'
  <2> SUFFICES ASSUME ~crossed'[r] PROVE BurnsWell(r)'
    BY DEF BurnsWell
  <2>1. OneBurn(running[r]) /\ \A k \in running[r] : Burns(k) => NoIdentity(r)
    BY DEF Well, BurnsWell
  <2>2. OneBurn(running'[r])
    BY <2>1 DEF OneBurn
  <2>3. \A k \in running'[r] : Burns(k) => NoIdentity(r)
    BY <2>1
  <2>4. \A i \in dag'[r] : i \in dag[r]
    OBVIOUS
  <2>5. NoIdentity(r) => NoIdentity(r)'
    BY <1>0, <2>4, NoneNew
  <2> QED BY <2>2, <2>3, <2>5 DEF BurnsWell, OneBurn, Burns
<1>3. ToldWell(r)'
  BY <1>0, ToldStays DEF Well
<1> QED BY <1>1, <1>2, <1>3 DEF Well

LEMMA WellRead ==
  ASSUME PageInv, NEW r \in Replicas, Well(r), UNCHANGED <<content, dag, lastEventId>>, told'[r] = told[r],
         NEW h \in running[r], NEW k, running'[r] = (running[r] \ {h}) \cup {k},
         h.step = "hashing", k.step = "validating", k.g = h.g,
         k.existing <=> h.g.id \in DOMAIN Modules(TopoOrder(r)),
         crossed'[r] <=> crossed[r] \/ \E j \in running[r] :
                                          j.g.do = "submit" /\ j.g.id = h.g.id /\ j.step # "hashing"
  PROVE  Well(r)'
<1>0. Grows /\ h.g.do = "submit"
  BY SameGrows DEF PageInv, Good
<1>1. SubmitsWell(r)'
  BY SubmitsRead DEF Well
<1>2. BurnsWell(r)'
  <2>1. \A j \in running'[r] : Burns(j) => j \in running[r]
    BY <1>0 DEF Burns
  <2>2. crossed'[r] \/ OneBurn(running'[r])
    BY <2>1 DEF Well, BurnsWell, OneBurn
  <2>3. NoIdentity(r) => NoIdentity(r)'
    BY <1>0, NoneNew
  <2> QED BY <1>0, <2>1, <2>2, <2>3, BurnsStay DEF Well
<1>3. ToldWell(r)'
  BY <1>0, ToldStays DEF Well
<1> QED BY <1>1, <1>2, <1>3 DEF Well

\* What a handler calls a success, and of what key.
Tells(r, h, key) ==
  \/ h.g.do = "mint" /\ key = <<"formula", h.g.id>>
  \/ h.g.do = "burn" /\ key = <<"identity", r>>
  \/ h.g.do = "submit" /\ key = <<"module", h.g.id>>

LEMMA RequiredIs ==
  ASSUME RealBurns, NEW slot \in Nat
  PROVE  RequiredBurnLamports(slot) \in Int
<1>1. CASE Churn = None
  BY <1>1 DEF RequiredBurnLamports
<1>2. CASE Churn # None
  <2> DEFINE late == slot - Churn.genesisSlot
  <2>1. Churn.genesisSlot \in Nat /\ Churn.baseLamports \in Nat /\ Churn.lamportsPerSlot \in Nat /\ late \in Int
    BY <1>2 DEF RealBurns
  <2> HIDE DEF late
  <2>2. \E x \in {0, late} : \A y \in {0, late} : x >= y
    BY <2>1
  <2>3. Max({0, late}) \in {0, late}
    BY <2>2 DEF Max
  <2>4. Max({0, late}) \in Int
    BY <2>1, <2>3
  <2>5. Max({0, late}) * Churn.lamportsPerSlot \in Int
    BY <2>1, <2>4
  <2> QED BY <1>2, <2>1, <2>5 DEF RequiredBurnLamports, LinearCostCurve, late
<1> QED BY <1>1, <1>2

LEMMA KeyKinds ==
  \A a \in Claims :
    /\ Key(a)[1] = "identity" => a \in IdentityClaims /\ Key(a) = <<"identity", Owner[a]>>
    /\ Key(a)[1] = "formula" => a \in FormulaClaims /\ Key(a) = <<"formula", Name[a]>>
    /\ Key(a)[1] = "module" => a \in ModuleClaims /\ Key(a) = <<"module", Name[a]>>
BY KeyOf DEF Claims

\* A new claim, of a key that nothing above it claims.
LEMMA NewUndisputed ==
  ASSUME PageInv, Grows, NEW r \in Replicas, NEW h, NEW id, Grown(r, h, id), id \in Claims',
         \A a \in Above(h.event.parents) : a \in Claims => Key(a) # Key(id)'
  PROVE  Undisputed(id)'
<1>1. Ancestors'[id] = Above(h.event.parents) /\ Ancestors'[id] \subseteq DOMAIN content
  <2>1. dag[r] \subseteq DOMAIN content
    BY DEF PageInv, DagInv
  <2> QED BY <2>1, AboveAdded
<1>2. \A a \in Ancestors'[id] : a \in Claims' => Key(a)' # Key(id)'
  BY <1>1, ClaimsStay
<1> QED BY <1>2 DEF Undisputed

LEMMA ToldNew ==
  ASSUME PageInv, OwnRegistrations, RealBurns, NEW r \in Replicas, SubmitsWell(r), BurnsWell(r), ~crossed[r],
         NEW h \in running[r], h.step = "adding", NEW id, Grown(r, h, id), Grows,
         NEW key, Tells(r, h, key)
  PROVE  Kept(r, key, id)'
<1> DEFINE p == h.event.payload
<1>1. /\ Says(r, h.g, p) /\ content'[id] = h.event /\ id \in Ids /\ h.event.parents \in SUBSET dag[r]
      /\ h.g \in Gestures
  BY DEF Grown, PageInv, Good
<1>2. Above(h.event.parents) \subseteq dag[r] /\ dag[r] \subseteq DOMAIN content
  BY <1>1, AboveKnown
<1>3. Name'[id] = p.id /\ Type(id)' = p.type /\ Owner'[id] = p.domain /\ content'[id].payload = p
  BY <1>1 DEF Name, Type, Owner, Domain
<1>4. CASE h.g.do = "mint" /\ key = <<"formula", h.g.id>>
  <2>1. p = FormulaOf(r, h.g)
    BY <1>1, <1>4 DEF Says
  <2>2. Type(id)' = "formula-register" /\ Key(id)' = key
    BY <1>3, <1>4, <2>1 DEF Key, FormulaOf
  <2> QED BY <2>2 DEF Kept
<1>5. CASE h.g.do = "burn" /\ key = <<"identity", r>>
  <2>1. p = IdentityOf(r, h.g)
    BY <1>1, <1>5 DEF Says
  <2>2. /\ p.type = "identity-register" /\ p.domain = r /\ p.burned = h.g.lamports /\ p.slot = h.g.slot
        /\ p.burned \in Nat \ {0} /\ p.slot \in Nat
    BY <1>1, <1>5, <2>1 DEF IdentityOf, RealBurns, Acts
  <2>3. RequiredBurnLamports(p.slot) \in Int
    BY <2>2, RequiredIs
  <2>4. NoIdentity(r)
    BY <1>5 DEF BurnsWell, Burns
  <2>5. CASE p.burned < RequiredBurnLamports(p.slot)
    <3>1. key[1] = "identity"
      BY <1>5
    <3>2. (RequiredBurnLamports(content[id].payload.slot))' = RequiredBurnLamports(p.slot)
      BY <1>3 DEF RequiredBurnLamports, LinearCostCurve
    <3> HIDE DEF p
    <3> QED BY <1>3, <2>5, <3>1, <3>2 DEF Kept
  <2>6. CASE p.burned >= RequiredBurnLamports(p.slot)
    <3>1. id \in IdentityClaims'
      <4>1. (RequiredBurnLamports(content[id].payload.slot))' = RequiredBurnLamports(p.slot)
        BY <1>3 DEF RequiredBurnLamports, LinearCostCurve
      <4> HIDE DEF p
      <4> QED BY <1>1, <1>3, <2>2, <2>6, <4>1 DEF IdentityClaims
    <3>2. id \in Claims' /\ Key(id)' = key
      BY <1>3, <1>5, <2>2, <3>1 DEF Claims, Key
    <3>3. ASSUME NEW a \in Above(h.event.parents), a \in Claims, Key(a) = key PROVE FALSE
      <4>1. a \in dag[r] /\ Key(a)[1] = "identity"
        BY <1>2, <1>5, <3>3
      <4>2. a \in IdentityClaims /\ Owner[a] = r
        BY <1>5, <3>3, <4>1, KeyKinds
      <4> QED BY <2>4, <4>1, <4>2 DEF NoIdentity
    <3>4. Undisputed(id)'
      BY <3>2, <3>3, NewUndisputed
    <3> QED BY <3>2, <3>4 DEF Kept
  <2>7. p.burned < RequiredBurnLamports(p.slot) \/ p.burned >= RequiredBurnLamports(p.slot)
    <3> HIDE DEF p
    <3> QED BY <2>2, <2>3
  <2> QED BY <2>5, <2>6, <2>7
<1>6. CASE h.g.do = "submit" /\ key = <<"module", h.g.id>>
  <2>1. AddsWell(r, h)
    BY DEF SubmitsWell
  <2>2. CASE p = UpdateOf(h.g) /\ Exists(r, h.g.id)
    <3>1. Exists(r, h.g.id)'
      BY <2>2, ExistsStays
    <3>2. Type(id)' = "module-update" /\ content'[id].payload.id = h.g.id
      BY <1>3, <2>2 DEF UpdateOf
    <3> QED BY <1>6, <3>1, <3>2 DEF Kept
  <2>3. CASE /\ \E e \in Economics : p = ModuleOf(r, h.g, e) /\ (e # None => ValidEconomics(e))
             /\ Clean(h.g.id, h.event.parents)
    <3>1. PICK e \in Economics : p = ModuleOf(r, h.g, e) /\ (e # None => ValidEconomics(e))
      BY <2>3
    <3>2. p.type = "module-register" /\ p.id = h.g.id /\ p.economics = e
      BY <3>1 DEF ModuleOf
    <3>3. id \in ModuleClaims'
      <4> HIDE DEF p
      <4> QED BY <1>1, <1>3, <3>1, <3>2 DEF ModuleClaims, ValidEconomics
    <3>4. id \in Claims' /\ Key(id)' = key
      BY <1>3, <1>6, <3>2, <3>3 DEF Claims, Key
    <3>5. ASSUME NEW a \in Above(h.event.parents), a \in Claims, Key(a) = key PROVE FALSE
      <4>1. Key(a)[1] = "module"
        BY <1>6, <3>5
      <4>2. a \in ModuleClaims /\ Name[a] = h.g.id
        BY <1>6, <3>5, <4>1, KeyKinds
      <4> QED BY <2>3, <4>2 DEF Clean
    <3>6. Undisputed(id)'
      BY <3>4, <3>5, NewUndisputed
    <3> QED BY <3>4, <3>6 DEF Kept
  <2> QED BY <1>6, <2>1, <2>2, <2>3 DEF AddsWell
<1> QED BY <1>4, <1>5, <1>6 DEF Tells

-----------------------------------------------------------------------------
(* Steps, and what the user is told                                        *)

\* What another replica's step leaves as it was.
Aside(r) ==
  \A s \in Replicas \ {r} : /\ running'[s] = running[s] /\ lastEventId'[s] = lastEventId[s]
                            /\ crossed'[s] = crossed[s] /\ told'[s] = told[s] /\ dag'[s] = dag[s]

\* A step of r's that adds nothing is right, with what r has then.
Right(r) == Aside(r) /\ Well(r)' /\ UNCHANGED <<content, dag>> /\ crossed' = [s \in Replicas |-> crossed'[s]]
            /\ told' = told

LEMMA QuietRight ==
  ASSUME PageInv, ToldInv, NEW r \in Replicas, UNCHANGED <<content, dag, running, lastEventId, crossed, told>>
  PROVE  Right(r)
<1>1. Grows
  BY SameGrows
<1>2. NoIdentity(r) => NoIdentity(r)'
  BY <1>1, NoneNew
<1>3. Well(r)'
  BY <1>1, <1>2, WellStays DEF ToldInv, Well
<1> QED BY <1>3 DEF Right, Aside, ToldInv

LEMMA EndsRight ==
  ASSUME PageInv, ToldInv, NEW r \in Replicas, NEW h, Ends(r, h),
         UNCHANGED <<content, dag, lastEventId, crossed, told>>
  PROVE  Right(r)
<1>1. Grows
  BY SameGrows
<1>2. NoIdentity(r) => NoIdentity(r)'
  BY <1>1, NoneNew
<1>3. running'[r] \subseteq running[r] /\ \A s \in Replicas \ {r} : running'[s] = running[s]
  BY DEF Ends, PageInv
<1>4. Well(r)'
  BY <1>1, <1>2, <1>3, WellStays DEF ToldInv, Well
<1> QED BY <1>3, <1>4 DEF Right, Aside, ToldInv

LEMMA MoreRight ==
  ASSUME PageInv, ToldInv, NEW r \in Replicas, UNCHANGED <<content, dag, lastEventId, told>>,
         NEW K, NEW h, K \subseteq running[r], running' = [running EXCEPT ![r] = K \cup {h}],
         h.step # "validating",
         h.step = "adding" => AddsWell(r, h) /\ h.event.parents = {lastEventId[r]},
         NEW c, crossed' = [crossed EXCEPT ![r] = c], crossed[r] => c, c \/ OneEach(K \cup {h}),
         c \/ (Burns(h) => NoIdentity(r) /\ \A k \in K : ~Burns(k))
  PROVE  Right(r)
<1>1. /\ running'[r] = K \cup {h} /\ \A s \in Replicas \ {r} : running'[s] = running[s]
      /\ crossed'[r] = c /\ \A s \in Replicas \ {r} : crossed'[s] = crossed[s]
      /\ crossed' = [s \in Replicas |-> crossed'[s]]
  BY DEF PageInv, ToldInv
<1>2. Well(r) /\ told'[r] = told[r]
  BY DEF ToldInv, Well
<1>3. Well(r)'
  BY <1>1, <1>2, WellMore
<1> QED BY <1>1, <1>3 DEF Right, Aside

LEMMA NoneTwice ==
  ASSUME ToldInv, NEW r \in Replicas, NEW h, ~Submits(h), NEW K, K \subseteq running[r]
  PROVE  crossed[r] \/ OneEach(K \cup {h})
<1>1. crossed[r] \/ OneEach(running[r])
  BY DEF ToldInv, SubmitsWell
<1> QED BY <1>1 DEF OneEach

LEMMA GestureRight ==
  ASSUME PageInv, ToldInv, OwnRegistrations, NEW r \in Replicas, NEW g,
         \/ Mint(r, g) \/ Choose(r, g) \/ Burn(r, g) \/ Submit(r, g) \/ Post(r, g)
         \/ Advance(r, g) \/ Wait(r, g) \/ RunModule(r, g) \/ Pin(r, g)
         \/ (\E i, j \in DOMAIN shown[r].layout : Drop(r, g, i, j))
         \/ (\E m \in rows[r] : Eject(r, g, m))
  PROVE  Right(r)
<1>0. crossed = [crossed EXCEPT ![r] = crossed[r]] /\ running = [s \in Replicas |-> running[s]]
  BY DEF ToldInv, PageInv
<1>1. CASE UNCHANGED <<content, dag, running, lastEventId, crossed, told>>
  BY <1>1, QuietRight
<1>2. CASE Mint(r, g) \/ Post(r, g)
  <2>1. PICK p :
          /\ g.do \in {"mint", "post"} /\ UNCHANGED <<content, dag, lastEventId, crossed, told>>
          /\ \/ running' = running
             \/ running' = [running EXCEPT ![r] = running[r] \cup {Adding(r, g, p)}]
    BY <1>2 DEF Mint, Post, OnlyHandlers
  <2> DEFINE k == Adding(r, g, p)
  <2>2. k.step = "adding" /\ k.g = g /\ k.event.parents = {lastEventId[r]}
    BY DEF Adding
  <2> HIDE DEF k
  <2>3. AddsWell(r, k) /\ ~Submits(k) /\ ~Burns(k)
    BY <2>1, <2>2 DEF AddsWell, Submits, Burns
  <2>4. CASE running' = running
    BY <1>1, <2>1, <2>4
  <2>5. CASE running' = [running EXCEPT ![r] = running[r] \cup {k}]
    <3>1. crossed' = [crossed EXCEPT ![r] = crossed[r]]
      BY <1>0, <2>1
    <3>2. crossed[r] \/ OneEach(running[r] \cup {k})
      BY <2>3, NoneTwice
    <3> QED BY <2>1, <2>2, <2>3, <2>5, <3>1, <3>2, MoreRight
  <2> QED BY <2>1, <2>4, <2>5 DEF k
<1>3. CASE Burn(r, g)
  <2> DEFINE k == [step |-> "broadcasting", g |-> g]
             c == crossed[r] \/ HasIdentityCost(r) \/ \E h \in running[r] : h.g.do = "burn"
  <2>1. /\ running' = [running EXCEPT ![r] = running[r] \cup {k}] /\ crossed' = [crossed EXCEPT ![r] = c]
        /\ UNCHANGED <<content, dag, lastEventId, told>>
    BY <1>3 DEF Burn, OnlyHandlers
  <2>2. k.step = "broadcasting" /\ k.g = g
    OBVIOUS
  <2> HIDE DEF k
  <2>3. crossed[r] \/ OneEach(running[r] \cup {k})
    BY <2>2, NoneTwice DEF Submits
  <2>4. c \/ (NoIdentity(r) /\ \A j \in running[r] : ~Burns(j))
    BY IdentityKnown, RegistrationsOwn DEF Burns
  <2>5. crossed[r] => c
    OBVIOUS
  <2> HIDE DEF c
  <2> QED BY <2>1, <2>2, <2>3, <2>4, <2>5, MoreRight
<1>4. CASE Submit(r, g)
  <2> DEFINE k == [step |-> "hashing", g |-> g]
  <2>1. /\ running' = [running EXCEPT ![r] = running[r] \cup {k}] /\ g.do = "submit"
        /\ UNCHANGED <<content, dag, lastEventId, told, crossed>>
    BY <1>4 DEF Submit, OnlyHandlers
  <2>2. k.step = "hashing" /\ k.g = g
    OBVIOUS
  <2> HIDE DEF k
  <2>3. crossed[r] \/ OneEach(running[r] \cup {k})
    BY <2>2, NoneTwice DEF Submits
  <2>4. ~Burns(k) /\ crossed' = [crossed EXCEPT ![r] = crossed[r]]
    BY <1>0, <2>1, <2>2 DEF Burns
  <2> QED BY <2>1, <2>2, <2>3, <2>4, MoreRight
<1>5. CASE \/ Choose(r, g) \/ Advance(r, g) \/ Wait(r, g) \/ RunModule(r, g) \/ Pin(r, g)
           \/ (\E i, j \in DOMAIN shown[r].layout : Drop(r, g, i, j))
           \/ (\E m \in rows[r] : Eject(r, g, m))
  <2>1. UNCHANGED <<content, dag, running, lastEventId, crossed, told>>
    BY <1>5 DEF Choose, Advance, Wait, RunModule, RunsIt, Pin, Drop, Eject, Arranged, handling
  <2> QED BY <1>1, <2>1
<1> QED BY <1>2, <1>3, <1>4, <1>5

LEMMA HandlerRight ==
  ASSUME PageInv, ToldInv, OwnRegistrations, NEW r \in Replicas, NEW h \in running[r],
         \/ BurnFails(r, h) \/ BurnVerified(r, h)
         \/ SubmissionBuilt(r, h) \/ SubmissionRefused(r, h) \/ SubmissionAccepted(r, h)
  PROVE  Right(r)
<1>0. /\ crossed = [crossed EXCEPT ![r] = crossed[r]] /\ running = [s \in Replicas |-> running[s]]
      /\ Good(r, h, dag[r]) /\ SubmitsWell(r) /\ BurnsWell(r)
  BY DEF ToldInv, PageInv
<1>1. CASE BurnFails(r, h) \/ SubmissionRefused(r, h)
  <2>1. Ends(r, h) /\ UNCHANGED <<content, dag, lastEventId, crossed, told>>
    BY <1>1 DEF BurnFails, SubmissionRefused, OnlyHandlers
  <2> QED BY <2>1, EndsRight
<1>2. CASE BurnVerified(r, h)
  <2> DEFINE p == [type |-> "identity-register", domain |-> r,
                   signature |-> <<r, h.g.slot>>, burned |-> h.g.lamports, slot |-> h.g.slot]
             k == Adding(r, h.g, p)
             K == running[r] \ {h}
  <2>1. /\ running' = [running EXCEPT ![r] = K \cup {k}] /\ h.step = "broadcasting"
        /\ UNCHANGED <<content, dag, lastEventId, crossed, told>>
    BY <1>2 DEF BurnVerified, GoesOn, OnlyHandlers
  <2>2. k.step = "adding" /\ k.g = h.g /\ k.event.parents = {lastEventId[r]}
    BY DEF Adding
  <2> HIDE DEF k
  <2>3. h.g.do = "burn" /\ Burns(h)
    BY <1>0, <2>1 DEF Good, Burns
  <2>4. AddsWell(r, k) /\ ~Submits(k)
    BY <2>2, <2>3 DEF AddsWell, Submits
  <2>5. crossed[r] \/ OneEach(K \cup {k})
    BY <2>4, NoneTwice
  <2>6. crossed[r] \/ (NoIdentity(r) /\ \A j \in K : ~Burns(j))
    BY <1>0, <2>3 DEF BurnsWell, OneBurn
  <2>7. crossed' = [crossed EXCEPT ![r] = crossed[r]]
    BY <1>0, <2>1
  <2>8. K \subseteq running[r]
    OBVIOUS
  <2> HIDE DEF K
  <2> QED BY <2>1, <2>2, <2>4, <2>5, <2>6, <2>7, <2>8, MoreRight
<1>3. CASE SubmissionAccepted(r, h)
  <2> DEFINE p == IF h.existing THEN UpdateOf(h.g) ELSE ModuleOf(r, h.g, h.economics)
             k == Adding(r, h.g, p)
             K == running[r] \ {h}
  <2>1. /\ running' = [running EXCEPT ![r] = K \cup {k}] /\ h.step = "validating" /\ Valid(h)
        /\ UNCHANGED <<content, dag, lastEventId, crossed, told>>
    BY <1>3 DEF SubmissionAccepted, GoesOn, OnlyHandlers, UpdateOf, ModuleOf
  <2>2. /\ k.step = "adding" /\ k.g = h.g /\ k.event.parents = {lastEventId[r]} /\ k.event.payload = p
    BY DEF Adding
  <2> HIDE DEF k
  <2>3. h.g.do = "submit" /\ Submits(h) /\ h.economics \in Economics /\ WillAddWell(r, h)
    BY <1>0, <2>1 DEF Good, Submits, SubmitsWell
  <2>4. AddsWell(r, k)
    <3>1. CASE h.existing
      BY <2>2, <2>3, <3>1 DEF AddsWell, WillAddWell
    <3>2. CASE ~h.existing
      <4>1. p = ModuleOf(r, h.g, h.economics) /\ (h.economics # None => ValidEconomics(h.economics))
        BY <2>1, <3>2 DEF Valid
      <4>2. crossed[r] \/ Clean(h.g.id, k.event.parents)
        BY <2>2, <2>3, <3>2 DEF WillAddWell
      <4> HIDE DEF p
      <4> QED BY <2>2, <2>3, <4>1, <4>2 DEF AddsWell
    <3> QED BY <3>1, <3>2
  <2>5. crossed[r] \/ OneEach(K \cup {k})
    <3> SUFFICES ASSUME ~crossed[r], NEW i \in K \cup {k}, NEW j \in K \cup {k},
                        Submits(i), Submits(j), i.g.id = j.g.id, i # j
                 PROVE  FALSE
      BY DEF OneEach
    <3>1. OneEach(running[r])
      BY <1>0 DEF SubmitsWell
    <3>2. \A l \in K : Submits(l) => l.g.id # h.g.id
      BY <2>3, <3>1 DEF OneEach
    <3>3. ~(i \in K /\ j \in K)
      BY <3>1 DEF OneEach
    <3> QED BY <2>2, <3>2, <3>3
  <2>6. ~Burns(k)
    BY <2>2, <2>3 DEF Burns
  <2>7. crossed' = [crossed EXCEPT ![r] = crossed[r]]
    BY <1>0, <2>1
  <2>8. K \subseteq running[r]
    OBVIOUS
  <2> HIDE DEF K
  <2> QED BY <2>1, <2>2, <2>4, <2>5, <2>6, <2>7, <2>8, MoreRight
<1>4. CASE SubmissionBuilt(r, h)
  <2> DEFINE b == h.g.id \in DOMAIN Modules(TopoOrder(r))
             x == IF h.g.economics = None THEN None ELSE [backed |-> HasIdentityCost(r)] @@ h.g.economics
             k == [step |-> "validating", g |-> h.g, existing |-> b, economics |-> x]
             c == crossed[r] \/ \E j \in running[r] : j.g.do = "submit" /\ j.g.id = h.g.id /\ j.step # "hashing"
  <2>1. /\ running' = [running EXCEPT ![r] = (running[r] \ {h}) \cup {k}] /\ h.step = "hashing"
        /\ crossed' = [crossed EXCEPT ![r] = c] /\ UNCHANGED <<content, dag, lastEventId, told>>
    BY <1>4 DEF SubmissionBuilt, GoesOn, OnlyHandlers
  <2>2. k.step = "validating" /\ k.g = h.g /\ (k.existing <=> b)
    OBVIOUS
  <2>3. /\ running'[r] = (running[r] \ {h}) \cup {k} /\ \A s \in Replicas \ {r} : running'[s] = running[s]
        /\ crossed'[r] = c /\ \A s \in Replicas \ {r} : crossed'[s] = crossed[s]
        /\ crossed' = [s \in Replicas |-> crossed'[s]]
    <3> HIDE DEF k, c
    <3> QED BY <1>0, <2>1 DEF ToldInv
  <2>4. Well(r)
    BY DEF ToldInv, Well
  <2> HIDE DEF k
  <2>5. Well(r)'
    BY <2>1, <2>2, <2>3, <2>4, WellRead
  <2> QED BY <2>1, <2>3, <2>5 DEF Right, Aside
<1> QED BY <1>1, <1>2, <1>3, <1>4

LEMMA ReloadRight ==
  ASSUME PageInv, ToldInv, NEW r \in Replicas, NEW g, Reload(r, g)
  PROVE  Right(r)
<1>1. /\ running' = [running EXCEPT ![r] = {}] /\ UNCHANGED <<content, dag, crossed, told>>
      /\ lastEventId' = [lastEventId EXCEPT ![r] = Last(TopoOrder(r))]
  BY DEF Reload
<1>2. /\ running'[r] = {} /\ \A s \in Replicas \ {r} : running'[s] = running[s]
      /\ \A s \in Replicas \ {r} : lastEventId'[s] = lastEventId[s]
  BY <1>1 DEF PageInv
<1>3. Grows
  BY <1>1, SameGrows
<1>4. Well(r)'
  BY <1>1, <1>2, <1>3, WellReloaded DEF ToldInv, Well
<1> QED BY <1>1, <1>2, <1>4 DEF Right, Aside, ToldInv

\* A step that adds no event leaves identities where their domains are.
LEMMA HomeStays ==
  ASSUME PageInv, PageInv', ToldInv, Grows, content' = content
  PROVE  IdentitiesHome' /\ \A r \in Replicas : NoIdentity(r) => NoIdentity(r)'
<1>1. ASSUME NEW i \in DOMAIN content PROVE /\ Type(i)' = Type(i) /\ Domain(i)' = Domain(i)
                                            /\ i \in IdentityClaims' <=> i \in IdentityClaims
                                            /\ Owner'[i] = Owner[i]
  BY KindsStay
<1>2. ASSUME NEW i \in DOMAIN content, Type(i) = "identity-register"
      PROVE  Domain(i) \in Replicas /\ i \in dag[Domain(i)]
  BY <1>2 DEF ToldInv, IdentitiesHome
<1>3. ASSUME NEW i \in DOMAIN content', Type(i)' = "identity-register"
      PROVE  Domain(i)' \in Replicas /\ i \in dag'[Domain(i)']
  <2>1. Domain(i) \in Replicas /\ i \in dag[Domain(i)]
    BY <1>1, <1>2, <1>3
  <2>2. \A r \in Replicas : dag[r] \subseteq dag'[r]
    BY DEF Grows
  <2>3. Domain(i)' = Domain(i)
    BY <1>1
  <2> QED BY <2>1, <2>2, <2>3
<1>4. ASSUME NEW r \in Replicas, NoIdentity(r) PROVE NoIdentity(r)'
  <2>1. ASSUME NEW i \in dag'[r], i \in IdentityClaims', Owner'[i] = r PROVE i \in dag[r]
    <3>1. i \in DOMAIN content
      BY DEF PageInv, DagInv
    <3>2. Type(i) = "identity-register" /\ Domain(i) = r
      BY <1>1, <2>1, <3>1, OwnerIs
    <3> QED BY <1>2, <3>1, <3>2
  <2> QED BY <1>4, <2>1, NoneNew
<1> QED BY <1>3, <1>4 DEF IdentitiesHome

(* A handler's event is in: no other that burns, or that submits the same  *)
(* module, was under way, and what the user is told of it is so.           *)
LEMMA WellAdded ==
  ASSUME PageInv, ToldInv, OwnRegistrations, RealBurns, NEW r \in Replicas, NEW h \in running[r],
         NEW id, NEW keys, Added(r, h, id, keys), \A key \in keys : Tells(r, h, key)
  PROVE  Well(r)'
<1>1. Grown(r, h, id)
  BY AddedFacts
<1>2. Grows
  BY <1>1 DEF Grown, Grows
<1>3. /\ h.step = "adding" /\ h.g \in Gestures /\ running'[r] = running[r] \ {h}
      /\ lastEventId'[r] = id /\ crossed'[r] = crossed[r]
      /\ DOMAIN told'[r] = DOMAIN told[r] \cup keys
      /\ \A k \in DOMAIN told'[r] : told'[r][k] = IF k \in keys THEN id ELSE told[r][k]
  BY DEF Added, Ends, PageInv, Good, ToldInv
<1>4. id \in dag'[r] /\ dag'[r] = dag[r] \cup {id} /\ id \in Ids
  BY <1>1 DEF Grown
<1>5. SubmitsWell(r) /\ BurnsWell(r) /\ ToldWell(r)
  BY DEF ToldInv
<1>6. SubmitsWell(r)'
  BY <1>1, <1>2, <1>3, <1>5, SubmitsAdd
<1>7. BurnsWell(r)'
  <2> SUFFICES ASSUME ~crossed[r] PROVE BurnsWell(r)'
    BY <1>3 DEF BurnsWell
  <2>1. OneBurn(running[r]) /\ \A k \in running[r] : Burns(k) => NoIdentity(r)
    BY <1>5 DEF BurnsWell
  <2>2. OneBurn(running'[r])
    BY <1>3, <2>1 DEF OneBurn
  <2>3. ASSUME NEW j \in running'[r], Burns(j) PROVE NoIdentity(r)'
    <3>1. j \in running[r] /\ j # h /\ NoIdentity(r)
      BY <1>3, <2>1, <2>3
    <3>2. ~(h.g.do = "burn")
      BY <2>1, <2>3, <3>1 DEF OneBurn, Burns
    <3>3. id \notin IdentityClaims'
      <4>1. ~(Type(id)' = "identity-register")
        BY <1>1, <1>3, <3>2, NewKinds
      <4> QED BY <4>1 DEF IdentityClaims, Type
    <3> QED BY <1>2, <1>4, <3>1, <3>3, NoneNew
  <2> QED BY <2>2, <2>3 DEF BurnsWell, OneBurn, Burns
<1>8. ToldWell(r)'
  <2> SUFFICES ASSUME ~crossed[r], NEW key \in DOMAIN told'[r]
               PROVE  \E i \in dag'[r] : told'[r][key] = i /\ Kept(r, key, i)'
    BY <1>3 DEF ToldWell
  <2>1. CASE key \in keys
    <3>1. Kept(r, key, id)'
      BY <1>1, <1>2, <1>3, <1>5, <2>1, ToldNew
    <3> QED BY <1>3, <1>4, <2>1, <3>1
  <2>2. CASE key \notin keys
    <3>1. PICK i \in dag[r] : told[r][key] = i /\ Kept(r, key, i)
      BY <1>3, <1>5, <2>2 DEF ToldWell
    <3>2. Kept(r, key, i)'
      BY <1>2, <3>1, KeptStays
    <3> QED BY <1>3, <1>4, <2>2, <3>1, <3>2
  <2> QED BY <2>1, <2>2
<1> QED BY <1>6, <1>7, <1>8 DEF Well

LEMMA AddedTells ==
  ASSUME NEW r \in Replicas, NEW h \in running[r], NEW id,
         Minted(r, h, id) \/ IdentityAdded(r, h, id) \/ ModuleAdded(r, h, id) \/ Posted(r, h, id)
  PROVE  \E keys : Added(r, h, id, keys) /\ \A key \in keys : Tells(r, h, key)
<1>1. CASE Minted(r, h, id)
  BY <1>1 DEF Minted, Tells
<1>2. CASE IdentityAdded(r, h, id)
  BY <1>2 DEF IdentityAdded, Tells
<1>3. CASE ModuleAdded(r, h, id)
  BY <1>3 DEF ModuleAdded, Tells
<1>4. CASE Posted(r, h, id)
  BY <1>4 DEF Posted
<1> QED BY <1>1, <1>2, <1>3, <1>4

\* An event of r's comes in.
LEMMA AddedRight ==
  ASSUME PageInv, ToldInv, OwnRegistrations, RealBurns, NEW r \in Replicas, NEW h \in running[r],
         NEW id, NEW keys, Added(r, h, id, keys), \A key \in keys : Tells(r, h, key)
  PROVE  ToldInv'
<1>1. Grown(r, h, id)
  BY AddedFacts
<1>2. Grows
  BY <1>1 DEF Grown, Grows
<1>3. /\ crossed' = [s \in Replicas |-> crossed'[s]] /\ told' = [s \in Replicas |-> told'[s]]
      /\ h.g \in Gestures /\ DOMAIN content' = DOMAIN content \cup {id} /\ id \in Ids
  BY <1>1 DEF Added, ToldInv, PageInv, Good, Grown
<1>4. ASSUME NEW i \in DOMAIN content', Type(i)' = "identity-register"
      PROVE  Domain(i)' \in Replicas /\ i \in dag'[Domain(i)']
  <2>1. CASE i \in DOMAIN content
    <3>1. Type(i)' = Type(i) /\ Domain(i)' = Domain(i)
      BY <1>2, <2>1, KindsStay
    <3>2. Domain(i) \in Replicas /\ i \in dag[Domain(i)]
      BY <1>4, <2>1, <3>1 DEF ToldInv, IdentitiesHome
    <3>3. \A s \in Replicas : dag[s] \subseteq dag'[s]
      BY <1>2 DEF Grows
    <3> QED BY <3>1, <3>2, <3>3
  <2>2. CASE i = id
    <3>1. h.event.payload = IdentityOf(r, h.g) /\ content'[id] = h.event /\ id \in dag'[r]
      BY <1>1, <1>3, <1>4, <2>2, NewKinds DEF Grown
    <3>2. Domain(i)' = r
      BY <2>2, <3>1 DEF Domain, IdentityOf
    <3> QED BY <2>2, <3>1, <3>2
  <2> QED BY <1>3, <2>1, <2>2
<1>5. Well(r)'
  BY WellAdded
<1>6. ASSUME NEW s \in Replicas, s # r PROVE Well(s)'
  <2>1. /\ running'[s] = running[s] /\ lastEventId'[s] = lastEventId[s]
        /\ crossed'[s] = crossed[s] /\ told'[s] = told[s] /\ dag'[s] = dag[s]
    BY <1>1, <1>6 DEF Added, Ends, PageInv, ToldInv, Grown
  <2>2. NoIdentity(s) => NoIdentity(s)'
    BY <1>2, <2>1, NoneNew
  <2>3. Well(s)
    BY DEF ToldInv, Well
  <2> QED BY <1>2, <2>1, <2>2, <2>3, WellStays
<1> QED BY <1>3, <1>4, <1>5, <1>6 DEF ToldInv, IdentitiesHome, Well

\* A step of r's that is right keeps what the others have been told.
LEMMA RightTold ==
  ASSUME PageInv, PageInv', ToldInv, NEW r \in Replicas, Right(r)
  PROVE  ToldInv'
<1>1. /\ UNCHANGED <<content, dag>> /\ told' = told /\ Well(r)' /\ crossed' = [s \in Replicas |-> crossed'[s]]
      /\ Aside(r)
  BY DEF Right
<1>2. Grows
  BY <1>1, SameGrows
<1>3. IdentitiesHome' /\ \A s \in Replicas : NoIdentity(s) => NoIdentity(s)'
  BY <1>1, <1>2, HomeStays
<1>4. ASSUME NEW s \in Replicas, s # r PROVE Well(s)'
  <2>1. /\ running'[s] = running[s] /\ lastEventId'[s] = lastEventId[s]
        /\ crossed'[s] = crossed[s] /\ told'[s] = told[s]
    BY <1>1, <1>4 DEF Aside
  <2>2. Well(s)
    BY DEF ToldInv, Well
  <2> QED BY <1>2, <1>3, <2>1, <2>2, WellStays
<1>5. (told = [s \in Replicas |-> told[s]])'
  BY <1>1 DEF ToldInv
<1> QED BY <1>1, <1>3, <1>4, <1>5 DEF ToldInv, Well

\* No handler, no identity: what is merged is of no domain's but those it knows.
LEMMA SyncTold ==
  ASSUME PageInv, PageInv', ToldInv, Grows, UNCHANGED <<content, running, lastEventId, crossed, told>>
  PROVE  ToldInv'
<1>1. IdentitiesHome' /\ \A s \in Replicas : NoIdentity(s) => NoIdentity(s)'
  BY HomeStays
<1>2. ASSUME NEW s \in Replicas PROVE Well(s)'
  <2>1. Well(s)
    BY DEF ToldInv, Well
  <2> QED BY <1>1, <2>1, WellStays
<1>3. (crossed = [s \in Replicas |-> crossed[s]] /\ told = [s \in Replicas |-> told[s]])'
  BY DEF ToldInv
<1> QED BY <1>1, <1>2, <1>3 DEF ToldInv, Well

LEMMA ToldInit == Init => ToldInv
<1> SUFFICES ASSUME Init PROVE ToldInv
  OBVIOUS
<1>1. PICK id \in [Replicas -> Ids] :
        content = [i \in {id[r] : r \in Replicas} |-> Genesis0(CHOOSE r \in Replicas : id[r] = i)]
  BY DEF Init
<1>2. \A i \in DOMAIN content : Type(i) = "genesis"
  BY <1>1 DEF Type, Genesis0
<1>3. IdentitiesHome
  BY <1>2 DEF IdentitiesHome
<1>4. /\ running = [r \in Replicas |-> {}] /\ told = [r \in Replicas |-> Nothing]
      /\ crossed = [r \in Replicas |-> FALSE]
  BY DEF Init
<1>5. \A r \in Replicas : SubmitsWell(r) /\ BurnsWell(r)
  BY <1>4 DEF SubmitsWell, BurnsWell, OneEach, OneBurn
<1>6. \A r \in Replicas : ToldWell(r)
  BY <1>4, NothingIn DEF ToldWell
<1> QED BY <1>3, <1>4, <1>5, <1>6 DEF ToldInv

LEMMA ToldStep ==
  ASSUME OwnRegistrations, RealBurns
  PROVE  PageInv /\ ToldInv /\ [Next]_vars => ToldInv'
<1> SUFFICES ASSUME PageInv, ToldInv, [Next]_vars PROVE ToldInv'
  OBVIOUS
<1>0. PageInv' /\ Grows
  BY PageStep, StepGrows
<1>1. CASE UNCHANGED vars
  <2>1. UNCHANGED <<content, running, lastEventId, crossed, told>>
    BY <1>1 DEF vars, handling
  <2> QED BY <1>0, <2>1, SyncTold
<1>2. CASE Next
  <2>1. PICK r \in Replicas :
           \/ \E g :
                \/ Mint(r, g) \/ Choose(r, g) \/ Burn(r, g) \/ Submit(r, g) \/ Post(r, g)
                \/ Advance(r, g) \/ Wait(r, g) \/ RunModule(r, g) \/ Pin(r, g)
                \/ (\E i, j \in DOMAIN shown[r].layout : Drop(r, g, i, j))
                \/ (\E m \in rows[r] : Eject(r, g, m))
           \/ \E g : Reload(r, g)
           \/ \E h \in running[r] :
                \/ BurnFails(r, h) \/ BurnVerified(r, h)
                \/ SubmissionBuilt(r, h) \/ SubmissionRefused(r, h) \/ SubmissionAccepted(r, h)
           \/ \E h \in running[r], id \in Ids :
                \/ Minted(r, h, id) \/ IdentityAdded(r, h, id)
                \/ ModuleAdded(r, h, id) \/ Posted(r, h, id)
           \/ ModuleLoads(r) \/ CloseRunner(r) \/ Render(r)
           \/ CloseFolder(r) \/ \E f \in Folders(shown[r].layout) : OpenFolder(r, f)
           \/ \E s \in Replicas : Sync(r, s)
    BY <1>2, StepKinds
  <2>2. ASSUME NEW h \in running[r], NEW id \in Ids,
               Minted(r, h, id) \/ IdentityAdded(r, h, id) \/ ModuleAdded(r, h, id) \/ Posted(r, h, id)
        PROVE  ToldInv'
    <3>1. PICK keys : Added(r, h, id, keys) /\ \A key \in keys : Tells(r, h, key)
      BY <2>2, AddedTells
    <3> QED BY <3>1, AddedRight
  <2>3. CASE ModuleLoads(r) \/ CloseRunner(r) \/ Render(r) \/ CloseFolder(r)
             \/ \E f \in Folders(shown[r].layout) : OpenFolder(r, f)
    <3>1. UNCHANGED <<content, dag, running, lastEventId, crossed, told>>
      BY <2>3 DEF ModuleLoads, CloseRunner, Render, CloseFolder, OpenFolder, Arranged, handling
    <3> QED BY <1>0, <3>1, QuietRight, RightTold
  <2>4. ASSUME NEW s \in Replicas, Sync(r, s) PROVE ToldInv'
    <3>1. UNCHANGED <<content, running, lastEventId, crossed, told>>
      BY <2>4 DEF Sync, MergeBothWays, handling
    <3> QED BY <1>0, <3>1, SyncTold
  <2>5. ASSUME NEW g, Reload(r, g) PROVE ToldInv'
    BY <1>0, <2>5, ReloadRight, RightTold
  <2>6. ASSUME NEW h \in running[r],
                \/ BurnFails(r, h) \/ BurnVerified(r, h)
                \/ SubmissionBuilt(r, h) \/ SubmissionRefused(r, h) \/ SubmissionAccepted(r, h)
        PROVE  ToldInv'
    BY <1>0, <2>6, HandlerRight, RightTold
  <2>7. ASSUME NEW g,
                \/ Mint(r, g) \/ Choose(r, g) \/ Burn(r, g) \/ Submit(r, g) \/ Post(r, g)
                \/ Advance(r, g) \/ Wait(r, g) \/ RunModule(r, g) \/ Pin(r, g)
                \/ (\E i, j \in DOMAIN shown[r].layout : Drop(r, g, i, j))
                \/ (\E m \in rows[r] : Eject(r, g, m))
        PROVE  ToldInv'
    BY <1>0, <2>7, GestureRight, RightTold
  <2> QED BY <2>1, <2>2, <2>3, <2>4, <2>5, <2>6, <2>7
<1> QED BY <1>1, <1>2

\* What has been told of a key is shown of it, or another event of the key does not precede.
LEMMA KeptShown ==
  ASSUME PageInv, OwnRegistrations, NEW r \in Replicas, NEW key, NEW id \in dag[r], Kept(r, key, id)
  PROVE  LET modules == Modules(TopoOrder(r))
             e == content[id].payload
         IN  \/ IF key[1] = "module"
                THEN key[2] \in DOMAIN modules /\ modules[key[2]].code = e.code
                ELSE <<key, id>> \in Registered(r)
             \/ \E i \in dag[r] : i # id /\ Key(i) = key /\ i \notin Ancestors[id]
             \/ key[1] = "identity" /\ e.burned < RequiredBurnLamports(e.slot)
             \/ key[1] = "formula" /\ (key[2] = Genesis \/ \E i \in Ancestors[id] : Key(i) = key)
<1> DEFINE modules == Modules(TopoOrder(r))
<1>1. DagInv
  BY DEF PageInv
<1>2. CASE Undisputed(id) /\ Key(id) = key /\ key[1] # "module"
  <2>1. Trusted(Key(id))
    BY ReliedTrusted, RegistrationsOwn DEF Relied
  <2>2. CASE <<Key(id), id>> \in Registered(r)
    BY <1>2, <2>2
  <2>3. CASE \E j \in dag[r] : Key(j) = Key(id) /\ Apart(j, id)
    BY <1>2, <2>3 DEF Apart
  <2> QED BY <1>1, <1>2, <2>1, <2>2, <2>3, Stands
<1>3. ASSUME NEW m, key = <<"module", m>>, Takeable(r, id, m)
      PROVE  \/ m \in DOMAIN modules /\ modules[m].code = content[id].payload.code
             \/ \E i \in dag[r] : i # id /\ Key(i) = key /\ i \notin Ancestors[id]
  <2> HIDE DEF modules
  <2> SUFFICES ASSUME \A i \in dag[r] : i # id /\ Key(i) = <<"module", m>> => i \in Ancestors[id]
               PROVE  m \in DOMAIN modules /\ modules[m].code = content[id].payload.code
    BY <1>3
  <2> QED BY <1>1, <1>3, CodeShown DEF modules
<1>4. CASE Undisputed(id) /\ Key(id) = key /\ key[1] = "module"
  <2>1. id \in ModuleClaims /\ key = <<"module", Name[id]>>
    BY <1>4, KeyKinds DEF Undisputed
  <2>2. Takeable(r, id, Name[id])
    BY <1>4, <2>1 DEF Takeable
  <2> QED BY <1>3, <2>1, <2>2
<1>5. CASE Type(id) = "module-update" /\ key = <<"module", content[id].payload.id>> /\ Exists(r, key[2])
  <2>1. Takeable(r, id, content[id].payload.id)
    BY <1>5 DEF Takeable
  <2> QED BY <1>3, <1>5, <2>1
<1>6. CASE Type(id) = "formula-register" /\ Key(id) = key /\ ~Undisputed(id)
  <2>1. key = <<"formula", content[id].payload.id>> /\ id \in Ids
    BY <1>6 DEF Key, Type, DagInv, PageInv
  <2>2. CASE key[2] = Genesis
    BY <2>1, <2>2
  <2>3. CASE key[2] # Genesis
    <3>1. id \in Claims
      BY <1>6, <2>1, <2>3 DEF Claims, FormulaClaims, Type
    <3>2. PICK a \in Ancestors[id] \cap Claims : Key(a) = key
      BY <1>6, <3>1 DEF Undisputed
    <3> QED BY <2>1, <3>2
  <2> QED BY <2>2, <2>3
<1>7. CASE Undisputed(id) /\ Key(id) = key
  BY <1>2, <1>4, <1>7
<1> QED BY <1>5, <1>6, <1>7 DEF Kept

(* A user who mints a formula, registers an identity or submits a module   *)
(* is told of its success, and rightly: the page's own view shows it, then *)
(* and after any merge or reload, unless another event on the same key is  *)
(* known that the user's does not follow; provided that the user did not   *)
(* have two burns or two submissions of the module under way, that the     *)
(* burn was what its slot requires, and that the formula had not been      *)
(* minted before.                                                          *)
THEOREM ToldStands ==
  ASSUME OwnRegistrations, RealBurns
  PROVE  Spec => []ToldIsKept
<1>1. PageInv /\ ToldInv => ToldIsKept
  <2> SUFFICES ASSUME PageInv, ToldInv, NEW r \in Replicas, ~crossed[r], NEW key \in DOMAIN told[r]
               PROVE  LET modules == Modules(TopoOrder(r))
                          id == told[r][key]
                          e == content[id].payload
                      IN  \/ IF key[1] = "module"
                             THEN key[2] \in DOMAIN modules /\ modules[key[2]].code = e.code
                             ELSE <<key, id>> \in Registered(r)
                          \/ \E i \in dag[r] : i # id /\ Key(i) = key /\ i \notin Ancestors[id]
                          \/ key[1] = "identity" /\ e.burned < RequiredBurnLamports(e.slot)
                          \/ key[1] = "formula" /\ (key[2] = Genesis \/ \E i \in Ancestors[id] : Key(i) = key)
    BY DEF ToldIsKept
  <2>1. PICK id \in dag[r] : told[r][key] = id /\ Kept(r, key, id)
    BY DEF ToldInv, ToldWell
  <2> QED BY <2>1, KeptShown
<1>2. PageInv /\ ToldInv /\ [Next]_vars => ToldInv'
  BY ToldStep
<1> QED BY <1>1, <1>2, ToldInit, PageSound, PTL DEF Spec

-----------------------------------------------------------------------------
(* The desktop: what its loops over items and modules build                *)

Items == [folder : Nat, modules : Seq(Runnable)]

\* An item without a module, as RemoveModule pushes it.
LeftOf(item, m) == [folder |-> item.folder, modules |-> WithoutModule(item.modules, m)]

LEMMA WithoutIs ==
  ASSUME NEW S, NEW ms \in Seq(S), NEW m
  PROVE  \E f : /\ f[0] = << >> /\ WithoutModule(ms, m) = f[Len(ms)]
                /\ \A k \in 1 .. Len(ms) :
                     f[k] = IF ms[k] = m THEN f[k - 1] ELSE Append(f[k - 1], ms[k])
                /\ \A k \in 0 .. Len(ms) : f[k] \in Seq(S)
<1> DEFINE n == Len(ms)
           W == SUBSET (1 .. n)
           V == Seq(S)
           After1(x, k) == IF ms[k] = m THEN x ELSE Append(x, ms[k])
           st == [k \in 1 .. n |-> [x \in V |-> After1(x, k)]]
           Right1(g) == g = [s \in W |-> IF s = {} THEN << >> ELSE After1(g[s \ {Max(s)}], Max(s))]
           iter == CHOOSE g : Right1(g)
           f == [k \in 0 .. n |-> iter[1 .. k]]
<1>0. n \in Nat /\ DOMAIN ms = 1 .. n
  OBVIOUS
<1>1. ASSUME NEW x \in V, NEW k \in 1 .. n PROVE After1(x, k) \in V
  BY <1>0
<1>2. << >> \in V
  OBVIOUS
<1>3. Steps(st, n, V)
  <2> HIDE DEF V, n, After1
  <2> QED BY <1>1 DEF Steps
<1>4. PICK it \in [W -> V] : Folds(st, n, << >>, it)
  <2> HIDE DEF V, st, n
  <2> QED BY ONLY <1>0, <1>2, <1>3, FoldSets
<1>5. \A s \in W : s # {} => Max(s) \in 1 .. n /\ s \ {Max(s)} \in W
  <2> HIDE DEF n
  <2> QED BY <1>0, MaxUpTo
<1>6. \A s \in W : it[s] = IF s = {} THEN << >> ELSE After1(it[s \ {Max(s)}], Max(s))
  <2> HIDE DEF n, V, After1
  <2> TAKE s \in W
  <2>1. s # {} => st[Max(s)][it[s \ {Max(s)}]] = After1(it[s \ {Max(s)}], Max(s))
    BY <1>5
  <2> QED BY <1>4, <2>1 DEF After, Folds
<1>7. Right1(it)
  <2> HIDE DEF V, n, After1
  <2> QED BY <1>6
<1>8. Right1(iter)
  <2> HIDE DEF Right1
  <2> QED BY <1>7
<1>9. WithoutModule(ms, m) = iter[1 .. n]
  BY <1>0 DEF WithoutModule, FoldLeft, MapThenFoldSet
<1> HIDE DEF iter
<1>10. \A s \in W : iter[s] = IF s = {} THEN << >> ELSE After1(iter[s \ {Max(s)}], Max(s))
  <2> HIDE DEF n, After1
  <2> QED BY <1>8
<1>11. f[0] = << >>
  <2>1. 1 .. 0 = {} /\ 0 \in 0 .. n /\ {} \in W
    BY <1>0
  <2> HIDE DEF n, After1
  <2> QED BY <1>10, <2>1
<1>12. ASSUME NEW k \in 1 .. n PROVE f[k] = After1(f[k - 1], k)
  <2> HIDE DEF n, After1
  <2>1. /\ Max(1 .. k) = k /\ (1 .. k) \ {Max(1 .. k)} = 1 .. (k - 1)
        /\ k - 1 \in 0 .. n /\ k \in 0 .. n /\ 1 .. k \in W /\ 1 .. k # {}
    BY ONLY <1>0, k \in 1 .. n, LastIndex
  <2>2. f[k] = iter[1 .. k] /\ f[k - 1] = iter[1 .. (k - 1)]
    BY <2>1
  <2>3. iter[1 .. k] = After1(iter[(1 .. k) \ {Max(1 .. k)}], Max(1 .. k))
    BY <1>10, <2>1
  <2> QED BY <2>1, <2>2, <2>3
<1>13. WithoutModule(ms, m) = f[n]
  <2> HIDE DEF n
  <2> QED BY <1>0, <1>9
<1> HIDE DEF f
<1>14. \A k \in 0 .. n : f[k] \in V
  <2>1. \A k \in 1 .. n : f[k - 1] \in V => f[k] \in V
    <3> HIDE DEF V, n, After1
    <3> QED BY <1>1, <1>12
  <2> HIDE DEF V, n, After1
  <2> QED BY <1>0, <1>2, <1>11, <2>1, FoldKeeps
<1> QED BY <1>11, <1>12, <1>13, <1>14

LEMMA WithoutIn ==
  ASSUME NEW S, NEW ms \in Seq(S), NEW m
  PROVE  WithoutModule(ms, m) \in Seq(S)
<1>1. Len(ms) \in 0 .. Len(ms)
  OBVIOUS
<1> QED BY <1>1, WithoutIs

LEMMA RemovedIs ==
  ASSUME NEW L \in Seq(Items), NEW m
  PROVE  \E f : /\ f[0] = << >> /\ RemoveModule(L, m) = f[Len(L)]
                /\ \A k \in 1 .. Len(L) :
                     f[k] = IF WithoutModule(L[k].modules, m) = << >> THEN f[k - 1]
                            ELSE Append(f[k - 1], LeftOf(L[k], m))
                /\ \A k \in 0 .. Len(L) : f[k] \in Seq(Items)
<1> DEFINE n == Len(L)
           W == SUBSET (1 .. n)
           V == Seq(Items)
           After1(x, k) == IF WithoutModule(L[k].modules, m) = << >> THEN x
                           ELSE Append(x, LeftOf(L[k], m))
           st == [k \in 1 .. n |-> [x \in V |-> After1(x, k)]]
           Right1(g) == g = [s \in W |-> IF s = {} THEN << >> ELSE After1(g[s \ {Max(s)}], Max(s))]
           iter == CHOOSE g : Right1(g)
           f == [k \in 0 .. n |-> iter[1 .. k]]
<1>0. n \in Nat /\ DOMAIN L = 1 .. n
  OBVIOUS
<1>1. ASSUME NEW x \in V, NEW k \in 1 .. n PROVE After1(x, k) \in V
  <2>1. L[k] \in Items
    BY <1>0
  <2>2. WithoutModule(L[k].modules, m) \in Seq(Runnable)
    BY <2>1, WithoutIn DEF Items
  <2>3. LeftOf(L[k], m) \in Items
    BY <2>1, <2>2 DEF LeftOf, Items
  <2> QED BY <2>3
<1>2. << >> \in V
  OBVIOUS
<1>3. Steps(st, n, V)
  <2> HIDE DEF V, n, After1
  <2> QED BY <1>1 DEF Steps
<1>4. PICK it \in [W -> V] : Folds(st, n, << >>, it)
  <2> HIDE DEF V, st, n
  <2> QED BY ONLY <1>0, <1>2, <1>3, FoldSets
<1>5. \A s \in W : s # {} => Max(s) \in 1 .. n /\ s \ {Max(s)} \in W
  <2> HIDE DEF n
  <2> QED BY <1>0, MaxUpTo
<1>6. \A s \in W : it[s] = IF s = {} THEN << >> ELSE After1(it[s \ {Max(s)}], Max(s))
  <2> HIDE DEF n, V, After1
  <2> TAKE s \in W
  <2>1. s # {} => st[Max(s)][it[s \ {Max(s)}]] = After1(it[s \ {Max(s)}], Max(s))
    BY <1>5
  <2> QED BY <1>4, <2>1 DEF After, Folds
<1>7. Right1(it)
  <2> HIDE DEF V, n, After1
  <2> QED BY <1>6
<1>8. Right1(iter)
  <2> HIDE DEF Right1
  <2> QED BY <1>7
<1>9. RemoveModule(L, m) = iter[1 .. n]
  BY <1>0 DEF RemoveModule, LeftOf, FoldLeft, MapThenFoldSet
<1> HIDE DEF iter
<1>10. \A s \in W : iter[s] = IF s = {} THEN << >> ELSE After1(iter[s \ {Max(s)}], Max(s))
  <2> HIDE DEF n, After1
  <2> QED BY <1>8
<1>11. f[0] = << >>
  <2>1. 1 .. 0 = {} /\ 0 \in 0 .. n /\ {} \in W
    BY <1>0
  <2> HIDE DEF n, After1
  <2> QED BY <1>10, <2>1
<1>12. ASSUME NEW k \in 1 .. n PROVE f[k] = After1(f[k - 1], k)
  <2> HIDE DEF n, After1
  <2>1. /\ Max(1 .. k) = k /\ (1 .. k) \ {Max(1 .. k)} = 1 .. (k - 1)
        /\ k - 1 \in 0 .. n /\ k \in 0 .. n /\ 1 .. k \in W /\ 1 .. k # {}
    BY ONLY <1>0, k \in 1 .. n, LastIndex
  <2>2. f[k] = iter[1 .. k] /\ f[k - 1] = iter[1 .. (k - 1)]
    BY <2>1
  <2>3. iter[1 .. k] = After1(iter[(1 .. k) \ {Max(1 .. k)}], Max(1 .. k))
    BY <1>10, <2>1
  <2> QED BY <2>1, <2>2, <2>3
<1>13. RemoveModule(L, m) = f[n]
  <2> HIDE DEF n
  <2> QED BY <1>0, <1>9
<1> HIDE DEF f
<1>14. \A k \in 0 .. n : f[k] \in V
  <2>1. \A k \in 1 .. n : f[k - 1] \in V => f[k] \in V
    <3> HIDE DEF V, n, After1
    <3> QED BY <1>1, <1>12
  <2> HIDE DEF V, n, After1
  <2> QED BY <1>0, <1>2, <1>11, <2>1, FoldKeeps
<1> QED BY <1>11, <1>12, <1>13, <1>14

-----------------------------------------------------------------------------
(* Items that share no module and no folder, whatever their places         *)

ModulesOf(item) == Range(item.modules)

Filled(item) ==
  /\ item.modules # << >> /\ IsInjective(item.modules)
  /\ item.folder = NoFolder => \A x, y \in ModulesOf(item) : x = y

\* F has an item at each place; P are the modules of all of them.
Tidy(F, P) ==
  /\ \A d \in DOMAIN F : Filled(F[d])
  /\ \A d, e \in DOMAIN F : d # e =>
       /\ ModulesOf(F[d]) \cap ModulesOf(F[e]) = {}
       /\ F[d].folder # NoFolder => F[d].folder # F[e].folder
  /\ P = UNION {ModulesOf(F[d]) : d \in DOMAIN F}

LEMMA TidyCut ==
  ASSUME NEW F, NEW P, Tidy(F, P), NEW d \in DOMAIN F,
         NEW G, DOMAIN G = DOMAIN F \ {d}, \A e \in DOMAIN G : G[e] = F[e]
  PROVE  Tidy(G, P \ ModulesOf(F[d]))
<1>1. \A e \in DOMAIN G : Filled(G[e])
  BY DEF Tidy
<1>2. \A b, e \in DOMAIN G : b # e =>
        /\ ModulesOf(G[b]) \cap ModulesOf(G[e]) = {}
        /\ G[b].folder # NoFolder => G[b].folder # G[e].folder
  BY DEF Tidy
<1>3. P \ ModulesOf(F[d]) = UNION {ModulesOf(G[e]) : e \in DOMAIN G}
  <2>1. ASSUME NEW m \in P \ ModulesOf(F[d]) PROVE \E e \in DOMAIN G : m \in ModulesOf(G[e])
    BY DEF Tidy
  <2>2. ASSUME NEW e \in DOMAIN G, NEW m \in ModulesOf(G[e]) PROVE m \in P \ ModulesOf(F[d])
    BY DEF Tidy
  <2> QED BY <2>1, <2>2
<1> QED BY <1>1, <1>2, <1>3 DEF Tidy

LEMMA TidyPut ==
  ASSUME NEW F, NEW P, Tidy(F, P), NEW d, d \notin DOMAIN F, NEW item, Filled(item),
         ModulesOf(item) \cap P = {},
         item.folder = NoFolder \/ \A e \in DOMAIN F : F[e].folder # item.folder,
         NEW G, DOMAIN G = DOMAIN F \cup {d}, G[d] = item, \A e \in DOMAIN F : G[e] = F[e]
  PROVE  Tidy(G, P \cup ModulesOf(item))
<1>1. \A e \in DOMAIN G : Filled(G[e])
  BY DEF Tidy
<1>2. \A b, e \in DOMAIN G : b # e =>
        /\ ModulesOf(G[b]) \cap ModulesOf(G[e]) = {}
        /\ G[b].folder # NoFolder => G[b].folder # G[e].folder
  <2>1. \A e \in DOMAIN F : ModulesOf(F[e]) \subseteq P
    BY DEF Tidy
  <2>2. \A b, e \in DOMAIN F : b # e =>
          /\ ModulesOf(F[b]) \cap ModulesOf(F[e]) = {}
          /\ F[b].folder # NoFolder => F[b].folder # F[e].folder
    BY DEF Tidy
  <2>3. \A e \in DOMAIN F : ModulesOf(F[e]) \cap ModulesOf(item) = {}
    BY <2>1
  <2> TAKE b, e \in DOMAIN G
  <2> HAVE b # e
  <2>4. CASE b \in DOMAIN F /\ e \in DOMAIN F
    BY <2>2, <2>4
  <2>5. CASE b = d /\ e \in DOMAIN F
    BY <2>3, <2>5
  <2>6. CASE b \in DOMAIN F /\ e = d
    BY <2>3, <2>6
  <2> QED BY <2>4, <2>5, <2>6
<1>3. P \cup ModulesOf(item) = UNION {ModulesOf(G[e]) : e \in DOMAIN G}
  <2>1. ASSUME NEW m \in P PROVE \E e \in DOMAIN G : m \in ModulesOf(G[e])
    BY DEF Tidy
  <2>2. ASSUME NEW e \in DOMAIN G, NEW m \in ModulesOf(G[e]) PROVE m \in P \cup ModulesOf(item)
    BY DEF Tidy
  <2> QED BY <2>1, <2>2
<1> QED BY <1>1, <1>2, <1>3 DEF Tidy

\* In other places: h says where each item was.
LEMMA TidyMoved ==
  ASSUME NEW F, NEW P, Tidy(F, P), NEW K, NEW h, \A k \in DOMAIN K : h[k] \in DOMAIN F /\ K[k] = F[h[k]],
         \A j, k \in DOMAIN K : h[j] = h[k] => j = k, \A d \in DOMAIN F : \E k \in DOMAIN K : h[k] = d
  PROVE  Tidy(K, P)
<1>1. \A k \in DOMAIN K : Filled(K[k])
  BY DEF Tidy
<1>2. \A j, k \in DOMAIN K : j # k =>
        /\ ModulesOf(K[j]) \cap ModulesOf(K[k]) = {}
        /\ K[j].folder # NoFolder => K[j].folder # K[k].folder
  <2> TAKE j, k \in DOMAIN K
  <2> HAVE j # k
  <2>1. h[j] \in DOMAIN F /\ h[k] \in DOMAIN F /\ h[j] # h[k] /\ K[j] = F[h[j]] /\ K[k] = F[h[k]]
    OBVIOUS
  <2> QED BY <2>1 DEF Tidy
<1>3. P = UNION {ModulesOf(K[k]) : k \in DOMAIN K}
  <2>1. ASSUME NEW m \in P PROVE \E k \in DOMAIN K : m \in ModulesOf(K[k])
    <3>1. PICK d \in DOMAIN F : m \in ModulesOf(F[d])
      BY DEF Tidy
    <3>2. PICK k \in DOMAIN K : h[k] = d
      OBVIOUS
    <3> QED BY <3>1, <3>2
  <2>2. ASSUME NEW k \in DOMAIN K, NEW m \in ModulesOf(K[k]) PROVE m \in P
    BY DEF Tidy
  <2> QED BY <2>1, <2>2
<1> QED BY <1>1, <1>2, <1>3 DEF Tidy

LEMMA RemoveAtIs ==
  ASSUME NEW S, NEW s \in Seq(S), NEW i \in 1 .. Len(s)
  PROVE  /\ RemoveAt(s, i) \in Seq(S) /\ Len(RemoveAt(s, i)) = Len(s) - 1
         /\ \A k \in 1 .. (Len(s) - 1) : RemoveAt(s, i)[k] = s[IF k < i THEN k ELSE k + 1]
<1> DEFINE a == SubSeq(s, 1, i - 1)
           b == SubSeq(s, i + 1, Len(s))
<1>0. Len(s) \in Nat /\ i \in Nat
  OBVIOUS
<1>1. a \in Seq(S) /\ Len(a) = i - 1 /\ \A k \in 1 .. (i - 1) : a[k] = s[k]
  OBVIOUS
<1>2. b \in Seq(S) /\ Len(b) = Len(s) - i /\ \A k \in 1 .. (Len(s) - i) : b[k] = s[i + k]
  OBVIOUS
<1>3. RemoveAt(s, i) = a \o b
  BY DEF RemoveAt
<1> HIDE DEF a, b
<1>4. a \o b \in Seq(S) /\ Len(a \o b) = Len(a) + Len(b)
  BY <1>1, <1>2, ConcatProperties
<1>5. \A k \in 1 .. Len(a) + Len(b) : (a \o b)[k] = IF k <= Len(a) THEN a[k] ELSE b[k - Len(a)]
  BY <1>1, <1>2, ConcatProperties
<1>6. ASSUME NEW k \in 1 .. (Len(s) - 1) PROVE (a \o b)[k] = s[IF k < i THEN k ELSE k + 1]
  <2>1. k \in 1 .. Len(a) + Len(b) /\ k \in Nat
    BY <1>0, <1>1, <1>2
  <2>2. CASE k < i
    BY <1>0, <1>1, <1>5, <2>1, <2>2
  <2>3. CASE ~(k < i)
    <3>1. k - (i - 1) \in 1 .. (Len(s) - i) /\ i + (k - (i - 1)) = k + 1
      BY <1>0, <2>3
    <3> QED BY <1>0, <1>1, <1>2, <1>5, <2>1, <2>3, <3>1
  <2> QED BY <2>2, <2>3
<1> QED BY <1>0, <1>1, <1>2, <1>3, <1>4, <1>6

\* F is L but for the item at d, the others move up.
LEMMA TidyClosedUp ==
  ASSUME NEW L \in Seq(Items), NEW d \in DOMAIN L, NEW F, DOMAIN F = DOMAIN L \ {d},
         \A e \in DOMAIN F : F[e] = L[e], NEW Q, Tidy(F, Q)
  PROVE  RemoveAt(L, d) \in Seq(Items) /\ Tidy(RemoveAt(L, d), Q)
<1> DEFINE n == Len(L)
           K == RemoveAt(L, d)
           h == [k \in 1 .. (n - 1) |-> IF k < d THEN k ELSE k + 1]
<1>1. n \in Nat /\ DOMAIN L = 1 .. n /\ d \in 1 .. n /\ DOMAIN F = (1 .. n) \ {d}
  OBVIOUS
<1>2. K \in Seq(Items) /\ Len(K) = n - 1 /\ \A k \in 1 .. (n - 1) : K[k] = L[h[k]]
  <2>1. /\ K \in Seq(Items) /\ Len(K) = n - 1
        /\ \A k \in 1 .. (n - 1) : K[k] = L[IF k < d THEN k ELSE k + 1]
    BY <1>1, RemoveAtIs
  <2>2. \A k \in 1 .. (n - 1) : h[k] = IF k < d THEN k ELSE k + 1
    OBVIOUS
  <2> HIDE DEF h, K
  <2> QED BY <2>1, <2>2
<1>3. DOMAIN K = 1 .. (n - 1)
  BY <1>1, <1>2
<1>4. \A k \in 1 .. (n - 1) : h[k] \in (1 .. n) \ {d}
  BY <1>1
<1>5. \A j, k \in 1 .. (n - 1) : h[j] = h[k] => j = k
  BY <1>1
<1>6. \A e \in (1 .. n) \ {d} : \E k \in 1 .. (n - 1) : h[k] = e
  <2> TAKE e \in (1 .. n) \ {d}
  <2>1. CASE e < d
    <3>1. e \in 1 .. (n - 1)
      BY <1>1, <2>1
    <3> QED BY <2>1, <3>1
  <2>2. CASE ~(e < d)
    <3>1. e - 1 \in 1 .. (n - 1) /\ ~(e - 1 < d) /\ (e - 1) + 1 = e
      BY <1>1, <2>2
    <3> QED BY <3>1
  <2> QED BY <2>1, <2>2
<1>7. \A k \in 1 .. (n - 1) : K[k] = F[h[k]]
  BY <1>1, <1>2, <1>4
<1> HIDE DEF K, h, n
<1>8. /\ \A k \in DOMAIN K : h[k] \in DOMAIN F /\ K[k] = F[h[k]]
      /\ \A j, k \in DOMAIN K : h[j] = h[k] => j = k
      /\ \A e \in DOMAIN F : \E k \in DOMAIN K : h[k] = e
  BY <1>1, <1>3, <1>4, <1>5, <1>6, <1>7
<1>9. Tidy(K, Q)
  BY <1>8, TidyMoved
<1> QED BY <1>2, <1>9 DEF K

LEMMA TidyRemoveAt ==
  ASSUME NEW L \in Seq(Items), NEW P, Tidy(L, P), NEW d \in DOMAIN L
  PROVE  RemoveAt(L, d) \in Seq(Items) /\ Tidy(RemoveAt(L, d), P \ ModulesOf(L[d]))
<1> DEFINE F == [e \in DOMAIN L \ {d} |-> L[e]]
<1>1. DOMAIN F = DOMAIN L \ {d} /\ \A e \in DOMAIN F : F[e] = L[e]
  OBVIOUS
<1> HIDE DEF F
<1>2. Tidy(F, P \ ModulesOf(L[d]))
  BY <1>1, TidyCut
<1> QED BY <1>1, <1>2, TidyClosedUp

LEMMA TidyAppend ==
  ASSUME NEW L \in Seq(Items), NEW P, Tidy(L, P), NEW item \in Items, Filled(item),
         ModulesOf(item) \cap P = {},
         item.folder = NoFolder \/ \A e \in DOMAIN L : L[e].folder # item.folder
  PROVE  Append(L, item) \in Seq(Items) /\ Tidy(Append(L, item), P \cup ModulesOf(item))
<1> DEFINE n == Len(L)
           K == Append(L, item)
<1>1. n \in Nat /\ DOMAIN L = 1 .. n /\ n + 1 \notin 1 .. n
  OBVIOUS
<1>2. K \in Seq(Items) /\ DOMAIN K = DOMAIN L \cup {n + 1} /\ K[n + 1] = item
  OBVIOUS
<1>3. \A e \in DOMAIN L : K[e] = L[e]
  OBVIOUS
<1> HIDE DEF K
<1>4. Tidy(K, P \cup ModulesOf(item))
  BY <1>1, <1>2, <1>3, TidyPut
<1> QED BY <1>2, <1>4 DEF K

\* Another item, in the place of one.
LEMMA TidyOther ==
  ASSUME NEW F, NEW P, Tidy(F, P), NEW d \in DOMAIN F, NEW item, Filled(item),
         ModulesOf(item) \cap (P \ ModulesOf(F[d])) = {},
         item.folder = NoFolder \/ \A e \in DOMAIN F : e # d => F[e].folder # item.folder,
         NEW K, DOMAIN K = DOMAIN F, K[d] = item, \A e \in DOMAIN F : e # d => K[e] = F[e]
  PROVE  Tidy(K, (P \ ModulesOf(F[d])) \cup ModulesOf(item))
<1> DEFINE G == [e \in DOMAIN F \ {d} |-> F[e]]
<1>1. DOMAIN G = DOMAIN F \ {d} /\ \A e \in DOMAIN G : G[e] = F[e]
  OBVIOUS
<1> HIDE DEF G
<1>2. Tidy(G, P \ ModulesOf(F[d]))
  BY <1>1, TidyCut
<1>3. /\ d \notin DOMAIN G /\ DOMAIN K = DOMAIN G \cup {d} /\ \A e \in DOMAIN G : K[e] = G[e]
      /\ item.folder = NoFolder \/ \A e \in DOMAIN G : G[e].folder # item.folder
  BY <1>1
<1> QED BY <1>2, <1>3, TidyPut

\* One item with the modules of two, in the place of the second.
LEMMA TidyJoined ==
  ASSUME NEW L \in Seq(Items), NEW P, Tidy(L, P), NEW i \in DOMAIN L, NEW j \in DOMAIN L, i # j,
         NEW item \in Items, Filled(item), ModulesOf(item) = ModulesOf(L[i]) \cup ModulesOf(L[j]),
         \A e \in DOMAIN L : e # j => L[e].folder # item.folder,
         NEW K, K = RemoveAt([L EXCEPT ![j] = item], i)
  PROVE  K \in Seq(Items) /\ Tidy(K, P)
<1> DEFINE M == [L EXCEPT ![j] = item]
           F == [e \in DOMAIN L \ {i} |-> L[e]]
           G == [e \in DOMAIN L \ {i} |-> M[e]]
           Q == P \ ModulesOf(L[i])
<1>1. /\ M \in Seq(Items) /\ DOMAIN M = DOMAIN L /\ M[j] = item
      /\ \A e \in DOMAIN L : e # j => M[e] = L[e]
  OBVIOUS
<1> HIDE DEF M
<1>2. DOMAIN F = DOMAIN L \ {i} /\ \A e \in DOMAIN F : F[e] = L[e]
  OBVIOUS
<1>3. DOMAIN G = DOMAIN L \ {i} /\ \A e \in DOMAIN G : G[e] = M[e]
  OBVIOUS
<1>4. /\ ModulesOf(L[i]) \subseteq P /\ ModulesOf(L[j]) \subseteq P
      /\ ModulesOf(L[i]) \cap ModulesOf(L[j]) = {}
  BY DEF Tidy
<1> HIDE DEF F, G
<1>5. Tidy(F, Q)
  BY <1>2, TidyCut
<1>6. j \in DOMAIN F /\ F[j] = L[j] /\ ModulesOf(item) \cap (Q \ ModulesOf(F[j])) = {}
      /\ (Q \ ModulesOf(F[j])) \cup ModulesOf(item) = P
  BY <1>2, <1>4
<1>7. /\ DOMAIN G = DOMAIN F /\ G[j] = item /\ \A e \in DOMAIN F : e # j => G[e] = F[e]
      /\ \A e \in DOMAIN F : e # j => F[e].folder # item.folder
  BY <1>1, <1>2, <1>3
<1> HIDE DEF Q
<1>8. Tidy(G, (Q \ ModulesOf(F[j])) \cup ModulesOf(item))
  BY <1>5, <1>6, <1>7, TidyOther
<1>9. Tidy(G, P)
  BY <1>6, <1>8
<1>10. RemoveAt(M, i) \in Seq(Items) /\ Tidy(RemoveAt(M, i), P)
  BY <1>1, <1>3, <1>9, TidyClosedUp
<1> QED BY <1>10 DEF M

LEMMA AppendRange ==
  ASSUME NEW S, NEW s \in Seq(S), NEW x \in S
  PROVE  /\ Range(Append(s, x)) = Range(s) \cup {x}
         /\ IsInjective(s) /\ x \notin Range(s) => IsInjective(Append(s, x))
<1> DEFINE t == Append(s, x)
           n == Len(s)
<1>1. /\ n \in Nat /\ DOMAIN s = 1 .. n /\ DOMAIN t = (1 .. n) \cup {n + 1} /\ n + 1 \notin 1 .. n
      /\ t[n + 1] = x /\ \A i \in 1 .. n : t[i] = s[i]
  OBVIOUS
<1> HIDE DEF t, n
<1>2. Range(t) = Range(s) \cup {x}
  BY <1>1 DEF Range
<1>3. IsInjective(s) /\ x \notin Range(s) => IsInjective(t)
  BY <1>1 DEF Range, IsInjective
<1> QED BY <1>2, <1>3 DEF t

\* All but m, as often as before.
LEMMA WithoutModules ==
  ASSUME NEW S, NEW ms \in Seq(S), NEW m
  PROVE  /\ Range(WithoutModule(ms, m)) = Range(ms) \ {m}
         /\ IsInjective(ms) => IsInjective(WithoutModule(ms, m))
<1> DEFINE n == Len(ms)
<1>1. n \in Nat /\ DOMAIN ms = 1 .. n /\ \A i \in 1 .. n : ms[i] \in S
  OBVIOUS
<1>2. PICK f : /\ f[0] = << >> /\ WithoutModule(ms, m) = f[n]
               /\ \A k \in 1 .. n : f[k] = IF ms[k] = m THEN f[k - 1] ELSE Append(f[k - 1], ms[k])
               /\ \A k \in 0 .. n : f[k] \in Seq(S)
  BY WithoutIs
<1> HIDE DEF n
<1> DEFINE Right1(k) == /\ Range(f[k]) = {ms[i] : i \in 1 .. k} \ {m}
                        /\ IsInjective(ms) => IsInjective(f[k])
           T == {k \in 0 .. n : Right1(k)}
<1>3. 0 \in T
  <2>1. f[0] = << >> /\ DOMAIN << >> = {} /\ 1 .. 0 = {} /\ 0 \in 0 .. n
    BY <1>1, <1>2
  <2> QED BY <2>1 DEF Range, IsInjective
<1>4. ASSUME NEW k \in 0 .. (n - 1), k \in T PROVE k + 1 \in T
  <2>1. /\ k + 1 \in 1 .. n /\ k + 1 \in 0 .. n /\ k \in 0 .. n /\ (k + 1) - 1 = k
        /\ 1 .. (k + 1) = (1 .. k) \cup {k + 1} /\ 1 .. k \subseteq 1 .. n /\ k + 1 \notin 1 .. k
    BY <1>1
  <2>2. /\ Range(f[k]) = {ms[i] : i \in 1 .. k} \ {m}
        /\ IsInjective(ms) => IsInjective(f[k])
    BY <1>4
  <2>3. f[k + 1] = IF ms[k + 1] = m THEN f[k] ELSE Append(f[k], ms[k + 1])
    BY <1>2, <2>1
  <2>4. {ms[i] : i \in 1 .. (k + 1)} = {ms[i] : i \in 1 .. k} \cup {ms[k + 1]}
    BY <2>1
  <2>5. CASE ms[k + 1] = m
    <3>1. Right1(k + 1)
      BY <2>2, <2>3, <2>4, <2>5
    <3> QED BY <2>1, <3>1
  <2>6. CASE ms[k + 1] # m
    <3>1. f[k] \in Seq(S) /\ ms[k + 1] \in S
      BY <1>1, <1>2, <2>1
    <3>2. /\ Range(Append(f[k], ms[k + 1])) = Range(f[k]) \cup {ms[k + 1]}
          /\ IsInjective(f[k]) /\ ms[k + 1] \notin Range(f[k]) => IsInjective(Append(f[k], ms[k + 1]))
      BY <3>1, AppendRange
    <3>3. IsInjective(ms) => ms[k + 1] \notin Range(f[k])
      BY <1>1, <2>1, <2>2 DEF IsInjective
    <3>4. Right1(k + 1)
      BY <2>2, <2>3, <2>4, <2>6, <3>2, <3>3
    <3> QED BY <2>1, <3>4
  <2> QED BY <2>5, <2>6
<1>5. 0 .. n \subseteq T
  <2> HIDE DEF T
  <2> QED BY <1>1, <1>3, <1>4, Induction
<1>6. Right1(n) /\ {ms[i] : i \in 1 .. n} = Range(ms)
  BY <1>1, <1>5 DEF Range
<1> QED BY <1>2, <1>6

\* What is left of an item.
LEMMA LeftFilled ==
  ASSUME NEW item \in Items, Filled(item), NEW m
  PROVE  /\ LeftOf(item, m) \in Items /\ ModulesOf(LeftOf(item, m)) = ModulesOf(item) \ {m}
         /\ WithoutModule(item.modules, m) # << >> => Filled(LeftOf(item, m))
<1>1. item.modules \in Seq(Runnable)
  BY DEF Items
<1>2. /\ WithoutModule(item.modules, m) \in Seq(Runnable)
      /\ Range(WithoutModule(item.modules, m)) = Range(item.modules) \ {m}
      /\ IsInjective(item.modules) => IsInjective(WithoutModule(item.modules, m))
  BY <1>1, WithoutIn, WithoutModules
<1>3. LeftOf(item, m).folder = item.folder /\ LeftOf(item, m).modules = WithoutModule(item.modules, m)
  BY DEF LeftOf
<1>4. LeftOf(item, m) \in Items
  BY <1>2 DEF Items, LeftOf
<1>5. ModulesOf(LeftOf(item, m)) = ModulesOf(item) \ {m}
  BY <1>2, <1>3 DEF ModulesOf
<1> QED BY <1>2, <1>3, <1>4, <1>5 DEF Filled

LEMMA EmptyTidy == Tidy(<< >>, {})
BY DEF Tidy

LEMMA TidyRemoved ==
  ASSUME NEW L \in Seq(Items), NEW P, Tidy(L, P), NEW m
  PROVE  RemoveModule(L, m) \in Seq(Items) /\ Tidy(RemoveModule(L, m), P \ {m})
<1> DEFINE n == Len(L)
           Q(k) == (UNION {ModulesOf(L[i]) : i \in 1 .. k}) \ {m}
<1>1. n \in Nat /\ DOMAIN L = 1 .. n /\ \A i \in 1 .. n : L[i] \in Items
  OBVIOUS
<1>2. PICK f : /\ f[0] = << >> /\ RemoveModule(L, m) = f[n]
               /\ \A k \in 1 .. n : f[k] = IF WithoutModule(L[k].modules, m) = << >> THEN f[k - 1]
                                           ELSE Append(f[k - 1], LeftOf(L[k], m))
               /\ \A k \in 0 .. n : f[k] \in Seq(Items)
  BY RemovedIs
<1> HIDE DEF n
<1> DEFINE Right1(k) ==
             /\ Tidy(f[k], Q(k))
             /\ \A d \in DOMAIN f[k] : \E i \in 1 .. k : f[k][d].folder = L[i].folder
           T == {k \in 0 .. n : Right1(k)}
<1>3. 0 \in T
  <2>1. f[0] = << >> /\ DOMAIN << >> = {} /\ 1 .. 0 = {} /\ 0 \in 0 .. n
    BY <1>1, <1>2
  <2>2. Q(0) = {}
    BY <2>1
  <2> HIDE DEF Q
  <2> QED BY <2>1, <2>2, EmptyTidy
<1>4. ASSUME NEW k \in 0 .. (n - 1), k \in T PROVE k + 1 \in T
  <2>1. /\ k + 1 \in 1 .. n /\ k + 1 \in 0 .. n /\ k \in 0 .. n /\ (k + 1) - 1 = k
        /\ 1 .. (k + 1) = (1 .. k) \cup {k + 1} /\ 1 .. k \subseteq 1 .. n /\ k + 1 \notin 1 .. k
    BY <1>1
  <2>2. Right1(k)
    BY <1>4
  <2> DEFINE item == L[k + 1]
  <2>3. item \in Items /\ Filled(item)
    BY <1>1, <2>1 DEF Tidy
  <2>4. f[k + 1] = IF WithoutModule(item.modules, m) = << >> THEN f[k]
                   ELSE Append(f[k], LeftOf(item, m))
    BY <1>2, <2>1
  <2>5. /\ LeftOf(item, m) \in Items /\ ModulesOf(LeftOf(item, m)) = ModulesOf(item) \ {m}
        /\ WithoutModule(item.modules, m) # << >> => Filled(LeftOf(item, m))
        /\ LeftOf(item, m).folder = item.folder /\ LeftOf(item, m).modules = WithoutModule(item.modules, m)
    <3> HIDE DEF item
    <3>1. LeftOf(item, m).folder = item.folder /\ LeftOf(item, m).modules = WithoutModule(item.modules, m)
      BY DEF LeftOf
    <3> QED BY <2>3, <3>1, LeftFilled
  <2>6. Q(k + 1) = Q(k) \cup (ModulesOf(item) \ {m})
    BY <2>1
  <2>7. Q(k) \cap ModulesOf(item) = {}
    BY <1>1, <2>1 DEF Tidy
  <2>8. \A i \in 1 .. k : item.folder = NoFolder \/ L[i].folder # item.folder
    BY <1>1, <2>1 DEF Tidy
  <2>9. f[k] \in Seq(Items) /\ Tidy(f[k], Q(k))
        /\ \A d \in DOMAIN f[k] : \E i \in 1 .. k : f[k][d].folder = L[i].folder
    BY <1>2, <2>1, <2>2
  <2> HIDE DEF Q, item
  <2>10. CASE WithoutModule(item.modules, m) = << >>
    <3>1. ModulesOf(LeftOf(item, m)) = {}
      BY <2>5, <2>10 DEF ModulesOf, Range
    <3>2. Q(k + 1) = Q(k) /\ f[k + 1] = f[k]
      BY <2>4, <2>5, <2>6, <2>10, <3>1
    <3>3. Right1(k + 1)
      BY <2>1, <2>9, <3>2
    <3> QED BY <2>1, <3>3
  <2>11. CASE WithoutModule(item.modules, m) # << >>
    <3> DEFINE left == LeftOf(item, m)
    <3>1. left \in Items /\ Filled(left) /\ ModulesOf(left) \cap Q(k) = {} /\ left.folder = item.folder
          /\ ModulesOf(left) = ModulesOf(item) \ {m}
      BY <2>5, <2>7, <2>11
    <3>2. f[k + 1] = Append(f[k], left)
      BY <2>4, <2>11
    <3> HIDE DEF left
    <3>3. left.folder = NoFolder \/ \A d \in DOMAIN f[k] : f[k][d].folder # left.folder
      BY <2>8, <2>9, <3>1
    <3>4. Tidy(Append(f[k], left), Q(k) \cup ModulesOf(left))
      BY <2>9, <3>1, <3>3, TidyAppend
    <3>5. Tidy(f[k + 1], Q(k + 1))
      BY <2>6, <3>1, <3>2, <3>4
    <3>6. \A d \in DOMAIN f[k + 1] : \E i \in 1 .. (k + 1) : f[k + 1][d].folder = L[i].folder
      <4> TAKE d \in DOMAIN f[k + 1]
      <4>1. (d \in DOMAIN f[k] /\ f[k + 1][d] = f[k][d]) \/ f[k + 1][d] = left
        BY <2>9, <3>1, <3>2
      <4>2. CASE d \in DOMAIN f[k] /\ f[k + 1][d] = f[k][d]
        BY <2>1, <2>9, <4>2
      <4>3. CASE f[k + 1][d] = left
        BY <2>1, <3>1, <4>3 DEF item
      <4> QED BY <4>1, <4>2, <4>3
    <3>7. Right1(k + 1)
      BY <3>5, <3>6
    <3> QED BY <2>1, <3>7
  <2> QED BY <2>10, <2>11
<1>5. 0 .. n \subseteq T
  <2> HIDE DEF T
  <2> QED BY <1>1, <1>3, <1>4, Induction
<1>6. Right1(n) /\ n \in 0 .. n
  <2>1. n \in 0 .. n
    BY <1>1
  <2>2. n \in T
    BY <1>5, <2>1
  <2> QED BY <2>1, <2>2
<1>7. Q(n) = P \ {m}
  BY <1>1 DEF Tidy
<1> HIDE DEF Q
<1> QED BY <1>2, <1>6, <1>7

-----------------------------------------------------------------------------
(* What the desktop's operations keep                                      *)

LEMMA ConcatRange ==
  ASSUME NEW S, NEW s \in Seq(S), NEW t \in Seq(S)
  PROVE  /\ s \o t \in Seq(S) /\ Range(s \o t) = Range(s) \cup Range(t)
         /\ IsInjective(s) /\ IsInjective(t) /\ Range(s) \cap Range(t) = {} => IsInjective(s \o t)
<1> DEFINE u == s \o t
           n == Len(s)
           k == Len(t)
<1>1. n \in Nat /\ k \in Nat /\ DOMAIN s = 1 .. n /\ DOMAIN t = 1 .. k
  OBVIOUS
<1>2. /\ u \in Seq(S) /\ Len(u) = n + k
      /\ \A i \in 1 .. (n + k) : u[i] = IF i <= n THEN s[i] ELSE t[i - n]
  BY ConcatProperties
<1>3. DOMAIN u = 1 .. (n + k)
  BY <1>2
<1> HIDE DEF u, n, k
<1>4. \A i \in 1 .. n : i \in 1 .. (n + k) /\ u[i] = s[i]
  BY <1>1, <1>2
<1>5. \A i \in 1 .. k : n + i \in 1 .. (n + k) /\ u[n + i] = t[i]
  <2> TAKE i \in 1 .. k
  <2>1. n + i \in 1 .. (n + k) /\ ~(n + i <= n) /\ (n + i) - n = i
    BY <1>1
  <2> QED BY <1>2, <2>1
<1>6. \A i \in 1 .. (n + k) : i \in 1 .. n \/ \E j \in 1 .. k : i = n + j
  <2> TAKE i \in 1 .. (n + k)
  <2>1. i \in 1 .. n \/ (i - n \in 1 .. k /\ i = n + (i - n))
    BY <1>1
  <2> QED BY <2>1
<1>7. Range(u) = Range(s) \cup Range(t)
  <2>1. ASSUME NEW x \in Range(u) PROVE x \in Range(s) \cup Range(t)
    <3>1. PICK i \in 1 .. (n + k) : x = u[i]
      BY <1>3 DEF Range
    <3>2. CASE i \in 1 .. n
      BY <1>1, <1>4, <3>1, <3>2 DEF Range
    <3>3. CASE \E j \in 1 .. k : i = n + j
      <4>1. PICK j \in 1 .. k : i = n + j
        BY <3>3
      <4>2. x = t[j]
        BY <1>5, <3>1, <4>1
      <4> QED BY <1>1, <4>2 DEF Range
    <3> QED BY <1>6, <3>2, <3>3
  <2>2. Range(s) \subseteq Range(u)
    BY <1>1, <1>3, <1>4 DEF Range
  <2>3. Range(t) \subseteq Range(u)
    BY <1>1, <1>3, <1>5 DEF Range
  <2> QED BY <2>1, <2>2, <2>3
<1>8. ASSUME IsInjective(s), IsInjective(t), Range(s) \cap Range(t) = {}
      PROVE  IsInjective(u)
  <2> SUFFICES ASSUME NEW a \in DOMAIN u, NEW b \in DOMAIN u, u[a] = u[b] PROVE a = b
    BY DEF IsInjective
  <2>1. \A i \in 1 .. n : u[i] \in Range(s)
    BY <1>1, <1>4 DEF Range
  <2>2. \A i \in 1 .. k : u[n + i] \in Range(t)
    BY <1>1, <1>5 DEF Range
  <2>3. CASE a \in 1 .. n /\ b \in 1 .. n
    BY <1>1, <1>4, <1>8, <2>3 DEF IsInjective
  <2>4. CASE \E i, j \in 1 .. k : a = n + i /\ b = n + j
    <3>1. PICK i \in 1 .. k, j \in 1 .. k : a = n + i /\ b = n + j
      BY <2>4
    <3>2. t[i] = t[j]
      BY <1>5, <3>1
    <3> QED BY <1>1, <1>8, <3>1, <3>2 DEF IsInjective
  <2>5. ~(a \in 1 .. n /\ \E j \in 1 .. k : b = n + j)
    BY <1>8, <2>1, <2>2
  <2>6. ~(b \in 1 .. n /\ \E j \in 1 .. k : a = n + j)
    BY <1>8, <2>1, <2>2
  <2> QED BY <1>3, <1>6, <2>3, <2>4, <2>5, <2>6
<1> QED BY <1>2, <1>7, <1>8 DEF u

\* f[k]: the first k of these sequences, one after the other.
Joins(f, seqs, n, S) ==
  /\ f[0] = << >>
  /\ \A k \in 1 .. n : f[k] = f[k - 1] \o seqs[k]
  /\ \A k \in 0 .. n : f[k] \in Seq(S)

LEMMA FlattenIs ==
  ASSUME NEW S, NEW seqs, NEW n \in Nat, seqs \in [1 .. n -> Seq(S)], Len(seqs) = n
  PROVE  \E f : Joins(f, seqs, n, S) /\ (n # 0 => FlattenSeq(seqs) = f[n])
<1> DEFINE V == Seq(S)
           st == [k \in 1 .. n |-> [x \in V |-> x \o seqs[k]]]
           Right1(g) == g = [i \in 1 .. n |-> IF i = 1 THEN seqs[i] ELSE g[i - 1] \o seqs[i]]
           fl == CHOOSE g : Right1(g)
<1>1. << >> \in V /\ \A k \in 1 .. n : seqs[k] \in V
  OBVIOUS
<1>2. \A x, y \in V : x \o y \in V
  BY ConcatProperties
<1>3. Steps(st, n, V)
  BY <1>1, <1>2 DEF Steps
<1>4. PICK f \in [0 .. n -> V] : f[0] = << >> /\ \A i \in 1 .. n : f[i] = st[i][f[i - 1]]
  <2>1. << >> \in V /\ n \in Nat
    BY <1>1
  <2> HIDE DEF V, st, Right1, fl
  <2>2. \A v \in V : Steps(st, n, V) =>
          \E f \in [0 .. n -> V] : f[0] = v /\ \A i \in 1 .. n : f[i] = st[i][f[i - 1]]
    <3> TAKE v \in V
    <3>2. HAVE Steps(st, n, V)
    <3> QED BY ONLY <3>2, <2>1, FoldExists, v \in V
  <2> QED BY ONLY <2>1, <2>2, <1>3
<1>5. \A k \in 1 .. n : k - 1 \in 0 .. n /\ f[k - 1] \in V /\ f[k] = f[k - 1] \o seqs[k]
  <2> TAKE k \in 1 .. n
  <2>1. k - 1 \in 0 .. n
    OBVIOUS
  <2>2. f[k - 1] \in V
    BY <2>1
  <2>3. st[k][f[k - 1]] = f[k - 1] \o seqs[k]
    BY <2>2
  <2> QED BY <1>4, <2>1, <2>2, <2>3
<1> DEFINE g == [i \in 1 .. n |-> f[i]]
<1>6. \A i \in 1 .. n : g[i] = IF i = 1 THEN seqs[i] ELSE g[i - 1] \o seqs[i]
  <2> TAKE i \in 1 .. n
  <2>1. CASE i = 1
    <3>1. f[i] = << >> \o seqs[i]
      <4>1. i - 1 = 0 /\ f[i] = f[i - 1] \o seqs[i]
        BY <1>5, <2>1
      <4>2. f[i - 1] = << >>
        BY <1>4, <4>1
      <4> QED BY <4>1, <4>2
    <3>2. seqs[i] \in V
      BY <1>1
    <3> QED BY <2>1, <3>1, <3>2, ConcatEmptySeq
  <2>2. CASE i # 1
    <3>1. i - 1 \in 1 .. n
      BY <2>2
    <3> QED BY <1>5, <2>2, <3>1
  <2> QED BY <2>1, <2>2
<1>7. Right1(g)
  <2> HIDE DEF V, st
  <2> QED BY <1>6
<1>8. Right1(fl)
  <2> HIDE DEF Right1, g
  <2> QED BY <1>7
<1>9. n # 0 => FlattenSeq(seqs) = fl[n]
  BY DEF FlattenSeq
<1> HIDE DEF fl, g
<1>10. \A i \in 1 .. n : fl[i] = IF i = 1 THEN seqs[i] ELSE fl[i - 1] \o seqs[i]
  BY <1>8
<1> DEFINE T == {k \in 0 .. n : k # 0 => fl[k] = f[k]}
<1>11. 0 \in T
  OBVIOUS
<1>12. ASSUME NEW k \in 0 .. (n - 1), k \in T PROVE k + 1 \in T
  <2>1. k + 1 \in 1 .. n /\ k + 1 \in 0 .. n /\ (k + 1) - 1 = k
    OBVIOUS
  <2>2. fl[k + 1] = IF k + 1 = 1 THEN seqs[k + 1] ELSE fl[k] \o seqs[k + 1]
    BY <1>10, <2>1
  <2>3. f[k + 1] = f[k] \o seqs[k + 1]
    BY <1>5, <2>1
  <2>4. CASE k = 0
    <3>1. << >> \o seqs[k + 1] = seqs[k + 1]
      BY <1>1, <2>1, ConcatEmptySeq
    <3>2. f[k] = << >> /\ k + 1 = 1
      BY <1>4, <2>4
    <3>3. fl[k + 1] = seqs[k + 1] /\ f[k + 1] = seqs[k + 1]
      BY <2>2, <2>3, <3>1, <3>2
    <3> QED BY <2>1, <3>3
  <2>5. CASE k # 0
    <3>1. k + 1 # 1 /\ fl[k] = f[k]
      BY <1>12, <2>5
    <3> QED BY <2>1, <2>2, <2>3, <3>1
  <2> QED BY <2>4, <2>5
<1>13. 0 .. n \subseteq T
  <2> HIDE DEF T
  <2> QED BY <1>11, <1>12, Induction
<1>14. n # 0 => fl[n] = f[n]
  BY <1>13
<1>15. Joins(f, seqs, n, S)
  BY <1>4, <1>5 DEF Joins
<1> QED BY <1>9, <1>14, <1>15

LEMMA TidyModules ==
  ASSUME NEW L \in Seq(Items), NEW P, Tidy(L, P)
  PROVE  IsInjective(AllModules(L)) /\ Range(AllModules(L)) = P
<1> DEFINE n == Len(L)
           seqs == [i \in DOMAIN L |-> L[i].modules]
           Q(k) == UNION {ModulesOf(L[i]) : i \in 1 .. k}
<1>1. n \in Nat /\ DOMAIN L = 1 .. n /\ \A i \in 1 .. n : L[i] \in Items
  OBVIOUS
<1>2. seqs \in [1 .. n -> Seq(Runnable)] /\ Len(seqs) = n
  BY <1>1 DEF Items
<1>3. AllModules(L) = FlattenSeq(seqs) /\ \A i \in 1 .. n : seqs[i] = L[i].modules
  BY <1>1 DEF AllModules
<1>4. n = 0 => AllModules(L) = seqs
  BY <1>2, <1>3 DEF FlattenSeq
<1> HIDE DEF n
<1>a. PICK f : Joins(f, seqs, n, Runnable) /\ (n # 0 => FlattenSeq(seqs) = f[n])
  <2> HIDE DEF seqs
  <2> QED BY <1>1, <1>2, FlattenIs
<1>5. /\ f[0] = << >>
      /\ \A k \in 1 .. n : f[k] = f[k - 1] \o seqs[k]
      /\ \A k \in 0 .. n : f[k] \in Seq(Runnable)
  <2> HIDE DEF seqs
  <2> QED BY <1>a DEF Joins
<1> DEFINE Right1(k) == IsInjective(f[k]) /\ Range(f[k]) = Q(k)
           T == {k \in 0 .. n : Right1(k)}
<1>6. 0 \in T
  <2>1. f[0] = << >> /\ DOMAIN << >> = {} /\ 1 .. 0 = {} /\ 0 \in 0 .. n
    BY <1>1, <1>5
  <2> QED BY <2>1 DEF Range, IsInjective
<1>7. ASSUME NEW k \in 0 .. (n - 1), k \in T PROVE k + 1 \in T
  <2>1. /\ k + 1 \in 1 .. n /\ k + 1 \in 0 .. n /\ k \in 0 .. n /\ (k + 1) - 1 = k
        /\ 1 .. (k + 1) = (1 .. k) \cup {k + 1} /\ 1 .. k \subseteq 1 .. n /\ k + 1 \notin 1 .. k
    BY <1>1
  <2> DEFINE ms == L[k + 1].modules
  <2>2. Right1(k)
    BY <1>7
  <2>3. f[k + 1] = f[k] \o ms
    BY <1>3, <1>5, <2>1
  <2>4. ms \in Seq(Runnable) /\ f[k] \in Seq(Runnable)
    BY <1>1, <1>5, <2>1 DEF Items
  <2>5. Q(k + 1) = Q(k) \cup Range(ms)
    BY <2>1 DEF ModulesOf
  <2>6. Q(k) \cap Range(ms) = {}
    <3>1. \A i \in 1 .. k : ModulesOf(L[i]) \cap ModulesOf(L[k + 1]) = {}
      BY <1>1, <2>1 DEF Tidy
    <3>2. Q(k) \cap ModulesOf(L[k + 1]) = {}
      BY <3>1
    <3> QED BY <3>2 DEF ModulesOf
  <2>7. IsInjective(ms)
    BY <1>1, <2>1 DEF Tidy, Filled
  <2> HIDE DEF ms, Q
  <2>8. /\ Range(f[k] \o ms) = Range(f[k]) \cup Range(ms)
        /\ IsInjective(f[k]) /\ IsInjective(ms) /\ Range(f[k]) \cap Range(ms) = {} =>
             IsInjective(f[k] \o ms)
    BY <2>4, ConcatRange
  <2>9. Right1(k + 1)
    BY <2>2, <2>3, <2>5, <2>6, <2>7, <2>8
  <2> QED BY <2>1, <2>9
<1>8. 0 .. n \subseteq T
  <2> HIDE DEF T
  <2> QED BY <1>1, <1>6, <1>7, Induction
<1>9. Right1(n)
  <2>1. n \in 0 .. n
    BY <1>1
  <2>2. n \in T
    BY <1>8, <2>1
  <2> QED BY <2>2
<1>10. Q(n) = P
  BY <1>1 DEF Tidy
<1>11. CASE n = 0
  <2>1. DOMAIN AllModules(L) = {} /\ Q(n) = {}
    BY <1>1, <1>4, <1>11
  <2> HIDE DEF Q
  <2> QED BY <1>10, <2>1 DEF Range, IsInjective
<1>12. CASE n # 0
  <2> HIDE DEF Q, seqs
  <2> QED BY <1>3, <1>a, <1>9, <1>10, <1>12
<1> QED BY <1>11, <1>12

LEMMA IconIs ==
  ASSUME NEW m \in Runnable
  PROVE  Icon(m) \in Items /\ Filled(Icon(m)) /\ ModulesOf(Icon(m)) = {m} /\ Icon(m).folder = NoFolder
<1>1. Icon(m).folder = NoFolder /\ Icon(m).modules = <<m>>
  BY DEF Icon
<1>2. <<m>> \in Seq(Runnable) /\ DOMAIN <<m>> = {1} /\ <<m>>[1] = m /\ <<m>> # << >>
  OBVIOUS
<1>3. Icon(m) \in Items
  BY <1>2 DEF Icon, Items, NoFolder
<1>4. Range(<<m>>) = {m} /\ IsInjective(<<m>>)
  BY <1>2 DEF Range, IsInjective
<1> QED BY <1>1, <1>2, <1>3, <1>4 DEF Filled, ModulesOf

LEMMA IconAppended ==
  ASSUME NEW L \in Seq(Items), NEW P, Tidy(L, P), NEW m \in Runnable, m \notin P
  PROVE  Append(L, Icon(m)) \in Seq(Items) /\ Tidy(Append(L, Icon(m)), P \cup {m})
<1>1. Icon(m) \in Items /\ Filled(Icon(m)) /\ ModulesOf(Icon(m)) = {m} /\ Icon(m).folder = NoFolder
  BY IconIs
<1>2. ModulesOf(Icon(m)) \cap P = {}
  BY <1>1
<1>3. Append(L, Icon(m)) \in Seq(Items) /\ Tidy(Append(L, Icon(m)), P \cup ModulesOf(Icon(m)))
  BY <1>1, <1>2, TidyAppend
<1> QED BY <1>1, <1>3

LEMMA TidyToggled ==
  ASSUME NEW L \in Seq(Items), NEW P, Tidy(L, P), NEW m \in Runnable
  PROVE  /\ TogglePin(L, m) \in Seq(Items)
         /\ Tidy(TogglePin(L, m), IF m \in P THEN P \ {m} ELSE P \cup {m})
<1>1. TogglePin(L, m) = IF m \in P THEN RemoveModule(L, m) ELSE Append(L, Icon(m))
  BY TidyModules DEF TogglePin
<1>2. CASE m \in P
  BY <1>1, <1>2, TidyRemoved
<1>3. CASE m \notin P
  BY <1>1, <1>3, IconAppended
<1> QED BY <1>2, <1>3

\* A single icon has one module.
LEMMA IconModule ==
  ASSUME NEW item \in Items, Filled(item), item.folder = NoFolder
  PROVE  item.modules[1] \in Runnable /\ ModulesOf(item) = {item.modules[1]}
<1>1. item.modules \in Seq(Runnable) /\ item.modules # << >>
  BY DEF Items, Filled
<1>2. 1 \in DOMAIN item.modules
  BY <1>1
<1>3. item.modules[1] \in ModulesOf(item)
  BY <1>2 DEF ModulesOf, Range
<1>4. item.modules[1] \in Runnable
  BY <1>1, <1>2
<1> QED BY <1>3, <1>4 DEF Filled

LEMMA TidyFolder ==
  ASSUME NEW L \in Seq(Items), NEW P, Tidy(L, P), NEW i, NEW j, NEW id \in Nat,
         id # NoFolder, id \notin Folders(L)
  PROVE  /\ CreateFolderFromDrop(L, i, j, id) \in Seq(Items)
         /\ Tidy(CreateFolderFromDrop(L, i, j, id), P)
<1> DEFINE item == [folder |-> id, modules |-> L[j].modules \o L[i].modules]
<1>1. CASE i = j \/ i \notin DOMAIN L \/ j \notin DOMAIN L \/ L[i].folder # NoFolder \/ L[j].folder # NoFolder
  <2>1. CreateFolderFromDrop(L, i, j, id) = L
    BY <1>1 DEF CreateFolderFromDrop, Indexed
  <2> QED BY <2>1
<1>2. CASE ~(i = j \/ i \notin DOMAIN L \/ j \notin DOMAIN L \/ L[i].folder # NoFolder \/ L[j].folder # NoFolder)
  <2>1. CreateFolderFromDrop(L, i, j, id) = RemoveAt([L EXCEPT ![j] = item], i)
    BY <1>2 DEF CreateFolderFromDrop, Indexed
  <2>2. i \in DOMAIN L /\ j \in DOMAIN L /\ i # j
    BY <1>2
  <2>3. L[i] \in Items /\ L[j] \in Items
    BY <2>2
  <2>4. Filled(L[i]) /\ Filled(L[j]) /\ ModulesOf(L[i]) \cap ModulesOf(L[j]) = {}
    BY <2>2 DEF Tidy
  <2>5. /\ L[i].modules \in Seq(Runnable) /\ L[j].modules \in Seq(Runnable)
        /\ L[i].modules # << >> /\ IsInjective(L[i].modules) /\ IsInjective(L[j].modules)
        /\ Range(L[j].modules) \cap Range(L[i].modules) = {}
    BY <2>3, <2>4 DEF Items, Filled, ModulesOf
  <2>6. /\ L[j].modules \o L[i].modules \in Seq(Runnable)
        /\ Range(L[j].modules \o L[i].modules) = Range(L[j].modules) \cup Range(L[i].modules)
        /\ IsInjective(L[j].modules \o L[i].modules)
    BY <2>5, ConcatRange
  <2>7. L[j].modules \o L[i].modules # << >>
    BY <2>5, ConcatEqualIffEmpty
  <2>8. item.folder = id /\ item.modules = L[j].modules \o L[i].modules
    OBVIOUS
  <2>9. item \in Items
    BY <2>6 DEF Items
  <2> HIDE DEF item
  <2>10. Filled(item)
    BY <2>6, <2>7, <2>8 DEF Filled
  <2>11. ModulesOf(item) = ModulesOf(L[i]) \cup ModulesOf(L[j])
    BY <2>6, <2>8 DEF ModulesOf
  <2>12. \A e \in DOMAIN L : e # j => L[e].folder # item.folder
    BY <2>8 DEF Folders
  <2> QED BY <2>1, <2>2, <2>9, <2>10, <2>11, <2>12, TidyJoined
<1> QED BY <1>1, <1>2

LEMMA TidyMerged ==
  ASSUME NEW L \in Seq(Items), NEW P, Tidy(L, P), NEW i, NEW id
  PROVE  MergeIntoFolder(L, i, id) \in Seq(Items) /\ Tidy(MergeIntoFolder(L, i, id), P)
<1> DEFINE m == L[i].modules[1]
           f == CHOOSE k \in DOMAIN L : L[k].folder = id
           item == [L[f] EXCEPT !.modules = Append(@, m)]
<1>1. CASE i \notin DOMAIN L \/ L[i].folder # NoFolder \/ id \notin Folders(L)
  <2>1. MergeIntoFolder(L, i, id) = L
    BY <1>1 DEF MergeIntoFolder, Indexed
  <2> QED BY <2>1
<1>2. CASE ~(i \notin DOMAIN L \/ L[i].folder # NoFolder \/ id \notin Folders(L))
  <2>1. MergeIntoFolder(L, i, id) = IF m \in Range(L[f].modules) THEN L
                                    ELSE RemoveAt([L EXCEPT ![f].modules = Append(@, m)], i)
    BY <1>2 DEF MergeIntoFolder, Indexed
  <2>2. i \in DOMAIN L /\ L[i].folder = NoFolder /\ id # NoFolder
    BY <1>2 DEF Folders
  <2>3. f \in DOMAIN L /\ L[f].folder = id
    BY <1>2 DEF Folders
  <2> HIDE DEF f
  <2>4. i # f /\ L[i] \in Items /\ L[f] \in Items /\ Filled(L[i]) /\ Filled(L[f])
    BY <2>2, <2>3 DEF Tidy
  <2>5. m \in Runnable /\ ModulesOf(L[i]) = {m}
    BY <2>2, <2>4, IconModule
  <2> HIDE DEF m
  <2>6. m \notin Range(L[f].modules)
    <3>1. ModulesOf(L[i]) \cap ModulesOf(L[f]) = {}
      BY <2>2, <2>3, <2>4 DEF Tidy
    <3> QED BY <2>5, <3>1 DEF ModulesOf
  <2>7. L[f].modules \in Seq(Runnable) /\ IsInjective(L[f].modules)
    BY <2>4 DEF Items, Filled
  <2>8. /\ Append(L[f].modules, m) \in Seq(Runnable) /\ Append(L[f].modules, m) # << >>
        /\ Range(Append(L[f].modules, m)) = Range(L[f].modules) \cup {m}
        /\ IsInjective(Append(L[f].modules, m))
    <3>1. Append(L[f].modules, m) \in Seq(Runnable) /\ Append(L[f].modules, m) # << >>
      BY <2>5, <2>7
    <3> QED BY <2>5, <2>6, <2>7, <3>1, AppendRange
  <2>9. item.folder = id /\ item.modules = Append(L[f].modules, m) /\ item \in Items
    BY <2>3, <2>4, <2>8 DEF Items
  <2>10. [L EXCEPT ![f].modules = Append(@, m)] = [L EXCEPT ![f] = item]
    BY <2>3
  <2> HIDE DEF item
  <2>11. Filled(item)
    BY <2>2, <2>8, <2>9 DEF Filled
  <2>12. ModulesOf(item) = ModulesOf(L[i]) \cup ModulesOf(L[f])
    BY <2>5, <2>8, <2>9 DEF ModulesOf
  <2>13. \A e \in DOMAIN L : e # f => L[e].folder # item.folder
    BY <2>2, <2>3, <2>9 DEF Tidy
  <2>14. MergeIntoFolder(L, i, id) = RemoveAt([L EXCEPT ![f] = item], i)
    BY <2>1, <2>6, <2>10
  <2> QED BY <2>2, <2>3, <2>4, <2>9, <2>11, <2>12, <2>13, <2>14, TidyJoined
<1> QED BY <1>1, <1>2

LEMMA TidyEjected ==
  ASSUME NEW L \in Seq(Items), NEW P, Tidy(L, P), NEW id, NEW m
  PROVE  EjectFromFolder(L, id, m) \in Seq(Items) /\ Tidy(EjectFromFolder(L, id, m), P)
<1> DEFINE f == CHOOSE k \in DOMAIN L : L[k].folder = id
           rest == WithoutModule(L[f].modules, m)
           K == IF rest = << >> THEN RemoveAt(L, f) ELSE [L EXCEPT ![f].modules = rest]
<1>1. CASE id \notin Folders(L)
  <2>1. EjectFromFolder(L, id, m) = L
    BY <1>1 DEF EjectFromFolder
  <2> QED BY <2>1
<1>2. CASE id \in Folders(L)
  <2>1. EjectFromFolder(L, id, m) = IF m \notin Range(L[f].modules) THEN L ELSE Append(K, Icon(m))
    BY <1>2 DEF EjectFromFolder
  <2>2. f \in DOMAIN L /\ L[f].folder = id /\ id # NoFolder
    BY <1>2 DEF Folders
  <2> HIDE DEF f
  <2>3. L[f] \in Items /\ Filled(L[f]) /\ ModulesOf(L[f]) \subseteq P
    BY <2>2 DEF Tidy
  <2>4. CASE m \notin Range(L[f].modules)
    BY <2>1, <2>4
  <2>5. CASE m \in Range(L[f].modules)
    <3>1. m \in Runnable /\ m \in ModulesOf(L[f])
      BY <2>3, <2>5 DEF Items, ModulesOf, Range
    <3> DEFINE left == LeftOf(L[f], m)
    <3>2. /\ left \in Items /\ ModulesOf(left) = ModulesOf(L[f]) \ {m}
          /\ rest # << >> => Filled(left)
      BY <2>3, LeftFilled
    <3>3. left.folder = id /\ left.modules = rest
      BY <2>2 DEF LeftOf
    <3>4. [L EXCEPT ![f].modules = rest] = [L EXCEPT ![f] = left]
      <4>1. [L[f] EXCEPT !.modules = rest] = left
        BY <2>3 DEF LeftOf, Items
      <4> QED BY <2>2, <4>1
    <3> HIDE DEF left, rest
    <3>5. K \in Seq(Items) /\ Tidy(K, P \ {m})
      <4>1. CASE rest = << >>
        <5>1. ModulesOf(left) = {}
          BY <3>3, <4>1 DEF ModulesOf, Range
        <5>2. P \ ModulesOf(L[f]) = P \ {m}
          BY <3>1, <3>2, <5>1
        <5>3. RemoveAt(L, f) \in Seq(Items) /\ Tidy(RemoveAt(L, f), P \ ModulesOf(L[f]))
          BY <2>2, TidyRemoveAt
        <5> QED BY <4>1, <5>2, <5>3
      <4>2. CASE rest # << >>
        <5> DEFINE M == [L EXCEPT ![f] = left]
        <5>1. /\ M \in Seq(Items) /\ DOMAIN M = DOMAIN L /\ M[f] = left
              /\ \A e \in DOMAIN L : e # f => M[e] = L[e]
          BY <2>2, <3>2
        <5> HIDE DEF M
        <5>2. Filled(left) /\ ModulesOf(left) \cap (P \ ModulesOf(L[f])) = {}
          BY <3>2, <4>2
        <5>3. \A e \in DOMAIN L : e # f => L[e].folder # left.folder
          BY <2>2, <3>3 DEF Tidy
        <5>4. Tidy(M, (P \ ModulesOf(L[f])) \cup ModulesOf(left))
          BY <2>2, <5>1, <5>2, <5>3, TidyOther
        <5>5. (P \ ModulesOf(L[f])) \cup ModulesOf(left) = P \ {m}
          BY <2>3, <3>1, <3>2
        <5>6. K = M
          BY <3>4, <4>2 DEF M
        <5> HIDE DEF K
        <5> QED BY <5>1, <5>4, <5>5, <5>6
      <4> QED BY <4>1, <4>2
    <3> HIDE DEF K
    <3>6. Append(K, Icon(m)) \in Seq(Items) /\ Tidy(Append(K, Icon(m)), (P \ {m}) \cup {m})
      BY <3>1, <3>5, IconAppended
    <3>7. (P \ {m}) \cup {m} = P
      BY <2>3, <3>1
    <3> QED BY <2>1, <2>5, <3>6, <3>7
  <2> QED BY <2>4, <2>5
<1> QED BY <1>1, <1>2

\* An id above all that there are is new.
LEMMA FoldersFinite ==
  ASSUME NEW L \in Seq(Items)
  PROVE  Folders(L) \in SUBSET Nat /\ IsFiniteSet(Folders(L))
<1> DEFINE f == [i \in DOMAIN L |-> L[i].folder]
           S == {L[i].folder : i \in DOMAIN L}
<1>1. IsFiniteSet(DOMAIN L)
  <2>1. DOMAIN L = 1 .. Len(L) /\ Len(L) \in Nat
    OBVIOUS
  <2> QED BY <2>1, FS_Interval
<1>2. f \in Surjection(DOMAIN L, S)
  BY DEF Surjection
<1>3. IsFiniteSet(S)
  <2> HIDE DEF f, S
  <2> QED BY <1>1, <1>2, FS_Surjection
<1>4. \A i \in DOMAIN L : L[i].folder \in Nat
  <2>1. \A i \in DOMAIN L : L[i] \in Items
    OBVIOUS
  <2> QED BY <2>1 DEF Items
<1>5. Folders(L) \subseteq S /\ S \subseteq Nat
  BY <1>4 DEF Folders
<1> HIDE DEF S
<1> QED BY <1>3, <1>5, FS_Subset

LEMMA FreshFolder ==
  ASSUME NEW L \in Seq(Items), NEW K \in Seq(Items), NEW new,
         new = 1 + Max({NoFolder} \cup Folders(L) \cup Folders(K))
  PROVE  new \in Nat /\ new # NoFolder /\ new \notin Folders(L)
<1> DEFINE S == {NoFolder} \cup Folders(L) \cup Folders(K)
<1>1. S \in SUBSET Nat /\ S # {}
  BY FoldersFinite DEF NoFolder
<1>2. IsFiniteSet(S)
  <2>1. IsFiniteSet({NoFolder}) /\ IsFiniteSet(Folders(L)) /\ IsFiniteSet(Folders(K))
    BY FoldersFinite, FS_Singleton
  <2> QED BY <2>1, FS_Union
<1>3. Folders(L) \subseteq S
  OBVIOUS
<1> HIDE DEF S
<1>4. Max(S) \in S /\ \A x \in S : x <= Max(S)
  BY <1>1, <1>2, MaxOf
<1>5. new = 1 + Max(S) /\ Max(S) \in Nat
  BY <1>1, <1>4 DEF S
<1>6. new \notin S
  BY <1>4, <1>5
<1> QED BY <1>3, <1>5, <1>6 DEF NoFolder

\* Each desktop has the modules of its history, and is tidy.
DeskInv ==
  /\ layout \in [Replicas -> Seq(Items)] /\ pinned = [r \in Replicas |-> pinned[r]]
  /\ shown = [r \in Replicas |-> shown[r]] /\ \A r \in Replicas : shown[r].layout \in Seq(Items)
  /\ \A r \in Replicas : Tidy(layout[r], pinned[r])

LEMMA DeskStep == DeskInv /\ [Next]_vars => DeskInv'
<1> SUFFICES ASSUME DeskInv, [Next]_vars PROVE DeskInv'
  OBVIOUS
<1>1. \/ UNCHANGED <<layout, pinned>> /\ (\/ UNCHANGED shown
                                          \/ \E r \in Replicas : shown' = [shown EXCEPT ![r] = Present(r)])
      \/ \E r \in Replicas : \E g :
           Pin(r, g) \/ (\E i, j : Drop(r, g, i, j)) \/ (\E m : Eject(r, g, m))
  <2>1. CASE UNCHANGED vars
    BY <2>1 DEF vars, desk
  <2>2. CASE Next
    <3>1. PICK r \in Replicas :
             \/ UserStep(r)
             \/ HandlerStep(r)
             \/ ModuleLoads(r) \/ CloseRunner(r) \/ Render(r)
             \/ CloseFolder(r) \/ \E f \in Folders(shown[r].layout) : OpenFolder(r, f)
             \/ \E s \in Replicas : Sync(r, s)
      BY <2>2 DEF Next
    <3>2. CASE UserStep(r)
      <4>1. PICK g : \/ Mint(r, g) \/ Choose(r, g) \/ Burn(r, g) \/ Submit(r, g) \/ Post(r, g)
                     \/ Advance(r, g) \/ Wait(r, g) \/ RunModule(r, g) \/ Reload(r, g)
                     \/ Pin(r, g) \/ (\E i, j : Drop(r, g, i, j)) \/ (\E m : Eject(r, g, m))
        BY <3>2 DEF UserStep
      <4>2. CASE Mint(r, g) \/ Choose(r, g) \/ Burn(r, g) \/ Submit(r, g) \/ Post(r, g)
        BY <4>2 DEF Mint, Choose, Burn, Submit, Post, OnlyHandlers, desk
      <4>3. CASE Advance(r, g) \/ Wait(r, g) \/ RunModule(r, g)
        BY <4>3 DEF Advance, Wait, RunModule, RunsIt, desk
      <4>4. CASE Reload(r, g)
        BY <4>4 DEF Reload
      <4> QED BY <4>1, <4>2, <4>3, <4>4
    <3>3. CASE HandlerStep(r)
      <4>1. PICK h \in running[r] :
               \/ BurnFails(r, h) \/ BurnVerified(r, h)
               \/ SubmissionBuilt(r, h) \/ SubmissionRefused(r, h) \/ SubmissionAccepted(r, h)
               \/ \E id \in Ids : Minted(r, h, id) \/ IdentityAdded(r, h, id)
                                   \/ ModuleAdded(r, h, id) \/ Posted(r, h, id)
        BY <3>3 DEF HandlerStep
      <4>2. CASE BurnFails(r, h) \/ BurnVerified(r, h)
        BY <4>2 DEF BurnFails, BurnVerified, OnlyHandlers, desk
      <4>3. CASE SubmissionBuilt(r, h) \/ SubmissionRefused(r, h) \/ SubmissionAccepted(r, h)
        BY <4>3 DEF SubmissionBuilt, SubmissionRefused, SubmissionAccepted, OnlyHandlers, desk
      <4>4. ASSUME NEW id \in Ids,
                   Minted(r, h, id) \/ IdentityAdded(r, h, id) \/ ModuleAdded(r, h, id) \/ Posted(r, h, id)
            PROVE  UNCHANGED <<layout, pinned, shown>>
        <5>1. PICK keys : Added(r, h, id, keys)
          BY <4>4, AddedSome
        <5> QED BY <5>1 DEF Added, desk
      <4> QED BY <4>1, <4>2, <4>3, <4>4
    <3>4. CASE ModuleLoads(r) \/ CloseRunner(r) \/ Render(r)
      BY <3>4 DEF ModuleLoads, CloseRunner, Render, desk
    <3>5. CASE CloseFolder(r) \/ \E f \in Folders(shown[r].layout) : OpenFolder(r, f)
      BY <3>5 DEF CloseFolder, OpenFolder, Arranged
    <3>6. CASE \E s \in Replicas : Sync(r, s)
      BY <3>6 DEF Sync, desk
    <3> QED BY <3>1, <3>2, <3>3, <3>4, <3>5, <3>6
  <2> QED BY <2>1, <2>2
<1>2. ASSUME UNCHANGED <<layout, pinned>>,
             \/ UNCHANGED shown
             \/ \E r \in Replicas : shown' = [shown EXCEPT ![r] = Present(r)]
      PROVE  DeskInv'
  <2>1. CASE UNCHANGED shown
    BY <1>2, <2>1 DEF DeskInv
  <2>2. ASSUME NEW r \in Replicas, shown' = [shown EXCEPT ![r] = Present(r)] PROVE DeskInv'
    <3>1. Present(r).layout \in Seq(Items)
      BY DEF Present, DeskInv
    <3> QED BY <1>2, <2>2, <3>1 DEF DeskInv
  <2> QED BY <1>2, <2>1, <2>2
\* A desktop rearranged, with as many modules or one more or one less.
<1>3. ASSUME NEW r \in Replicas, NEW K \in Seq(Items), NEW P, Tidy(K, P),
             layout' = [layout EXCEPT ![r] = K], pinned' = [pinned EXCEPT ![r] = P], UNCHANGED shown
      PROVE  DeskInv'
  <2>1. /\ layout' \in [Replicas -> Seq(Items)] /\ pinned' = [s \in Replicas |-> pinned'[s]]
        /\ layout'[r] = K /\ pinned'[r] = P
        /\ \A s \in Replicas : s # r => layout'[s] = layout[s] /\ pinned'[s] = pinned[s]
    BY <1>3 DEF DeskInv
  <2>2. \A s \in Replicas : Tidy(layout'[s], pinned'[s])
    BY <1>3, <2>1 DEF DeskInv
  <2> QED BY <1>3, <2>1, <2>2 DEF DeskInv
<1>4. ASSUME NEW r \in Replicas
      PROVE  /\ layout[r] \in Seq(Items) /\ shown[r].layout \in Seq(Items)
             /\ Tidy(layout[r], pinned[r]) /\ pinned = [pinned EXCEPT ![r] = pinned[r]]
  BY DEF DeskInv
<1>5. ASSUME NEW r \in Replicas, NEW g, Pin(r, g) PROVE DeskInv'
  <2> DEFINE K == TogglePin(layout[r], g.id)
             P == IF g.id \in pinned[r] THEN pinned[r] \ {g.id} ELSE pinned[r] \cup {g.id}
  <2>1. /\ layout' = [layout EXCEPT ![r] = K] /\ pinned' = [pinned EXCEPT ![r] = P]
        /\ UNCHANGED shown /\ g.id \in Runnable
    BY <1>5 DEF Pin, Arranged, Catalog, DeskInv
  <2>2. K \in Seq(Items) /\ Tidy(K, P)
    BY <1>4, <2>1, TidyToggled
  <2> HIDE DEF K, P
  <2> QED BY <1>3, <2>1, <2>2
<1>6. ASSUME NEW r \in Replicas, NEW g, NEW i, NEW j, Drop(r, g, i, j) PROVE DeskInv'
  <2> DEFINE L == layout[r]
             new == 1 + Max({NoFolder} \cup Folders(L) \cup Folders(shown[r].layout))
             target == IF Indexed(L, j) THEN L[j].folder ELSE NoFolder
             K == IF target # NoFolder THEN MergeIntoFolder(L, i, target)
                  ELSE CreateFolderFromDrop(L, i, j, new)
  <2>1. layout' = [layout EXCEPT ![r] = K] /\ UNCHANGED <<pinned, shown>>
    BY <1>6 DEF Drop, Arranged, DeskInv
  <2>2. new \in Nat /\ new # NoFolder /\ new \notin Folders(L)
    <3>1. L \in Seq(Items) /\ shown[r].layout \in Seq(Items)
      BY <1>4
    <3> HIDE DEF L
    <3> QED BY <3>1, FreshFolder
  <2> HIDE DEF new, target
  <2>3. MergeIntoFolder(L, i, target) \in Seq(Items) /\ Tidy(MergeIntoFolder(L, i, target), pinned[r])
    BY <1>4, TidyMerged
  <2>4. /\ CreateFolderFromDrop(L, i, j, new) \in Seq(Items)
        /\ Tidy(CreateFolderFromDrop(L, i, j, new), pinned[r])
    BY <1>4, <2>2, TidyFolder
  <2>5. K \in Seq(Items) /\ Tidy(K, pinned[r])
    BY <2>3, <2>4
  <2> HIDE DEF K
  <2> QED BY <1>3, <1>4, <2>1, <2>5
<1>7. ASSUME NEW r \in Replicas, NEW g, NEW m, Eject(r, g, m) PROVE DeskInv'
  <2> DEFINE K == EjectFromFolder(layout[r], folder[r], m)
  <2>1. layout' = [layout EXCEPT ![r] = K] /\ UNCHANGED <<pinned, shown>>
    BY <1>7 DEF Eject, Arranged, DeskInv
  <2>2. K \in Seq(Items) /\ Tidy(K, pinned[r])
    BY <1>4, TidyEjected
  <2> HIDE DEF K
  <2> QED BY <1>3, <1>4, <2>1, <2>2
<1> QED BY <1>1, <1>2, <1>5, <1>6, <1>7

(* However many modules, and however they are pinned, dragged, put out of  *)
(* a folder and unpinned, over whatever was last rendered: a module is on  *)
(* the desktop once if it was added and not removed, and no folder is      *)
(* empty or shares its id.                                                 *)
THEOREM DesktopStands == Spec => []DesktopKeepsModules
<1>1. Init => DeskInv
  <2> SUFFICES ASSUME Init PROVE DeskInv
    OBVIOUS
  <2>1. /\ layout = [r \in Replicas |-> << >>] /\ pinned = [r \in Replicas |-> {}]
        /\ shown = [r \in Replicas |-> [entries |-> {}, layout |-> << >>]]
    BY DEF Init
  <2>2. << >> \in Seq(Items)
    OBVIOUS
  <2> QED BY <2>1, <2>2, EmptyTidy DEF DeskInv
<1>2. DeskInv => DesktopKeepsModules
  <2> SUFFICES ASSUME DeskInv, NEW r \in Replicas
               PROVE  /\ IsInjective(AllModules(layout[r])) /\ Range(AllModules(layout[r])) = pinned[r]
                      /\ \A i, j \in DOMAIN layout[r] :
                           /\ layout[r][i].modules # << >>
                           /\ layout[r][i].folder # NoFolder
                                /\ layout[r][i].folder = layout[r][j].folder => i = j
    BY DEF DesktopKeepsModules
  <2>1. layout[r] \in Seq(Items) /\ Tidy(layout[r], pinned[r])
    BY DEF DeskInv
  <2>2. IsInjective(AllModules(layout[r])) /\ Range(AllModules(layout[r])) = pinned[r]
    BY <2>1, TidyModules
  <2>3. \A i, j \in DOMAIN layout[r] :
          /\ layout[r][i].modules # << >>
          /\ layout[r][i].folder # NoFolder /\ layout[r][i].folder = layout[r][j].folder => i = j
    BY <2>1 DEF Tidy, Filled
  <2> QED BY <2>2, <2>3
<1> QED BY <1>1, <1>2, DeskStep, PTL DEF Spec
=============================================================================
