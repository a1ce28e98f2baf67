----------------------------- MODULE PluginPage -----------------------------
(***************************************************************************)
(* The page of a domain, public/js/app/main.js, where it is not the        *)
(* DomainLedger: what its user registers (an identity, formulas, modules), *)
(* the modules that run in it and what they post, and the desktop.         *)
(*                                                                         *)
(* A handler that awaits is in running, and others go on meanwhile.  What  *)
(* the user can click on is what was last rendered, shown.  A domain is    *)
(* named by its replica.  The network is that of DomainLedger: a merge, at *)
(* any time.                                                               *)
(***************************************************************************)
EXTENDS Registries, DesktopLayout, PluginHost

CONSTANTS Visits,      \* bound: what each user does, in turn
          Rank(_, _, _) \* computeModuleRank of what was burned, the epochs since, and a
                       \* formula's parameters; those of Genesis are called Genesis

ASSUME PageAssumption == Pages = Replicas

ASSUME VisitsAssumption ==
  \A v \in Visits : v \in [Replicas -> Seq(UNION {Range(v[r]) : r \in DOMAIN v})]

VARIABLES todo,            \* what the user has still to do
          running,         \* handlers in progress
          lastEventId,     \* the tip
          epochs,          \* the domain's epochs; DomainLedger has the events
          formula,         \* activeFormulaId
          lastSubmission,  \* lastSubmissionByAuthor of the user, or None
          layout,          \* the desktop, in localStorage
          folder,          \* openFolderId, or NoFolder
          rows,            \* the modules in the open folder's panel
          shown,           \* what was rendered
          told,            \* history: key -> the last event of it that has been called a success
          crossed,         \* history: pages with two burns, or submissions of a module, at once
          pinned           \* history: the modules added to the desktop and not removed

local == <<epochs, formula>>
desk == <<layout, folder, rows, pinned>>
handling == <<running, lastEventId, lastSubmission, told, crossed>>
vars == <<content, dag, hostVars, todo, handling, local, desk, shown>>

\* What renderAll() draws of it.
Present(r) == [entries |-> Registered(r), layout |-> layout[r]]

Catalog(r) == {m \in Runnable : \E entry \in shown[r].entries : entry[1] = <<"module", m>>}
BurnDisabled(r) == \E entry \in shown[r].entries : entry[1] = <<"identity", r>>

Genesis0(r) == [parents |-> {}, payload |-> [type |-> "genesis", domain |-> r]]

\* Every domain has its genesis, under either hash.
Init ==
  /\ \E id \in [Replicas -> Ids] :
       /\ \A r, s \in Replicas : id[r] = id[s] => r = s
       /\ content = [i \in {id[r] : r \in Replicas} |-> Genesis0(CHOOSE r \in Replicas : id[r] = i)]
       /\ dag = [r \in Replicas |-> {id[r]}]
       /\ lastEventId = id
  /\ HostInit
  /\ todo \in Visits
  /\ running = [r \in Replicas |-> {}]
  /\ epochs = [r \in Replicas |-> 0]
  /\ formula = [r \in Replicas |-> Genesis]
  /\ lastSubmission = [r \in Replicas |-> None]
  /\ layout = [r \in Replicas |-> << >>]
  /\ folder = [r \in Replicas |-> NoFolder]
  /\ rows = [r \in Replicas |-> {}]
  /\ shown = [r \in Replicas |-> [entries |-> {}, layout |-> << >>]]
  /\ told = [r \in Replicas |-> Nothing]
  /\ crossed = [r \in Replicas |-> FALSE]
  /\ pinned = [r \in Replicas |-> {}]

-----------------------------------------------------------------------------
(* Handlers                                                                *)

\* The next thing the user does is g.
Does(r, g) ==
  /\ todo[r] # << >> /\ g = Head(todo[r])
  /\ todo' = [todo EXCEPT ![r] = Tail(@)]

\* No overlay covers the screens.
Clickable(r) == ~visible[r] /\ folder[r] = NoFolder

\* Handler h of r ends or, as k, goes on.
Ends(r, h) == running' = [running EXCEPT ![r] = @ \ {h}]
GoesOn(r, h, k) == running' = [running EXCEPT ![r] = (@ \ {h}) \cup {k}]

(* addEvent() of g's event, after the tip of now, up to its await.  It     *)
(* would throw if the tip were unknown: TypeOK.                            *)
Adding(r, g, payload) ==
  [step |-> "adding", g |-> g, event |-> [parents |-> {lastEventId[r]}, payload |-> payload]]

\* The event is in, and the tip, as in mintFormula(); the user is told of its
\* success, if the handler says so of these keys.
Added(r, h, id, keys) ==
  /\ h.step = "adding"
  /\ Insert(r, h.event, id)
  /\ lastEventId' = [lastEventId EXCEPT ![r] = id]
  /\ told' = [told EXCEPT ![r] = [k \in DOMAIN @ \cup keys |-> IF k \in keys THEN id ELSE @[k]]]
  /\ Ends(r, h)
  /\ UNCHANGED <<hostVars, todo, lastSubmission, crossed, local, desk, shown>>

OnlyHandlers == UNCHANGED <<content, dag, hostVars, lastEventId, told, local, desk, shown>>

-----------------------------------------------------------------------------
(* Formulas                                                                *)

\* The mint button: a registered identity is needed, now.
Mint(r, g) ==
  /\ g.do = "mint" /\ Clickable(r) /\ Does(r, g)
  /\ running' = IF HasIdentityCost(r)
                THEN [running EXCEPT ![r] = @ \cup {Adding(r, g,
                       [type |-> "formula-register", id |-> g.id, params |-> g.params, by |-> r])}]
                ELSE running
  /\ UNCHANGED <<lastSubmission, crossed>> /\ OnlyHandlers

(* "Minted, permanent from now on": of an id that was taken as well, since *)
(* what is asked is only whether the id is registered, and by then it is.  *)
Minted(r, h, id) ==
  h.g.do = "mint" /\ Added(r, h, id, {<<"formula", h.g.id>>})

\* The formula that the domain goes by: any that was rendered, as a local choice.
Choose(r, g) ==
  /\ g.do = "choose" /\ Clickable(r) /\ Does(r, g)
  /\ g.id = Genesis \/ \E entry \in shown[r].entries : entry[1] = <<"formula", g.id>>
  /\ formula' = [formula EXCEPT ![r] = g.id]
  /\ UNCHANGED <<content, dag, hostVars, handling, epochs, desk, shown>>

\* Its parameters, by the registry of now.
CurrentRewardParams(r) ==
  LET formulas == Formulas(TopoOrder(r))
  IN  IF formula[r] \in DOMAIN formulas THEN formulas[formula[r]].params ELSE Genesis

-----------------------------------------------------------------------------
(* The identity                                                            *)

(* registerIdentityViaBurn, if the button was not rendered disabled, up to *)
(* the broadcast.                                                          *)
Burn(r, g) ==
  /\ g.do = "burn" /\ Clickable(r) /\ ~BurnDisabled(r) /\ Does(r, g)
  /\ running' = [running EXCEPT ![r] = @ \cup {[step |-> "broadcasting", g |-> g]}]
  /\ crossed' = [crossed EXCEPT ![r] =
       @ \/ HasIdentityCost(r) \/ \E h \in running[r] : h.g.do = "burn"]
  /\ UNCHANGED lastSubmission /\ OnlyHandlers

\* broadcastAndVerifyBurn throws, before or after the burn has landed.
BurnFails(r, h) ==
  /\ h.step = "broadcasting" /\ Ends(r, h)
  /\ UNCHANGED <<todo, lastSubmission, crossed>> /\ OnlyHandlers

\* The burn was final, fetched and verified.
BurnVerified(r, h) ==
  /\ h.step = "broadcasting"
  /\ GoesOn(r, h, Adding(r, h.g, [type |-> "identity-register", domain |-> r,
       signature |-> <<r, h.g.slot>>, burned |-> h.g.lamports, slot |-> h.g.slot]))
  /\ UNCHANGED <<todo, lastSubmission, crossed>> /\ OnlyHandlers

IdentityAdded(r, h, id) ==
  h.g.do = "burn" /\ Added(r, h, id, {<<"identity", r>>})

-----------------------------------------------------------------------------
(* Modules                                                                 *)

\* submitPluginCode, up to the hash of the code.
Submit(r, g) ==
  /\ g.do = "submit" /\ Clickable(r) /\ Does(r, g)
  /\ running' = [running EXCEPT ![r] = @ \cup {[step |-> "hashing", g |-> g]}]
  /\ UNCHANGED <<lastSubmission, crossed>> /\ OnlyHandlers

(* Whether the module exists, and whether the identity backs it, is read;  *)
(* then the event is signed, which awaits a library, and validated.        *)
SubmissionBuilt(r, h) ==
  /\ h.step = "hashing"
  /\ GoesOn(r, h, [step |-> "validating", g |-> h.g, existing |-> h.g.id \in DOMAIN Modules(TopoOrder(r)),
       economics |-> IF h.g.economics = None THEN None
                     ELSE [backed |-> HasIdentityCost(r)] @@ h.g.economics])
  /\ crossed' = [crossed EXCEPT ![r] =
       @ \/ \E k \in running[r] : k.g.do = "submit" /\ k.g.id = h.g.id /\ k.step # "hashing"]
  /\ UNCHANGED <<todo, lastSubmission>> /\ OnlyHandlers

\* Mutant: what an issuing module declares is not looked at.
Valid_Unchecked(h) == TRUE

\* validateSubmission, of an event just signed, over the code just hashed.
Valid(h) == h.economics # None => ValidEconomics(h.economics)

\* rankFromIdentityAndCadence, which submitPluginCode repeats: 0 without an identity.
RankFromIdentityAndCadence(r) ==
  LET identities == Identities(TopoOrder(r))
  IN  IF r \notin DOMAIN identities THEN 0
      ELSE Rank(identities[r].burned, epochs[r], CurrentRewardParams(r))

Standing(r) == [rank |-> RankFromIdentityAndCadence(r), epochs |-> epochs[r]]

\* checkSubmissionEligibility: (rank + 1) / (epochs + 1) must not decrease.
Eligible(r) ==
  LET now == Standing(r)
      last == lastSubmission[r]
  IN  last # None => (now.rank + 1) * (last.epochs + 1) >= (last.rank + 1) * (now.epochs + 1)

SubmissionRefused(r, h) ==
  /\ h.step = "validating" /\ ~(Valid(h) /\ (h.existing \/ Eligible(r)))
  /\ Ends(r, h)
  /\ UNCHANGED <<todo, lastSubmission, crossed>> /\ OnlyHandlers

\* foldSubmission's event, and the standing a new module id was accepted with.
SubmissionAccepted(r, h) ==
  LET g == h.g
  IN  /\ h.step = "validating" /\ Valid(h) /\ (h.existing \/ Eligible(r))
      /\ lastSubmission' = IF h.existing THEN lastSubmission
                           ELSE [lastSubmission EXCEPT ![r] = Standing(r)]
      /\ GoesOn(r, h, Adding(r, g,
           IF h.existing THEN [type |-> "module-update", id |-> g.id, code |-> g.code]
           ELSE [type |-> "module-register", id |-> g.id, code |-> g.code, author |-> r,
                 economics |-> h.economics]))
      /\ UNCHANGED <<todo, crossed>> /\ OnlyHandlers

ModuleAdded(r, h, id) ==
  h.g.do = "submit" /\ Added(r, h, id, {<<"module", h.g.id>>})

-----------------------------------------------------------------------------
(* What modules post                                                       *)

(* postCausalEvent, from a frame that is in the document: any event, in    *)
(* the name of the page's domain.                                          *)
Post(r, g) ==
  /\ g.do = "post" /\ \E n \in Runs : frame[r][n] = "mounted" /\ ran[r][n] = g.from
  /\ Does(r, g)
  /\ running' = [running EXCEPT ![r] = @ \cup {Adding(r, g, [domain |-> r] @@ g.payload)}]
  /\ UNCHANGED <<lastSubmission, crossed>> /\ OnlyHandlers

Posted(r, h, id) == h.g.do = "post" /\ Added(r, h, id, {})

-----------------------------------------------------------------------------
(* The runner and the desktop                                              *)

RunsIt(r, m) ==
  /\ \E n \in Runs : (\A k \in 1 .. (n - 1) : frame[r][k] # "none") /\ Run(r, n, m)
  /\ UNCHANGED <<content, dag, handling, local, desk, shown>>

\* A tile of the desktop, or a row of the open folder, which is above the runner.
RunModule(r, g) ==
  /\ g.do = "run" /\ g.id \in Catalog(r) /\ Does(r, g)
  /\ \/ g.id \in rows[r]
     \/ Clickable(r) /\ \E item \in Range(shown[r].layout) : item.folder = NoFolder /\ g.id \in Range(item.modules)
  /\ RunsIt(r, g.id)

ModuleLoads(r) ==
  /\ \E n \in Runs : LoadFails(r, n) \/ Mounts(r, n)
  /\ UNCHANGED <<content, dag, todo, handling, local, desk, shown>>

CloseRunner(r) ==
  /\ folder[r] = NoFolder /\ Stop(r)
  /\ UNCHANGED <<content, dag, todo, handling, local, desk, shown>>

Arranged == UNCHANGED <<content, dag, hostVars, handling, local, shown>>

\* The catalog's button: togglePin.
Pin(r, g) ==
  /\ g.do = "pin" /\ Clickable(r) /\ g.id \in Catalog(r) /\ Does(r, g)
  /\ layout' = [layout EXCEPT ![r] = TogglePin(@, g.id)]
  /\ pinned' = [pinned EXCEPT ![r] = IF g.id \in @ THEN @ \ {g.id} ELSE @ \cup {g.id}]
  /\ UNCHANGED <<folder, rows>> /\ Arranged

(* Tile i is dropped on tile j: their places when rendered, in the layout  *)
(* of now.  A folder is new: the code draws its id.                        *)
Drop(r, g, i, j) ==
  /\ g.do = "drop" /\ Clickable(r) /\ Does(r, g)
  /\ i # j /\ {i, j} \subseteq DOMAIN shown[r].layout
  /\ LET new == 1 + Max({NoFolder} \cup Folders(layout[r]) \cup Folders(shown[r].layout))
         target == IF Indexed(layout[r], j) THEN layout[r][j].folder ELSE NoFolder
     IN  layout' = [layout EXCEPT ![r] =
           IF target # NoFolder THEN MergeIntoFolder(@, i, target)
           ELSE CreateFolderFromDrop(@, i, j, new)]
  /\ UNCHANGED <<folder, rows, pinned>> /\ Arranged

RowsOf(items, f) == UNION {Range(item.modules) : item \in {i \in Range(items) : i.folder = f}}

(* A tile that was rendered, and what its folder holds now.  A folder that *)
(* is gone is left out: the panel has the rows it had last, and no folder. *)
OpenFolder(r, f) ==
  /\ Clickable(r)
  /\ f \in Folders(shown[r].layout) \cap Folders(layout[r])
  /\ folder' = [folder EXCEPT ![r] = f]
  /\ rows' = [rows EXCEPT ![r] = RowsOf(layout[r], f)]
  /\ UNCHANGED <<todo, layout, pinned>> /\ Arranged

CloseFolder(r) ==
  /\ folder[r] # NoFolder
  /\ folder' = [folder EXCEPT ![r] = NoFolder]
  /\ rows' = [rows EXCEPT ![r] = {}]
  /\ UNCHANGED <<todo, layout, pinned>> /\ Arranged

\* A row of the open folder's panel is put back on the desktop.
Eject(r, g, m) ==
  /\ g.do = "eject" /\ m \in rows[r] /\ Does(r, g)
  /\ layout' = [layout EXCEPT ![r] = EjectFromFolder(@, folder[r], m)]
  /\ UNCHANGED <<folder, rows, pinned>> /\ Arranged

\* Mutant: the panel of a folder that is gone stays open.
Render_KeepsPanel(r) ==
  /\ shown' = [shown EXCEPT ![r] = Present(r)]
  /\ shown' # shown
  /\ UNCHANGED <<content, dag, hostVars, todo, handling, local, desk>>

\* renderAll, at the end of a handler or at any other's: an emptied folder is closed.
Render(r) ==
  /\ shown' = [shown EXCEPT ![r] = Present(r)]
  /\ shown' # shown
  /\ folder' = [folder EXCEPT ![r] = IF @ \in Folders(layout[r]) THEN @ ELSE NoFolder]
  /\ rows' = [rows EXCEPT ![r] = IF folder[r] = NoFolder THEN {} ELSE RowsOf(layout[r], folder[r])]
  /\ UNCHANGED <<content, dag, hostVars, todo, handling, local, layout, pinned>>

-----------------------------------------------------------------------------

\* advanceCadence, as far as this module can tell.
Advance(r, g) ==
  /\ g.do = "advance" /\ Clickable(r) /\ Does(r, g)
  /\ epochs' = [epochs EXCEPT ![r] = @ + 1]
  /\ UNCHANGED <<content, dag, hostVars, handling, formula, desk, shown>>

\* The user waits for all that is going on.
Wait(r, g) ==
  /\ g.do = "wait" /\ running[r] = {} /\ Loading(r) = {} /\ shown[r] = Present(r) /\ Does(r, g)
  /\ UNCHANGED <<content, dag, hostVars, handling, local, desk, shown>>

Sync(r, s) ==
  /\ dag[r] # dag[s]
  /\ MergeBothWays(r, s)
  /\ UNCHANGED <<hostVars, todo, handling, local, desk, shown>>

(* The page is closed and the wallet unlocked again: the handlers are      *)
(* gone, submissionState and the choice of a formula; the tip is the end   *)
(* of the whole order.                                                     *)
Reload(r, g) ==
  /\ g.do = "reload" /\ Does(r, g)
  /\ Restart(r)
  /\ running' = [running EXCEPT ![r] = {}]
  /\ lastEventId' = [lastEventId EXCEPT ![r] = Last(TopoOrder(r))]
  /\ lastSubmission' = [lastSubmission EXCEPT ![r] = None]
  /\ folder' = [folder EXCEPT ![r] = NoFolder]
  /\ rows' = [rows EXCEPT ![r] = {}]
  /\ shown' = [shown EXCEPT ![r] = Present(r)]
  /\ formula' = [formula EXCEPT ![r] = Genesis]
  /\ UNCHANGED <<content, dag, told, crossed, epochs, layout, pinned>>

UserStep(r) ==
  \E g \in Range(todo[r]) :
    \/ Mint(r, g) \/ Choose(r, g) \/ Burn(r, g) \/ Submit(r, g) \/ Post(r, g) \/ Advance(r, g) \/ Wait(r, g)
    \/ RunModule(r, g) \/ Pin(r, g) \/ Reload(r, g)
    \/ \E i, j \in DOMAIN shown[r].layout : Drop(r, g, i, j)
    \/ \E m \in rows[r] : Eject(r, g, m)

HandlerStep(r) ==
  \E h \in running[r] :
    \/ BurnFails(r, h) \/ BurnVerified(r, h)
    \/ SubmissionBuilt(r, h) \/ SubmissionRefused(r, h) \/ SubmissionAccepted(r, h)
    \/ \E id \in Ids : Minted(r, h, id) \/ IdentityAdded(r, h, id)
                        \/ ModuleAdded(r, h, id) \/ Posted(r, h, id)

Next ==
  \E r \in Replicas :
    \/ UserStep(r)
    \/ HandlerStep(r)
    \/ ModuleLoads(r) \/ CloseRunner(r) \/ Render(r)
    \/ CloseFolder(r) \/ \E f \in Folders(shown[r].layout) : OpenFolder(r, f)
    \/ \E s \in Replicas : Sync(r, s)

Spec == Init /\ [][Next]_vars

-----------------------------------------------------------------------------

\* What handlers write of what users do.
Payload ==
  LET acts(do) == {g \in UNION {Range(v[r]) : v \in Visits, r \in Replicas} : g.do = do}
  IN  [type : {"genesis"}, domain : Replicas]
        \cup {[type |-> "formula-register", id |-> g.id, params |-> g.params, by |-> r] :
              g \in acts("mint"), r \in Replicas}
        \cup {[type |-> "identity-register", domain |-> r, signature |-> <<r, g.slot>>,
               burned |-> g.lamports, slot |-> g.slot] : g \in acts("burn"), r \in Replicas}
        \cup {[type |-> "module-update", id |-> g.id, code |-> g.code] : g \in acts("submit")}
        \cup {[type |-> "module-register", id |-> g.id, code |-> g.code, author |-> r,
               economics |-> e] : g \in acts("submit"), r \in Replicas,
                e \in {None} \cup {[backed |-> b] @@ g.economics : b \in BOOLEAN,
                                      g \in {s \in acts("submit") : s.economics # None}}}
        \cup {[domain |-> r] @@ g.payload : g \in acts("post"), r \in Replicas}

TypeOK ==
  /\ DagTypeOK(Payload) /\ HostTypeOK
  /\ lastEventId \in [Replicas -> Ids] /\ \A r \in Replicas : lastEventId[r] \in dag[r]
  /\ \A r \in Replicas :
       /\ \A h \in running[r] :
            /\ h.step \in {"broadcasting", "hashing", "validating", "adding"}
            /\ h.step = "adding" => h.event \in Event(Payload) /\ h.event.parents \subseteq dag[r]
       /\ lastSubmission[r] # None => lastSubmission[r].epochs \in 0 .. epochs[r]
       /\ Range(told[r]) \subseteq dag[r]
       /\ folder[r] = NoFolder \/ folder[r] \in Folders(shown[r].layout)

(* An identity, a formula and a module's author are permanent: what has    *)
(* been rendered as registered still is, whatever was added or merged,     *)
(* unless the same key is registered by an event that neither follows nor  *)
(* precedes it, which a merge may put first.                               *)
FirstRegistrationStands ==
  \A r \in Replicas : LET registered == Registered(r) IN
    \A entry \in shown[r].entries :
      \/ entry \in registered
      \/ \E id \in dag[r] : Key(id) = entry[1] /\ Apart(id, entry[2])

(* What the page has told its user of an identity, a formula or a module   *)
(* is what its own view shows, then and later, until another event on the  *)
(* same key is merged in or follows; unless the user had two burns, or two *)
(* submissions of the module, going on at once, or a burn was below what   *)
(* its slot requires, or what was minted had been minted before.           *)
ToldIsKept ==
  \A r \in {s \in Replicas : DOMAIN told[s] # {} /\ ~crossed[s]} :
    LET above == Ancestors
        modules == Modules(TopoOrder(r))
        registered == Registered(r)
    IN  \A key \in DOMAIN told[r] :
          LET id == told[r][key]
              e == content[id].payload
          IN  \/ IF key[1] = "module"
                 THEN key[2] \in DOMAIN modules /\ modules[key[2]].code = e.code
                 ELSE <<key, id>> \in registered
              \/ \E i \in dag[r] : i # id /\ Key(i) = key /\ i \notin above[id]
              \/ key[1] = "identity" /\ e.burned < RequiredBurnLamports(e.slot)
              \/ key[1] = "formula" /\ (key[2] = Genesis \/ \E i \in above[id] : Key(i) = key)

(* However tiles are dragged, also over a desktop rendered before the last *)
(* change, each module added to it and not removed is there, once, and no  *)
(* folder is empty or shares its id.                                       *)
DesktopKeepsModules ==
  \A r \in Replicas :
    /\ IsInjective(AllModules(layout[r])) /\ Range(AllModules(layout[r])) = pinned[r]
    /\ \A i, j \in DOMAIN layout[r] :
         /\ layout[r][i].modules # << >>
         /\ layout[r][i].folder # NoFolder /\ layout[r][i].folder = layout[r][j].folder => i = j
=============================================================================
