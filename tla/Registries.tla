----------------------------- MODULE Registries -----------------------------
(***************************************************************************)
(* The materialized views that are registries: identities                  *)
(* (identity-cost-reducer.js over identity-cost.js), reward formulas       *)
(* (formula-registry-reducer.js), modules (module-registry-reducer.js over *)
(* module-registry.js) and what modules have published of a domain         *)
(* (public-profile-reducer.js).  Each is a fold over a replica's           *)
(* topoOrder(); a rejected event leaves its view as it was.                *)
(*                                                                         *)
(* An entry keeps the event that made it, by, instead of what it says of   *)
(* names, icons, URLs and dates.  A module's code stands for its hash.     *)
(***************************************************************************)
EXTENDS EventDag, Integers

CONSTANTS Churn,    \* identityChurnConfig: a genesis slot and a linear cost curve, or None
          Genesis,  \* the formula id that nobody may mint
          None      \* null

Type(id) == content[id].payload.type
Domain(id) == content[id].payload.domain

With(reg, k, entry) == [x \in DOMAIN reg \cup {k} |-> IF x = k THEN entry ELSE reg[x]]
Without(reg, k) == [x \in DOMAIN reg \ {k} |-> reg[x]]

Nothing == [x \in {} |-> x]

-----------------------------------------------------------------------------
(* Identities: domain -> the burn that registered it                       *)

LinearCostCurve(slots) == Churn.baseLamports + slots * Churn.lamportsPerSlot

\* What a burn that landed in this slot must be, at least.
RequiredBurnLamports(slot) ==
  IF Churn = None THEN 0 ELSE LinearCostCurve(Max({0, slot - Churn.genesisSlot}))

\* Mutant: a later burn replaces the first.
ApplyIdentity_Again(reg, id) ==
  LET e == content[id].payload
  IN  IF /\ e.type = "identity-register"
         /\ \A d \in DOMAIN reg : reg[d].signature # e.signature
         /\ e.burned > 0 /\ e.burned >= RequiredBurnLamports(e.slot)
      THEN With(reg, e.domain, [signature |-> e.signature, burned |-> e.burned, by |-> id])
      ELSE reg

(* registerIdentityCost: a signature backs one identity, a domain has one, *)
(* and the burn is what its slot requires.                                 *)
ApplyIdentity(reg, id) ==
  LET e == content[id].payload
  IN  IF /\ e.type = "identity-register"
         /\ \A d \in DOMAIN reg : reg[d].signature # e.signature
         /\ e.domain \notin DOMAIN reg
         /\ e.burned > 0 /\ e.burned >= RequiredBurnLamports(e.slot)
      THEN With(reg, e.domain, [signature |-> e.signature, burned |-> e.burned, by |-> id])
      ELSE reg

Identities(order) == FoldLeft(ApplyIdentity, Nothing, order)

HasIdentityCost(r) == r \in DOMAIN Identities(TopoOrder(r))

-----------------------------------------------------------------------------
(* Formulas: id -> the event that minted it                                *)

ApplyFormula(reg, id) ==
  LET e == content[id].payload
  IN  IF e.type = "formula-register" /\ e.id # Genesis /\ e.id \notin DOMAIN reg
      THEN With(reg, e.id, [params |-> e.params, by |-> id])
      ELSE reg

Formulas(order) == FoldLeft(ApplyFormula, Nothing, order)

-----------------------------------------------------------------------------
(* Modules                                                                 *)

\* validateEconomicConfig: a scarcity policy, and for alpha <= 1 an identity cost.
ValidEconomics(economics) == economics.scarcity /\ (economics.alpha > 1 \/ economics.backed)

\* registerModule: open to all, if the id is free and an issuing module consistent.
Register(reg, e, id) ==
  IF e.id \in DOMAIN reg \/ (e.economics # None /\ ~ValidEconomics(e.economics)) THEN reg
  ELSE With(reg, e.id, [author |-> e.author, code |-> e.code, audit |-> "unaudited", by |-> id])

\* Mutant: a verdict outlives the code.
UpdateCode_KeepsAudit(reg, e) ==
  IF e.id \notin DOMAIN reg THEN reg ELSE [reg EXCEPT ![e.id].code = e.code]

\* updateModuleCode: by anybody; any verdict is of another code.
UpdateCode(reg, e) ==
  IF e.id \notin DOMAIN reg THEN reg
  ELSE [reg EXCEPT ![e.id].code = e.code, ![e.id].audit = "unaudited"]

SetAuditStatus(reg, e) ==
  IF e.id \notin DOMAIN reg \/ e.status \notin {"unaudited", "passed", "red-listed"} THEN reg
  ELSE [reg EXCEPT ![e.id].audit = e.status]

ApplyModule(reg, id) ==
  LET e == content[id].payload
  IN  CASE e.type = "module-register" -> Register(reg, e, id)
        [] e.type = "module-update" -> UpdateCode(reg, e)
        [] e.type = "module-audit" -> SetAuditStatus(reg, e)
        [] OTHER -> reg

Modules(order) == FoldLeft(ApplyModule, Nothing, order)

-----------------------------------------------------------------------------
(* Profiles: <<domain, key>> -> value, the last one published              *)

\* A null retracts the key.
ApplyProfile(reg, id) ==
  LET e == content[id].payload
  IN  IF e.type # "module-data-published" THEN reg
      ELSE IF e.value = None THEN Without(reg, <<e.domain, e.key>>)
      ELSE With(reg, <<e.domain, e.key>>, e.value)

Profiles(order) == FoldLeft(ApplyProfile, Nothing, order)

-----------------------------------------------------------------------------

\* What an event makes a claim on, if it is of a registry with one owner a key.
Key(id) ==
  LET e == content[id].payload
  IN  CASE e.type = "identity-register" -> <<"identity", e.domain>>
        [] e.type = "formula-register" -> <<"formula", e.id>>
        [] e.type \in {"module-register", "module-update"} -> <<"module", e.id>>
        [] OTHER -> <<"none">>

\* The registrations that count at r: what they are of, and their event.
Registered(r) ==
  LET order == TopoOrder(r)
      identities == Identities(order)
      formulas == Formulas(order)
      modules == Modules(order)
  IN  {<<<<"identity", d>>, identities[d].by>> : d \in DOMAIN identities}
        \cup {<<<<"formula", f>>, formulas[f].by>> : f \in DOMAIN formulas}
        \cup {<<<<"module", m>>, modules[m].by>> : m \in DOMAIN modules}

Apart(i, j) == i # j /\ i \notin Ancestors[j] /\ j \notin Ancestors[i]

(* "A verdict can never silently apply to a version of the code it was     *)
(* never actually about", as far as causality goes: a module is shown as   *)
(* audited only if no update follows that audit.  And a profile shows what *)
(* was published only if nothing published or retracted under that key     *)
(* follows it.                                                             *)
NothingIsOutlived ==
  \A r \in Replicas :
    LET order == TopoOrder(r)
        modules == Modules(order)
        profiles == Profiles(order)
        Follows(u, a) == a \in Ancestors[u]
        Audits(m) == {a \in dag[r] : Type(a) = "module-audit" /\ content[a].payload.id = m}
        Updates(m) == {u \in dag[r] : Type(u) = "module-update" /\ content[u].payload.id = m}
        Published(k) == {p \in dag[r] : /\ Type(p) = "module-data-published"
                                       /\ k = <<Domain(p), content[p].payload.key>>}
    IN  /\ \A m \in DOMAIN modules : modules[m].audit # "unaudited" =>
             \E a \in Audits(m) : /\ content[a].payload.status = modules[m].audit
                                  /\ \A u \in Updates(m) : ~Follows(u, a)
        /\ \A k \in DOMAIN profiles :
             \E p \in Published(k) : /\ content[p].payload.value = profiles[k]
                                     /\ \A q \in Published(k) : ~Follows(q, p)
=============================================================================
