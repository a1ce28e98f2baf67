# AIWA: a TLA+ model of the ledger, its contracts and the page around it

AIWA is a browser application. Each *domain* (a user's key) writes its own
history into a causal DAG of content-addressed events, keeps that DAG in
IndexedDB, exchanges it with peers, and derives every balance, claim, pool and
module list by folding reducers over one deterministic topological order of the
DAG. There is no server and no consensus: what is correct has to follow from the
DAG, from the reducers, and from handlers that share a few variables across
`await`s. That is what these modules model.

Paths below are relative to `src/public/js/`.

## 1. The parts of the system

| Component | State | Operations | Used by |
|---|---|---|---|
| **Event DAG** `core/event-dag.js` (and `rust-core/src/core.rs`) | `_events: Map id -> event`, listeners | `addEvent` (check parents, await hash, insert, notify), `merge`, `topoOrder` | everything |
| **Persistence** `core/event-dag-persistence.js`, `ledger-bridge.js`, `wasm-ledger-adapter.js` | one IndexedDB store per domain | `createPersistedLedger` (load, sort, replay, subscribe), `persistEvent` | `main.js` on unlock |
| **Conservation** `core/conservation/conservation.js` | claims with a status, consumed proof ids | `issueClaim`; `deactivate`, `proveTransfer`, `verify`, `consume`, `activate`; `transfer` | the bridge |
| **Conservation bridge** `core/conservation/conservation-bridge.js` | none (a fold) | `claim-issue`, `transfer`, `pot-release` events | `materializeConservation` |
| **Economics** `core/economics/*` | none (a fold): cadence chain, balances, budget used, rejections | `cadence`, `accrual`, `claim-issue` events; reward curve, scarcity clamp, VDF | `materialize` |
| **Domain replica** `app/main.js` | `genesisId`, `lastEventId`, `lastCadenceId`, `epoch`, `pending`, `committedForeignEventIds` | `advanceCadence`, `postReceptionCommitment`, `commit`, `claim`, `sendAiwa`, plugin `transferClaim`, `restoreTipsFromDag`, sync | buttons and plugins |
| **Delay-tolerant transport** `core/transport/delay-tolerant-transport.js` | a FIFO per peer and one for broadcasts | `send` (queue, then attempt), `flush` | plugins' messages |
| **Reception cadence** `core/reception-cadence.js` | none (a fold): highest epoch seen of each source | `reception-commit` events | `advanceCadence` writes them |
| **Pools, contracts** `core/pool/`, `core/generic-contract-reducer.js`, `core/causal-condition-evaluator.js`, `src/examples/jackpot-plugin/jackpot.js` | none (folds) | mint, contribute, draw, release, with proofs that are recomputed | two-pass `materializeConservation`, plugins |
| **Identity** `core/identity/*` | none (a fold) over Solana burns | burn, fetch back, register; the cost curve | minting, eligibility of modules |
| **Formula registry** `core/economics/formula-registry-reducer.js` | none (a fold); `activeFormulaId`, a local choice | mint, choose | rewards and ranks |
| **Modules** `core/modules/*` | registry (a fold), `submissionState`, the frame that is mounted and its handle | submit, update, audit, run, stop | the plugin host in `main.js` |
| **Desktop, profiles** `core/desktop/desktop-layout.js`, `core/profile/public-profile-reducer.js` | a layout in localStorage; a fold | pin, drag, eject; publish, retract | `main.js` |
| **Watchdog, AI, themes** | small local state | | UI |

### How they interact

A button or a plugin calls a handler of the replica. The handler reads the tips,
calls `dag.addEvent(parents, payload)`, which *awaits* the hash, and writes the
tips when it resumes. `addEvent` and `merge` notify the subscriber installed by
the persistence layer, which starts a write that nobody waits for. A sync is two
`merge` calls with no await in between. Views are recomputed from `topoOrder()`
whenever they are needed, and no view is stored. On unlock, the DAG is replayed
from the store and the tips are guessed from it.

### What is hard

* **Handlers interleave at every await.** No button is disabled while a handler
  is in progress, and plugins call the same handlers.
* **The fold order is not the order of events.** `topoOrder` visits ids in hash
  order, so an event without a causal relation to another may be folded before
  or after it, and a new event may be folded before old ones.
* **Writes are per event and unawaited.** Tabs close, writes fail, and two tabs
  of one wallet share a store without knowing of each other.
* **The pipeline of a transfer is five exported functions,** any of which may be
  the last one a caller gets to.
* **The transport's queues are changed by `send` and `flush` while either waits**
  for the network.
* **A payout is nobody's decision.** A release counts if a fold over the whole
  history, done again by every replica and in two passes that know different
  things, finds it justified; late events change what was found before.
* **What the user is told and clicks on is older than the state.** A handler's
  success message, a disabled button, the places of tiles and the eligibility of a
  submission are all read before an await or a render and used after it.

`PROJECT.json` lists every such hazard at its line.

## 2. The modules

| Module | Models |
|---|---|
| `ClaimLedger` | abstract: an issued claim has one holder and one amount; a transfer changes the holder |
| `Conservation` | `conservation.js`, with concurrent callers that crash and retry; implements `ClaimLedger` |
| `ConservationProofs` | its theorems |
| `DelayTolerantTransport` | `send` and `flush`, one action per stretch between awaits |
| `TransportProofs` | its theorems |
| `EventDag` | ids, `addEvent` in its two halves, `merge`, `topoOrder`; used by all that follow |
| `RecursionProofs` | definitions by recursion on sets and numbers, folds and sums: what the other proofs take from them |
| `EventDagProofs` | ancestors, growth of a DAG, and the order `topoOrder` gives |
| `LedgerPersistence` | tabs, peers in their memory, the store, replay, failing writes |
| `LedgerPersistenceProofs` | its theorems |
| `DomainLedger` | the replica's handlers, its tips, reload, and the two folds G and Conservation |
| `ReceptionCadence` | the fold of the reception commitments that `DomainLedger` writes |
| `DomainLedgerProofs` | theorems about the two |
| `PoolLedger` | pool, contract and condition evaluation; the two passes of Conservation; the plugins that use them: the jackpot, an escrow, or a jackpot with a contract beside it |
| `PoolLedgerProofs` | its theorems |
| `Registries` | the folds of identities, formulas, modules and profiles |
| `DesktopLayout` | the layout's operations on a sequence |
| `PluginHost` | the plugin runner: overlay, frames, handle; an abstract specification of its own |
| `PluginPage` | the page of a domain: handlers that burn, mint, submit and post, the runner, the desktop; composes the three above over `EventDag` and implements `PluginHost` |
| `PluginPageProofs` | theorems about the page: its state, what is registered, shown and told, the desktop, and the runner it implements |
| `MC*` | instances for TLC |

Operators named `X_Suffix` next to a definition `X`, with a comment that starts
with "Mutant", are versions of `X` with a plausible bug. No specification uses
them; each property has one that must violate it when it replaces `X`.

### Conventions

* **An action is the code between two awaits.** JavaScript runs nothing else in
  between, so nothing finer is needed, and nothing coarser is assumed. Awaits of
  signing and of the VDF that follow one another with no state in between are
  merged with the await of the hash. `flush()` from one `sendFn` to the next is
  one action (`FlushReturns`), although it crosses queues.
* **Ids** (`EventDag`). A SHA-256 is a number in `1 .. MaxId`. It is chosen when
  an event is first hashed, is the same at every replica after that, and never
  stands for two contents. Its order is the order of the hashes, so every
  relation of hash order to causal order is explored. The order in which an event
  names its parents is not kept; `topoOrder` visits them in hash order in the
  Rust core, and in either order it emits parents first.
* **`inserted`** (`LedgerPersistence`) is the insertion order of a JavaScript Map,
  as a set of pairs. It matters because `merge` copies events in that order,
  and so it is the order of the store's writes too. As a set it is also what the
  proofs need: no index arithmetic.
* **A failed write** is one that leaves nothing in the store, with an error or,
  for a transaction that aborts at commit, without one.
* **Claim ids.** In `Conservation` and in `DomainLedger` the id of a claim is what
  made it: the root, and a hop for each transfer. The code concatenates the same
  parts into a string; injectivity is all that is used.
* **Worth.** `DomainLedger` leaves out b, T and the curve: a commitment is worth
  the epochs it has waited, nothing below `MinQ`, and never more than is left of
  the budget. `main.js` gives every domain an unlimited budget (`null`), which is
  what `Budget = 6` is within the bounds; `domain_ledger` checks `scarcity.js` with
  a budget that runs out, which `theta.budgets` provides for.
* **A post of a plugin** (`PoolLedger`) reads the tip, hashes and sets the tip in
  one step: nothing else of that domain runs there, and a merge in between only adds
  events. A plugin *call* is several posts, with other domains and merges between.
  Two handlers of one page that overlap are the subject of `DomainLedger` and
  `PluginPage`.
* **The jackpot's claim** was issued beforehand: `createClaim` and the balance it
  needs are `DomainLedger`'s `SendStarts`. A claim's id is its owner and the
  addresses it went to.
* **Amounts** in `PoolLedger` are in half units, so that a contribution may be
  below the price of a ticket. `DrawHash` may be any function: the draw of the code
  is a hash of the pool, the cycle and the contributions.
* **Registry entries** keep the event that made them, `by`, in place of names, icons
  and URLs: it is what tells two registrations of one key apart. A module's code
  stands for its hash, so that loading verified code fails or does not.
* **What is rendered** (`shown`) is a copy of what `renderAll()` last drew. Clicks
  refer to it, and the handlers then act on the state of now.
* **History variables** never influence a step: `consumptions`, `left`,
  `overlapped`, `failed`, `forked`, `raced`, `told`, `crossed`, `crowded`, `pinned`.

### State and actions, by module

**Conservation.** `claims` and `consumed` are the code's state. `proofs` are the
proofs `proveTransfer` has returned and anybody may hold; `stage` and `held` are
where each caller is in the pipeline. `Crash` is a caller that stops between two
steps. `Retry` is one that comes back with a proof, to verify it again or, if it
is consumed, to activate it. `Deactivate` does not look at the owner, and a
throw later leaves the claim deactivated, as in the code.

**DelayTolerantTransport.** `queues` and `opened` are the code's Map and
broadcast array. `sending` and `flushing` are the calls that await `sendFn`. `sendFn`
settles in an action of its own (`SendSettles`, `FlushLeaves`, `FlushFails`), and
the caller resumes in another: between them the message has left, but the queue
still holds it.

**LedgerPersistence.** A tab opens (`Open`, or `OpenFails`), adds events (`Add`,
`Added`), syncs with a test peer that lives in its page (`Sync`), has its writes
settled (`WriteCompletes`, `WriteFails`) and closes (`Close`), which is also a
crash. A write may be outstanding when it does.

**DomainLedger.** `running[h]` is a handler in progress: what it awaits, and what
it must still do. `CadenceStarts/CadenceAdded/ReceptionStarts/ReceptionAdded` are
`advanceCadence` with its reception commitment; `ClaimStarts/AccrualAdded` is the
loop of `claim`; `SendStarts/IssueAdded/TransferAdded` is the send button with
`sendAiwa`; `TransferStarts` is a plugin's `transferClaim`. `MaterializeG` and
`MaterializeConservation` are the folds. `Reload` assumes that the whole DAG is
back, which `LedgerPersistence` shows to hold unless a write was lost.

**ReceptionCadence.** `ApplyReception` is `applyReceptionCommitEvent`: the
references must be known, and the epoch of their domain that each stands for
(`SourceEpoch`, the latest cadence event of that domain before it) must not be
lower than one reported earlier. It is folded over the histories `DomainLedger`
produces, in which a reload forgets what was reported and reports it again.

**PoolLedger.** `ApplyPool` is the pool's reducer, `VerifyPoolPayout` and
`VerifyGenericRelease` the two verifiers, `EvaluateCondition` the evaluator with
every connective and leaf. A condition is the sequence of its parts, each after
those it is made of; the code's is a tree, and evaluating the parts in turn gives
what the code's recursion gives. `Conservation(r)` is `materializeConservation()`: a
first fold that rejects every release (`Provisional`), the pool judged by it, and
a second fold that checks releases by that pool and by its own claims so far.
`Donates`, `DonationGoesOn` and `Contributes` are `donate()` of the jackpot from
one post to the next; `PayoutStarts` and `PayoutGoesOn` are `attemptPayout()`,
which takes a list of the closed cycles once and asks for each draw when its turn
comes. `ContractStep` is a contract. An escrow is one as the tests use it: mint, deposit,
approve, release of what it holds. In the plugin `both` a contract is minted beside a
pool, and any domain may ask it to release any claim, the pot's or a domain's:
`postCausalEvent` takes every event, and `main.js:364` accepts a release if either
verifier does.

**PluginPage.** `running[r]` are the handlers of a page that await something.
`Burn/BurnFails/BurnVerified/IdentityAdded` are `registerIdentityViaBurn`;
`Mint/Minted` are `mintFormula`, and `Choose` is the choice of a formula;
`Submit/SubmissionBuilt/SubmissionRefused/SubmissionAccepted/ModuleAdded` are
`submitPluginCode`, whose awaits are the hash of the code, the signature and the
event's hash; `Post/Posted` are `postCausalEvent` of a mounted module. `RunModule`,
`ModuleLoads` and `CloseRunner` drive `PluginHost`. `Pin`, `Drop`, `OpenFolder`,
`CloseFolder` and `Eject` are the desktop's gestures, `Render` is `renderAll()`,
`Reload` ends every handler and guesses the tip. `rows` is the panel of the open folder,
drawn from the layout of that moment. `told` records, of each key, the event of which the page last
said that it succeeded; a mint of an id that was taken is among them, because the page says
so of it too.

## 3. What is checked

| Run | Instance | Result |
|---|---|---|
| `conservation` | one issued claim, two owners, two amounts, three callers, three hops | holds |
| `transport` | one peer and broadcast, three messages, one send and two flushes at once | holds |
| `transport_lost` | the same | `NoMessageLost` violated |
| `persistence` | two tabs on one store, a peer, three events, one failed write | holds |
| `persistence_hole` | the same | `OpenNeverFails` violated |
| `domain_ledger` | two domains, one handler at a time, six events (eight if no value moves), one reload | holds |
| `domain_overlap` | one domain, two handlers at once, six events | holds |
| `over_issue` | one domain, two handlers, five events | `ClaimsAreBacked` violated |
| `restored_tips` | two domains, four events, one reload | `OwnHistoryIsChain` violated |
| `pools` | two domains; a jackpot with cycles of length 1 or 2, an escrow with one of three conditions, or a jackpot with a contract beside it; 6 to 9 events, one or two payouts | holds |
| `pools_beside` | the last of these alone | `OnlyTheDrawPays` violated |
| `page` | two users, one of 15 visits, seven events, three runs a page | holds |

### The properties

* `NoDoubleConsume`, `ValueConserved`, `ChainOfCustody`, `ClaimsOnlyProgress`:
  a claim is spent once, its value always sits in exactly one live descendant,
  every owner got it from the previous one, and what is spent stays spent.
  `ImplementsClaimLedger` says the same from outside.
* `RemovalsArePaidFor` holds whatever overlaps: a queue never loses more messages
  than departures to its peer. Which message is lost or doubled is another
  matter: `LossNeedsOverlap` and `DuplicateNeedsOverlap` say when that can happen,
  and `FlushKeepsOrder` that order survives it all the same.
* `CausalOrder`, `OpenMemoryIsDurable`, `HoleNeedsFailedWrite`, `ReopenRestores`:
  crashes and second tabs alone never leave a store that cannot be opened, or that
  comes back incomplete. `TopoOrderIsCausal`: the fold order is causal in spite of
  hash order. `EventuallyStored`: a peer's events reach the store.
* `ForkNeedsOverlap`, `RejectionNeedsOverlap`, `CadenceTipsAgree`: a domain's history
  is one chain ending at `lastEventId`, reducers accept all a domain wrote, and
  the tips in memory are those a fold would give, unless handlers overlapped or
  a reload guessed. Each says precisely which overlap is to blame.
* `ViewsBalance`: G and Conservation are folded separately and never meet, yet
  balances plus claims are worth what was issued, up to the claims G rejected.

* `HonestReceptionsAccepted`: a domain that follows the protocol is never rejected
  as going backwards, at any replica and in any order of merging, unless its chain
  has forked. That includes what it reports again after a reload that restored its
  tips; a reload that guessed them wrong, or two handlers at once, may fork the chain, and of
  what is reported then the property says nothing.
* `CyclesAreExact`, `PrizesGoToWinners`: in every view the cycles are filled in turn,
  and a claim leaves the pot only for the winner of the full cycle it belongs to, or as
  a release of exactly that claim to that domain asked of the contract. It never leaves by a transfer, for
  an open cycle, by the draw of another cycle or one that changed since, or by a
  contract the view does not know. That the contract may take it at all is the
  disagreement that `OnlyTheDrawPays` states.
* `DonationsCounted`, of a pool with no contract beside it: a donation counts in every view it reaches. It names the three
  cases in which the code fails to: the donor did not know of the pool and minted it
  again; two claims of one amount were in the pot and the plugin named the wrong
  one; the donation was a prize, which the first of the two passes does not know.
* `PaidStaysPaid`, likewise: what one domain sees as paid, one that knows more sees as paid
  too. It fails, as stated, for a release that does not descend from its deposit, a
  condition with a negation, contributions that arrive late but are folded early, and
  an escrow that somebody else releases to another domain: the conditions name no
  payee, so of two releases of one deposit the first in the order wins, and a later
  event may come first. (The run's escrows are released too few times to meet the last
  case; an attempt at a proof met it, and TLC finds it with a third domain.)
* `FirstRegistrationStands`: a registration that was rendered stays, unless one of
  the same key that is causally unrelated to it is merged in and comes first.
* `NothingIsOutlived`: no module is shown as audited after an update that follows
  the audit, and no profile shows a value that was retracted after it. An update that neither
  follows nor precedes the audit is excused (section 6).
* `ToldIsKept`: what the page has called a success is what its own view shows, from
  then on, unless another event on the same key came, the user had two burns or two
  submissions of one module going on at once, burned too little, or minted an id that had
  been minted. `crossed` records the second; the code does nothing to prevent it between two renders.
* `ClosedMeansStopped`: what runs is what the overlay shows, and closing it stops it,
  unless a module was run or closed while one was loading (`crowded`). In that case
  the code loses the handle of a frame that goes on running.
* `DesktopKeepsModules`: drops and ejects that refer to a desktop rendered earlier
  never lose or double an icon, empty a folder or open two with one id.

### Bounds, and why they are enough

* `conservation`. Three callers are needed for a race on one claim with a third
  party retrying an old proof; three hops let a claim return to its first owner and
  leave again. More roots are independent of each other.
* `transport`. The bad overlaps need two messages on one key and two calls; the
  third message lets a flush go on behind them. A second peer adds only another
  independent queue; the order of queues is exercised by the broadcast queue.
* `persistence`. A hole needs an event, a child of it and a store between them; the
  third event lets the peer's copy of the order differ from the tab's.
* `MaxEvents` bounds the different events. In `domain_overlap` six are a genesis,
  cadence, reception commitment, accrual, claim-issue and transfer: the longest
  path to a claim that changes hands, with a second handler free throughout. In
  `domain_ledger` both domains have a genesis, so that the transfers checked there
  are those after a reload that interrupted a cadence.
* `EitherEnd` and `NoGaps` (the runs over `DomainLedger`, `PoolLedger` and
  `PluginPage`): a new event hashes above all others or below all others, and below
  at most `MaxId - MaxEvents` times. This is the difference that matters to the fold, whether a new event
  comes first or last among those it is not related to. A hash in the middle is left
  out there; `persistence` explores all of them.
* `MaxPending = 1`, `Amounts = {1}`: more commitments at once are a longer loop of
  accruals, and nothing compares amounts but with the balance. With `Budget = 1`
  one epoch uses up the budget, and what is earned beyond it meets the clamp.
* `pools`. The events of a script are what its longest story needs: a jackpot of
  two needs a mint, two gifts with their contributions and two releases beyond the two
  claims; an escrow a mint, a deposit, approvals and a release, twice where a second
  release could matter; a pool with a contract beside it two mints, a gift with its
  contribution, and one release of each kind beyond the claims. A second payout of the jackpot only repeats releases that
  the first posted. `low` says how many events may hash below the others. The three
  conditions contain every connective and every leaf, but for the draw, which the
  pool's own condition has, and `unique`, which a nonce that is checked first makes
  always true.
* `page`. What the users do is scripted (`Visits`), one theme a visit, because all
  gestures in any order are far too many; the interleaving with handlers, loads,
  renders, merges and folders is not. `Pause` in a script waits for what is going on: it
  shortens a script's prologue and is no claim about users. Three runs let a
  third meet what the second left behind. What an accrual is worth is not needed:
  `Rank` rewards burning and patience under the genesis formula, and nothing under another, so
  that changing the formula changes eligibility.
* Symmetry is used where the members of a set are interchangeable (callers,
  handlers, domains) and no liveness property is checked.

### Fairness

* Transport: a `sendFn` that is outstanding settles and its caller resumes (the
  code awaits nothing else); `flush()` is called again while something is queued,
  which is what a contact window is; and a message attempted again and again on
  one key gets through once (strong fairness of `FlushLeaves`). Without the last,
  a peer never reachable keeps its messages queued for ever, as it should.
* Persistence: IndexedDB settles what it is asked, and the user keeps reconciling
  with a peer. Nothing is assumed about tabs: one that closes for good is
  excused by the property.
* `DomainLedger`, `PoolLedger` and `PluginPage` have no fairness and no liveness
  property: every step is a user's, a plugin's or the network's, and nothing
  obliges any of them. A payout in particular is a button.

`CHECK_DEADLOCK FALSE` is set where the bounds let the system stop: no messages,
events, gestures or reloads left.

## 4. What is proved

With TLAPS, for every value of the constants.

**`ConservationProofs`** (assumes nothing of the constants).

* `TypeCorrect`, `AtMostOneConsume` (`NoDoubleConsume`), `Conserved`
  (`ValueConserved`), `Refinement` (`ImplementsClaimLedger`).
* None of them is inductive: `activate` does not check that its source is still
  deactivated, only that the destination id is unused, and two proofs of one claim,
  to two receivers, would both get through. The inductive invariant `IInv` says
  why there are never two. `deactivate` takes a claim out of `active` once, so one
  caller is alone with it until it has proved (`ProverAlone`), and there is one
  proof of a claim at most (`OneProofPerClaim`), which speaks the truth about the
  claim's owner and amount (`ProofsOK`). Hence a claim is spent exactly when its
  proof has been activated (`SpentByActivation`), and each lineage has one live
  claim (`OneLive`, `SomeLive`) of the issued amount (`LineageOK`).
* `NothingComesBack` (`ClaimsOnlyProgress`) follows from the same invariant, action
  by action: `activate` writes a claim only if its id is unused. `Custody`
  (`ChainOfCustody`) needs one conjunct more, `ReceiversOwn`: the claim a proof
  activated belongs to the receiver the proof names. The owner of the source is then
  the proof's sender, because `ProofsOK` says so and no step re-owns a claim.
* The refinement then maps each step of the pipeline to a stutter, except
  `IssueClaim` and a successful `Activate`.

**`RecursionProofs` and `EventDagProofs`** (assume `DagAssumption`).

* The library's induction theorems are out of reach (they take an operator as a
  parameter), and a recursive function says of itself only that it is a `CHOOSE`.
  `RecursionProofs` gets by without either: a property that fails for some set or
  number fails for a least one, which is a statement about sets. From this follow
  that a definition by recursion on the finite sets or on `0 .. n` has the value its
  equation gives (`Recursion`, and its like for sets), that what holds first and is
  kept by each step of a fold holds along it (`FoldKeeps`), that a
  fold defined by such a recursion exists (`FoldExists`), and how the community modules' sums change
  with one entry.
* `TopoOrderCausal`: `topoOrder` of any DAG whose events name earlier parents lists
  each known event once, after its parents. It is proved about `DepthFirst` by
  induction over the set of what is still to be visited: whatever the hashes,
  an event's visit emits its unvisited ancestors and itself, and nothing else.

**`LedgerPersistenceProofs`** (assumes `PersistenceAssumption` and
`DagAssumption`).

* `TypeCorrect`, `CausallyOrdered` (`CausalOrder`), `AccountedFor`
  (`OpenMemoryIsDurable`), `HolesAreFailures` (`HoleNeedsFailedWrite`).
* `HoleNeedsFailedWrite` is not inductive: when a write completes, why are the
  parents of the event stored? Because within a tab they came earlier in the
  Map, so were asked for earlier; IndexedDB took them first; and each was then stored
  or failed. So `IInv` has `CausalOrder` (parents are earlier in the Map),
  `OpenMemoryIsDurable` (what is in memory is stored, failed or being written), and
  that only open tabs have memory. With these three a write first in line has its
  parents in the store or failed, whatever other tabs do.
* `OrderIsCausal` (`TopoOrderIsCausal` in every reachable state) and `ReopenRestored`
  (`ReopenRestores`, for the JavaScript backend: `Backend = "js"` is its
  hypothesis): the replay sorts the store by `topoOrder`, so each event meets its
  parents, and the fold that replays them refuses none.

**`DomainLedgerProofs`** (assumes `LedgerAssumption` and `DagAssumption`): any domains,
any number of handlers at once and of reloads.

* `TypeCorrect` (`TypeOK`) by `BaseInv`: a reload takes the tips from a fold, so that
  they are known events is already a fact about `topoOrder`.
* `HistoryIsChain` (`ForkNeedsOverlap`). `ForkInv` says of a domain that never had
  two handlers at once or a guessed tip that its own events form one chain
  (`OneChain`) which ends in `lastEventId`, or in what the only handler awaits.
* `TipsFollowCadence` (`CadenceTipsAgree`) and `RejectionExplained`
  (`RejectionNeedsOverlap`). `CadenceInv` says that a domain's cadence events
  are one for each epoch, each naming the one before (`CadenceChain`), that the tips are the
  last of them (`CadenceTip`), and that what handlers await fits on top
  (`CadenceCalls`). It is a statement about the DAG, without a fold. That every
  replica's fold then accepts them, whatever else its order puts in between, is an
  induction along the order. `PaidInv` does the same for money: each event of a
  domain's chain has a worth that follows from the events below it alone
  (`Valued`), and each issue is covered by it (`Covered`). Since `topoOrder` emits
  the chain in order, the fold's balance of a domain at each point is the worth of
  the top of its chain so far (`IsTop`), so the balance the send button
  checked is the balance every reducer finds.
* `Balanced` (`ViewsBalance`): both folds are followed side by side along the order, with the
  sum of each kept in step. It needs `NumbersOnce`: no two issues have the same claim
  id, neither in the DAG nor about to be written.
* `OrderIsCausal` as above.
* `NeverBackwards` (`HonestReceptionsAccepted`), in two inductions. The first is over the
  handlers' steps. `ReportInv` says of a domain that never forked that what it has
  reported is in `committedForeignEventIds`, that this set has all that is
  foreign and behind its members (`Whole`) and still has with what a handler is about
  to report, and that no report names what an earlier one named or what is behind
  that (`Onward`). A merge adds whole histories, so `NewForeign` keeps it whole; two
  handlers at once would not, and a reload empties the set, which is why the domain must
  not have forked.
* The second is along the fold. What a view holds a domain to, of a source, is what
  an earlier report of it resolved to (`Reported`). A later report names a later
  event of that source's chain (`LaterIsFurther`), and along a chain the epoch an
  event stands for never goes down (`EpochGrows`, which rests on `CadenceChain`).

**`PoolLedgerProofs`** (assumes `PoolAssumption`, `PluginAssumption` and `DagAssumption`;
every theorem has the hypothesis `HashIsNumber`, that `DrawHash` of a cycle's contributions is
a natural number: TLC cannot evaluate it as an assumption, since it is about all sequences): any domains,
purses, prices, cycle lengths and conditions.

* `PoolTypeCorrect` (`TypeOK`) by `BaseInv`. A plugin writes what it found in a view, so
  its events have their shape only if views do: a release names a claim, a cycle and a
  winner that the folds returned. `BaseInv` says what each type of event says of its
  parents and its author (`Says`, `Follows`), what the tips and the calls in progress are,
  and that every domain has issued its claim. That both passes return claims, pools and
  conditions of their type is an induction along the order (`FoldIs`).
* `PoolCyclesAreExact` (`CyclesAreExact`): a contribution goes into the first cycle that is
  not full, and only if no other has its claim, so a fold of any contributions in any order
  fills the cycles in turn (`InTurn`, `BacksOne`).
* `PoolPrizesGoToWinners` (`PrizesGoToWinners`): a claim of a view has come by the moves its
  id spells (`Traced`), and each move out of the pot was made by a release which either verifier
  accepted (`PaidByDraw`): the view's own pool justifies it, because the pool of the first pass is final when the
  second begins, or it names the contract, which the view knows. A fold that updated the pool as it went would not
  have this. The theorem covers plugins that ask the contract to release whatever they like.
* The next two are of a plugin without a contract beside the pool (`Apart`, which
  the properties have as a premise and which no step changes). With one, a gift may be
  released before it is contributed, and a release by either verifier pre-empts the other's.
* `PoolCountsDonations` (`DonationsCounted`). A contribution counts if its claim is in the
  pot in the first pass's final state and a `pool-init` is folded before it. The claim gets
  there wherever the deposit is ordered, for a deposited claim has moved by the end of any
  view that knows the deposit (`DepositReaches`), and only a release could take it further,
  which the first pass rejects. What needs `DonationInv` is that the plugin contributes
  the claim it gave: no claim is deposited twice (`UniqueDeposits`), so its own is in the pot;
  while a domain has given a claim and not contributed it yet, nobody has contributed it
  (`GivenOK`); and `find()`, which goes by the amount, cannot have meant another
  (`NamesGift`).
* `PoolPaidStaysPaid` (`PaidStaysPaid`) needs `DonationInv` too. A view that knows more folds
  the release again, after the deposit it descends from. The claim is then either in the pot
  or at the contract's address still, where the release is authorized again and moves it: the
  cycle is the same (`PoolAgain`), or a condition without negation that held still holds with more
  events known (`StillHolds`, by induction along the condition's parts). Its nonce is unused, as
  whatever used it moved the same claim (`ReleaseMoves`). Or the claim has left by another
  release, which the same cycle's draw sent to the same winner (`SamePayee`). What a claim
  went through it has gone through at the end of the fold (`Lasts`).

**`TransportProofs`** (assumes `TransportAssumption`).

* `TypeCorrect`, `OldestFirst` (`FlushKeepsOrder`), `Delivery`
  (`LossNeedsOverlap`), `AtMostOnce` (`DuplicateNeedsOverlap`), `LossesPaid`
  (`RemovalsArePaidFor`): any peers, any number of messages and of calls at once.
* The first two hold whatever overlaps, by `QInv`: each queue is in the order of
  sending and holds messages of its own key (`QueuesOK`), and what a `flush()`
  attempts was taken from the queue it visits and is at most what is queued there
  now (`AttemptsOK`). Four lemmas about sequences say what `push`, `shift` and
  `splice` do to an ordered queue.
* `Delivery` and `AtMostOnce` need the invariant `OInv`, about keys on which nothing has
  overlapped. There a `flush()` is alone before and after each step (`Calm`), so what it
  attempts is still first in its queue when it resumes (`AtHead`), and the shift
  takes the message that left (`SentHaveLeft`). `Once` says when a message may have
  left and still be queued: only while the call that made it leave has not resumed.
  Hence what a `flush()` attempts next has never left, for otherwise that call would
  overlap with it (`FlushMovesO`).
* `LossesPaid` is bookkeeping. Messages of one key that are no longer queued are its
  debt; departures to that key, less the calls whose message has left and that
  have yet to resume and remove one, are its credit (`Paid`). No step lets the debt
  outgrow the credit: only the resumption of such a call shortens a queue, by one
  message at most.

**`PluginPageProofs`** (assumes `HostAssumption`, `PageAssumption`, `VisitsAssumption`
and `DagAssumption`): any domains, visits, events and merges.

* `PageTypes` (`TypeOK`) by `PageInv`: what a handler is about to write has parents
  its replica knows and says what its user did. It counts on a reload's tip, the last of
  `topoOrder`, being known.
* `FormulasAndModulesStand` and `RegistrationsStand` (`FirstRegistrationStands`).
  Each registry is a fold that keeps the first claim of a key (`FirstWins`), and an
  event's ancestors come before it in the order. So what is registered is a claim
  that none of its ancestors makes (`Undisputed`), which never changes; and such a claim
  is passed over only for one apart from it (`Stands`). Formulas and modules need no
  hypothesis. Identities do, because a burn's signature may back one identity only: an
  event that named another domain's signature would take it if its hash came
  first. `OwnBurns` says that no module posts an `identity-register`, which the
  page would pass on (`main.js:725`): the wallet's own handler writes them, with
  its own signature.
* `NothingShownIsOutlived` (`NothingIsOutlived`): after each event, a view shows only
  what that event says or what it showed before and the event does not end. Hence
  what is shown at the end was said by an event after which, in the order, nothing
  ends it (`LastShown`), and whatever follows causally is after it in the order.
* `ToldStands` (`ToldIsKept`). Between the reading of what exists and the event
  there are awaits, so the invariant `ToldInv` says of a page without two burns or two
  submissions of a module at once: what a handler past its reading will write is still
  valid (`WillAddWell`, `AddsWell`), as neither the tip nor any event on its way
  registers the module; who burns has no identity yet, and none can be merged in,
  since an identity is registered at home before anywhere else
  (`IdentitiesHome`). So what is told of is `Undisputed`, an update of a module
  that exists, or a mint that follows another of its id, and `Stands` or `CodeShown` gives what the page shows. The
  hypotheses: modules post no registrations of identities or modules
  (`OwnRegistrations`; they could, and one posted between a handler's reading and
  its event would make what it tells its user void); and burns are of a positive
  number of lamports, as the form demands, and their cost is a number (`RealBurns`).
  The run of the page satisfies both.
* `DesktopStands` (`DesktopKeepsModules`) by `DeskInv`: a desktop is `Tidy`, its items
  share no module and no folder's id, and all their modules together are those of the
  history. `Tidy` is about items at places, not about a sequence, so that each
  operation is an item taken out (`TidyCut`), put in (`TidyPut`) or replaced (`TidyOther`)
  and then the rest moved up (`TidyClosedUp`); unpinning is an induction along the loop of
  `removeModuleFromLayout` (`TidyRemoved`). The operations are total: they keep a desktop
  tidy for any places and any folder's id, so those of an earlier rendering too.
  `TidyModules` then says what flattening a tidy desktop lists.
* `HostCorrect`: the runner alone satisfies `ClosedMeansStopped`. It is not inductive:
  when a module is mounted, why is no other frame? The invariant `HostInv` adds
  `OneAtATime`: in a page that was never crowded, what loads does so alone, in a
  visible overlay with nothing mounted.
* `PageImplementsHost`: each step of the page is a step of the runner or leaves it
  alone (`StepIsHostStep`), whatever the handlers, the desktop and merges do.
* `PageStops`: hence `ClosedMeansStopped` of the page.

## 5. What is only model-checked

* Liveness (`EventuallyLeaves`, `EventuallyStored`): out of the prover's reach.
* The disagreements of section 6, which are counterexamples.

Every other property of a passing run is stated by a theorem.

## 6. Where code and comments disagree

The runs that end in a violation are listed with the quoted lines under
`findings` in `PROJECT.json`:

1. `flush()` shifts its queue without checking what it shifts, so a `send()` that
   returns meanwhile makes it drop a message that never left.
2. A stored event without its parent makes the wallet impossible to open, though a
   comment calls this tolerated.
3. `main.js` does not pass G's rejections to Conservation, as the bridge says it
   does, so a rejected issue still makes a claim.
4. A reload takes `lastEventId` from the merged order, so a domain's own history
   forks.
5. A contract minted beside a pool releases the pot's claims: `verifyGenericRelease`
   never compares the address a claim is released from with the contract's, and a release
   needs one verifier only. The bridge says that the verifier confirms what the contract
   governing that pot says. In the same way a contract releases claims that domains own,
   though the bridge says that a release "cannot move a normal domain's claims".

Other disagreements are exceptions of a property that holds, so that the
property says exactly how far the code keeps its promise:

* `DonationsCounted`: the comment at `main.js:345` says that a released claim can never be
  contributed again, but then the prize given to the pot is lost to its donor.
* `ToldIsKept`: a mint of an id that was taken is rejected by the fold, and called
  permanent all the same: `main.js:1512` asks only whether the id is registered. And of two submissions of
  one new module at once, the second is called registered (`main.js:1356`).
* `NothingIsOutlived`: `module-registry.js:165-167` says that a verdict "can never silently
  apply" to code that it was not about. An audit names no code, and when other code that is causally unrelated
  to it is merged in and comes before it in the order of the hashes, the verdict is shown with that code.
* `ClosedMeansStopped`: a handle that is overwritten (`main.js:767`).

Two are in the model without a property:

* The WASM ledger has no `subscribe`, so no wallet opens with it, though
  `event-dag-persistence.js:113-115` says that the two compose. With `Backend = "wasm"`, `OpenFails` is all a
  tab can do.
* `module-submission.js:211-226` says, under SECURITY, that only the author who registered a
  module may update it, and `submitModule()` checks that. The page does not call
  `submitModule()`, and neither `foldSubmission()` nor `updateModuleCode()` checks it, so any
  domain updates any module; `UpdateCode` does as the code does.

## 7. What is not modelled

* Canonical JSON, SHA-256, signatures, base58, key derivation and encryption, RPC
  encoding, the text of the sandbox: data. An event is well formed and validly
  signed or is not written.
* The reward curve, b and T: an accrual is worth the epochs it waited, and the same
  under every formula. `PluginPage` models the choice of a formula by what it does to ranks.
* `submitModule()` of `module-submission.js`, which the page does not call (it calls its
  parts); and nonces of submissions, as the page makes a new random one each time.
* The delivery of a peer's message to a mounted module, and the transport's
  listener lists.
* In `PoolLedger`: more than one pool and one contract (and, for TLC, two domains); placeholders of a
  condition elsewhere than in an ownership leaf; the plugin's display; two calls of a
  plugin at once in one domain; a `transferClaim` of a claim that is not the domain's (`main.js:702`
  posts it and Conservation rejects it); approvals and deposits other than the escrow's.
* The panel that is opened of a folder which was removed since it was rendered: it
  has no folder and the rows it had last.
* In `DesktopLayout`: `moveItem()`, which nothing calls, labels, and the format of
  layouts saved by earlier versions.
* The stored record of an event that no longer matches its id.
* The connection watchdog (a flag and a clock; `main.js` only logs when it fires),
  `transport.js` (an interface), AI agents, themes, generated WASM glue.

## 8. Plan

The order was: Conservation, the DAG and its persistence, the domain's handlers
with both views, and the transport, because all else is folded from them; then
the commitments, pools and contracts; then registries, runner and page. What is
left, most useful first:

1. The reward arithmetic as operators on rationals checked against the formula,
   and what `DomainLedger`'s balances become when a formula is chosen.
2. A third domain and a second pool in `PoolLedger`, and its plugins as handlers of
   `DomainLedger`, so that their posts share a tip with claims and cadence.
3. `submitModule()` with its nonces, for a caller that replays, and messages delivered to modules.
4. Proofs: the safety of `PoolLedger` for plugins other than these, whose contributions
   need not follow from what a view showed them.
