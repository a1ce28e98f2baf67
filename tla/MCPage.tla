------------------------------- MODULE MCPage -------------------------------
(***************************************************************************)
(* Two domains.  Each visit is of one theme, what a second user does to it *)
(* included; gestures follow each other, handlers need not.                *)
(***************************************************************************)
EXTENDS PluginPage

CONSTANTS d1, d2,
          MaxEvents     \* bound: events ever created

(* Bound: a new event's hash is above all others or below all others, and  *)
(* below at most MaxId - MaxEvents times; nor do the first ones leave gaps. *)
EitherEnd(S) == IF S = {} THEN Ids ELSE {Min(S) - 1, Max(S) + 1} \cap Ids

NoGaps ==
  LET first == MaxId - MaxEvents + 1
  IN  first .. first + Cardinality(Replicas) - 1 \subseteq DOMAIN content

BurnOf(n, s) == [do |-> "burn", lamports |-> n, slot |-> s]
MintOf(p) == [do |-> "mint", id |-> "f", params |-> p]
SubmitOf(m, c) == [do |-> "submit", id |-> m, code |-> c, economics |-> None]
Issuing(m, a) == [do |-> "submit", id |-> m, code |-> "a",
                  economics |-> [alpha |-> a, scarcity |-> TRUE]]
ChooseOf(f) == [do |-> "choose", id |-> f]
PinOf(m) == [do |-> "pin", id |-> m]
RunOf(m) == [do |-> "run", id |-> m]
Audit(m, s) == [do |-> "post", from |-> "m",
                payload |-> [type |-> "module-audit", id |-> m, status |-> s]]
Publish(v) == [do |-> "post", from |-> "m",
               payload |-> [type |-> "module-data-published", key |-> "k", value |-> v]]
Drag == [do |-> "drop"]
Out == [do |-> "eject"]
Tick == [do |-> "advance"]
Pause == [do |-> "wait"]
Again == [do |-> "reload"]

Both(a, b) == d1 :> a @@ d2 :> b
Alone(a) == Both(a, << >>)

MCVisits ==
  {\* the same module, by both
   Both(<<SubmitOf("m", "a"), SubmitOf("m", "b")>>, <<SubmitOf("m", "c")>>),
   Both(<<SubmitOf("m", "a"), Again, SubmitOf("m", "b")>>, <<SubmitOf("m", "c")>>),
   \* an audit, and new code
   Both(<<SubmitOf("m", "a"), PinOf("m"), RunOf("m"), Audit("m", "passed")>>,
        <<SubmitOf("m", "c")>>),
   Alone(<<SubmitOf("m", "a"), PinOf("m"), RunOf("m"), Audit("m", "red-listed"),
           SubmitOf("m", "b"), Audit("m", "fine")>>),
   Alone(<<SubmitOf("m", "a"), PinOf("m"), RunOf("m"), Publish("v"), Publish(None)>>),
   \* the same formula, by both
   Both(<<BurnOf(1, 1), Pause, MintOf("p"), MintOf("q")>>,
        <<BurnOf(1, 1), Pause, MintOf("p")>>),
   \* burns too low, twice, again after a reload
   Alone(<<BurnOf(1, 2), Pause, BurnOf(2, 2), Pause, MintOf("p")>>),
   Alone(<<BurnOf(1, 1), BurnOf(2, 2), MintOf("p")>>),
   Alone(<<BurnOf(1, 1), Again, BurnOf(2, 2), MintOf("p")>>),
   \* modules that issue, with and without an identity
   Alone(<<Issuing("m", 1), Pause, BurnOf(1, 1), Issuing("m", 1), Issuing("n", 2)>>),
   \* the rank that a second module needs
   Alone(<<SubmitOf("m", "a"), Tick, SubmitOf("n", "a"), Pause,
           BurnOf(2, 1), Pause, SubmitOf("n", "a")>>),
   \* and the same under another formula
   Alone(<<BurnOf(2, 1), Pause, MintOf("p"), Pause, SubmitOf("m", "a"), Tick, ChooseOf("f"),
           SubmitOf("n", "a"), Pause, ChooseOf(Genesis), SubmitOf("n", "a"), Again>>),
   \* the desktop
   Alone(<<SubmitOf("m", "a"), Pause, SubmitOf("n", "a"), Pause, SubmitOf("o", "a"), Pause,
           PinOf("m"), PinOf("n"), PinOf("o"), Drag, Drag, Out, PinOf("m"), Out>>),
   \* the runner
   Alone(<<SubmitOf("m", "a"), Pause, SubmitOf("n", "a"), Pause, PinOf("m"), PinOf("n"), Drag,
           RunOf("m"), RunOf("n"), RunOf("m")>>),
   Alone(<<SubmitOf("m", "a"), PinOf("m"), RunOf("m"), RunOf("m"), Again, RunOf("m")>>)}

MCChurn == [genesisSlot |-> 1, baseLamports |-> 1, lamportsPerSlot |-> 1]

\* Only that of Genesis rewards patience.
MCRank(burned, n, params) == IF params = Genesis THEN burned * n ELSE 0
=============================================================================
