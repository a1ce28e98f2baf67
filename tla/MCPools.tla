------------------------------- MODULE MCPools -------------------------------
(***************************************************************************)
(* Two domains, with a jackpot of cycle length 1 or 2, an escrow, or a     *)
(* jackpot and a contract beside it.                                       *)
(***************************************************************************)
EXTENDS PoolLedger

CONSTANTS d1, d2,
          MaxEvents     \* bound: the most events any plugin may create

(* Bound: a new event's hash is above all others or below all others, and  *)
(* below at most MaxId - MaxEvents times; nor do the first ones leave gaps. *)
EitherEnd(S) == IF S = {} THEN Ids ELSE {Min(S) - 1, Max(S) + 1} \cap Ids

NoGaps ==
  LET first == MaxId - MaxEvents + 1
  IN  /\ first .. first + Cardinality(Replicas) - 1 \subseteq DOMAIN content
      /\ first - plugin.low <= Min(DOMAIN content)

\* Amounts are in half units: one may have no ticket.
Purse(a, b) == d1 :> a @@ d2 :> b

Own == [type |-> "ownership", claim |-> <<"$claimId">>, owner |-> "$from"]
Approvals(n) == [type |-> "count", eventType |-> "approval", domain |-> None, min |-> n]

SignedBy(d) == [type |-> "signature", signer |-> d, expectedDomain |-> d1]

OneOf(S) == [type |-> "any", of |-> S]
AllOf(S) == [type |-> "all", of |-> S]
Not(i) == [type |-> "not", of |-> {i}]

\* An approval of d1, or that the third event ever made descends from the first.
ByApprovalOrLink ==
  LET first == MaxId - MaxEvents + 1
      link == [type |-> "causal-order", before |-> first, after |-> first + 2]
  IN  <<Own, link, [Approvals(1) EXCEPT !.domain = d1], SignedBy(d2), OneOf({2, 3, 4}), AllOf({1, 5})>>

\* Two approvals, of what d1 signed; the above; or that nobody has objected twice.
Conditions ==
  {<<Own, SignedBy(d1), Approvals(2), AllOf({1, 2, 3})>>, ByApprovalOrLink,
   <<Own, Approvals(2), Not(2), AllOf({1, 3})>>}

Jackpot(n, p, e) ==
  [name |-> "jackpot", length |-> n, purse |-> p, events |-> e, payouts |-> 1, low |-> 2]

EscrowOf(d, c, e, n) ==
  [name |-> "escrow", depositor |-> d, condition |-> c, purse |-> Purse(2, 2),
   events |-> e, payouts |-> n, low |-> 1]

\* A pool of cycle length 1, and a contract that pays once there is one.
Beside ==
  [name |-> "both", length |-> 1, depositor |-> d1,
   condition |-> <<[Approvals(1) EXCEPT !.eventType = "pool-init"]>>,
   purse |-> Purse(2, 2), events |-> 7, payouts |-> 1, low |-> 1]

MCBeside == {Beside}

MCPlugins ==
  {Jackpot(1, p, 8) : p \in {Purse(2, 2), Purse(1, 4)}}
    \cup {Jackpot(2, p, 9) : p \in {Purse(2, 4), Purse(1, 1)}}
    \cup {EscrowOf(d1, c, 7, 1) : c \in Conditions}
    \cup {EscrowOf(d1, ByApprovalOrLink, 6, 2)} \cup MCBeside

\* Any function will do: one that depends on who contributed and when.
MCDrawHash(k, cs) == k + (IF cs[1].by = d1 THEN 0 ELSE 1)
=============================================================================
