---------------------------- MODULE MCPersistence ----------------------------
(***************************************************************************)
(* Two tabs of one wallet, and a test peer in the first one's page.        *)
(***************************************************************************)
EXTENDS LedgerPersistence

CONSTANTS t1, t2, p1, mine, theirs

AnyId(S) == Ids \ S

MCPageOf == [p \in {p1} |-> t1]
MCDomainOf == [r \in {t1, t2, p1} |-> IF r = p1 THEN theirs ELSE mine]
=============================================================================
