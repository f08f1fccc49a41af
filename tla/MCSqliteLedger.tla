--------------------------- MODULE MCSqliteLedger ---------------------------
(***************************************************************************)
(* Two threads and two ledger objects over one account and one request id:  *)
(* the threads share an object or call one each.                            *)
(***************************************************************************)
EXTENDS SqliteLedger

CONSTANTS a1, r1, n1, n2, null, l1, l2, c1, c2

MCAccounts == {a1}
MCRequests == {r1}
MCNotes    == {n1, n2}
MCLedgers  == {l1, l2}
MCClients  == {c1, c2}

MCCall(op, r, amount, note) ==
    [op |-> op, account |-> a1, request |-> r, amount |-> amount, note |-> note]

\* One call of each operation, and a charge that conflicts with the other.
MCCalls == {MCCall("grant", null, 1, n1), MCCall("adjust", null, -1, n1),
            MCCall("charge", r1, 1, n1), MCCall("charge", r1, 1, n2),
            MCCall("refund", r1, 1, n1), MCCall("balance", null, 0, null)}
=============================================================================
