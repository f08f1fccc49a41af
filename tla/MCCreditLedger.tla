--------------------------- MODULE MCCreditLedger ---------------------------
(* CreditLedger over two accounts and one request id. *)
EXTENDS CreditLedger

CONSTANTS a1, a2, r1, n1, n2, null

MCAccounts == {a1, a2}
MCRequests == {r1}
MCNotes    == {n1, n2}
=============================================================================
