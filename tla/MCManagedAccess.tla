-------------------------- MODULE MCManagedAccess --------------------------
(***************************************************************************)
(* Two callers and two request ids on one account, payloads that reserve    *)
(* one and two credits, an administrator who grants and debits, and server  *)
(* code that charges the same identities directly.                          *)
(***************************************************************************)
EXTENDS ManagedAccess, TLC

CONSTANTS a1, r1, r2, n1, null, c1, c2, p1, p2, noPayload

MCAccounts == {a1}
MCRequests == {r1, r2}
MCNotes    == {n1}
MCCallers  == {c1, c2}
MCPayloads == {p1, p2}
MCSymmetry == Permutations(MCCallers) \cup Permutations(MCRequests)
MCReservation == [p \in {p1, p2} |-> IF p = p1 THEN 1 ELSE 2]
=============================================================================
