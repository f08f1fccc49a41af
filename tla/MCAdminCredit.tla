--------------------------- MODULE MCAdminCredit ---------------------------
(***************************************************************************)
(* Two services, two operation identities and one account whose SUM         *)
(* overflows above two credits.                                             *)
(***************************************************************************)
EXTENDS AdminCredit

CONSTANTS a1, r1, n1, n2, null, o1, o2, s1, s2

MCAccounts   == {a1}
MCRequests   == {r1}
MCNotes      == {n1, n2}
MCIdentities == {o1, o2}
MCServices   == {s1, s2}

MCOperation(i, type, amount, reason) ==
    [identity |-> i, type |-> type, account |-> a1, amount |-> amount,
     reason |-> reason]

\* For each identity a grant, a debit, and the grant with another reason;
\* for one of them an adjustment upwards.
MCOperations ==
    UNION {{MCOperation(i, "ADMIN_GRANT", 2, n1),
            MCOperation(i, "ADMIN_GRANT", 2, n2),
            MCOperation(i, "ADJUSTMENT", -2, n1)} : i \in MCIdentities}
    \cup {MCOperation(o2, "ADJUSTMENT", 2, n1)}
=============================================================================
