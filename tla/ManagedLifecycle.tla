-------------------------- MODULE ManagedLifecycle --------------------------
(***************************************************************************)
(* What Managed Access promises for each request identity, with no mention  *)
(* of threads, retries, crashes or the ledger: credits are reserved before  *)
(* the provider is called, the provider is called at most once, and a       *)
(* charge within the reservation happens exactly when the request succeeds. *)
(* FAILED, SUCCEEDED and FINALIZATION_FAILED are final.  A request may stay *)
(* RESERVED for ever: it then waits for a person, not for a retry.          *)
(***************************************************************************)
EXTENDS Integers

CONSTANTS
    Identities,  \* (account, request id) pairs
    Credits      \* the positive amounts that may be reserved

VARIABLES
    status,    \* ManagedRequestStatus, or "ABSENT"
    reserved,  \* credits held for the request
    calls,     \* provider calls made for it
    charged    \* credits charged; 0 until it succeeds

vars == <<status, reserved, calls, charged>>

Status == {"RESERVED", "SUCCEEDED", "FAILED", "FINALIZATION_FAILED"}

Init ==
    /\ status = [i \in Identities |-> "ABSENT"]
    /\ reserved = [i \in Identities |-> 0]
    /\ calls = [i \in Identities |-> 0]
    /\ charged = [i \in Identities |-> 0]

Reserve(i, credits) ==
    /\ status[i] = "ABSENT"
    /\ status' = [status EXCEPT ![i] = "RESERVED"]
    /\ reserved' = [reserved EXCEPT ![i] = credits]
    /\ UNCHANGED <<calls, charged>>

CallProvider(i) ==
    /\ status[i] = "RESERVED"
    /\ calls[i] = 0
    /\ calls' = [calls EXCEPT ![i] = 1]
    /\ UNCHANGED <<status, reserved, charged>>

Succeed(i, credits) ==
    /\ status[i] = "RESERVED"
    /\ calls[i] = 1
    /\ credits <= reserved[i]
    /\ status' = [status EXCEPT ![i] = "SUCCEEDED"]
    /\ charged' = [charged EXCEPT ![i] = credits]
    /\ UNCHANGED <<reserved, calls>>

Fail(i, final) ==
    /\ status[i] = "RESERVED"
    /\ calls[i] = 1
    /\ status' = [status EXCEPT ![i] = final]
    /\ UNCHANGED <<reserved, calls, charged>>

Next ==
    \E i \in Identities :
        \/ \E credits \in Credits : Reserve(i, credits)
        \/ CallProvider(i)
        \/ \E credits \in 0..reserved[i] : Succeed(i, credits)
        \/ \E final \in {"FAILED", "FINALIZATION_FAILED"} : Fail(i, final)

Spec == Init /\ [][Next]_vars
=============================================================================
