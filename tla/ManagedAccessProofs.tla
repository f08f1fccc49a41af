------------------------ MODULE ManagedAccessProofs ------------------------
(***************************************************************************)
(* For any number of callers, identities, payloads and amounts: the         *)
(* provider is called at most once for an identity, a stranded reservation  *)
(* stays as it is, and the service keeps the promise of ManagedLifecycle.   *)
(*                                                                          *)
(* The inductive invariant is about ownership: past its reservation a       *)
(* caller is alone with an identity whose row is RESERVED for the payload   *)
(* it asked for, and whether it is before or after the provider call        *)
(* settles how often the provider has been called for that identity.        *)
(*                                                                          *)
(* On top of it, usage, status and charge move together (Paid), an answer   *)
(* stays true of the row it is about (Answers), and an account that nobody  *)
(* debits beside the service covers the sum of its reservations (Covered).  *)
(*                                                                          *)
(* Then the file the service opens: for any number of services, policies    *)
(* and rows of V3.0.1, an opening keeps every record (MigrationInv).        *)
(*                                                                          *)
(* Last, pricing, for any rates and token counts: the recursive functions   *)
(* of PricingPolicies exist (RecursionIsDefined) and count digits; 2^100000 *)
(* is below 10^30103, so the estimate of digits by bits is never too low    *)
(* and the context never rounds (PriceIsCeiling, PricingInv).               *)
(***************************************************************************)
EXTENDS ManagedAccess, SchemaMigration, Pricing, CreditDomainProofs

CallOf == [id: Identities, payload: Payloads]

Row(p) == [status |-> "RESERVED", payload |-> p]

Shape ==
    /\ requests \in [Identities ->
           [status: Statuses, payload: Payloads] \cup {Absent}]
    /\ usage \in [Identities -> Nat \cup {NoUsage}]
    /\ providerCalls \in [Identities -> Nat]
    /\ pc \in [Callers -> PCs]
    /\ call \in [Callers -> CallOf \cup {NoCall}]
    /\ actual \in [Callers -> Int]

\* Inside invoke there is a call.
CallsAreKnown == \A c \in Callers : pc[c] # "idle" => call[c] \in CallOf

\* The owner's row, and the provider calls it accounts for.
OwnedRows ==
    \A c \in Callers :
        pc[c] \notin {"idle", "reserve"} =>
            /\ requests[call[c].id] = Row(call[c].payload)
            /\ providerCalls[call[c].id] = IF pc[c] = "reserved" THEN 0 ELSE 1

OneOwner ==
    \A c, d \in Callers :
        /\ pc[c] \notin {"idle", "reserve"}
        /\ pc[d] \notin {"idle", "reserve"}
        /\ call[c].id = call[d].id
        => c = d

\* What a caller will charge was checked against the reservation.
PricesAreWithin ==
    \A c \in Callers :
        pc[c] = "finalize" => actual[c] \in 0..Reservation[call[c].payload]

CallsFollowRows ==
    \A i \in Identities :
        /\ requests[i] = Absent => providerCalls[i] = 0
        /\ providerCalls[i] \in {0, 1}

Ownership ==
    /\ Shape /\ CallsAreKnown /\ OwnedRows /\ OneOwner
    /\ PricesAreWithin /\ CallsFollowRows

\* A row is never mistaken for the absence of one.
LEMMA RowsAreNotAbsent ==
    \A p : Row(p) # Absent /\ "RESERVED" \in Statuses /\ "ABSENT" \notin Statuses
BY DEF Row, Absent, Statuses

LEMMA OwnershipInit == Init => Ownership
BY DEF Init, Ownership, Shape, CallsAreKnown, OwnedRows, OneOwner,
       PricesAreWithin, CallsFollowRows, PCs, NoUsage, Absent

\* Steps that leave rows and provider calls alone and move no caller into
\* ownership: other callers keep theirs.
LEMMA ReleasePreserves ==
    ASSUME Ownership, NEW c \in Callers, NEW next \in PCs,
           pc' = [pc EXCEPT ![c] = next],
           \/ next \in {"idle", "reserve"}
           \/ pc[c] \notin {"idle", "reserve", "reserved"} /\ next # "reserved",
           call' = call \/ (next = "idle" /\ call' = [call EXCEPT ![c] = NoCall]),
           next # "idle" => pc[c] # "idle",
           actual' \in [Callers -> Int],
           \A d \in Callers \ {c} : actual'[d] = actual[d],
           next = "finalize" =>
               call' = call /\ actual'[c] \in 0..Reservation[call[c].payload],
           UNCHANGED <<requests, usage, providerCalls>>
    PROVE  Ownership'
<1>1. Shape'
  BY DEF Ownership, Shape
<1>2. CallsAreKnown'
  BY DEF Ownership, Shape, CallsAreKnown
<1>3. OwnedRows'
  BY DEF Ownership, Shape, OwnedRows
<1>4. OneOwner'
  BY DEF Ownership, Shape, OneOwner
<1>5. CallsFollowRows'
  BY DEF Ownership, CallsFollowRows
<1>6. PricesAreWithin'
  BY DEF Ownership, Shape, PricesAreWithin
<1> QED
  BY <1>1, <1>2, <1>3, <1>4, <1>5, <1>6 DEF Ownership

\* Steps with which an owner closes its request.
LEMMA ClosePreserves ==
    ASSUME Ownership, NEW c \in Callers, NEW status \in Statuses,
           pc[c] \notin {"idle", "reserve"},
           requests' = [requests EXCEPT ![call[c].id].status = status],
           pc' = [pc EXCEPT ![c] = "idle"],
           usage' \in [Identities -> Nat \cup {NoUsage}],
           UNCHANGED <<providerCalls, call, actual>>
    PROVE  Ownership'
<1> DEFINE i == call[c].id
<1>1. /\ call[c] \in CallOf
      /\ i \in Identities
      /\ requests[i] = Row(call[c].payload)
  BY DEF Ownership, CallsAreKnown, OwnedRows, CallOf
<1>2. requests'[i] = [status |-> status, payload |-> call[c].payload]
  BY <1>1 DEF Ownership, Shape, Row
<1>3. \A j \in Identities : j # i => requests'[j] = requests[j]
  BY DEF Ownership, Shape
<1>4. requests'[i] \in [status: Statuses, payload: Payloads]
  BY <1>1, <1>2 DEF CallOf
<1>5. Shape'
  <2>1. requests' \in [Identities ->
           [status: Statuses, payload: Payloads] \cup {Absent}]
    BY <1>1, <1>2, <1>3, <1>4 DEF Ownership, Shape
  <2> QED
    BY <2>1 DEF Ownership, Shape, PCs
<1>6. CallsAreKnown'
  BY DEF Ownership, Shape, CallsAreKnown
<1>7. OwnedRows'
  <2> SUFFICES ASSUME NEW d \in Callers, pc'[d] \notin {"idle", "reserve"}
               PROVE  /\ requests'[call'[d].id] = Row(call'[d].payload)
                      /\ providerCalls'[call'[d].id] =
                             IF pc'[d] = "reserved" THEN 0 ELSE 1
    BY DEF OwnedRows
  <2>1. d # c /\ pc'[d] = pc[d] /\ call'[d] = call[d]
    BY DEF Ownership, Shape
  <2>2. call[d].id # i
    BY <2>1 DEF Ownership, OneOwner
  <2>3. call[d].id \in Identities
    BY <2>1 DEF Ownership, CallsAreKnown, CallOf
  <2> QED
    BY <2>1, <2>2, <2>3, <1>3 DEF Ownership, OwnedRows
<1>8. OneOwner'
  BY DEF Ownership, Shape, OneOwner
<1>9. CallsFollowRows'
  <2>1. requests'[i] # Absent
    BY <1>2, RowsAreNotAbsent DEF Absent
  <2> QED
    BY <2>1, <1>3 DEF Ownership, CallsFollowRows
<1>10. PricesAreWithin'
  BY DEF Ownership, Shape, PricesAreWithin
<1> QED
  BY <1>5, <1>6, <1>7, <1>8, <1>9, <1>10 DEF Ownership

LEMMA ReservePreserves ==
    ASSUME Ownership, NEW c \in Callers, Reserve(c)
    PROVE  Ownership'
<1> DEFINE i == call[c].id
<1>1. /\ call[c] \in CallOf
      /\ i \in Identities
      /\ requests[i] = Absent
      /\ requests' = [requests EXCEPT ![i] = Row(call[c].payload)]
      /\ pc' = [pc EXCEPT ![c] = "reserved"]
      /\ UNCHANGED <<usage, providerCalls, call, actual>>
  BY DEF Ownership, CallsAreKnown, CallOf, Reserve, Goto, Row
<1>2. requests'[i] = Row(call[c].payload)
      /\ \A j \in Identities : j # i => requests'[j] = requests[j]
  BY <1>1 DEF Ownership, Shape
<1>3. Shape'
  <2>1. Row(call[c].payload) \in [status: Statuses, payload: Payloads]
    BY <1>1 DEF Row, CallOf, Statuses
  <2>2. requests' \in [Identities ->
           [status: Statuses, payload: Payloads] \cup {Absent}]
    BY <1>1, <1>2, <2>1 DEF Ownership, Shape
  <2> QED
    BY <1>1, <2>2 DEF Ownership, Shape, PCs
<1>4. CallsAreKnown'
  BY <1>1 DEF Ownership, Shape, CallsAreKnown
<1>5. \A d \in Callers : pc[d] \notin {"idle", "reserve"} => call[d].id # i
  BY <1>1, RowsAreNotAbsent DEF Ownership, OwnedRows
<1>6. \A d \in Callers : d # c => pc'[d] = pc[d]
  BY <1>1 DEF Ownership, Shape
<1>7. pc[c] = "reserve" /\ pc'[c] = "reserved"
  BY <1>1 DEF Ownership, Shape, Reserve
<1>8. OwnedRows'
  <2> SUFFICES ASSUME NEW d \in Callers, pc'[d] \notin {"idle", "reserve"}
               PROVE  /\ requests'[call'[d].id] = Row(call'[d].payload)
                      /\ providerCalls'[call'[d].id] =
                             IF pc'[d] = "reserved" THEN 0 ELSE 1
    BY DEF OwnedRows
  <2>1. CASE d = c
    <3>1. providerCalls[i] = 0
      BY <1>1 DEF Ownership, CallsFollowRows
    <3> QED
      BY <2>1, <3>1, <1>1, <1>2, <1>7
  <2>2. CASE d # c
    <3>1. pc'[d] = pc[d] /\ call'[d] = call[d] /\ call[d].id # i
      BY <2>2, <1>1, <1>5, <1>6
    <3>2. call[d].id \in Identities
      BY <3>1 DEF Ownership, CallsAreKnown, CallOf
    <3> QED
      BY <3>1, <3>2, <1>1, <1>2 DEF Ownership, OwnedRows
  <2> QED
    BY <2>1, <2>2
<1>9. OneOwner'
  BY <1>1, <1>5, <1>6, <1>7 DEF Ownership, OneOwner
<1>10. CallsFollowRows'
  BY <1>1, <1>2, RowsAreNotAbsent DEF Ownership, CallsFollowRows
<1>11. PricesAreWithin'
  BY <1>1 DEF Ownership, Shape, PricesAreWithin
<1> QED
  BY <1>3, <1>4, <1>8, <1>9, <1>10, <1>11 DEF Ownership

LEMMA CallProviderPreserves ==
    ASSUME Ownership, NEW c \in Callers, CallProvider(c)
    PROVE  Ownership'
<1> DEFINE i == call[c].id
<1>1. /\ pc[c] = "reserved"
      /\ call[c] \in CallOf
      /\ i \in Identities
      /\ requests[i] = Row(call[c].payload)
      /\ providerCalls[i] = 0
      /\ providerCalls' = [providerCalls EXCEPT ![i] = @ + 1]
      /\ pc' = [pc EXCEPT ![c] = "provider"]
      /\ UNCHANGED <<requests, usage, call, actual>>
  BY DEF Ownership, CallsAreKnown, CallOf, OwnedRows, CallProvider, Goto
<1>2. /\ providerCalls'[i] = 1
      /\ \A j \in Identities : j # i => providerCalls'[j] = providerCalls[j]
  BY <1>1 DEF Ownership, Shape
<1>3. Shape'
  BY <1>1 DEF Ownership, Shape, PCs
<1>4. CallsAreKnown'
  BY <1>1 DEF Ownership, Shape, CallsAreKnown
<1>5. \A d \in Callers : d # c => pc'[d] = pc[d]
  BY <1>1 DEF Ownership, Shape
<1>6. pc'[c] = "provider"
  BY <1>1 DEF Ownership, Shape
<1>7. OwnedRows'
  <2> SUFFICES ASSUME NEW d \in Callers, pc'[d] \notin {"idle", "reserve"}
               PROVE  /\ requests'[call'[d].id] = Row(call'[d].payload)
                      /\ providerCalls'[call'[d].id] =
                             IF pc'[d] = "reserved" THEN 0 ELSE 1
    BY DEF OwnedRows
  <2>1. CASE d = c
    BY <2>1, <1>1, <1>2, <1>6
  <2>2. CASE d # c
    <3>1. pc'[d] = pc[d] /\ call'[d] = call[d]
      BY <2>2, <1>1, <1>5
    <3>2. call[d].id # i
      BY <2>2, <3>1, <1>1 DEF Ownership, OneOwner
    <3>3. call[d].id \in Identities
      BY <3>1 DEF Ownership, CallsAreKnown, CallOf
    <3> QED
      BY <3>1, <3>2, <3>3, <1>1, <1>2 DEF Ownership, OwnedRows
  <2> QED
    BY <2>1, <2>2
<1>8. OneOwner'
  BY <1>1, <1>5, <1>6 DEF Ownership, OneOwner
<1>9. CallsFollowRows'
  BY <1>1, <1>2, RowsAreNotAbsent DEF Ownership, CallsFollowRows
<1>10. PricesAreWithin'
  BY <1>1 DEF Ownership, Shape, PricesAreWithin
<1> QED
  BY <1>3, <1>4, <1>7, <1>8, <1>9, <1>10 DEF Ownership

LEMMA InvokePreserves ==
    ASSUME Ownership, NEW c \in Callers, NEW i \in Identities,
           NEW p \in Payloads, Invoke(c, i, p)
    PROVE  Ownership'
<1>1. /\ pc' = [pc EXCEPT ![c] = "reserve"]
      /\ call' = [call EXCEPT ![c] = [id |-> i, payload |-> p]]
      /\ actual' = [actual EXCEPT ![c] = 0]
      /\ UNCHANGED <<requests, usage, providerCalls>>
  BY DEF Invoke, Goto
<1>2. Shape' /\ CallsAreKnown'
  BY <1>1 DEF Ownership, Shape, CallsAreKnown, CallOf, PCs
<1>3. \A d \in Callers : pc'[d] \notin {"idle", "reserve"} =>
          d # c /\ pc'[d] = pc[d] /\ call'[d] = call[d]
  BY <1>1 DEF Ownership, Shape
<1>4. OwnedRows' /\ OneOwner' /\ PricesAreWithin' /\ CallsFollowRows'
  BY <1>1, <1>3
     DEF Ownership, Shape, OwnedRows, OneOwner, PricesAreWithin, CallsFollowRows
<1> QED
  BY <1>2, <1>4 DEF Ownership

\* The steps that end with the rows as they were, by where they lead.
LEMMA QuietStepPreserves ==
    ASSUME Ownership, NEW c \in Callers,
           \/ Replay(c) \/ ReplayConflict(c) \/ ReserveRefused(c)
           \/ ReserveFails(c) \/ InterruptedAfterReserve(c)
           \/ ProviderFails(c) \/ ProviderSucceeds(c) \/ UsageRejected(c)
           \/ MarkProviderFailedFails(c) \/ FinalizeFails(c)
           \/ MarkFinalizationFailedFails(c) \/ Crash(c)
    PROVE  Ownership'
<1> USE DEF Goto, Finish, Reject
<1>1. CASE ReplayConflict(c) \/ ReserveRefused(c) \/ ReserveFails(c)
           \/ InterruptedAfterReserve(c) \/ MarkProviderFailedFails(c)
           \/ MarkFinalizationFailedFails(c) \/ Crash(c)
  <2>1. /\ pc' = [pc EXCEPT ![c] = "idle"]
        /\ call' = call \/ call' = [call EXCEPT ![c] = NoCall]
        /\ actual' = actual \/ actual' = [actual EXCEPT ![c] = 0]
        /\ UNCHANGED <<requests, usage, providerCalls>>
    BY <1>1 DEF ReplayConflict, ReserveRefused, ReserveFails,
         InterruptedAfterReserve, MarkProviderFailedFails,
         MarkFinalizationFailedFails, Crash
  <2>2. /\ actual' \in [Callers -> Int]
        /\ \A d \in Callers \ {c} : actual'[d] = actual[d]
    BY <2>1 DEF Ownership, Shape
  <2> QED
    BY <2>1, <2>2, ReleasePreserves DEF PCs
<1>2. CASE Replay(c)
  <2>1. /\ call[c].id \in Identities
        /\ usage[call[c].id] \in Int
    BY <1>2 DEF Replay, Ownership, CallsAreKnown, Shape, CallOf, NoUsage
  <2>2. /\ pc' = [pc EXCEPT ![c] = "idle"]
        /\ UNCHANGED <<call, requests, usage, providerCalls>>
        /\ actual' = [actual EXCEPT ![c] =
               IF requests[call[c].id].status = "SUCCEEDED"
               THEN usage[call[c].id] ELSE 0]
    BY <1>2 DEF Replay
  <2>3. /\ actual' \in [Callers -> Int]
        /\ \A d \in Callers \ {c} : actual'[d] = actual[d]
    BY <2>1, <2>2 DEF Ownership, Shape
  <2> QED
    BY <2>2, <2>3, ReleasePreserves DEF PCs
<1>3. CASE ProviderFails(c)
  <2>1. /\ pc[c] = "provider"
        /\ pc' = [pc EXCEPT ![c] = "mark_failed"]
        /\ UNCHANGED <<call, actual, requests, usage, providerCalls>>
    BY <1>3 DEF ProviderFails
  <2> QED
    BY <2>1, ReleasePreserves DEF PCs, Ownership, Shape
<1>4. CASE UsageRejected(c)
  <2>1. /\ pc[c] = "provider"
        /\ pc' = [pc EXCEPT ![c] = "mark_finalization_failed"]
        /\ UNCHANGED <<call, actual, requests, usage, providerCalls>>
    BY <1>4 DEF UsageRejected
  <2> QED
    BY <2>1, ReleasePreserves DEF PCs, Ownership, Shape
<1>5. CASE FinalizeFails(c)
  <2>1. /\ pc[c] = "finalize"
        /\ pc' = [pc EXCEPT ![c] = "mark_finalization_failed"]
        /\ actual' = [actual EXCEPT ![c] = 0]
        /\ UNCHANGED <<call, requests, usage, providerCalls>>
    BY <1>5 DEF FinalizeFails
  <2>2. /\ actual' \in [Callers -> Int]
        /\ \A d \in Callers \ {c} : actual'[d] = actual[d]
    BY <2>1 DEF Ownership, Shape
  <2> QED
    BY <2>1, <2>2, ReleasePreserves DEF PCs
<1>6. CASE ProviderSucceeds(c)
  <2>1. PICK credits \in 0..Reservation[call[c].payload] :
            actual' = [actual EXCEPT ![c] = credits]
    BY <1>6 DEF ProviderSucceeds
  <2>2. /\ pc[c] = "provider"
        /\ pc' = [pc EXCEPT ![c] = "finalize"]
        /\ UNCHANGED <<call, requests, usage, providerCalls>>
    BY <1>6 DEF ProviderSucceeds
  <2>3. /\ call[c] \in CallOf
        /\ Reservation[call[c].payload] \in Nat
    BY <2>2, ReservationsArePositive DEF Ownership, CallsAreKnown, CallOf
  <2>4. /\ actual' \in [Callers -> Int]
        /\ \A d \in Callers \ {c} : actual'[d] = actual[d]
        /\ actual'[c] \in 0..Reservation[call[c].payload]
    BY <2>1, <2>3 DEF Ownership, Shape
  <2> QED
    BY <2>2, <2>4, ReleasePreserves DEF PCs
<1> QED
  BY <1>1, <1>2, <1>3, <1>4, <1>5, <1>6

LEMMA ClosingStepPreserves ==
    ASSUME Ownership, NEW c \in Callers,
           \/ MarkProviderFailed(c) \/ MarkFinalizationFailed(c)
           \/ FinalizeSuccess(c)
    PROVE  Ownership'
<1>1. PICK status \in {"FAILED", "FINALIZATION_FAILED", "SUCCEEDED"} :
          /\ pc[c] \notin {"idle", "reserve"}
          /\ requests' = [requests EXCEPT ![call[c].id].status = status]
          /\ pc' = [pc EXCEPT ![c] = "idle"]
          /\ UNCHANGED <<providerCalls, call, actual>>
  BY DEF MarkProviderFailed, MarkFinalizationFailed, FinalizeSuccess,
         SetStatus, Finish, Goto
<1>2. usage' \in [Identities -> Nat \cup {NoUsage}]
  <2>1. CASE FinalizeSuccess(c)
    <3>1. call[c] \in CallOf /\ Reservation[call[c].payload] \in Nat
      BY <2>1, ReservationsArePositive
         DEF FinalizeSuccess, Ownership, CallsAreKnown, CallOf
    <3>2. actual[c] \in Nat
      BY <2>1, <3>1 DEF FinalizeSuccess, Ownership, PricesAreWithin
    <3> QED
      BY <2>1, <3>2 DEF FinalizeSuccess, Ownership, Shape
  <2>2. CASE ~FinalizeSuccess(c)
    BY <2>2 DEF MarkProviderFailed, MarkFinalizationFailed, Ownership, Shape
  <2> QED
    BY <2>1, <2>2
<1>3. status \in Statuses
  BY DEF Statuses
<1> QED
  BY <1>1, <1>2, <1>3, ClosePreserves

LEMMA OwnershipStep == Ownership /\ [Next]_vars => Ownership'
<1> SUFFICES ASSUME Ownership, [Next]_vars PROVE Ownership'
  OBVIOUS
<1>1. ASSUME NEW c \in Callers, NEW i \in Identities, NEW p \in Payloads,
             Invoke(c, i, p)
      PROVE  Ownership'
  BY <1>1, InvokePreserves
<1>2. ASSUME NEW c \in Callers, Step(c) \/ Crash(c)
      PROVE  Ownership'
  BY <1>2, QuietStepPreserves, ReservePreserves, CallProviderPreserves,
     ClosingStepPreserves DEF Step
<1>3. CASE External \/ UNCHANGED vars
  <2>1. UNCHANGED <<requests, usage, providerCalls, pc, call, actual>>
    BY <1>3 DEF External, serviceVars, vars
  <2> QED
    BY <2>1 DEF Ownership, Shape, CallsAreKnown, OwnedRows, OneOwner,
                PricesAreWithin, CallsFollowRows
<1> QED
  BY <1>1, <1>2, <1>3 DEF Next

THEOREM OwnershipInvariant == Spec => []Ownership
BY OwnershipInit, OwnershipStep, PTL DEF Spec

\* Whatever is retried, raced, interrupted or charged on the side, invoke
\* calls the provider at most once for a request identity.
THEOREM ProviderAtMostOnce == Spec => []ProviderCalledAtMostOnce
<1>1. Ownership => ProviderCalledAtMostOnce
  BY DEF Ownership, CallsFollowRows, ProviderCalledAtMostOnce
<1> QED
  BY <1>1, OwnershipInvariant, PTL

\* The steps that touch rows, usage or provider calls, and the one identity
\* each of them touches: its caller's.
LEMMA OnlyTheCallersIdentity ==
    ASSUME Ownership, [Next]_vars,
           NEW i \in Identities,
           \A c \in Callers : ~Owns(c, i),
           requests[i] # Absent
    PROVE  /\ requests'[i] = requests[i]
           /\ usage'[i] = usage[i]
           /\ providerCalls'[i] = providerCalls[i]
<1> USE DEF Finish, Goto, Reject, SetStatus, Owns
<1>1. ASSUME NEW c \in Callers, Reserve(c)
      PROVE  requests'[i] = requests[i] /\ UNCHANGED <<usage, providerCalls>>
  <2>1. call[c].id # i
    BY <1>1 DEF Reserve
  <2> QED
    BY <1>1, <2>1 DEF Reserve, Ownership, Shape
<1>2. ASSUME NEW c \in Callers, CallProvider(c)
      PROVE  providerCalls'[i] = providerCalls[i] /\ UNCHANGED <<requests, usage>>
  <2>1. call[c].id # i
    BY <1>2 DEF CallProvider
  <2> QED
    BY <1>2, <2>1 DEF CallProvider, Ownership, Shape
<1>3. ASSUME NEW c \in Callers,
             MarkProviderFailed(c) \/ MarkFinalizationFailed(c) \/ FinalizeSuccess(c)
      PROVE  /\ requests'[i] = requests[i]
             /\ usage'[i] = usage[i]
             /\ UNCHANGED providerCalls
  <2>1. call[c].id # i
    BY <1>3 DEF MarkProviderFailed, MarkFinalizationFailed, FinalizeSuccess
  <2> QED
    BY <1>3, <2>1
       DEF MarkProviderFailed, MarkFinalizationFailed, FinalizeSuccess, Ownership, Shape
<1>4. ASSUME NEW c \in Callers, Step(c) \/ Crash(c),
             ~Reserve(c), ~CallProvider(c),
             ~(MarkProviderFailed(c) \/ MarkFinalizationFailed(c) \/ FinalizeSuccess(c))
      PROVE  UNCHANGED <<requests, usage, providerCalls>>
  BY <1>4 DEF Step, Replay, ReplayConflict, ReserveRefused, ReserveFails,
       InterruptedAfterReserve, ProviderFails, ProviderSucceeds, UsageRejected,
       MarkProviderFailedFails, FinalizeFails, MarkFinalizationFailedFails, Crash
<1>5. CASE \E c \in Callers : Step(c) \/ Crash(c)
  BY <1>1, <1>2, <1>3, <1>4, <1>5
<1>6. CASE \/ External \/ UNCHANGED vars
           \/ \E c \in Callers, j \in Identities, p \in Payloads : Invoke(c, j, p)
  BY <1>6 DEF External, serviceVars, vars, Invoke
<1> QED
  BY <1>5, <1>6 DEF Next

\* A reservation whose caller is gone is changed by no later call.
THEOREM ReservationsStayStranded == Spec => StrandedStaysStranded
<1>1. Ownership /\ [Next]_vars =>
        [\A i \in Identities :
           requests[i].status = "RESERVED" /\ (\A c \in Callers : ~Owns(c, i)) =>
             /\ requests'[i] = requests[i]
             /\ usage'[i] = usage[i]
             /\ providerCalls'[i] = providerCalls[i]]_vars
  BY OnlyTheCallersIdentity DEF Absent
<1> QED
  BY <1>1, OwnershipInvariant, PTL DEF Spec, StrandedStaysStranded

-----------------------------------------------------------------------------
(* Refinement *)

\* The state of ManagedLifecycle that a state of the service stands for.
StatusOf == [i \in Identities |-> requests[i].status]
ReservedFor == [i \in Identities |->
    IF requests[i] = Absent THEN 0 ELSE Reservation[requests[i].payload]]
Charged == [i \in Identities |-> IF usage[i] = NoUsage THEN 0 ELSE usage[i]]

\* A function that differs from f in at most one place is an update of f.
LEMMA UpdatedAt ==
    ASSUME NEW S, NEW f, NEW g, NEW i \in S, NEW v,
           f = [x \in S |-> f[x]], g = [x \in S |-> g[x]],
           \A x \in S : g[x] = IF x = i THEN v ELSE f[x]
    PROVE  g = [f EXCEPT ![i] = v]
OBVIOUS

LEMMA MappedAreFunctions ==
    /\ StatusOf = [i \in Identities |-> StatusOf[i]]
    /\ ReservedFor = [i \in Identities |-> ReservedFor[i]]
    /\ Charged = [i \in Identities |-> Charged[i]]
BY DEF StatusOf, ReservedFor, Charged

LEMMA LifecycleInit == Init => Lifecycle!Init
<1> SUFFICES ASSUME Init PROVE Lifecycle!Init
  OBVIOUS
<1>1. \A i \in Identities :
        /\ requests[i] = Absent
        /\ requests[i].status = "ABSENT"
        /\ providerCalls[i] = 0
        /\ usage[i] = NoUsage
  BY DEF Init, Absent
<1>2. StatusOf = [i \in Identities |-> "ABSENT"]
  BY <1>1 DEF StatusOf
<1>3. ReservedFor = [i \in Identities |-> 0]
  BY <1>1 DEF ReservedFor
<1>4. Charged = [i \in Identities |-> 0]
  BY <1>1 DEF Charged
<1> QED
  BY <1>2, <1>3, <1>4
     DEF Init, Lifecycle!Init, StatusOf, ReservedFor, Charged

LEMMA ReserveRefines ==
    ASSUME Ownership, NEW c \in Callers, Reserve(c)
    PROVE  Lifecycle!Next
<1> DEFINE i == call[c].id
           p == call[c].payload
<1>1. /\ i \in Identities /\ p \in Payloads
      /\ requests[i] = Absent
      /\ requests' = [requests EXCEPT ![i] = Row(p)]
      /\ UNCHANGED <<usage, providerCalls>>
  BY DEF Ownership, CallsAreKnown, CallOf, Reserve, Row
<1>2. /\ requests'[i] = Row(p)
      /\ \A j \in Identities : j # i => requests'[j] = requests[j]
  BY <1>1 DEF Ownership, Shape
<1>3. Row(p).status = "RESERVED" /\ Row(p).payload = p /\ Row(p) # Absent
  BY RowsAreNotAbsent DEF Row
<1>4. StatusOf[i] = "ABSENT"
  BY <1>1 DEF StatusOf, Absent
<1>5. StatusOf' = [StatusOf EXCEPT ![i] = "RESERVED"]
  <2>1. \A j \in Identities :
          StatusOf'[j] = IF j = i THEN "RESERVED" ELSE StatusOf[j]
    BY <1>1, <1>2, <1>3 DEF StatusOf
  <2>2. StatusOf' = [j \in Identities |-> StatusOf'[j]]
    BY DEF StatusOf
  <2> QED
    BY <1>1, <2>1, <2>2, MappedAreFunctions, UpdatedAt
<1>6. ReservedFor' = [ReservedFor EXCEPT ![i] = Reservation[p]]
  <2>1. \A j \in Identities :
          ReservedFor'[j] = IF j = i THEN Reservation[p] ELSE ReservedFor[j]
    BY <1>1, <1>2, <1>3 DEF ReservedFor
  <2>2. ReservedFor' = [j \in Identities |-> ReservedFor'[j]]
    BY DEF ReservedFor
  <2> QED
    BY <1>1, <2>1, <2>2, MappedAreFunctions, UpdatedAt
<1>7. PICK credits \in {Reservation[q] : q \in Payloads} : credits = Reservation[p]
  BY <1>1
<1>8. Lifecycle!Reserve(i, credits)
  BY <1>1, <1>4, <1>5, <1>6, <1>7
     DEF Lifecycle!Reserve, StatusOf, ReservedFor, Charged
<1> HIDE DEF i, p
<1> QED
  BY <1>1, <1>8, Zenon DEF Lifecycle!Next

LEMMA CallProviderRefines ==
    ASSUME Ownership, NEW c \in Callers, CallProvider(c)
    PROVE  Lifecycle!Next
<1> DEFINE i == call[c].id
<1>1. /\ i \in Identities
      /\ requests[i] = Row(call[c].payload)
      /\ providerCalls[i] = 0
      /\ providerCalls' = [providerCalls EXCEPT ![i] = @ + 1]
      /\ UNCHANGED <<requests, usage>>
  BY DEF Ownership, CallsAreKnown, CallOf, OwnedRows, CallProvider
<1>2. StatusOf[i] = "RESERVED"
  BY <1>1 DEF StatusOf, Row
<1>3. providerCalls' = [providerCalls EXCEPT ![i] = 1]
  BY <1>1 DEF Ownership, Shape
<1>4. Lifecycle!CallProvider(i)
  BY <1>1, <1>2, <1>3
     DEF Lifecycle!CallProvider, StatusOf, ReservedFor, Charged
<1> HIDE DEF i
<1> QED
  BY <1>1, <1>4, Zenon DEF Lifecycle!Next

\* A row that is closed with a status changes no other row and no amount.
LEMMA ClosedRow ==
    ASSUME Ownership, NEW c \in Callers,
           pc[c] \notin {"idle", "reserve"},
           NEW status,
           requests' = [requests EXCEPT ![call[c].id].status = status]
    PROVE  /\ call[c].id \in Identities
           /\ StatusOf[call[c].id] = "RESERVED"
           /\ StatusOf' = [StatusOf EXCEPT ![call[c].id] = status]
           /\ ReservedFor[call[c].id] = Reservation[call[c].payload]
           /\ status \in Statuses => ReservedFor' = ReservedFor
<1> DEFINE i == call[c].id
           p == call[c].payload
<1>1. /\ i \in Identities
      /\ requests[i] = Row(p)
  BY DEF Ownership, CallsAreKnown, CallOf, OwnedRows
<1>2. /\ requests'[i] = [status |-> status, payload |-> p]
      /\ \A j \in Identities : j # i => requests'[j] = requests[j]
  BY <1>1 DEF Ownership, Shape, Row
<1>3. /\ StatusOf[i] = "RESERVED"
      /\ ReservedFor[i] = Reservation[p]
  BY <1>1, RowsAreNotAbsent DEF StatusOf, ReservedFor, Row
<1>4. StatusOf' = [StatusOf EXCEPT ![i] = status]
  <2>1. \A j \in Identities :
          StatusOf'[j] = IF j = i THEN status ELSE StatusOf[j]
    BY <1>2 DEF StatusOf
  <2>2. StatusOf' = [j \in Identities |-> StatusOf'[j]]
    BY DEF StatusOf
  <2> QED
    BY <1>1, <2>1, <2>2, MappedAreFunctions, UpdatedAt
<1>5. ASSUME status \in Statuses PROVE ReservedFor' = ReservedFor
  <2>1. requests'[i] # Absent /\ requests'[i].payload = p
    BY <1>2, <1>5 DEF Absent, Statuses
  <2>2. \A j \in Identities : ReservedFor'[j] = ReservedFor[j]
    BY <1>1, <1>2, <1>3, <2>1 DEF ReservedFor
  <2> QED
    BY <2>2 DEF ReservedFor
<1> QED
  BY <1>1, <1>3, <1>4, <1>5

LEMMA FailRefines ==
    ASSUME Ownership, NEW c \in Callers,
           MarkProviderFailed(c) \/ MarkFinalizationFailed(c)
    PROVE  Lifecycle!Next
<1> DEFINE i == call[c].id
<1>1. PICK final \in {"FAILED", "FINALIZATION_FAILED"} :
          /\ pc[c] \in {"mark_failed", "mark_finalization_failed"}
          /\ requests' = [requests EXCEPT ![i].status = final]
          /\ UNCHANGED <<usage, providerCalls>>
  BY DEF MarkProviderFailed, MarkFinalizationFailed, SetStatus
<1>2. /\ i \in Identities
      /\ StatusOf[i] = "RESERVED"
      /\ StatusOf' = [StatusOf EXCEPT ![i] = final]
      /\ ReservedFor' = ReservedFor
  BY <1>1, ClosedRow DEF Statuses
<1>3. providerCalls[i] = 1
  BY <1>1 DEF Ownership, OwnedRows
<1>4. Charged' = Charged
  BY <1>1 DEF Charged
<1>5. Lifecycle!Fail(i, final)
  BY <1>1, <1>2, <1>3, <1>4
     DEF Lifecycle!Fail, StatusOf, ReservedFor, Charged
<1> HIDE DEF i
<1> QED
  BY <1>1, <1>2, <1>5, Zenon DEF Lifecycle!Next

LEMMA SucceedRefines ==
    ASSUME Ownership, NEW c \in Callers, FinalizeSuccess(c)
    PROVE  Lifecycle!Next
<1> DEFINE i == call[c].id
<1>1. /\ pc[c] = "finalize"
      /\ requests' = [requests EXCEPT ![i].status = "SUCCEEDED"]
      /\ usage' = [usage EXCEPT ![i] = actual[c]]
      /\ UNCHANGED providerCalls
  BY DEF FinalizeSuccess, SetStatus
<1>2. /\ i \in Identities
      /\ StatusOf[i] = "RESERVED"
      /\ StatusOf' = [StatusOf EXCEPT ![i] = "SUCCEEDED"]
      /\ ReservedFor[i] = Reservation[call[c].payload]
      /\ ReservedFor' = ReservedFor
  BY <1>1, ClosedRow DEF Statuses
<1>3. providerCalls[i] = 1
  BY <1>1 DEF Ownership, OwnedRows
<1>4. /\ actual[c] \in 0..ReservedFor[i]
      /\ actual[c] # NoUsage
      /\ actual[c] <= ReservedFor[i]
  <2>1. Reservation[call[c].payload] \in Nat
    BY <1>1, ReservationsArePositive DEF Ownership, CallsAreKnown, CallOf
  <2>2. actual[c] \in 0..Reservation[call[c].payload]
    BY <1>1 DEF Ownership, PricesAreWithin
  <2> QED
    BY <2>1, <2>2, <1>2 DEF NoUsage
<1>5. Charged' = [Charged EXCEPT ![i] = actual[c]]
  <2>1. /\ usage'[i] = actual[c]
        /\ \A j \in Identities : j # i => usage'[j] = usage[j]
    BY <1>1, <1>2 DEF Ownership, Shape
  <2>2. \A j \in Identities :
          Charged'[j] = IF j = i THEN actual[c] ELSE Charged[j]
    BY <1>4, <2>1 DEF Charged
  <2>3. Charged' = [j \in Identities |-> Charged'[j]]
    BY DEF Charged
  <2> QED
    BY <1>2, <2>2, <2>3, MappedAreFunctions, UpdatedAt
<1>6. PICK credits \in 0..ReservedFor[i] : credits = actual[c]
  BY <1>4
<1>7. Lifecycle!Succeed(i, credits)
  BY <1>1, <1>2, <1>3, <1>4, <1>5, <1>6
     DEF Lifecycle!Succeed, StatusOf, ReservedFor, Charged
<1> HIDE DEF i
<1> QED
  BY <1>2, <1>7, Zenon DEF Lifecycle!Next, ReservedFor

\* Threads, retries, crashes, failed transactions and a shared ledger come
\* down to the lifecycle that each request identity is promised.
THEOREM ServiceImplementsLifecycle == Spec => ImplementsLifecycle
<1>1. ASSUME Ownership, [Next]_vars PROVE [Lifecycle!Next]_(Lifecycle!vars)
  <2>1. CASE UNCHANGED <<requests, usage, providerCalls>>
    BY <2>1 DEF Lifecycle!vars
  <2>2. ASSUME NEW c \in Callers, Step(c)
        PROVE  \/ Lifecycle!Next
               \/ UNCHANGED <<requests, usage, providerCalls>>
    <3>1. CASE Reserve(c) \/ CallProvider(c) \/ FinalizeSuccess(c)
               \/ MarkProviderFailed(c) \/ MarkFinalizationFailed(c)
      BY <3>1, <1>1, ReserveRefines, CallProviderRefines, FailRefines, SucceedRefines
    <3>2. CASE ~(Reserve(c) \/ CallProvider(c) \/ FinalizeSuccess(c)
                 \/ MarkProviderFailed(c) \/ MarkFinalizationFailed(c))
      BY <2>2, <3>2
         DEF Step, Replay, ReplayConflict, ReserveRefused, ReserveFails,
             InterruptedAfterReserve, ProviderFails, ProviderSucceeds,
             UsageRejected, MarkProviderFailedFails, FinalizeFails,
             MarkFinalizationFailedFails, Reject
    <3> QED
      BY <3>1, <3>2
  <2>3. CASE ~ \E c \in Callers : Step(c)
    BY <1>1, <2>3, <2>1
       DEF Next, External, serviceVars, vars, Invoke, Crash
  <2> QED
    BY <2>1, <2>2, <2>3
<1> QED
  BY <1>1, LifecycleInit, OwnershipInvariant, PTL
     DEF Spec, ImplementsLifecycle, Lifecycle!Spec

-----------------------------------------------------------------------------
(* The ledger and the usage records *)

\* The instance's copies of the domain's operators are the operators here.
LEMMA SameDomain ==
    /\ \A t : Ledger!KeyOf(t) = KeyOf(t)
    /\ \A d, k : Ledger!HasKey(d, k) = HasKey(d, k)
    /\ \A d, t : Ledger!AppendTransaction(d, t) = AppendTransaction(d, t)
    /\ \A d, t : Ledger!AppendKeyed(d, t) = AppendKeyed(d, t)
    /\ \A type, a, amount, r, note :
         Ledger!Transaction(type, a, amount, r, note) = Transaction(type, a, amount, r, note)
<1>1. \A t : Ledger!KeyOf(t) = KeyOf(t)
  BY DEF KeyOf, Ledger!KeyOf
<1>2. \A d, k : Ledger!HasKey(d, k) = HasKey(d, k)
  BY DEF Ledger!HasKey, HasKey, Ledger!NoRow, NoRow
<1>3. \A d, t : Ledger!AppendTransaction(d, t) = AppendTransaction(d, t)
  BY DEF Ledger!AppendTransaction, AppendTransaction
<1>4. \A d, t : Ledger!AppendKeyed(d, t) = AppendKeyed(d, t)
  BY <1>1 DEF Ledger!AppendKeyed, AppendKeyed, Ledger!AppendIdempotencyRecord,
              AppendIdempotencyRecord, Ledger!AppendTransaction,
              AppendTransaction, KeyOf, Ledger!KeyOf
<1>5. \A type, a, amount, r, note :
        Ledger!Transaction(type, a, amount, r, note) = Transaction(type, a, amount, r, note)
  BY DEF Ledger!Transaction, Transaction
<1> QED
  BY <1>1, <1>2, <1>3, <1>4, <1>5

\* The ledger as its services leave it.
WellKept == db \in Database /\ KeysMatch(db)

Kept == WellKept' /\ Extends(db', db)

\* The other clients append one row, a keyed one under a key that is free.
LEMMA ExternalAppends ==
    ASSUME External
    PROVE  \E t \in CreditTransaction :
             \/ t.type \notin KeyedTypes /\ db' = AppendTransaction(db, t)
             \/ /\ t.type \in KeyedTypes
                /\ ~HasKey(db, KeyOf(t))
                /\ db' = AppendKeyed(db, t)
<1>1. PICK a \in Accounts, amount \in Amounts, note \in Notes :
        \/ Ledger!Grant(a, amount, note)
        \/ Ledger!Adjust(a, -amount, note)
        \/ \E r \in Requests : \/ Ledger!Charge(a, r, amount, note)
                               \/ Ledger!Refund(a, r, amount, note)
  BY DEF External
<1>2. amount \in Int /\ amount > 0
  BY TransactionTypes
<1>3. CASE Ledger!Grant(a, amount, note)
  <2> DEFINE t == Transaction("ADMIN_GRANT", a, amount, NoRequest, note)
  <2>1. t \in CreditTransaction
    BY <1>2, TransactionTypes
  <2>2. t.type \notin KeyedTypes
    BY DEF Transaction, KeyedTypes
  <2>3. db' = AppendTransaction(db, t)
    BY <1>3, SameDomain DEF Ledger!Grant
  <2> HIDE DEF t
  <2> QED
    BY <2>1, <2>2, <2>3
<1>4. CASE Ledger!Adjust(a, -amount, note)
  <2> DEFINE t == Transaction("ADJUSTMENT", a, -amount, NoRequest, note)
  <2>1. t \in CreditTransaction
    BY <1>2, TransactionTypes
  <2>2. t.type \notin KeyedTypes
    BY DEF Transaction, KeyedTypes
  <2>3. db' = AppendTransaction(db, t)
    BY <1>4, SameDomain DEF Ledger!Adjust
  <2> HIDE DEF t
  <2> QED
    BY <2>1, <2>2, <2>3
<1>5. CASE \E r \in Requests : Ledger!Charge(a, r, amount, note)
  <2>1. PICK r \in Requests : Ledger!Charge(a, r, amount, note)
    BY <1>5
  <2> DEFINE t == Transaction("USAGE", a, -amount, r, note)
  <2>2. t \in CreditTransaction
    BY <1>2, TransactionTypes
  <2>3. t.type \in KeyedTypes
    BY DEF Transaction, KeyedTypes
  <2>4. ~HasKey(db, KeyOf(t)) /\ db' = AppendKeyed(db, t)
    BY <2>1, SameDomain DEF Ledger!Charge
  <2> HIDE DEF t
  <2> QED
    BY <2>2, <2>3, <2>4
<1>6. CASE \E r \in Requests : Ledger!Refund(a, r, amount, note)
  <2>1. PICK r \in Requests : Ledger!Refund(a, r, amount, note)
    BY <1>6
  <2> DEFINE t == Transaction("REFUND", a, amount, r, note)
  <2>2. t \in CreditTransaction
    BY <1>2, TransactionTypes
  <2>3. t.type \in KeyedTypes
    BY DEF Transaction, KeyedTypes
  <2>4. ~HasKey(db, KeyOf(t)) /\ db' = AppendKeyed(db, t)
    BY <2>1, SameDomain DEF Ledger!Refund
  <2> HIDE DEF t
  <2> QED
    BY <2>2, <2>3, <2>4
<1> QED
  BY <1>1, <1>3, <1>4, <1>5, <1>6

LEMMA ExternalKeeps ==
    ASSUME WellKept, External
    PROVE  Kept
<1>1. PICK t \in CreditTransaction :
        \/ t.type \notin KeyedTypes /\ db' = AppendTransaction(db, t)
        \/ /\ t.type \in KeyedTypes
           /\ ~HasKey(db, KeyOf(t))
           /\ db' = AppendKeyed(db, t)
  BY ExternalAppends
<1>2. CASE t.type \notin KeyedTypes /\ db' = AppendTransaction(db, t)
  BY <1>2, UnkeyedAppend DEF WellKept, Kept
<1>3. CASE /\ t.type \in KeyedTypes
           /\ ~HasKey(db, KeyOf(t))
           /\ db' = AppendKeyed(db, t)
  BY <1>3, KeyedAppend DEF WellKept, Kept
<1> QED
  BY <1>1, <1>2, <1>3

LEMMA UnchangedKeeps ==
    ASSUME WellKept, UNCHANGED db
    PROVE  Kept
BY DEF WellKept, Kept, Extends, Database, HasKey

\* A finalization leaves the charge it needs in the ledger.
LEMMA FinalizeCharges ==
    ASSUME WellKept, Ownership, NEW c \in Callers, FinalizeSuccess(c)
    PROVE  /\ Kept
           /\ actual[c] > 0 =>
                /\ HasKey(db', UsageKey(call[c].id))
                /\ Existing(db', UsageKey(call[c].id)).amount = -actual[c]
<1>1. /\ call[c] \in CallOf
      /\ Reservation[call[c].payload] \in Nat
      /\ actual[c] \in Nat
  BY ReservationsArePositive
     DEF FinalizeSuccess, Ownership, CallsAreKnown, PricesAreWithin, CallOf
<1>2. CASE actual[c] = 0
  BY <1>2, UnchangedKeeps DEF FinalizeSuccess
<1>3. CASE actual[c] # 0
  <2> DEFINE t == ChargeRow(c)
  <2>1. PICK a \in Accounts, r \in Requests :
            call[c].id[1] = a /\ call[c].id[2] = r
    BY <1>1 DEF CallOf, Identities
  <2>2. t \in CreditTransaction
    <3>1. \A m \in Int : m > 0 =>
            Transaction("USAGE", a, -m, r, ManagedNote) \in CreditTransaction
      BY TransactionTypes, NoteIsANote
    <3>2. actual[c] \in Int /\ actual[c] > 0
      BY <1>1, <1>3
    <3>3. t = Transaction("USAGE", a, -actual[c], r, ManagedNote)
      BY <2>1 DEF ChargeRow
    <3> HIDE DEF t
    <3> QED
      BY <3>1, <3>2, <3>3
  <2>3. /\ t.type \in KeyedTypes
        /\ t.amount = -actual[c]
        /\ KeyOf(t) = UsageKey(call[c].id)
    BY DEF ChargeRow, Transaction, KeyedTypes, KeyOf, UsageKey
  <2>4. KeyOf(t) \in Keys
    BY <2>1, <2>3 DEF Keys, KeyOf, UsageKey, KeyedTypes
  <2>5. ChargeUsage(c)
    BY <1>3 DEF FinalizeSuccess
  <2>6. \/ ~HasKey(db, KeyOf(t)) /\ db' = AppendKeyed(db, t)
        \/ HasKey(db, KeyOf(t)) /\ SamePayload(Existing(db, KeyOf(t)), t) /\ UNCHANGED db
    BY <2>5 DEF ChargeUsage
  <2> HIDE DEF t
  <2>7. CASE ~HasKey(db, KeyOf(t)) /\ db' = AppendKeyed(db, t)
    <3>1. /\ Kept
          /\ db'.idempotency[KeyOf(t)] = Len(db.transactions) + 1
          /\ db'.transactions[Len(db.transactions) + 1] = t
      BY <2>2, <2>3, <2>7, KeyedAppend DEF WellKept, Kept
    <3>2. Len(db.transactions) \in Nat
      BY DEF WellKept, Database
    <3> QED
      BY <3>1, <3>2, <2>3 DEF HasKey, NoRow, Existing
  <2>8. CASE HasKey(db, KeyOf(t)) /\ SamePayload(Existing(db, KeyOf(t)), t) /\ UNCHANGED db
    BY <2>8, <2>3, UnchangedKeeps DEF SamePayload
  <2> QED
    BY <2>6, <2>7, <2>8
<1> QED
  BY <1>1, <1>2, <1>3

\* What a key in use names does not change.
LEMMA KeptCharges ==
    ASSUME WellKept, Kept, NEW k \in Keys, HasKey(db, k)
    PROVE  HasKey(db', k) /\ Existing(db', k) = Existing(db, k)
BY DEF WellKept, Kept, KeysMatch, Extends, HasKey, Existing

\* The part of ChargeBacksSuccess that is about one identity.
Backed(i) ==
    /\ requests[i].status = "SUCCEEDED" <=> usage[i] # NoUsage
    /\ requests[i].status = "SUCCEEDED" =>
           usage[i] <= Reservation[requests[i].payload]
    /\ usage[i] > 0 => /\ HasKey(db, UsageKey(i))
                       /\ Existing(db, UsageKey(i)).amount = -usage[i]

LEMMA BackedStays ==
    ASSUME WellKept, Kept, NEW i \in Identities, Backed(i),
           requests'[i] = requests[i], usage'[i] = usage[i]
    PROVE  Backed(i)'
<1>1. UsageKey(i) \in Keys
  BY DEF UsageKey, Identities, Keys, KeyedTypes
<1>2. HasKey(db, UsageKey(i)) =>
        /\ HasKey(db', UsageKey(i))
        /\ Existing(db', UsageKey(i)) = Existing(db, UsageKey(i))
  BY <1>1, KeptCharges
<1> QED
  BY <1>2 DEF Backed

Paid == WellKept /\ \A i \in Identities : Backed(i)

LEMMA PaidInit == Init => Paid
<1> SUFFICES ASSUME Init PROVE Paid
  OBVIOUS
<1>1. /\ db.transactions = << >>
      /\ db.idempotency = [k \in Keys |-> NoRow]
      /\ db.balance = [a \in Accounts |-> 0]
      /\ db = [transactions |-> << >>, idempotency |-> [k \in Keys |-> NoRow],
               balance |-> [a \in Accounts |-> 0]]
  BY DEF Init, EmptyDatabase
<1>2. WellKept
  BY <1>1 DEF WellKept, Database, KeysMatch, HasKey, NoRow
<1>3. \A i \in Identities : Backed(i)
  BY DEF Init, Backed, Absent, NoUsage
<1> QED
  BY <1>2, <1>3 DEF Paid

LEMMA PaidFinalize ==
    ASSUME Paid, Ownership, NEW c \in Callers, FinalizeSuccess(c)
    PROVE  Paid'
<1>1. PICK i \in Identities : i = call[c].id
  BY DEF FinalizeSuccess, Ownership, CallsAreKnown, CallOf
<1>2. /\ requests[i] = Row(call[c].payload)
      /\ requests' = [requests EXCEPT ![i].status = "SUCCEEDED"]
      /\ usage' = [usage EXCEPT ![i] = actual[c]]
      /\ Reservation[call[c].payload] \in Nat
      /\ actual[c] \in 0..Reservation[call[c].payload]
  BY <1>1, ReservationsArePositive
     DEF FinalizeSuccess, SetStatus, Ownership, CallsAreKnown, OwnedRows,
         PricesAreWithin, CallOf
<1>3. /\ Kept
      /\ actual[c] > 0 => /\ HasKey(db', UsageKey(i))
                          /\ Existing(db', UsageKey(i)).amount = -actual[c]
  BY <1>1, FinalizeCharges DEF Paid
<1>4. /\ requests'[i].status = "SUCCEEDED"
      /\ requests'[i].payload = call[c].payload
      /\ usage'[i] = actual[c]
      /\ \A j \in Identities \ {i} :
           requests'[j] = requests[j] /\ usage'[j] = usage[j]
  BY <1>2 DEF Ownership, Shape, Row
<1>5. Backed(i)'
  BY <1>2, <1>3, <1>4 DEF Backed, NoUsage
<1>6. \A j \in Identities \ {i} : Backed(j)'
  BY <1>3, <1>4, BackedStays DEF Paid
<1> QED
  BY <1>3, <1>5, <1>6 DEF Paid, Kept

\* Opening a request, or closing it without success.
LEMMA PaidRowChange ==
    ASSUME Paid, Ownership, NEW c \in Callers,
           Reserve(c) \/ MarkProviderFailed(c) \/ MarkFinalizationFailed(c)
    PROVE  Paid'
<1>1. PICK i \in Identities : i = call[c].id
  BY DEF Reserve, MarkProviderFailed, MarkFinalizationFailed, Ownership,
         CallsAreKnown, CallOf
<1>2. /\ requests[i].status \in {"ABSENT", "RESERVED"}
      /\ UNCHANGED <<db, usage>>
  BY <1>1 DEF Reserve, MarkProviderFailed, MarkFinalizationFailed, SetStatus, Absent
<1>3. /\ requests'[i].status \in {"RESERVED", "FAILED", "FINALIZATION_FAILED"}
      /\ \A j \in Identities \ {i} : requests'[j] = requests[j]
  <2>1. CASE Reserve(c)
    BY <1>1, <2>1 DEF Reserve, Ownership, Shape
  <2>2. CASE MarkProviderFailed(c) \/ MarkFinalizationFailed(c)
    <3>1. PICK final \in {"FAILED", "FINALIZATION_FAILED"} :
              requests' = [requests EXCEPT ![i].status = final]
      BY <1>1, <2>2 DEF MarkProviderFailed, MarkFinalizationFailed, SetStatus
    <3>2. requests[i] = Row(call[c].payload)
      BY <1>1, <2>2
         DEF MarkProviderFailed, MarkFinalizationFailed, Ownership, OwnedRows
    <3> QED
      BY <3>1, <3>2 DEF Ownership, Shape, Row
  <2> QED
    BY <2>1, <2>2
<1>4. Kept
  BY <1>2, UnchangedKeeps DEF Paid
<1>5. Backed(i)'
  <2>1. usage[i] = NoUsage
    BY <1>2 DEF Paid, Backed
  <2> QED
    BY <1>2, <1>3, <2>1 DEF Backed, NoUsage
<1>6. \A j \in Identities \ {i} : Backed(j)'
  BY <1>2, <1>3, <1>4, BackedStays DEF Paid
<1> QED
  BY <1>4, <1>5, <1>6 DEF Paid, Kept

LEMMA PaidStep == Paid /\ Ownership /\ [Next]_vars => Paid'
<1> SUFFICES ASSUME Paid, Ownership, [Next]_vars PROVE Paid'
  OBVIOUS
<1>1. ASSUME Kept, UNCHANGED <<requests, usage>> PROVE Paid'
  BY <1>1, BackedStays DEF Paid, Kept
<1>2. CASE UNCHANGED <<db, requests, usage>>
  BY <1>1, <1>2, UnchangedKeeps DEF Paid
<1>3. CASE External
  BY <1>1, <1>3, ExternalKeeps DEF Paid, External, serviceVars
<1>4. ASSUME NEW c \in Callers, Step(c)
      PROVE  Paid' \/ UNCHANGED <<db, requests, usage>>
  <2>1. CASE \/ FinalizeSuccess(c) \/ Reserve(c) \/ MarkProviderFailed(c)
             \/ MarkFinalizationFailed(c)
    BY <2>1, PaidFinalize, PaidRowChange
  <2>2. CASE ~(\/ FinalizeSuccess(c) \/ Reserve(c) \/ MarkProviderFailed(c)
               \/ MarkFinalizationFailed(c))
    BY <1>4, <2>2
       DEF Step, Replay, ReplayConflict, ReserveRefused, ReserveFails,
           InterruptedAfterReserve, CallProvider, ProviderFails,
           ProviderSucceeds, UsageRejected, MarkProviderFailedFails,
           FinalizeFails, MarkFinalizationFailedFails, Reject
  <2> QED
    BY <2>1, <2>2
<1>5. CASE ~External /\ ~ \E c \in Callers : Step(c)
  BY <1>2, <1>5 DEF Next, Invoke, Crash, vars
<1> QED
  BY <1>2, <1>3, <1>4, <1>5

\* Success and charge go together: no interleaving, failure or crash leaves a
\* succeeded request without its usage record and its charge, or a usage
\* record without success.
THEOREM SuccessIsCharged == Spec => []ChargeBacksSuccess
<1>1. Paid => ChargeBacksSuccess
  BY DEF Paid, Backed, ChargeBacksSuccess
<1> QED
  BY <1>1, PaidInit, PaidStep, OwnershipInvariant, PTL DEF Spec

-----------------------------------------------------------------------------
(* What invoke answered *)

\* The actors of a step.
Acts(c) ==
    \/ \E i \in Identities, p \in Payloads : Invoke(c, i, p)
    \/ Step(c)
    \/ Crash(c)

\* A step of one caller is no step of another.
LEMMA OthersStay ==
    ASSUME Ownership, outcome \in [Callers -> Outcomes],
           NEW c \in Callers, Acts(c)
    PROVE  /\ \A d \in Callers \ {c} :
                /\ pc'[d] = pc[d]
                /\ call'[d] = call[d]
                /\ actual'[d] = actual[d]
                /\ outcome'[d] = outcome[d]
<1> USE DEF Ownership, Shape, Finish, Goto, Reject
<1>1. CASE \E i \in Identities, p \in Payloads : Invoke(c, i, p)
  BY <1>1 DEF Invoke
<1>2. CASE Crash(c)
  BY <1>2 DEF Crash
<1>3. CASE \/ Replay(c) \/ ReplayConflict(c) \/ Reserve(c) \/ ReserveRefused(c)
           \/ ReserveFails(c) \/ InterruptedAfterReserve(c)
  BY <1>3 DEF Replay, ReplayConflict, Reserve, ReserveRefused, ReserveFails,
              InterruptedAfterReserve
<1>4. CASE \/ CallProvider(c) \/ ProviderFails(c) \/ UsageRejected(c)
           \/ MarkProviderFailed(c) \/ MarkProviderFailedFails(c)
           \/ FinalizeFails(c) \/ MarkFinalizationFailed(c)
           \/ MarkFinalizationFailedFails(c)
  BY <1>4 DEF CallProvider, ProviderFails, UsageRejected, MarkProviderFailed,
              MarkProviderFailedFails, FinalizeFails, MarkFinalizationFailed,
              MarkFinalizationFailedFails
<1>5. CASE ProviderSucceeds(c)
  <2>1. PICK credits \in 0..Reservation[call[c].payload] :
            actual' = [actual EXCEPT ![c] = credits]
    BY <1>5 DEF ProviderSucceeds
  <2> QED
    BY <1>5, <2>1 DEF ProviderSucceeds
<1>6. CASE FinalizeSuccess(c)
  BY <1>6 DEF FinalizeSuccess
<1> QED
  BY <1>1, <1>2, <1>3, <1>4, <1>5, <1>6 DEF Acts, Step

\* A row that no caller owns: closed, or left behind RESERVED.
Settled(i) == requests[i] # Absent /\ \A c \in Callers : ~Owns(c, i)

LEMMA ClosedIsSettled ==
    ASSUME Ownership, NEW i \in Identities,
           requests[i].status \notin {"ABSENT", "RESERVED"}
    PROVE  Settled(i)
<1>1. requests[i] # Absent
  BY DEF Absent
<1>2. ASSUME NEW c \in Callers, Owns(c, i) PROVE FALSE
  <2>1. requests[i] = Row(call[c].payload)
    BY <1>2 DEF Owns, Ownership, OwnedRows
  <2> QED
    BY <2>1 DEF Row
<1> QED
  BY <1>1, <1>2 DEF Settled

LEMMA SettledStays ==
    ASSUME Ownership, outcome \in [Callers -> Outcomes], [Next]_vars,
           NEW i \in Identities, Settled(i)
    PROVE  /\ Settled(i)'
           /\ requests'[i] = requests[i]
           /\ usage'[i] = usage[i]
<1>1. /\ requests'[i] = requests[i]
      /\ usage'[i] = usage[i]
  BY OnlyTheCallersIdentity DEF Settled
<1>2. ASSUME NEW c \in Callers, Owns(c, i)' PROVE FALSE
  <2>1. /\ pc'[c] \notin {"idle", "reserve"}
        /\ call'[c].id = i
    BY <1>2 DEF Owns
  <2>2. ~(pc'[c] = pc[c] /\ call'[c] = call[c])
    BY <2>1 DEF Settled, Owns
  <2>3. Acts(c)
    <3>1. ~(UNCHANGED vars \/ External)
      BY <2>2 DEF vars, External, serviceVars
    <3>2. PICK d \in Callers : Acts(d)
      BY <3>1 DEF Next, Acts
    <3>3. d = c
      BY <2>2, <3>2, OthersStay
    <3> QED
      BY <3>2, <3>3
  <2>4. Reserve(c) \/ (pc[c] \notin {"idle", "reserve"} /\ call'[c] = call[c])
    BY <2>1, <2>3
       DEF Acts, Invoke, Crash, Step, Replay, ReplayConflict, ReserveRefused,
           ReserveFails, InterruptedAfterReserve, CallProvider, ProviderFails,
           ProviderSucceeds, UsageRejected, MarkProviderFailed,
           MarkProviderFailedFails, FinalizeSuccess, FinalizeFails,
           MarkFinalizationFailed, MarkFinalizationFailedFails, Finish, Goto,
           Reject, Ownership, Shape
  <2>5. Reserve(c)
    BY <2>1, <2>4 DEF Settled, Owns
  <2> QED
    BY <2>1, <2>5 DEF Reserve, Settled
<1> QED
  BY <1>1, <1>2 DEF Settled

\* A request that exists goes on to exist.
LEMMA RowsRemain ==
    ASSUME Ownership, outcome \in [Callers -> Outcomes], [Next]_vars,
           NEW i \in Identities, requests[i].status # "ABSENT"
    PROVE  requests'[i].status # "ABSENT"
<1>1. requests[i] # Absent
  BY DEF Absent
<1>2. CASE Settled(i)
  BY <1>2, SettledStays
<1>3. CASE ~Settled(i)
  <2>1. PICK c \in Callers : Owns(c, i)
    BY <1>1, <1>3 DEF Settled
  <2>2. requests[i] = Row(call[c].payload) /\ requests[i].status = "RESERVED"
    BY <2>1 DEF Owns, Ownership, OwnedRows, Row
  <2>3. CASE requests' = requests
    BY <2>2, <2>3
  <2>4. CASE \E d \in Callers : Reserve(d)
    BY <2>4, <1>1 DEF Reserve, Ownership, Shape
  <2>5. ASSUME NEW d \in Callers,
               MarkProviderFailed(d) \/ MarkFinalizationFailed(d) \/ FinalizeSuccess(d)
        PROVE  requests'[i].status # "ABSENT"
    <3>1. PICK status \in {"FAILED", "FINALIZATION_FAILED", "SUCCEEDED"} :
              requests' = [requests EXCEPT ![call[d].id].status = status]
      BY <2>5 DEF MarkProviderFailed, MarkFinalizationFailed, FinalizeSuccess, SetStatus
    <3> QED
      BY <3>1, <2>2 DEF Ownership, Shape, Row
  <2>6. \/ requests' = requests
        \/ \E d \in Callers : \/ Reserve(d) \/ MarkProviderFailed(d)
                              \/ MarkFinalizationFailed(d) \/ FinalizeSuccess(d)
    BY DEF Next, External, serviceVars, vars, Invoke, Crash, Step, Replay,
           ReplayConflict, ReserveRefused, ReserveFails, InterruptedAfterReserve,
           CallProvider, ProviderFails, ProviderSucceeds, UsageRejected,
           MarkProviderFailedFails, FinalizeFails, MarkFinalizationFailedFails, Reject
  <2> QED
    BY <2>3, <2>4, <2>5, <2>6
<1> QED
  BY <1>2, <1>3

\* What the answer a caller last received says of its request.
Told(c) ==
    LET i == call[c].id
    IN  pc[c] = "idle" /\ outcome[c] \notin {"none", "rejected"} =>
          /\ call[c] \in CallOf
          /\ outcome[c] \in {"succeeded", "replayed"} =>
                 requests[i].status = "SUCCEEDED" /\ usage[i] = actual[c]
          /\ outcome[c] \in {"provider_error", "request_failed"} =>
                 requests[i].status = "FAILED"
          /\ outcome[c] = "finalization_error" =>
                 requests[i].status \in Holding /\ Settled(i)
          /\ outcome[c] = "recovery_required" => requests[i].status # "ABSENT"

Answers ==
    /\ outcome \in [Callers -> Outcomes]
    /\ actual \in [Callers -> Nat]
    /\ \A c \in Callers : Told(c)

\* An answer outlives the steps of others: closed and stranded rows stay.
LEMMA ToldStays ==
    ASSUME Ownership, Answers, [Next]_vars, NEW c \in Callers,
           pc'[c] = pc[c], call'[c] = call[c], actual'[c] = actual[c],
           outcome'[c] = outcome[c]
    PROVE  Told(c)'
<1> DEFINE i == call[c].id
<1> SUFFICES ASSUME pc[c] = "idle", outcome[c] \notin {"none", "rejected"}
             PROVE  Told(c)'
  BY DEF Told
<1>1. Told(c) /\ outcome \in [Callers -> Outcomes]
  BY DEF Answers
<1>2. call[c] \in CallOf /\ i \in Identities
  BY <1>1 DEF Told, CallOf
<1>3. CASE outcome[c] \in {"succeeded", "replayed", "provider_error",
                           "request_failed", "finalization_error"}
  <2>1. Settled(i)
    BY <1>1, <1>2, <1>3, ClosedIsSettled DEF Told
  <2>2. Settled(i)' /\ requests'[i] = requests[i] /\ usage'[i] = usage[i]
    BY <1>1, <1>2, <2>1, SettledStays
  <2> QED
    BY <1>1, <1>2, <1>3, <2>2 DEF Told
<1>4. CASE outcome[c] = "recovery_required"
  <2>1. requests'[i].status # "ABSENT"
    BY <1>1, <1>2, <1>4, RowsRemain DEF Told
  <2> QED
    BY <1>2, <1>4, <2>1 DEF Told
<1>5. outcome[c] \in Outcomes
  BY <1>1
<1> QED
  BY <1>3, <1>4, <1>5 DEF Outcomes

\* A caller that leaves its reservation behind leaves it without an owner.
LEMMA LeavesSettled ==
    ASSUME Ownership, NEW c \in Callers, NEW i \in Identities, i = call[c].id,
           pc' = [pc EXCEPT ![c] = "idle"], UNCHANGED call,
           requests'[i] # Absent,
           Owns(c, i) \/ requests[i].status \notin {"ABSENT", "RESERVED"}
    PROVE  Settled(i)'
<1>1. ASSUME NEW d \in Callers, Owns(d, i)' PROVE FALSE
  <2>1. d # c /\ Owns(d, i)
    BY <1>1 DEF Owns, Ownership, Shape
  <2>2. ~Owns(c, i)
    BY <2>1 DEF Ownership, OneOwner, Owns
  <2>3. Settled(i)
    BY <2>2, ClosedIsSettled
  <2> QED
    BY <2>1, <2>3 DEF Settled
<1> QED
  BY <1>1 DEF Settled

LEMMA ReplayTells ==
    ASSUME Ownership, Answers, Paid, NEW c \in Callers, Replay(c)
    PROVE  Told(c)' /\ actual' \in [Callers -> Nat] /\ outcome' \in [Callers -> Outcomes]
<1>1. PICK i \in Identities : i = call[c].id
  BY DEF Replay, Ownership, CallsAreKnown, CallOf
<1>2. /\ call[c] \in CallOf
      /\ requests[i] # Absent
      /\ requests[i].status \in Statuses
  BY <1>1 DEF Replay, Ownership, CallsAreKnown, Shape
<1>3. /\ pc' = [pc EXCEPT ![c] = "idle"]
      /\ outcome' = [outcome EXCEPT ![c] = ReplayOutcome[requests[i].status]]
      /\ actual' = [actual EXCEPT ![c] =
             IF requests[i].status = "SUCCEEDED" THEN usage[i] ELSE 0]
      /\ UNCHANGED <<requests, usage, call>>
  BY <1>1 DEF Replay, Finish, Goto
<1>4. requests[i].status = "SUCCEEDED" => usage[i] \in Nat
  BY DEF Paid, Backed, Ownership, Shape
<1>5. actual' \in [Callers -> Nat]
  BY <1>3, <1>4 DEF Answers
<1>6. /\ outcome'[c] = ReplayOutcome[requests[i].status]
      /\ outcome'[c] \in Outcomes
      /\ outcome' \in [Callers -> Outcomes]
  BY <1>2, <1>3 DEF Answers, Statuses, Outcomes, ReplayOutcome
<1>7. requests[i].status = "FINALIZATION_FAILED" => Settled(i)'
  BY <1>1, <1>2, <1>3, LeavesSettled
<1>8. actual'[c] = IF requests[i].status = "SUCCEEDED" THEN usage[i] ELSE 0
  BY <1>3 DEF Answers
<1>9. Told(c)'
  <2>1. CASE requests[i].status = "RESERVED"
    BY <2>1, <1>1, <1>2, <1>3, <1>6 DEF Told, ReplayOutcome
  <2>2. CASE requests[i].status = "SUCCEEDED"
    BY <2>2, <1>1, <1>2, <1>3, <1>6, <1>8 DEF Told, ReplayOutcome
  <2>3. CASE requests[i].status = "FAILED"
    BY <2>3, <1>1, <1>2, <1>3, <1>6 DEF Told, ReplayOutcome
  <2>4. CASE requests[i].status = "FINALIZATION_FAILED"
    BY <2>4, <1>1, <1>2, <1>3, <1>6, <1>7 DEF Told, ReplayOutcome, Holding
  <2> QED
    BY <2>1, <2>2, <2>3, <2>4, <1>2 DEF Statuses
<1> QED
  BY <1>5, <1>6, <1>9

\* The steps that end inside invoke, or with nothing to say.
LEMMA SilentTells ==
    ASSUME Ownership, Answers, NEW c \in Callers,
           \/ \E i \in Identities, p \in Payloads : Invoke(c, i, p)
           \/ Crash(c) \/ ReplayConflict(c) \/ Reserve(c) \/ ReserveRefused(c)
           \/ ReserveFails(c) \/ CallProvider(c) \/ ProviderFails(c)
           \/ ProviderSucceeds(c) \/ UsageRejected(c) \/ FinalizeFails(c)
    PROVE  Told(c)' /\ actual' \in [Callers -> Nat] /\ outcome' \in [Callers -> Outcomes]
<1> USE DEF Finish, Goto, Reject
<1>1. CASE \/ \E i \in Identities, p \in Payloads : Invoke(c, i, p)
           \/ Reserve(c) \/ CallProvider(c) \/ ProviderFails(c)
           \/ UsageRejected(c) \/ FinalizeFails(c)
  BY <1>1 DEF Invoke, Reserve, CallProvider, ProviderFails, UsageRejected,
              FinalizeFails, Told, Answers, Ownership, Shape, Outcomes
<1>2. CASE Crash(c) \/ ReplayConflict(c) \/ ReserveRefused(c) \/ ReserveFails(c)
  BY <1>2 DEF Crash, ReplayConflict, ReserveRefused, ReserveFails, Told, Answers,
              Outcomes
<1>3. CASE ProviderSucceeds(c)
  <2>1. PICK credits \in 0..Reservation[call[c].payload] :
            actual' = [actual EXCEPT ![c] = credits]
    BY <1>3 DEF ProviderSucceeds
  <2>2. Reservation[call[c].payload] \in Nat
    BY <1>3, ReservationsArePositive
       DEF ProviderSucceeds, Ownership, CallsAreKnown, CallOf
  <2>3. credits \in Nat
    BY <2>2
  <2> QED
    BY <1>3, <2>1, <2>3 DEF ProviderSucceeds, Told, Answers, Ownership, Shape
<1> QED
  BY <1>1, <1>2, <1>3

\* The steps that close a request, or leave it RESERVED.
LEMMA ClosingTells ==
    ASSUME Ownership, Answers, NEW c \in Callers,
           \/ InterruptedAfterReserve(c) \/ MarkProviderFailed(c)
           \/ MarkProviderFailedFails(c) \/ FinalizeSuccess(c)
           \/ MarkFinalizationFailed(c) \/ MarkFinalizationFailedFails(c)
    PROVE  Told(c)' /\ actual' \in [Callers -> Nat] /\ outcome' \in [Callers -> Outcomes]
<1> USE DEF Finish, Goto
<1>1. /\ pc[c] \notin {"idle", "reserve"}
      /\ pc' = [pc EXCEPT ![c] = "idle"]
      /\ UNCHANGED <<call, actual>>
  BY DEF InterruptedAfterReserve, MarkProviderFailed, MarkProviderFailedFails,
         FinalizeSuccess, MarkFinalizationFailed, MarkFinalizationFailedFails
<1>2. PICK i \in Identities : i = call[c].id
  BY <1>1 DEF Ownership, CallsAreKnown, CallOf
<1>3. /\ call[c] \in CallOf
      /\ requests[i] = Row(call[c].payload)
      /\ requests[i].status = "RESERVED"
  BY <1>1, <1>2 DEF Ownership, CallsAreKnown, OwnedRows, Row
<1>4. actual' \in [Callers -> Nat] /\ actual'[c] = actual[c]
  BY <1>1 DEF Answers
<1>5. \A status : requests' = [requests EXCEPT ![i].status = status] =>
          requests'[i].status = status
  BY <1>3 DEF Ownership, Shape, Row
<1>6. requests'[i] # Absent => Settled(i)'
  BY <1>1, <1>2, LeavesSettled DEF Owns
<1>7. outcome' \in [Callers -> Outcomes]
  BY DEF InterruptedAfterReserve, MarkProviderFailed, MarkProviderFailedFails,
         FinalizeSuccess, MarkFinalizationFailed, MarkFinalizationFailedFails,
         Answers, Outcomes
<1>8. CASE InterruptedAfterReserve(c) \/ MarkProviderFailedFails(c)
  <2>1. outcome'[c] = "recovery_required" /\ requests'[i].status = "RESERVED"
    BY <1>3, <1>8 DEF InterruptedAfterReserve, MarkProviderFailedFails, Answers
  <2> QED
    BY <2>1, <1>1, <1>2, <1>3, <1>4, <1>7 DEF Told
<1>9. CASE MarkProviderFailed(c)
  <2>1. outcome'[c] = "provider_error" /\ requests'[i].status = "FAILED"
    BY <1>2, <1>5, <1>9 DEF MarkProviderFailed, SetStatus, Answers
  <2> QED
    BY <2>1, <1>1, <1>2, <1>3, <1>4, <1>7 DEF Told
<1>10. CASE FinalizeSuccess(c)
  <2>1. /\ outcome'[c] = "succeeded"
        /\ requests'[i].status = "SUCCEEDED"
        /\ usage'[i] = actual[c]
    BY <1>2, <1>5, <1>10 DEF FinalizeSuccess, SetStatus, Answers, Ownership, Shape
  <2> QED
    BY <2>1, <1>1, <1>2, <1>3, <1>4, <1>7 DEF Told
<1>11. CASE MarkFinalizationFailed(c)
  <2>1. /\ outcome'[c] = "finalization_error"
        /\ requests'[i].status = "FINALIZATION_FAILED"
    BY <1>2, <1>5, <1>11 DEF MarkFinalizationFailed, SetStatus, Answers
  <2>2. Settled(i)'
    BY <2>1, <1>6 DEF Absent
  <2> QED
    BY <2>1, <2>2, <1>1, <1>2, <1>3, <1>4, <1>7 DEF Told, Holding
<1>12. CASE MarkFinalizationFailedFails(c)
  <2>1. /\ outcome'[c] = "finalization_error"
        /\ requests'[i].status = "RESERVED"
    BY <1>3, <1>12 DEF MarkFinalizationFailedFails, Answers
  <2>2. Settled(i)'
    BY <2>1, <1>6 DEF Absent
  <2> QED
    BY <2>1, <2>2, <1>1, <1>2, <1>3, <1>4, <1>7 DEF Told, Holding
<1> QED
  BY <1>8, <1>9, <1>10, <1>11, <1>12

LEMMA AnswersStep == Ownership /\ Paid /\ Answers /\ [Next]_vars => Answers'
<1> SUFFICES ASSUME Ownership, Paid, Answers, [Next]_vars PROVE Answers'
  OBVIOUS
<1>1. ASSUME NEW c \in Callers, Acts(c) PROVE Answers'
  <2>1. Told(c)' /\ actual' \in [Callers -> Nat] /\ outcome' \in [Callers -> Outcomes]
    BY <1>1, ReplayTells, SilentTells, ClosingTells DEF Acts, Step
  <2>2. \A d \in Callers \ {c} : Told(d)'
    BY <1>1, OthersStay, ToldStays DEF Answers
  <2> QED
    BY <2>1, <2>2 DEF Answers
<1>2. CASE External \/ UNCHANGED vars
  <2>1. UNCHANGED <<pc, call, actual, outcome>>
    BY <1>2 DEF External, serviceVars, vars
  <2>2. \A c \in Callers : Told(c)'
    BY <2>1, ToldStays DEF Answers
  <2> QED
    BY <2>1, <2>2 DEF Answers
<1> QED
  BY <1>1, <1>2 DEF Next, Acts

LEMMA AnswersInit == Init => Answers
BY DEF Init, Answers, Told, Outcomes

THEOREM AnswersInvariant == Spec => [](Ownership /\ Paid /\ Answers)
<1>1. Ownership /\ Paid /\ Answers /\ [Next]_vars => Ownership' /\ Paid' /\ Answers'
  BY OwnershipStep, PaidStep, AnswersStep
<1>2. Init => Ownership /\ Paid /\ Answers
  BY OwnershipInit, PaidInit, AnswersInit
<1> QED
  BY <1>1, <1>2, PTL DEF Spec

\* What invoke answered stays true: whatever others retry, interleave or
\* charge afterwards, a caller that was told of success finds its request
\* SUCCEEDED at the credits it was told, one that was told of failure finds it
\* closed or left for recovery.
THEOREM AnswersStayTrue == Spec => []OutcomesAreTruthful
<1>1. Answers => OutcomesAreTruthful
  BY DEF Answers, Told, OutcomesAreTruthful, Outcomes
<1> QED
  BY <1>1, AnswersInvariant, PTL

\* Every step leaves the tables and the callers well formed.
THEOREM ServiceTypes == Spec => []TypeOK
<1>1. Ownership /\ Paid /\ Answers => TypeOK
  BY DEF Ownership, Shape, Paid, WellKept, Answers, TypeOK, CallOf
<1> QED
  BY <1>1, AnswersInvariant, PTL

-----------------------------------------------------------------------------
(* Reservations and balances *)

\* The sum in Held, as a total of weights.
HeldAt == [i \in Identities |-> Reservation[requests[i].payload]]

HoldingOf(a) == {i \in Identities : i[1] = a /\ requests[i].status \in Holding}

HeldIn(a) == Total(HeldAt, HoldingOf(a))

\* The debits that no successful request accounts for, and what they took.
Debits(a) ==
    {n \in 1..Len(db.transactions) :
        /\ db.transactions[n].account = a
        /\ db.transactions[n].amount < 0
        /\ db.transactions[n].type = "USAGE" =>
               usage[<<a, db.transactions[n].request>>] # -db.transactions[n].amount}

DebitAt == [n \in 1..Len(db.transactions) |-> -db.transactions[n].amount]

\* What the balance would be without the debits of others.
Slack(a) == db.balance[a] + Total(DebitAt, Debits(a))

RowsAreFew == IsFiniteSet({i \in Identities : requests[i] # Absent})

\* But for the debits of others, an account covers its active reservations.
Covered == RowsAreFew /\ \A a \in Accounts : Slack(a) >= HeldIn(a)

LEMMA HoldingIsFinite ==
    ASSUME Ownership, RowsAreFew, NEW a
    PROVE  /\ IsFiniteSet(HoldingOf(a))
           /\ \A i \in HoldingOf(a) : HeldAt[i] \in Nat \ {0}
<1>1. \A i \in HoldingOf(a) : i \in Identities /\ requests[i] # Absent
  BY DEF HoldingOf, Holding, Absent
<1>2. IsFiniteSet(HoldingOf(a))
  <2>1. HoldingOf(a) \subseteq {i \in Identities : requests[i] # Absent}
    BY <1>1
  <2> QED
    BY <2>1, FS_Subset DEF RowsAreFew
<1>3. \A i \in HoldingOf(a) : requests[i].payload \in Payloads
  BY <1>1 DEF Ownership, Shape
<1> QED
  BY <1>1, <1>2, <1>3, ReservationsArePositive DEF HeldAt

LEMMA HeldIsTotal ==
    ASSUME Ownership, RowsAreFew, NEW a
    PROVE  Held(a) = Total(HeldAt, HoldingOf(a))
<1> DEFINE S == HoldingOf(a)
           Form(f) == f = [s \in SUBSET S |-> IF s = {} THEN 0
                ELSE Reservation[requests[Pick(s)].payload] + f[s \ {Pick(s)}]]
<1>1. Held(a) = (CHOOSE f : Form(f))[S]
  BY DEF Held, HoldingOf, MapThenSumSet, MapThenFoldSet, Pick
<1>2. \A s \in SUBSET S : s # {} =>
          Reservation[requests[Pick(s)].payload] = HeldAt[Pick(s)]
  BY PickIsIn DEF HoldingOf, HeldAt
<1>3. IsFiniteSet(S)
  BY HoldingIsFinite
<1> HIDE DEF S
<1>4. \A f : Form(f) <=> Sums(HeldAt, S, f)
  BY <1>2 DEF Sums
<1>5. PICK f : Sums(HeldAt, S, f) /\ Total(HeldAt, S) = f[S]
  BY <1>3, TotalIsSum
<1>6. Form(CHOOSE g : Form(g))
  BY <1>4, <1>5
<1>7. Sums(HeldAt, S, CHOOSE g : Form(g))
  BY <1>4, <1>6
<1> HIDE DEF Form
<1>8. (CHOOSE g : Form(g))[S] = f[S]
  BY <1>3, <1>5, <1>7, SumsAgree
<1> QED
  BY <1>1, <1>5, <1>8 DEF S

LEMMA DebitsAreRows ==
    ASSUME WellKept, NEW a
    PROVE  /\ IsFiniteSet(Debits(a))
           /\ Len(db.transactions) + 1 \notin Debits(a)
           /\ \A n \in Debits(a) : DebitAt[n] \in Nat /\ DebitAt[n] > 0
           /\ Total(DebitAt, Debits(a)) \in Nat
<1>1. Debits(a) \subseteq 1..Len(db.transactions)
  BY DEF Debits
<1>2. /\ IsFiniteSet(Debits(a))
      /\ Len(db.transactions) + 1 \notin Debits(a)
      /\ \A n \in Debits(a) : db.transactions[n].amount \in Int
  BY <1>1, RowsAreFinite DEF WellKept
<1>3. \A n \in Debits(a) : DebitAt[n] \in Nat /\ DebitAt[n] > 0
  BY <1>1, <1>2 DEF DebitAt, Debits
<1> QED
  BY <1>2, <1>3, TotalIsNat

\* A row appended to the log changes the slack of its account by its amount,
\* unless it is a debit that is set aside.
LEMMA SlackOfAppend ==
    ASSUME WellKept, NEW t \in CreditTransaction,
           db'.transactions = AppendTransaction(db, t).transactions,
           db'.balance = AppendTransaction(db, t).balance,
           NEW a \in Accounts,
           \A n \in 1..Len(db.transactions) : n \in Debits(a)' <=> n \in Debits(a)
    PROVE  Slack(a)' = Slack(a) + IF t.account = a /\ Len(db.transactions) + 1 \notin Debits(a)'
                                  THEN t.amount ELSE 0
<1> DEFINE b == AppendTransaction(db, t)
           last == Len(db.transactions) + 1
<1>1. /\ Len(b.transactions) = last
      /\ \A n \in 1..Len(db.transactions) : b.transactions[n] = db.transactions[n]
      /\ b.transactions[last] = t
      /\ b.balance[t.account] = db.balance[t.account] + t.amount
      /\ \A x \in Accounts \ {t.account} : b.balance[x] = db.balance[x]
  BY AppendTransactionTypes DEF WellKept
<1> HIDE DEF b
<1>2. Len(db.transactions) \in Nat /\ t.amount \in Int /\ db.balance[a] \in Int
  BY DEF WellKept, Database, CreditTransaction
<1>3. /\ DebitAt'[last] = -t.amount
      /\ \A n \in 1..Len(db.transactions) : DebitAt'[n] = DebitAt[n]
  BY <1>1, <1>2 DEF DebitAt, b
<1>4. /\ last \in Debits(a)' => t.account = a
      /\ Debits(a)' = IF last \in Debits(a)' THEN Debits(a) \cup {last} ELSE Debits(a)
  <2>1. Debits(a)' \subseteq 1..last
    BY <1>1 DEF Debits, b
  <2>2. Debits(a) \subseteq 1..Len(db.transactions)
    BY DEF Debits
  <2>3. 1..last = 1..Len(db.transactions) \cup {last}
    BY <1>2
  <2>4. last \in Debits(a)' => t.account = a
    BY <1>1 DEF Debits, b
  <2> HIDE DEF last
  <2>5. \A n : n \in Debits(a)' <=>
                 n \in Debits(a) \/ (n = last /\ last \in Debits(a)')
    BY <2>1, <2>2, <2>3
  <2>6. CASE last \in Debits(a)'
    BY <2>4, <2>5, <2>6
  <2>7. CASE last \notin Debits(a)'
    BY <2>5, <2>7
  <2> QED
    BY <2>6, <2>7
<1>5. /\ IsFiniteSet(Debits(a))
      /\ last \notin Debits(a)
      /\ \A n \in Debits(a) : DebitAt[n] \in Int /\ DebitAt'[n] = DebitAt[n]
      /\ Total(DebitAt, Debits(a)) \in Int
  <2>1. Debits(a) \subseteq 1..Len(db.transactions)
    BY DEF Debits
  <2>2. \A n \in Debits(a) : DebitAt'[n] = DebitAt[n]
    BY <2>1, <1>3
  <2> QED
    BY <2>2, DebitsAreRows
<1>6. CASE last \in Debits(a)'
  <2>1. Joins(last, Debits(a), Debits(a)', DebitAt', DebitAt)
    BY <1>2, <1>3, <1>4, <1>5, <1>6 DEF Joins
  <2>2. Total(DebitAt', Debits(a)') = Total(DebitAt, Debits(a)) - t.amount
    BY <2>1, <1>2, <1>3, <1>5, TotalGrows
  <2>3. db'.balance[a] = db.balance[a] + t.amount
    BY <1>1, <1>4, <1>6 DEF b
  <2> QED
    BY <2>2, <2>3, <1>2, <1>5, <1>6 DEF Slack
<1>7. CASE last \notin Debits(a)'
  <2>1. Total(DebitAt', Debits(a)') = Total(DebitAt, Debits(a))
    BY <1>4, <1>5, <1>7, TotalAgrees
  <2>2. db'.balance[a] = db.balance[a] + IF t.account = a THEN t.amount ELSE 0
    BY <1>1, <1>2 DEF b
  <2> QED
    BY <2>1, <2>2, <1>2, <1>5, <1>7 DEF Slack
<1> QED
  BY <1>6, <1>7

\* What others append never lowers the slack: they add credits, or take them
\* with a debit that no request accounts for.
LEMMA ExternalSlack ==
    ASSUME Paid, Ownership, External, NEW a \in Accounts
    PROVE  Slack(a)' \in Int /\ Slack(a)' >= Slack(a)
<1>1. PICK t \in CreditTransaction :
        \/ t.type \notin KeyedTypes /\ db' = AppendTransaction(db, t)
        \/ /\ t.type \in KeyedTypes
           /\ ~HasKey(db, KeyOf(t))
           /\ db' = AppendKeyed(db, t)
  BY ExternalAppends
<1> DEFINE last == Len(db.transactions) + 1
<1>2. /\ db'.transactions = AppendTransaction(db, t).transactions
      /\ db'.balance = AppendTransaction(db, t).balance
      /\ usage' = usage
  BY <1>1 DEF AppendKeyed, AppendIdempotencyRecord, External, serviceVars
<1>3. /\ Len(db'.transactions) = last
      /\ \A n \in 1..Len(db.transactions) : db'.transactions[n] = db.transactions[n]
      /\ db'.transactions[last] = t
  <2> DEFINE b == AppendTransaction(db, t)
  <2>1. /\ Len(b.transactions) = last
        /\ \A n \in 1..Len(db.transactions) : b.transactions[n] = db.transactions[n]
        /\ b.transactions[last] = t
    BY AppendTransactionTypes DEF Paid, WellKept
  <2> HIDE DEF b
  <2> QED
    BY <2>1, <1>2 DEF b
<1>4. Len(db.transactions) \in Nat /\ t.amount \in Int
  BY DEF Paid, WellKept, Database, CreditTransaction
<1>5. \A n \in 1..Len(db.transactions) : n \in Debits(a)' <=> n \in Debits(a)
  BY <1>2, <1>3, <1>4 DEF Debits
<1>6. t.account = a /\ t.amount < 0 => last \in Debits(a)'
  <2>7. last \in 1..Len(db'.transactions)
    BY <1>3, <1>4
  <2> HIDE DEF last
  <2>6. t.account = a /\ t.amount < 0
        /\ (t.type = "USAGE" => usage[<<a, t.request>>] # -t.amount)
          => last \in Debits(a)'
    BY <2>7, <1>2, <1>3 DEF Debits
  <2> SUFFICES ASSUME t.account = a, t.amount < 0, t.type = "USAGE"
               PROVE  usage[<<a, t.request>>] # -t.amount
    BY <2>6
  <2>1. t.request \in Requests
    BY DEF CreditTransaction, KeyedTypes
  <2>2. PICK i \in Identities : i = <<a, t.request>>
    BY <2>1 DEF Identities
  <2>3. ~HasKey(db, UsageKey(i))
    BY <1>1, <2>2 DEF KeyOf, UsageKey, KeyedTypes
  <2>4. ~(usage[i] > 0)
    BY <2>3 DEF Paid, Backed
  <2>5. usage[i] \in Int
    BY DEF Ownership, Shape, NoUsage
  <2> QED
    BY <2>2, <2>4, <2>5, <1>4
<1>7. Slack(a)' = Slack(a) + IF t.account = a /\ last \notin Debits(a)' THEN t.amount ELSE 0
  BY <1>2, <1>5, SlackOfAppend DEF Paid
<1>8. Slack(a) \in Int
  BY DebitsAreRows DEF Slack, Paid, WellKept, Database
<1> HIDE DEF last
<1> QED
  BY <1>4, <1>6, <1>7, <1>8

\* The usage of an identity is recorded, and the log is kept.
Records(i, m) ==
    /\ usage' = [usage EXCEPT ![i] = m]
    /\ Len(db'.transactions) \in Nat
    /\ Len(db'.transactions) >= Len(db.transactions)
    /\ \A n \in 1..Len(db.transactions) : db'.transactions[n] = db.transactions[n]

\* Recording the usage of an identity moves no debit but the one it names.
LEMMA OtherDebits ==
    ASSUME Paid, Ownership, NEW i \in Identities, NEW m, Records(i, m),
           NEW a \in Accounts, NEW n \in 1..Len(db.transactions),
           n # db.idempotency[UsageKey(i)]
    PROVE  n \in Debits(a)' <=> n \in Debits(a)
<1> USE DEF Records
<1> DEFINE row == db.transactions[n]
<1>1. /\ Len(db.transactions) \in Nat
      /\ row \in CreditTransaction
  BY DEF Paid, WellKept, Database
<1>2. n \in 1..Len(db'.transactions)
  BY <1>1
<1>3. CASE row.account = a /\ row.type = "USAGE"
  <2>1. row.request \in Requests
    BY <1>1, <1>3 DEF CreditTransaction, KeyedTypes
  <2>2. <<a, row.request>> \in Identities
    BY <2>1 DEF Identities
  <2>3. db.idempotency[KeyOf(row)] = n
    BY <1>3 DEF Paid, WellKept, KeysMatch, KeyedTypes
  <2>4. <<a, row.request>> # i
    BY <1>3, <2>3 DEF KeyOf, UsageKey
  <2>5. usage'[<<a, row.request>>] = usage[<<a, row.request>>]
    BY <2>2, <2>4 DEF Ownership, Shape
  <2> QED
    BY <1>2, <1>3, <2>5 DEF Debits
<1>4. CASE ~(row.account = a /\ row.type = "USAGE")
  BY <1>2, <1>4 DEF Debits
<1> QED
  BY <1>3, <1>4

\* A finalization takes from the slack of its account what it charges, whether
\* the charge is appended or adopted.
LEMMA FinalizeSlack ==
    ASSUME Paid, Ownership, NEW c \in Callers, FinalizeSuccess(c), NEW a \in Accounts
    PROVE  Slack(a)' = Slack(a) - IF a = call[c].id[1] THEN actual[c] ELSE 0
<1>1. PICK i \in Identities : i = call[c].id
  BY DEF FinalizeSuccess, Ownership, CallsAreKnown, CallOf
<1>2. /\ call[c] \in CallOf
      /\ Reservation[call[c].payload] \in Nat
      /\ actual[c] \in Nat
      /\ usage' = [usage EXCEPT ![i] = actual[c]]
      /\ usage'[i] = actual[c]
      /\ usage[i] = NoUsage
  <2>1. requests[i].status = "RESERVED"
    BY <1>1 DEF FinalizeSuccess, SetStatus
  <2> QED
    BY <1>1, <2>1, ReservationsArePositive
       DEF FinalizeSuccess, Ownership, CallsAreKnown, PricesAreWithin, CallOf,
           Paid, Backed, Shape
<1>3. PICK x \in Accounts, r \in Requests : i = <<x, r>> /\ x = i[1] /\ r = i[2]
  BY DEF Identities
<1>4. /\ Len(db.transactions) \in Nat
      /\ db.balance[a] \in Int
      /\ db.idempotency[UsageKey(i)] \in Nat
  BY <1>3 DEF Paid, WellKept, Database, UsageKey, Keys, KeyedTypes
<1>5. Slack(a) \in Int
  BY <1>4, DebitsAreRows DEF Slack, Paid
<1> DEFINE t == ChargeRow(c)
           last == Len(db.transactions) + 1
<1>6. /\ t.type = "USAGE" /\ t.account = x /\ t.request = r
      /\ t.amount = -actual[c]
      /\ KeyOf(t) = UsageKey(i)
  BY <1>1, <1>3 DEF ChargeRow, Transaction, KeyOf, UsageKey
<1>7. CASE actual[c] = 0
  <2>1. db' = db /\ ~HasKey(db, UsageKey(i))
    BY <1>1, <1>7 DEF FinalizeSuccess
  <2>2. \A n \in 1..Len(db.transactions) : n # db.idempotency[UsageKey(i)]
    BY <2>1 DEF HasKey, NoRow
  <2>3. \A n \in 1..Len(db.transactions) : n \in Debits(a)' <=> n \in Debits(a)
    <3>1. Records(i, actual[c])
      BY <1>2, <1>4, <2>1 DEF Records
    <3> QED
      BY <2>2, <3>1, OtherDebits
  <2>4. Debits(a)' = Debits(a)
    BY <2>1, <2>3 DEF Debits
  <2>5. Slack(a)' = Slack(a)
    BY <2>1, <2>4 DEF Slack, DebitAt
  <2> QED
    BY <2>5, <1>5, <1>7
<1>8. CASE ~HasKey(db, KeyOf(t)) /\ db' = AppendKeyed(db, t) /\ actual[c] # 0
  <2>1. t \in CreditTransaction
    <3>1. \A m \in Int : m > 0 =>
            Transaction("USAGE", x, -m, r, ManagedNote) \in CreditTransaction
      BY TransactionTypes, NoteIsANote
    <3>2. actual[c] \in Int /\ actual[c] > 0
      BY <1>2, <1>8
    <3>3. t = Transaction("USAGE", x, -actual[c], r, ManagedNote)
      BY <1>1, <1>3 DEF ChargeRow
    <3> HIDE DEF t
    <3> QED
      BY <3>1, <3>2, <3>3
  <2>2. /\ db'.transactions = AppendTransaction(db, t).transactions
        /\ db'.balance = AppendTransaction(db, t).balance
    BY <1>8 DEF AppendKeyed, AppendIdempotencyRecord
  <2> HIDE DEF t
  <2>3. /\ Len(db'.transactions) = last
        /\ \A n \in 1..Len(db.transactions) : db'.transactions[n] = db.transactions[n]
        /\ db'.transactions[last] = t
    <3> DEFINE b == AppendTransaction(db, t)
    <3>1. /\ Len(b.transactions) = last
          /\ \A n \in 1..Len(db.transactions) : b.transactions[n] = db.transactions[n]
          /\ b.transactions[last] = t
      BY <2>1, AppendTransactionTypes DEF Paid, WellKept
    <3> HIDE DEF b
    <3> QED
      BY <3>1, <2>2 DEF b
  <2>4. \A n \in 1..Len(db.transactions) : n # db.idempotency[UsageKey(i)]
    BY <1>6, <1>8 DEF HasKey, NoRow
  <2>5. \A n \in 1..Len(db.transactions) : n \in Debits(a)' <=> n \in Debits(a)
    <3>1. Records(i, actual[c])
      BY <1>2, <1>4, <2>3 DEF Records
    <3> QED
      BY <2>4, <3>1, OtherDebits
  <2>6. last \notin Debits(a)'
    <3>1. last \in Debits(a)' => t.account = a /\ usage'[<<a, t.request>>] # -t.amount
      BY <1>6, <2>3 DEF Debits
    <3>2. t.account = a => usage'[<<a, t.request>>] = -t.amount
      BY <1>2, <1>3, <1>6
    <3> QED
      BY <3>1, <3>2
  <2>7. Slack(a)' = Slack(a) + IF t.account = a THEN t.amount ELSE 0
    BY <2>1, <2>2, <2>5, <2>6, SlackOfAppend DEF Paid
  <2> QED
    BY <2>7, <1>1, <1>2, <1>3, <1>5, <1>6
<1>9. CASE /\ HasKey(db, KeyOf(t)) /\ SamePayload(Existing(db, KeyOf(t)), t)
           /\ db' = db /\ actual[c] # 0
  <2> DEFINE m == db.idempotency[UsageKey(i)]
  <2>1. UsageKey(i) \in Keys
    BY <1>3 DEF UsageKey, Keys, KeyedTypes
  <2>2. /\ m \in 1..Len(db.transactions)
        /\ KeyOf(db.transactions[m]) = UsageKey(i)
        /\ db.transactions[m].amount = -actual[c]
    BY <1>6, <1>9, <2>1 DEF Paid, WellKept, KeysMatch, Existing, SamePayload
  <2>3. /\ db.transactions[m].type = "USAGE"
        /\ db.transactions[m].account = x
        /\ <<db.transactions[m].account, db.transactions[m].request>> = i
    BY <1>3, <2>2 DEF KeyOf, UsageKey
  <2>4. \A n \in 1..Len(db.transactions) : n # m =>
            (n \in Debits(a)' <=> n \in Debits(a))
    <3>1. Records(i, actual[c])
      BY <1>2, <1>4, <1>9 DEF Records
    <3> QED
      BY <3>1, OtherDebits
  <2> HIDE DEF m
  <2>5. m \notin Debits(a)'
    BY <1>2, <1>9, <2>2, <2>3 DEF Debits
  <2>6. m \in Debits(a) <=> a = x
    <3>1. usage[<<db.transactions[m].account, db.transactions[m].request>>]
              # -db.transactions[m].amount
      <4>1. usage[<<db.transactions[m].account, db.transactions[m].request>>] = NoUsage
        BY <1>2, <2>3
      <4>2. -db.transactions[m].amount = actual[c]
        BY <1>2, <2>2
      <4> QED
        BY <1>2, <4>1, <4>2 DEF NoUsage
    <3>2. db.transactions[m].amount < 0
      BY <1>2, <1>9, <2>2
    <3> QED
      BY <2>2, <2>3, <3>1, <3>2 DEF Debits
  <2>7. DebitAt' = DebitAt /\ DebitAt[m] = actual[c]
    BY <1>2, <1>9, <2>2 DEF DebitAt
  <2>8. Debits(a)' \subseteq 1..Len(db.transactions)
        /\ Debits(a) \subseteq 1..Len(db.transactions)
    BY <1>9 DEF Debits
  <2>9. Debits(a)' = Debits(a) \ {m}
    BY <2>4, <2>5, <2>8
  <2>10. CASE a # x
    <3>1. Debits(a)' = Debits(a)
      BY <2>6, <2>9, <2>10
    <3> QED
      BY <3>1, <2>7, <2>10, <1>1, <1>3, <1>5, <1>9 DEF Slack
  <2>11. CASE a = x
    <3>1. /\ IsFiniteSet(Debits(a))
          /\ \A n \in Debits(a) : DebitAt[n] \in Nat
          /\ m \in Debits(a)
          /\ Total(DebitAt, Debits(a)) \in Int
      BY <2>6, <2>11, DebitsAreRows DEF Paid
    <3>2. IsFiniteSet(Debits(a)')
      BY <3>1, <2>9, FS_Subset
    <3>3. Joins(m, Debits(a)', Debits(a), DebitAt, DebitAt')
      BY <3>1, <3>2, <2>7, <2>9 DEF Joins
    <3>4. /\ Total(DebitAt', Debits(a)') \in Int
          /\ Total(DebitAt, Debits(a)) = Total(DebitAt', Debits(a)') + actual[c]
      BY <3>3, <2>7, TotalGrows
    <3> QED
      BY <3>1, <3>4, <2>11, <1>1, <1>2, <1>3, <1>4, <1>9 DEF Slack
  <2> QED
    BY <2>10, <2>11
<1>10. \/ actual[c] = 0
       \/ ~HasKey(db, KeyOf(t)) /\ db' = AppendKeyed(db, t)
       \/ HasKey(db, KeyOf(t)) /\ SamePayload(Existing(db, KeyOf(t)), t) /\ db' = db
  BY DEF FinalizeSuccess, ChargeUsage
<1> QED
  BY <1>7, <1>8, <1>9, <1>10

Elsewhere(i) == \A j \in Identities \ {i} : requests'[j] = requests[j]

LEMMA RowsStayFew ==
    ASSUME RowsAreFew, NEW i \in Identities, Elsewhere(i)
    PROVE  RowsAreFew'
<1> DEFINE S == {j \in Identities : requests[j] # Absent}
           T == {j \in Identities : requests'[j] # Absent}
<1>1. IsFiniteSet(S \cup {i})
  BY FS_AddElement DEF RowsAreFew
<1>2. T \subseteq S \cup {i}
  BY DEF Elsewhere
<1>3. IsFiniteSet(T)
  BY <1>1, <1>2, FS_Subset
<1> QED
  BY <1>3 DEF RowsAreFew

LEMMA HeldIsNat ==
    ASSUME Ownership, RowsAreFew, NEW a
    PROVE  HeldIn(a) \in Nat
<1>1. IsFiniteSet(HoldingOf(a)) /\ \A i \in HoldingOf(a) : HeldAt[i] \in Nat
  BY HoldingIsFinite
<1> QED
  BY <1>1, TotalIsNat DEF HeldIn

\* The other rows of the account weigh what they did.
LEMMA OtherHoldings ==
    ASSUME Ownership, RowsAreFew, NEW i \in Identities, Elsewhere(i), NEW a
    PROVE  \A j \in Identities \ {i} :
             /\ j \in HoldingOf(a)' <=> j \in HoldingOf(a)
             /\ HeldAt'[j] = HeldAt[j]
BY DEF Elsewhere, HoldingOf, HeldAt

LEMMA HeldStays ==
    ASSUME Ownership, RowsAreFew, NEW i \in Identities, Elsewhere(i), NEW a,
           i \in HoldingOf(a)' <=> i \in HoldingOf(a),
           i \in HoldingOf(a) => requests'[i].payload = requests[i].payload
    PROVE  HeldIn(a)' = HeldIn(a)
<1>1. HoldingOf(a)' = HoldingOf(a)
  <2>1. HoldingOf(a) \subseteq Identities /\ HoldingOf(a)' \subseteq Identities
    BY DEF HoldingOf
  <2> QED
    BY <2>1, OtherHoldings
<1>2. \A j \in HoldingOf(a) : HeldAt'[j] = HeldAt[j]
  BY OtherHoldings DEF HeldAt, HoldingOf
<1>3. IsFiniteSet(HoldingOf(a))
  BY HoldingIsFinite
<1> QED
  BY <1>1, <1>2, <1>3, TotalAgrees DEF HeldIn

LEMMA HeldRises ==
    ASSUME Ownership, RowsAreFew, NEW i \in Identities, Elsewhere(i),
           requests[i] = Absent, NEW p \in Payloads, requests'[i] = Row(p)
    PROVE  HeldIn(i[1])' = HeldIn(i[1]) + Reservation[p]
<1> DEFINE S == HoldingOf(i[1])
           T == HoldingOf(i[1])'
<1>1. i \notin S /\ i \in T /\ HeldAt'[i] = Reservation[p]
  BY DEF HoldingOf, Holding, Absent, Row, HeldAt
<1>2. S \subseteq Identities /\ T \subseteq Identities
  BY DEF HoldingOf
<1>3. \A j \in Identities \ {i} : (j \in T <=> j \in S) /\ HeldAt'[j] = HeldAt[j]
  BY OtherHoldings
<1>4. IsFiniteSet(S) /\ \A j \in S : HeldAt[j] \in Int
  BY HoldingIsFinite
<1>5. Reservation[p] \in Int
  BY ReservationsArePositive
<1> HIDE DEF S, T
<1>6. Joins(i, S, T, HeldAt', HeldAt)
  BY <1>1, <1>2, <1>3, <1>4, <1>5 DEF Joins
<1>7. Total(HeldAt', T) = Total(HeldAt, S) + HeldAt'[i]
  BY <1>6, TotalGrows
<1> QED
  BY <1>1, <1>7 DEF HeldIn, S, T

LEMMA HeldFalls ==
    ASSUME Ownership, RowsAreFew, NEW i \in Identities, Elsewhere(i),
           requests[i].status = "RESERVED", requests'[i].status \notin Holding
    PROVE  /\ HeldIn(i[1])' \in Int
           /\ HeldIn(i[1]) = HeldIn(i[1])' + Reservation[requests[i].payload]
<1> DEFINE S == HoldingOf(i[1])
           T == HoldingOf(i[1])'
<1>1. i \in S /\ i \notin T /\ HeldAt[i] = Reservation[requests[i].payload]
  BY DEF HoldingOf, Holding, HeldAt
<1>2. S \subseteq Identities /\ T \subseteq Identities
  BY DEF HoldingOf
<1>3. \A j \in Identities \ {i} : (j \in T <=> j \in S) /\ HeldAt'[j] = HeldAt[j]
  BY OtherHoldings
<1>4. IsFiniteSet(S) /\ \A j \in S : HeldAt[j] \in Int
  BY HoldingIsFinite
<1> HIDE DEF S, T
<1>5. T = S \ {i}
  BY <1>1, <1>2, <1>3
<1>6. IsFiniteSet(T)
  BY <1>4, <1>5, FS_Subset
<1>7. Joins(i, T, S, HeldAt, HeldAt')
  BY <1>1, <1>2, <1>3, <1>4, <1>5, <1>6 DEF Joins
<1>8. /\ Total(HeldAt', T) \in Int
      /\ Total(HeldAt, S) = Total(HeldAt', T) + HeldAt[i]
  BY <1>7, TotalGrows
<1> QED
  BY <1>1, <1>8 DEF HeldIn, S, T

LEMMA SlackIsInt ==
    ASSUME WellKept, NEW a \in Accounts
    PROVE  Slack(a) \in Int /\ Slack(a) >= db.balance[a]
<1>1. db.balance[a] \in Int /\ Total(DebitAt, Debits(a)) \in Nat
  BY DebitsAreRows DEF WellKept, Database
<1> QED
  BY <1>1 DEF Slack

LEMMA SameSlack ==
    ASSUME UNCHANGED <<db, usage>>, NEW a
    PROVE  Slack(a)' = Slack(a)
<1>1. Debits(a)' = Debits(a) /\ DebitAt' = DebitAt
  BY DEF Debits, DebitAt
<1> QED
  BY <1>1 DEF Slack

\* A reservation is admitted from what is available.
LEMMA CoveredReserve ==
    ASSUME Covered, Paid, Ownership, NEW c \in Callers, Reserve(c)
    PROVE  Covered'
<1>1. PICK i \in Identities, p \in Payloads : i = call[c].id /\ p = call[c].payload
  BY DEF Reserve, Ownership, CallsAreKnown, CallOf
<1>2. /\ requests[i] = Absent
      /\ requests'[i] = Row(p)
      /\ Elsewhere(i)
      /\ db.balance[i[1]] - Held(i[1]) >= Reservation[p]
      /\ UNCHANGED <<db, usage>>
  BY <1>1 DEF Reserve, Available, Ownership, Shape, Row, Elsewhere
<1>3. RowsAreFew'
  BY <1>2, RowsStayFew DEF Covered
<1>4. ASSUME NEW a \in Accounts PROVE Slack(a)' >= HeldIn(a)'
  <2>1. Slack(a)' = Slack(a) /\ Slack(a) \in Int /\ Slack(a) >= db.balance[a]
    BY <1>2, SameSlack, SlackIsInt DEF Paid
  <2>2. CASE a = i[1]
    <3>1. HeldIn(a)' = HeldIn(a) + Reservation[p] /\ Held(a) = HeldIn(a)
      BY <1>2, <2>2, HeldRises, HeldIsTotal DEF Covered, HeldIn
    <3>2. HeldIn(a) \in Nat /\ Reservation[p] \in Nat /\ db.balance[a] \in Int
      BY HeldIsNat, ReservationsArePositive DEF Covered, Paid, WellKept, Database
    <3> QED
      BY <1>2, <2>1, <2>2, <3>1, <3>2
  <2>3. CASE a # i[1]
    <3>1. i \notin HoldingOf(a) /\ i \notin HoldingOf(a)'
      BY <2>3 DEF HoldingOf
    <3>2. HeldIn(a)' = HeldIn(a)
      BY <1>2, <3>1, HeldStays DEF Covered
    <3> QED
      BY <2>1, <3>2 DEF Covered
  <2> QED
    BY <2>2, <2>3
<1> QED
  BY <1>3, <1>4 DEF Covered

\* Closing a request frees its reservation or keeps it, and takes no more than
\* it frees.
LEMMA CoveredClose ==
    ASSUME Covered, Paid, Ownership, NEW c \in Callers,
           FinalizeSuccess(c) \/ MarkProviderFailed(c) \/ MarkFinalizationFailed(c)
    PROVE  Covered'
<1>1. PICK i \in Identities, p \in Payloads : i = call[c].id /\ p = call[c].payload
  BY DEF FinalizeSuccess, MarkProviderFailed, MarkFinalizationFailed, Ownership,
         CallsAreKnown, CallOf
<1>2. PICK final \in {"SUCCEEDED", "FAILED", "FINALIZATION_FAILED"} :
        /\ requests' = [requests EXCEPT ![i].status = final]
        /\ FinalizeSuccess(c) => final = "SUCCEEDED"
  BY <1>1 DEF FinalizeSuccess, MarkProviderFailed, MarkFinalizationFailed, SetStatus
<1>3. requests[i] = Row(p)
  BY <1>1 DEF FinalizeSuccess, MarkProviderFailed, MarkFinalizationFailed,
              Ownership, OwnedRows
<1>4. /\ requests'[i].status = final
      /\ requests'[i].payload = p
      /\ requests[i].status = "RESERVED"
      /\ requests[i].payload = p
      /\ Elsewhere(i)
  BY <1>2, <1>3 DEF Ownership, Shape, Row, Elsewhere
<1>5. RowsAreFew'
  BY <1>4, RowsStayFew DEF Covered
<1>6. ASSUME NEW a \in Accounts PROVE Slack(a)' >= HeldIn(a)'
  <2>1. /\ Slack(a) \in Int /\ HeldIn(a) \in Nat /\ Slack(a) >= HeldIn(a)
        /\ Reservation[p] \in Nat /\ p = requests[i].payload
    BY <1>4, SlackIsInt, HeldIsNat, ReservationsArePositive DEF Covered, Paid
  <2>2. CASE a # i[1]
    <3>1. i \notin HoldingOf(a) /\ i \notin HoldingOf(a)'
      BY <2>2 DEF HoldingOf
    <3>2. HeldIn(a)' = HeldIn(a)
      BY <1>4, <3>1, HeldStays DEF Covered
    <3>3. Slack(a)' = Slack(a)
      <4>1. CASE FinalizeSuccess(c)
        BY <4>1, <1>1, <2>1, <2>2, FinalizeSlack
      <4>2. CASE ~FinalizeSuccess(c)
        BY <4>2, SameSlack DEF MarkProviderFailed, MarkFinalizationFailed
      <4> QED
        BY <4>1, <4>2
    <3> QED
      BY <2>1, <3>2, <3>3
  <2>3. CASE a = i[1] /\ FinalizeSuccess(c)
    <3>1. Slack(a)' = Slack(a) - actual[c]
      BY <1>1, <2>3, FinalizeSlack
    <3>2. actual[c] \in 0..Reservation[p]
      BY <1>1, <2>3 DEF FinalizeSuccess, Ownership, PricesAreWithin
    <3>3. final \notin Holding
      BY <1>2, <2>3 DEF Holding
    <3>4. HeldIn(a)' \in Int /\ HeldIn(a) = HeldIn(a)' + Reservation[p]
      BY <1>4, <2>3, <3>3, HeldFalls DEF Covered
    <3> QED
      BY <2>1, <3>1, <3>2, <3>4
  <2>4. CASE a = i[1] /\ ~FinalizeSuccess(c)
    <3>1. Slack(a)' = Slack(a)
      BY <2>4, SameSlack DEF MarkProviderFailed, MarkFinalizationFailed
    <3>2. CASE final \in Holding
      <4>1. HeldIn(a)' = HeldIn(a)
        BY <1>4, <2>4, <3>2, HeldStays DEF Covered, HoldingOf, Holding
      <4> QED
        BY <2>1, <3>1, <4>1
    <3>3. CASE final \notin Holding
      <4>1. HeldIn(a)' \in Int /\ HeldIn(a) = HeldIn(a)' + Reservation[p]
        BY <1>4, <2>4, <3>3, HeldFalls DEF Covered
      <4> QED
        BY <2>1, <3>1, <4>1
    <3> QED
      BY <3>2, <3>3
  <2> QED
    BY <2>2, <2>3, <2>4
<1> QED
  BY <1>5, <1>6 DEF Covered

LEMMA CoveredStep == Covered /\ Paid /\ Ownership /\ [Next]_vars => Covered'
<1> SUFFICES ASSUME Covered, Paid, Ownership, [Next]_vars PROVE Covered'
  OBVIOUS
<1>1. ASSUME requests' = requests,
             \A a \in Accounts : Slack(a)' \in Int /\ Slack(a)' >= Slack(a)
      PROVE  Covered'
  <2>1. \A a : HeldIn(a)' = HeldIn(a)
    BY <1>1 DEF HeldIn, HoldingOf, HeldAt
  <2>2. \A a \in Accounts : HeldIn(a) \in Nat /\ Slack(a) \in Int
    BY HeldIsNat, SlackIsInt DEF Covered, Paid
  <2> QED
    BY <1>1, <2>1, <2>2 DEF Covered, RowsAreFew
<1>2. CASE UNCHANGED <<db, requests, usage>>
  BY <1>1, <1>2, SameSlack, SlackIsInt DEF Paid
<1>3. CASE External
  BY <1>1, <1>3, ExternalSlack DEF External, serviceVars
<1>4. ASSUME NEW c \in Callers, Step(c)
      PROVE  Covered' \/ UNCHANGED <<db, requests, usage>>
  <2>1. CASE \/ FinalizeSuccess(c) \/ Reserve(c) \/ MarkProviderFailed(c)
             \/ MarkFinalizationFailed(c)
    BY <2>1, CoveredReserve, CoveredClose
  <2>2. CASE ~(\/ FinalizeSuccess(c) \/ Reserve(c) \/ MarkProviderFailed(c)
               \/ MarkFinalizationFailed(c))
    BY <1>4, <2>2
       DEF Step, Replay, ReplayConflict, ReserveRefused, ReserveFails,
           InterruptedAfterReserve, CallProvider, ProviderFails,
           ProviderSucceeds, UsageRejected, MarkProviderFailedFails,
           FinalizeFails, MarkFinalizationFailedFails, Reject
  <2> QED
    BY <2>1, <2>2
<1>5. CASE ~External /\ ~ \E c \in Callers : Step(c)
  BY <1>2, <1>5 DEF Next, Invoke, Crash, vars
<1> QED
  BY <1>2, <1>3, <1>4, <1>5

LEMMA CoveredInit == Init => Covered
<1> SUFFICES ASSUME Init PROVE Covered
  OBVIOUS
<1>1. /\ \A i \in Identities : requests[i] = Absent
      /\ Len(db.transactions) = 0
      /\ \A a \in Accounts : db.balance[a] = 0
  BY DEF Init, EmptyDatabase
<1>2. RowsAreFew
  <2>1. {i \in Identities : requests[i] # Absent} = {}
    BY <1>1
  <2> QED
    BY <2>1, FS_EmptySet DEF RowsAreFew
<1>3. ASSUME NEW a \in Accounts PROVE Slack(a) >= HeldIn(a)
  <2>1. HoldingOf(a) = {} /\ Debits(a) = {}
    BY <1>1 DEF HoldingOf, Holding, Absent, Debits
  <2>2. Total(HeldAt, {}) = 0 /\ Total(DebitAt, {}) = 0
    BY FS_EmptySet, TotalUnfolds
  <2> QED
    BY <1>1, <2>1, <2>2 DEF Slack, HeldIn
<1> QED
  BY <1>2, <1>3 DEF Covered

\* Where nobody else debits an account, concurrent requests never reserve or
\* take more than it has: whatever is retried, adopted or interrupted, the
\* balance covers the reservations that are still active.
THEOREM ReservationsStayCovered == Spec => []ReservationsAreCovered
<1>1. Covered /\ Paid /\ Ownership => ReservationsAreCovered
  <2> SUFFICES ASSUME Covered, Paid, Ownership,
                      NEW a \in Accounts, ~OutsideDebit(a)
               PROVE  Available(a) >= 0
    BY DEF ReservationsAreCovered
  <2>1. Debits(a) = {}
    BY DEF Debits, OutsideDebit
  <2>2. Total(DebitAt, {}) = 0
    BY FS_EmptySet, TotalUnfolds
  <2>3. db.balance[a] \in Int /\ HeldIn(a) \in Nat /\ Held(a) = HeldIn(a)
    BY HeldIsNat, HeldIsTotal DEF Covered, Paid, WellKept, Database, HeldIn
  <2> QED
    BY <2>1, <2>2, <2>3 DEF Covered, Slack, Available
<1>2. Spec => [](Ownership /\ Paid /\ Answers)
  BY AnswersInvariant
<1>3. Covered /\ (Ownership /\ Paid /\ Answers) /\ [Next]_vars => Covered'
  BY CoveredStep
<1> QED
  BY CoveredInit, <1>1, <1>2, <1>3, PTL DEF Spec

-----------------------------------------------------------------------------
(* Opening a file of V3.0.1 (SchemaMigration).                              *)

AllColumns == {"policy", "version", "tokens"}
Inside == Opening \ {"begin"}

\* A row of V3.0.1 in a table that has these of the new columns.
RowWith(i, columns) ==
    [status |-> old[i].status, reserved |-> old[i].cost,
     hash |-> LegacyHash(old[i].prompt, old[i].cost),
     policy |-> IF "policy" \in columns THEN Default.policy ELSE None,
     version |-> IF "version" \in columns THEN Default.version ELSE None,
     tokens |-> IF "tokens" \in columns THEN Default.tokens ELSE None]

\* The same row once its policy is filled in.
UpgradedRow(i) ==
    [status |-> old[i].status, reserved |-> old[i].cost,
     hash |-> LegacyHash(old[i].prompt, old[i].cost),
     policy |-> PolicyId(FlatPolicy(old[i].cost)), version |-> 1, tokens |-> NoTokens]

RowsWith(columns) == [i \in DOMAIN old |-> RowWith(i, columns)]
UpgradedRows == [i \in DOMAIN old |-> UpgradedRow(i)]
UpgradedUsage == [i \in SucceededIds(UpgradedRows) |-> old[i].cost]

Unmigrated(image) ==
    /\ image = [columns |-> image.columns, rows |-> RowsWith({}), usage |-> NoTable]
    /\ image.columns = {} \/ (image.columns = NoTable /\ DOMAIN old = {})

IsFullRow(row) ==
    /\ row = [status |-> row.status, reserved |-> row.reserved, hash |-> row.hash,
              policy |-> row.policy, version |-> row.version, tokens |-> row.tokens]
    /\ row.policy \notin {<< >>, None} /\ row.version # None /\ row.tokens # None

Migrated(image) ==
    /\ image = [columns |-> AllColumns, rows |-> image.rows, usage |-> image.usage]
    /\ image.rows = [i \in DOMAIN image.rows |-> image.rows[i]]
    /\ DOMAIN image.rows \subseteq RequestKeys
    /\ \A i \in DOMAIN image.rows : IsFullRow(image.rows[i])
    /\ \A i \in DOMAIN old : i \in DOMAIN image.rows /\ image.rows[i] = UpgradedRow(i)
    /\ image.usage \in [SucceededIds(image.rows) -> Nat]
    /\ \A i \in DOMAIN old : i \in DOMAIN image.usage => image.usage[i] = old[i].cost

\* What an opening that upgrades the file has before it executes a statement.
Prepared(image, label) ==
    /\ label \in Inside
    /\ label = "create_requests" => Unmigrated(image)
    /\ label = "alter" =>
         /\ image.columns \subseteq AllColumns
         /\ image = [columns |-> image.columns, rows |-> RowsWith(image.columns),
                     usage |-> NoTable]
    /\ label = "create_usage" =>
         image = [columns |-> AllColumns, rows |-> UpgradedRows, usage |-> NoTable]
    /\ label = "fill_usage" =>
         image = [columns |-> AllColumns, rows |-> UpgradedRows, usage |-> [i \in {} |-> 0]]
    /\ label = "commit" =>
         image = [columns |-> AllColumns, rows |-> UpgradedRows, usage |-> UpgradedUsage]

OldIsTyped ==
    \E ids \in SUBSET RequestKeys :
        old \in [ids -> [status : RowStatuses, prompt : Prompts, cost : Costs]]

MigrationTypes ==
    /\ OldIsTyped
    /\ phase \in [Services -> {"closed", "open", "busy"} \cup Opening]
    /\ configured \in [Services -> Configurations \cup {None}]
    /\ busy \in [Services -> RequestKeys \cup {None}]
    /\ writer \in Services \cup {None}

\* One service at a time is inside the transaction that opens the file, a
\* service that serves has found the file migrated, and what it works on is new.
ServicesAgree ==
    \A s \in Services :
        /\ phase[s] \in Inside <=> writer = s
        /\ phase[s] # "closed" => configured[s] \in Configurations
        /\ phase[s] \in {"open", "busy"} => Migrated(file)
        /\ phase[s] = "busy" => busy[s] \in DOMAIN file.rows \ DOMAIN old

FileIsSound == Migrated(file) \/ Unmigrated(file)

\* Opening a migrated file changes nothing.
WorkingIsSound ==
    writer # None =>
        IF Migrated(file) THEN working = file ELSE Prepared(working, phase[writer])

MigrationInv ==
    /\ MigrationTypes
    /\ ServicesAgree
    /\ FileIsSound
    /\ WorkingIsSound
    /\ LegacyRequestsAreHonoured

LEMMA OldRows ==
    ASSUME OldIsTyped
    PROVE  /\ DOMAIN old \subseteq RequestKeys
           /\ \A i \in DOMAIN old :
                /\ old[i].status \in RowStatuses
                /\ old[i].cost \in Costs /\ old[i].cost \in Nat
                /\ PolicyId(FlatPolicy(old[i].cost)) = <<"flat", old[i].cost>>
                /\ PolicyId(FlatPolicy(old[i].cost)) \notin {<< >>, None}
<1>1. PICK ids \in SUBSET RequestKeys :
         old \in [ids -> [status : RowStatuses, prompt : Prompts, cost : Costs]]
  BY DEF OldIsTyped
<1>2. \A i \in DOMAIN old : old[i].status \in RowStatuses /\ old[i].cost \in Costs
  BY <1>1
<1>3. \A c : PolicyId(FlatPolicy(c)) = <<"flat", c>>
  BY DEF PolicyId, FlatPolicy
<1>4. \A c : <<"flat", c>> # << >>
  OBVIOUS
<1>5. \A c \in Costs : c \in Nat /\ PolicyId(FlatPolicy(c)) # None
  BY ConfigurationsAreValid, NoneIsNoValue
<1> QED BY <1>1, <1>2, <1>3, <1>4, <1>5

LEMMA ColumnsAre ==
    /\ DOMAIN Columns = 1..3
    /\ Columns[1] = "policy" /\ Columns[2] = "version" /\ Columns[3] = "tokens"
    /\ {Columns[k] : k \in DOMAIN Columns} = AllColumns
    /\ \A columns \in SUBSET AllColumns : None # columns
<1>1. /\ DOMAIN Columns = 1..3
      /\ Columns[1] = "policy" /\ Columns[2] = "version" /\ Columns[3] = "tokens"
  BY DEF Columns
<1>2. {Columns[k] : k \in DOMAIN Columns} = AllColumns
  BY <1>1 DEF AllColumns
<1> QED BY <1>1, <1>2, NoneIsNoValue

\* A file has the usage table exactly when it is migrated.
LEMMA EitherVersion ==
    /\ \A image : Migrated(image) => image.usage # NoTable
    /\ \A image : Unmigrated(image) => image.usage = NoTable
<1>1. ASSUME NEW image, Migrated(image)
      PROVE  image.usage # NoTable
  <2>1. SucceededIds(image.rows) \subseteq RequestKeys
    BY <1>1 DEF Migrated, SucceededIds
  <2> QED BY <1>1, <2>1, NoneIsNoValue DEF Migrated, NoTable
<1>2. \A image : Unmigrated(image) => image.usage = NoTable
  BY DEF Unmigrated
<1> QED BY <1>1, <1>2

LEMMA UpgradeMigrates ==
    ASSUME OldIsTyped
    PROVE  Migrated([columns |-> AllColumns, rows |-> UpgradedRows, usage |-> UpgradedUsage])
<1> DEFINE image == [columns |-> AllColumns, rows |-> UpgradedRows, usage |-> UpgradedUsage]
<1>1. /\ image.columns = AllColumns /\ image.rows = UpgradedRows
      /\ image.usage = UpgradedUsage
      /\ image = [columns |-> AllColumns, rows |-> image.rows, usage |-> image.usage]
  OBVIOUS
<1> HIDE DEF image
<1>2. /\ DOMAIN UpgradedRows = DOMAIN old
      /\ \A i \in DOMAIN old : UpgradedRows[i] = UpgradedRow(i)
      /\ UpgradedRows = [i \in DOMAIN UpgradedRows |-> UpgradedRows[i]]
  BY DEF UpgradedRows
<1>3. \A i \in DOMAIN old : IsFullRow(UpgradedRow(i))
  <2> SUFFICES ASSUME NEW i \in DOMAIN old PROVE IsFullRow(UpgradedRow(i))
    OBVIOUS
  <2>1. PolicyId(FlatPolicy(old[i].cost)) \notin {<< >>, None}
    BY OldRows
  <2>2. None # 1 /\ None # NoTokens
    BY NoneIsNoValue, ZeroIsTried DEF Tokens, NoTokens
  <2> QED BY <2>1, <2>2 DEF IsFullRow, UpgradedRow
<1>4. SucceededIds(UpgradedRows) \subseteq DOMAIN old
  BY <1>2 DEF SucceededIds
<1>5. UpgradedUsage \in [SucceededIds(UpgradedRows) -> Nat]
  BY <1>4, OldRows DEF UpgradedUsage
<1>6. \A i \in DOMAIN old : i \in DOMAIN UpgradedUsage => UpgradedUsage[i] = old[i].cost
  BY DEF UpgradedUsage
<1> QED BY <1>1, <1>2, <1>3, <1>5, <1>6, OldRows DEF Migrated, image

LEMMA MigrationStarts == MigrationInit => MigrationInv
<1> SUFFICES ASSUME MigrationInit PROVE MigrationInv
  OBVIOUS
<1>1. MigrationTypes
  BY DEF MigrationInit, MigrationTypes, OldIsTyped
<1>2. Unmigrated(file)
  <2>1. PICK fresh \in BOOLEAN :
           /\ fresh => DOMAIN old = {}
           /\ file = [columns |-> IF fresh THEN NoTable ELSE {},
                      rows |-> [i \in DOMAIN old |-> LegacyRow(old[i])],
                      usage |-> NoTable]
    BY DEF MigrationInit
  <2>2. \A i \in DOMAIN old : RowWith(i, {}) = LegacyRow(old[i])
    BY DEF RowWith, LegacyRow
  <2>3. RowsWith({}) = [i \in DOMAIN old |-> LegacyRow(old[i])]
    BY <2>2 DEF RowsWith
  <2> QED BY <2>1, <2>3 DEF Unmigrated
<1>3. ServicesAgree
  <2>1. \A s \in Services : phase[s] = "closed" /\ writer # s
    BY NoneIsNoValue DEF MigrationInit
  <2> QED BY <2>1 DEF ServicesAgree, Inside, Opening
<1>4. WorkingIsSound
  BY DEF MigrationInit, WorkingIsSound
<1>5. LegacyRequestsAreHonoured
  <2>1. \A i \in DOMAIN old : file.rows[i].status = old[i].status
    BY <1>2 DEF Unmigrated, RowsWith, RowWith
  <2> QED BY <2>1 DEF MigrationInit, LegacyRequestsAreHonoured
<1> QED BY <1>1, <1>2, <1>3, <1>4, <1>5 DEF MigrationInv, FileIsSound

LEMMA OldIsFixed ==
    ASSUME old' = old
    PROVE  /\ \A image : Migrated(image)' = Migrated(image)
           /\ \A image : Unmigrated(image)' = Unmigrated(image)
           /\ \A image, label : Prepared(image, label)' = Prepared(image, label)
           /\ OldIsTyped' = OldIsTyped
<1>1. /\ \A i, columns : RowWith(i, columns)' = RowWith(i, columns)
      /\ \A i : UpgradedRow(i)' = UpgradedRow(i)
  BY DEF RowWith, UpgradedRow
<1>2. /\ \A columns : RowsWith(columns)' = RowsWith(columns)
      /\ UpgradedRows' = UpgradedRows
  BY <1>1 DEF RowsWith, UpgradedRows
<1>3. UpgradedUsage' = UpgradedUsage
  BY <1>2 DEF UpgradedUsage
<1>4. /\ \A image : Migrated(image)' = Migrated(image)
      /\ \A image : Unmigrated(image)' = Unmigrated(image)
  BY <1>1, <1>2 DEF Migrated, Unmigrated
<1> QED BY <1>2, <1>3, <1>4 DEF Prepared, OldIsTyped

\* A step between transactions of the file's table of requests: what was
\* answered and what the file holds is as before.
LEMMA LegacyFrame ==
    ASSUME LegacyRequestsAreHonoured, old' = old, answer' = answer,
           \A i \in DOMAIN old : file'.rows[i].status = old[i].status
    PROVE  LegacyRequestsAreHonoured'
BY DEF LegacyRequestsAreHonoured

LEMMA OpeningStatement ==
    ASSUME MigrationInv, NEW s \in Services, NEW from \in Inside, NEW to \in Inside,
           NEW image, Statement(s, from, to, image),
           IF Migrated(file) THEN image = file ELSE Prepared(image, to)
    PROVE  MigrationInv'
<1>1. /\ phase[s] = from /\ working' = image /\ phase' = [phase EXCEPT ![s] = to]
      /\ UNCHANGED <<old, file, writer, configured, busy, answer>>
  BY DEF Statement, Enter
<1>2. MigrationTypes'
  BY <1>1, OldIsFixed DEF MigrationInv, MigrationTypes, Inside
<1>3. phase'[s] = to /\ \A t \in Services \ {s} : phase'[t] = phase[t]
  BY <1>1 DEF MigrationInv, MigrationTypes
<1>4. writer = s
  BY <1>1 DEF MigrationInv, ServicesAgree
<1>5. Migrated(file)' = Migrated(file) /\ Unmigrated(file)' = Unmigrated(file)
  BY <1>1, OldIsFixed
<1>6. ServicesAgree'
  <2>1. from \notin {"closed", "open", "busy"} /\ to \notin {"closed", "open", "busy"}
    BY DEF Inside, Opening
  <2> QED BY <1>1, <1>3, <1>5, <2>1 DEF MigrationInv, ServicesAgree
<1>7. FileIsSound'
  BY <1>5 DEF MigrationInv, FileIsSound
<1>8. WorkingIsSound'
  <2>1. Prepared(working, phase[writer])' = Prepared(image, to)
    BY <1>1, <1>3, <1>4, OldIsFixed
  <2> QED BY <1>1, <1>5, <2>1 DEF WorkingIsSound
<1>9. LegacyRequestsAreHonoured'
  BY <1>1, LegacyFrame DEF MigrationInv, LegacyRequestsAreHonoured
<1> QED BY <1>2, <1>6, <1>7, <1>8, <1>9 DEF MigrationInv

\* What a service that executes a statement has before it.
LEMMA BeforeStatement ==
    ASSUME MigrationInv, NEW s \in Services, phase[s] \in Inside
    PROVE  IF Migrated(file) THEN working = file ELSE Prepared(working, phase[s])
<1>1. writer = s
  BY DEF MigrationInv, ServicesAgree
<1> QED BY <1>1, NoneIsNoValue DEF MigrationInv, WorkingIsSound

LEMMA CreatesRequests ==
    ASSUME MigrationInv, NEW s \in Services, CreateRequests(s)
    PROVE  MigrationInv'
<1> DEFINE image == IF working.columns = NoTable
                    THEN [working EXCEPT !.columns = {Columns[k] : k \in DOMAIN Columns}]
                    ELSE working
<1>1. Statement(s, "create_requests", "alter", image)
  BY DEF CreateRequests
<1>2. /\ "create_requests" \in Inside /\ "alter" \in Inside
      /\ phase[s] = "create_requests"
  BY <1>1 DEF Inside, Opening, Statement
<1>3. CASE Migrated(file)
  <2>1. working = file
    BY <1>2, <1>3, BeforeStatement
  <2>2. file.columns # NoTable
    BY <1>3, ColumnsAre DEF Migrated, NoTable
  <2> QED BY <1>1, <1>2, <1>3, <2>1, <2>2, OpeningStatement
<1>4. CASE ~Migrated(file)
  <2>1. Unmigrated(working)
    BY <1>2, <1>4, BeforeStatement DEF Prepared
  <2>2. CASE working.columns = {}
    <3>1. image = working
      BY <2>2, ColumnsAre DEF NoTable
    <3>2. Prepared(image, "alter")
      BY <1>2, <2>1, <2>2, <3>1 DEF Prepared, Unmigrated
    <3> HIDE DEF image
    <3> QED BY <1>1, <1>2, <1>4, <3>2, OpeningStatement
  <2>3. CASE working.columns = NoTable /\ DOMAIN old = {}
    <3>1. RowsWith({}) = RowsWith(AllColumns)
      BY <2>3 DEF RowsWith
    <3>2. working = [columns |-> NoTable, rows |-> RowsWith(AllColumns), usage |-> NoTable]
      BY <2>1, <2>3, <3>1 DEF Unmigrated
    <3>3. image = [working EXCEPT !.columns = AllColumns]
      BY <2>3, ColumnsAre
    <3> HIDE DEF image
    <3>4. image = [columns |-> AllColumns, rows |-> RowsWith(AllColumns), usage |-> NoTable]
      BY <3>2, <3>3
    <3>5. image.columns = AllColumns
      BY <3>4
    <3>6. Prepared(image, "alter")
      BY <1>2, <3>4, <3>5 DEF Prepared
    <3> QED BY <1>1, <1>2, <1>4, <3>6, OpeningStatement
  <2> QED BY <2>1, <2>2, <2>3 DEF Unmigrated
<1> QED BY <1>3, <1>4

LEMMA AddsColumn ==
    ASSUME MigrationInv, NEW s \in Services, AddColumn(s)
    PROVE  MigrationInv'
<1> DEFINE column == Columns[CHOOSE k \in Missing : \A m \in Missing : k <= m]
           image == [working EXCEPT
                        !.columns = @ \cup {column},
                        !.rows = [i \in DOMAIN @ |-> [@[i] EXCEPT ![column] = Default[column]]]]
<1>1. phase[s] = "alter" /\ Missing # {} /\ Statement(s, "alter", "alter", image)
  BY DEF AddColumn
<1>2. "alter" \in Inside
  BY DEF Inside, Opening
<1>3. column \in AllColumns \ working.columns
  <2>1. Missing \subseteq 1..3
    BY ColumnsAre DEF Missing
  <2>2. \E k \in Missing : \A m \in Missing : k <= m
    <3>1. CASE 1 \in Missing
      BY <2>1, <3>1
    <3>2. CASE 1 \notin Missing /\ 2 \in Missing
      BY <2>1, <3>2
    <3>3. CASE 1 \notin Missing /\ 2 \notin Missing
      BY <1>1, <2>1, <3>3
    <3> QED BY <3>1, <3>2, <3>3
  <2>3. PICK k \in Missing : column = Columns[k]
    BY <2>2
  <2> QED BY <2>3, ColumnsAre DEF Missing
<1> HIDE DEF column
<1>4. ~Migrated(file)
  BY <1>1, <1>2, <1>3, BeforeStatement DEF Migrated
<1>5. /\ working.columns \subseteq AllColumns
      /\ working = [columns |-> working.columns, rows |-> RowsWith(working.columns),
                    usage |-> NoTable]
  BY <1>1, <1>2, <1>4, BeforeStatement DEF Prepared
<1>6. PICK columns : columns = working.columns
  OBVIOUS
<1>7. ASSUME NEW i \in DOMAIN old
      PROVE  [RowWith(i, columns) EXCEPT ![column] = Default[column]]
                = RowWith(i, columns \cup {column})
  <2>1. CASE column = "policy"
    BY <2>1 DEF RowWith, Default
  <2>2. CASE column = "version"
    BY <2>2 DEF RowWith, Default
  <2>3. CASE column = "tokens"
    BY <2>3 DEF RowWith, Default
  <2> QED BY <1>3, <2>1, <2>2, <2>3 DEF AllColumns
<1>8. [i \in DOMAIN RowsWith(columns) |->
          [RowsWith(columns)[i] EXCEPT ![column] = Default[column]]]
         = RowsWith(columns \cup {column})
  BY <1>7 DEF RowsWith
<1>9. image = [columns |-> columns \cup {column}, rows |-> RowsWith(columns \cup {column}),
               usage |-> NoTable]
  <2>1. working = [columns |-> columns, rows |-> RowsWith(columns), usage |-> NoTable]
    BY <1>5, <1>6
  <2>2. working.rows = RowsWith(columns)
    BY <2>1
  <2>3. image = [working EXCEPT !.columns = columns \cup {column},
                                !.rows = RowsWith(columns \cup {column})]
    BY <1>6, <1>8, <2>2
  <2> HIDE DEF image
  <2> QED BY <2>1, <2>3
<1>10. Prepared(image, "alter")
  BY <1>2, <1>3, <1>5, <1>6, <1>9 DEF Prepared
<1> HIDE DEF image
<1> QED BY <1>1, <1>2, <1>4, <1>10, OpeningStatement

LEMMA BackfillsPolicy ==
    ASSUME MigrationInv, NEW s \in Services, BackfillPolicy(s)
    PROVE  MigrationInv'
<1> DEFINE image == [working EXCEPT !.rows = [i \in DOMAIN @ |-> Backfilled(@[i])]]
<1>1. phase[s] = "alter" /\ Missing = {} /\ Statement(s, "alter", "create_usage", image)
  BY DEF BackfillPolicy
<1>2. "alter" \in Inside /\ "create_usage" \in Inside
  BY DEF Inside, Opening
<1>3. CASE Migrated(file)
  <2>1. working = file
    BY <1>1, <1>2, <1>3, BeforeStatement
  <2>2. \A i \in DOMAIN file.rows : Backfilled(file.rows[i]) = file.rows[i]
    BY <1>3 DEF Migrated, IsFullRow, Backfilled, Default
  <2>3. [i \in DOMAIN file.rows |-> Backfilled(file.rows[i])] = file.rows
    BY <1>3, <2>2 DEF Migrated
  <2>4. image = file
    BY <1>3, <2>1, <2>3 DEF Migrated
  <2> HIDE DEF image
  <2> QED BY <1>1, <1>2, <1>3, <2>4, OpeningStatement
<1>4. CASE ~Migrated(file)
  <2>1. /\ working.columns \subseteq AllColumns
        /\ working = [columns |-> working.columns, rows |-> RowsWith(working.columns),
                      usage |-> NoTable]
    BY <1>1, <1>2, <1>4, BeforeStatement DEF Prepared
  <2>2. working.columns = AllColumns
    BY <1>1, <2>1, ColumnsAre DEF Missing, AllColumns
  <2>3. ASSUME NEW i \in DOMAIN old
        PROVE  Backfilled(RowWith(i, AllColumns)) = UpgradedRow(i)
    BY DEF Backfilled, RowWith, UpgradedRow, AllColumns, Default
  <2>4. [i \in DOMAIN RowsWith(AllColumns) |-> Backfilled(RowsWith(AllColumns)[i])]
           = UpgradedRows
    BY <2>3 DEF RowsWith, UpgradedRows
  <2>5. image = [columns |-> AllColumns, rows |-> UpgradedRows, usage |-> NoTable]
    BY <2>1, <2>2, <2>4
  <2>6. Prepared(image, "create_usage")
    BY <1>2, <2>5 DEF Prepared
  <2> HIDE DEF image
  <2> QED BY <1>1, <1>2, <1>4, <2>6, OpeningStatement
<1> QED BY <1>3, <1>4

LEMMA CreatesUsage ==
    ASSUME MigrationInv, NEW s \in Services, CreateUsage(s)
    PROVE  MigrationInv'
<1> DEFINE image == IF working.usage = NoTable
                    THEN [working EXCEPT !.usage = [i \in {} |-> 0]] ELSE working
<1>1. Statement(s, "create_usage", "fill_usage", image)
  BY DEF CreateUsage
<1>2. /\ "create_usage" \in Inside /\ "fill_usage" \in Inside
      /\ phase[s] = "create_usage"
  BY <1>1 DEF Inside, Opening, Statement
<1>3. CASE Migrated(file)
  <2>1. working = file /\ file.usage # NoTable
    BY <1>2, <1>3, BeforeStatement, EitherVersion
  <2>2. image = file
    BY <2>1
  <2> HIDE DEF image
  <2> QED BY <1>1, <1>2, <1>3, <2>2, OpeningStatement
<1>4. CASE ~Migrated(file)
  <2>1. working = [columns |-> AllColumns, rows |-> UpgradedRows, usage |-> NoTable]
    BY <1>2, <1>4, BeforeStatement DEF Prepared
  <2>2. image = [columns |-> AllColumns, rows |-> UpgradedRows, usage |-> [i \in {} |-> 0]]
    BY <2>1
  <2>3. Prepared(image, "fill_usage")
    BY <1>2, <2>2 DEF Prepared
  <2> HIDE DEF image
  <2> QED BY <1>1, <1>2, <1>4, <2>3, OpeningStatement
<1> QED BY <1>3, <1>4

LEMMA FillsUsage ==
    ASSUME MigrationInv, NEW s \in Services, FillUsage(s)
    PROVE  MigrationInv'
<1> DEFINE image == [working EXCEPT !.usage = FilledUsage(working.rows, @)]
<1>1. Statement(s, "fill_usage", "commit", image)
  BY DEF FillUsage
<1>2. "fill_usage" \in Inside /\ "commit" \in Inside /\ phase[s] = "fill_usage"
  BY <1>1 DEF Inside, Opening, Statement
<1>3. CASE Migrated(file)
  <2>1. working = file
    BY <1>2, <1>3, BeforeStatement
  <2>2. file.usage \in [SucceededIds(file.rows) -> Nat]
    BY <1>3 DEF Migrated
  <2>3. FilledUsage(file.rows, file.usage) = file.usage
    BY <2>2 DEF FilledUsage
  <2>4. image = file
    BY <1>3, <2>1, <2>3 DEF Migrated
  <2> HIDE DEF image
  <2> QED BY <1>1, <1>2, <1>3, <2>4, OpeningStatement
<1>4. CASE ~Migrated(file)
  <2>1. working = [columns |-> AllColumns, rows |-> UpgradedRows, usage |-> [i \in {} |-> 0]]
    BY <1>2, <1>4, BeforeStatement DEF Prepared
  <2>2. \A i \in SucceededIds(UpgradedRows) : UpgradedRows[i].reserved = old[i].cost
    BY DEF SucceededIds, UpgradedRows, UpgradedRow
  <2>3. FilledUsage(UpgradedRows, [i \in {} |-> 0]) = UpgradedUsage
    BY <2>2 DEF FilledUsage, UpgradedUsage
  <2>4. image = [columns |-> AllColumns, rows |-> UpgradedRows, usage |-> UpgradedUsage]
    BY <2>1, <2>3
  <2>5. Prepared(image, "commit")
    BY <1>2, <2>4 DEF Prepared
  <2> HIDE DEF image
  <2> QED BY <1>1, <1>2, <1>4, <2>5, OpeningStatement
<1> QED BY <1>3, <1>4

LEMMA Constructs ==
    ASSUME MigrationInv, NEW s \in Services, NEW p \in Configurations, Construct(s, p)
    PROVE  MigrationInv'
<1>1. /\ phase[s] = "closed" /\ phase' = [phase EXCEPT ![s] = "begin"]
      /\ configured' = [configured EXCEPT ![s] = p]
      /\ UNCHANGED <<old, file, working, writer, busy, answer>>
  BY DEF Construct, Enter
<1>2. MigrationTypes'
  BY <1>1, OldIsFixed DEF MigrationInv, MigrationTypes, Opening
<1>3. /\ phase'[s] = "begin" /\ configured'[s] = p
      /\ \A t \in Services \ {s} : phase'[t] = phase[t] /\ configured'[t] = configured[t]
  BY <1>1 DEF MigrationInv, MigrationTypes
<1>4. /\ Migrated(file)' = Migrated(file) /\ Unmigrated(file)' = Unmigrated(file)
      /\ \A label : Prepared(working, label)' = Prepared(working, label)
  BY <1>1, OldIsFixed
<1>5. writer # s
  BY <1>1 DEF MigrationInv, ServicesAgree, Inside, Opening
<1>6. ServicesAgree'
  BY <1>1, <1>3, <1>4, <1>5 DEF MigrationInv, ServicesAgree, Inside
<1>7. FileIsSound'
  BY <1>4 DEF MigrationInv, FileIsSound
<1>8. WorkingIsSound'
  BY <1>1, <1>3, <1>4, <1>5 DEF MigrationInv, MigrationTypes, WorkingIsSound
<1>9. LegacyRequestsAreHonoured'
  BY <1>1, LegacyFrame DEF MigrationInv, LegacyRequestsAreHonoured
<1> QED BY <1>2, <1>6, <1>7, <1>8, <1>9 DEF MigrationInv

LEMMA BeginsImmediate ==
    ASSUME MigrationInv, NEW s \in Services, BeginImmediate(s)
    PROVE  MigrationInv'
<1>1. /\ phase[s] = "begin" /\ phase' = [phase EXCEPT ![s] = "create_requests"]
      /\ writer = None /\ writer' = s /\ working' = file
      /\ UNCHANGED <<old, file, configured, busy, answer>>
  BY DEF BeginImmediate, Enter
<1>2. MigrationTypes'
  BY <1>1, OldIsFixed DEF MigrationInv, MigrationTypes, Opening
<1>3. /\ phase'[s] = "create_requests"
      /\ \A t \in Services \ {s} : phase'[t] = phase[t] /\ phase[t] \notin Inside
  BY <1>1, NoneIsNoValue DEF MigrationInv, MigrationTypes, ServicesAgree
<1>4. Migrated(file)' = Migrated(file) /\ Unmigrated(file)' = Unmigrated(file)
  BY <1>1, OldIsFixed
<1>5. "create_requests" \in Inside
  BY DEF Inside, Opening
<1>6. ServicesAgree'
  BY <1>1, <1>3, <1>4, <1>5 DEF MigrationInv, ServicesAgree
<1>7. FileIsSound'
  BY <1>4 DEF MigrationInv, FileIsSound
<1>8. WorkingIsSound'
  <2>1. CASE Migrated(file)
    BY <1>1, <1>4, <2>1 DEF WorkingIsSound
  <2>2. CASE ~Migrated(file)
    <3>1. Unmigrated(file)
      BY <2>2 DEF MigrationInv, FileIsSound
    <3>2. Prepared(file, "create_requests")
      BY <1>5, <3>1 DEF Prepared
    <3>3. Prepared(working, phase[writer])' = Prepared(file, "create_requests")
      BY <1>1, <1>3, OldIsFixed
    <3> QED BY <1>1, <1>4, <2>2, <3>2, <3>3 DEF WorkingIsSound
  <2> QED BY <2>1, <2>2
<1>9. LegacyRequestsAreHonoured'
  BY <1>1, LegacyFrame DEF MigrationInv, LegacyRequestsAreHonoured
<1> QED BY <1>2, <1>6, <1>7, <1>8, <1>9 DEF MigrationInv

\* A commit leaves a migrated file as it is, and migrates any other.
LEMMA Commits ==
    ASSUME MigrationInv, NEW s \in Services, CommitSchema(s)
    PROVE  /\ Migrated(file')
           /\ file' = file \/ Unmigrated(file)
<1>1. phase[s] = "commit" /\ file' = working /\ phase[s] \in Inside
  BY DEF CommitSchema, Inside, Opening
<1>2. CASE Migrated(file)
  <2>1. working = file
    BY <1>1, <1>2, BeforeStatement
  <2> QED BY <1>1, <1>2, <2>1
<1>3. CASE ~Migrated(file)
  <2>1. working = [columns |-> AllColumns, rows |-> UpgradedRows, usage |-> UpgradedUsage]
    BY <1>1, <1>3, BeforeStatement DEF Prepared
  <2>2. Migrated(working)
    BY <2>1, UpgradeMigrates DEF MigrationInv, MigrationTypes
  <2> QED BY <1>1, <1>3, <2>2 DEF MigrationInv, FileIsSound
<1> QED BY <1>2, <1>3

LEMMA CommitsSchema ==
    ASSUME MigrationInv, NEW s \in Services, CommitSchema(s)
    PROVE  MigrationInv'
<1>1. /\ phase[s] = "commit" /\ phase' = [phase EXCEPT ![s] = "open"]
      /\ file' = working /\ writer' = None
      /\ UNCHANGED <<old, configured, busy, answer>>
  BY DEF CommitSchema, Enter
<1>2. MigrationTypes'
  BY <1>1, OldIsFixed DEF MigrationInv, MigrationTypes
<1>3. writer = s
  BY <1>1 DEF MigrationInv, ServicesAgree, Inside, Opening
<1>4. /\ phase'[s] = "open"
      /\ \A t \in Services \ {s} : phase'[t] = phase[t] /\ phase[t] \notin Inside
  BY <1>1, <1>3 DEF MigrationInv, MigrationTypes, ServicesAgree
<1>5. Migrated(file)' /\ (file' = file \/ Unmigrated(file))
  BY <1>1, Commits, OldIsFixed
<1>6. /\ \A t \in Services \ {s} : phase[t] = "busy" => file' = file
      /\ configured[s] \in Configurations
  BY <1>1, <1>5, EitherVersion DEF MigrationInv, ServicesAgree
<1>7. \A t \in Services : None # t
  BY NoneIsNoValue
<1>8. ServicesAgree'
  BY <1>1, <1>4, <1>5, <1>6, <1>7 DEF MigrationInv, ServicesAgree, Inside, Opening
<1>9. WorkingIsSound'
  BY <1>1 DEF WorkingIsSound
<1>10. LegacyRequestsAreHonoured'
  <2>1. PICK image : image = file'
    OBVIOUS
  <2>2. Migrated(image)
    BY <2>1, Commits
  <2>3. \A i \in DOMAIN old : image.rows[i].status = old[i].status
    <3>1. \A i \in DOMAIN old : image.rows[i] = UpgradedRow(i)
      BY <2>2 DEF Migrated
    <3>2. \A i \in DOMAIN old : UpgradedRow(i).status = old[i].status
      BY DEF UpgradedRow
    <3> QED BY <3>1, <3>2
  <2> QED BY <1>1, <2>1, <2>3, LegacyFrame DEF MigrationInv
<1> QED BY <1>2, <1>5, <1>8, <1>9, <1>10 DEF MigrationInv, FileIsSound

LEMMA FailsToOpen ==
    ASSUME MigrationInv, NEW s \in Services, OpeningFails(s)
    PROVE  MigrationInv'
<1>1. /\ phase[s] \in Opening /\ phase' = [phase EXCEPT ![s] = "closed"]
      /\ writer' = IF writer = s THEN None ELSE writer
      /\ working' = IF writer = s THEN None ELSE working
      /\ UNCHANGED <<old, file, configured, busy, answer>>
  BY DEF OpeningFails, Enter
<1>2. MigrationTypes'
  BY <1>1, OldIsFixed DEF MigrationInv, MigrationTypes
<1>3. /\ phase'[s] = "closed" /\ \A t \in Services \ {s} : phase'[t] = phase[t]
      /\ \A t \in Services : None # t
  BY <1>1, NoneIsNoValue DEF MigrationInv, MigrationTypes
<1>4. /\ Migrated(file)' = Migrated(file) /\ Unmigrated(file)' = Unmigrated(file)
      /\ \A label : working' = working => Prepared(working, label)' = Prepared(working, label)
  BY <1>1, OldIsFixed
<1>5. ServicesAgree'
  BY <1>1, <1>3, <1>4 DEF MigrationInv, ServicesAgree, Inside, Opening
<1>6. FileIsSound'
  BY <1>4 DEF MigrationInv, FileIsSound
<1>7. WorkingIsSound'
  BY <1>1, <1>3, <1>4 DEF MigrationInv, MigrationTypes, WorkingIsSound
<1>8. LegacyRequestsAreHonoured'
  BY <1>1, LegacyFrame DEF MigrationInv, LegacyRequestsAreHonoured
<1> QED BY <1>2, <1>5, <1>6, <1>7, <1>8 DEF MigrationInv

\* Only whoever repeats a request of V3.0.1 at its flat price asks the same.
LEMMA SameLegacyRequest ==
    ASSUME OldIsTyped, NEW i \in DOMAIN old, NEW p \in Configurations, NEW prompt, NEW tokens
    PROVE  SameRequest(UpgradedRow(i), prompt, tokens, p) <=>
               /\ prompt = old[i].prompt
               /\ tokens = NoTokens
               /\ p = FlatPolicy(old[i].cost)
<1>1. PolicyId(FlatPolicy(old[i].cost)) = <<"flat", old[i].cost>>
  BY OldRows
<1>2. /\ UpgradedRow(i).hash = <<old[i].prompt, old[i].cost>>
      /\ UpgradedRow(i).policy = <<"flat", old[i].cost>>
      /\ UpgradedRow(i).version = 1 /\ UpgradedRow(i).tokens = NoTokens
  BY <1>1 DEF UpgradedRow, LegacyHash
<1>3. SameRequest(UpgradedRow(i), prompt, tokens, p) <=>
          /\ <<old[i].prompt, old[i].cost>> = <<prompt, QuoteOf(p, tokens)>>
          /\ <<"flat", old[i].cost>> = PolicyId(p)
          /\ NoTokens = tokens
  BY <1>2 DEF SameRequest, ExpectedHash, LegacyHash
<1>4. CASE p \in FlatPolicies
  <2>1. /\ p = [kind |-> "flat", credits |-> p.credits] /\ p.kind = "flat"
    BY <1>4 DEF FlatPolicies
  <2>2. PolicyId(p) = <<"flat", p.credits>> /\ QuoteOf(p, tokens) = p.credits
    BY <2>1 DEF PolicyId, QuoteOf
  <2>3. p = FlatPolicy(old[i].cost) <=> p.credits = old[i].cost
    BY <2>1 DEF FlatPolicy
  <2> QED BY <1>3, <2>2, <2>3
<1>5. CASE p \in TokenPolicies
  <2>1. p.kind = "token"
    BY <1>5 DEF TokenPolicies
  <2>2. PolicyId(p)[1] = "token" /\ p # FlatPolicy(old[i].cost)
    BY <2>1 DEF PolicyId, FlatPolicy
  <2> QED BY <1>3, <2>2
<1> QED BY <1>4, <1>5, ConfigurationsAreValid DEF Policies

LEMMA Replies ==
    ASSUME MigrationInv, NEW s \in Services, NEW i \in RequestKeys,
           NEW prompt \in Prompts, NEW tokens \in TokenLimits, Reply(s, i, prompt, tokens)
    PROVE  MigrationInv'
<1>1. /\ phase[s] = "open" /\ i \in DOMAIN file.rows
      /\ UNCHANGED <<old, file, working, writer, phase, configured, busy>>
  BY DEF Reply
<1>2. /\ Migrated(file) /\ configured[s] \in Configurations
  BY <1>1 DEF MigrationInv, ServicesAgree
<1>3. /\ Migrated(file)' = Migrated(file) /\ Unmigrated(file)' = Unmigrated(file)
      /\ OldIsTyped' = OldIsTyped
      /\ \A label : Prepared(working, label)' = Prepared(working, label)
  BY <1>1, OldIsFixed
<1>4. LegacyRequestsAreHonoured'
  <2>1. CASE i \notin DOMAIN old
    <3>1. answer'.id = i
      BY DEF Reply, Ended
    <3> QED BY <1>1, <2>1, <3>1 DEF MigrationInv, LegacyRequestsAreHonoured
  <2>2. CASE i \in DOMAIN old
    <3> DEFINE same == SameRequest(file.rows[i], prompt, tokens, configured[s])
    <3>1. file.rows[i] = UpgradedRow(i) /\ OldIsTyped
      BY <1>2, <2>2 DEF MigrationInv, MigrationTypes, Migrated
    <3>2. same <=> /\ prompt = old[i].prompt
                   /\ tokens = NoTokens
                   /\ configured[s] = FlatPolicy(old[i].cost)
      BY <1>2, <2>2, <3>1, SameLegacyRequest
    <3>3. file.rows[i].status = old[i].status /\ file.rows[i].reserved = old[i].cost
      BY <3>1 DEF UpgradedRow
    <3>4. ChargedFor(i) = old[i].cost
      BY <1>2, <2>2, <3>3 DEF ChargedFor, Migrated
    <3>5. answer' = [policy |-> configured[s], id |-> i, prompt |-> prompt, tokens |-> tokens,
                     outcome |-> IF same THEN old[i].status ELSE "conflict",
                     credits |-> IF same /\ old[i].status = "SUCCEEDED"
                                 THEN old[i].cost ELSE 0]
      BY <3>3, <3>4 DEF Reply, Ended
    <3> HIDE DEF same
    <3>6. \A j \in DOMAIN old : file.rows[j].status = old[j].status
      BY DEF MigrationInv, LegacyRequestsAreHonoured
    <3> QED BY <1>1, <3>2, <3>5, <3>6 DEF LegacyRequestsAreHonoured
  <2> QED BY <2>1, <2>2
<1>5. MigrationTypes'
  BY <1>1, <1>3 DEF MigrationInv, MigrationTypes
<1>6. ServicesAgree'
  BY <1>1, <1>3 DEF MigrationInv, ServicesAgree
<1>7. FileIsSound' /\ WorkingIsSound'
  BY <1>1, <1>3 DEF MigrationInv, FileIsSound, WorkingIsSound
<1> QED BY <1>4, <1>5, <1>6, <1>7 DEF MigrationInv

\* Writing one new row, and the usage that fits, leaves a migrated file so.
LEMMA WritesNewRow ==
    ASSUME OldIsTyped, NEW image, Migrated(image),
           NEW i \in RequestKeys \ DOMAIN old, NEW row, IsFullRow(row),
           NEW rows, rows = Put(image.rows, i, row),
           NEW costs, costs \in [SucceededIds(rows) -> Nat],
           \A j \in DOMAIN old : j \in DOMAIN costs =>
               j \in DOMAIN image.usage /\ costs[j] = image.usage[j]
    PROVE  Migrated([columns |-> AllColumns, rows |-> rows, usage |-> costs])
<1> DEFINE after == [columns |-> AllColumns, rows |-> rows, usage |-> costs]
<1>1. /\ after.rows = rows /\ after.usage = costs
      /\ after = [columns |-> AllColumns, rows |-> after.rows, usage |-> after.usage]
  OBVIOUS
<1> HIDE DEF after
<1>2. /\ rows = [j \in DOMAIN rows |-> rows[j]]
      /\ DOMAIN rows = DOMAIN image.rows \cup {i} /\ rows[i] = row
      /\ \A j \in DOMAIN image.rows \ {i} : rows[j] = image.rows[j]
  BY DEF Put
<1>3. DOMAIN rows \subseteq RequestKeys /\ \A j \in DOMAIN rows : IsFullRow(rows[j])
  BY <1>2 DEF Migrated
<1>4. \A j \in DOMAIN old : j \in DOMAIN rows /\ rows[j] = UpgradedRow(j)
  BY <1>2 DEF Migrated
<1>5. \A j \in DOMAIN old : j \in DOMAIN costs => costs[j] = old[j].cost
  BY DEF Migrated
<1> QED BY <1>1, <1>2, <1>3, <1>4, <1>5 DEF Migrated, after

LEMMA Reserves ==
    ASSUME MigrationInv, NEW s \in Services, NEW i \in RequestKeys,
           NEW prompt, NEW tokens \in TokenLimits, ReserveNew(s, i, prompt, tokens)
    PROVE  /\ Migrated(file) /\ Migrated(file')
           /\ i \notin DOMAIN file.rows /\ i \notin DOMAIN old
           /\ file'.usage = file.usage
           /\ DOMAIN file'.rows = DOMAIN file.rows \cup {i}
           /\ \A j \in DOMAIN file.rows : file'.rows[j] = file.rows[j]
<1>1. PICK row :
         /\ row = [status |-> "RESERVED", reserved |-> QuoteOf(configured[s], tokens),
                   hash |-> PayloadHash(prompt, tokens, PolicyId(configured[s]),
                                        QuoteOf(configured[s], tokens)),
                   policy |-> PolicyId(configured[s]), version |-> 2, tokens |-> tokens]
         /\ file' = [file EXCEPT !.rows = Put(@, i, row)]
  BY DEF ReserveNew
<1>2. /\ Migrated(file) /\ configured[s] \in Configurations
      /\ i \notin DOMAIN file.rows /\ i \notin DOMAIN old
  BY DEF ReserveNew, MigrationInv, ServicesAgree, Migrated
<1>3. IsFullRow(row)
  <2>1. \A p : PolicyId(p) # << >>
    BY DEF PolicyId
  <2>2. PolicyId(configured[s]) # None /\ None # 2 /\ tokens # None
    BY <1>2, ConfigurationsAreValid, NoneIsNoValue
  <2> QED BY <1>1, <2>1, <2>2 DEF IsFullRow
<1>4. PICK rows : rows = Put(file.rows, i, row)
  OBVIOUS
<1>5. /\ DOMAIN rows = DOMAIN file.rows \cup {i} /\ rows[i] = row
      /\ \A j \in DOMAIN file.rows : rows[j] = file.rows[j]
  BY <1>2, <1>4 DEF Put
<1>6. SucceededIds(rows) = SucceededIds(file.rows)
  BY <1>1, <1>2, <1>5 DEF SucceededIds
<1>7. PICK costs : costs = file.usage
  OBVIOUS
<1>8. costs \in [SucceededIds(rows) -> Nat]
  BY <1>2, <1>6, <1>7 DEF Migrated
<1>9. Migrated([columns |-> AllColumns, rows |-> rows, usage |-> costs])
  BY <1>2, <1>3, <1>4, <1>7, <1>8, WritesNewRow DEF MigrationInv, MigrationTypes
<1>10. file' = [columns |-> AllColumns, rows |-> rows, usage |-> costs]
  BY <1>1, <1>2, <1>4, <1>7 DEF Migrated
<1> QED BY <1>2, <1>5, <1>7, <1>9, <1>10

LEMMA Settles ==
    ASSUME MigrationInv, NEW s \in Services, NEW status \in RowStatuses \ {"RESERVED"},
           NEW credits \in 0..(IF busy[s] = None THEN 0 ELSE file.rows[busy[s]].reserved),
           Settle(s, status, credits)
    PROVE  /\ Migrated(file) /\ Migrated(file')
           /\ DOMAIN file'.rows = DOMAIN file.rows
           /\ \A j \in DOMAIN file.rows :
                /\ j # busy[s] => file'.rows[j] = file.rows[j]
                /\ j = busy[s] =>
                     /\ j \notin DOMAIN old
                     /\ file.rows[j].status = "RESERVED"
                     /\ file'.rows[j] = [file.rows[j] EXCEPT !.status = status]
           /\ \A j \in DOMAIN file.usage :
                j \in DOMAIN file'.usage /\ file'.usage[j] = file.usage[j]
<1>1. PICK i : i = busy[s]
  OBVIOUS
<1>2. PICK row : row = [file.rows[i] EXCEPT !.status = status]
  OBVIOUS
<1>3. /\ phase[s] = "busy" /\ file.rows[i].status = "RESERVED"
      /\ file' = [file EXCEPT
             !.rows[i].status = status,
             !.usage = IF status = "SUCCEEDED" THEN Put(@, i, credits) ELSE @]
  BY <1>1 DEF Settle
<1>4. Migrated(file) /\ i \in DOMAIN file.rows /\ i \notin DOMAIN old /\ i \in RequestKeys
  BY <1>1, <1>3 DEF MigrationInv, ServicesAgree, Migrated
<1>5. IsFullRow(file.rows[i])
  BY <1>4 DEF Migrated
<1>6. IsFullRow(row) /\ row.status = status
  BY <1>2, <1>5 DEF IsFullRow
<1>7. PICK rows : rows = Put(file.rows, i, row)
  OBVIOUS
<1>8. /\ DOMAIN rows = DOMAIN file.rows /\ rows[i] = row
      /\ \A j \in DOMAIN file.rows \ {i} : rows[j] = file.rows[j]
  BY <1>4, <1>7 DEF Put
<1>9. rows = [file.rows EXCEPT ![i] = row]
  BY <1>4, <1>7 DEF Put, Migrated
<1>10. PICK costs : costs = IF status = "SUCCEEDED" THEN Put(file.usage, i, credits)
                            ELSE file.usage
  OBVIOUS
<1>11. credits \in Nat
  OBVIOUS
<1>12. i \notin SucceededIds(file.rows)
  BY <1>3 DEF SucceededIds
<1>13. SucceededIds(rows) = IF status = "SUCCEEDED" THEN SucceededIds(file.rows) \cup {i}
                            ELSE SucceededIds(file.rows)
  BY <1>4, <1>6, <1>8, <1>12 DEF SucceededIds
<1>14. file.usage \in [SucceededIds(file.rows) -> Nat]
  BY <1>4 DEF Migrated
<1>15. /\ costs \in [SucceededIds(rows) -> Nat]
       /\ \A j \in DOMAIN file.usage : j \in DOMAIN costs /\ costs[j] = file.usage[j]
       /\ \A j \in DOMAIN costs : j = i \/ j \in DOMAIN file.usage
  <2>1. CASE status = "SUCCEEDED"
    BY <1>10, <1>11, <1>12, <1>13, <1>14, <2>1 DEF Put
  <2>2. CASE status # "SUCCEEDED"
    BY <1>10, <1>13, <1>14, <2>2
  <2> QED BY <2>1, <2>2
<1>16. Migrated([columns |-> AllColumns, rows |-> rows, usage |-> costs])
  BY <1>4, <1>6, <1>7, <1>15, WritesNewRow DEF MigrationInv, MigrationTypes
<1>17. file' = [columns |-> AllColumns, rows |-> rows, usage |-> costs]
  <2>1. PICK before, spent : before = file.rows /\ spent = file.usage
    OBVIOUS
  <2>2. file = [columns |-> AllColumns, rows |-> before, usage |-> spent]
    BY <1>4, <2>1 DEF Migrated
  <2>3. rows = [before EXCEPT ![i].status = status]
    BY <1>2, <1>9, <2>1
  <2>4. file' = [[columns |-> AllColumns, rows |-> before, usage |-> spent] EXCEPT
                    !.rows[i].status = status, !.usage = costs]
    BY <1>3, <1>10, <2>1, <2>2
  <2> QED BY <2>3, <2>4
<1>18. /\ Migrated(file') /\ file'.rows = rows /\ file'.usage = costs
  BY <1>16, <1>17
<1> QED BY <1>1, <1>2, <1>3, <1>4, <1>8, <1>15, <1>18

\* A transaction of an open service, on a file that nobody is opening.
LEMMA ServiceWrites ==
    ASSUME MigrationInv, NEW s \in Services, phase[s] \in {"open", "busy"},
           writer = None, writer' = None, working' = working,
           phase' \in [Services -> {"closed", "open", "busy"} \cup Opening],
           phase'[s] \in {"open", "busy"},
           \A t \in Services \ {s} : phase'[t] = phase[t] /\ busy'[t] = busy[t],
           busy' \in [Services -> RequestKeys \cup {None}],
           phase'[s] = "busy" => busy'[s] \in DOMAIN file'.rows \ DOMAIN old,
           UNCHANGED <<old, configured>>,
           Migrated(file'), DOMAIN file.rows \subseteq DOMAIN file'.rows,
           LegacyRequestsAreHonoured'
    PROVE  MigrationInv'
<1>1. Migrated(file)' /\ OldIsTyped'
  BY OldIsFixed DEF MigrationInv, MigrationTypes
<1>2. MigrationTypes'
  BY <1>1 DEF MigrationInv, MigrationTypes
<1>3. \A t \in Services : None # t /\ phase[t] \notin Inside
  BY NoneIsNoValue DEF MigrationInv, ServicesAgree
<1>4. ServicesAgree'
  BY <1>1, <1>3 DEF MigrationInv, ServicesAgree, Inside, Opening
<1>5. FileIsSound' /\ WorkingIsSound'
  BY <1>1 DEF FileIsSound, WorkingIsSound
<1> QED BY <1>2, <1>4, <1>5 DEF MigrationInv

LEMMA ReservesNew ==
    ASSUME MigrationInv, NEW s \in Services, NEW i \in RequestKeys,
           NEW prompt, NEW tokens \in TokenLimits, ReserveNew(s, i, prompt, tokens)
    PROVE  MigrationInv'
<1>1. /\ phase[s] = "open" /\ writer = None
      /\ phase' = [phase EXCEPT ![s] = "busy"] /\ busy' = [busy EXCEPT ![s] = i]
      /\ answer'.id = i
      /\ UNCHANGED <<old, working, writer, configured>>
  BY DEF ReserveNew, Enter, Ended
<1>2. /\ Migrated(file') /\ i \notin DOMAIN old
      /\ DOMAIN file'.rows = DOMAIN file.rows \cup {i}
      /\ \A j \in DOMAIN file.rows : file'.rows[j] = file.rows[j]
  BY Reserves
<1>3. /\ phase' \in [Services -> {"closed", "open", "busy"} \cup Opening]
      /\ busy' \in [Services -> RequestKeys \cup {None}]
      /\ phase'[s] = "busy" /\ busy'[s] = i
      /\ \A t \in Services \ {s} : phase'[t] = phase[t] /\ busy'[t] = busy[t]
  BY <1>1 DEF MigrationInv, MigrationTypes
<1>4. LegacyRequestsAreHonoured'
  <2>1. DOMAIN old \subseteq DOMAIN file.rows
    BY <1>1 DEF MigrationInv, ServicesAgree, Migrated
  <2>2. \A j \in DOMAIN old : file.rows[j].status = old[j].status
    BY DEF MigrationInv, LegacyRequestsAreHonoured
  <2> QED BY <1>1, <1>2, <2>1, <2>2 DEF LegacyRequestsAreHonoured
<1> QED BY <1>1, <1>2, <1>3, <1>4, ServiceWrites

LEMMA SettlesRequest ==
    ASSUME MigrationInv, NEW s \in Services, NEW status \in RowStatuses \ {"RESERVED"},
           NEW credits \in 0..(IF busy[s] = None THEN 0 ELSE file.rows[busy[s]].reserved),
           Settle(s, status, credits)
    PROVE  MigrationInv'
<1>1. /\ phase[s] = "busy" /\ writer = None
      /\ phase' = [phase EXCEPT ![s] = "open"] /\ busy' = [busy EXCEPT ![s] = None]
      /\ answer' = None
      /\ UNCHANGED <<old, working, writer, configured>>
  BY DEF Settle, Enter
<1>2. /\ Migrated(file') /\ DOMAIN file'.rows = DOMAIN file.rows
      /\ \A j \in DOMAIN file.rows : j \in DOMAIN old => file'.rows[j] = file.rows[j]
  BY Settles
<1>3. /\ phase' \in [Services -> {"closed", "open", "busy"} \cup Opening]
      /\ busy' \in [Services -> RequestKeys \cup {None}]
      /\ phase'[s] = "open"
      /\ \A t \in Services \ {s} : phase'[t] = phase[t] /\ busy'[t] = busy[t]
  BY <1>1 DEF MigrationInv, MigrationTypes
<1>4. LegacyRequestsAreHonoured'
  <2>1. DOMAIN old \subseteq DOMAIN file.rows
    BY <1>1 DEF MigrationInv, ServicesAgree, Migrated
  <2>2. \A j \in DOMAIN old : file.rows[j].status = old[j].status
    BY DEF MigrationInv, LegacyRequestsAreHonoured
  <2> QED BY <1>1, <1>2, <2>1, <2>2 DEF LegacyRequestsAreHonoured
<1> QED BY <1>1, <1>2, <1>3, <1>4, ServiceWrites

LEMMA Closes ==
    ASSUME MigrationInv, NEW s \in Services, Close(s)
    PROVE  MigrationInv'
<1>1. /\ phase[s] \in {"open", "busy"} /\ phase' = [phase EXCEPT ![s] = "closed"]
      /\ busy' = [busy EXCEPT ![s] = None] /\ answer' = None
      /\ UNCHANGED <<old, file, working, writer, configured>>
  BY DEF Close, Enter
<1>2. MigrationTypes'
  BY <1>1, OldIsFixed DEF MigrationInv, MigrationTypes
<1>3. /\ phase'[s] = "closed" /\ writer # s
      /\ \A t \in Services \ {s} : phase'[t] = phase[t] /\ busy'[t] = busy[t]
  BY <1>1 DEF MigrationInv, MigrationTypes, ServicesAgree, Inside, Opening
<1>4. /\ Migrated(file)' = Migrated(file) /\ Unmigrated(file)' = Unmigrated(file)
      /\ \A label : Prepared(working, label)' = Prepared(working, label)
  BY <1>1, OldIsFixed
<1>5. ServicesAgree'
  BY <1>1, <1>3, <1>4 DEF MigrationInv, ServicesAgree, Inside, Opening
<1>6. FileIsSound'
  BY <1>4 DEF MigrationInv, FileIsSound
<1>7. WorkingIsSound'
  BY <1>1, <1>3, <1>4 DEF MigrationInv, MigrationTypes, WorkingIsSound
<1>8. LegacyRequestsAreHonoured'
  BY <1>1 DEF MigrationInv, LegacyRequestsAreHonoured
<1> QED BY <1>2, <1>5, <1>6, <1>7, <1>8 DEF MigrationInv

LEMMA MigrationStutters ==
    ASSUME MigrationInv, UNCHANGED migrationVars
    PROVE  MigrationInv'
<1>1. UNCHANGED <<old, file, working, writer, phase, configured, busy, answer>>
  BY DEF migrationVars
<1>2. /\ Migrated(file)' = Migrated(file) /\ Unmigrated(file)' = Unmigrated(file)
      /\ \A label : Prepared(working, label)' = Prepared(working, label)
      /\ OldIsTyped' = OldIsTyped
  BY <1>1, OldIsFixed
<1>3. MigrationTypes' /\ ServicesAgree' /\ FileIsSound'
  BY <1>1, <1>2 DEF MigrationInv, MigrationTypes, ServicesAgree, FileIsSound
<1>4. WorkingIsSound' /\ LegacyRequestsAreHonoured'
  BY <1>1, <1>2 DEF MigrationInv, WorkingIsSound, LegacyRequestsAreHonoured
<1> QED BY <1>3, <1>4 DEF MigrationInv

LEMMA MigrationGoesOn == MigrationInv /\ [MigrationNext]_migrationVars => MigrationInv'
<1> SUFFICES ASSUME MigrationInv, [MigrationNext]_migrationVars PROVE MigrationInv'
  OBVIOUS
<1>1. CASE UNCHANGED migrationVars
  BY <1>1, MigrationStutters
<1>2. ASSUME NEW s \in Services, Open(s)
      PROVE  MigrationInv'
  BY <1>2, Constructs, BeginsImmediate, CreatesRequests, AddsColumn, BackfillsPolicy,
     CreatesUsage, FillsUsage, CommitsSchema, FailsToOpen DEF Open
<1>3. ASSUME NEW s \in Services, Serve(s)
      PROVE  MigrationInv'
  BY <1>3, Replies, ReservesNew, SettlesRequest, Closes DEF Serve
<1> QED BY <1>1, <1>2, <1>3 DEF MigrationNext

\* Whoever opens a file of V3.0.1, with any policy and after any failures: its
\* requests keep their status, are answered with it at their old price, and
\* refused to everybody else.
THEOREM LegacyRequestsStayHonoured == MigrationSpec => []LegacyRequestsAreHonoured
<1>1. MigrationInv => LegacyRequestsAreHonoured
  BY DEF MigrationInv
<1> QED BY MigrationStarts, MigrationGoesOn, <1>1, PTL DEF MigrationSpec

LEMMA UsageIsOfSuccesses ==
    ASSUME NEW image, Migrated(image) \/ Unmigrated(image), image.usage # NoTable,
           NEW i \in DOMAIN image.rows
    PROVE  i \in DOMAIN image.usage <=> image.rows[i].status = "SUCCEEDED"
<1>1. image.usage \in [SucceededIds(image.rows) -> Nat]
  BY EitherVersion DEF Migrated
<1> QED BY <1>1 DEF SucceededIds

\* A row that is rewritten at most in its status stays a record of its request.
LEMMA StatusIsAllThatChanges ==
    ASSUME NEW row, IsFullRow(row), NEW status, NEW column \in DOMAIN Default
    PROVE  /\ [row EXCEPT !.status = status].reserved = row.reserved
           /\ [row EXCEPT !.status = status].hash = row.hash
           /\ [row EXCEPT !.status = status][column] = row[column]
<1>1. column \in {"policy", "version", "tokens"}
  BY DEF Default
<1> QED BY <1>1 DEF IsFullRow

LEMMA KeepsRecords ==
    ASSUME MigrationInv, [MigrationNext]_migrationVars, NEW i \in DOMAIN file.rows
    PROVE  RecordKept(i)
<1>1. CASE file' = file
  BY <1>1, UsageIsOfSuccesses DEF MigrationInv, FileIsSound, RecordKept
<1>2. ASSUME NEW s \in Services, CommitSchema(s), file' # file
      PROVE  RecordKept(i)
  <2>1. PICK image : image = file'
    OBVIOUS
  <2>2. Migrated(image) /\ Unmigrated(file)
    BY <1>2, <2>1, Commits
  <2>3. /\ i \in DOMAIN old /\ i \in DOMAIN image.rows
        /\ file.rows[i] = RowWith(i, {}) /\ image.rows[i] = UpgradedRow(i)
    BY <2>2 DEF Unmigrated, Migrated, RowsWith
  <2>4. \A column \in DOMAIN Default : file.rows[i][column] = None
    BY <2>3 DEF Default, RowWith
  <2>5. /\ file.rows[i].status = old[i].status /\ image.rows[i].status = old[i].status
        /\ file.rows[i].reserved = old[i].cost /\ image.rows[i].reserved = old[i].cost
        /\ file.rows[i].hash = image.rows[i].hash
    BY <2>3 DEF RowWith, UpgradedRow
  <2>6. file.usage = NoTable
    BY <2>2, EitherVersion
  <2>7. i \in DOMAIN image.usage <=> image.rows[i].status = "SUCCEEDED"
    BY <2>2, <2>3, EitherVersion, UsageIsOfSuccesses
  <2> QED BY <2>1, <2>3, <2>4, <2>5, <2>6, <2>7 DEF RecordKept
<1>3. ASSUME NEW s \in Services, NEW k \in RequestKeys, NEW prompt \in Prompts,
             NEW tokens \in TokenLimits, ReserveNew(s, k, prompt, tokens)
      PROVE  RecordKept(i)
  <2>1. PICK image : image = file'
    OBVIOUS
  <2>2. /\ Migrated(image) /\ image.usage = file.usage
        /\ i \in DOMAIN image.rows /\ image.rows[i] = file.rows[i]
    BY <1>3, <2>1, Reserves
  <2>3. i \in DOMAIN image.usage <=> image.rows[i].status = "SUCCEEDED"
    BY <2>2, EitherVersion, UsageIsOfSuccesses
  <2> QED BY <2>1, <2>2, <2>3 DEF RecordKept
<1>4. ASSUME NEW s \in Services, NEW status \in RowStatuses \ {"RESERVED"},
             NEW credits \in 0..(IF busy[s] = None THEN 0 ELSE file.rows[busy[s]].reserved),
             Settle(s, status, credits)
      PROVE  RecordKept(i)
  <2>1. PICK image : image = file'
    OBVIOUS
  <2>2. /\ Migrated(file) /\ Migrated(image) /\ i \in DOMAIN image.rows
        /\ i # busy[s] => image.rows[i] = file.rows[i]
        /\ i = busy[s] => /\ file.rows[i].status = "RESERVED"
                          /\ image.rows[i] = [file.rows[i] EXCEPT !.status = status]
        /\ i \in DOMAIN file.usage => image.usage[i] = file.usage[i]
    BY <1>4, <2>1, Settles
  <2>3. i \in DOMAIN image.usage <=> image.rows[i].status = "SUCCEEDED"
    BY <2>2, EitherVersion, UsageIsOfSuccesses
  <2>4. IsFullRow(file.rows[i])
    BY <2>2 DEF Migrated
  <2>5. /\ image.rows[i].reserved = file.rows[i].reserved
        /\ image.rows[i].hash = file.rows[i].hash
        /\ \A column \in DOMAIN Default : image.rows[i][column] = file.rows[i][column]
    <3>1. CASE i # busy[s]
      BY <2>2, <3>1
    <3>2. CASE i = busy[s]
      <4>1. image.rows[i] = [file.rows[i] EXCEPT !.status = status]
        BY <2>2, <3>2
      <4>2. "policy" \in DOMAIN Default
        BY DEF Default
      <4> QED BY <2>4, <4>1, <4>2, StatusIsAllThatChanges
    <3> QED BY <3>1, <3>2
  <2>6. file.rows[i].status # "RESERVED" => image.rows[i].status = file.rows[i].status
    BY <2>2
  <2> QED BY <2>1, <2>2, <2>3, <2>5, <2>6 DEF RecordKept
<1>5. ASSUME NEW s \in Services, Open(s), ~CommitSchema(s)
      PROVE  file' = file
  BY <1>5 DEF Open, Construct, BeginImmediate, CreateRequests, AddColumn, BackfillPolicy,
     CreateUsage, FillUsage, OpeningFails, Statement
<1>6. ASSUME NEW s \in Services, Close(s) \/
             (\E k \in RequestKeys, prompt \in Prompts, tokens \in TokenLimits :
                  Reply(s, k, prompt, tokens))
      PROVE  file' = file
  BY <1>6 DEF Close, Reply
<1>7. CASE UNCHANGED migrationVars
  BY <1>1, <1>7 DEF migrationVars
<1>8. ASSUME NEW s \in Services, Open(s)
      PROVE  RecordKept(i)
  BY <1>1, <1>2, <1>5, <1>8
<1>9. ASSUME NEW s \in Services, Serve(s)
      PROVE  RecordKept(i)
  BY <1>1, <1>3, <1>4, <1>6, <1>9 DEF Serve
<1> QED BY <1>7, <1>8, <1>9 DEF MigrationNext

\* Whatever a request has recorded stays in the file, over any number of
\* openings, upgrades, crashes and later requests.
THEOREM RecordsStay == MigrationSpec => RecordsAreKept
<1>1. MigrationInv /\ [MigrationNext]_migrationVars =>
        [\A i \in DOMAIN file.rows : RecordKept(i)]_migrationVars
  BY KeepsRecords
<1> QED
  BY <1>1, MigrationStarts, MigrationGoesOn, PTL DEF MigrationSpec, RecordsAreKept
------------------------------------------------------------------------------
(* Recursive functions on the natural numbers.                              *)

LEMMA LeastExists ==
    ASSUME NEW S, S \subseteq Nat, S # {}
    PROVE  \E m \in S : \A k \in S : m <= k
<1>1. PICK R : R = OpToRel(<, Nat)
  OBVIOUS
<1>2. \A k, m \in Nat : <<k, m>> \in R <=> k < m
  BY <1>1 DEF OpToRel
<1>3. IsWellFoundedOn(R, Nat)
  BY <1>1, NatLessThanWellFounded
<1>4. PICK m \in S : \A k \in S : <<k, m>> \notin R
  BY <1>3, WFMin
<1>5. ASSUME NEW k \in S PROVE m <= k
  <2>1. k \in Nat /\ m \in Nat
    OBVIOUS
  <2>2. ~ (k < m)
    BY <1>2, <1>4, <2>1
  <2> QED BY <2>1, <2>2
<1> QED BY <1>5

\* f takes a value on base and elsewhere follows from a smaller argument.
Follows(f, N, base, value, step, pred) ==
    \A k \in N : f[k] = IF k \in base THEN value ELSE step[f[pred[k]]]

LEMMA FollowersAgree ==
    ASSUME NEW base, NEW value \in Nat, NEW step \in [Nat -> Nat], NEW pred \in [Nat -> Nat],
           \A k \in Nat \ base : pred[k] < k,
           NEW M \in SUBSET Nat, NEW N, M \subseteq N, \A k \in M : 0..k \subseteq M,
           NEW f, Follows(f, M, base, value, step, pred),
           NEW g, Follows(g, N, base, value, step, pred)
    PROVE  \A k \in M : f[k] = g[k]
<1> DEFINE bad == {i \in M : f[i] # g[i]}
<1>1. SUFFICES ASSUME bad # {} PROVE FALSE
  OBVIOUS
<1>2. PICK i \in bad : \A j \in bad : i <= j
  <2>1. bad \subseteq Nat
    OBVIOUS
  <2> HIDE DEF bad
  <2> QED BY <1>1, <2>1, LeastExists
<1>3. i \in M /\ i \in N /\ f[i] # g[i] /\ i \in Nat
  OBVIOUS
<1>4. CASE i \in base
  BY <1>3, <1>4 DEF Follows
<1>5. CASE i \notin base
  <2>1. pred[i] \in Nat /\ pred[i] < i
    BY <1>3, <1>5
  <2>2. f[pred[i]] = g[pred[i]]
    <3>1. pred[i] \in M
      BY <1>3, <2>1
    <3>2. pred[i] \notin bad
      <4> HIDE DEF bad
      <4> QED BY <1>2, <1>3, <2>1
    <3> QED BY <3>1, <3>2
  <2>3. f[i] = step[f[pred[i]]] /\ g[i] = step[g[pred[i]]]
    BY <1>3, <1>5 DEF Follows
  <2> QED BY <1>3, <2>2, <2>3
<1> QED BY <1>4, <1>5

LEMMA FollowersExist ==
    ASSUME NEW base, NEW value \in Nat, NEW step \in [Nat -> Nat], NEW pred \in [Nat -> Nat],
           \A k \in Nat \ base : pred[k] < k,
           NEW n \in Nat
    PROVE  \E f \in [0..n -> Nat] : Follows(f, 0..n, base, value, step, pred)
<1> DEFINE bad == {i \in Nat : ~ \E f \in [0..i -> Nat] : Follows(f, 0..i, base, value, step, pred)}
<1>1. SUFFICES ASSUME bad # {} PROVE FALSE
  OBVIOUS
<1>2. PICK i \in bad : \A j \in bad : i <= j
  <2>1. bad \subseteq Nat
    OBVIOUS
  <2> HIDE DEF bad
  <2> QED BY <1>1, <2>1, LeastExists
<1>3. i \in Nat /\ 0 \in base
  OBVIOUS
<1>4. ~ \E f \in [0..i -> Nat] : Follows(f, 0..i, base, value, step, pred)
  OBVIOUS
<1>5. i # 0
  <2> DEFINE f == [k \in 0..0 |-> value]
  <2>1. f \in [0..0 -> Nat] /\ Follows(f, 0..0, base, value, step, pred)
    BY <1>3 DEF Follows
  <2> HIDE DEF f
  <2> QED BY <1>4, <2>1
<1>6. i - 1 \in Nat /\ i - 1 \notin bad
  <2> HIDE DEF bad
  <2> QED BY <1>2, <1>3, <1>5
<1>7. PICK f \in [0..(i - 1) -> Nat] : Follows(f, 0..(i - 1), base, value, step, pred)
  BY <1>6
<1>8. \E last \in Nat, g \in [0..i -> Nat] :
        /\ last = IF i \in base THEN value ELSE step[f[pred[i]]]
        /\ g = [k \in 0..i |-> IF k = i THEN last ELSE f[k]]
  <2>1. (IF i \in base THEN value ELSE step[f[pred[i]]]) \in Nat
    <3>1. CASE i \notin base
      <4>1. pred[i] \in 0..(i - 1)
        BY <1>3, <3>1
      <4> QED BY <3>1, <4>1
    <3> QED BY <3>1
  <2>2. PICK last \in Nat : last = IF i \in base THEN value ELSE step[f[pred[i]]]
    BY <2>1
  <2>3. \A k \in 0..i : k # i => k \in 0..(i - 1)
    BY <1>3
  <2>4. [k \in 0..i |-> IF k = i THEN last ELSE f[k]] \in [0..i -> Nat]
    BY <2>3
  <2> QED BY <2>2, <2>4
<1>9. PICK last \in Nat, g \in [0..i -> Nat] :
        /\ last = IF i \in base THEN value ELSE step[f[pred[i]]]
        /\ g = [k \in 0..i |-> IF k = i THEN last ELSE f[k]]
  BY <1>8
<1>10. g[i] = last /\ \A k \in 0..(i - 1) : g[k] = f[k]
  BY <1>3, <1>9
<1>11. \A k \in Nat : k \notin base => pred[k] \in Nat /\ pred[k] < k
  OBVIOUS
<1>12. Follows(g, 0..i, base, value, step, pred)
  <2>1. ASSUME NEW k \in 0..i
        PROVE  g[k] = IF k \in base THEN value ELSE step[g[pred[k]]]
    <3>1. k \in Nat /\ (k \notin base => pred[k] \in 0..(i - 1))
      BY <1>3, <1>11
    <3>2. k \notin base => g[pred[k]] = f[pred[k]]
      BY <1>10, <3>1
    <3>3. CASE k = i
      BY <1>9, <1>10, <3>2, <3>3
    <3>4. CASE k # i
      <4>1. k \in 0..(i - 1)
        BY <1>3, <3>1, <3>4
      <4>2. f[k] = IF k \in base THEN value ELSE step[f[pred[k]]]
        BY <1>7, <4>1 DEF Follows
      <4> QED BY <1>10, <3>2, <4>1, <4>2
    <3> QED BY <3>3, <3>4
  <2> QED BY <2>1 DEF Follows
<1> QED BY <1>4, <1>12

LEMMA RecursionIsDefined ==
    ASSUME NEW base, NEW value \in Nat, NEW step \in [Nat -> Nat], NEW pred \in [Nat -> Nat],
           \A k \in Nat \ base : pred[k] < k
    PROVE  \E f \in [Nat -> Nat] : Follows(f, Nat, base, value, step, pred)
<1> DEFINE part(n) == CHOOSE f \in [0..n -> Nat] : Follows(f, 0..n, base, value, step, pred)
           whole == [n \in Nat |-> part(n)[n]]
<1>1. \A n \in Nat : part(n) \in [0..n -> Nat]
                     /\ Follows(part(n), 0..n, base, value, step, pred)
  BY FollowersExist
<1> HIDE DEF part
<1>2. \A n \in Nat : n \in 0..n
  OBVIOUS
<1>3. whole \in [Nat -> Nat]
  BY <1>1, <1>2
<1>4. ASSUME NEW n \in Nat
      PROVE  whole[n] = IF n \in base THEN value ELSE step[whole[pred[n]]]
  <2>1. part(n)[n] = IF n \in base THEN value ELSE step[part(n)[pred[n]]]
    BY <1>1, <1>2 DEF Follows
  <2>2. CASE n \notin base
    <3>1. pred[n] \in Nat /\ pred[n] <= n /\ pred[n] \in 0..pred[n]
      BY <2>2
    <3>2. part(pred[n])[pred[n]] = part(n)[pred[n]]
      <4>1. PICK m : m = pred[n]
        OBVIOUS
      <4>2. /\ m \in Nat /\ m <= n /\ m \in 0..m
            /\ Follows(part(m), 0..m, base, value, step, pred)
            /\ Follows(part(n), 0..n, base, value, step, pred)
        BY <1>1, <3>1, <4>1
      <4>3. PICK f, g : f = part(m) /\ g = part(n)
        OBVIOUS
      <4>4. /\ Follows(f, 0..m, base, value, step, pred)
            /\ Follows(g, 0..n, base, value, step, pred)
        BY <4>2, <4>3
      <4>5. \A k \in Nat \ base : pred[k] < k
        OBVIOUS
      <4>6. m \in Nat /\ n \in Nat /\ m <= n
        BY <4>2
      <4>7. PICK M, N : M = 0..m /\ N = 0..n
        OBVIOUS
      <4>8. M \in SUBSET Nat /\ M \subseteq N /\ \A k \in M : 0..k \subseteq M
        <5>1. \A k \in 0..m : k \in Nat /\ k \in 0..n /\ \A j \in 0..k : j \in 0..m
          BY <4>6
        <5> QED BY <4>7, <5>1
      <4>9. Follows(f, M, base, value, step, pred) /\ Follows(g, N, base, value, step, pred)
        BY <4>4, <4>7
      <4>10. \A k \in M : f[k] = g[k]
        BY <4>5, <4>8, <4>9, FollowersAgree
      <4> QED BY <4>1, <4>2, <4>3, <4>7, <4>10
    <3> QED BY <2>1, <2>2, <3>1, <3>2
  <2> QED BY <2>1, <2>2
<1> HIDE DEF whole
<1>5. Follows(whole, Nat, base, value, step, pred)
  BY <1>4 DEF Follows
<1> QED BY <1>3, <1>5

\* What Follows says of a g whose values are not yet known to be numbers.
FollowsFromNumbers(g, base, value, step, pred) ==
    /\ \A k \in Nat : k \in base => g[k] = value
    /\ \A k \in Nat \ base : g[pred[k]] \in Nat => g[k] = step[g[pred[k]]]

\* A function on the natural numbers is one if each value follows from another.
LEMMA FollowersAreNatural ==
    ASSUME NEW base, NEW value \in Nat, NEW step \in [Nat -> Nat], NEW pred \in [Nat -> Nat],
           \A k \in Nat \ base : pred[k] < k,
           NEW g, FollowsFromNumbers(g, base, value, step, pred)
    PROVE  \A n \in Nat : g[n] \in Nat
<1> USE DEF FollowsFromNumbers
<1> DEFINE bad == {i \in Nat : g[i] \notin Nat}
<1>1. SUFFICES ASSUME bad # {} PROVE FALSE
  OBVIOUS
<1>2. PICK i \in bad : \A j \in bad : i <= j
  <2>1. bad \subseteq Nat
    OBVIOUS
  <2> HIDE DEF bad
  <2> QED BY <1>1, <2>1, LeastExists
<1>3. i \in Nat /\ g[i] \notin Nat
  OBVIOUS
<1>4. i \notin base
  BY <1>3
<1>5. pred[i] \in Nat /\ pred[i] < i
  BY <1>3, <1>4
<1>6. pred[i] \notin bad
  BY <1>2, <1>3, <1>5
<1>7. g[pred[i]] \in Nat
  BY <1>5, <1>6
<1> QED BY <1>3, <1>4, <1>7

LEMMA PowerUnfolds ==
    ASSUME NEW b \in Nat
    PROVE  /\ Power(b, 0) = 1
           /\ \A n \in Nat : Power(b, n) \in Nat /\ Power(b, n + 1) = b * Power(b, n)
<1> DEFINE IsPower(p) == p = [k \in Nat |-> IF k = 0 THEN 1 ELSE b * p[k - 1]]
           power == CHOOSE p : IsPower(p)
<1>1. PICK base, step, pred :
        /\ base = {0}
        /\ step = [x \in Nat |-> b * x]
        /\ pred = [k \in Nat |-> IF k = 0 THEN 0 ELSE k - 1]
  OBVIOUS
<1>2. step \in [Nat -> Nat] /\ pred \in [Nat -> Nat] /\ \A k \in Nat \ base : pred[k] < k
  <2>1. \A x \in Nat : b * x \in Nat
    OBVIOUS
  <2> QED BY <1>1, <2>1
<1>3. PICK f \in [Nat -> Nat] : Follows(f, Nat, base, 1, step, pred)
  BY <1>2, RecursionIsDefined
<1>4. IsPower(f)
  <2>1. ASSUME NEW k \in Nat PROVE f[k] = IF k = 0 THEN 1 ELSE b * f[k - 1]
    BY <1>1, <1>3 DEF Follows
  <2> QED BY <1>3, <2>1
<1>5. IsPower(power)
  <2> HIDE DEF IsPower
  <2> QED BY <1>4
<1>6. power[0] = 1 /\ \A k \in Nat : k # 0 => power[k] = b * power[k - 1]
  <2> HIDE DEF power
  <2> QED BY <1>5
<1>7. \A n \in Nat : Power(b, n) = power[n]
  BY DEF Power
<1> HIDE DEF power
<1>8. \A n \in Nat : power[n] \in Nat
  <2>1. \A k \in Nat : k \in base => power[k] = 1
    BY <1>1, <1>6
  <2>2. \A k \in Nat \ base : power[pred[k]] \in Nat => power[k] = step[power[pred[k]]]
    <3>1. \A k \in Nat \ base : k \in Nat /\ k # 0 /\ pred[k] = k - 1
      BY <1>1
    <3>2. \A x \in Nat : step[x] = b * x
      BY <1>1
    <3> QED BY <1>6, <3>1, <3>2
  <2>3. PICK g : g = power
    OBVIOUS
  <2>4. FollowsFromNumbers(g, base, 1, step, pred)
    BY <2>1, <2>2, <2>3 DEF FollowsFromNumbers
  <2>5. \A k \in Nat : g[k] \in Nat
    BY <1>2, <2>4, FollowersAreNatural
  <2> QED BY <2>3, <2>5
<1>9. \A n \in Nat : n + 1 \in Nat /\ n + 1 # 0 /\ (n + 1) - 1 = n
  OBVIOUS
<1> QED BY <1>6, <1>7, <1>8, <1>9

LEMMA DigitsUnfold ==
    ASSUME NEW n \in Nat
    PROVE  /\ Digits(n) \in Nat
           /\ n < 10 => Digits(n) = 1
           /\ n >= 10 => Digits(n) = 1 + Digits(n \div 10)
<1> DEFINE AreDigits(d) == d = [k \in Nat |-> IF k < 10 THEN 1 ELSE 1 + d[k \div 10]]
           digits == CHOOSE d : AreDigits(d)
<1>1. PICK base, step, pred :
        /\ base = 0..9
        /\ step = [x \in Nat |-> 1 + x]
        /\ pred = [k \in Nat |-> k \div 10]
  OBVIOUS
<1>2. step \in [Nat -> Nat] /\ pred \in [Nat -> Nat] /\ \A k \in Nat \ base : pred[k] < k
  BY <1>1
<1>3. PICK f \in [Nat -> Nat] : Follows(f, Nat, base, 1, step, pred)
  BY <1>2, RecursionIsDefined
<1>4. \A k \in Nat : (k < 10 <=> k \in base) /\ pred[k] = k \div 10 /\ k \div 10 \in Nat
                     /\ step[k] = 1 + k
  BY <1>1
<1>5. AreDigits(f)
  <2>1. ASSUME NEW k \in Nat PROVE f[k] = IF k < 10 THEN 1 ELSE 1 + f[k \div 10]
    <3>1. f[k] = IF k \in base THEN 1 ELSE step[f[pred[k]]]
      BY <1>3 DEF Follows
    <3>2. f[pred[k]] \in Nat /\ pred[k] = k \div 10 /\ (k < 10 <=> k \in base)
      BY <1>2, <1>4
    <3>3. step[f[pred[k]]] = 1 + f[pred[k]]
      BY <1>4, <3>2
    <3> QED BY <3>1, <3>2, <3>3
  <2> QED BY <1>3, <2>1
<1>6. AreDigits(digits)
  <2> HIDE DEF AreDigits
  <2> QED BY <1>5
<1>7. \A k \in Nat : digits[k] = IF k < 10 THEN 1 ELSE 1 + digits[k \div 10]
  <2> HIDE DEF digits
  <2> QED BY <1>6
<1>8. \A k \in Nat : Digits(k) = digits[k]
  BY DEF Digits
<1> HIDE DEF digits
<1>9. \A k \in Nat : digits[k] \in Nat
  <2>1. \A k \in Nat : k \in base => digits[k] = 1
    BY <1>4, <1>7
  <2>2. \A k \in Nat \ base : digits[pred[k]] \in Nat => digits[k] = step[digits[pred[k]]]
    <3>1. ASSUME NEW k \in Nat \ base, digits[pred[k]] \in Nat
          PROVE  digits[k] = step[digits[pred[k]]]
      <4>1. ~ (k < 10) /\ pred[k] = k \div 10 /\ digits[k] = IF k < 10 THEN 1 ELSE 1 + digits[k \div 10]
        BY <1>4, <1>7
      <4>2. step[digits[pred[k]]] = 1 + digits[pred[k]]
        BY <1>4, <3>1
      <4> QED BY <4>1, <4>2
    <3> QED BY <3>1
  <2>3. PICK g : g = digits
    OBVIOUS
  <2>4. FollowsFromNumbers(g, base, 1, step, pred)
    BY <2>1, <2>2, <2>3 DEF FollowsFromNumbers
  <2>5. \A k \in Nat : g[k] \in Nat
    BY <1>2, <2>4, FollowersAreNatural
  <2> QED BY <2>3, <2>5
<1>10. n \div 10 \in Nat
  BY <1>4
<1> QED BY <1>7, <1>8, <1>9, <1>10

LEMMA BitLengthUnfolds ==
    ASSUME NEW n \in Nat
    PROVE  /\ BitLength(n) \in Nat
           /\ n = 0 => BitLength(n) = 0
           /\ n # 0 => BitLength(n) = 1 + BitLength(n \div 2)
<1> DEFINE AreBits(d) == d = [k \in Nat |-> IF k = 0 THEN 0 ELSE 1 + d[k \div 2]]
           bits == CHOOSE d : AreBits(d)
<1>1. PICK base, step, pred :
        /\ base = {0}
        /\ step = [x \in Nat |-> 1 + x]
        /\ pred = [k \in Nat |-> k \div 2]
  OBVIOUS
<1>2. step \in [Nat -> Nat] /\ pred \in [Nat -> Nat] /\ \A k \in Nat \ base : pred[k] < k
  BY <1>1
<1>3. PICK f \in [Nat -> Nat] : Follows(f, Nat, base, 0, step, pred)
  BY <1>2, RecursionIsDefined
<1>4. \A k \in Nat : (k = 0 <=> k \in base) /\ pred[k] = k \div 2 /\ k \div 2 \in Nat
                     /\ step[k] = 1 + k
  BY <1>1
<1>5. AreBits(f)
  <2>1. ASSUME NEW k \in Nat PROVE f[k] = IF k = 0 THEN 0 ELSE 1 + f[k \div 2]
    BY <1>3, <1>4 DEF Follows
  <2> QED BY <1>3, <2>1
<1>6. AreBits(bits)
  <2> HIDE DEF AreBits
  <2> QED BY <1>5
<1>7. \A k \in Nat : bits[k] = IF k = 0 THEN 0 ELSE 1 + bits[k \div 2]
  <2> HIDE DEF bits
  <2> QED BY <1>6
<1>8. \A k \in Nat : BitLength(k) = bits[k]
  BY DEF BitLength
<1> HIDE DEF bits
<1>9. \A k \in Nat : bits[k] \in Nat
  <2>1. \A k \in Nat : k \in base => bits[k] = 0
    BY <1>4, <1>7
  <2>2. \A k \in Nat \ base : bits[pred[k]] \in Nat => bits[k] = step[bits[pred[k]]]
    BY <1>4, <1>7
  <2>3. PICK g : g = bits
    OBVIOUS
  <2>4. FollowsFromNumbers(g, base, 0, step, pred)
    BY <2>1, <2>2, <2>3 DEF FollowsFromNumbers
  <2>5. \A k \in Nat : g[k] \in Nat
    BY <1>2, <2>4, FollowersAreNatural
  <2> QED BY <2>3, <2>5
<1>10. n \div 2 \in Nat
  BY <1>4
<1> QED BY <1>7, <1>8, <1>9, <1>10
------------------------------------------------------------------------------
(* Powers.                                                                  *)

LEMMA SetInduction ==
    ASSUME NEW S, 0 \in S, \A n \in Nat : n \in S => n + 1 \in S
    PROVE  \A n \in Nat : n \in S
<1> DEFINE bad == Nat \ S
<1>1. SUFFICES ASSUME bad # {} PROVE FALSE
  OBVIOUS
<1>2. PICK i \in bad : \A j \in bad : i <= j
  <2>1. bad \subseteq Nat
    OBVIOUS
  <2> HIDE DEF bad
  <2> QED BY <1>1, <2>1, LeastExists
<1>3. i \in Nat /\ i \notin S /\ i # 0
  OBVIOUS
<1>4. i - 1 \in Nat /\ i - 1 \notin bad
  <2> HIDE DEF bad
  <2> QED BY <1>2, <1>3
<1>5. i - 1 \in S
  BY <1>4
<1>6. (i - 1) + 1 = i
  BY <1>3
<1> QED BY <1>3, <1>4, <1>5, <1>6

LEMMA ProductsAreMonotone ==
    ASSUME NEW a \in Nat, NEW b \in Nat, NEW c \in Nat, NEW d \in Nat, a <= b, c <= d
    PROVE  /\ a * c \in Nat /\ b * d \in Nat
           /\ a * c <= b * d
           /\ a < b /\ c >= 1 => a * c < b * d
<1>1. a * c <= b * c /\ b * c <= b * d
  OBVIOUS
<1>2. a < b /\ c >= 1 => a * c < b * c
  OBVIOUS
<1> QED BY <1>1, <1>2

LEMMA PowersAreNatural ==
    ASSUME NEW b \in Nat, NEW n \in Nat
    PROVE  Power(b, n) \in Nat /\ (b >= 1 => Power(b, n) >= 1)
<1> DEFINE S == {k \in Nat : Power(b, k) \in Nat /\ (b >= 1 => Power(b, k) >= 1)}
<1>1. 0 \in S
  BY PowerUnfolds
<1>2. ASSUME NEW k \in Nat, k \in S PROVE k + 1 \in S
  <2>1. Power(b, k + 1) = b * Power(b, k)
    BY PowerUnfolds
  <2>2. PICK p \in Nat : p = Power(b, k) /\ (b >= 1 => p >= 1)
    BY <1>2
  <2>3. b * p \in Nat /\ (b >= 1 => b * p >= 1)
    BY <2>2
  <2> QED BY <2>1, <2>2, <2>3
<1>3. n \in S
  <2> HIDE DEF S
  <2> QED BY <1>1, <1>2, SetInduction
<1> QED BY <1>3

LEMMA TenPowers == \A n \in Nat : Power(10, n) \in Nat /\ Power(10, n) >= 1
  BY PowersAreNatural

LEMMA PowerAdds ==
    ASSUME NEW b \in Nat, NEW m \in Nat, NEW n \in Nat
    PROVE  Power(b, m + n) = Power(b, m) * Power(b, n)
<1> DEFINE S == {k \in Nat : Power(b, m + k) = Power(b, m) * Power(b, k)}
<1>1. 0 \in S
  <2>1. Power(b, 0) = 1 /\ m + 0 = m /\ Power(b, m) \in Nat
    BY PowerUnfolds
  <2> QED BY <2>1
<1>2. ASSUME NEW k \in Nat, k \in S PROVE k + 1 \in S
  <2>1. Power(b, k + 1) = b * Power(b, k)
    BY PowerUnfolds
  <2>2. m + k \in Nat /\ m + (k + 1) = (m + k) + 1
    OBVIOUS
  <2>3. Power(b, m + (k + 1)) = b * Power(b, m + k)
    BY <2>2, PowerUnfolds
  <2>4. PICK p \in Nat, q \in Nat : p = Power(b, m) /\ q = Power(b, k)
    BY PowersAreNatural
  <2>5. Power(b, m + k) = p * q
    BY <1>2, <2>4
  <2>6. b * (p * q) = p * (b * q)
    OBVIOUS
  <2> QED BY <2>1, <2>3, <2>4, <2>5, <2>6
<1>3. n \in S
  <2> HIDE DEF S
  <2> QED BY <1>1, <1>2, SetInduction
<1> QED BY <1>3

LEMMA PowerOfPower ==
    ASSUME NEW b \in Nat, NEW m \in Nat, NEW n \in Nat
    PROVE  Power(Power(b, m), n) = Power(b, m * n)
<1>1. PICK p \in Nat : p = Power(b, m)
  BY PowersAreNatural
<1> DEFINE S == {k \in Nat : Power(p, k) = Power(b, m * k)}
<1>2. 0 \in S
  <2>1. m * 0 = 0 /\ Power(b, 0) = 1 /\ Power(p, 0) = 1
    BY PowerUnfolds
  <2> QED BY <2>1
<1>3. ASSUME NEW k \in Nat, k \in S PROVE k + 1 \in S
  <2>1. m * k \in Nat /\ m * (k + 1) = m + m * k
    OBVIOUS
  <2>2. PICK j \in Nat : j = m * k
    BY <2>1
  <2>3. Power(p, k + 1) = p * Power(p, k)
    BY PowerUnfolds
  <2>4. Power(b, m + j) = Power(b, m) * Power(b, j)
    BY PowerAdds
  <2>5. Power(p, k) = Power(b, j)
    BY <1>3, <2>2
  <2> QED BY <1>1, <2>1, <2>2, <2>3, <2>4, <2>5
<1>4. n \in S
  <2> HIDE DEF S
  <2> QED BY <1>2, <1>3, SetInduction
<1> QED BY <1>1, <1>4

LEMMA PowerGrowsWithExponent ==
    ASSUME NEW b \in Nat, b >= 1, NEW m \in Nat, NEW n \in Nat, m <= n
    PROVE  Power(b, m) <= Power(b, n)
<1>1. PICK k \in Nat : n = m + k
  <2>1. n - m \in Nat /\ n = m + (n - m)
    OBVIOUS
  <2> QED BY <2>1
<1>2. Power(b, n) = Power(b, m) * Power(b, k)
  BY <1>1, PowerAdds
<1>3. PICK p \in Nat, q \in Nat : p = Power(b, m) /\ q = Power(b, k) /\ q >= 1
  BY PowersAreNatural
<1>4. p <= p * q
  BY <1>3
<1> QED BY <1>2, <1>3, <1>4

LEMMA PowerGrowsWithBase ==
    ASSUME NEW a \in Nat, NEW b \in Nat, a < b, NEW n \in Nat, n >= 1
    PROVE  Power(a, n) < Power(b, n)
<1> DEFINE S == {k \in Nat : Power(a, k + 1) < Power(b, k + 1)}
<1>1. \A c \in Nat : Power(c, 1) = c
  <2>1. ASSUME NEW c \in Nat PROVE Power(c, 1) = c
    <3>1. Power(c, 0) = 1 /\ Power(c, 0 + 1) = c * Power(c, 0)
      BY PowerUnfolds
    <3> QED BY <3>1
  <2> QED BY <2>1
<1>2. 0 \in S
  BY <1>1
<1>3. ASSUME NEW k \in Nat, k \in S PROVE k + 1 \in S
  <2>1. PICK i \in Nat : i = k + 1
    OBVIOUS
  <2>2. Power(a, i + 1) = a * Power(a, i) /\ Power(b, i + 1) = b * Power(b, i)
    BY PowerUnfolds
  <2>3. PICK p \in Nat, q \in Nat : p = Power(a, i) /\ q = Power(b, i)
    BY PowersAreNatural
  <2>4. p < q
    BY <1>3, <2>1, <2>3
  <2>5. a * p < b * q
    <3>1. a * p <= a * q /\ a * q < b * q
      BY <2>4
    <3>2. a * p \in Nat /\ a * q \in Nat /\ b * q \in Nat
      OBVIOUS
    <3> QED BY <3>1, <3>2
  <2> QED BY <2>1, <2>2, <2>3, <2>5
<1>4. n - 1 \in Nat /\ (n - 1) + 1 = n
  OBVIOUS
<1>5. n - 1 \in S
  <2> HIDE DEF S
  <2> QED BY <1>2, <1>3, <1>4, SetInduction
<1> QED BY <1>4, <1>5

LEMMA RootsAreMonotone ==
    ASSUME NEW a \in Nat, NEW b \in Nat, NEW n \in Nat, n >= 1, Power(a, n) <= Power(b, n)
    PROVE  a <= b
<1>1. SUFFICES ASSUME b < a PROVE FALSE
  OBVIOUS
<1>2. Power(b, n) < Power(a, n)
  BY <1>1, PowerGrowsWithBase
<1>3. Power(a, n) \in Nat /\ Power(b, n) \in Nat
  BY PowersAreNatural
<1> QED BY <1>2, <1>3
------------------------------------------------------------------------------
(* The estimate of a number's decimal digits by its bits.                   *)

LEMMA PowersOfTen ==
    /\ Power(10, 0) = 1 /\ Power(10, 1) = 10 /\ Power(10, 3) = 1000
    /\ Power(10, 6) = 1000000 /\ Power(10, 8) = 100000000 /\ Power(10, 9) = 1000000000
<1>1. \A n \in Nat : Power(10, n + 1) = 10 * Power(10, n)
  BY PowerUnfolds
<1>2. Power(10, 0) = 1
  BY PowerUnfolds
<1>3. /\ Power(10, 0 + 1) = 10 * Power(10, 0)
      /\ Power(10, 1 + 1) = 10 * Power(10, 1)
      /\ Power(10, 2 + 1) = 10 * Power(10, 2)
  BY ONLY <1>1
<1>4. Power(10, 1) = 10 /\ Power(10, 3) = 1000
  BY <1>2, <1>3
<1>5. /\ Power(10, 3 + 3) = Power(10, 3) * Power(10, 3)
      /\ Power(10, 6 + 1) = 10 * Power(10, 6)
      /\ Power(10, 7 + 1) = 10 * Power(10, 7)
      /\ Power(10, 8 + 1) = 10 * Power(10, 8)
  BY <1>1, PowerAdds
<1> QED BY <1>2, <1>4, <1>5

\* A bound of 2^k gives one of 2^(2k) and of 2^(2k+1).
LEMMA BoundIsSquared ==
    ASSUME NEW k \in Nat, NEW c \in 0..1, NEW m \in Nat, NEW e \in Nat,
           Power(2, k) <= m * Power(10, e),
           NEW n \in Nat, NEW j \in Nat, (IF c = 1 THEN 2 ELSE 1) * (m * m) <= n * Power(10, j)
    PROVE  Power(2, 2 * k + c) <= n * Power(10, 2 * e + j)
<1> DEFINE d == IF c = 1 THEN 2 ELSE 1
<1>1. Power(2, c) = d
  <2>1. Power(2, 0) = 1 /\ Power(2, 0 + 1) = 2 * Power(2, 0)
    BY PowerUnfolds
  <2> QED BY <2>1
<1>2. PICK p \in Nat, t \in Nat, u \in Nat :
        p = Power(2, k) /\ t = Power(10, e) /\ u = Power(10, j)
  BY PowersAreNatural
<1>3. Power(2, 2 * k + c) = d * (p * p)
  <2>1. 2 * k + c = c + (k + k) /\ k + k \in Nat /\ c \in Nat
    OBVIOUS
  <2>2. Power(2, c + (k + k)) = Power(2, c) * Power(2, k + k)
    BY <2>1, PowerAdds
  <2>3. Power(2, k + k) = Power(2, k) * Power(2, k)
    BY PowerAdds
  <2> QED BY <1>1, <1>2, <2>1, <2>2, <2>3
<1>4. Power(10, 2 * e + j) = u * (t * t)
  <2>1. 2 * e + j = j + (e + e) /\ e + e \in Nat
    OBVIOUS
  <2>2. Power(10, j + (e + e)) = Power(10, j) * Power(10, e + e)
    BY <2>1, PowerAdds
  <2>3. Power(10, e + e) = Power(10, e) * Power(10, e)
    BY PowerAdds
  <2> QED BY <1>2, <2>1, <2>2, <2>3
<1>5. d \in Nat /\ d * (m * m) <= n * u /\ p <= m * t
  BY <1>2
<1> HIDE DEF d
<1>6. p * p <= (m * t) * (m * t)
  <2>1. m * t \in Nat
    OBVIOUS
  <2> QED BY <1>5, <2>1, ProductsAreMonotone
<1>7. (m * t) * (m * t) = (m * m) * (t * t)
  OBVIOUS
<1>8. PICK pp \in Nat, mm \in Nat, tt \in Nat, nu \in Nat :
        pp = p * p /\ mm = m * m /\ tt = t * t /\ nu = n * u
  <2>1. p * p \in Nat /\ m * m \in Nat /\ t * t \in Nat /\ n * u \in Nat
    OBVIOUS
  <2> QED BY <2>1
<1>9. pp <= mm * tt /\ d * mm <= nu
  BY <1>5, <1>6, <1>7, <1>8
<1>10. d * pp <= d * (mm * tt) /\ (d * mm) * tt <= nu * tt
  <2>1. mm * tt \in Nat /\ d * mm \in Nat
    BY <1>5
  <2> QED BY <1>5, <1>9, <2>1, ProductsAreMonotone
<1>11. d * (mm * tt) = (d * mm) * tt
  BY <1>5
<1>12. d * pp \in Nat /\ d * (mm * tt) \in Nat /\ nu * tt \in Nat
  BY <1>5
<1>13. d * pp <= nu * tt
  BY <1>10, <1>11, <1>12
<1>14. n * (u * (t * t)) = nu * tt
  BY <1>8
<1> QED BY <1>3, <1>4, <1>8, <1>13, <1>14

\* log10(2) is at most 0.30103, the constant of _integer_decimal_digits.
LEMMA ThirtyThousandDigits == Power(2, 100000) <= Power(10, 30103)
<1>1. Power(2, 1) <= 2 * Power(10, 0)
  <2>1. Power(2, 0) = 1 /\ Power(2, 0 + 1) = 2 * Power(2, 0)
    BY PowerUnfolds
  <2> QED BY <2>1, PowersOfTen
<1>2. Power(2, 3) <= 8 * Power(10, 0)
  <2>1. Power(2, 2 * 1 + 1) <= 8 * Power(10, 2 * 0 + 0)
    BY <1>1, PowersOfTen, BoundIsSquared
  <2> QED BY <2>1
<1>3. Power(2, 6) <= 64 * Power(10, 0)
  <2>1. Power(2, 2 * 3 + 0) <= 64 * Power(10, 2 * 0 + 0)
    BY <1>2, PowersOfTen, BoundIsSquared
  <2> QED BY <2>1
<1>4. Power(2, 12) <= 4096 * Power(10, 0)
  <2>1. Power(2, 2 * 6 + 0) <= 4096 * Power(10, 2 * 0 + 0)
    BY <1>3, PowersOfTen, BoundIsSquared
  <2> QED BY <2>1
<1>5. Power(2, 24) <= 16777216 * Power(10, 0)
  <2>1. Power(2, 2 * 12 + 0) <= 16777216 * Power(10, 2 * 0 + 0)
    BY <1>4, PowersOfTen, BoundIsSquared
  <2> QED BY <2>1
<1>6. Power(2, 48) <= 281474977 * Power(10, 6)
  <2>1. Power(2, 2 * 24 + 0) <= 281474977 * Power(10, 2 * 0 + 6)
    BY <1>5, PowersOfTen, BoundIsSquared
  <2> QED BY <2>1
<1>7. Power(2, 97) <= 158456326 * Power(10, 21)
  <2>1. Power(2, 2 * 48 + 1) <= 158456326 * Power(10, 2 * 6 + 9)
    BY <1>6, PowersOfTen, BoundIsSquared
  <2> QED BY <2>1
<1>8. Power(2, 195) <= 502168145 * Power(10, 50)
  <2>1. Power(2, 2 * 97 + 1) <= 502168145 * Power(10, 2 * 21 + 8)
    BY <1>7, PowersOfTen, BoundIsSquared
  <2> QED BY <2>1
<1>9. Power(2, 390) <= 252172846 * Power(10, 109)
  <2>1. Power(2, 2 * 195 + 0) <= 252172846 * Power(10, 2 * 50 + 9)
    BY <1>8, PowersOfTen, BoundIsSquared
  <2> QED BY <2>1
<1>10. Power(2, 781) <= 127182289 * Power(10, 227)
  <2>1. Power(2, 2 * 390 + 1) <= 127182289 * Power(10, 2 * 109 + 9)
    BY <1>9, PowersOfTen, BoundIsSquared
  <2> QED BY <2>1
<1>11. Power(2, 1562) <= 161753347 * Power(10, 462)
  <2>1. Power(2, 2 * 781 + 0) <= 161753347 * Power(10, 2 * 227 + 8)
    BY <1>10, PowersOfTen, BoundIsSquared
  <2> QED BY <2>1
<1>12. Power(2, 3125) <= 523282906 * Power(10, 932)
  <2>1. Power(2, 2 * 1562 + 1) <= 523282906 * Power(10, 2 * 462 + 8)
    BY <1>11, PowersOfTen, BoundIsSquared
  <2> QED BY <2>1
<1>13. Power(2, 6250) <= 273825000 * Power(10, 1873)
  <2>1. Power(2, 2 * 3125 + 0) <= 273825000 * Power(10, 2 * 932 + 9)
    BY <1>12, PowersOfTen, BoundIsSquared
  <2> QED BY <2>1
<1>14. Power(2, 12500) <= 749801307 * Power(10, 3754)
  <2>1. Power(2, 2 * 6250 + 0) <= 749801307 * Power(10, 2 * 1873 + 8)
    BY <1>13, PowersOfTen, BoundIsSquared
  <2> QED BY <2>1
<1>15. Power(2, 25000) <= 562202000 * Power(10, 7517)
  <2>1. Power(2, 2 * 12500 + 0) <= 562202000 * Power(10, 2 * 3754 + 9)
    BY <1>14, PowersOfTen, BoundIsSquared
  <2> QED BY <2>1
<1>16. Power(2, 50000) <= 316071089 * Power(10, 15043)
  <2>1. Power(2, 2 * 25000 + 0) <= 316071089 * Power(10, 2 * 7517 + 9)
    BY <1>15, PowersOfTen, BoundIsSquared
  <2> QED BY <2>1
<1>17. Power(2, 100000) <= 999009334 * Power(10, 30094)
  <2>1. Power(2, 2 * 50000 + 0) <= 999009334 * Power(10, 2 * 15043 + 8)
    BY <1>16, PowersOfTen, BoundIsSquared
  <2> QED BY <2>1
<1>18. Power(10, 9 + 30094) = Power(10, 9) * Power(10, 30094)
  BY PowerAdds
<1>19. PICK t \in Nat : t = Power(10, 30094)
  BY PowersAreNatural
<1>20. Power(10, 30103) = 1000000000 * t
  <2>1. 9 + 30094 = 30103
    OBVIOUS
  <2> QED BY <1>18, <1>19, <2>1, PowersOfTen
<1>21. 999009334 * t <= 1000000000 * t
  OBVIOUS
<1>22. PICK p \in Nat : p = Power(2, 100000) /\ p <= 999009334 * t
  BY <1>17, <1>19, PowersAreNatural
<1> QED BY <1>20, <1>21, <1>22

LEMMA BitsBound ==
    ASSUME NEW n \in Nat
    PROVE  n < Power(2, BitLength(n))
<1> DEFINE bad == {k \in Nat : ~ (k < Power(2, BitLength(k)))}
<1>1. SUFFICES ASSUME bad # {} PROVE FALSE
  OBVIOUS
<1>2. PICK i \in bad : \A j \in bad : i <= j
  <2>1. bad \subseteq Nat
    OBVIOUS
  <2> HIDE DEF bad
  <2> QED BY <1>1, <2>1, LeastExists
<1>3. i \in Nat /\ ~ (i < Power(2, BitLength(i)))
  OBVIOUS
<1>4. CASE i = 0
  <2>1. Power(2, BitLength(i)) \in Nat /\ Power(2, BitLength(i)) >= 1
    BY <1>3, BitLengthUnfolds, PowersAreNatural
  <2> QED BY <1>3, <1>4, <2>1
<1>5. CASE i # 0
  <2>1. PICK h \in Nat : h = i \div 2 /\ h < i /\ i < 2 * (h + 1)
    <3>1. i \div 2 \in Nat /\ i \div 2 < i /\ i < 2 * (i \div 2 + 1)
      BY <1>3, <1>5
    <3> QED BY <3>1
  <2>2. h \notin bad
    <3> HIDE DEF bad
    <3> QED BY <1>2, <1>3, <2>1
  <2>3. h < Power(2, BitLength(h))
    BY <2>2
  <2>4. PICK b \in Nat : b = BitLength(h)
    BY BitLengthUnfolds
  <2>5. BitLength(i) = b + 1
    BY <1>3, <1>5, <2>1, <2>4, BitLengthUnfolds
  <2>6. Power(2, b + 1) = 2 * Power(2, b)
    BY PowerUnfolds
  <2>7. PICK p \in Nat : p = Power(2, b)
    BY PowersAreNatural
  <2>8. i < 2 * p
    BY <1>3, <2>1, <2>3, <2>4, <2>7
  <2> QED BY <1>3, <2>5, <2>6, <2>7, <2>8
<1> QED BY <1>4, <1>5

LEMMA EstimateCoversBits ==
    ASSUME NEW b \in Nat
    PROVE  Power(2, b) <= Power(10, (b * 30103) \div 100000 + 1)
<1>1. PICK E \in Nat : E = (b * 30103) \div 100000 + 1 /\ b * 30103 < 100000 * E
  <2>1. /\ (b * 30103) \div 100000 + 1 \in Nat
        /\ 100000 * ((b * 30103) \div 100000 + 1) > b * 30103
    OBVIOUS
  <2> QED BY <2>1
<1>2. PICK p \in Nat, t \in Nat : p = Power(2, b) /\ t = Power(10, E)
  BY PowersAreNatural
<1>3. Power(p, 100000) = Power(Power(2, 100000), b)
  <2>1. Power(Power(2, b), 100000) = Power(2, b * 100000)
    BY PowerOfPower
  <2>2. Power(Power(2, 100000), b) = Power(2, 100000 * b)
    BY PowerOfPower
  <2>3. b * 100000 = 100000 * b
    OBVIOUS
  <2> QED BY <1>2, <2>1, <2>2, <2>3
<1>4. Power(t, 100000) = Power(10, E * 100000)
  BY <1>2, PowerOfPower
<1>5. PICK x \in Nat, y \in Nat : x = Power(2, 100000) /\ y = Power(10, 30103) /\ x <= y
  BY PowersAreNatural, ThirtyThousandDigits
<1>6. Power(x, b) <= Power(y, b)
  <2>1. CASE b = 0
    <3>1. Power(x, 0) = 1 /\ Power(y, 0) = 1
      BY PowerUnfolds
    <3> QED BY <2>1, <3>1
  <2>2. CASE x = y
    <3>1. Power(x, b) \in Nat
      BY PowersAreNatural
    <3> QED BY <2>2, <3>1
  <2>3. CASE b # 0 /\ x # y
    <3>1. x < y /\ b >= 1
      BY <1>5, <2>3
    <3>2. Power(x, b) < Power(y, b)
      BY <3>1, PowerGrowsWithBase
    <3>3. Power(x, b) \in Nat /\ Power(y, b) \in Nat
      BY PowersAreNatural
    <3> QED BY <3>2, <3>3
  <2> QED BY <2>1, <2>2, <2>3
<1>7. Power(y, b) = Power(10, 30103 * b)
  BY <1>5, PowerOfPower
<1>8. Power(10, 30103 * b) <= Power(10, E * 100000)
  <2>1. PICK i \in Nat, j \in Nat : i = 30103 * b /\ j = E * 100000 /\ i <= j
    <3>1. 30103 * b \in Nat /\ E * 100000 \in Nat /\ 30103 * b <= E * 100000
      BY <1>1
    <3> QED BY <3>1
  <2>2. Power(10, i) <= Power(10, j)
    BY <2>1, PowerGrowsWithExponent
  <2> QED BY <2>1, <2>2
<1>9. Power(p, 100000) <= Power(t, 100000)
  <2>1. Power(x, b) \in Nat /\ Power(y, b) \in Nat /\ Power(t, 100000) \in Nat
    <3>1. Power(x, b) \in Nat
      BY PowersAreNatural
    <3>2. Power(y, b) \in Nat
      BY PowersAreNatural
    <3>3. Power(t, 100000) \in Nat
      BY PowersAreNatural
    <3> QED BY <3>1, <3>2, <3>3
  <2>2. Power(p, 100000) = Power(x, b)
    BY <1>3, <1>5
  <2> QED BY <1>4, <1>6, <1>7, <1>8, <2>1, <2>2
<1>10. p <= t
  BY <1>9, RootsAreMonotone
<1> QED BY <1>1, <1>2, <1>10

\* n has at most as many digits as _integer_decimal_digits says.
LEMMA IntegerDigitsBound ==
    ASSUME NEW n \in Nat
    PROVE  /\ IntegerDecimalDigits(n) \in Nat
           /\ n < Power(10, IntegerDecimalDigits(n))
<1>1. PICK b \in Nat : b = BitLength(n)
  BY BitLengthUnfolds
<1>2. PICK E \in Nat : E = (b * 30103) \div 100000 + 1 /\ E >= 1
  <2>1. (b * 30103) \div 100000 \in Nat
    OBVIOUS
  <2>2. \A q \in Nat : q + 1 \in Nat /\ q + 1 >= 1
    OBVIOUS
  <2> QED BY <2>1, <2>2
<1>3. E - 1 \in Nat
  BY <1>2
<1>4. n < Power(10, E)
  <2>1. n < Power(2, b)
    BY <1>1, BitsBound
  <2>2. Power(2, b) <= Power(10, E)
    BY <1>2, EstimateCoversBits
  <2>3. Power(2, b) \in Nat /\ Power(10, E) \in Nat
    BY PowersAreNatural
  <2> QED BY <2>1, <2>2, <2>3
<1>5. IntegerDecimalDigits(n) = IF n < Power(10, E - 1) THEN E - 1 ELSE E
  BY <1>1, <1>2 DEF IntegerDecimalDigits
<1> QED BY <1>3, <1>4, <1>5

LEMMA DigitsBound ==
    ASSUME NEW n \in Nat
    PROVE  /\ Digits(n) \in Nat \ {0}
           /\ n < Power(10, Digits(n))
           /\ n # 0 => Power(10, Digits(n) - 1) <= n
           /\ n = 0 => Digits(n) = 1
<1> DEFINE Bounded(k) == /\ Digits(k) \in Nat \ {0}
                         /\ k < Power(10, Digits(k))
                         /\ k # 0 => Power(10, Digits(k) - 1) <= k
           bad == {k \in Nat : ~ Bounded(k)}
<1>1. ASSUME bad # {} PROVE FALSE
  <2>1. PICK i \in bad : \A j \in bad : i <= j
    <3>1. bad \subseteq Nat
      OBVIOUS
    <3> HIDE DEF bad
    <3> QED BY <1>1, <3>1, LeastExists
  <2>2. i \in Nat /\ ~ Bounded(i)
    OBVIOUS
  <2>3. CASE i < 10
    <3>1. Digits(i) = 1 /\ Power(10, 1) = 10 /\ Power(10, 1 - 1) = 1
      BY <2>2, <2>3, DigitsUnfold, PowersOfTen
    <3> QED BY <2>2, <2>3, <3>1
  <2>4. CASE i >= 10
    <3>1. PICK h \in Nat : h = i \div 10 /\ h < i /\ h # 0 /\ 10 * h <= i /\ i < 10 * (h + 1)
      <4>1. /\ i \div 10 \in Nat /\ i \div 10 < i /\ i \div 10 # 0
            /\ 10 * (i \div 10) <= i /\ i < 10 * (i \div 10 + 1)
        BY <2>2, <2>4
      <4> QED BY <4>1
    <3>2. h \notin bad
      <4> HIDE DEF bad
      <4> QED BY <2>1, <2>2, <3>1
    <3>3. Bounded(h)
      BY <3>2
    <3>4. PICK d \in Nat : d = Digits(h) - 1 /\ Digits(h) = d + 1
      <4>1. Digits(h) \in Nat /\ Digits(h) # 0
        BY <3>3
      <4>2. \A x \in Nat : x # 0 => x - 1 \in Nat /\ x = (x - 1) + 1
        OBVIOUS
      <4> QED BY <4>1, <4>2
    <3>5. Digits(i) = d + 2 /\ Digits(i) - 1 = d + 1
      <4>1. Digits(i) = 1 + Digits(h)
        BY <2>2, <2>4, <3>1, DigitsUnfold
      <4> QED BY <3>4, <4>1
    <3>6. PICK p \in Nat : p = Power(10, d)
      BY PowersAreNatural
    <3>7. Power(10, d + 1) = 10 * p /\ Power(10, (d + 1) + 1) = 10 * Power(10, d + 1)
      BY <3>6, PowerUnfolds
    <3>8. Power(10, d + 2) = 100 * p
      <4>1. (d + 1) + 1 = d + 2
        OBVIOUS
      <4> QED BY <3>7, <4>1
    <3>9. h < 10 * p /\ p <= h
      BY <3>1, <3>3, <3>4, <3>6, <3>7
    <3>10. i < 100 * p /\ 10 * p <= i
      BY <2>2, <3>1, <3>9
    <3>11. Bounded(i)
      BY <3>5, <3>7, <3>8, <3>10
    <3> QED BY <2>2, <3>11
  <2> QED BY <2>2, <2>3, <2>4
<1>2. Bounded(n)
  BY <1>1
<1> QED BY <1>2, DigitsUnfold

LEMMA DigitsAtMost ==
    ASSUME NEW n \in Nat, NEW d \in Nat, d >= 1, n < Power(10, d)
    PROVE  Digits(n) <= d
<1>1. CASE n = 0
  BY <1>1, DigitsBound
<1>2. CASE n # 0
  <2>1. PICK k \in Nat : k = Digits(n) - 1 /\ Digits(n) = k + 1
    <3>1. Digits(n) \in Nat /\ Digits(n) # 0
      BY DigitsBound
    <3>2. \A x \in Nat : x # 0 => x - 1 \in Nat /\ x = (x - 1) + 1
      OBVIOUS
    <3> QED BY <3>1, <3>2
  <2>2. Power(10, k) <= n
    BY <1>2, <2>1, DigitsBound
  <2>3. k < d
    <3>1. SUFFICES ASSUME d <= k PROVE FALSE
      BY <2>1
    <3>2. Power(10, d) <= Power(10, k)
      BY <3>1, PowerGrowsWithExponent
    <3>3. Power(10, d) \in Nat /\ Power(10, k) \in Nat
      BY PowersAreNatural
    <3> QED BY <2>2, <3>2, <3>3
  <2> QED BY <2>1, <2>3
<1> QED BY <1>1, <1>2
------------------------------------------------------------------------------
(* What _price computes.                                                    *)

LEMMA ExtremesOfTwo ==
    ASSUME NEW a \in Int, NEW b \in Int
    PROVE  /\ Max({a, b}) \in {a, b} /\ Max({a, b}) >= a /\ Max({a, b}) >= b
           /\ Min({a, b}) \in {a, b} /\ Min({a, b}) <= a /\ Min({a, b}) <= b
<1>1. \E x \in {a, b} : \A y \in {a, b} : x >= y
  OBVIOUS
<1>2. \E x \in {a, b} : \A y \in {a, b} : x <= y
  OBVIOUS
<1>3. Max({a, b}) \in {a, b} /\ \A y \in {a, b} : Max({a, b}) >= y
  BY <1>1 DEF Max
<1>4. Min({a, b}) \in {a, b} /\ \A y \in {a, b} : Min({a, b}) <= y
  BY <1>2 DEF Min
<1> QED BY <1>3, <1>4

\* A coefficient that fits is kept.
LEMMA FittingIsKept ==
    ASSUME NEW x \in DecimalNumber, NEW d \in Nat, d >= 1, x.coef < Power(10, d),
           NEW precision \in Int, d <= precision
    PROVE  RoundUp(x, precision) = x
<1>1. x.coef \in Nat
  BY DEF DecimalNumber
<1>2. Digits(x.coef) \in Nat /\ Digits(x.coef) <= d
  BY <1>1, DigitsAtMost, DigitsBound
<1>3. Digits(x.coef) - precision <= 0
  BY <1>2
<1> QED BY <1>3 DEF RoundUp

LEMMA ProductDigits ==
    ASSUME NEW c \in Nat, NEW n \in Nat
    PROVE  /\ c * n \in Nat
           /\ Digits(c) + IntegerDecimalDigits(n) \in Nat
           /\ Digits(c) + IntegerDecimalDigits(n) >= 1
           /\ c * n < Power(10, Digits(c) + IntegerDecimalDigits(n))
<1>1. PICK d \in Nat : d = Digits(c) /\ d >= 1 /\ c < Power(10, d)
  <2>1. Digits(c) \in Nat /\ Digits(c) >= 1
    BY DigitsBound
  <2> QED BY <2>1, DigitsBound
<1>2. PICK i \in Nat : i = IntegerDecimalDigits(n) /\ n < Power(10, i)
  BY IntegerDigitsBound
<1>3. Power(10, d + i) = Power(10, d) * Power(10, i)
  BY PowerAdds
<1>4. PICK x \in Nat, y \in Nat : x = Power(10, d) /\ y = Power(10, i)
  BY PowersAreNatural
<1>5. c * n < x * y /\ c * n \in Nat
  <2>1. c < x /\ n < y /\ n + 1 <= y /\ n + 1 \in Nat
    BY <1>1, <1>2, <1>4
  <2>2. c * (n + 1) < x * (n + 1) /\ c * n <= c * (n + 1)
    BY <2>1
  <2>3. x * (n + 1) <= x * y
    BY <2>1
  <2>4. c * n \in Nat /\ c * (n + 1) \in Nat /\ x * (n + 1) \in Nat /\ x * y \in Nat
    OBVIOUS
  <2> QED BY <2>2, <2>3, <2>4
<1> QED BY <1>1, <1>2, <1>3, <1>4, <1>5

LEMMA CeilDivIsCeiling ==
    ASSUME NEW n \in Nat, NEW m \in Nat, m >= 1
    PROVE  /\ CeilDiv(n, m) \in Nat
           /\ CeilDiv(n, m) * m >= n
           /\ (CeilDiv(n, m) - 1) * m < n
<1>1. PICK a \in Nat : a = n + m - 1
  <2>1. n + m - 1 \in Nat
    OBVIOUS
  <2> QED BY <2>1
<1>2. PICK q \in Nat : q = a \div m /\ q * m <= a /\ a < q * m + m
  <2>1. a \div m \in Nat /\ (a \div m) * m <= a /\ a < (a \div m) * m + m
    OBVIOUS
  <2> QED BY <2>1
<1>3. CeilDiv(n, m) = q
  BY <1>1, <1>2 DEF CeilDiv
<1>4. q * m \in Nat /\ (q - 1) * m = q * m - m
  OBVIOUS
<1>5. q * m >= n /\ q * m - m < n
  BY <1>1, <1>2, <1>4
<1> QED BY <1>3, <1>4, <1>5

\* Dividing a Decimal by 1000 and rounding it up, in units of 10^-Scale.
LEMMA QuotientIsCeiling ==
    ASSUME NEW c \in Nat, NEW e \in Int, e + Scale >= 0,
           NEW n, n = ToIntegralCeiling(DivideByUnit([coef |-> c, exp |-> e]))
    PROVE  /\ n \in Nat
           /\ n * Power(10, Scale + TokensPerRateUnitExp) >= c * Power(10, e + Scale)
           /\ (n - 1) * Power(10, Scale + TokensPerRateUnitExp) < c * Power(10, e + Scale)
<1>1. DivideByUnit([coef |-> c, exp |-> e]) = [coef |-> c, exp |-> e - 3]
  BY DEF DivideByUnit, TokensPerRateUnitExp
<1>2. Scale \in Nat /\ e + Scale \in Nat /\ Scale + 3 \in Nat
  BY ScaleHoldsRates
<1>3. PICK v \in Nat, u \in Nat :
        v = Power(10, e + Scale) /\ v >= 1 /\ u = Power(10, Scale + 3) /\ u >= 1
  <2>1. PICK i \in Nat, j \in Nat : i = e + Scale /\ j = Scale + 3
    BY <1>2
  <2>2. Power(10, i) \in Nat /\ Power(10, i) >= 1
    BY TenPowers
  <2>3. Power(10, j) \in Nat /\ Power(10, j) >= 1
    BY TenPowers
  <2> QED BY <2>1, <2>2, <2>3
<1>4. CASE e >= 3
  <2>1. e - 3 \in Nat
    BY <1>4
  <2>2. PICK t \in Nat : t = Power(10, e - 3)
    BY <2>1, PowersAreNatural
  <2>3. n = c * t
    BY <1>1, <1>4, <2>2 DEF ToIntegralCeiling
  <2>4. v = t * u
    <3>1. Power(10, (e - 3) + (Scale + 3)) = Power(10, e - 3) * Power(10, Scale + 3)
      BY <1>2, <2>1, PowerAdds
    <3>2. (e - 3) + (Scale + 3) = e + Scale
      BY <1>2
    <3> QED BY <1>3, <2>2, <3>1, <3>2
  <2>5. c * t \in Nat /\ (c * t) * u = c * (t * u) /\ (c * t - 1) * u = (c * t) * u - u
    OBVIOUS
  <2>6. c * v \in Nat
    OBVIOUS
  <2>7. n * u = c * v /\ (n - 1) * u = c * v - u
    BY <2>3, <2>4, <2>5
  <2>8. n \in Nat /\ n * u >= c * v /\ (n - 1) * u < c * v
    BY <1>3, <2>3, <2>5, <2>6, <2>7
  <2> QED BY <1>3, <2>8 DEF TokensPerRateUnitExp
<1>5. CASE e < 3
  <2>1. PICK z \in Nat : z = 3 - e /\ z = -(e - 3)
    <3>1. 3 - e \in Nat /\ 3 - e = -(e - 3)
      BY <1>5
    <3> QED BY <3>1
  <2>2. PICK t \in Nat : t = Power(10, z) /\ t >= 1
    BY TenPowers
  <2>3. n = CeilDiv(c, t)
    <3>1. ~ (e - 3 >= 0)
      BY <1>5
    <3> QED BY <1>1, <2>1, <2>2, <3>1 DEF ToIntegralCeiling
  <2>4. u = t * v
    <3>1. Power(10, z + (e + Scale)) = Power(10, z) * Power(10, e + Scale)
      BY <1>2, PowerAdds
    <3>2. z + (e + Scale) = Scale + 3
      BY <1>2, <2>1
    <3> QED BY <1>3, <2>2, <3>1, <3>2
  <2>5. n \in Nat /\ n * t >= c /\ (n - 1) * t < c
    BY <2>2, <2>3, CeilDivIsCeiling
  <2>6. (n * t) * v = n * (t * v) /\ ((n - 1) * t) * v = (n - 1) * (t * v)
    <3>1. \A a \in Int : (a * t) * v = a * (t * v)
      OBVIOUS
    <3>2. n \in Int /\ n - 1 \in Int
      BY <2>5
    <3> QED BY <3>1, <3>2
  <2>7. PICK x \in Int, y \in Int : x = n * t /\ y = (n - 1) * t
    <3>1. n * t \in Int /\ (n - 1) * t \in Int
      BY <2>5
    <3> QED BY <3>1
  <2>8. x * v >= c * v /\ y * v < c * v
    <3>1. x >= c /\ y < c
      BY <2>5, <2>7
    <3> QED BY <1>3, <3>1
  <2>9. n * u >= c * v /\ (n - 1) * u < c * v
    BY <2>4, <2>6, <2>7, <2>8
  <2> QED BY <1>3, <2>5, <2>9 DEF TokensPerRateUnitExp
<1> QED BY <1>4, <1>5

\* A rate and a token count of a policy and a request.
LEMMA RatesAndCounts ==
    ASSUME NEW p \in TokenPolicies, NEW t \in Tokens, NEW k \in {"input", "output"}
    PROVE  /\ p[k] \in DecimalNumber /\ p[k].coef \in Nat /\ p[k].exp \in Int
           /\ p[k] = [coef |-> p[k].coef, exp |-> p[k].exp]
           /\ p[k].exp + Scale \in Nat
           /\ t[k] \in Nat
<1>1. p[k] \in Rates
  BY DEF TokenPolicies
<1>2. p[k] \in DecimalNumber
  BY <1>1, RatesAreDecimals
<1>3. t[k] \in Nat
  BY ZeroIsTried DEF Tokens
<1>4. p[k].coef \in Nat /\ p[k].exp \in Int /\ p[k] = [coef |-> p[k].coef, exp |-> p[k].exp]
  BY <1>2 DEF DecimalNumber
<1>5. p[k].exp + Scale \in Nat
  BY <1>1, <1>4, ScaleHoldsRates
<1> QED BY <1>2, <1>3, <1>4, <1>5

LEMMA OneTermPrice ==
    ASSUME NEW p \in TokenPolicies, NEW t \in Tokens, NEW k \in {"input", "output"},
           Terms(p, t) = {k}
    PROVE  TokenPrice(p, t) =
               ToIntegralCeiling(DivideByUnit([coef |-> p[k].coef * t[k], exp |-> p[k].exp]))
<1>1. PICK c \in Nat, e \in Int, n \in Nat : p[k].coef = c /\ p[k].exp = e /\ t[k] = n
  BY RatesAndCounts
<1>2. PICK d \in Nat : /\ d = Digits(c) + IntegerDecimalDigits(n)
                       /\ d >= 1 /\ c * n \in Nat /\ c * n < Power(10, d)
  BY ProductDigits
<1>3. Precision(p, t, {k}) = 2 + d
  <2>1. Min({p[j].exp : j \in {k}}) = e
    <3>1. {p[j].exp : j \in {k}} = {e, e}
      BY <1>1
    <3> QED BY <3>1, ExtremesOfTwo
  <2>2. d + e - e = d
    OBVIOUS
  <2>3. Max({d}) = d
    <3>1. {d} = {d, d}
      OBVIOUS
    <3>2. Max({d, d}) \in {d, d}
      <4>1. d \in Int
        OBVIOUS
      <4> QED BY <4>1, ExtremesOfTwo
    <3> QED BY <3>1, <3>2
  <2>4. {Digits(p[j].coef) + IntegerDecimalDigits(t[j]) + p[j].exp - e : j \in {k}} = {d}
    BY <1>1, <1>2, <2>2
  <2> QED BY <2>1, <2>3, <2>4 DEF Precision
<1>4. Multiply(p[k], t[k], 2 + d) = [coef |-> c * n, exp |-> e]
  <2>1. PICK x \in DecimalNumber : x = [coef |-> c * n, exp |-> e]
    BY <1>2 DEF DecimalNumber
  <2>2. RoundUp(x, 2 + d) = x
    <3>1. x.coef < Power(10, d) /\ 2 + d \in Int /\ d <= 2 + d
      BY <1>2, <2>1
    <3> QED BY <1>2, <3>1, FittingIsKept
  <2> QED BY <1>1, <2>1, <2>2 DEF Multiply
<1>5. {k} # {} /\ {k} # {"input", "output"} /\ (CHOOSE j \in {k} : TRUE) = k
  OBVIOUS
<1>6. TokenPrice(p, t) = ToIntegralCeiling(DivideByUnit(Multiply(p[k], t[k], 2 + d)))
  BY <1>3, <1>5 DEF TokenPrice
<1> QED BY <1>1, <1>4, <1>6

LEMMA TwoTermsPrice ==
    ASSUME NEW p \in TokenPolicies, NEW t \in Tokens, Terms(p, t) = {"input", "output"},
           NEW e \in Int, e = Min({p["input"].exp, p["output"].exp})
    PROVE  /\ p["input"].exp - e \in Nat /\ p["output"].exp - e \in Nat
           /\ TokenPrice(p, t) = ToIntegralCeiling(DivideByUnit(
                  [coef |-> p["input"].coef * t["input"] * Power(10, p["input"].exp - e)
                            + p["output"].coef * t["output"] * Power(10, p["output"].exp - e),
                   exp |-> e]))
<1>1. PICK c1 \in Nat, e1 \in Int, n1 \in Nat :
        p["input"].coef = c1 /\ p["input"].exp = e1 /\ t["input"] = n1
  BY RatesAndCounts
<1>2. PICK c2 \in Nat, e2 \in Int, n2 \in Nat :
        p["output"].coef = c2 /\ p["output"].exp = e2 /\ t["output"] = n2
  BY RatesAndCounts
<1>3. PICK z1 \in Nat, z2 \in Nat : z1 = e1 - e /\ z2 = e2 - e
  <2>1. e = Min({e1, e2})
    BY <1>1, <1>2
  <2>2. Min({e1, e2}) <= e1 /\ Min({e1, e2}) <= e2
    BY ExtremesOfTwo
  <2>3. e1 - e \in Nat /\ e2 - e \in Nat
    BY <2>1, <2>2
  <2> QED BY <2>3
<1>4. PICK d1 \in Nat : /\ d1 = Digits(c1) + IntegerDecimalDigits(n1)
                        /\ d1 >= 1 /\ c1 * n1 \in Nat /\ c1 * n1 < Power(10, d1)
  BY ProductDigits
<1>5. PICK d2 \in Nat : /\ d2 = Digits(c2) + IntegerDecimalDigits(n2)
                        /\ d2 >= 1 /\ c2 * n2 \in Nat /\ c2 * n2 < Power(10, d2)
  BY ProductDigits
<1>6. PICK M \in Nat : M = Max({d1 + z1, d2 + z2}) /\ M >= d1 + z1 /\ M >= d2 + z2
  <2>1. d1 + z1 \in Int /\ d2 + z2 \in Int /\ d1 + z1 \in Nat
    OBVIOUS
  <2>2. /\ Max({d1 + z1, d2 + z2}) \in {d1 + z1, d2 + z2}
        /\ Max({d1 + z1, d2 + z2}) >= d1 + z1 /\ Max({d1 + z1, d2 + z2}) >= d2 + z2
    BY <2>1, ExtremesOfTwo
  <2> QED BY <2>1, <2>2
<1>7. Precision(p, t, {"input", "output"}) = 2 + M
  <2>1. {p[j].exp : j \in {"input", "output"}} = {p["input"].exp, p["output"].exp}
    OBVIOUS
  <2>2. /\ Digits(p["input"].coef) + IntegerDecimalDigits(t["input"]) + p["input"].exp - e
             = d1 + z1
        /\ Digits(p["output"].coef) + IntegerDecimalDigits(t["output"]) + p["output"].exp - e
             = d2 + z2
    <3>1. d1 + e1 - e = d1 + z1 /\ d2 + e2 - e = d2 + z2
      BY <1>3
    <3> QED BY <1>1, <1>2, <1>4, <1>5, <3>1
  <2>3. {Digits(p[j].coef) + IntegerDecimalDigits(t[j]) + p[j].exp - e : j \in {"input", "output"}}
          = {Digits(p["input"].coef) + IntegerDecimalDigits(t["input"]) + p["input"].exp - e,
             Digits(p["output"].coef) + IntegerDecimalDigits(t["output"]) + p["output"].exp - e}
    OBVIOUS
  <2> QED BY <1>6, <2>1, <2>2, <2>3 DEF Precision
<1>8. PICK x1 \in DecimalNumber, x2 \in DecimalNumber :
        x1 = [coef |-> c1 * n1, exp |-> e1] /\ x2 = [coef |-> c2 * n2, exp |-> e2]
  BY <1>4, <1>5 DEF DecimalNumber
<1>9. Multiply(p["input"], t["input"], 2 + M) = x1
  <2>1. x1.coef < Power(10, d1) /\ 2 + M \in Int /\ d1 <= 2 + M
    BY <1>4, <1>6, <1>8
  <2>2. RoundUp(x1, 2 + M) = x1
    BY <1>4, <2>1, FittingIsKept
  <2> QED BY <1>1, <1>8, <2>2 DEF Multiply
<1>10. Multiply(p["output"], t["output"], 2 + M) = x2
  <2>1. x2.coef < Power(10, d2) /\ 2 + M \in Int /\ d2 <= 2 + M
    BY <1>5, <1>6, <1>8
  <2>2. RoundUp(x2, 2 + M) = x2
    BY <1>5, <2>1, FittingIsKept
  <2> QED BY <1>2, <1>8, <2>2 DEF Multiply
<1>11. PICK t1 \in Nat, t2 \in Nat, t3 \in Nat :
         t1 = Power(10, z1) /\ t2 = Power(10, z2) /\ t3 = Power(10, M)
  BY TenPowers
<1>12. c1 * n1 * t1 \in Nat /\ c1 * n1 * t1 < t3
  <2>1. Power(10, d1 + z1) = Power(10, d1) * Power(10, z1)
    BY PowerAdds
  <2>2. Power(10, d1 + z1) <= Power(10, M)
    BY <1>6, PowerGrowsWithExponent
  <2>3. PICK a \in Nat, b \in Nat : a = c1 * n1 /\ b = Power(10, d1) /\ a < b
    BY <1>4, TenPowers
  <2>4. t1 >= 1
    BY <1>11, TenPowers
  <2>5. a * t1 < b * t1 /\ a * t1 \in Nat /\ b * t1 \in Nat
    BY <2>3, <2>4
  <2> QED BY <1>11, <2>1, <2>2, <2>3, <2>5
<1>13. c2 * n2 * t2 \in Nat /\ c2 * n2 * t2 < t3
  <2>1. Power(10, d2 + z2) = Power(10, d2) * Power(10, z2)
    BY PowerAdds
  <2>2. Power(10, d2 + z2) <= Power(10, M)
    BY <1>6, PowerGrowsWithExponent
  <2>3. PICK a \in Nat, b \in Nat : a = c2 * n2 /\ b = Power(10, d2) /\ a < b
    BY <1>5, TenPowers
  <2>4. t2 >= 1
    BY <1>11, TenPowers
  <2>5. a * t2 < b * t2 /\ a * t2 \in Nat /\ b * t2 \in Nat
    BY <2>3, <2>4
  <2> QED BY <1>11, <2>1, <2>2, <2>3, <2>5
<1>14. PICK C \in Nat : C = c1 * n1 * t1 + c2 * n2 * t2 /\ C < Power(10, M + 1)
  <2>1. PICK a \in Nat, b \in Nat : a = c1 * n1 * t1 /\ b = c2 * n2 * t2 /\ a < t3 /\ b < t3
    BY <1>12, <1>13
  <2>2. a + b \in Nat /\ a + b < 10 * t3
    BY <2>1
  <2>3. Power(10, M + 1) = 10 * t3
    BY <1>11, PowerUnfolds
  <2> QED BY <2>1, <2>2, <2>3
<1>15. Add(x1, x2, 2 + M) = [coef |-> C, exp |-> e]
  <2>1. x1.exp = e1 /\ x2.exp = e2 /\ x1.coef = c1 * n1 /\ x2.coef = c2 * n2
    BY <1>8
  <2>2. Min({x1.exp, x2.exp}) = e
    BY <1>1, <1>2, <2>1
  <2>3. /\ x1.coef * Power(10, x1.exp - e) + x2.coef * Power(10, x2.exp - e) = C
    BY <1>3, <1>11, <1>14, <2>1
  <2>4. PICK x \in DecimalNumber : x = [coef |-> C, exp |-> e]
    BY DEF DecimalNumber
  <2>5. RoundUp(x, 2 + M) = x
    <3>1. x.coef < Power(10, M + 1) /\ 2 + M \in Int /\ M + 1 <= 2 + M /\ M + 1 >= 1
      BY <1>14, <2>4
    <3>2. M + 1 \in Nat
      OBVIOUS
    <3> QED BY <3>1, <3>2, FittingIsKept
  <2> QED BY <2>2, <2>3, <2>4, <2>5 DEF Add
<1>16. TokenPrice(p, t) = ToIntegralCeiling(DivideByUnit([coef |-> C, exp |-> e]))
  BY <1>7, <1>9, <1>10, <1>15 DEF TokenPrice
<1> QED BY <1>1, <1>2, <1>3, <1>11, <1>14, <1>16

LEMMA ExactValueOfTerms ==
    ASSUME NEW p \in TokenPolicies, NEW t \in Tokens
    PROVE  \E v1 \in Nat, v2 \in Nat :
             /\ v1 = Power(10, p["input"].exp + Scale)
             /\ v2 = Power(10, p["output"].exp + Scale)
             /\ ExactValue(p, t) = p["input"].coef * t["input"] * v1
                                   + p["output"].coef * t["output"] * v2
             /\ p["input"].coef * t["input"] \in Nat
             /\ p["output"].coef * t["output"] \in Nat
             /\ ExactValue(p, t) \in Nat
<1>1. PICK c1 \in Nat, n1 \in Nat, s1 \in Nat :
        p["input"].coef = c1 /\ t["input"] = n1 /\ p["input"].exp + Scale = s1
  BY RatesAndCounts
<1>2. PICK c2 \in Nat, n2 \in Nat, s2 \in Nat :
        p["output"].coef = c2 /\ t["output"] = n2 /\ p["output"].exp + Scale = s2
  BY RatesAndCounts
<1>3. PICK v1 \in Nat, v2 \in Nat : v1 = Power(10, s1) /\ v2 = Power(10, s2)
  BY TenPowers
<1>4. ExactValue(p, t) = c1 * v1 * n1 + c2 * v2 * n2
  BY <1>1, <1>2, <1>3 DEF ExactValue
<1>5. \A c, v, n \in Nat : c * v * n = c * n * v /\ c * n \in Nat /\ c * n * v \in Nat
  OBVIOUS
<1>6. /\ c1 * v1 * n1 = c1 * n1 * v1 /\ c1 * n1 \in Nat /\ c1 * n1 * v1 \in Nat
      /\ c2 * v2 * n2 = c2 * n2 * v2 /\ c2 * n2 \in Nat /\ c2 * n2 * v2 \in Nat
  BY <1>5
<1>7. PICK a \in Nat, b \in Nat : a = c1 * n1 * v1 /\ b = c2 * n2 * v2
  BY <1>6
<1>8. ExactValue(p, t) = a + b /\ a + b \in Nat
  BY <1>4, <1>6, <1>7
<1>9. /\ v1 = Power(10, p["input"].exp + Scale)
      /\ v2 = Power(10, p["output"].exp + Scale)
      /\ p["input"].coef * t["input"] = c1 * n1
      /\ p["output"].coef * t["output"] = c2 * n2
  BY <1>1, <1>2, <1>3
<1> QED BY <1>6, <1>7, <1>8, <1>9

\* _price is the exact cost, rounded up once.
LEMMA PriceIsCeiling ==
    ASSUME NEW p \in TokenPolicies, NEW t \in Tokens
    PROVE  TokenPrice(p, t) \in Nat /\ IsCeilingOf(TokenPrice(p, t), p, t)
<1>1. PICK c1 \in Nat, e1 \in Int, n1 \in Nat :
        /\ p["input"].coef = c1 /\ p["input"].exp = e1 /\ t["input"] = n1
        /\ e1 + Scale \in Nat
  BY RatesAndCounts
<1>2. PICK c2 \in Nat, e2 \in Int, n2 \in Nat :
        /\ p["output"].coef = c2 /\ p["output"].exp = e2 /\ t["output"] = n2
        /\ e2 + Scale \in Nat
  BY RatesAndCounts
<1>3. PICK v1 \in Nat, v2 \in Nat :
        /\ v1 = Power(10, e1 + Scale) /\ v2 = Power(10, e2 + Scale)
        /\ ExactValue(p, t) = c1 * n1 * v1 + c2 * n2 * v2
        /\ c1 * n1 \in Nat /\ c2 * n2 \in Nat /\ ExactValue(p, t) \in Nat
  <2>1. PICK v1 \in Nat, v2 \in Nat :
          /\ v1 = Power(10, p["input"].exp + Scale)
          /\ v2 = Power(10, p["output"].exp + Scale)
          /\ ExactValue(p, t) = p["input"].coef * t["input"] * v1
                                + p["output"].coef * t["output"] * v2
          /\ p["input"].coef * t["input"] \in Nat
          /\ p["output"].coef * t["output"] \in Nat
          /\ ExactValue(p, t) \in Nat
    BY ExactValueOfTerms
  <2> QED BY <1>1, <1>2, <2>1
<1>4. PICK u \in Nat : u = Power(10, Scale + TokensPerRateUnitExp) /\ u >= 1
  <2>1. PICK j \in Nat : j = Scale + TokensPerRateUnitExp
    BY ScaleHoldsRates DEF TokensPerRateUnitExp
  <2> QED BY <2>1, TenPowers
<1>5. Terms(p, t) \subseteq {"input", "output"}
      /\ ("input" \in Terms(p, t) <=> c1 # 0 /\ n1 # 0)
      /\ ("output" \in Terms(p, t) <=> c2 # 0 /\ n2 # 0)
  BY <1>1, <1>2 DEF Terms
<1>6. "input" \notin Terms(p, t) => c1 * n1 = 0 /\ c1 * n1 * v1 = 0
  BY <1>5
<1>7. "output" \notin Terms(p, t) => c2 * n2 = 0 /\ c2 * n2 * v2 = 0
  BY <1>5
<1>8. CASE Terms(p, t) = {}
  <2>1. TokenPrice(p, t) = 0
    BY <1>8 DEF TokenPrice
  <2>2. ExactValue(p, t) = 0
    BY <1>3, <1>6, <1>7, <1>8
  <2>3. 0 * u >= 0 /\ (0 - 1) * u < 0
    BY <1>4
  <2> QED BY <1>4, <2>1, <2>2, <2>3 DEF IsCeilingOf
<1>9. CASE Terms(p, t) = {"input"}
  <2>1. PICK n : n = ToIntegralCeiling(DivideByUnit([coef |-> c1 * n1, exp |-> e1]))
    OBVIOUS
  <2>2. TokenPrice(p, t) = n
    BY <1>1, <1>9, <2>1, OneTermPrice
  <2>3. PICK a \in Nat : a = c1 * n1
    BY <1>3
  <2>4. n \in Nat /\ n * u >= a * v1 /\ (n - 1) * u < a * v1
    <3>1. e1 + Scale >= 0
      BY <1>1
    <3>2. n = ToIntegralCeiling(DivideByUnit([coef |-> a, exp |-> e1]))
      BY <2>1, <2>3
    <3>3. /\ n \in Nat
          /\ n * Power(10, Scale + TokensPerRateUnitExp) >= a * Power(10, e1 + Scale)
          /\ (n - 1) * Power(10, Scale + TokensPerRateUnitExp) < a * Power(10, e1 + Scale)
      BY <3>1, <3>2, QuotientIsCeiling
    <3> QED BY <1>3, <1>4, <3>3
  <2>5. ExactValue(p, t) = a * v1
    <3>1. c2 * n2 * v2 = 0 /\ a * v1 \in Nat
      BY <1>7, <1>9
    <3> QED BY <1>3, <2>3, <3>1
  <2> QED BY <1>4, <2>2, <2>4, <2>5 DEF IsCeilingOf
<1>10. CASE Terms(p, t) = {"output"}
  <2>1. PICK n : n = ToIntegralCeiling(DivideByUnit([coef |-> c2 * n2, exp |-> e2]))
    OBVIOUS
  <2>2. TokenPrice(p, t) = n
    BY <1>2, <1>10, <2>1, OneTermPrice
  <2>3. PICK a \in Nat : a = c2 * n2
    BY <1>3
  <2>4. n \in Nat /\ n * u >= a * v2 /\ (n - 1) * u < a * v2
    <3>1. e2 + Scale >= 0
      BY <1>2
    <3>2. n = ToIntegralCeiling(DivideByUnit([coef |-> a, exp |-> e2]))
      BY <2>1, <2>3
    <3>3. /\ n \in Nat
          /\ n * Power(10, Scale + TokensPerRateUnitExp) >= a * Power(10, e2 + Scale)
          /\ (n - 1) * Power(10, Scale + TokensPerRateUnitExp) < a * Power(10, e2 + Scale)
      BY <3>1, <3>2, QuotientIsCeiling
    <3> QED BY <1>3, <1>4, <3>3
  <2>5. ExactValue(p, t) = a * v2
    <3>1. c1 * n1 * v1 = 0 /\ a * v2 \in Nat
      BY <1>6, <1>10
    <3> QED BY <1>3, <2>3, <3>1
  <2> QED BY <1>4, <2>2, <2>4, <2>5 DEF IsCeilingOf
<1>11. CASE Terms(p, t) = {"input", "output"}
  <2>1. PICK e \in Int : e = Min({e1, e2}) /\ e \in {e1, e2}
    <3>1. Min({e1, e2}) \in {e1, e2}
      BY ExtremesOfTwo
    <3> QED BY <3>1
  <2>2. PICK s \in Nat, v \in Nat : s = e + Scale /\ v = Power(10, s)
    <3>1. e + Scale \in Nat
      BY <1>1, <1>2, <2>1
    <3> QED BY <3>1, TenPowers
  <2>3. PICK z1 \in Nat, z2 \in Nat, t1 \in Nat, t2 \in Nat :
          /\ z1 = e1 - e /\ z2 = e2 - e
          /\ t1 = Power(10, z1) /\ t2 = Power(10, z2)
    <3>1. e1 - e \in Nat /\ e2 - e \in Nat
      BY <1>1, <1>2, <1>11, <2>1, TwoTermsPrice
    <3> QED BY <3>1, TenPowers
  <2>4. PICK a \in Nat, b \in Nat : a = c1 * n1 /\ b = c2 * n2
    BY <1>3
  <2>5. PICK C \in Nat : C = a * t1 + b * t2
    <3>1. a * t1 \in Nat /\ b * t2 \in Nat
      OBVIOUS
    <3> QED BY <3>1
  <2>6. PICK n : n = ToIntegralCeiling(DivideByUnit([coef |-> C, exp |-> e]))
    OBVIOUS
  <2>7. TokenPrice(p, t) = n
    BY <1>1, <1>2, <1>11, <2>1, <2>3, <2>4, <2>5, <2>6, TwoTermsPrice
  <2>8. n \in Nat /\ n * u >= C * v /\ (n - 1) * u < C * v
    BY <1>4, <2>2, <2>6, QuotientIsCeiling
  <2>9. v1 = t1 * v /\ v2 = t2 * v
    <3>1. Power(10, z1 + s) = Power(10, z1) * Power(10, s)
      BY PowerAdds
    <3>2. Power(10, z2 + s) = Power(10, z2) * Power(10, s)
      BY PowerAdds
    <3>3. z1 + s = e1 + Scale /\ z2 + s = e2 + Scale
      BY <2>2, <2>3, ScaleHoldsRates
    <3> QED BY <1>3, <2>2, <2>3, <3>1, <3>2, <3>3
  <2>10. ExactValue(p, t) = C * v
    <3>1. a * (t1 * v) + b * (t2 * v) = (a * t1 + b * t2) * v
      OBVIOUS
    <3> QED BY <1>3, <2>4, <2>5, <2>9, <3>1
  <2> QED BY <1>4, <2>7, <2>8, <2>10 DEF IsCeilingOf
<1> QED BY <1>5, <1>8, <1>9, <1>10, <1>11

\* More tokens never cost less.
LEMMA PriceIsMonotone ==
    ASSUME NEW p \in TokenPolicies, NEW t \in Tokens, NEW max \in Tokens,
           t["input"] <= max["input"], t["output"] <= max["output"]
    PROVE  TokenPrice(p, t) <= TokenPrice(p, max)
<1>1. PICK n \in Nat, m \in Nat : /\ n = TokenPrice(p, t) /\ m = TokenPrice(p, max)
                                  /\ IsCeilingOf(n, p, t) /\ IsCeilingOf(m, p, max)
  BY PriceIsCeiling
<1>2. PICK u \in Nat : u = Power(10, Scale + TokensPerRateUnitExp) /\ u >= 1
  <2>1. PICK j \in Nat : j = Scale + TokensPerRateUnitExp
    BY ScaleHoldsRates DEF TokensPerRateUnitExp
  <2> QED BY <2>1, TenPowers
<1>3. PICK x \in Nat, y \in Nat : x = ExactValue(p, t) /\ y = ExactValue(p, max)
  BY ExactValueOfTerms
<1>4. (n - 1) * u < x /\ y <= m * u
  BY <1>1, <1>2, <1>3 DEF IsCeilingOf
<1>5. x <= y
  <2>1. PICK c1 \in Nat, n1 \in Nat, m1 \in Nat :
          p["input"].coef = c1 /\ t["input"] = n1 /\ max["input"] = m1 /\ n1 <= m1
    BY RatesAndCounts
  <2>2. PICK c2 \in Nat, n2 \in Nat, m2 \in Nat :
          p["output"].coef = c2 /\ t["output"] = n2 /\ max["output"] = m2 /\ n2 <= m2
    BY RatesAndCounts
  <2>3. PICK v1 \in Nat, v2 \in Nat :
          v1 = Power(10, p["input"].exp + Scale) /\ v2 = Power(10, p["output"].exp + Scale)
    BY ExactValueOfTerms
  <2>4. x = c1 * n1 * v1 + c2 * n2 * v2
    BY <1>3, <2>1, <2>2, <2>3, ExactValueOfTerms
  <2>5. y = c1 * m1 * v1 + c2 * m2 * v2
    BY <1>3, <2>1, <2>2, <2>3, ExactValueOfTerms
  <2>6. \A c, a, b, v \in Nat : a <= b => c * a * v <= c * b * v
    <3>1. ASSUME NEW c \in Nat, NEW a \in Nat, NEW b \in Nat, NEW v \in Nat, a <= b
          PROVE  c * a * v <= c * b * v
      <4>1. c * a \in Nat /\ c * b \in Nat /\ c * a <= c * b
        BY <3>1
      <4> QED BY <4>1, ProductsAreMonotone
    <3> QED BY <3>1
  <2>7. c1 * n1 * v1 <= c1 * m1 * v1 /\ c2 * n2 * v2 <= c2 * m2 * v2
    BY <2>1, <2>2, <2>6
  <2>8. PICK i1 \in Nat, i2 \in Nat, j1 \in Nat, j2 \in Nat :
          /\ i1 = c1 * n1 * v1 /\ j1 = c1 * m1 * v1
          /\ i2 = c2 * n2 * v2 /\ j2 = c2 * m2 * v2
    <3>1. \A c, a, v \in Nat : c * a * v \in Nat
      OBVIOUS
    <3>2. c1 * n1 * v1 \in Nat /\ c1 * m1 * v1 \in Nat
      BY <3>1
    <3>3. c2 * n2 * v2 \in Nat /\ c2 * m2 * v2 \in Nat
      BY <3>1
    <3> QED BY <3>2, <3>3
  <2> QED BY <2>4, <2>5, <2>7, <2>8
<1>6. n <= m
  <2>1. SUFFICES ASSUME m + 1 <= n PROVE FALSE
    OBVIOUS
  <2>2. PICK d \in Nat : n - 1 = m + d
    <3>1. n - 1 - m \in Nat /\ n - 1 = m + (n - 1 - m)
      BY <2>1
    <3> QED BY <3>1
  <2>3. (m + d) * u = m * u + d * u /\ d * u \in Nat /\ m * u \in Nat
    OBVIOUS
  <2> QED BY <1>4, <1>5, <2>2, <2>3
<1> QED BY <1>1, <1>6
------------------------------------------------------------------------------
(* The canonical text of a rate.                                            *)

LEMMA TrailingZerosExist ==
    ASSUME NEW n \in Nat, n # 0
    PROVE  \E z \in Nat, q \in Nat : n = q * Power(10, z) /\ q % 10 # 0
<1> DEFINE Ends(k) == \E z \in Nat, q \in Nat : k = q * Power(10, z) /\ q % 10 # 0
           bad == {k \in Nat : k # 0 /\ ~ Ends(k)}
<1>1. ASSUME bad # {} PROVE FALSE
  <2>1. PICK i \in bad : \A j \in bad : i <= j
    <3>1. bad \subseteq Nat
      OBVIOUS
    <3> HIDE DEF bad
    <3> QED BY <1>1, <3>1, LeastExists
  <2>2. i \in Nat /\ i # 0 /\ ~ Ends(i)
    OBVIOUS
  <2>3. CASE i % 10 # 0
    <3>1. i = i * Power(10, 0)
      BY <2>2, PowersOfTen
    <3> QED BY <2>2, <2>3, <3>1
  <2>4. CASE i % 10 = 0
    <3>1. PICK h \in Nat : i = 10 * h /\ h < i /\ h # 0
      <4>1. i \div 10 \in Nat /\ i = 10 * (i \div 10) + (i % 10)
        BY <2>2
      <4>2. i = 10 * (i \div 10) /\ i \div 10 < i /\ i \div 10 # 0
        BY <2>2, <2>4, <4>1
      <4> QED BY <4>1, <4>2
    <3>2. h \notin bad
      <4> HIDE DEF bad
      <4> QED BY <2>1, <2>2, <3>1
    <3>3. PICK z \in Nat, q \in Nat : h = q * Power(10, z) /\ q % 10 # 0
      BY <3>1, <3>2
    <3>4. Power(10, z + 1) = 10 * Power(10, z)
      BY PowerUnfolds
    <3>5. PICK p \in Nat : p = Power(10, z)
      BY TenPowers
    <3>6. 10 * (q * p) = q * (10 * p)
      OBVIOUS
    <3>7. i = q * Power(10, z + 1)
      BY <3>1, <3>3, <3>4, <3>5, <3>6
    <3>8. z + 1 \in Nat
      OBVIOUS
    <3> QED BY <2>2, <3>3, <3>7, <3>8
  <2> QED BY <2>2, <2>3, <2>4
<1> QED BY <1>1

LEMMA QuotientAndRemainder ==
    ASSUME NEW a \in Nat, NEW m \in Nat, m >= 1
    PROVE  \E q \in Nat : q = a \div m /\ a = m * q + (a % m)
<1>1. a \div m \in Nat
  OBVIOUS
<1>2. a = m * (a \div m) + (a % m)
  OBVIOUS
<1> QED BY <1>1, <1>2

\* What _canonical_decimal does to a rate that is not zero.
LEMMA CanonicalForm ==
    ASSUME NEW x \in DecimalNumber, x.coef # 0
    PROVE  \E z \in Nat, q \in Nat :
             /\ Canonical(x) = [coef |-> q, exp |-> x.exp + z]
             /\ x.coef = q * Power(10, z)
             /\ q % 10 # 0
<1>1. PICK n \in Nat : n = x.coef /\ n # 0
  BY DEF DecimalNumber
<1> DEFINE Fits(z) == n % Power(10, z) = 0 /\ (n \div Power(10, z)) % 10 # 0
<1>2. \A z \in Nat : Power(10, z) \in Nat /\ Power(10, z) >= 1
  BY TenPowers
<1>3. \E z \in 0..Digits(n) : Fits(z)
  <2>1. PICK z \in Nat, q \in Nat : n = q * Power(10, z) /\ q % 10 # 0
    BY <1>1, TrailingZerosExist
  <2>2. PICK p \in Nat : p = Power(10, z) /\ p >= 1
    BY <1>2
  <2>3. n % p = 0 /\ n \div p = q
    <3>1. \A a \in Nat, m \in Nat : m >= 1 => (a * m) % m = 0 /\ (a * m) \div m = a
      OBVIOUS
    <3> QED BY <2>1, <2>2, <3>1
  <2>4. p <= n
    <3>1. q >= 1
      BY <2>1
    <3>2. p <= q * p
      BY <3>1
    <3> QED BY <2>1, <2>2, <3>2
  <2>5. PICK d \in Nat : d = Digits(n) /\ n < Power(10, d)
    BY DigitsBound
  <2>6. z <= d
    <3>1. SUFFICES ASSUME d <= z PROVE z <= d
      OBVIOUS
    <3>2. Power(10, d) <= Power(10, z)
      BY <3>1, PowerGrowsWithExponent
    <3>3. Power(10, d) \in Nat
      BY TenPowers
    <3> QED BY <2>2, <2>4, <2>5, <3>2, <3>3
  <2>7. z \in 0..Digits(n)
    BY <2>5, <2>6
  <2> QED BY <2>1, <2>2, <2>3, <2>7
<1> DEFINE zeros == CHOOSE z \in 0..Digits(n) : Fits(z)
<1>4. zeros \in 0..Digits(n) /\ Fits(zeros)
  <2> HIDE DEF Fits
  <2> QED BY <1>3
<1>5. Canonical(x) = [coef |-> n \div Power(10, zeros), exp |-> x.exp + zeros]
  BY <1>1 DEF Canonical
<1> HIDE DEF zeros
<1>6. PICK z \in Nat : z = zeros /\ Fits(z)
  <2>1. Digits(n) \in Nat
    BY DigitsBound
  <2>2. zeros \in Nat
    BY <1>4, <2>1
  <2> QED BY <1>4, <2>2
<1>7. PICK p \in Nat : p = Power(10, z) /\ p >= 1
  BY <1>2
<1>8. PICK q \in Nat : q = n \div p /\ n = p * q + (n % p)
  <2>1. PICK q \in Nat : q = n \div p /\ n = p * q + (n % p)
    BY <1>7, QuotientAndRemainder
  <2> QED BY <2>1
<1>9. n % p = 0 /\ q % 10 # 0
  BY <1>6, <1>7, <1>8
<1>10. n = q * p
  BY <1>7, <1>8, <1>9
<1> QED BY <1>1, <1>5, <1>6, <1>7, <1>8, <1>9, <1>10

\* Two coefficients without trailing zeros at different places differ.
LEMMA NoZerosNoCoincidence ==
    ASSUME NEW a \in Nat, NEW b \in Nat, a % 10 # 0, NEW i \in Nat, NEW j \in Nat, i < j
    PROVE  a * Power(10, i) # b * Power(10, j)
<1>1. SUFFICES ASSUME a * Power(10, i) = b * Power(10, j) PROVE FALSE
  OBVIOUS
<1>2. PICK d \in Nat : j = i + (d + 1)
  <2>1. j - i - 1 \in Nat /\ j = i + ((j - i - 1) + 1)
    OBVIOUS
  <2> QED BY <2>1
<1>3. Power(10, i + (d + 1)) = Power(10, i) * Power(10, d + 1)
  <2>1. d + 1 \in Nat
    OBVIOUS
  <2> QED BY <2>1, PowerAdds
<1>4. Power(10, d + 1) = 10 * Power(10, d)
  BY PowerUnfolds
<1>5. PICK p \in Nat, t \in Nat : p = Power(10, i) /\ p >= 1 /\ t = Power(10, d)
  BY TenPowers
<1>6. a * p = b * (p * (10 * t))
  BY <1>1, <1>2, <1>3, <1>4, <1>5
<1>7. PICK c \in Nat : c = b * t
  <2>1. b * t \in Nat
    OBVIOUS
  <2> QED BY <2>1
<1>8. b * (p * (10 * t)) = (10 * c) * p
  BY <1>7
<1>9. a = 10 * c
  <2>1. \A x, y \in Nat : x * p = y * p => x = y
    BY <1>5
  <2>2. 10 * c \in Nat
    OBVIOUS
  <2> QED BY <1>6, <1>8, <2>1, <2>2
<1>10. (10 * c) % 10 = 0
  OBVIOUS
<1> QED BY <1>9, <1>10

\* The value of a rate, in units of 10^-Scale, by its canonical form.
LEMMA CanonicalValue ==
    ASSUME NEW x \in Rates, x.coef # 0
    PROVE  \E q \in Nat, s \in Nat :
             /\ Canonical(x) = [coef |-> q, exp |-> s - Scale]
             /\ x.coef * Power(10, x.exp + Scale) = q * Power(10, s)
             /\ q % 10 # 0
<1>1. x \in DecimalNumber
  BY RatesAreDecimals
<1>2. PICK z \in Nat, q \in Nat : /\ Canonical(x) = [coef |-> q, exp |-> x.exp + z]
                                  /\ x.coef = q * Power(10, z)
                                  /\ q % 10 # 0
  BY <1>1, CanonicalForm
<1>3. PICK e \in Int, r \in Nat : e = x.exp /\ r = e + Scale
  <2>1. x.exp \in Int /\ x.exp + Scale \in Nat
    BY <1>1, ScaleHoldsRates DEF DecimalNumber
  <2> QED BY <2>1
<1>4. PICK s \in Nat : s = z + r /\ e + z = s - Scale
  <2>1. z + r \in Nat /\ e + z = (z + r) - Scale
    BY <1>3, ScaleHoldsRates
  <2> QED BY <2>1
<1>5. Power(10, z + r) = Power(10, z) * Power(10, r)
  BY PowerAdds
<1>6. PICK t \in Nat, u \in Nat : t = Power(10, z) /\ u = Power(10, r)
  BY TenPowers
<1>7. (q * t) * u = q * (t * u)
  OBVIOUS
<1> QED BY <1>2, <1>3, <1>4, <1>5, <1>6, <1>7

LEMMA CanonicalIdentifiesRate ==
    ASSUME NEW x \in Rates, NEW y \in Rates
    PROVE  Canonical(x) = Canonical(y) <=> SameRate(x, y)
<1>1. \A r \in Rates : r.coef = 0 => /\ Canonical(r) = [coef |-> 0, exp |-> 0]
                                     /\ r.coef * Power(10, r.exp + Scale) = 0
  <2>1. ASSUME NEW r \in Rates, r.coef = 0
        PROVE  Canonical(r) = [coef |-> 0, exp |-> 0] /\ r.coef * Power(10, r.exp + Scale) = 0
    <3>1. r.exp + Scale \in Nat
      BY RatesAreDecimals, ScaleHoldsRates DEF DecimalNumber
    <3>2. PICK t \in Nat : t = Power(10, r.exp + Scale)
      BY <3>1, TenPowers
    <3> QED BY <2>1, <3>2 DEF Canonical
  <2> QED BY <2>1
<1>2. ASSUME NEW r \in Rates, r.coef # 0
      PROVE  Canonical(r) # [coef |-> 0, exp |-> 0] /\ r.coef * Power(10, r.exp + Scale) # 0
  <2>1. PICK q \in Nat, s \in Nat :
          /\ Canonical(r) = [coef |-> q, exp |-> s - Scale]
          /\ r.coef * Power(10, r.exp + Scale) = q * Power(10, s)
          /\ q % 10 # 0
    BY <1>2, CanonicalValue
  <2>2. q # 0
    BY <2>1
  <2>3. PICK t \in Nat : t = Power(10, s) /\ t >= 1
    BY TenPowers
  <2>4. q * t # 0
    BY <2>2, <2>3
  <2>5. [coef |-> q, exp |-> s - Scale].coef # [coef |-> 0, exp |-> 0].coef
    BY <2>2
  <2> QED BY <2>1, <2>3, <2>4, <2>5
<1>3. CASE x.coef = 0 \/ y.coef = 0
  BY <1>1, <1>2, <1>3 DEF SameRate
<1>4. CASE x.coef # 0 /\ y.coef # 0
  <2>1. PICK q \in Nat, s \in Nat :
          /\ Canonical(x) = [coef |-> q, exp |-> s - Scale]
          /\ x.coef * Power(10, x.exp + Scale) = q * Power(10, s)
          /\ q % 10 # 0
    BY <1>4, CanonicalValue
  <2>2. PICK o \in Nat, r \in Nat :
          /\ Canonical(y) = [coef |-> o, exp |-> r - Scale]
          /\ y.coef * Power(10, y.exp + Scale) = o * Power(10, r)
          /\ o % 10 # 0
    BY <1>4, CanonicalValue
  <2>3. SameRate(x, y) <=> q * Power(10, s) = o * Power(10, r)
    BY <2>1, <2>2 DEF SameRate
  <2>4. Canonical(x) = Canonical(y) <=> q = o /\ s = r
    <3>1. s - Scale = r - Scale <=> s = r
      BY ScaleHoldsRates
    <3>2. [coef |-> q, exp |-> s - Scale] = [coef |-> o, exp |-> r - Scale]
            <=> q = o /\ s - Scale = r - Scale
      <4>1. PICK a, b : a = [coef |-> q, exp |-> s - Scale] /\ b = [coef |-> o, exp |-> r - Scale]
        OBVIOUS
      <4>2. a.coef = q /\ a.exp = s - Scale /\ b.coef = o /\ b.exp = r - Scale
        BY <4>1
      <4> QED BY <4>1, <4>2
    <3> QED BY <2>1, <2>2, <3>1, <3>2
  <2>5. q * Power(10, s) = o * Power(10, r) => q = o /\ s = r
    <3>1. ~ (s < r) \/ q * Power(10, s) # o * Power(10, r)
      BY <2>1, NoZerosNoCoincidence
    <3>2. ~ (r < s) \/ o * Power(10, r) # q * Power(10, s)
      BY <2>2, NoZerosNoCoincidence
    <3>3. PICK t \in Nat : t = Power(10, s) /\ t >= 1
      BY TenPowers
    <3>4. q * t = o * t => q = o
      BY <3>3
    <3> QED BY <3>1, <3>2, <3>3, <3>4
  <2> QED BY <2>3, <2>4, <2>5
<1> QED BY <1>3, <1>4
------------------------------------------------------------------------------
(* The theorems about pricing.                                              *)

\* What the stages of a request say about its two prices.
PricingInv ==
    /\ policy \in Policies
    /\ limits \in Tokens
    /\ reported \in Tokens
    /\ stage \in {"idle", "refused", "reserved", "priced", "rejected"}
    /\ stage \in {"reserved", "priced"} => reserved = QuoteOf(policy, limits)
    /\ stage = "priced" =>
           price = IF policy.kind = "flat" THEN reserved ELSE TokenPrice(policy, reported)
    /\ stage = "priced" /\ policy.kind = "token" =>
           /\ reported["input"] <= limits["input"]
           /\ reported["output"] <= limits["output"]

LEMMA PolicyKinds ==
    ASSUME NEW p \in Policies
    PROVE  \/ p.kind = "flat" /\ p.credits \in Nat
           \/ p.kind = "token" /\ p \in TokenPolicies /\ p.input \in Rates /\ p.output \in Rates
<1>1. CASE p \in FlatPolicies
  BY <1>1, FlatPricesArePositive DEF FlatPolicies
<1>2. CASE p \in TokenPolicies
  BY <1>2 DEF TokenPolicies
<1> QED BY <1>1, <1>2 DEF Policies

LEMMA PricingStarts == PricingInit => PricingInv
<1>1. NoTokens \in Tokens
  BY ZeroIsTried DEF NoTokens, Tokens
<1> QED BY <1>1 DEF PricingInit, PricingInv

LEMMA PricingKept == PricingInv /\ [PricingNext]_pricingVars => PricingInv'
<1>1. NoTokens \in Tokens
  BY ZeroIsTried DEF NoTokens, Tokens
<1>2. SUFFICES ASSUME PricingInv, [PricingNext]_pricingVars PROVE PricingInv'
  OBVIOUS
<1> USE <1>2 DEF PricingInv
<1>3. ASSUME NEW t \in Tokens, Quote(t) PROVE PricingInv'
  BY <1>3 DEF Quote
<1>4. ASSUME NEW t \in Tokens, QuoteRaises(t) PROVE PricingInv'
  BY <1>4 DEF QuoteRaises
<1>5. ASSUME NEW t \in Tokens, NEW sameModel \in BOOLEAN, PriceUsage(t, sameModel)
      PROVE  PricingInv'
  <2>1. policy.kind = "token" => t["input"] <= limits["input"] /\ t["output"] <= limits["output"]
    BY <1>5 DEF PriceUsage, Billable
  <2> QED BY <1>5, <2>1 DEF PriceUsage
<1>6. ASSUME NEW t \in Tokens, NEW sameModel \in BOOLEAN, PriceUsageRaises(t, sameModel)
      PROVE  PricingInv'
  BY <1>6 DEF PriceUsageRaises
<1>7. CASE NextRequest
  BY <1>1, <1>7 DEF NextRequest
<1>8. CASE UNCHANGED pricingVars
  BY <1>8 DEF pricingVars
<1> QED BY <1>3, <1>4, <1>5, <1>6, <1>7, <1>8 DEF PricingNext

\* A quote and a price of token pricing are the exact cost of the tokens,
\* rounded up once: the precision chosen by _price, with its estimate of the
\* tokens' digits by log10(2), never rounds a product or their sum.
THEOREM PricesStayExact == PricingSpec => []PricesAreExact
<1>1. PricingInv => PricesAreExact
  <2>1. SUFFICES ASSUME PricingInv, policy.kind = "token" PROVE
           /\ stage = "reserved" => IsCeilingOf(reserved, policy, limits)
           /\ stage = "priced" => IsCeilingOf(price, policy, reported)
    BY DEF PricesAreExact
  <2>2. policy \in TokenPolicies /\ policy.kind # "flat"
    BY <2>1, PolicyKinds DEF PricingInv
  <2>3. CASE stage = "reserved"
    <3>1. limits \in Tokens /\ reserved = TokenPrice(policy, limits)
      BY <2>1, <2>2, <2>3 DEF PricingInv, QuoteOf
    <3> QED BY <2>2, <2>3, <3>1, PriceIsCeiling
  <2>4. CASE stage = "priced"
    <3>1. reported \in Tokens /\ price = TokenPrice(policy, reported)
      BY <2>1, <2>2, <2>4 DEF PricingInv
    <3> QED BY <2>2, <2>4, <3>1, PriceIsCeiling
  <2> QED BY <2>3, <2>4
<1> QED BY <1>1, PricingStarts, PricingKept, PTL DEF PricingSpec

\* Usage within the limits of the context costs at most what was reserved
\* for them, whatever the rates: finalize never has to refuse the price.
THEOREM PricesStayWithinReservations == PricingSpec => []ActualWithinReservation
<1>1. PricingInv => ActualWithinReservation
  <2>1. SUFFICES ASSUME PricingInv, stage = "priced" PROVE price \in 0..reserved
    BY DEF ActualWithinReservation
  <2>2. CASE policy.kind = "flat"
    <3>1. policy.credits \in Nat
      BY <2>1, <2>2, PolicyKinds DEF PricingInv
    <3>2. price = reserved /\ reserved = policy.credits
      BY <2>1, <2>2 DEF PricingInv, QuoteOf
    <3> QED BY <3>1, <3>2
  <2>3. CASE policy.kind # "flat"
    <3>1. policy \in TokenPolicies /\ policy.kind = "token"
      BY <2>1, <2>3, PolicyKinds DEF PricingInv
    <3>2. price = TokenPrice(policy, reported) /\ reserved = TokenPrice(policy, limits)
      BY <2>1, <2>3 DEF PricingInv, QuoteOf
    <3>3. limits \in Tokens /\ reported \in Tokens
      BY <2>1 DEF PricingInv
    <3>4. TokenPrice(policy, reported) <= TokenPrice(policy, limits)
      BY <2>1, <3>1, <3>3, PriceIsMonotone DEF PricingInv
    <3>5. TokenPrice(policy, reported) \in Nat /\ TokenPrice(policy, limits) \in Nat
      BY <3>1, <3>3, PriceIsCeiling
    <3> QED BY <3>2, <3>4, <3>5
  <2> QED BY <2>2, <2>3
<1> QED BY <1>1, PricingStarts, PricingKept, PTL DEF PricingSpec

\* The id of a token policy stands for its two rates and not for the way they
\* are written, so that a retry under another price is always told apart.
THEOREM PolicyIdsKeepIdentifyingRates == PricingSpec => []PolicyIdIdentifiesRates
<1>1. PricingInv => PolicyIdIdentifiesRates
  <2>1. SUFFICES ASSUME PricingInv, policy.kind = "token", NEW p \in TokenPolicies
                 PROVE  PolicyId(p) = PolicyId(policy)
                            <=> SameRate(p.input, policy.input) /\ SameRate(p.output, policy.output)
    BY DEF PolicyIdIdentifiesRates
  <2>2. policy.kind = "token" /\ policy.input \in Rates /\ policy.output \in Rates
    BY <2>1, PolicyKinds DEF PricingInv
  <2>3. p.kind = "token" /\ p.input \in Rates /\ p.output \in Rates
    BY DEF TokenPolicies
  <2>4. PICK a, b, c, d : /\ a = Canonical(p.input) /\ b = Canonical(p.output)
                          /\ c = Canonical(policy.input) /\ d = Canonical(policy.output)
    OBVIOUS
  <2>5. PolicyId(p) = <<"token", a, b>> /\ PolicyId(policy) = <<"token", c, d>>
    BY <2>2, <2>3, <2>4 DEF PolicyId
  <2>6. PolicyId(p) = PolicyId(policy) <=> a = c /\ b = d
    BY <2>5
  <2>7. (a = c <=> SameRate(p.input, policy.input)) /\ (b = d <=> SameRate(p.output, policy.output))
    BY <2>2, <2>3, <2>4, CanonicalIdentifiesRate
  <2> QED BY <2>6, <2>7
<1> QED BY <1>1, PricingStarts, PricingKept, PTL DEF PricingSpec
=============================================================================
