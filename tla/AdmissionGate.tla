--------------------------- MODULE AdmissionGate ---------------------------
(***************************************************************************)
(* What REST admission promises to the requests of one client, without     *)
(* queue order, pumps, timers or waits: a request waits, then enters one   *)
(* of a bounded number of slots or is refused; after closure nothing       *)
(* enters; and while an unidentified limit is being tested no other        *)
(* rate-limited request enters until the test ends.                        *)
(***************************************************************************)
EXTENDS Integers, FiniteSets

CONSTANTS Requests, Nobody,
          RateLimited,  \* requests the limit applies to
          MayProbe,     \* of those, requests that can test it
          Media,        \* requests that use a media slot
          ApiSlots, MediaSlots

VARIABLES
    call,       \* request -> how far its call has come
    limit,      \* "clear", "held" until somebody tests it, or "testing"
    tester,     \* the request that tests the limit
    shut

vars == <<call, limit, tester, shut>>

Entered == {r \in Requests : call[r] = "entered"}

Init ==
    /\ call = [r \in Requests |-> "new"]
    /\ limit = "clear" /\ tester = Nobody
    /\ shut = FALSE

Wait(r) ==
    /\ ~shut /\ call[r] = "new"
    /\ call' = [call EXCEPT ![r] = "waiting"]
    /\ UNCHANGED <<limit, tester, shut>>

\* Busy, denied, cancelled or closed.
Refuse(r) ==
    /\ call[r] \in {"new", "waiting"}
    /\ call' = [call EXCEPT ![r] = "refused"]
    /\ UNCHANGED <<limit, tester, shut>>

SlotFree(r) ==
    IF r \in Media THEN Cardinality(Entered \cap Media) < MediaSlots
                   ELSE Cardinality(Entered \ Media) < ApiSlots

Enter(r) ==
    /\ ~shut /\ call[r] = "waiting" /\ SlotFree(r)
    /\ call' = [call EXCEPT ![r] = "entered"]
    /\ \/ /\ r \in RateLimited \cap MayProbe /\ limit = "held"
          /\ limit' = "testing" /\ tester' = r
       \/ /\ r \notin RateLimited \/ limit = "clear" \/ (limit = "held" /\ r \notin MayProbe)
          /\ UNCHANGED <<limit, tester>>
    /\ UNCHANGED shut

Leave(r) ==
    /\ call[r] = "entered"
    /\ call' = [call EXCEPT ![r] = "left"]
    /\ IF tester = r THEN limit' = "held" /\ tester' = Nobody ELSE UNCHANGED <<limit, tester>>
    /\ UNCHANGED shut

\* An entered request meets the limit for the first time, or tests it in vain.
MeetLimit(r) ==
    /\ call[r] = "entered" /\ r \in RateLimited
    /\ limit = "clear" \/ tester = r
    /\ limit' = "held" /\ tester' = Nobody
    /\ UNCHANGED <<call, shut>>

PassLimit(r) ==
    /\ call[r] = "entered" /\ limit = "testing" /\ tester = r
    /\ limit' = "clear" /\ tester' = Nobody
    /\ UNCHANGED <<call, shut>>

Shut ==
    /\ ~shut /\ shut' = TRUE
    /\ call' = [r \in Requests |-> IF call[r] = "waiting" THEN "refused" ELSE call[r]]
    /\ UNCHANGED <<limit, tester>>

Next ==
    \/ \E r \in Requests :
        Wait(r) \/ Refuse(r) \/ Enter(r) \/ Leave(r) \/ MeetLimit(r) \/ PassLimit(r)
    \/ Shut

Spec == Init /\ [][Next]_vars

=============================================================================
