---------------------------- MODULE CapacityPool ----------------------------
(* What the Master Portfolio promises of its capacity, whoever reserves,    *)
(* admits or releases and in whatever order: a request takes capacity at    *)
(* most once and only what the envelopes have left, is confirmed at most    *)
(* once and only within the global limits, and never comes back.            *)
EXTENDS ReservationLedger

VARIABLES taken,      \* requests that hold capacity, not yet admitted
          confirmed,  \* requests that hold capacity, admitted
          returned    \* requests that gave their capacity back

vars == <<taken, confirmed, returned>>

Init == taken = {} /\ confirmed = {} /\ returned = {}

Take(r) ==
    /\ r \notin taken \cup confirmed \cup returned
    /\ \A a \in Amounts :
          Sum(a, OfCrew(request[r].crew, taken \cup confirmed \cup {r})) <=
              ceiling[request[r].crew][a]
    /\ Sum("capital", taken \cup confirmed \cup {r}) <= equity
    /\ taken' = taken \cup {r}
    /\ UNCHANGED <<confirmed, returned>>

Confirm(r) ==
    /\ r \in taken
    /\ \A a \in Exposures : Sum(a, confirmed \cup {r}) <= limit[a]
    /\ taken' = taken \ {r}
    /\ confirmed' = confirmed \cup {r}
    /\ UNCHANGED returned

Return(r) ==
    /\ r \in taken \cup confirmed
    /\ taken' = taken \ {r}
    /\ confirmed' = confirmed \ {r}
    /\ returned' = returned \cup {r}

Next == \E r \in Requests : Take(r) \/ Confirm(r) \/ Return(r)

Spec == Init /\ [][Next]_vars
=============================================================================
