--------------------------- MODULE MCLiveOrders ---------------------------
(* LiveOrders on small instances, in one run: with one submission at a time *)
(* per intent, of which the exchange may register a larger volume, and with *)
(* calls that may all overlap.  `focus` is the one that moves.              *)
EXTENDS LiveOrders, TLC

VARIABLES focus, table, caller, sent, placed    \* the last four of Overlapping

Overlapping == INSTANCE LiveOrders WITH OverlapSubmits <- TRUE, Volumes <- {Qty},
                 store <- table, task <- caller, wire <- sent, orders <- placed

overlappingVars == <<table, caller, sent, placed>>

Begins == focus \in {"one submit", "any overlap"} /\ Init /\ Overlapping!Init

Goes ==
  \/ focus = "one submit" /\ Next /\ UNCHANGED <<focus, overlappingVars>>
  \/ focus = "any overlap" /\ Overlapping!Next /\ UNCHANGED <<focus, vars>>

OrdersSpec == Begins /\ [][Goes]_<<focus, vars, overlappingVars>>

Symmetry == Permutations(Tasks) \cup Permutations(Txids)

---------------------------------------------------------------------------
(* Properties of LiveOrders, which says what they are about, where calls    *)
(* overlap.                                                                 *)

\* No order without a record and no record ahead of the exchange.
OverlapsHold == Overlapping!TypeOK /\ Overlapping!OrdersAreKnown

\* One order per intent, as the documentation says.
OneOrderDespiteOverlap == Overlapping!NoDuplicateOrder
=============================================================================
