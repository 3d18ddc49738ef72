--------------------------- MODULE OrderIntents ---------------------------
(***************************************************************************)
(* What the LIVE broker promises of an order intent, whatever the network  *)
(* and the process do: it is recorded before it is sent, sent once, and an *)
(* order is placed only by that one sending.                               *)
(***************************************************************************)
CONSTANT Clients

VARIABLES
  recorded,  \* intents with a durable record
  sent,      \* intents whose request is under way
  placed     \* intents with an order at the exchange

vars == <<recorded, sent, placed>>

Init == recorded = {} /\ sent = {} /\ placed = {}

\* The record and the request appear together, for the first and only time.
Send(c) ==
  /\ c \notin recorded
  /\ recorded' = recorded \cup {c}
  /\ sent' = sent \cup {c}
  /\ UNCHANGED placed

Place(c) ==
  /\ c \in sent /\ c \notin placed
  /\ sent' = sent \ {c}
  /\ placed' = placed \cup {c}
  /\ UNCHANGED recorded

Drop(c) ==
  /\ c \in sent
  /\ sent' = sent \ {c}
  /\ UNCHANGED <<recorded, placed>>

Next == \E c \in Clients : Send(c) \/ Place(c) \/ Drop(c)

Spec == Init /\ [][Next]_vars

=============================================================================
