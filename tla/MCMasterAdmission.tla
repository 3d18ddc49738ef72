------------------------- MODULE MCMasterAdmission -------------------------
(* Two crews and three requests: a1 and a2 fill crew a's envelope and the   *)
(* global limits exactly, either of them with b1 exceeds a global limit, and *)
(* the three together exceed the equity.                                    *)
EXTENDS MasterAdmission, FiniteSetsExt

MCRequests == {"a1", "a2", "b1"}
MCRequest == [r \in MCRequests |->
    CASE r = "a1" -> [crew |-> "a", capital |-> 2, risk |-> 1, gross |-> 2]
      [] r = "a2" -> [crew |-> "a", capital |-> 1, risk |-> 2, gross |-> 1]
      [] r = "b1" -> [crew |-> "b", capital |-> 2, risk |-> 2, gross |-> 2]]
MCCeiling == [c \in {"a", "b"} |->
    [x \in Amounts |-> 3]]
MCLimit == [x \in Exposures |-> 3]
MCSum(a, S) == MapThenSumSet(LAMBDA r : MCRequest[r][a], S)

\* A flat portfolio, one that shows crew a's first request, one that is not
\* available.
Flat == [c \in {"a", "b"} |-> [x \in Exposures |-> 0]]
Zero == [x \in Exposures |-> 0]
MCObservations == {
    [available |-> TRUE, crew |-> Flat, total |-> Zero],
    [available |-> FALSE, crew |-> Flat, total |-> Zero],
    [available |-> TRUE,
     crew |-> [Flat EXCEPT !["a"] = [x \in Exposures |-> MCRequest["a1"][x]]],
     total |-> [x \in Exposures |-> MCRequest["a1"][x]]]}
=============================================================================
