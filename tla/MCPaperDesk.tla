---------------------------- MODULE MCPaperDesk ----------------------------
EXTENDS PaperPipeline, TLC

RunSymmetry == Permutations(Runs)
MCFleet == <<"alpha", "beta">>
MCClose == [e \in Events |-> IF e = "e1" THEN 10 ELSE 12]
MCExpiry == [e \in Events |-> IF e = "e1" THEN 1 ELSE 2]
MCPlans == {[side |-> "LONG", entry |-> 10, stop |-> 8, leverage |-> 1, rr |-> 2],
            [side |-> "SHORT", entry |-> 10, stop |-> 11, leverage |-> 1, rr |-> 2]}
MCProfile == [s \in {"alpha", "beta"} |->
  [trade |-> IF s = "alpha" THEN 15 ELSE None, daily |-> 20, drawdown |-> 20, portfolio |-> 20,
   correlated |-> 25, positions |-> 2, leverage |-> 1, minRR |-> 1]]
MCMarket == [s \in {"alpha", "beta"} |->
  [step |-> 2, minQty |-> 1, minNotional |-> 10, maxQty |-> 8, leverage |-> None, short |-> TRUE]]
=============================================================================
