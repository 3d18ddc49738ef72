------------------------------- MODULE MCPaper -------------------------------
(* Trading on paper, in one run: the broker's book, the fleet's desks, the   *)
(* replay of one system and that of the Master's crews.  They share no       *)
(* variable; `focus` is the one that moves.                                  *)
EXTENDS PaperBroker, PaperPipeline, HistoricalReplay, MasterReplay, TLC

VARIABLE focus

Begins ==
  /\ focus \in {"book", "desk", "replay", "master"}
  /\ Init /\ DeskInit /\ ReplayInit /\ MasterInit
  /\ focus # "master" => row = CHOOSE r \in Rows : TRUE

Goes ==
  \/ focus = "book" /\ Next /\ UNCHANGED <<focus, deskVars, replayVars, masterVars>>
  \/ focus = "desk" /\ DeskNext /\ UNCHANGED <<focus, vars, replayVars, masterVars>>
  \/ focus = "replay" /\ ReplayNext /\ UNCHANGED <<focus, vars, deskVars, masterVars>>
  \/ focus = "master" /\ MasterNext /\ UNCHANGED <<focus, vars, deskVars, replayVars>>

PaperSpec == Begins /\ [][Goes]_<<focus, vars, deskVars, replayVars, masterVars>>

---------------------------------------------------------------------------
\* The book.  The prices are multiples of 4320000 so that fees, slippage and
\* averages of up to two entries over totals of 2, 3, 4 or 6 are whole numbers,
\* as Decimal keeps them.
Ticks == {4320000, 8640000}
StopTicks == {4320000, 6480000}

\* The desk.  Two systems, one with a limit on each trade, and two snapshots.
RunSymmetry == Permutations(Runs)
MCFleet == <<"alpha", "beta">>
MCClose == [e \in Events |-> IF e = "e1" THEN 10 ELSE 12]
MCExpiry == [e \in Events |-> IF e = "e1" THEN 1 ELSE 2]
MCPlans == {[side |-> "LONG", entry |-> 10, stop |-> 8, leverage |-> 1, rr |-> 2],
            [side |-> "SHORT", entry |-> 10, stop |-> 11, leverage |-> 1, rr |-> 2]}
MCProfile == [s \in {"alpha", "beta"} |->
  [trade |-> IF s = "alpha" THEN 15 ELSE None, daily |-> 20, drawdown |-> 20, portfolio |-> 20,
   correlated |-> 25, positions |-> 2, leverage |-> 1, minRR |-> 1]]
MCMarket == [s \in {"alpha", "beta"} |->
  [step |-> 2, minQty |-> 1, minNotional |-> 10, maxQty |-> 8, leverage |-> None, short |-> TRUE]]

\* The replay.  Candles that rise, fall, swing or open away from the last.
Bar(o, h, l, c) == [open |-> o, high |-> h, low |-> l, close |-> c]
MCBars == {Bar(100, 120, 100, 120), Bar(100, 100, 80, 80), Bar(80, 120, 80, 100), Bar(120, 120, 100, 100),
           Bar(100, 120, 80, 100)}
Signal(side, entry, stop, targets) ==
  [side |-> side, entry |-> entry, stop |-> stop, targets |-> targets, leverage |-> 1, rr |-> 1]
MCSignals == {Signal("LONG", 100, 80, {120}), Signal("LONG", 80, 70, {110, 120}),
              Signal("SHORT", 100, 120, {80}), Signal("SHORT", 120, 130, {100})}
MCReplayProfile == [trade |-> 10, daily |-> 10, drawdown |-> 30, portfolio |-> 25, correlated |-> 25,
                    positions |-> 2, leverage |-> 1, minRR |-> None]
MCReplayMarket == [step |-> 1, minQty |-> 1, minNotional |-> 10, maxQty |-> None, leverage |-> None, short |-> TRUE]

\* Two crews, two trades each: LONG and SHORT, so that the account nets opposing
\* lots.  The envelopes hold one trade of each crew, the equity refuses the two
\* larger ones together, the risk limit a2 with b1.  Candles stay inside, touch a
\* stop, a target or both, or gap.
MCTrade ==
    [a1 |-> [side |-> 1,  qty |-> 1, stop |-> 8,  target |-> 12],
     a2 |-> [side |-> -1, qty |-> 2, stop |-> 12, target |-> 8],
     b1 |-> [side |-> -1, qty |-> 1, stop |-> 12, target |-> 9],
     b2 |-> [side |-> 1,  qty |-> 2, stop |-> 9,  target |-> 13]]
MCRequests == DOMAIN MCTrade
MCRank == [a1 |-> 1, a2 |-> 2, b1 |-> 3, b2 |-> 4]

\* Every trade was proposed at 10: risk and gross exposure follow from it.
StopDistance(t) == IF t.side = 1 THEN 10 - t.stop ELSE t.stop - 10
MCRequest == [r \in MCRequests |->
    [crew |-> IF r \in {"a1", "a2"} THEN "a" ELSE "b",
     capital |-> 10 * MCTrade[r].qty,
     risk |-> MCTrade[r].qty * StopDistance(MCTrade[r]),
     gross |-> 10 * MCTrade[r].qty]]
MCCeiling == [c \in {"a", "b"} |-> [capital |-> 20, risk |-> 4, gross |-> 20]]
MCLimit == [risk |-> 5, gross |-> 30]
MCSum(a, chosen) == MapThenSumSet(LAMBDA r : MCRequest[r][a], chosen)

MCRows == {
    [open |-> 10, high |-> 10, low |-> 10, close |-> 10],   \* quiet
    [open |-> 10, high |-> 13, low |-> 8, close |-> 11],    \* touches everything
    [open |-> 10, high |-> 11, low |-> 8, close |-> 9],     \* falls
    [open |-> 13, high |-> 13, low |-> 10, close |-> 12],   \* gaps up
    [open |-> 8, high |-> 10, low |-> 8, close |-> 10]}     \* gaps down
=============================================================================
