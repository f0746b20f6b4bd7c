----------------------------- MODULE MCLotLife -----------------------------
(* Model-checking instances of LotLife: parameters and a few bars for each  *)
(* strategy, which between them enter, add, climb the ladder and stop out.  *)
EXTENDS LotLife

MCPar ==
  [sessionOpen |-> 1, rangeEnd |-> 2, entryCutoff |-> 3, flatBy |-> 4, windowFrom |-> 2, windowTo |-> 3,
   maxEntries |-> 1, minRvol |-> 2, maxExt |-> 3, minRising |-> 1, breakout |-> FALSE, vwapConfirm |-> 2,
   stopMult |-> 1, trailMult |-> 3, risk |-> 10, bullMult |-> 2, alloc |-> 50, costBuffer |-> 2,
   rungs |-> <<[r |-> 1, num |-> 1, den |-> 3], [r |-> 2, num |-> 1, den |-> 3]>>,
   maxHold |-> None, adxMin |-> 25, rsiLow |-> 50, rsiHigh |-> 70, fullAlign |-> FALSE, confirm |-> TRUE,
   rsiMin |-> 40, rsiMax |-> 60, aboveSma120 |-> FALSE, maxAtr |-> 2, touchBand |-> 1, maxBelow |-> 1,
   maxAdds |-> 1, addR |-> 1, morningFall |-> 1, crashRise |-> 2, holdDays |-> 2]

\* A bar at price p of a stock in an uptrend.
At(p) == [close |-> p, high |-> p, low |-> p - 1, vol |-> p, vwap |-> 5, atr |-> 1, rvol |-> 2,
          sma5 |-> p, sma20 |-> 5, sma60 |-> 4, sma120 |-> 3, adx |-> 30, pdi |-> 2, mdi |-> 1,
          macd |-> p, sig |-> 5, hist |-> Up, rsi |-> 55, high20 |-> 5, newsBad |-> FALSE, n |-> 61]

MCSnaps ==
  [momo     |-> {At(5), At(6), [At(4) EXCEPT !.vwap = 5]},
   orb      |-> {At(5), At(6), At(7), At(4)},
   window   |-> {At(7), At(6), At(4)},
   trend    |-> {At(5), At(6), At(8), [At(4) EXCEPT !.n = 5]},
   pullback |-> {At(5), [At(6) EXCEPT !.rsi = 45], [At(7) EXCEPT !.low = 6], At(3)},
   crash    |-> {At(4), At(6)}]

MCTemplates == {[strat |-> "momo", scan |-> TRUE]}
                 \cup [strat : {"orb", "window", "trend", "pullback", "crash"}, scan : {FALSE}]

\* A pullback that may be added to twice, on wide swings (for NeverAveragesDown).
MCTwoAdds   == [MCPar EXCEPT !.maxAdds = 2, !.rungs = <<>>, !.trailMult = 9]
MCSwings    == [MCSnaps EXCEPT !.pullback = {At(5), [At(6) EXCEPT !.rsi = 45],
                                             [At(7) EXCEPT !.low = 6], [At(13) EXCEPT !.low = 6]}]
MCPullbacks == {[strat |-> "pullback", scan |-> FALSE]}

MCMaxDay == [momo |-> 2, orb |-> 1, window |-> 2, trend |-> 1, pullback |-> 1, crash |-> 4]
=============================================================================
