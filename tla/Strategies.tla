----------------------------- MODULE Strategies -----------------------------
(***************************************************************************)
(* What a strategy decides on a bar: the six registered algorithms, the    *)
(* signal blocks and the sizing they share.  A decision is a function of   *)
(*   c.s      the bar's indicator snapshot,   c.prev  the one before it,   *)
(*   c.lot    the lot,                        c.mem   what the strategy    *)
(*   c.day, c.minute                                  object remembers.    *)
(* Prices and indicators are small grades, 0 is "no value" (None); sizes   *)
(* are whole KRX shares.  The reasons given for doing nothing are left     *)
(* out, so a chain of early returns is a conjunction.  Every strategy      *)
(* returns exactly one intent.  Options that are off by default (a fixed   *)
(* stop, a VWAP buffer, news scaling, fractional sizes) are left out.      *)
(***************************************************************************)
EXTENDS Naturals, Sequences

CONSTANTS Par,      \* the parameters of the templates (a record)
          Equity    \* the equity orders are sized with

ASSUME StrategyAssumption ==
  /\ Equity \in Nat
  /\ \A p \in {"stopMult", "addR", "risk", "bullMult", "alloc", "costBuffer",
             "holdDays", "maxHold"} : Par[p] \in Nat
  /\ Par.rungs \in Seq([r : Nat, num : Nat, den : Nat \ {0}])

None   == 0
NoSnap == [close |-> 0]
Up     == 2                  \* signs of the MACD histogram
Down   == 1
Has(s, K) == \A k \in K : s[k] # None
Least(a, b) == IF a <= b THEN a ELSE b
Most(a, b)  == IF a >= b THEN a ELSE b

Strats   == {"momo", "orb", "window", "trend", "pullback", "crash"}
Intraday == {"momo", "orb", "window"}
OpenSt   == {"HOLDING", "SCALING", "EXITING"}
EndSt    == {"CLOSED", "CANCELLED"}

\* evaluate waits for this many bars.
Warmup(st) == CASE st \in Intraday -> 16 [] st = "trend" -> 60
                [] st = "pullback" -> 61 [] st = "crash" -> 2

Hold          == [kind |-> "HOLD",  qty |-> 0, stop |-> None, rung |-> FALSE]
Enter(q, st)  == [kind |-> "ENTER", qty |-> q, stop |-> st,   rung |-> FALSE]
Add(q)        == [kind |-> "ADD",   qty |-> q, stop |-> None, rung |-> FALSE]
TrimRung(q)   == [kind |-> "TRIM",  qty |-> q, stop |-> None, rung |-> TRUE]
ExitAll       == [kind |-> "EXIT",  qty |-> 0, stop |-> None, rung |-> FALSE]

-----------------------------------------------------------------------------
(* Sizing and stops.                                                       *)

\* risk_based_qty: the loss at the stop, costs included, stays in the budget
\* (risk in percent of equity, the cost buffer in per mille), and the notional
\* stays below 95% of equity.
RiskQty(entry, stop, risk) ==
  IF stop = None \/ entry <= stop THEN 0
  ELSE LET perShare == 1000 * (entry - stop) + entry * Par.costBuffer
       IN Least((10 * Equity * risk) \div perShare, (95 * Equity) \div (100 * entry))

Below(price, n) == IF n < price THEN price - n ELSE None     \* a stop must be positive
AtrStop(c)      == IF c.s.atr = None THEN None ELSE Below(c.s.close, Par.stopMult * c.s.atr)

\* The chandelier trails the highest price since entry.
Trailed(c) == /\ c.s.atr # None
              /\ c.s.close <= Below(c.lot.peak, Par.trailMult * c.s.atr)
HardStop(c) == c.lot.stop # None /\ c.s.close <= c.lot.stop

-----------------------------------------------------------------------------
(* Signal blocks; a cross or a breakout needs the snapshot before.         *)

HasPrev(c)     == c.prev # NoSnap
CrossUp(c, f, g)   == HasPrev(c) /\ Has(c.prev, {f, g}) /\ Has(c.s, {f, g})
                      /\ c.prev[f] <= c.prev[g] /\ c.s[f] > c.s[g]
CrossDown(c, f, g) == HasPrev(c) /\ Has(c.prev, {f, g}) /\ Has(c.s, {f, g})
                      /\ c.prev[f] >= c.prev[g] /\ c.s[f] < c.s[g]

RegimeBullish(s) == /\ Has(s, {"sma20", "sma60", "adx", "pdi", "mdi"})
                    /\ s.close > s.sma20 /\ s.sma20 > s.sma60
                    /\ Par.fullAlign => Has(s, {"sma5"}) /\ s.close > s.sma5 /\ s.sma5 > s.sma20
                    /\ s.adx >= Par.adxMin /\ s.pdi > s.mdi
BreakoutHigh(c)  == HasPrev(c) /\ Has(c.prev, {"high20"}) /\ c.s.close > c.prev.high20
MomentumOk(s)    == Has(s, {"rsi"}) /\ s.rsi \in Par.rsiLow .. Par.rsiHigh /\ s.hist = Up
VolumeOk(s)      == Has(s, {"rvol"}) /\ s.rvol >= Par.minRvol

ExitReason(c) ==
  \/ c.s.sma20 # None /\ c.s.close < c.s.sma20
  \/ CrossDown(c, "sma5", "sma20")
  \/ CrossDown(c, "macd", "sig") /\ c.s.hist = Down
  \/ HasPrev(c) /\ Has(c.s, {"rsi"}) /\ c.prev.rsi > 70 /\ c.s.rsi < c.prev.rsi
  \/ /\ HasPrev(c) /\ Has(c.prev, {"adx"}) /\ Has(c.s, {"adx", "pdi", "mdi"})
     /\ c.s.adx < c.prev.adx /\ c.s.mdi > c.s.pdi

-----------------------------------------------------------------------------
(* The take-profit ladder, shared by four strategies: one rung at a time,  *)
(* a fraction of the ORIGINAL position; a rung that rounds to nothing      *)
(* closes the rest.                                                        *)

RungDue(c) == /\ c.lot.stop # None /\ c.lot.rungs < Len(Par.rungs)
              /\ c.lot.avg > c.lot.stop
              /\ c.s.close >= c.lot.avg + Par.rungs[c.lot.rungs + 1].r * (c.lot.avg - c.lot.stop)
RungQty(c) == LET rung == Par.rungs[c.lot.rungs + 1]
                  q    == Least((c.lot.orig * rung.num) \div rung.den, c.lot.qty)
              IN IF q = 0 THEN c.lot.qty ELSE q

-----------------------------------------------------------------------------
(* Each strategy: when to enter, and what ends a holding before and after  *)
(* the ladder is looked at.                                                *)

InSession(c)  == c.minute >= Par.sessionOpen /\ c.minute < Par.entryCutoff
FlatDue(c)    == c.minute >= Par.flatBy
RvolHolds(s)  == s.rvol # None => s.rvol >= Par.minRvol
AboveVwap(s)  == s.vwap # None => s.close >= s.vwap

MomoEnters(c) ==
  /\ InSession(c) /\ c.mem.entries < Par.maxEntries /\ ~c.s.newsBad
  /\ RvolHolds(c.s) /\ AboveVwap(c.s)
  /\ c.s.vwap # None => c.s.close <= c.s.vwap + Par.maxExt
  /\ HasPrev(c) => /\ c.s.close > c.prev.close
                   /\ Par.breakout => c.s.close > c.prev.high
  /\ Par.minRising > 1 => c.mem.rising >= Par.minRising

OrbEnters(c) ==
  /\ c.mem.orHigh # None /\ c.minute >= Par.rangeEnd /\ c.minute < Par.entryCutoff
  /\ c.mem.entries < Par.maxEntries /\ ~c.s.newsBad
  /\ c.s.close > c.mem.orHigh /\ RvolHolds(c.s) /\ AboveVwap(c.s)

WindowEnters(c) ==
  /\ c.mem.entries = 0 /\ c.minute \in Par.windowFrom .. (Par.windowTo - 1) /\ ~c.s.newsBad
  /\ c.s.close + Par.morningFall <= c.mem.open

TrendEnters(c) ==
  /\ ~c.s.newsBad /\ RegimeBullish(c.s)
  /\ \/ CrossUp(c, "macd", "sig") \/ CrossUp(c, "sma5", "sma20") \/ BreakoutHigh(c)
  /\ Par.confirm => MomentumOk(c.s) \/ VolumeOk(c.s)

\* _setup_fail, when it finds nothing wrong.
PullbackSetup(c) ==
  LET s == c.s IN
  /\ Has(s, {"sma20", "sma60", "rsi"})
  /\ s.close > s.sma60 /\ s.sma20 > s.sma60
  /\ Par.aboveSma120 => s.sma120 # None /\ s.close > s.sma120
  /\ s.atr <= Par.maxAtr
  /\ s.low <= s.sma20 + Par.touchBand /\ s.close + Par.maxBelow >= s.sma20
  /\ s.rsi \in Par.rsiMin .. Par.rsiMax
  /\ HasPrev(c) /\ s.close > c.prev.close
  /\ c.prev.vol > 0 => s.vol > c.prev.vol
  /\ RvolHolds(s) /\ ~s.newsBad

CrashEnters(c) == HasPrev(c) /\ c.s.close >= c.prev.close + Par.crashRise

Enters(st, c) == CASE st = "momo"     -> MomoEnters(c)
                   [] st = "orb"      -> OrbEnters(c)
                   [] st = "window"   -> WindowEnters(c)
                   [] st = "trend"    -> TrendEnters(c)
                   [] st = "pullback" -> PullbackSetup(c)
                   [] st = "crash"    -> CrashEnters(c)

\* The stop of an entry: the ATR stop; ORB takes the tighter of it and the low
\* of the opening range; crash_momentum buys without one.
EntryStop(st, c) == CASE st = "orb"   -> Most(c.mem.orLow, AtrStop(c))
                      [] st = "crash" -> None
                      [] OTHER        -> AtrStop(c)

\* trend_long halves an entry that is not fully confirmed, to no less than one
\* share; pullback_daily risks more in a strong regime.
StrongRegime(s) == Has(s, {"adx", "pdi", "mdi"}) /\ s.adx >= Par.adxMin /\ s.pdi > s.mdi
EntryQty(st, c) ==
  LET base(risk) == RiskQty(c.s.close, EntryStop(st, c), risk) IN
  CASE st = "crash"    -> (Equity * Par.alloc) \div (100 * c.s.close)
    [] st = "pullback" -> base(IF StrongRegime(c.s) THEN Par.risk * Par.bullMult ELSE Par.risk)
    [] st = "trend"    -> IF MomentumOk(c.s) /\ VolumeOk(c.s) THEN base(Par.risk)
                          ELSE Most(base(Par.risk) \div 2, Least(base(Par.risk), 1))
    [] OTHER           -> base(Par.risk)

\* The bars in a row that closed below VWAP (momo), this one included.
BelowVwap(c) == IF c.s.vwap # None /\ c.s.close < c.s.vwap THEN c.mem.below + 1 ELSE 0

EndsFirst(st, c) ==
  \/ st \in Intraday /\ FlatDue(c)
  \/ st = "crash" /\ c.lot.held >= Par.holdDays
  \/ HardStop(c)
  \/ st = "momo" /\ BelowVwap(c) >= Par.vwapConfirm
  \/ st \in Strats \ {"window", "crash"} /\ Trailed(c)
  \/ st \in {"trend", "pullback"} /\ Par.maxHold # None /\ c.lot.held >= Par.maxHold

Ladder(st) == st \in Strats \ {"window", "crash"}

EndsLast(st, c) == \/ st = "trend" /\ ExitReason(c)
                   \/ st = "pullback" /\ c.s.sma60 # None /\ c.s.close < c.s.sma60

\* A pyramid add: in profit, on a fresh setup, a fraction of the original size.
\* (Mutant: the profit is not asked for.)
AddQty(c) == c.lot.orig \div 2
AddsToLosers(st, c) == /\ st = "pullback" /\ c.mem.adds < Par.maxAdds
                       /\ PullbackSetup(c) /\ AddQty(c) > 0

Adds(st, c) == /\ st = "pullback" /\ c.mem.adds < Par.maxAdds
               /\ c.lot.stop # None /\ c.lot.avg > c.lot.stop
               /\ c.s.close >= c.lot.avg + Par.addR * (c.lot.avg - c.lot.stop)
               /\ PullbackSetup(c) /\ AddQty(c) > 0

Decision(st, c) ==
  CASE c.lot.st \in {"HOLDING", "SCALING"} ->
         IF EndsFirst(st, c) THEN ExitAll
         ELSE IF Ladder(st) /\ RungDue(c) THEN TrimRung(RungQty(c))
         ELSE IF EndsLast(st, c) THEN ExitAll
         ELSE IF Adds(st, c) THEN Add(AddQty(c)) ELSE Hold
    [] c.lot.st = "WATCHING" /\ Enters(st, c) /\ EntryQty(st, c) > 0 ->
         Enter(EntryQty(st, c), EntryStop(st, c))
    [] OTHER -> Hold

-----------------------------------------------------------------------------
(* What the strategy object remembers.                                     *)

NoMem == [day |-> 0, orHigh |-> None, orLow |-> None, open |-> None,
          entries |-> 0, rising |-> 0, below |-> 0, adds |-> 0]

\* _roll_day and the observations made before anything is decided.
Observed(st, c) ==
  LET m == IF c.mem.day = c.day THEN c.mem
           ELSE [NoMem EXCEPT !.day = c.day, !.open = c.s.close, !.adds = c.mem.adds]
  IN CASE st = "momo" ->
            [m EXCEPT !.rising = IF HasPrev(c) /\ c.s.close > c.prev.close
                                 THEN Least(@ + 1, Par.minRising) ELSE 0]
       [] st = "orb" /\ c.minute \in Par.sessionOpen .. (Par.rangeEnd - 1) ->
            [m EXCEPT !.orHigh = Most(@, c.s.high),
                      !.orLow  = IF @ = None THEN c.s.low ELSE Least(@, c.s.low)]
       [] OTHER -> m

\* ... and what the decision d leaves behind.
Remembered(st, c, d) ==
  CASE d.kind = "ENTER" /\ st \in Intraday -> [c.mem EXCEPT !.entries = @ + 1]
    [] d.kind = "ADD"                      -> [c.mem EXCEPT !.adds = @ + 1]
    [] st = "momo" /\ c.lot.st \in {"HOLDING", "SCALING"} /\ ~FlatDue(c) /\ ~HardStop(c) ->
         [c.mem EXCEPT !.below = Least(BelowVwap(c), Par.vwapConfirm)]
    [] OTHER -> c.mem
=============================================================================
