--------------------------- MODULE LotLife_proofs ---------------------------
(***************************************************************************)
(* Proofs about LotLife for any parameters of the strategies, any bars, any *)
(* number of lots, days and crashes.  The invariant IInv says how the three *)
(* copies of a lot - in memory, in its row and in its working orders - stay *)
(* in step between a fill's two halves, over a night and over a restart.    *)
(***************************************************************************)
EXTENDS LotLife, TLAPS

\* The shape of the state.
Kinds  == {"none", "HOLD", "ENTER", "ADD", "TRIM", "EXIT"}
Sold   == {"TRIM", "EXIT"}
Lots   == [st : {"none", "WATCHING", "HOLDING", "SCALING", "CLOSED"}, qty : Nat, avg : Nat,
           peak : Nat, held : Nat, stop : Nat, orig : Nat, rungs : 0 .. Len(Par.rungs),
           pStop : Nat, pOrig : Nat]
Rows   == [st : {"none", "WATCHING", "HOLDING", "CLOSED", "CANCELLED"}, qty : Nat, avg : Nat,
           peak : Nat, stop : Nat, orig : Nat, rungs : 0 .. Len(Par.rungs)]
Orders == [left : Nat, px : Nat, kind : Kinds, started : BOOLEAN]
Decisions == [kind : Kinds, qty : Nat, stop : Nat, rung : BOOLEAN]
Mains  == [at : {"idle", "place", "sync"}, px : Nat,
           d : Decisions]
Hists  == [ordered : Nat, buys : Nat, trims : Nat, spawned : Nat, joins : Nat, torn : BOOLEAN,
           late : BOOLEAN, held : Nat]
Minds(m) == "orLow" \in DOMAIN m /\ m.orLow \in Nat
MemOK    == Minds(mem)

TypeOK == /\ tpl \in [strat : Strats, scan : BOOLEAN, on : BOOLEAN]
          /\ joined \in 0 .. day /\ day \in 1 .. MaxDay[tpl.strat] /\ minute \in 0 .. LastMinute
          /\ lot \in Lots /\ row \in Rows /\ MemOK
          /\ buy \in Orders /\ sale \in Orders /\ rec \in Orders /\ main \in Mains
          /\ up \in BOOLEAN /\ crashes \in 0 .. MaxCrashes /\ hist \in Hists

Entered == lot.st \in {"HOLDING", "SCALING", "CLOSED"}
Working == buy.left + sale.left > 0
Placing == main.at = "place"

\* What an order is of; a fill that is booked leaves nothing.
OrdersOK ==
  /\ buy.left > 0 => buy.kind \in Bought
  /\ sale.left > 0 => sale.kind \in Sold
  /\ rec.left = 0 => rec.kind = "none"
  /\ rec.left > 0 => rec.kind \in Bought \cup Sold

\* An engine that is down remembers nothing.
DownOK == ~up => lot = NoLot /\ main = Idle /\ rec = NoOrder /\ joined = 0 /\ crashes > 0

\* What is being placed was decided for a lot that is there, and its rung is taken.
MainOK == Placing => /\ lot.st # "none" /\ main.d.kind \in {"ENTER", "ADD", "TRIM", "EXIT"}
                     /\ main.d.kind # "ENTER" => Entered
                     /\ main.d.kind = "TRIM" => lot.rungs > 0 /\ main.d.qty > 0

\* The state of a row follows from its quantity, and a row that is over has no orders.
RowOK == /\ row.st = "WATCHING" => row.qty = 0 /\ sale.left = 0 /\ rec.left = 0 /\ hist.trims = 0
         /\ row.st = "HOLDING" => row.qty > 0
         /\ row.st = "CLOSED" => row.qty = 0
         /\ row.st \in {"none", "CANCELLED"} => ~Working /\ rec.left = 0

\* The lot in memory and the state of its row.
LotOK == /\ up /\ lot.st = "none" => lot = NoLot /\ ~Working /\ rec.left = 0
                                     /\ row.st \in {"none", "CANCELLED", "CLOSED"}
         /\ lot.st = "WATCHING" => /\ lot.qty = 0 /\ sale.left = 0 /\ hist.trims = 0
                                   /\ rec.kind \notin Sold
                                   /\ row.st = IF rec.left = 0 THEN "WATCHING" ELSE "HOLDING"
         /\ Entered => row.st = IF row.qty = 0 THEN "CLOSED" ELSE "HOLDING"
         /\ IsOpen(lot) <=> lot.qty > 0

\* The row is ahead of the lot by the fill that is not yet booked, and by nothing else.
BookOK == lot.st # "none" =>
          /\ rec.left = 0 => row.qty = lot.qty /\ row.avg = lot.avg
          /\ rec.kind \in Bought => /\ row.qty = lot.qty + rec.left
                                    /\ row.avg = AvgOf(lot.avg, lot.qty, rec.px, rec.left)
          /\ rec.kind \in Sold => row.qty = lot.qty - rec.left /\ row.avg = lot.avg

\* Every trim that went out is a rung taken, in memory or, when the engine is down, in the row.
RungsOK == ~hist.torn =>
  /\ lot.st # "none" => hist.trims + (IF Placing /\ main.d.kind = "TRIM" THEN 1 ELSE 0) <= lot.rungs
  /\ ~up /\ (row.st = "HOLDING" \/ (row.st = "CLOSED" /\ Working)) => hist.trims <= row.rungs

\* The stop is where the entry needs it: in the lot, in what the entry intends, or in the row.
StopsOK == tpl.strat # "crash" /\ ~hist.torn =>
  /\ Entered => lot.stop # None
  /\ lot.st = "WATCHING" /\ (buy.left > 0 \/ rec.left > 0 \/ Placing) => lot.pStop # None
  /\ ~up /\ (row.st = "HOLDING" \/ (row.st \in {"WATCHING", "CLOSED"} /\ Working)) => row.stop # None

\* A pick with an order is on its first day.
DayOK ==
  /\ joined # 0 => tpl.scan /\ tpl.on
  /\ tpl.scan /\ lot.st = "WATCHING" /\ joined \notin {0, day} => buy.left = 0 /\ rec.left = 0 /\ ~Placing
  /\ up /\ lot.st = "none" => joined = 0
  /\ crashes = 0 /\ tpl.scan /\ lot.st = "WATCHING" => tpl.on
  /\ crashes = 0 /\ tpl.scan /\ Placing /\ main.d.kind = "ENTER" => joined = day

\* An add on its way - decided, working or filled - is not below the average price.
AddsOK == ~hist.late =>
  /\ Adding => main.px >= lot.avg
  /\ up /\ buy.left > 0 /\ buy.kind = "ADD" /\ lot.qty > 0 => buy.px >= lot.avg
  /\ rec.kind = "ADD" /\ lot.qty > 0 => rec.px >= lot.avg
  /\ buy.left > 0 /\ buy.kind = "ADD" /\ rec.kind \in Bought => rec.px = buy.px
  /\ ~up /\ buy.left > 0 /\ buy.kind = "ADD" /\ row.qty > 0 => buy.px >= row.avg

\* The inductive invariant.
IInv == TypeOK /\ OrdersOK /\ DownOK /\ MainOK /\ RowOK /\ LotOK /\ BookOK /\ RungsOK /\ StopsOK
        /\ DayOK /\ AddsOK


-----------------------------------------------------------------------------
(* What a strategy decides.                                                 *)

\* Division of naturals.
LEMMA Halves == \A a, b \in Nat : b > 0 => a \div b \in Nat
BY SMT

\* Stops and sizes are naturals, and an entry sized by its risk has a stop.
LEMMA StopIsNat ==
  ASSUME NEW st \in Strats, NEW c, c.s.close \in Nat \ {0}, c.s.atr \in Nat, c.mem.orLow \in Nat
  PROVE  EntryStop(st, c) \in Nat
<1>1. AtrStop(c) \in Nat
  BY SMTT(40), StrategyAssumption DEF AtrStop, Below, None
<1>2. CASE st = "orb"
  <2>1. EntryStop(st, c) = Most(c.mem.orLow, AtrStop(c))
    BY <1>2, Zenon DEF EntryStop
  <2> QED BY <1>1, <2>1 DEF Most
<1>3. CASE st = "crash"
  <2>1. EntryStop(st, c) = None
    BY <1>3, Zenon DEF EntryStop
  <2> QED BY <2>1 DEF None
<1>4. CASE st \notin {"orb", "crash"}
  <2>1. EntryStop(st, c) = AtrStop(c)
    BY <1>4, Zenon DEF EntryStop
  <2> QED BY <1>1, <2>1
<1> QED BY <1>2, <1>3, <1>4

\* risk_based_qty: no stop, no shares.
LEMMA RiskIsNat ==
  ASSUME NEW entry \in Nat \ {0}, NEW stop \in Nat, NEW risk \in Nat
  PROVE  /\ RiskQty(entry, stop, risk) \in Nat
         /\ RiskQty(entry, stop, risk) > 0 => stop # None
<1>1. CASE stop = None \/ entry <= stop
  BY <1>1 DEF RiskQty
<1>2. CASE ~(stop = None \/ entry <= stop)
  <2> DEFINE ps == 1000 * (entry - stop) + entry * Par.costBuffer
  <2>1. entry - stop \in Nat \ {0} /\ entry * Par.costBuffer \in Nat
    BY SMTT(40), <1>2, StrategyAssumption DEF None
  <2>2. ps \in Nat /\ ps > 0
    BY <2>1
  <2>3. 10 * Equity * risk \in Nat /\ 95 * Equity \in Nat /\ 100 * entry \in Nat /\ 100 * entry > 0
    BY StrategyAssumption
  <2>4. (10 * Equity * risk) \div ps \in Nat /\ (95 * Equity) \div (100 * entry) \in Nat
    <3> HIDE DEF ps
    <3> QED BY <2>2, <2>3, Halves
  <2>5. RiskQty(entry, stop, risk) = Least((10 * Equity * risk) \div ps, (95 * Equity) \div (100 * entry))
    BY <1>2, Zenon DEF RiskQty
  <2> QED
    <3> HIDE DEF ps
    <3> QED BY <1>2, <2>4, <2>5 DEF Least
<1> QED BY <1>1, <1>2

\* Whatever the strategy, an entry that is not a crash entry has a stop.
LEMMA EntryIsNat ==
  ASSUME NEW st \in Strats, NEW c, c.s.close \in Nat \ {0}, c.s.atr \in Nat, c.mem.orLow \in Nat
  PROVE  /\ EntryQty(st, c) \in Nat
         /\ st # "crash" /\ EntryQty(st, c) > 0 => EntryStop(st, c) # None
<1> DEFINE base(risk) == RiskQty(c.s.close, EntryStop(st, c), risk)
<1>1. EntryStop(st, c) \in Nat
  BY StopIsNat
<1>2. \A risk \in Nat : base(risk) \in Nat /\ (base(risk) > 0 => EntryStop(st, c) # None)
  BY <1>1, RiskIsNat
<1>3. Par.risk \in Nat /\ Par.risk * Par.bullMult \in Nat
  BY StrategyAssumption
<1>4. CASE st = "crash"
  <2>1. Equity * Par.alloc \in Nat /\ 100 * c.s.close \in Nat /\ 100 * c.s.close > 0
    <3>1. Equity \in Nat /\ Par.alloc \in Nat
      BY StrategyAssumption
    <3> QED BY <3>1
  <2>2. (Equity * Par.alloc) \div (100 * c.s.close) \in Nat
    BY <2>1, Halves
  <2>3. EntryQty(st, c) = (Equity * Par.alloc) \div (100 * c.s.close)
    BY <1>4, Zenon DEF EntryQty
  <2> QED BY <1>4, <2>2, <2>3
<1>5. CASE st = "pullback"
  <2>1. EntryQty(st, c) = base(IF StrongRegime(c.s) THEN Par.risk * Par.bullMult ELSE Par.risk)
    BY <1>5, Zenon DEF EntryQty
  <2> HIDE DEF base
  <2> QED BY <1>2, <1>3, <2>1, Zenon
<1>6. CASE st = "trend"
  <2>1. EntryQty(st, c) = IF MomentumOk(c.s) /\ VolumeOk(c.s) THEN base(Par.risk)
                          ELSE Most(base(Par.risk) \div 2, Least(base(Par.risk), 1))
    BY <1>6, Zenon DEF EntryQty
  <2> HIDE DEF base
  <2>2. base(Par.risk) \in Nat /\ (base(Par.risk) > 0 => EntryStop(st, c) # None)
    BY <1>2, <1>3
  <2>3. base(Par.risk) \div 2 \in Nat
    BY <2>2, Halves
  <2> QED BY <2>1, <2>2, <2>3 DEF Most, Least
<1>7. CASE st \notin {"crash", "pullback", "trend"}
  <2>1. EntryQty(st, c) = base(Par.risk)
    BY <1>7, Zenon DEF EntryQty
  <2> HIDE DEF base
  <2> QED BY <1>2, <1>3, <2>1
<1> QED BY <1>4, <1>5, <1>6, <1>7


\* What a decision may be, whatever the strategy.
Due(st, c, d) ==
  /\ d \in Decisions /\ d.kind # "none"
  /\ d.kind = "ENTER" => c.lot.st = "WATCHING" /\ (st # "crash" => d.stop # None)
  /\ d.kind \in {"ADD", "TRIM", "EXIT"} => c.lot.st \in {"HOLDING", "SCALING"}
  /\ d.kind = "TRIM" <=> d.rung
  /\ d.kind = "TRIM" => c.lot.rungs < Len(Par.rungs) /\ (c.lot.qty > 0 => d.qty > 0)
  /\ d.kind = "ADD" => c.s.close >= c.lot.avg /\ st = "pullback"

\* A rung that is due sells at least a share.
LEMMA TrimIsNat ==
  ASSUME NEW c, c.lot \in Lots, RungDue(c)
  PROVE  RungQty(c) \in Nat /\ (c.lot.qty > 0 => RungQty(c) > 0)
<1> DEFINE rung == Par.rungs[c.lot.rungs + 1]
           part == (c.lot.orig * rung.num) \div rung.den
<1>1. c.lot.rungs \in Nat /\ c.lot.orig \in Nat /\ c.lot.qty \in Nat
  BY DEF Lots
<1>2. c.lot.rungs + 1 \in 1 .. Len(Par.rungs)
  <2>1. c.lot.rungs < Len(Par.rungs) /\ Len(Par.rungs) \in Nat
    BY StrategyAssumption DEF RungDue
  <2> QED BY <1>1, <2>1
<1>3. rung \in [r : Nat, num : Nat, den : Nat \ {0}]
  <2> DEFINE R == [r : Nat, num : Nat, den : Nat \ {0}]
             q == Par.rungs
  <2>1. q \in Seq(R) /\ c.lot.rungs + 1 \in 1 .. Len(q)
    BY <1>2, StrategyAssumption
  <2> HIDE DEF R, q
  <2>2. q[c.lot.rungs + 1] \in R
    BY <2>1
  <2> QED BY <2>2 DEF R, q
<1>4. part \in Nat
  <2>1. rung.num \in Nat /\ rung.den \in Nat /\ rung.den > 0
    BY <1>3
  <2>2. c.lot.orig * rung.num \in Nat
    BY <1>1, <2>1
  <2> QED BY <2>1, <2>2, Halves
<1>5. RungQty(c) = IF Least(part, c.lot.qty) = 0 THEN c.lot.qty ELSE Least(part, c.lot.qty)
  BY Zenon DEF RungQty
<1> HIDE DEF part
<1> QED BY <1>1, <1>4, <1>5 DEF Least

\* An add is only decided above the average price.
LEMMA AddIsAbove ==
  ASSUME NEW st, NEW c, c.lot \in Lots, c.s.close \in Nat, Adds(st, c)
  PROVE  c.s.close >= c.lot.avg /\ AddQty(c) \in Nat /\ st = "pullback"
<1>1. /\ c.lot.avg \in Nat /\ c.lot.stop \in Nat /\ c.lot.orig \in Nat /\ Par.addR \in Nat
      /\ c.lot.avg > c.lot.stop /\ c.s.close >= c.lot.avg + Par.addR * (c.lot.avg - c.lot.stop)
  BY StrategyAssumption DEF Lots, Adds
<1>2. c.lot.avg - c.lot.stop \in Nat
  BY <1>1
<1>3. Par.addR * (c.lot.avg - c.lot.stop) \in Nat
  BY <1>1, <1>2
<1>4. AddQty(c) \in Nat
  BY <1>1, Halves DEF AddQty
<1>5. st = "pullback"
  BY DEF Adds
<1> QED BY <1>1, <1>3, <1>4, <1>5

\* Every decision of every strategy is due.
LEMMA DecisionIsDue ==
  ASSUME NEW st \in Strats, NEW c, c.lot \in Lots,
         c.s.close \in Nat \ {0}, c.s.atr \in Nat, c.mem.orLow \in Nat
  PROVE  Due(st, c, Decision(st, c))
<1> DEFINE d == Decision(st, c)
<1>1. Due(st, c, Hold) /\ (c.lot.st \in {"HOLDING", "SCALING"} => Due(st, c, ExitAll))
  BY DEF Due, Hold, ExitAll, Decisions, Kinds, None
<1>2. CASE c.lot.st \in {"HOLDING", "SCALING"}
  <2>1. \/ d = ExitAll \/ d = Hold
        \/ RungDue(c) /\ d = TrimRung(RungQty(c))
        \/ Adds(st, c) /\ d = Add(AddQty(c))
    BY <1>2, Zenon DEF Decision
  <2>2. CASE RungDue(c) /\ d = TrimRung(RungQty(c))
    <3>1. RungQty(c) \in Nat /\ (c.lot.qty > 0 => RungQty(c) > 0)
      BY <2>2, TrimIsNat
    <3>2. c.lot.rungs < Len(Par.rungs)
      BY <2>2 DEF RungDue
    <3>3. Due(st, c, TrimRung(RungQty(c)))
      BY <1>2, <3>1, <3>2 DEF Due, TrimRung, Decisions, Kinds, None
    <3> QED BY <2>2, <3>3, Zenon
  <2>3. CASE Adds(st, c) /\ d = Add(AddQty(c))
    <3>1. c.s.close >= c.lot.avg /\ AddQty(c) \in Nat /\ st = "pullback"
      BY <2>3, AddIsAbove
    <3>2. Due(st, c, Add(AddQty(c)))
      BY <1>2, <3>1 DEF Due, Add, Decisions, Kinds, None
    <3> QED BY <2>3, <3>2, Zenon
  <2> QED BY <1>1, <1>2, <2>1, <2>2, <2>3, Zenon
<1>3. CASE c.lot.st = "WATCHING" /\ Enters(st, c) /\ EntryQty(st, c) > 0
  <2>1. d = Enter(EntryQty(st, c), EntryStop(st, c))
    BY <1>3, Zenon DEF Decision
  <2>2. /\ EntryStop(st, c) \in Nat /\ EntryQty(st, c) \in Nat
        /\ st # "crash" => EntryStop(st, c) # None
    BY <1>3, StopIsNat, EntryIsNat
  <2>3. Due(st, c, Enter(EntryQty(st, c), EntryStop(st, c)))
    BY <1>3, <2>2 DEF Due, Enter, Decisions, Kinds, None
  <2> QED BY <2>1, <2>3, Zenon
<1>4. CASE /\ c.lot.st \notin {"HOLDING", "SCALING"}
           /\ ~(c.lot.st = "WATCHING" /\ Enters(st, c) /\ EntryQty(st, c) > 0)
  <2>1. d = Hold
    BY <1>4, Zenon DEF Decision
  <2> QED BY <1>1, <2>1, Zenon
<1> QED BY <1>2, <1>3, <1>4


-----------------------------------------------------------------------------
(* What a strategy object remembers of the opening range stays a price.     *)

\* observe leaves the opening range a price.
LEMMA ObservedMinds ==
  ASSUME NEW st \in Strats, NEW c, Minds(c.mem), c.s.low \in Nat
  PROVE  Minds(Observed(st, c))
<1> DEFINE m == IF c.mem.day = c.day THEN c.mem
                ELSE [NoMem EXCEPT !.day = c.day, !.open = c.s.close, !.adds = c.mem.adds]
<1>1. Minds(m)
  BY DEF Minds, NoMem, None
<1> HIDE DEF m
<1>2. CASE st = "momo"
  <2>1. Observed(st, c) = [m EXCEPT !.rising = IF HasPrev(c) /\ c.s.close > c.prev.close
                                               THEN Least(@ + 1, Par.minRising) ELSE 0]
    BY <1>2, Zenon DEF Observed, m
  <2>2. \A x : Minds([m EXCEPT !.rising = x])
    BY <1>1 DEF Minds
  <2> QED BY <2>1, <2>2, Zenon
<1>3. CASE st = "orb" /\ c.minute \in Par.sessionOpen .. (Par.rangeEnd - 1)
  <2> DEFINE y == IF m.orLow = None THEN c.s.low ELSE Least(m.orLow, c.s.low)
  <2>1. Observed(st, c) = [m EXCEPT !.orHigh = Most(m.orHigh, c.s.high), !.orLow = y]
    BY <1>3, Zenon DEF Observed, m
  <2>2. \A x : \A z \in Nat : Minds([m EXCEPT !.orHigh = x, !.orLow = z])
    BY <1>1 DEF Minds
  <2>3. y \in Nat
    BY <1>1 DEF Minds, Least
  <2> HIDE DEF y
  <2>4. Minds([m EXCEPT !.orHigh = Most(m.orHigh, c.s.high), !.orLow = y])
    BY <2>2, <2>3
  <2> QED BY <2>1, <2>4, Zenon
<1>4. CASE st # "momo" /\ ~(st = "orb" /\ c.minute \in Par.sessionOpen .. (Par.rangeEnd - 1))
  <2>1. Observed(st, c) = m
    BY <1>4, Zenon DEF Observed, m
  <2> QED BY <1>1, <2>1, Zenon
<1> QED BY <1>2, <1>3, <1>4

\* So does what a decision notes.
LEMMA RememberedMinds ==
  ASSUME NEW st \in Strats, NEW c, Minds(c.mem), NEW d, Due(st, c, d)
  PROVE  Minds(Remembered(st, c, d))
<1>1. \A x : /\ Minds([c.mem EXCEPT !.entries = x]) /\ Minds([c.mem EXCEPT !.adds = x])
             /\ Minds([c.mem EXCEPT !.below = x])
  BY DEF Minds
<1> DEFINE enters == d.kind = "ENTER" /\ st \in Intraday
           falls  == /\ st = "momo" /\ c.lot.st \in {"HOLDING", "SCALING"}
                     /\ ~FlatDue(c) /\ ~HardStop(c)
<1>2. CASE enters
  <2>1. d.kind # "ADD" /\ ~falls
    BY <1>2 DEF Due
  <2>2. Remembered(st, c, d) = [c.mem EXCEPT !.entries = c.mem.entries + 1]
    BY <1>2, <2>1, Zenon DEF Remembered
  <2> QED BY <1>1, <2>2, Zenon
<1>3. CASE d.kind = "ADD"
  <2>1. ~enters /\ ~falls
    BY <1>3 DEF Due
  <2>2. Remembered(st, c, d) = [c.mem EXCEPT !.adds = c.mem.adds + 1]
    BY <1>3, <2>1, Zenon DEF Remembered
  <2> QED BY <1>1, <2>2, Zenon
<1>4. CASE ~enters /\ d.kind # "ADD" /\ falls
  <2>1. Remembered(st, c, d) = [c.mem EXCEPT !.below = Least(BelowVwap(c), Par.vwapConfirm)]
    BY <1>4, Zenon DEF Remembered
  <2> QED BY <1>1, <2>1, Zenon
<1>5. CASE ~enters /\ d.kind # "ADD" /\ ~falls
  <2>1. Remembered(st, c, d) = c.mem
    BY <1>5, Zenon DEF Remembered
  <2> QED BY <2>1, Zenon
<1> QED BY <1>2, <1>3, <1>4, <1>5

-----------------------------------------------------------------------------
(* What a bar does to the lot.                                              *)

\* The lot a bar looks at.
Began == IF Spawns THEN NewLot ELSE lot

\* A new lot is a lot.
LEMMA NewIsLot == NewLot \in Lots /\ NoLot \in Lots
BY SMTT(40), StrategyAssumption DEF NewLot, NoLot, Lots, None

\* on_bar moves the peak and the count of bars only.
LEMMA OnBarKeeps ==
  ASSUME lot \in Lots, NEW s, s.high \in Nat
  PROVE  LET o == OnBar(lot, s) IN
         /\ o \in Lots /\ o.st = lot.st /\ o.qty = lot.qty /\ o.avg = lot.avg
         /\ o.stop = lot.stop /\ o.rungs = lot.rungs /\ o.pStop = lot.pStop
<1>1. HeldCap \in Nat
  BY StrategyAssumption DEF HeldCap, Most
<1>2. CASE ~IsOpen(lot)
  BY <1>2 DEF OnBar
<1>3. CASE IsOpen(lot)
  <2> DEFINE h == Least(lot.held + 1, HeldCap)
             p == Most(lot.peak, s.high)
  <2>1. h \in Nat /\ p \in Nat
    BY <1>1 DEF Least, Most, Lots
  <2>2. OnBar(lot, s) = [lot EXCEPT !.held = h, !.peak = p]
    BY <1>3 DEF OnBar
  <2> HIDE DEF h, p
  <2> QED BY <2>1, <2>2 DEF Lots
<1> QED BY <1>2, <1>3

\* evaluate takes a rung, or keeps what an entry intends.
LEMMA EvaluatedKeeps ==
  ASSUME NEW l \in Lots, NEW d \in Decisions, d.rung => d.kind # "ENTER" /\ l.rungs < Len(Par.rungs)
  PROVE  LET e == Evaluated(l, d) IN
         /\ e \in Lots
         /\ e.st = l.st /\ e.qty = l.qty /\ e.avg = l.avg /\ e.stop = l.stop
         /\ e.rungs = IF d.rung THEN l.rungs + 1 ELSE l.rungs
         /\ e.pStop = IF d.kind = "ENTER" /\ d.stop # None THEN d.stop ELSE l.pStop
<1>0. Len(Par.rungs) \in Nat
  BY StrategyAssumption
<1>1. CASE d.kind = "ENTER"
  <2>1. ~d.rung /\ Evaluated(l, d) = [l EXCEPT !.pStop = IF d.stop # None THEN d.stop ELSE @, !.pOrig = d.qty]
    BY <1>1, Zenon DEF Evaluated
  <2> QED BY <1>1, <2>1 DEF Lots, Decisions
<1>2. CASE d.rung
  <2>1. Evaluated(l, d) = [l EXCEPT !.rungs = l.rungs + 1]
    BY <1>2, Zenon DEF Evaluated
  <2>2. l.rungs + 1 \in 0 .. Len(Par.rungs)
    BY <1>0, <1>2 DEF Lots
  <2> QED BY <1>2, <2>1, <2>2 DEF Lots, Decisions
<1>3. CASE ~d.rung /\ d.kind # "ENTER"
  <2>1. Evaluated(l, d) = l
    BY <1>3, Zenon DEF Evaluated
  <2> QED BY <1>3, <2>1
<1> QED BY <1>1, <1>2, <1>3 DEF Decisions


\* What a decision makes of the lot b the bar began with.
Judged(b) ==
  /\ lot' \in Lots /\ main' \in Mains /\ MemOK'
  /\ lot'.st = b.st /\ lot'.qty = b.qty /\ lot'.avg = b.avg /\ lot'.stop = b.stop
  /\ main'.at = "place" =>
       /\ main'.d.kind \in {"ENTER", "ADD", "TRIM", "EXIT"}
       /\ main'.d.kind = "ENTER" => b.st = "WATCHING" /\ (tpl.strat # "crash" => lot'.pStop # None)
       /\ main'.d.kind # "ENTER" => b.st \in {"HOLDING", "SCALING"} /\ lot'.pStop = b.pStop
       /\ lot'.rungs = IF main'.d.kind = "TRIM" THEN b.rungs + 1 ELSE b.rungs
       /\ main'.d.kind = "TRIM" /\ b.qty > 0 => main'.d.qty > 0
       /\ main'.d.kind = "ADD" => main'.px >= b.avg
  /\ main'.at # "place" => lot'.rungs = b.rungs /\ lot'.pStop = b.pStop

\* What a bar leaves of the lot, its strategy object and the decision.
LEMMA DecideEffect ==
  ASSUME TypeOK, NEW s \in Snaps[tpl.strat], Decide(s)
  PROVE  Judged(Began)
<1>1. /\ tpl.strat \in Strats /\ lot \in Lots /\ Minds(mem)
      /\ s.close \in Nat \ {0} /\ s.high \in Nat /\ s.low \in Nat /\ s.atr \in Nat
  BY LotAssumption DEF TypeOK, MemOK
<1> DEFINE old == IF Spawns THEN NewLot ELSE OnBar(lot, s)
           c0  == [s |-> s, prev |-> prev, lot |-> old, day |-> day, minute |-> minute',
                   mem |-> IF Spawns THEN NoMem ELSE mem]
           c   == [c0 EXCEPT !.mem = Observed(tpl.strat, c0)]
           d   == Decision(tpl.strat, c)
           cold == s.n < Warmup(tpl.strat) \/ old.st = "none"
<1>2. /\ old \in Lots /\ old.st = Began.st /\ old.qty = Began.qty /\ old.avg = Began.avg
      /\ old.stop = Began.stop /\ old.rungs = Began.rungs /\ old.pStop = Began.pStop
  BY <1>1, OnBarKeeps, NewIsLot DEF Began
<1> HIDE DEF old
<1>3. c0.s = s /\ c0.lot = old /\ c0.mem = IF Spawns THEN NoMem ELSE mem
  OBVIOUS
<1>4. Minds(c0.mem)
  BY <1>1, <1>3 DEF Minds, NoMem, None
<1>5. Minds(Observed(tpl.strat, c0))
  BY <1>1, <1>3, <1>4, ObservedMinds
<1>6. c.s = s /\ c.lot = old /\ c.mem = Observed(tpl.strat, c0)
  OBVIOUS
<1>7. \/ /\ cold /\ lot' = old /\ mem' = c0.mem
         /\ main' = IF old.st = "none" THEN Idle ELSE [Idle EXCEPT !.at = "sync"]
      \/ /\ ~cold /\ lot' = Evaluated(old, d) /\ mem' = Remembered(tpl.strat, c, d)
         /\ main' = [at |-> IF d.kind = "HOLD" THEN "sync" ELSE "place", d |-> d, px |-> s.close]
  BY Zenon DEF Decide, old
<1> HIDE DEF c0, c, cold
<1>8. Due(tpl.strat, c, d)
  BY <1>1, <1>2, <1>5, <1>6, DecisionIsDue DEF Minds
<1> HIDE DEF d
<1>9. CASE cold /\ lot' = old /\ mem' = c0.mem
           /\ main' = IF old.st = "none" THEN Idle ELSE [Idle EXCEPT !.at = "sync"]
  <2>1. main' \in Mains /\ main'.at # "place"
    BY <1>9 DEF Mains, Idle, Hold, Decisions, Kinds, None
  <2> QED BY <1>2, <1>4, <1>9, <2>1 DEF Judged, MemOK
<1>10. CASE ~cold /\ lot' = Evaluated(old, d) /\ mem' = Remembered(tpl.strat, c, d)
            /\ main' = [at |-> IF d.kind = "HOLD" THEN "sync" ELSE "place", d |-> d, px |-> s.close]
  <2>1. /\ d \in Decisions /\ d.kind \in {"HOLD", "ENTER", "ADD", "TRIM", "EXIT"}
        /\ d.kind = "ENTER" => old.st = "WATCHING" /\ (tpl.strat # "crash" => d.stop # None)
        /\ d.kind \in {"ADD", "TRIM", "EXIT"} => old.st \in {"HOLDING", "SCALING"}
        /\ d.kind = "TRIM" <=> d.rung
        /\ d.kind = "TRIM" => old.rungs < Len(Par.rungs) /\ (old.qty > 0 => d.qty > 0)
        /\ d.kind = "ADD" => s.close >= old.avg
    BY <1>6, <1>8 DEF Due, Decisions, Kinds
  <2>2. /\ main' \in Mains /\ main'.d = d /\ main'.px = s.close
        /\ main'.at = IF d.kind = "HOLD" THEN "sync" ELSE "place"
    BY <1>1, <1>10, <2>1 DEF Mains
  <2>3. /\ lot' \in Lots
        /\ lot'.st = old.st /\ lot'.qty = old.qty /\ lot'.avg = old.avg /\ lot'.stop = old.stop
        /\ lot'.rungs = IF d.rung THEN old.rungs + 1 ELSE old.rungs
        /\ lot'.pStop = IF d.kind = "ENTER" /\ d.stop # None THEN d.stop ELSE old.pStop
    BY <1>2, <1>10, <2>1, EvaluatedKeeps
  <2>4. MemOK'
    BY <1>1, <1>5, <1>6, <1>8, <1>10, RememberedMinds DEF MemOK
  <2> QED BY <1>2, <2>1, <2>2, <2>3, <2>4 DEF Judged
<1> QED BY <1>7, <1>9, <1>10


-----------------------------------------------------------------------------
(* The average lies between the price before and the price paid.            *)

\* The quotient, and how it compares with a natural.
LEMMA DivIs == \A x, k \in Nat : k > 0 => x \div k \in Nat /\ (x \div k) * k <= x /\ x < (x \div k + 1) * k
BY SMT

LEMMA Quot ==
  ASSUME NEW x \in Nat, NEW k \in Nat, k > 0, NEW a \in Nat
  PROVE  (x >= a * k => x \div k >= a) /\ (x <= a * k => x \div k <= a)
<1> DEFINE d == x \div k
<1>1. d \in Nat /\ d * k <= x /\ x < (d + 1) * k
  BY DivIs
<1> HIDE DEF d
<1>2. \A u, v \in Nat : u < v => (u + 1) * k <= v * k
  <2> TAKE u \in Nat, v \in Nat
  <2> HAVE u < v
  <2>1. PICK w \in Nat : v = u + 1 + w
    <3>1. v - u - 1 \in Nat /\ v = u + 1 + (v - u - 1)
      OBVIOUS
    <3> QED BY <3>1
  <2>2. v * k = (u + 1) * k + w * k /\ w * k \in Nat
    BY <2>1
  <2> QED BY <2>1, <2>2
<1>3. x >= a * k => d >= a
  <2> SUFFICES ASSUME x >= a * k, d < a PROVE FALSE
    BY <1>1
  <2>1. (d + 1) * k <= a * k
    BY <1>1, <1>2
  <2> QED BY <1>1, <2>1
<1>4. x <= a * k => d <= a
  <2> SUFFICES ASSUME x <= a * k, a < d PROVE FALSE
    BY <1>1
  <2>1. (a + 1) * k <= d * k
    BY <1>1, <1>2
  <2>2. (a + 1) * k = a * k + k
    OBVIOUS
  <2> QED BY <1>1, <2>1, <2>2
<1> QED BY <1>3, <1>4 DEF d

\* _weighted_avg lies between the average before and a higher price paid.
LEMMA AvgBetween ==
  ASSUME NEW a \in Nat, NEW n \in Nat, NEW p \in Nat, NEW q \in Nat, q > 0
  PROVE  /\ AvgOf(a, n, p, q) \in Nat
         /\ n = 0 => AvgOf(a, n, p, q) = p
         /\ a <= p => a <= AvgOf(a, n, p, q) /\ AvgOf(a, n, p, q) <= p
<1> DEFINE x == a * n + p * q
           k == n + q
<1>1. x \in Nat /\ k \in Nat /\ k > 0
  OBVIOUS
<1>2. x \div k \in Nat
  BY <1>1, DivIs
<1>3. n = 0 => x = p * k
  OBVIOUS
<1>4. a <= p => a * k <= x /\ x <= p * k
  <2> SUFFICES ASSUME a <= p PROVE a * k <= x /\ x <= p * k
    OBVIOUS
  <2>1. PICK w \in Nat : p = a + w
    <3>1. p - a \in Nat /\ p = a + (p - a)
      OBVIOUS
    <3> QED BY <3>1
  <2>2. p * q = a * q + w * q /\ p * k = a * k + w * k /\ w * q \in Nat /\ w * k \in Nat
    BY <2>1
  <2>3. a * k = a * n + a * q /\ w * k = w * n + w * q /\ w * n \in Nat
    OBVIOUS
  <2> QED BY <2>2, <2>3
<1> HIDE DEF x, k
<1>5. n = 0 => x \div k <= p /\ x \div k >= p
  BY <1>1, <1>3, Quot
<1>6. a <= p => x \div k <= p /\ x \div k >= a
  BY <1>1, <1>4, Quot
<1>7. AvgOf(a, n, p, q) = x \div k
  BY DEF AvgOf, x, k
<1> QED BY <1>2, <1>5, <1>6, <1>7

\* The first shares set the average.
LEMMA AvgAlone == \A a, p, q \in Nat : q > 0 => AvgOf(a, 0, p, q) = p
<1> TAKE a \in Nat, p \in Nat, q \in Nat
<1> HAVE q > 0
<1>1. 0 \in Nat
  OBVIOUS
<1> QED BY <1>1, AvgBetween

-----------------------------------------------------------------------------
(* The fields of the state, and the invariant action by action.             *)

\* The types of the fields, named once.
LEMMA Fields ==
  ASSUME TypeOK
  PROVE  /\ lot.qty \in Nat /\ lot.avg \in Nat /\ lot.stop \in Nat /\ lot.rungs \in 0 .. Len(Par.rungs)
         /\ lot.rungs \in Nat /\ Len(Par.rungs) \in Nat
         /\ row.qty \in Nat /\ row.avg \in Nat /\ row.rungs \in Nat
         /\ lot.st \in {"none", "WATCHING", "HOLDING", "SCALING", "CLOSED"}
         /\ row.st \in {"none", "WATCHING", "HOLDING", "CLOSED", "CANCELLED"}
         /\ buy.left \in Nat /\ sale.left \in Nat /\ rec.left \in Nat
         /\ buy.px \in Nat /\ sale.px \in Nat /\ rec.px \in Nat /\ main.px \in Nat
         /\ buy.kind \in Kinds /\ sale.kind \in Kinds /\ rec.kind \in Kinds
         /\ main.at \in {"idle", "place", "sync"} /\ main.d \in Decisions
         /\ hist.trims \in Nat /\ hist.buys \in Nat /\ hist.torn \in BOOLEAN /\ hist.late \in BOOLEAN
         /\ joined \in Nat /\ day \in Nat \ {0} /\ crashes \in Nat
         /\ tpl.strat \in Strats /\ tpl.scan \in BOOLEAN /\ tpl.on \in BOOLEAN
<1>1. Len(Par.rungs) \in Nat /\ \A st \in Strats : MaxDay[st] \in Nat
  BY StrategyAssumption, LotAssumption
<1>2. /\ lot.qty \in Nat /\ lot.avg \in Nat /\ lot.stop \in Nat /\ lot.rungs \in 0 .. Len(Par.rungs)
      /\ lot.st \in {"none", "WATCHING", "HOLDING", "SCALING", "CLOSED"}
  BY DEF TypeOK, Lots
<1>3. /\ row.qty \in Nat /\ row.avg \in Nat /\ row.rungs \in 0 .. Len(Par.rungs)
      /\ row.st \in {"none", "WATCHING", "HOLDING", "CLOSED", "CANCELLED"}
  BY DEF TypeOK, Rows
<1>4. /\ buy.left \in Nat /\ sale.left \in Nat /\ rec.left \in Nat
      /\ buy.px \in Nat /\ sale.px \in Nat /\ rec.px \in Nat
      /\ buy.kind \in Kinds /\ sale.kind \in Kinds /\ rec.kind \in Kinds
  BY DEF TypeOK, Orders
<1>5. main.px \in Nat /\ main.at \in {"idle", "place", "sync"} /\ main.d \in Decisions
  BY DEF TypeOK, Mains
<1>6. hist.trims \in Nat /\ hist.buys \in Nat /\ hist.torn \in BOOLEAN /\ hist.late \in BOOLEAN
  BY DEF TypeOK, Hists
<1>7. /\ joined \in Nat /\ day \in Nat \ {0} /\ crashes \in Nat
      /\ tpl.strat \in Strats /\ tpl.scan \in BOOLEAN /\ tpl.on \in BOOLEAN
  BY <1>1, LotAssumption DEF TypeOK
<1>8. lot.rungs \in Nat /\ row.rungs \in Nat
  BY <1>1, <1>2, <1>3
<1> QED BY <1>1, <1>2, <1>3, <1>4, <1>5, <1>6, <1>7, <1>8

\* The scanner adds the ticker: there is no lot yet.
LEMMA JoinKeeps ==
  ASSUME IInv, Join
  PROVE  IInv'
<1>1. /\ tpl' \in [strat : Strats, scan : BOOLEAN, on : BOOLEAN]
      /\ tpl'.strat = tpl.strat /\ tpl'.scan /\ tpl'.on /\ ~tpl.on
      /\ joined' = 0 /\ up
  BY DEF IInv, TypeOK, Join
<1>2. /\ hist' \in Hists /\ hist'.trims = hist.trims /\ hist'.torn = hist.torn
      /\ hist'.late = hist.late
  BY DEF IInv, TypeOK, Join, Hists
<1>3. UNCHANGED <<lot, mem, row, day, minute, buy, sale, rec, main, up, crashes>>
  BY DEF Join
<1>4. TypeOK'
  BY <1>1, <1>2, <1>3, Fields DEF IInv, TypeOK, MemOK
<1>5. OrdersOK' /\ DownOK' /\ MainOK' /\ RowOK' /\ LotOK' /\ BookOK'
  BY <1>1, <1>2, <1>3 DEF IInv, OrdersOK, DownOK, MainOK, RowOK, LotOK, BookOK, Placing, Entered,
                          Working, IsOpen
<1>6. RungsOK' /\ StopsOK' /\ AddsOK'
  BY <1>1, <1>2, <1>3 DEF IInv, RungsOK, StopsOK, AddsOK, Placing, Entered, Working, Adding
<1>7. DayOK'
  <2>1. ~(crashes = 0 /\ tpl.scan /\ Placing /\ main.d.kind = "ENTER")
    BY <1>1, Fields DEF IInv, DayOK, Placing, Join
  <2> QED BY <1>1, <1>3, <2>1, Fields DEF IInv, DayOK, Placing, Join
<1> QED BY <1>4, <1>5, <1>6, <1>7 DEF IInv

\* A pick that did not enter is retired: it has neither orders nor shares.
LEMMA ExpireKeeps ==
  ASSUME IInv, NEW s \in Snaps[tpl.strat], NEW m \in 0 .. LastMinute,
         up, main.at = "idle", minute' = m, prev' = s, ExpireScanLot(s),
         UNCHANGED <<day, buy, sale, rec, up, crashes>>
  PROVE  IInv'
<1>1. /\ tpl.scan /\ tpl.on /\ joined \notin {0, day} /\ lot.st = "WATCHING"
      /\ row' = [row EXCEPT !.st = "CANCELLED"] /\ lot' = NoLot
      /\ tpl' = [tpl EXCEPT !.on = FALSE] /\ joined' = 0 /\ UNCHANGED <<mem, main, hist>>
  BY Fields DEF IInv, ExpireScanLot, ScanExpires
<1>2. /\ tpl' \in [strat : Strats, scan : BOOLEAN, on : BOOLEAN]
      /\ tpl'.strat = tpl.strat /\ tpl'.scan = tpl.scan /\ ~tpl'.on
  BY <1>1 DEF IInv, TypeOK
<1>3. row' \in Rows /\ row'.st = "CANCELLED"
  BY <1>1 DEF IInv, TypeOK, Rows
<1>4. lot' \in Lots /\ lot'.st = "none" /\ lot'.qty = 0
  BY <1>1, NewIsLot DEF NoLot
<1>5. ~Working /\ rec.left = 0 /\ ~Placing
  BY <1>1, Fields DEF IInv, DayOK, LotOK, Working
<1>6. TypeOK'
  BY <1>1, <1>2, <1>3, <1>4, Fields DEF IInv, TypeOK, MemOK
<1>7. OrdersOK' /\ DownOK' /\ MainOK' /\ RowOK' /\ LotOK' /\ BookOK'
  BY <1>1, <1>3, <1>4, <1>5 DEF IInv, OrdersOK, DownOK, MainOK, RowOK, LotOK, BookOK, Placing, Entered,
                          Working, IsOpen, OpenSt
<1>8. RungsOK' /\ StopsOK' /\ DayOK'
  BY <1>1, <1>2, <1>3, <1>4, <1>5, Fields
     DEF IInv, RungsOK, StopsOK, DayOK, Placing, Entered, Working
<1>9. AddsOK'
  BY SMTT(40), <1>1, <1>4, <1>5, Fields DEF IInv, OrdersOK, AddsOK, Placing, Working, Adding
<1> QED BY <1>6, <1>7, <1>8, <1>9 DEF IInv


\* What a bar does besides, to the template, the day of joining, the row and the history.
Around ==
  /\ tpl' \in [strat : Strats, scan : BOOLEAN, on : BOOLEAN]
  /\ tpl'.strat = tpl.strat /\ tpl'.scan = tpl.scan
  /\ tpl'.on <=> tpl.on /\ ~ScanEnds
  /\ joined' = IF tpl.scan /\ tpl.on /\ ~ScanEnds THEN (IF joined = 0 THEN day ELSE joined) ELSE 0
  /\ row' \in Rows /\ hist' \in Hists
  /\ Spawns => /\ row'.st = "WATCHING" /\ row'.qty = 0 /\ row'.avg = 0
               /\ hist'.trims = 0 /\ hist'.late = FALSE /\ hist'.torn = FALSE
               /\ buy.left = 0 /\ sale.left = 0 /\ rec.left = 0
  /\ ~Spawns => /\ row' = row /\ hist'.trims = hist.trims /\ hist'.late = hist.late
                /\ hist'.torn = hist.torn

\* What a bar does to the rest of the state.
LEMMA DecideAround ==
  ASSUME IInv, NEW s \in Snaps[tpl.strat], Decide(s)
  PROVE  Around
<1>1. /\ tpl' = [tpl EXCEPT !.on = @ /\ ~ScanEnds]
      /\ joined' = IF tpl.scan /\ tpl.on /\ ~ScanEnds THEN (IF joined = 0 THEN day ELSE joined) ELSE 0
      /\ row' = IF Spawns THEN [NoRow EXCEPT !.st = "WATCHING"] ELSE row
      /\ hist' = IF Spawns THEN [NoHist EXCEPT !.spawned = hist.spawned + 1, !.joins = hist.joins]
                 ELSE [hist EXCEPT !.held = IF IsOpen(lot) THEN Least(@ + 1, HeldCap) ELSE @]
      /\ Spawns => buy.left + sale.left + rec.left = 0
  BY Zenon DEF Decide
<1>2. /\ tpl' \in [strat : Strats, scan : BOOLEAN, on : BOOLEAN]
      /\ tpl'.strat = tpl.strat /\ tpl'.scan = tpl.scan
      /\ tpl'.on <=> tpl.on /\ ~ScanEnds
  <2> DEFINE x == tpl.on /\ ~ScanEnds
  <2>1. x \in BOOLEAN /\ tpl' = [tpl EXCEPT !.on = x] /\ tpl \in [strat : Strats, scan : BOOLEAN, on : BOOLEAN]
    BY <1>1, Zenon DEF IInv, TypeOK
  <2> HIDE DEF x
  <2>2. /\ tpl' \in [strat : Strats, scan : BOOLEAN, on : BOOLEAN]
        /\ tpl'.strat = tpl.strat /\ tpl'.scan = tpl.scan /\ tpl'.on = x
    BY <2>1
  <2> QED BY <2>2 DEF x
<1>3. CASE Spawns
  <2>1. /\ row' \in Rows /\ row'.st = "WATCHING" /\ row'.qty = 0 /\ row'.avg = 0
    <3>1. 0 \in 0 .. Len(Par.rungs)
      BY Fields DEF IInv
    <3> QED BY <1>1, <1>3, <3>1 DEF NoRow, Rows, None
  <2>2. hist' \in Hists /\ hist'.trims = 0 /\ hist'.late = FALSE /\ hist'.torn = FALSE
    <3>1. /\ NoHist \in Hists /\ NoHist.trims = 0 /\ NoHist.late = FALSE /\ NoHist.torn = FALSE
      BY DEF NoHist, Hists
    <3>2. hist.spawned + 1 \in Nat /\ hist.joins \in Nat
      BY DEF IInv, TypeOK, Hists
    <3>3. hist' = [NoHist EXCEPT !.spawned = hist.spawned + 1, !.joins = hist.joins]
      BY <1>1, <1>3, Zenon
    <3>4. \A a, b \in Nat : LET h == [NoHist EXCEPT !.spawned = a, !.joins = b] IN
            h \in Hists /\ h.trims = NoHist.trims /\ h.late = NoHist.late /\ h.torn = NoHist.torn
      BY <3>1 DEF Hists
    <3> QED BY <3>1, <3>2, <3>3, <3>4, Zenon
  <2>3. buy.left = 0 /\ sale.left = 0 /\ rec.left = 0
    BY SMTT(40), <1>1, <1>3, Fields DEF IInv
  <2> QED BY <1>1, <1>2, <1>3, <2>1, <2>2, <2>3 DEF Around
<1>4. CASE ~Spawns
  <2>1. row' = row /\ row \in Rows
    BY <1>1, <1>4 DEF IInv, TypeOK
  <2>2. /\ hist' \in Hists /\ hist'.trims = hist.trims /\ hist'.late = hist.late
        /\ hist'.torn = hist.torn
    <3> DEFINE x == IF IsOpen(lot) THEN Least(hist.held + 1, HeldCap) ELSE hist.held
    <3>1. x \in Nat /\ hist \in Hists
      BY SMTT(40), StrategyAssumption DEF Least, HeldCap, Most, IInv, TypeOK, Hists
    <3>2. hist' = [hist EXCEPT !.held = x]
      BY <1>1, <1>4, Zenon
    <3> HIDE DEF x
    <3> QED BY <3>1, <3>2 DEF Hists
  <2> QED BY <1>1, <1>2, <1>4, <2>1, <2>2 DEF Around
<1> QED BY <1>3, <1>4

\* A bar that is decided.
LEMMA DecideKeeps ==
  ASSUME IInv, NEW s \in Snaps[tpl.strat], NEW m \in 0 .. LastMinute,
         up, main.at = "idle", minute' = m, prev' = s, Decide(s),
         UNCHANGED <<day, buy, sale, rec, up, crashes>>
  PROVE  IInv'
<1>1. Judged(Began) /\ Around
  BY DecideEffect, DecideAround DEF IInv
<1>2. ~Placing /\ lot.st \in {"none", "WATCHING", "HOLDING", "SCALING", "CLOSED"}
  BY Fields DEF IInv, Placing
<1>3. (Spawns => tpl.on /\ ~ScanEnds /\ lot.st \in {"none", "CLOSED"}) /\ ~ScanExpires
  BY <1>2 DEF Spawns, IsTerminal, EndSt, Decide
<1>4. TypeOK'
  BY <1>1, Fields DEF IInv, TypeOK, Around, Judged, MemOK
<1>5. CASE Spawns
  <2>1. /\ Began.st = "WATCHING" /\ Began.qty = 0 /\ Began.avg = 0 /\ Began.rungs = 0
        /\ Began.stop = None /\ Began.pStop = None
    BY <1>5 DEF Began, NewLot, NoLot
  <2>2. /\ lot'.st = "WATCHING" /\ lot'.qty = 0 /\ lot'.avg = 0 /\ lot'.rungs = 0
        /\ Placing' => main'.d.kind = "ENTER" /\ (tpl.strat # "crash" => lot'.pStop # None)
    BY <1>1, <2>1 DEF Judged, Placing
  <2>3. /\ row'.st = "WATCHING" /\ row'.qty = 0 /\ row'.avg = 0
        /\ hist'.trims = 0 /\ buy'.left = 0 /\ sale'.left = 0 /\ rec'.left = 0
        /\ rec'.kind = "none" /\ buy'.kind = buy.kind /\ up'
    BY <1>1, <1>5 DEF Around, IInv, OrdersOK
  <2>4. OrdersOK' /\ DownOK' /\ MainOK' /\ RowOK' /\ LotOK' /\ BookOK'
    BY <2>2, <2>3 DEF OrdersOK, DownOK, MainOK, RowOK, LotOK, BookOK, Placing, Entered, Working,
                      IsOpen, OpenSt, Bought, Sold
  <2>5. RungsOK' /\ AddsOK'
    BY <2>2, <2>3 DEF RungsOK, AddsOK, Placing, Adding, Bought
  <2>6. StopsOK'
    BY <1>1, <2>2, <2>3 DEF StopsOK, Placing, Entered, Around
  <2>7. DayOK'
    <3>1. tpl.scan => lot.st = "none"
      <4>1. tpl.scan => ~IsTerminal(lot)
        BY <1>3, <1>5, Zenon DEF ScanEnds
      <4> QED BY <1>3, <1>5, <4>1, Zenon DEF IsTerminal, EndSt
    <3>2. tpl.scan => joined' = day /\ joined = 0
      <4>1. lot.st = "none" => joined = 0
        BY DEF IInv, DayOK
      <4>2. tpl.scan => joined' = IF joined = 0 THEN day ELSE joined
        BY <1>1, <1>3, <1>5, Zenon DEF Around
      <4> QED BY <3>1, <4>1, <4>2
    <3> QED BY <1>1, <1>3, <2>2, <3>2, Fields DEF DayOK, Around, IInv, Placing
  <2> QED BY <1>4, <2>4, <2>5, <2>6, <2>7 DEF IInv
<1>6. CASE ~Spawns
  <2>1. Began = lot
    BY <1>6 DEF Began
  <2>2. /\ lot'.st = lot.st /\ lot'.qty = lot.qty /\ lot'.avg = lot.avg /\ lot'.stop = lot.stop
        /\ row' = row /\ hist'.trims = hist.trims /\ hist'.late = hist.late /\ hist'.torn = hist.torn
        /\ tpl'.strat = tpl.strat /\ up'
    BY <1>1, <1>6, <2>1 DEF Judged, Around
  <2>3. Placing' => 
       /\ main'.d.kind \in {"ENTER", "ADD", "TRIM", "EXIT"}
       /\ main'.d.kind = "ENTER" => lot.st = "WATCHING" /\ (tpl.strat # "crash" => lot'.pStop # None)
       /\ main'.d.kind # "ENTER" => lot.st \in {"HOLDING", "SCALING"} /\ lot'.pStop = lot.pStop
       /\ lot'.rungs = IF main'.d.kind = "TRIM" THEN lot.rungs + 1 ELSE lot.rungs
       /\ main'.d.kind = "TRIM" /\ lot.qty > 0 => main'.d.qty > 0
       /\ main'.d.kind = "ADD" => main'.px >= lot.avg
    BY <1>1, <2>1 DEF Judged, Placing
  <2>4. ~Placing' => lot'.rungs = lot.rungs /\ lot'.pStop = lot.pStop
    BY <1>1, <2>1 DEF Judged, Placing
  <2>5. OrdersOK' /\ DownOK' /\ RowOK' /\ BookOK'
    BY <2>2 DEF IInv, OrdersOK, DownOK, RowOK, BookOK, Working
  <2>6. MainOK'
    <3>1. lot.st \in {"HOLDING", "SCALING"} => lot.qty > 0
      BY DEF IInv, LotOK, IsOpen, OpenSt
    <3>2. lot.rungs \in Nat
      BY Fields DEF IInv
    <3>3. ASSUME Placing' PROVE main'.d.kind = "TRIM" => lot'.rungs > 0 /\ main'.d.qty > 0
      BY <2>3, <3>1, <3>2, <3>3
    <3> QED BY <2>2, <2>3, <3>3 DEF MainOK, Entered
  <2>7. LotOK'
    <3>1. lot.st = "none" => lot' = NoLot
      <4> SUFFICES ASSUME lot.st = "none" PROVE lot' = NoLot
        OBVIOUS
      <4>1. lot = NoLot
        BY DEF IInv, LotOK
      <4>2. OnBar(lot, s) = lot
        BY DEF OnBar, IsOpen, OpenSt
      <4> QED BY <1>6, <4>1, <4>2, Zenon DEF Decide
    <3> QED BY <1>2, <2>2, <3>1 DEF IInv, LotOK, Entered, IsOpen, OpenSt, Working
  <2>8. RungsOK'
    <3>1. ~hist.torn /\ lot.st # "none" => hist.trims <= lot.rungs
      BY <1>2, Fields DEF IInv, RungsOK
    <3>2. lot.rungs \in Nat /\ hist.trims \in Nat
      BY Fields DEF IInv
    <3>3. CASE Placing' /\ main'.d.kind = "TRIM"
      <4>1. lot'.rungs = lot.rungs + 1
        BY <2>3, <3>3
      <4> QED BY <2>2, <3>1, <3>2, <3>3, <4>1 DEF RungsOK
    <3>4. CASE ~(Placing' /\ main'.d.kind = "TRIM")
      <4>1. lot'.rungs = lot.rungs
        BY <2>3, <2>4, <3>4
      <4> QED BY <2>2, <3>1, <3>2, <3>4, <4>1 DEF RungsOK
    <3> QED BY <3>3, <3>4
  <2>9. StopsOK'
    BY <1>2, <2>2, <2>3, <2>4, Fields DEF IInv, StopsOK, Placing, Entered, Working
  <2>10. AddsOK'
    BY <1>2, <2>2, <2>3, Fields DEF IInv, AddsOK, Placing, Adding
  <2>11. DayOK'
    <3>1. /\ tpl'.scan = tpl.scan /\ (tpl'.on <=> tpl.on /\ ~ScanEnds)
          /\ joined' = IF tpl.scan /\ tpl.on /\ ~ScanEnds THEN (IF joined = 0 THEN day ELSE joined) ELSE 0
      BY <1>1 DEF Around
    <3>2. lot.st = "WATCHING" => lot.qty = 0 /\ ~ScanEnds
      BY DEF IInv, LotOK, ScanEnds, IsTerminal, EndSt
    <3>3. lot.st = "WATCHING" /\ tpl.scan => joined' \in {0, day} /\ (tpl.on => joined' = day)
      BY <1>3, <3>1, <3>2, Fields DEF IInv, TypeOK, ScanExpires
    <3>4. lot.st = "none" => joined' = 0
      BY <1>6, <3>1, Fields DEF IInv, Spawns
    <3>5. crashes = 0 /\ tpl.scan /\ lot.st = "WATCHING" => tpl.on /\ tpl'.on
      BY <3>1, <3>2 DEF IInv, DayOK
    <3> QED BY <2>2, <2>3, <3>1, <3>2, <3>3, <3>4, <3>5, Fields DEF DayOK, Placing, IInv
  <2> QED BY <1>4, <2>5, <2>6, <2>7, <2>8, <2>9, <2>10, <2>11 DEF IInv
<1> QED BY <1>5, <1>6


-----------------------------------------------------------------------------
(* Placing what was decided.                                                *)

\* What placing may do: an order of the decided kind is sent or not, a rung is
\* given back or its trim goes out, and the bar is no longer being placed.
Placed ==
  /\ ~Placing' /\ main' \in Mains /\ lot' \in Lots /\ buy' \in Orders /\ sale' \in Orders /\ hist' \in Hists
  /\ lot'.st = lot.st /\ lot'.qty = lot.qty /\ lot'.avg = lot.avg /\ lot'.stop = lot.stop
  /\ lot'.pStop = lot.pStop /\ hist'.torn = hist.torn
  /\ \/ buy' = buy \/ buy'.left = 0
     \/ /\ main.d.kind \in Bought /\ buy.left = 0 /\ buy'.kind = main.d.kind /\ buy'.px = main.px
        /\ main.d.kind = "ADD" /\ rec.kind \in Bought => hist'.late
  /\ \/ sale' = sale \/ sale'.left = 0
     \/ main.d.kind \in Sold /\ sale'.kind \in Sold
  /\ hist.late => hist'.late
  /\ \/ lot'.rungs = lot.rungs /\ hist'.trims = hist.trims
     \/ /\ main.d.kind = "TRIM"
        /\ \/ lot'.rungs = lot.rungs - 1 /\ hist'.trims = hist.trims
           \/ lot'.rungs = lot.rungs /\ hist'.trims = hist.trims + 1

\* The orders that go out, and no order.
LEMMA NewOrder ==
  ASSUME NEW k \in Kinds, NEW q \in Nat, TypeOK
  PROVE  Order(k, q) \in Orders /\ Order(k, q).left = q /\ Order(k, q).kind = k /\ Order(k, q).px = main.px
BY Fields DEF Order, Orders

LEMMA NoOrderIs == NoOrder \in Orders /\ NoOrder.left = 0 /\ NoOrder.kind = "none"
BY DEF NoOrder, Orders, Kinds

\* The bar goes on to its sync or is given up.
LEMMA AfterPlacing ==
  ASSUME TypeOK, Accepted \/ NoAnswer
  PROVE  main' \in Mains /\ ~Placing'
<1>1. CASE Accepted
  BY <1>1 DEF Accepted, TypeOK, Mains, Placing
<1>2. CASE NoAnswer
  BY <1>2 DEF NoAnswer, Idle, Hold, Mains, Decisions, Kinds, None, Placing
<1> QED BY <1>1, <1>2

\* rebase_entry_qty changes the ladder's basis and nothing else.
LEMMA RebasedKeeps ==
  ASSUME TypeOK
  PROVE  /\ CutQty \in Nat /\ Rebased \in Lots
         /\ Rebased.st = lot.st /\ Rebased.qty = lot.qty /\ Rebased.avg = lot.avg /\ Rebased.stop = lot.stop
         /\ Rebased.pStop = lot.pStop /\ Rebased.rungs = lot.rungs
<1>1. CutQty \in Nat
  <2>1. main.d.qty \in Nat /\ MaxOrder \in Nat
    BY LotAssumption, Fields DEF Decisions
  <2> QED BY <2>1 DEF CutQty, Least
<1>2. lot \in Lots
  BY DEF TypeOK
<1>3. Rebased = [lot EXCEPT !.pOrig = CutQty] \/ Rebased = lot
  BY Zenon DEF Rebased
<1>4. CASE Rebased = [lot EXCEPT !.pOrig = CutQty]
  BY <1>1, <1>2, <1>4 DEF Lots
<1>5. CASE Rebased = lot
  BY <1>1, <1>2, <1>5
<1> QED BY <1>3, <1>4, <1>5

\* What is noted of a buy that is sent.
LEMMA HistTakes ==
  ASSUME hist \in Hists, NEW x \in BOOLEAN, NEW b \in Nat,
         hist' = [hist EXCEPT !.buys = b, !.late = x]
  PROVE  /\ hist' \in Hists /\ hist'.torn = hist.torn /\ hist'.trims = hist.trims
         /\ hist'.late = x /\ hist'.buys = b
<1>1. hist' \in Hists
  BY DEF Hists
<1>2. hist'.torn = hist.torn /\ hist'.trims = hist.trims
  BY DEF Hists
<1>3. hist'.late = x
  BY DEF Hists
<1>4. hist'.buys = b
  BY DEF Hists
<1> QED BY <1>1, <1>2, <1>3, <1>4

LEMMA HistOrders ==
  ASSUME hist \in Hists, NEW q \in Nat, NEW b \in Nat,
         hist' = [hist EXCEPT !.buys = b, !.ordered = q]
  PROVE  /\ hist' \in Hists /\ hist'.torn = hist.torn /\ hist'.trims = hist.trims
         /\ hist'.late = hist.late /\ hist'.buys = b
<1>1. hist' \in Hists
  BY DEF Hists
<1>2. /\ hist'.torn = hist.torn /\ hist'.trims = hist.trims
      /\ hist'.late = hist.late /\ hist'.buys = b
  BY DEF Hists
<1> QED BY <1>1, <1>2

\* _handle_intent, all its outcomes at once.
LEMMA PlaceEffect ==
  ASSUME TypeOK, MainOK, Place
  PROVE  Placed
<1>1. /\ Placing /\ lot \in Lots /\ buy \in Orders /\ sale \in Orders /\ hist \in Hists
      /\ main.d.qty \in Nat
  BY Fields DEF TypeOK, Place, Placing, Decisions
<1>2. CASE SkipEntry
  <2>1. main' \in Mains /\ ~Placing'
    BY <1>2, AfterPlacing DEF SkipEntry, Accepted
  <2> QED BY <1>1, <1>2, <2>1 DEF SkipEntry, Placed
<1>3. CASE PlaceEntry
  <2>1. /\ main' \in Mains /\ ~Placing' /\ buy' = Order(main.d.kind, CutQty) /\ lot' = Rebased
        /\ sale' = sale /\ main.d.kind \in Bought /\ buy.left = 0
    BY <1>3, AfterPlacing DEF PlaceEntry
  <2>2. CutQty \in Nat /\ main.d.kind \in Kinds
    BY RebasedKeeps, Fields DEF Decisions
  <2>3. buy' \in Orders /\ buy'.kind = main.d.kind /\ buy'.px = main.px
    BY <2>1, <2>2, NewOrder
  <2>4. /\ hist' \in Hists /\ hist'.torn = hist.torn /\ hist'.trims = hist.trims
        /\ hist.late => hist'.late
        /\ main.d.kind = "ADD" /\ rec.kind \in Bought => hist'.late
    <3>0. hist.buys + 1 \in Nat
      BY <1>1 DEF Hists
    <3>1. CASE main.d.kind = "ENTER"
      <4>1. hist' = [hist EXCEPT !.buys = hist.buys + 1, !.ordered = CutQty]
        BY <1>3, <3>1, Zenon DEF PlaceEntry
      <4>2. hist' \in Hists /\ hist'.torn = hist.torn /\ hist'.trims = hist.trims /\ hist'.late = hist.late
        BY <1>1, <2>2, <3>0, <4>1, HistOrders
      <4> QED BY <3>1, <4>2
    <3>2. CASE main.d.kind # "ENTER"
      <4> DEFINE x == hist.late \/ rec.kind \in Bought
      <4>1. hist' = [hist EXCEPT !.buys = hist.buys + 1, !.late = x]
        BY <1>3, <3>2, Zenon DEF PlaceEntry
      <4>2. x \in BOOLEAN
        OBVIOUS
      <4> HIDE DEF x
      <4>3. hist' \in Hists /\ hist'.torn = hist.torn /\ hist'.trims = hist.trims /\ hist'.late = x
        BY <1>1, <3>0, <4>1, <4>2, HistTakes
      <4> QED BY <4>3, Zenon DEF x
    <3> QED BY <3>1, <3>2
  <2> QED BY <1>1, <2>1, <2>3, <2>4, RebasedKeeps DEF Placed
<1>4. CASE RefusedEntry
  <2>1. main' \in Mains /\ ~Placing' /\ lot' = Rebased /\ UNCHANGED <<buy, sale, hist>>
    BY <1>4, AfterPlacing DEF RefusedEntry
  <2> QED BY <1>1, <2>1, RebasedKeeps DEF Placed
<1>5. CASE GiveBack
  <2>1. /\ main' \in Mains /\ ~Placing' /\ lot' = [lot EXCEPT !.rungs = lot.rungs - 1]
        /\ UNCHANGED <<buy, sale, hist>> /\ main.d.kind = "TRIM"
    BY <1>5, AfterPlacing DEF GiveBack, Accepted
  <2>2. lot.rungs - 1 \in 0 .. Len(Par.rungs)
    <3>1. lot.rungs > 0 /\ lot.rungs \in Nat /\ Len(Par.rungs) \in Nat /\ lot.rungs <= Len(Par.rungs)
      BY <1>1, <2>1, Fields DEF MainOK
    <3> QED BY <3>1
  <2>3. /\ lot' \in Lots /\ lot'.rungs = lot.rungs - 1
        /\ lot'.st = lot.st /\ lot'.qty = lot.qty /\ lot'.avg = lot.avg /\ lot'.stop = lot.stop
        /\ lot'.pStop = lot.pStop
    BY <1>1, <2>1, <2>2 DEF Lots
  <2> QED BY <1>1, <2>1, <2>3 DEF Placed
<1>6. CASE PlaceTrim
  <2>1. /\ main' \in Mains /\ ~Placing' /\ sale' = Order("TRIM", main.d.qty)
        /\ hist' = [hist EXCEPT !.trims = hist.trims + 1]
        /\ UNCHANGED <<lot, buy>> /\ main.d.kind = "TRIM"
    BY <1>6, AfterPlacing DEF PlaceTrim
  <2>2. sale' \in Orders /\ sale'.kind = "TRIM"
    BY <1>1, <2>1, NewOrder DEF Kinds
  <2>3. hist' \in Hists /\ hist'.torn = hist.torn /\ hist'.late = hist.late /\ hist'.trims = hist.trims + 1
    BY <1>1, <2>1 DEF Hists
  <2> QED BY <1>1, <2>1, <2>2, <2>3 DEF Placed, Sold
<1>7. CASE PlaceExit
  <2>1. /\ main' \in Mains /\ ~Placing' /\ buy' = NoOrder /\ sale' \in {Order("EXIT", lot.qty), NoOrder}
        /\ UNCHANGED <<lot, hist>> /\ main.d.kind = "EXIT"
    BY <1>7, AfterPlacing DEF PlaceExit
  <2>2. /\ buy' \in Orders /\ buy'.left = 0 /\ sale' \in Orders
        /\ sale'.left = 0 \/ sale'.kind = "EXIT"
    <3>1. Order("EXIT", lot.qty) \in Orders /\ Order("EXIT", lot.qty).kind = "EXIT"
      BY SMTT(40), Fields, NewOrder DEF Kinds
    <3> QED BY <2>1, <3>1, NoOrderIs
  <2> QED BY <1>1, <2>1, <2>2 DEF Placed, Sold
<1>8. CASE Unheard
  <2>1. main' \in Mains /\ ~Placing' /\ UNCHANGED <<lot, buy, sale, hist>>
    BY <1>8, AfterPlacing DEF Unheard
  <2> QED BY <1>1, <2>1 DEF Placed
<1> QED BY <1>2, <1>3, <1>4, <1>5, <1>6, <1>7, <1>8 DEF Place

\* Placing keeps the invariant.
LEMMA PlaceKeeps ==
  ASSUME IInv, Place
  PROVE  IInv'
<1>1. Placed
  BY PlaceEffect DEF IInv
<1>2. /\ Placing /\ UNCHANGED <<tpl, joined, mem, row, prev, day, minute, rec, up, crashes>>
  BY DEF Place, Placing
<1>3. up /\ lot.st # "none" /\ (main.d.kind # "ENTER" => Entered)
  BY <1>2 DEF IInv, DownOK, MainOK, Placing, Idle
<1>4. ~Placing'
  BY <1>1 DEF Placed
<1>5. TypeOK'
  BY <1>1, <1>2 DEF IInv, TypeOK, Placed, MemOK
<1>6. OrdersOK' /\ DownOK' /\ MainOK'
  BY <1>1, <1>2, <1>3, <1>4 DEF IInv, OrdersOK, DownOK, MainOK, Placed
<1>7. sale'.left = 0 \/ sale' = sale \/ Entered
  BY <1>1, <1>3 DEF Placed, Sold
<1>8. row.st \in {"WATCHING", "HOLDING", "CLOSED"} /\ (Entered => row.st # "WATCHING")
  BY <1>3, Fields DEF IInv, LotOK, Entered
<1>9. hist'.trims = hist.trims \/ main.d.kind = "TRIM"
  BY <1>1 DEF Placed
<1>10. RowOK' /\ LotOK'
  BY <1>1, <1>2, <1>3, <1>7, <1>8, <1>9 DEF IInv, RowOK, LotOK, Placed, Entered, IsOpen
<1>11. BookOK'
  BY <1>1, <1>2 DEF IInv, BookOK, Placed
<1>12. RungsOK'
  <2>1. hist.trims \in Nat /\ lot.rungs \in Nat
    BY Fields, Zenon DEF IInv
  <2>2. ~hist.torn => /\ hist.trims <= lot.rungs
                      /\ main.d.kind = "TRIM" => hist.trims + 1 <= lot.rungs
    BY <1>2, <1>3, <2>1 DEF IInv, RungsOK
  <2>3. ~hist.torn => hist'.trims <= lot'.rungs
    BY <1>1, <2>1, <2>2 DEF Placed
  <2>4. lot'.rungs \in Nat /\ hist'.trims \in Nat /\ hist'.torn = hist.torn /\ up' = up
    <3>1. lot'.rungs \in 0 .. Len(Par.rungs)
      BY <1>1 DEF Placed, Lots
    <3>2. hist'.trims \in Nat /\ hist'.torn = hist.torn /\ up' = up
      BY <1>1, <1>2 DEF Placed, Hists
    <3> QED BY <2>1, <3>1, <3>2, StrategyAssumption
  <2> QED BY <1>3, <1>4, <2>3, <2>4 DEF RungsOK
<1>13. StopsOK'
  BY <1>1, <1>2, <1>3, Fields DEF IInv, StopsOK, Placed, Entered
<1>14. DayOK'
  BY <1>1, <1>2, <1>3, Fields DEF IInv, DayOK, Placed
<1>15. AddsOK'
  <2> SUFFICES ASSUME ~hist'.late PROVE AddsOK'
    BY DEF AddsOK
  <2>1. ~hist.late /\ ~Adding' /\ up'
    BY <1>1, <1>2, <1>3 DEF Placed, Adding, Placing
  <2>2. CASE buy' = buy \/ buy'.left = 0
    BY <1>1, <1>2, <2>1, <2>2 DEF IInv, AddsOK, Placed
  <2>3. CASE /\ main.d.kind \in Bought /\ buy.left = 0 /\ buy'.kind = main.d.kind /\ buy'.px = main.px
             /\ main.d.kind = "ADD" /\ rec.kind \in Bought => hist'.late
    BY <1>1, <1>2, <2>1, <2>3 DEF IInv, AddsOK, Placed, Adding, Placing
  <2> QED BY <1>1, <2>2, <2>3 DEF Placed
<1> QED BY <1>5, <1>6, <1>10, <1>11, <1>12, <1>13, <1>14, <1>15 DEF IInv


-----------------------------------------------------------------------------
(* The end of a bar, fills, the night and the restart.                      *)

\* _sync_runtime changes nothing the invariant says of a row whose lot is in memory.
LEMMA SyncedKeeps ==
  ASSUME row \in Rows, NEW l \in Lots
  PROVE  /\ Synced(row, l) \in Rows
         /\ Synced(row, l).st = row.st /\ Synced(row, l).qty = row.qty /\ Synced(row, l).avg = row.avg
         /\ Synced(row, l).rungs = l.rungs
         /\ Synced(row, l).stop = IF l.st = "WATCHING" THEN l.pStop ELSE l.stop
<1> DEFINE R == Runtime(l)
<1>1. /\ R.peak \in Nat /\ R.rungs = l.rungs /\ l.rungs \in 0 .. Len(Par.rungs) /\ R.orig \in Nat
      /\ R.stop \in Nat /\ R.stop = IF l.st = "WATCHING" THEN l.pStop ELSE l.stop
  BY DEF Runtime, Lots
<1>2. Synced(row, l) = [row EXCEPT !.peak = R.peak, !.rungs = R.rungs, !.stop = R.stop, !.orig = R.orig]
  BY Zenon DEF Synced
<1> HIDE DEF R
<1> QED BY <1>1, <1>2 DEF Rows

\* The end of a bar.
LEMMA EndBarKeeps ==
  ASSUME IInv, EndBar
  PROVE  IInv'
<1>1. /\ main.at = "sync" /\ main' = Idle /\ row' = Synced(row, lot)
      /\ UNCHANGED <<tpl, joined, lot, mem, prev, day, minute, buy, sale, rec, up, crashes, hist>>
  BY DEF EndBar
<1>2. /\ row' \in Rows /\ row'.st = row.st /\ row'.qty = row.qty /\ row'.avg = row.avg
  BY <1>1, SyncedKeeps DEF IInv, TypeOK
<1>3. main' \in Mains /\ ~Placing' /\ ~Placing
  BY <1>1 DEF Idle, Hold, Mains, Decisions, Kinds, None, Placing
<1>4. up
  BY <1>1 DEF IInv, DownOK, Idle
<1>5. TypeOK'
  BY <1>1, <1>2, <1>3 DEF IInv, TypeOK, MemOK
<1>6. OrdersOK' /\ DownOK' /\ MainOK' /\ RowOK' /\ LotOK' /\ BookOK'
  BY <1>1, <1>2, <1>3, <1>4 DEF IInv, OrdersOK, DownOK, MainOK, RowOK, LotOK, BookOK, Working, Entered, IsOpen
<1>7. RungsOK' /\ StopsOK' /\ DayOK'
  BY <1>1, <1>2, <1>3, <1>4 DEF IInv, RungsOK, StopsOK, DayOK, Entered, Working
<1>8. AddsOK'
  BY <1>1, <1>2, <1>3, <1>4 DEF IInv, AddsOK, Adding, Placing
<1> QED BY <1>5, <1>6, <1>7, <1>8 DEF IInv

\* The row of a fill, and what the average comes to.
LEMMA BuyRow ==
  ASSUME row \in Rows, NEW n \in Nat \ {0}, NEW p \in Nat
  PROVE  LET r == FillRow(row, "BUY", n, p) IN
         /\ r \in Rows /\ r.qty = row.qty + n /\ r.avg = AvgOf(row.avg, row.qty, p, n)
         /\ r.stop = row.stop /\ r.rungs = row.rungs
         /\ r.st = IF row.st \in {"WATCHING", "CLOSED"} THEN "HOLDING" ELSE row.st
<1>1. row.avg \in Nat /\ row.qty \in Nat /\ n \in Nat /\ n > 0 /\ row.qty + n \in Nat
  BY DEF Rows
<1> DEFINE a == AvgOf(row.avg, row.qty, p, n)
           t == IF row.st \in {"WATCHING", "CLOSED"} THEN "HOLDING" ELSE row.st
<1>2. a \in Nat
  BY <1>1, AvgBetween, Zenon
<1>3. t \in {"none", "WATCHING", "HOLDING", "CLOSED", "CANCELLED"}
  BY DEF Rows
<1> DEFINE q == row.qty + n
           r == FillRow(row, "BUY", n, p)
<1>4. r = [row EXCEPT !.avg = a, !.qty = q, !.st = t]
  BY DEF FillRow
<1>5. q \in Nat
  BY <1>1
<1> HIDE DEF a, t, q, r
<1>6. r \in Rows
  BY <1>2, <1>3, <1>4, <1>5 DEF Rows
<1>7. r.qty = q /\ r.avg = a /\ r.stop = row.stop /\ r.rungs = row.rungs /\ r.st = t
  BY <1>4 DEF Rows
<1> QED BY <1>6, <1>7, Zenon DEF a, t, q, r

\* The row of a sale.
LEMMA SellRow ==
  ASSUME row \in Rows, NEW n \in Nat \ {0}, n <= row.qty, NEW p \in Nat
  PROVE  LET r == FillRow(row, "SELL", n, p) IN
         /\ r \in Rows /\ r.qty = row.qty - n /\ r.avg = row.avg
         /\ r.stop = row.stop /\ r.rungs = row.rungs
         /\ r.st = IF row.qty = n THEN "CLOSED" ELSE row.st
<1>1. row.qty - n \in Nat
  BY DEF Rows
<1>2. FillRow(row, "SELL", n, p) = [row EXCEPT !.qty = row.qty - n, !.st = IF row.qty = n THEN "CLOSED" ELSE row.st]
  BY DEF FillRow
<1> QED BY <1>1, <1>2 DEF Rows

\* handle_fill: the row moves first and the lot is one fill behind.
LEMMA FillBuyKeeps ==
  ASSUME IInv, NEW n \in Nat \ {0}, FillBuy(n)
  PROVE  IInv'
<1>1. /\ rec.left = 0 /\ n <= buy.left /\ buy.left > 0 /\ up
      /\ row' = FillRow(row, "BUY", n, buy.px)
      /\ rec' = [buy EXCEPT !.left = n]
      /\ buy' = IF n = buy.left THEN NoOrder ELSE [buy EXCEPT !.left = buy.left - n, !.started = TRUE]
      /\ UNCHANGED <<tpl, joined, lot, mem, prev, day, minute, sale, main, up, crashes, hist>>
  BY Fields DEF FillBuy, IInv
<1>2. buy \in Orders /\ row \in Rows /\ buy.px \in Nat /\ buy.left \in Nat
  BY Fields DEF IInv, TypeOK
<1>2a. Working
  BY SMTT(40), <1>1, <1>2, Fields DEF IInv, Working
<1>3. rec' \in Orders /\ rec'.left = n /\ rec'.px = buy.px /\ rec'.kind = buy.kind
  BY <1>1, <1>2 DEF Orders
<1>4. /\ buy' \in Orders
      /\ buy'.left = 0 \/ (buy'.left \in Nat /\ buy'.left > 0 /\ buy'.kind = buy.kind /\ buy'.px = buy.px)
  <2>1. CASE n = buy.left
    BY <1>1, <2>1, NoOrderIs
  <2>2. CASE n # buy.left
    <3>1. buy.left - n \in Nat /\ buy.left - n > 0
      BY <1>1, <1>2, <2>2
    <3>2. buy' = [buy EXCEPT !.left = buy.left - n, !.started = TRUE]
      BY <1>1, <2>2
    <3>3. buy' \in Orders
      BY <1>2, <3>1, <3>2 DEF Orders
    <3>4. buy'.left = buy.left - n /\ buy'.kind = buy.kind /\ buy'.px = buy.px
      BY <1>2, <3>2 DEF Orders
    <3> QED BY <3>1, <3>3, <3>4
  <2> QED BY <2>1, <2>2
<1>5. /\ row' \in Rows /\ row'.qty = row.qty + n /\ row'.avg = AvgOf(row.avg, row.qty, buy.px, n)
      /\ row'.stop = row.stop /\ row'.rungs = row.rungs
      /\ row'.st = IF row.st \in {"WATCHING", "CLOSED"} THEN "HOLDING" ELSE row.st
  BY <1>1, <1>2, BuyRow
<1>6. buy.kind \in Bought /\ rec.kind = "none"
  BY <1>1 DEF IInv, OrdersOK
<1>7. row.st \in {"WATCHING", "HOLDING", "CLOSED"} /\ row'.st = "HOLDING" /\ row.qty \in Nat
  <2>1. row.st \in {"none", "WATCHING", "HOLDING", "CLOSED", "CANCELLED"} /\ row.qty \in Nat
    BY <1>2 DEF Rows
  <2>2. row.st \notin {"none", "CANCELLED"}
    BY <1>2a DEF IInv, RowOK
  <2> QED BY <1>5, <2>1, <2>2
<1>8. lot.st # "none" /\ row.qty = lot.qty /\ row.avg = lot.avg
  <2>1. lot.st # "none"
    BY <1>1, <1>2a DEF IInv, LotOK
  <2> QED BY <1>1, <2>1 DEF IInv, BookOK
<1>9. TypeOK'
  BY <1>1, <1>3, <1>4, <1>5 DEF IInv, TypeOK, MemOK
<1>10. OrdersOK' /\ DownOK' /\ MainOK'
  BY <1>1, <1>3, <1>4, <1>6 DEF IInv, OrdersOK, DownOK, MainOK, Placing, Entered
<1>11. RowOK'
  BY <1>1, <1>5, <1>7 DEF RowOK
<1>12. LotOK'
  BY <1>1, <1>3, <1>5, <1>6, <1>7, <1>8 DEF IInv, LotOK, Entered, IsOpen, Bought, Sold
<1>13. BookOK'
  BY <1>1, <1>3, <1>5, <1>6, <1>8 DEF BookOK, Bought, Sold
<1>14. RungsOK' /\ StopsOK' /\ DayOK'
  BY <1>1, <1>2, <1>3, <1>5 DEF IInv, RungsOK, StopsOK, DayOK, Placing, Entered
<1>15. AddsOK'
  BY <1>1, <1>2, <1>3, <1>4, <1>6 DEF IInv, AddsOK, Adding, Placing
<1> QED BY <1>9, <1>10, <1>11, <1>12, <1>13, <1>14, <1>15 DEF IInv


\* A sale is of an entered lot and of no more than it holds.
LEMMA FillSaleKeeps ==
  ASSUME IInv, NEW n \in Nat \ {0}, FillSale(n)
  PROVE  IInv'
<1>1. /\ rec.left = 0 /\ n <= sale.left /\ n <= row.qty /\ sale.left > 0 /\ up
      /\ row' = FillRow(row, "SELL", n, sale.px)
      /\ rec' = [sale EXCEPT !.left = n]
      /\ sale' = IF n = sale.left THEN NoOrder ELSE [sale EXCEPT !.left = sale.left - n]
      /\ UNCHANGED <<tpl, joined, lot, mem, prev, day, minute, buy, main, up, crashes, hist>>
  <2>1. /\ rec.left = 0 /\ n \in 1 .. Least(sale.left, row.qty) /\ up
        /\ row' = FillRow(row, "SELL", n, sale.px)
        /\ rec' = [sale EXCEPT !.left = n]
        /\ sale' = IF n = sale.left THEN NoOrder ELSE [sale EXCEPT !.left = sale.left - n]
        /\ UNCHANGED <<tpl, joined, lot, mem, prev, day, minute, buy, main, up, crashes, hist>>
    BY Zenon DEF FillSale
  <2>2. sale.left \in Nat /\ row.qty \in Nat
    BY Fields, Zenon DEF IInv
  <2>3. n <= sale.left /\ n <= row.qty /\ sale.left > 0
    BY <2>1, <2>2 DEF Least
  <2> QED BY <2>1, <2>3, Zenon
<1>2. sale \in Orders /\ row \in Rows /\ sale.px \in Nat /\ sale.left \in Nat /\ row.qty \in Nat /\ buy.left \in Nat
  BY Fields, Zenon DEF IInv, TypeOK
<1>3. Working
  BY <1>1, <1>2 DEF Working
<1>4. rec' \in Orders /\ rec'.left = n /\ rec'.px = sale.px /\ rec'.kind = sale.kind
  BY <1>1, <1>2 DEF Orders
<1>5. sale' \in Orders /\ (sale'.left = 0 \/ sale'.kind = sale.kind)
  <2>1. CASE n = sale.left
    BY <1>1, <2>1, NoOrderIs
  <2>2. CASE n # sale.left
    <3>1. sale.left - n \in Nat
      BY <1>1, <1>2, <2>2
    <3>2. sale' = [sale EXCEPT !.left = sale.left - n]
      BY <1>1, <2>2
    <3> QED BY <1>2, <3>1, <3>2 DEF Orders
  <2> QED BY <2>1, <2>2
<1>6. /\ row' \in Rows /\ row'.qty = row.qty - n /\ row'.avg = row.avg
      /\ row'.stop = row.stop /\ row'.rungs = row.rungs
      /\ row'.st = IF row.qty = n THEN "CLOSED" ELSE row.st
  BY <1>1, <1>2, SellRow
<1>7. sale.kind \in Sold /\ rec.kind = "none"
  BY <1>1 DEF IInv, OrdersOK
<1>8. Entered /\ row.qty = lot.qty /\ row.avg = lot.avg /\ row.st = "HOLDING"
  <2>1. lot.st # "none"
    BY <1>1, <1>3 DEF IInv, LotOK
  <2>2. lot.st # "WATCHING"
    BY <1>1 DEF IInv, LotOK
  <2>3. Entered
    BY <2>1, <2>2, Fields DEF IInv, Entered
  <2>4. row.st = "HOLDING"
    BY <1>1, <1>2, <2>3 DEF IInv, LotOK
  <2> QED BY <1>1, <2>1, <2>3, <2>4 DEF IInv, BookOK
<1>9. row'.st = (IF row'.qty = 0 THEN "CLOSED" ELSE "HOLDING") /\ row'.qty \in Nat
  BY <1>1, <1>2, <1>6, <1>8
<1>10. TypeOK'
  BY <1>1, <1>4, <1>5, <1>6 DEF IInv, TypeOK, MemOK
<1>11. OrdersOK' /\ DownOK' /\ MainOK'
  BY <1>1, <1>4, <1>5, <1>7 DEF IInv, OrdersOK, DownOK, MainOK, Placing, Entered
<1>12. RowOK' /\ LotOK'
  BY <1>1, <1>4, <1>8, <1>9 DEF IInv, RowOK, LotOK, Entered, IsOpen
<1>13. BookOK'
  BY <1>1, <1>4, <1>6, <1>7, <1>8 DEF BookOK, Bought, Sold
<1>14. RungsOK' /\ StopsOK' /\ DayOK'
  BY <1>1, <1>8 DEF IInv, RungsOK, StopsOK, DayOK, Placing, Entered
<1>15. AddsOK'
  BY <1>1, <1>4, <1>7 DEF IInv, AddsOK, Adding, Placing, Sold, Bought
<1> QED BY <1>10, <1>11, <1>12, <1>13, <1>14, <1>15 DEF IInv

\* The book catches up with its row.
LEMMA FillEffect ==
  ASSUME IInv, FillBooked
  PROVE  /\ lot' \in Lots /\ lot'.qty = row.qty /\ lot'.avg = row.avg /\ lot'.rungs = lot.rungs
         /\ rec.kind \in Bought => lot'.st \in {"HOLDING", "SCALING"} /\ row.qty > 0
         /\ rec.kind \in Sold => Entered /\ lot'.st = IF row.qty = 0 THEN "CLOSED" ELSE lot.st
         /\ lot.st # "WATCHING" => lot'.stop = lot.stop
         /\ lot.st = "WATCHING" /\ lot.pStop # None => lot'.stop # None
         /\ lot.st # "none" /\ up /\ rec.left > 0
<1>1. rec.left > 0 /\ up /\ lot' = Filled(lot, rec)
  BY DEF FillBooked
<1>2. /\ lot \in Lots /\ rec.left \in Nat /\ rec.px \in Nat /\ lot.qty \in Nat /\ lot.avg \in Nat
      /\ row.qty \in Nat /\ rec.kind \in Bought \cup Sold
  BY <1>1, Fields DEF IInv, TypeOK, OrdersOK
<1>3. lot.st # "none"
  BY <1>1 DEF IInv, LotOK
<1>4. CASE rec.kind \in Bought /\ lot.st = "WATCHING"
  <2> DEFINE pk == IF lot.peak = None THEN rec.px ELSE lot.peak
             sp == IF lot.pStop # None THEN lot.pStop ELSE lot.stop
             og == IF lot.pOrig # 0 THEN lot.pOrig ELSE rec.left
  <2>1. lot' = [lot EXCEPT !.st = "HOLDING", !.avg = rec.px, !.qty = rec.left, !.peak = pk,
                           !.stop = sp, !.orig = og]
    BY <1>1, <1>4, Zenon DEF Filled
  <2>2. pk \in Nat /\ sp \in Nat /\ og \in Nat /\ (lot.pStop # None => sp # None)
    BY <1>2 DEF Lots
  <2> HIDE DEF pk, sp, og
  <2>3. /\ lot' \in Lots /\ lot'.st = "HOLDING" /\ lot'.avg = rec.px /\ lot'.qty = rec.left
        /\ lot'.stop = sp /\ lot'.rungs = lot.rungs
    BY <1>2, <2>1, <2>2 DEF Lots
  <2>4. /\ row.qty = lot.qty + rec.left /\ row.avg = AvgOf(lot.avg, lot.qty, rec.px, rec.left)
        /\ lot.qty = 0
    BY <1>3, <1>4 DEF IInv, BookOK, LotOK
  <2>5. row.avg = rec.px
    <3>1. AvgOf(lot.avg, 0, rec.px, rec.left) = rec.px
      BY <1>1, <1>2, AvgAlone, Zenon
    <3> QED BY <2>4, <3>1
  <2>6. row.qty = rec.left
    BY <1>2, <2>4
  <2> QED BY <1>1, <1>3, <1>4, <2>2, <2>3, <2>5, <2>6 DEF Bought, Sold
<1>5. CASE rec.kind \in Bought /\ lot.st # "WATCHING"
  <2> DEFINE av == AvgOf(lot.avg, lot.qty, rec.px, rec.left)
             nq == lot.qty + rec.left
             st == IF lot.st = "CLOSED" THEN "HOLDING"
                   ELSE IF rec.kind = "ADD" /\ lot.st = "HOLDING" THEN "SCALING" ELSE lot.st
  <2>1. lot' = [lot EXCEPT !.avg = av, !.qty = nq, !.st = st]
    BY <1>1, <1>5, Zenon DEF Filled
  <2>2. av \in Nat
    BY <1>1, <1>2, AvgBetween, Zenon
  <2>3. nq \in Nat /\ nq > 0
    BY <1>1, <1>2
  <2>4. st \in {"HOLDING", "SCALING"}
    BY <1>2, <1>3, <1>5 DEF Lots
  <2>5. row.qty = nq /\ row.avg = av
    BY <1>3, <1>5 DEF IInv, BookOK
  <2> HIDE DEF av, nq, st
  <2>6. /\ lot' \in Lots /\ lot'.st = st /\ lot'.avg = av /\ lot'.qty = nq
        /\ lot'.stop = lot.stop /\ lot'.rungs = lot.rungs
    BY <1>2, <2>1, <2>2, <2>3, <2>4 DEF Lots
  <2> QED BY <1>1, <1>3, <1>5, <2>3, <2>4, <2>5, <2>6 DEF Bought, Sold
<1>6. CASE rec.kind \in Sold
  <2>1. rec.kind \notin Bought
    BY <1>6 DEF Bought, Sold
  <2>2. Entered
    BY <1>2, <1>3, <1>6 DEF IInv, LotOK, Entered, Lots
  <2>3. row.qty = lot.qty - rec.left /\ row.avg = lot.avg
    BY <1>3, <1>6 DEF IInv, BookOK
  <2>4. lot' = [lot EXCEPT !.qty = lot.qty - rec.left, !.st = IF lot.qty = rec.left THEN "CLOSED" ELSE lot.st]
    BY <1>1, <2>1, Zenon DEF Filled
  <2>5. lot.qty - rec.left \in Nat /\ (lot.qty = rec.left <=> row.qty = 0)
    BY <1>2, <2>3
  <2>6. /\ lot' \in Lots /\ lot'.qty = row.qty /\ lot'.st = IF row.qty = 0 THEN "CLOSED" ELSE lot.st
        /\ lot'.avg = lot.avg /\ lot'.stop = lot.stop /\ lot'.rungs = lot.rungs
    BY <1>2, <2>3, <2>4, <2>5 DEF Lots
  <2> QED BY <1>1, <1>3, <2>1, <2>2, <2>3, <2>6 DEF Entered
<1> QED BY <1>2, <1>4, <1>5, <1>6


\* _on_fill: the lot and its row agree again.
LEMMA FillBookedKeeps ==
  ASSUME IInv, FillBooked
  PROVE  IInv'
<1>1. /\ row' = Synced(row, lot') /\ rec' = NoOrder
      /\ hist' = [hist EXCEPT !.late = hist.late \/ (Adding /\ rec.kind \in Bought)]
      /\ UNCHANGED <<tpl, joined, mem, prev, day, minute, buy, sale, main, up, crashes>>
  BY Zenon DEF FillBooked
<1>2. /\ lot' \in Lots /\ lot'.qty = row.qty /\ lot'.avg = row.avg /\ lot'.rungs = lot.rungs
      /\ rec.kind \in Bought => lot'.st \in {"HOLDING", "SCALING"} /\ row.qty > 0
      /\ rec.kind \in Sold => Entered /\ lot'.st = IF row.qty = 0 THEN "CLOSED" ELSE lot.st
      /\ lot.st # "WATCHING" => lot'.stop = lot.stop
      /\ lot.st = "WATCHING" /\ lot.pStop # None => lot'.stop # None
      /\ lot.st # "none" /\ up /\ rec.left > 0
  BY FillEffect
<1>3. /\ row' \in Rows /\ row'.st = row.st /\ row'.qty = row.qty /\ row'.avg = row.avg
  BY <1>1, <1>2, SyncedKeeps DEF IInv, TypeOK
<1>4. /\ hist' \in Hists /\ hist'.torn = hist.torn /\ hist'.trims = hist.trims
      /\ ~hist'.late => ~hist.late /\ ~(Adding /\ rec.kind \in Bought)
  <2> DEFINE x == hist.late \/ (Adding /\ rec.kind \in Bought)
  <2>1. x \in BOOLEAN /\ hist' = [hist EXCEPT !.late = x] /\ hist \in Hists
    BY <1>1 DEF IInv, TypeOK
  <2> HIDE DEF x
  <2>2. hist' \in Hists
    BY <2>1 DEF Hists
  <2>3. hist'.torn = hist.torn /\ hist'.trims = hist.trims /\ hist'.late = x
    BY <2>1 DEF Hists
  <2> QED BY <2>2, <2>3, Zenon DEF x
<1>5. rec' \in Orders /\ rec'.left = 0 /\ rec'.kind = "none"
  BY <1>1, NoOrderIs
<1>6. rec.kind \in Bought \/ rec.kind \in Sold
  BY <1>2 DEF IInv, OrdersOK
<1>7. row.qty \in Nat /\ row.st = (IF row.qty = 0 THEN "CLOSED" ELSE "HOLDING")
  <2>1. row.qty \in Nat
    BY Fields, Zenon DEF IInv
  <2>2. CASE Entered
    BY <2>1, <2>2 DEF IInv, LotOK
  <2>3. CASE lot.st = "WATCHING"
    BY <1>2, <1>6, <2>1, <2>3 DEF IInv, LotOK, RowOK
  <2> QED BY <1>2, <2>1, <2>2, <2>3, Fields DEF IInv, Entered
<1>8. Entered' /\ (lot'.st \in {"HOLDING", "SCALING"} <=> lot'.qty > 0)
  <2>1. CASE rec.kind \in Bought
    BY <1>2, <2>1 DEF Entered
  <2>2. CASE rec.kind \in Sold
    <3>1. lot.st = "CLOSED" => lot.qty = 0
      <4>1. lot.qty \in Nat
        BY Fields, Zenon DEF IInv
      <4>2. lot.st = "CLOSED" => ~(lot.qty > 0)
        BY DEF IInv, LotOK, IsOpen, OpenSt
      <4> QED BY <4>1, <4>2
    <3>2. row.qty = lot.qty - rec.left /\ lot.qty \in Nat /\ rec.left \in Nat
      BY <1>2, <2>2, Fields DEF IInv, BookOK
    <3>3. lot.st # "CLOSED"
      BY <1>2, <1>7, <3>1, <3>2
    <3> QED BY <1>2, <1>7, <2>2, <3>3 DEF Entered
  <2> QED BY <1>6, <2>1, <2>2
<1>9. TypeOK'
  BY <1>1, <1>2, <1>3, <1>4, <1>5 DEF IInv, TypeOK, MemOK
<1>10. OrdersOK' /\ DownOK' /\ MainOK'
  BY <1>1, <1>2, <1>5, <1>8 DEF IInv, OrdersOK, DownOK, MainOK, Placing, Entered
<1>11. RowOK' /\ LotOK' /\ BookOK'
  BY <1>1, <1>2, <1>3, <1>4, <1>5, <1>7, <1>8
     DEF IInv, RowOK, LotOK, BookOK, Entered, IsOpen, OpenSt, Working, Bought, Sold
<1>12. RungsOK'
  BY <1>1, <1>2, <1>4 DEF IInv, RungsOK, Placing
<1>13. StopsOK'
  BY <1>1, <1>2, <1>4, <1>8, Fields DEF IInv, StopsOK, Placing, Entered
<1>14. DayOK'
  BY <1>1, <1>8 DEF IInv, DayOK, Placing, Entered
<1>15. AddsOK'
  <2> SUFFICES ASSUME ~hist'.late PROVE AddsOK'
    BY DEF AddsOK
  <2>1. ~hist.late /\ ~(Adding /\ rec.kind \in Bought)
    BY <1>4
  <2>2. rec.kind \in Sold => lot'.avg = lot.avg /\ (lot'.qty > 0 => lot.qty > 0)
    <3>1. lot.qty \in Nat /\ rec.left \in Nat
      BY Fields, Zenon DEF IInv
    <3>2. rec.kind \in Sold => row.qty = lot.qty - rec.left /\ row.avg = lot.avg
      BY <1>2, Zenon DEF IInv, BookOK
    <3> QED BY <1>2, <3>1, <3>2
  <2>3. (Adding => main.px >= lot'.avg) /\ (Adding' <=> Adding)
    <3>1. Adding => main.px >= lot.avg /\ rec.kind \in Sold
      BY <1>6, <2>1 DEF IInv, AddsOK
    <3> QED BY <1>1, <2>2, <3>1 DEF Adding
  <2>4. ASSUME buy.left > 0, buy.kind = "ADD", lot'.qty > 0 PROVE buy.px >= lot'.avg
    <3>1. CASE rec.kind \in Sold
      BY <1>2, <2>1, <2>2, <2>4, <3>1 DEF IInv, AddsOK
    <3>2. CASE rec.kind \in Bought
      <4>1. rec.px = buy.px /\ (lot.qty > 0 => buy.px >= lot.avg)
        BY <1>2, <2>1, <2>4, <3>2 DEF IInv, AddsOK
      <4>2. lot'.avg = AvgOf(lot.avg, lot.qty, rec.px, rec.left)
        BY <1>2, <3>2 DEF IInv, BookOK
      <4>3. /\ lot.avg \in Nat /\ lot.qty \in Nat /\ rec.px \in Nat /\ rec.left \in Nat /\ buy.px \in Nat
        BY Fields, Zenon DEF IInv
      <4>4. CASE lot.qty = 0
        <5>1. AvgOf(lot.avg, 0, rec.px, rec.left) = rec.px
          BY <1>2, <4>3, AvgAlone, Zenon
        <5> QED BY <4>1, <4>2, <4>3, <4>4, <5>1
      <4>5. CASE lot.qty > 0
        <5>1. lot.avg <= rec.px
          BY <4>1, <4>3, <4>5
        <5>2. AvgOf(lot.avg, lot.qty, rec.px, rec.left) <= rec.px /\ AvgOf(lot.avg, lot.qty, rec.px, rec.left) \in Nat
          BY <1>2, <4>3, <5>1, AvgBetween
        <5> QED BY <4>1, <4>2, <4>3, <5>2
      <4> QED BY <4>3, <4>4, <4>5
    <3> QED BY <1>6, <3>1, <3>2
  <2>5. buy' = buy /\ up' = up /\ main' = main
    BY <1>1
  <2> QED BY <1>2, <1>5, <2>3, <2>4, <2>5 DEF AddsOK, Bought
<1> QED BY <1>9, <1>10, <1>11, <1>12, <1>13, <1>14, <1>15 DEF IInv

\* Day orders end.
LEMMA NightKeeps ==
  ASSUME IInv, Night
  PROVE  IInv'
<1>1. /\ day < MaxDay[tpl.strat] /\ rec.left = 0 /\ main.at = "idle" /\ day' = day + 1 /\ minute' = 0
      /\ buy' = NoOrder /\ sale' = NoOrder
      /\ UNCHANGED <<tpl, joined, lot, mem, row, prev, rec, main, up, crashes, hist>>
  BY DEF Night
<1>2. buy' \in Orders /\ buy'.left = 0 /\ sale' \in Orders /\ sale'.left = 0 /\ ~Placing /\ ~Working'
  BY <1>1, NoOrderIs DEF Placing, Working
<1>3. TypeOK'
  <2>1. joined \in 0 .. day /\ day \in 1 .. MaxDay[tpl.strat] /\ MaxDay[tpl.strat] \in Nat /\ LastMinute \in Nat
    BY LotAssumption DEF IInv, TypeOK
  <2>2. joined' \in 0 .. day' /\ day' \in 1 .. MaxDay[tpl'.strat] /\ minute' \in 0 .. LastMinute
    BY <1>1, <2>1
  <2> QED BY <1>1, <1>2, <2>2 DEF IInv, TypeOK, MemOK
<1>4. OrdersOK' /\ DownOK' /\ MainOK' /\ RowOK' /\ LotOK' /\ BookOK'
  BY <1>1, <1>2 DEF IInv, OrdersOK, DownOK, MainOK, RowOK, LotOK, BookOK, Placing, Entered, IsOpen
<1>5. RungsOK' /\ StopsOK' /\ DayOK'
  BY <1>1, <1>2 DEF IInv, RungsOK, StopsOK, DayOK, Placing, Entered
<1>6. AddsOK'
  BY <1>1, <1>2 DEF IInv, AddsOK, Adding, Placing
<1> QED BY <1>3, <1>4, <1>5, <1>6 DEF IInv

\* What a crash leaves of a lot that has an order or shares: the row answers for
\* its rungs and its stop, unless the crash tore it.
LEMMA CrashLeaves ==
  ASSUME IInv, Crash, ~hist'.torn,
         row.st = "HOLDING" \/ (row.st \in {"WATCHING", "CLOSED"} /\ Working)
  PROVE  /\ ~hist.torn /\ lot.st # "none" /\ row.rungs = lot.rungs
         /\ row.stop = IF lot.st = "WATCHING" THEN lot.pStop ELSE lot.stop
<1>1. up /\ hist' = [hist EXCEPT !.torn = hist.torn \/ Torn]
  BY Zenon DEF Crash
<1>2. ~hist.torn /\ ~Torn
  <2> DEFINE x == hist.torn \/ Torn
  <2>1. hist' = [hist EXCEPT !.torn = x] /\ hist \in Hists
    BY <1>1 DEF IInv, TypeOK
  <2> HIDE DEF x
  <2>2. hist'.torn = x
    BY <2>1 DEF Hists
  <2> QED BY <2>2, Zenon DEF x
<1>3. lot.st # "none"
  BY <1>1 DEF IInv, LotOK
<1>4. Working \/ row.st \in OpenSt
  BY DEF OpenSt
<1>5. Synced(row, lot) = [row EXCEPT !.peak = lot.peak]
  BY <1>2, <1>3, <1>4, Zenon DEF Torn, Working
<1>6. row \in Rows /\ lot \in Lots
  BY DEF IInv, TypeOK
<1>7. /\ Synced(row, lot).rungs = lot.rungs
      /\ Synced(row, lot).stop = IF lot.st = "WATCHING" THEN lot.pStop ELSE lot.stop
  BY <1>6, SyncedKeeps
<1>8. [row EXCEPT !.peak = lot.peak].rungs = row.rungs /\ [row EXCEPT !.peak = lot.peak].stop = row.stop
  BY <1>6 DEF Rows
<1> QED BY <1>2, <1>3, <1>5, <1>7, <1>8

\* A crash at any point where the main task can stop.
LEMMA CrashKeeps ==
  ASSUME IInv, Crash
  PROVE  IInv'
<1>1. /\ up /\ ~Placing /\ crashes < MaxCrashes /\ up' = FALSE /\ crashes' = crashes + 1
      /\ lot' = NoLot /\ mem' = NoMem /\ main' = Idle /\ rec' = NoOrder /\ joined' = 0
      /\ tpl' = [tpl EXCEPT !.on = ~tpl.scan]
      /\ UNCHANGED <<row, day, minute, buy, sale>>
  BY Zenon DEF Crash, Placing
<1>2. /\ hist' \in Hists /\ hist'.trims = hist.trims /\ hist'.late = hist.late
  <2> DEFINE x == hist.torn \/ Torn
  <2>1. hist' = [hist EXCEPT !.torn = x] /\ hist \in Hists /\ x \in BOOLEAN
    BY DEF IInv, TypeOK, Crash
  <2> HIDE DEF x
  <2> QED BY <2>1 DEF Hists
<1>3. rec' \in Orders /\ rec'.left = 0 /\ rec'.kind = "none" /\ lot' \in Lots
  BY <1>1, NoOrderIs, NewIsLot
<1>4. lot'.st = "none" /\ lot'.qty = 0 /\ ~Entered' /\ ~IsOpen(lot)'
  BY <1>1 DEF NoLot, Entered, IsOpen, OpenSt
<1>5. main' \in Mains /\ ~Placing' /\ ~Adding'
  BY <1>1 DEF Idle, Mains, Decisions, Kinds, Hold, None, Placing, Adding
<1>6. Minds(mem)'
  BY <1>1 DEF Minds, NoMem, None
<1>7. Working' <=> Working
  BY <1>1 DEF Working
<1>8. TypeOK'
  <2>1. tpl' \in [strat : Strats, scan : BOOLEAN, on : BOOLEAN] /\ tpl'.strat = tpl.strat
    BY <1>1 DEF IInv, TypeOK
  <2>2. joined' \in 0 .. day' /\ day' \in 1 .. MaxDay[tpl'.strat] /\ minute' \in 0 .. LastMinute
    <3>1. day \in Nat
      BY Fields, Zenon DEF IInv
    <3> QED BY <1>1, <2>1, <3>1 DEF IInv, TypeOK
  <2>3. crashes' \in 0 .. MaxCrashes
    BY <1>1, LotAssumption DEF IInv, TypeOK
  <2> QED BY <1>1, <1>2, <1>3, <1>5, <1>6, <2>1, <2>2, <2>3 DEF IInv, TypeOK, MemOK
<1>9. OrdersOK' /\ MainOK' /\ BookOK'
  BY <1>1, <1>3, <1>4, <1>5 DEF IInv, OrdersOK, MainOK, BookOK
<1>10. DownOK'
  <2>1. crashes \in Nat
    BY Fields, Zenon DEF IInv
  <2> QED BY <1>1, <2>1 DEF DownOK
<1>11. RowOK' /\ LotOK'
  BY <1>1, <1>2, <1>3, <1>4, <1>7 DEF IInv, RowOK, LotOK
<1>12. RungsOK'
  <2> SUFFICES ASSUME ~hist'.torn, row.st = "HOLDING" \/ (row.st = "CLOSED" /\ Working)
               PROVE  hist.trims <= row.rungs
    BY <1>1, <1>2, <1>4, <1>7 DEF RungsOK
  <2>1. ~hist.torn /\ lot.st # "none" /\ row.rungs = lot.rungs
    BY CrashLeaves
  <2>2. hist.trims + (IF Placing /\ main.d.kind = "TRIM" THEN 1 ELSE 0) <= lot.rungs
    BY <2>1, Zenon DEF IInv, RungsOK
  <2>3. hist.trims \in Nat
    BY Fields, Zenon DEF IInv
  <2> QED BY <1>1, <2>1, <2>2, <2>3
<1>13. StopsOK'
  <2> SUFFICES ASSUME tpl'.strat # "crash", ~hist'.torn,
                      row.st = "HOLDING" \/ (row.st \in {"WATCHING", "CLOSED"} /\ Working)
               PROVE  row.stop # None
    BY <1>1, <1>4, <1>7 DEF StopsOK
  <2>1. /\ ~hist.torn /\ lot.st # "none"
        /\ row.stop = IF lot.st = "WATCHING" THEN lot.pStop ELSE lot.stop
    BY CrashLeaves
  <2>2. tpl.strat # "crash"
    BY <1>1 DEF IInv, TypeOK
  <2>3. CASE lot.st = "WATCHING"
    <3>1. sale.left = 0 /\ row.st = (IF rec.left = 0 THEN "WATCHING" ELSE "HOLDING")
      BY <2>3, Zenon DEF IInv, LotOK
    <3>2. buy.left \in Nat /\ rec.left \in Nat
      BY Fields, Zenon DEF IInv
    <3>3. buy.left > 0 \/ rec.left > 0
      BY <3>1, <3>2 DEF Working
    <3> QED BY <2>1, <2>2, <2>3, <3>3, Zenon DEF IInv, StopsOK
  <2>4. CASE lot.st # "WATCHING"
    <3>1. Entered
      BY <2>1, <2>4, Fields DEF IInv, Entered
    <3> QED BY <2>1, <2>2, <2>4, <3>1, Zenon DEF IInv, StopsOK
  <2> QED BY <2>3, <2>4
<1>14. DayOK'
  <2>1. crashes' # 0
    <3>1. crashes \in Nat
      BY Fields, Zenon DEF IInv
    <3> QED BY <1>1, <3>1
  <2> QED BY <1>1, <1>4, <2>1 DEF DayOK
<1>15. AddsOK'
  <2> SUFFICES ASSUME ~hist.late, buy.left > 0, buy.kind = "ADD", row.qty > 0
               PROVE  buy.px >= row.avg
    BY <1>1, <1>2, <1>3, <1>5 DEF AddsOK, Bought
  <2>1. lot.st # "none"
    <3>1. Working
      <4>1. buy.left \in Nat /\ sale.left \in Nat
        BY Fields, Zenon DEF IInv
      <4> QED BY <4>1 DEF Working
    <3> QED BY <1>1, <3>1 DEF IInv, LotOK
  <2>2. /\ lot.qty > 0 => buy.px >= lot.avg
        /\ rec.kind \in Bought => rec.px = buy.px
    BY <1>1, Zenon DEF IInv, AddsOK
  <2>3. /\ rec.left = 0 => row.qty = lot.qty /\ row.avg = lot.avg
        /\ rec.kind \in Bought => /\ row.qty = lot.qty + rec.left
                                  /\ row.avg = AvgOf(lot.avg, lot.qty, rec.px, rec.left)
        /\ rec.kind \in Sold => row.qty = lot.qty - rec.left /\ row.avg = lot.avg
    BY <2>1, Zenon DEF IInv, BookOK
  <2>4. /\ lot.avg \in Nat /\ lot.qty \in Nat /\ rec.px \in Nat /\ rec.left \in Nat /\ buy.px \in Nat
    BY Fields, Zenon DEF IInv
  <2>5. CASE rec.left = 0
    BY <2>2, <2>3, <2>5
  <2>6. CASE rec.left > 0 /\ rec.kind \in Sold
    BY <2>2, <2>3, <2>4, <2>6
  <2>7. CASE rec.left > 0 /\ rec.kind \in Bought
    <3>1. CASE lot.qty = 0
      <4>0. rec.left > 0
        BY <2>7
      <4>1. AvgOf(lot.avg, 0, rec.px, rec.left) = rec.px
        <5>1. lot.avg \in Nat /\ rec.px \in Nat /\ rec.left \in Nat
          BY <2>4
        <5>2. \A p, q \in Nat : q > 0 => AvgOf(lot.avg, 0, p, q) = p
          BY <5>1, AvgAlone
        <5> QED BY <4>0, <5>1, <5>2
      <4> QED BY <2>2, <2>3, <2>4, <2>7, <3>1, <4>1
    <3>2. CASE lot.qty > 0
      <4>1. lot.avg <= rec.px
        BY <2>2, <2>4, <2>7, <3>2
      <4>2. AvgOf(lot.avg, lot.qty, rec.px, rec.left) <= rec.px
        BY <2>4, <2>7, <4>1, AvgBetween
      <4> QED BY <2>2, <2>3, <2>4, <2>7, <4>2
    <3> QED BY <2>4, <3>1, <3>2
  <2>8. rec.left > 0 => rec.kind \in Bought \cup Sold
    BY Zenon DEF IInv, OrdersOK
  <2> QED BY <2>4, <2>5, <2>6, <2>7, <2>8
<1> QED BY <1>8, <1>9, <1>10, <1>11, <1>12, <1>13, <1>14, <1>15 DEF IInv

\* A restart: the lot is what the row says, or nothing.
LEMMA HydrateEffect ==
  ASSUME IInv, Hydrate
  PROVE  /\ lot' \in Lots
         /\ \/ /\ row.st = "WATCHING" \/ row.st = "HOLDING" \/ (row.st = "CLOSED" /\ Working)
               /\ lot'.st = row.st /\ lot'.qty = row.qty /\ lot'.avg = row.avg
               /\ lot'.rungs = row.rungs
               /\ row.st = "WATCHING" => lot'.pStop = row.stop
               /\ row.st # "WATCHING" => lot'.stop = row.stop
            \/ lot' = NoLot /\ row.st \in {"none", "CANCELLED", "CLOSED"} /\ ~Working
<1>1. row \in Rows /\ row.st \in {"none", "WATCHING", "HOLDING", "CLOSED", "CANCELLED"}
  BY Fields, Zenon DEF IInv, TypeOK
<1>2. CASE row.st \in {"WATCHING", "HOLDING"} \/ (row.st = "CLOSED" /\ Working)
  <2>1. lot' = FromRow(row)
    BY <1>2 DEF Hydrate, Working, OpenSt
  <2> DEFINE w  == row.st = "WATCHING"
             pk == IF row.peak # None THEN row.peak ELSE row.avg
             sp == IF w THEN None ELSE row.stop
             ps == IF w THEN row.stop ELSE None
             og == IF row.orig > 0 THEN row.orig ELSE row.qty
             po == IF w THEN row.orig ELSE 0
  <2>2. lot' = [st |-> row.st, qty |-> row.qty, avg |-> row.avg, held |-> 0, rungs |-> row.rungs,
                peak |-> pk, stop |-> sp, pStop |-> ps, orig |-> og, pOrig |-> po]
    BY <2>1, Zenon DEF FromRow
  <2>3. /\ pk \in Nat /\ sp \in Nat /\ ps \in Nat /\ og \in Nat /\ po \in Nat
        /\ w => ps = row.stop
        /\ ~w => sp = row.stop
    BY <1>1 DEF Rows, None
  <2>4. /\ row.qty \in Nat /\ row.avg \in Nat /\ row.rungs \in 0 .. Len(Par.rungs)
        /\ row.st \in {"WATCHING", "HOLDING", "CLOSED"}
    BY <1>1, <1>2 DEF Rows
  <2> HIDE DEF pk, sp, ps, og, po
  <2>5. /\ lot' \in Lots /\ lot'.st = row.st /\ lot'.qty = row.qty /\ lot'.avg = row.avg
        /\ lot'.rungs = row.rungs /\ lot'.stop = sp /\ lot'.pStop = ps
    BY <2>2, <2>3, <2>4 DEF Lots
  <2> QED BY <1>2, <2>3, <2>5
<1>3. CASE ~(row.st \in {"WATCHING", "HOLDING"} \/ (row.st = "CLOSED" /\ Working))
  <2>1. lot' = NoLot
    BY <1>1, <1>3 DEF Hydrate, Working, OpenSt
  <2>2. row.st \in {"none", "CANCELLED"} => ~Working
    BY DEF IInv, RowOK
  <2> QED BY <1>1, <1>3, <2>1, <2>2, NewIsLot
<1> QED BY <1>2, <1>3

\* The restored lot is as good as the one that was lost.
LEMMA HydrateKeeps ==
  ASSUME IInv, Hydrate
  PROVE  IInv'
<1>1. /\ ~up /\ up' = TRUE
      /\ UNCHANGED <<tpl, joined, mem, row, day, minute, buy, sale, rec, main, crashes, hist>>
  BY Zenon DEF Hydrate
<1>2. lot = NoLot /\ main = Idle /\ rec = NoOrder /\ joined = 0 /\ crashes > 0
  BY <1>1 DEF IInv, DownOK
<1>3. lot' \in Lots
  BY HydrateEffect
<1>4. rec.left = 0 /\ rec.kind = "none" /\ ~Placing /\ ~Adding
  BY <1>2, NoOrderIs DEF Idle, Placing, Adding
<1>5. crashes \in Nat /\ row.qty \in Nat /\ row.rungs \in Nat /\ buy.left \in Nat /\ sale.left \in Nat
  BY Fields, Zenon DEF IInv
<1>6. TypeOK'
  BY <1>1, <1>3 DEF IInv, TypeOK, MemOK
<1>7. OrdersOK' /\ DownOK' /\ MainOK' /\ RowOK'
  BY <1>1, <1>4 DEF IInv, OrdersOK, DownOK, MainOK, RowOK, Placing, Working
<1>8. CASE lot' = NoLot /\ row.st \in {"none", "CANCELLED", "CLOSED"} /\ ~Working
  <2>1. lot'.st = "none" /\ lot'.qty = 0 /\ ~Entered'
    BY <1>8 DEF NoLot, Entered
  <2>2. LotOK' /\ BookOK'
    BY <1>1, <1>4, <1>8, <2>1 DEF LotOK, BookOK, IsOpen, OpenSt, Working
  <2>3. RungsOK' /\ StopsOK' /\ DayOK' /\ AddsOK'
    BY <1>1, <1>2, <1>4, <1>5, <2>1 DEF RungsOK, StopsOK, DayOK, AddsOK, Placing, Adding, Bought
  <2> QED BY <1>6, <1>7, <2>2, <2>3 DEF IInv
<1>9. CASE /\ row.st = "WATCHING" \/ row.st = "HOLDING" \/ (row.st = "CLOSED" /\ Working)
           /\ lot'.st = row.st /\ lot'.qty = row.qty /\ lot'.avg = row.avg
           /\ lot'.rungs = row.rungs
           /\ row.st = "WATCHING" => lot'.pStop = row.stop
           /\ row.st # "WATCHING" => lot'.stop = row.stop
  <2>1. /\ row.st = "WATCHING" => row.qty = 0 /\ sale.left = 0 /\ hist.trims = 0
        /\ row.st = "HOLDING" => row.qty > 0
        /\ row.st = "CLOSED" => row.qty = 0
    BY DEF IInv, RowOK
  <2>2. LotOK'
    <3>1. IsOpen(lot)' <=> row.st = "HOLDING"
      BY <1>9 DEF IsOpen, OpenSt
    <3>2. Entered' <=> row.st # "WATCHING"
      BY <1>9 DEF Entered
    <3>3. row.qty > 0 <=> row.st = "HOLDING"
      BY <1>5, <1>9, <2>1
    <3> QED BY <1>1, <1>4, <1>5, <1>9, <2>1, <3>1, <3>2, <3>3 DEF LotOK, Sold
  <2>3. BookOK'
    BY <1>1, <1>4, <1>9 DEF BookOK, Bought, Sold
  <2>4. RungsOK'
    <3> SUFFICES ASSUME ~hist.torn PROVE hist.trims <= lot'.rungs
      BY <1>1, <1>4, Fields DEF IInv, RungsOK, Placing
    <3>1. row.st # "WATCHING" => hist.trims <= row.rungs
      BY <1>1, <1>9, Zenon DEF IInv, RungsOK
    <3> QED BY <1>5, <1>9, <2>1, <3>1
  <2>5. StopsOK'
    <3>1. row.st = "WATCHING" /\ buy.left > 0 => Working
      BY <1>5 DEF Working
    <3> QED BY <1>1, <1>4, <1>9, <3>1 DEF IInv, StopsOK, Placing, Entered
  <2>6. DayOK' /\ AddsOK'
    BY <1>1, <1>2, <1>4, <1>5, <1>9 DEF IInv, DayOK, AddsOK, Placing, Adding, Bought
  <2> QED BY <1>6, <1>7, <2>2, <2>3, <2>4, <2>5, <2>6 DEF IInv
<1> QED BY <1>8, <1>9, HydrateEffect, Zenon

-----------------------------------------------------------------------------
(* The invariant.                                                           *)

\* A step of something else.
LEMMA StutterKeeps ==
  ASSUME IInv, UNCHANGED vars
  PROVE  IInv'
<1>1. UNCHANGED <<tpl, joined, lot, mem, row, day, minute, buy, sale, rec, main, up, crashes, hist>>
  BY DEF vars
<1>2. TypeOK' /\ OrdersOK' /\ DownOK' /\ MainOK'
  BY <1>1 DEF IInv, TypeOK, MemOK, OrdersOK, DownOK, MainOK, Placing, Entered
<1>3. RowOK' /\ LotOK' /\ BookOK'
  BY <1>1 DEF IInv, RowOK, LotOK, BookOK, Working, Entered, IsOpen
<1>4. RungsOK' /\ StopsOK'
  BY <1>1 DEF IInv, RungsOK, StopsOK, Working, Placing, Entered
<1>5. DayOK' /\ AddsOK'
  BY <1>1 DEF IInv, DayOK, AddsOK, Placing, Adding
<1> QED BY <1>2, <1>3, <1>4, <1>5 DEF IInv

\* The first state.
LEMMA InitHolds ==
  ASSUME Init
  PROVE  IInv
<1>1. /\ joined = 0 /\ lot = NoLot /\ mem = NoMem /\ row = NoRow /\ day = 1 /\ minute = 0
      /\ buy = NoOrder /\ sale = NoOrder /\ rec = NoOrder
      /\ main = Idle /\ up = TRUE /\ crashes = 0 /\ hist = NoHist
  BY DEF Init
<1>2. PICK t \in Templates : tpl = [strat |-> t.strat, scan |-> t.scan, on |-> ~t.scan]
  BY DEF Init
<1>3. t \in [strat : Strats, scan : BOOLEAN]
  BY LotAssumption
<1>4. tpl \in [strat : Strats, scan : BOOLEAN, on : BOOLEAN]
  BY <1>2, <1>3
<1>5. lot \in Lots /\ lot.st = "none" /\ lot.qty = 0
  BY <1>1, NewIsLot DEF NoLot
<1>6. row \in Rows /\ row.st = "none"
  BY <1>1, StrategyAssumption DEF NoRow, Rows, None
<1>7. buy \in Orders /\ buy.left = 0 /\ buy.kind = "none"
  BY <1>1, NoOrderIs
<1>8. main \in Mains /\ ~Placing /\ ~Adding
  BY <1>1 DEF Idle, Mains, Decisions, Kinds, Hold, None, Placing, Adding
<1>9. Minds(mem)
  BY <1>1 DEF Minds, NoMem, None
<1>10. hist \in Hists /\ hist.trims = 0
  BY <1>1 DEF NoHist, Hists
<1>11. ~Working /\ ~Entered /\ ~IsOpen(lot)
  BY <1>1, <1>5, <1>7 DEF Working, Entered, IsOpen, OpenSt
<1>12. TypeOK
  <2>1. day \in 1 .. MaxDay[tpl.strat] /\ joined \in 0 .. day /\ minute \in 0 .. LastMinute
    BY <1>1, <1>4, LotAssumption
  <2>2. crashes \in 0 .. MaxCrashes
    BY <1>1, LotAssumption
  <2> QED BY <1>1, <1>4, <1>5, <1>6, <1>7, <1>8, <1>9, <1>10, <2>1, <2>2 DEF TypeOK, MemOK
<1>13. OrdersOK /\ DownOK /\ MainOK /\ RowOK
  BY <1>1, <1>6, <1>7, <1>8, <1>11 DEF OrdersOK, DownOK, MainOK, RowOK
<1>14. LotOK /\ BookOK
  BY <1>1, <1>5, <1>6, <1>7, <1>11 DEF LotOK, BookOK
<1>15. RungsOK /\ StopsOK
  BY <1>1, <1>5, <1>6, <1>11 DEF RungsOK, StopsOK
<1>16. DayOK /\ AddsOK
  BY <1>1, <1>5, <1>7, <1>8 DEF DayOK, AddsOK, Bought
<1> QED BY <1>12, <1>13, <1>14, <1>15, <1>16 DEF IInv

\* A bar, decided or not.
LEMMA BarKeeps ==
  ASSUME IInv, NEW s \in Snaps[tpl.strat], NEW m \in 0 .. LastMinute, Bar(s, m)
  PROVE  IInv'
<1>1. /\ up /\ main.at = "idle" /\ minute' = m /\ prev' = s
      /\ ExpireScanLot(s) \/ Decide(s)
      /\ UNCHANGED <<day, buy, sale, rec, up, crashes>>
  BY Zenon DEF Bar
<1>2. CASE ExpireScanLot(s)
  BY <1>1, <1>2, ExpireKeeps
<1>3. CASE Decide(s)
  BY <1>1, <1>3, DecideKeeps
<1> QED BY <1>1, <1>2, <1>3

\* IInv is inductive.
LEMMA StepKeeps ==
  ASSUME IInv, [LotNext]_vars
  PROVE  IInv'
<1>1. CASE Join
  BY <1>1, JoinKeeps
<1>2. ASSUME NEW s \in Snaps[tpl.strat], NEW m \in 0 .. LastMinute, Bar(s, m)
      PROVE  IInv'
  BY <1>2, BarKeeps
<1>3. CASE Place
  BY <1>3, PlaceKeeps
<1>4. CASE EndBar
  BY <1>4, EndBarKeeps
<1>5. ASSUME NEW n \in 1 .. (buy.left + sale.left), FillBuy(n) \/ FillSale(n)
      PROVE  IInv'
  <2>1. n \in Nat \ {0}
    <3>1. buy.left \in Nat /\ sale.left \in Nat
      BY Fields, Zenon DEF IInv
    <3> QED BY <3>1
  <2> QED BY <1>5, <2>1, FillBuyKeeps, FillSaleKeeps
<1>6. CASE FillBooked
  BY <1>6, FillBookedKeeps
<1>7. CASE Night
  BY <1>7, NightKeeps
<1>8. CASE Crash
  BY <1>8, CrashKeeps
<1>9. CASE Hydrate
  BY <1>9, HydrateKeeps
<1>10. CASE UNCHANGED vars
  BY <1>10, StutterKeeps
<1> QED BY <1>1, <1>2, <1>3, <1>4, <1>5, <1>6, <1>7, <1>8, <1>9, <1>10 DEF LotNext

\* The three copies of a lot - memory, row, working orders - tell one story in every state.
THEOREM Invariant == LotSpec => []IInv
<1>1. Init => IInv
  BY InitHolds
<1>2. IInv /\ [LotNext]_vars => IInv'
  BY StepKeeps
<1> QED BY <1>1, <1>2, PTL DEF LotSpec

\* Every variable keeps its type, the quantities of a lot and of its row never negative.
THEOREM LotTypeCorrect == LotSpec => []LotTypeOK
<1>1. IInv => LotTypeOK
  <2> SUFFICES ASSUME IInv PROVE LotTypeOK
    OBVIOUS
  <2> QED BY Fields DEF IInv, TypeOK, LotTypeOK
<1> QED BY <1>1, Invariant, PTL

\* No rung of the ladder is sold twice (a trim without an answer, orders/manager.py, keeps
\* its rung), over part fills, nights and restarts that tear no bar, for any ladder.
THEOREM RungsSoldOnce == LotSpec => []NoRungTwice
<1>1. IInv => NoRungTwice
  <2> SUFFICES ASSUME IInv, lot.st # "none", ~hist.torn PROVE hist.trims <= lot.rungs
    BY DEF NoRungTwice
  <2>1. hist.trims + (IF Placing /\ main.d.kind = "TRIM" THEN 1 ELSE 0) <= lot.rungs
    BY Zenon DEF IInv, RungsOK
  <2>2. hist.trims \in Nat /\ lot.rungs \in Nat
    BY Fields, Zenon DEF IInv
  <2> QED BY <2>1, <2>2
<1> QED BY <1>1, Invariant, PTL

\* A lot bought on a stop never goes without it: not when its entry fills after a restart
\* nor when the engine dies between a fill's two halves, for every strategy but crash_momentum
\* (which has none) and any parameters.  Only a crash that tears a bar before its sync may lose it.
THEOREM StopsAreKept == LotSpec => []StopKept
<1>1. IInv => StopKept
  <2> SUFFICES ASSUME IInv, IsOpen(lot), tpl.strat # "crash", ~hist.torn PROVE lot.stop # None
    BY DEF StopKept
  <2>1. Entered
    BY Fields DEF IInv, IsOpen, OpenSt, Entered
  <2> QED BY <2>1, Zenon DEF IInv, StopsOK
<1> QED BY <1>1, Invariant, PTL

\* A booked add never lowers the average price (pullback_daily's "add to winners"), for any
\* number of adds, prices, part fills and restarts, unless a buy was filled between the
\* decision and the order.
THEOREM OnlyWinnersAreAdded == LotSpec => AddsToWinners
<1>1. IInv /\ [LotNext]_vars => (rec.kind = "ADD" /\ rec'.left = 0 /\ up' /\ lot.qty > 0 /\ ~hist.late
                                => lot'.avg >= lot.avg)
  <2> SUFFICES ASSUME IInv, [LotNext]_vars, rec.kind = "ADD", rec'.left = 0, up', lot.qty > 0, ~hist.late
               PROVE  lot'.avg >= lot.avg
    OBVIOUS
  <2>1. rec.left > 0 /\ lot.avg \in Nat /\ lot.qty \in Nat /\ rec.px \in Nat /\ rec.left \in Nat
    <3>1. lot.avg \in Nat /\ lot.qty \in Nat /\ rec.px \in Nat /\ rec.left \in Nat
      BY Fields, Zenon DEF IInv
    <3>2. rec.left # 0
      BY DEF IInv, OrdersOK
    <3> QED BY <3>1, <3>2
  <2>2. rec' # rec
    BY <2>1
  <2>3. CASE FillBooked
    <3>1. lot'.avg = row.avg /\ lot.st # "none"
      BY <2>3, FillEffect
    <3>2. row.avg = AvgOf(lot.avg, lot.qty, rec.px, rec.left)
      BY <3>1 DEF IInv, BookOK, Bought
    <3>3. rec.px >= lot.avg
      BY DEF IInv, AddsOK
    <3>4. lot.avg <= rec.px
      BY <2>1, <3>3
    <3>5. AvgOf(lot.avg, lot.qty, rec.px, rec.left) >= lot.avg
      BY <2>1, <3>4, AvgBetween
    <3> QED BY <3>1, <3>2, <3>5
  <2>4. ~Crash
    BY DEF Crash
  <2>5. ~Hydrate
    <3>1. up
      BY <2>1, NoOrderIs DEF IInv, DownOK
    <3> QED BY <3>1 DEF Hydrate
  <2>6. \A n : ~FillBuy(n) /\ ~FillSale(n)
    <3>1. rec.left # 0
      BY <2>1
    <3> QED BY <3>1, Zenon DEF FillBuy, FillSale
  <2>7. ~Join /\ ~Place /\ ~EndBar /\ ~Night /\ (\A s, m : ~Bar(s, m)) /\ ~UNCHANGED vars
    BY <2>2 DEF Join, Place, EndBar, Night, Bar, vars
  <2> QED BY <2>3, <2>4, <2>5, <2>6, <2>7 DEF LotNext
<1> QED BY <1>1, Invariant, PTL DEF LotSpec, AddsToWinners

\* A pick of the scanner buys on the day of its first bar or not at all (_one_shot), until
\* the engine is restarted, for any number of picks and days.
THEOREM PicksEnterOnTheirDay == LotSpec => EntersOnItsDay
<1>1. IInv /\ [LotNext]_vars => (tpl.scan /\ crashes = 0 /\ main.d.kind = "ENTER" /\ hist'.buys > hist.buys
                                => joined = day)
  <2> SUFFICES ASSUME IInv, [LotNext]_vars, tpl.scan, crashes = 0, main.d.kind = "ENTER",
                      hist'.buys > hist.buys
               PROVE  joined = day
    OBVIOUS
  <2>1. hist.buys \in Nat /\ hist \in Hists
    BY Fields, Zenon DEF IInv, TypeOK
  <2>2. hist' # hist /\ hist'.buys # hist.buys
    BY <2>1
  <2>3. CASE Placing
    BY <2>3, Zenon DEF IInv, DayOK
  <2>4. CASE ~Placing
    <3>1. ~Place
      BY <2>4 DEF Place, Placing
    <3>2. ~Join
      <4>1. Join => hist' = [hist EXCEPT !.joins = hist.joins + 1]
        BY Zenon DEF Join
      <4>2. \A x : [hist EXCEPT !.joins = x].buys = hist.buys
        BY <2>1 DEF Hists
      <4> QED BY <2>2, <4>1, <4>2, Zenon
    <3>3. ~EndBar /\ ~Night /\ ~Hydrate /\ ~UNCHANGED vars /\ \A n : ~FillBuy(n) /\ ~FillSale(n)
      BY <2>2 DEF EndBar, Night, Hydrate, FillBuy, FillSale, vars
    <3>4. ~FillBooked
      <4>1. FillBooked => \E x : hist' = [hist EXCEPT !.late = x]
        BY Zenon DEF FillBooked
      <4>2. \A x : [hist EXCEPT !.late = x].buys = hist.buys
        BY <2>1 DEF Hists
      <4> QED BY <2>2, <4>1, <4>2, Zenon
    <3>5. ~Crash
      <4>1. Crash => \E x : hist' = [hist EXCEPT !.torn = x]
        BY Zenon DEF Crash
      <4>2. \A x : [hist EXCEPT !.torn = x].buys = hist.buys
        BY <2>1 DEF Hists
      <4> QED BY <2>2, <4>1, <4>2, Zenon
    <3>6. \A s, m : ~Bar(s, m)
      <4> SUFFICES ASSUME NEW s, NEW m, Bar(s, m) PROVE FALSE
        OBVIOUS
      <4>1. \/ hist' = hist
            \/ hist' = [NoHist EXCEPT !.spawned = hist.spawned + 1, !.joins = hist.joins]
            \/ \E x : hist' = [hist EXCEPT !.held = x]
        BY Zenon DEF Bar, ExpireScanLot, Decide
      <4>2. \A x : [hist EXCEPT !.held = x].buys = hist.buys
        BY <2>1 DEF Hists
      <4>3. \A x, y : [NoHist EXCEPT !.spawned = x, !.joins = y].buys = 0
        BY DEF NoHist
      <4>4. hist'.buys # 0
        BY <2>1
      <4>5. CASE hist' = [NoHist EXCEPT !.spawned = hist.spawned + 1, !.joins = hist.joins]
        <5>1. hist'.buys = 0
          BY <4>3, <4>5, Zenon
        <5> QED BY <4>4, <5>1
      <4>6. CASE \E x : hist' = [hist EXCEPT !.held = x]
        <5>1. hist'.buys = hist.buys
          BY <4>2, <4>6, Zenon
        <5> QED BY <2>2, <5>1
      <4> QED BY <2>2, <4>1, <4>5, <4>6
    <3> QED BY <3>1, <3>2, <3>3, <3>4, <3>5, <3>6 DEF LotNext
  <2> QED BY <2>3, <2>4
<1> QED BY <1>1, Invariant, PTL DEF LotSpec, EntersOnItsDay
=============================================================================
