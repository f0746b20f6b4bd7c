------------------------------ MODULE LotLife ------------------------------
(***************************************************************************)
(* The life of the lots of one slot (ticker, resolution): TradingService.  *)
(* process on each bar, PositionLot's state machine, and what of a lot     *)
(* survives a restart.  A lot lives three times -                          *)
(*   lot   in memory, with its strategy object (mem),                      *)
(*   row   in the positions table, written by OrderManager.handle_fill     *)
(*         (state, quantity, average) and by _sync_runtime (the rest),     *)
(*   and in the working orders (buy, sale), which outlive both.            *)
(* A bar is three steps: decide (evaluate), place (_handle_intent) and     *)
(* sync (_sync_runtime).  Fills arrive wherever they wait, and the engine  *)
(* may crash.                                                              *)
(*                                                                         *)
(* The order layer is LotService's: here an order is accepted, refused or  *)
(* left without an answer, and its fills come whole or in parts.           *)
(***************************************************************************)
EXTENDS Strategies, FiniteSets

CONSTANTS Templates,  \* watchlist entries to look at: [strat, scan (the scanner's)]
          Snaps,      \* Snaps[st]: the snapshots strategy st may be shown
          LastMinute, \* bound: parts of a trading day, 0 .. LastMinute
          MaxDay,     \* bound: MaxDay[st], trading days
          MaxLots,    \* bound: lots spawned
          MaxBuys,    \* bound: buys of a lot
          MaxJoins,   \* bound: times the scanner adds the ticker
          MaxCrashes, \* bound: restarts
          MaxOrder    \* max_order_notional, in shares: larger entries are cut

ASSUME LotAssumption ==
  /\ Templates \subseteq [strat : Strats, scan : BOOLEAN]
  /\ \A st \in Strats : /\ MaxDay[st] \in Nat \ {0}
                        /\ \A s \in Snaps[st] : /\ s.close \in Nat \ {0} /\ s.high \in Nat
                                               /\ s.low \in Nat /\ s.atr \in Nat
  /\ LastMinute \in Nat /\ MaxLots \in Nat /\ MaxBuys \in Nat /\ MaxJoins \in Nat
  /\ MaxCrashes \in Nat /\ MaxOrder \in Nat

VARIABLES
  tpl,      \* the watchlist entry: strategy, scanner or not, whether it is there
  joined,   \* _one_shot: the day of the first bar after joining (0: none yet)
  lot, mem, row, prev,
  day, minute,
  buy, sale,  \* the working orders of the lot
  rec,      \* a fill that is in the tables and not yet in the book
  main,     \* where the main task stands in a bar
  up, crashes,
  hist      \* what happened, for the properties

vars == <<tpl, joined, lot, mem, row, prev, day, minute, buy, sale, rec, main, up, crashes, hist>>

NoLot   == [st |-> "none", qty |-> 0, avg |-> 0, peak |-> None, held |-> 0, stop |-> None,
            orig |-> 0, rungs |-> 0, pStop |-> None, pOrig |-> 0]
NoRow   == [st |-> "none", qty |-> 0, avg |-> 0, peak |-> None, stop |-> None, orig |-> 0,
            rungs |-> 0]
NoOrder == [left |-> 0, px |-> 0, kind |-> "none", started |-> FALSE]
NoHist  == [ordered |-> 0, buys |-> 0, trims |-> 0, spawned |-> 0, joins |-> 0, torn |-> FALSE,
            late |-> FALSE, held |-> 0]
Idle    == [at |-> "idle", d |-> Hold, px |-> 0]
Bought  == {"ENTER", "ADD"}
Adding  == main.at = "place" /\ main.d.kind = "ADD"

IsOpen(l)     == l.st \in OpenSt
IsTerminal(l) == l.st \in EndSt

\* The columns _sync_runtime keeps: before the entry fill they hold what the
\* entry order intends.
Runtime(l) == [peak |-> l.peak, rungs |-> l.rungs,
               stop |-> IF l.st = "WATCHING" THEN l.pStop ELSE l.stop,
               orig |-> IF l.st = "WATCHING" THEN l.pOrig ELSE l.orig]
Synced(r, l) == [r EXCEPT !.peak = Runtime(l).peak, !.rungs = Runtime(l).rungs,
                          !.stop = Runtime(l).stop, !.orig = Runtime(l).orig]

Init ==
  /\ \E t \in Templates : tpl = [strat |-> t.strat, scan |-> t.scan, on |-> ~t.scan]
  /\ joined = 0
  /\ lot = NoLot /\ mem = NoMem /\ row = NoRow /\ prev = NoSnap
  /\ day = 1 /\ minute = 0
  /\ buy = NoOrder /\ sale = NoOrder /\ rec = NoOrder
  /\ main = Idle /\ up = TRUE /\ crashes = 0 /\ hist = NoHist

-----------------------------------------------------------------------------
(* The scanner adds the ticker for one turn (_join, add_template), after   *)
(* priming the indicators with the day's bars; never twice at a time.      *)

Join ==
  /\ up /\ tpl.scan /\ ~tpl.on /\ hist.joins < MaxJoins
  /\ minute \in Par.sessionOpen .. (Par.entryCutoff - 1)
  /\ \E s \in Snaps[tpl.strat] : prev' = s
  /\ tpl' = [tpl EXCEPT !.on = TRUE] /\ joined' = 0
  /\ hist' = [hist EXCEPT !.joins = @ + 1]
  /\ UNCHANGED <<lot, mem, row, day, minute, buy, sale, rec, main, up, crashes>>

-----------------------------------------------------------------------------
(* A bar: what process does before anything is placed.                     *)

\* A scanner's lot that did not enter on the day it joined is retired at the
\* first bar of a later day, with its template.  (Mutant: the day is off by one.)
ScanExpiresLate == /\ tpl.scan /\ tpl.on /\ joined # 0 /\ day > joined + 1
                   /\ lot.st = "WATCHING" /\ lot.qty = 0

ScanExpires == /\ tpl.scan /\ tpl.on /\ joined # 0 /\ day > joined
               /\ lot.st = "WATCHING" /\ lot.qty = 0

\* A scanner's template goes when its lot is over; any other lot is followed by
\* a new one, with a new strategy object.
ScanEnds == tpl.scan /\ tpl.on /\ IsTerminal(lot)
Spawns   == tpl.on /\ ~ScanEnds /\ (lot.st = "none" \/ IsTerminal(lot))
NewLot   == [NoLot EXCEPT !.st = "WATCHING"]

\* on_bar: time passes for an open lot, and the peak of its highs ratchets up.
\* (Bars are counted up to the longest hold.)
HeldCap     == Most(Par.holdDays, Par.maxHold)
OnBar(l, s) == IF IsOpen(l) THEN [l EXCEPT !.held = Least(@ + 1, HeldCap), !.peak = Most(@, s.high)]
               ELSE l

\* PositionLot.evaluate: what an entry intends is kept for its fill; a rung
\* counts as taken when it is decided.  (Mutant: it does not.)
EvaluatedNoRung(l, d) ==
  IF d.kind = "ENTER" THEN [l EXCEPT !.pStop = IF d.stop # None THEN d.stop ELSE @, !.pOrig = d.qty]
  ELSE l

Evaluated(l, d) ==
  CASE d.kind = "ENTER" -> [l EXCEPT !.pStop = IF d.stop # None THEN d.stop ELSE @,
                                     !.pOrig = d.qty]
    [] d.rung           -> [l EXCEPT !.rungs = @ + 1]
    [] OTHER            -> l

ExpireScanLot(s) ==
  /\ ScanExpires
  /\ row' = [row EXCEPT !.st = "CANCELLED"] /\ lot' = NoLot
  /\ tpl' = [tpl EXCEPT !.on = FALSE] /\ joined' = 0
  /\ UNCHANGED <<mem, main, hist>>

Decide(s) ==
  /\ ~ScanExpires
  /\ Spawns => hist.spawned < MaxLots /\ buy.left + sale.left + rec.left = 0
  /\ tpl'    = [tpl EXCEPT !.on = @ /\ ~ScanEnds]
  /\ joined' = IF tpl.scan /\ tpl.on /\ ~ScanEnds THEN (IF joined = 0 THEN day ELSE joined) ELSE 0
  /\ LET old == IF Spawns THEN NewLot ELSE OnBar(lot, s)
         c0  == [s |-> s, prev |-> prev, lot |-> old, day |-> day, minute |-> minute',
                 mem |-> IF Spawns THEN NoMem ELSE mem]
         c   == [c0 EXCEPT !.mem = Observed(tpl.strat, c0)]
         d   == Decision(tpl.strat, c)
         cold == s.n < Warmup(tpl.strat) \/ old.st = "none"
     IN IF cold
        THEN /\ lot' = old /\ mem' = c0.mem
             /\ main' = IF old.st = "none" THEN Idle ELSE [Idle EXCEPT !.at = "sync"]
        ELSE /\ lot' = Evaluated(old, d) /\ mem' = Remembered(tpl.strat, c, d)
             /\ main' = [at |-> IF d.kind = "HOLD" THEN "sync" ELSE "place", d |-> d, px |-> s.close]
  /\ row'  = IF Spawns THEN [NoRow EXCEPT !.st = "WATCHING"] ELSE row
  /\ hist' = IF Spawns THEN [NoHist EXCEPT !.spawned = hist.spawned + 1, !.joins = hist.joins]
             ELSE [hist EXCEPT !.held = IF IsOpen(lot) THEN Least(@ + 1, HeldCap) ELSE @]

Bar(s, m) ==
  /\ up /\ main.at = "idle" /\ m > minute
  /\ tpl.strat = "crash" => minute = 0              \* one daily bar
  /\ minute' = m /\ prev' = s
  /\ ExpireScanLot(s) \/ Decide(s)
  /\ UNCHANGED <<day, buy, sale, rec, up, crashes>>

-----------------------------------------------------------------------------
(* _handle_intent and _submit.                                             *)

\* The order is taken, refused, or there is no answer, whether it arrived or not:
\* then the bar is given up and nothing of it is synced.
Accepted == main' = [main EXCEPT !.at = "sync"]
NoAnswer == main' = Idle
Order(kind, q) == [left |-> q, px |-> main.px, kind |-> kind, started |-> FALSE]

\* An entry: skipped while a buy is working; stopped by the regime or a risk
\* limit; cut to the limit - and then the ladder's basis is the cut size.
SkipEntry ==
  /\ main.d.kind \in Bought
  /\ main' = [main EXCEPT !.at = "sync"]
  /\ UNCHANGED <<lot, buy, sale, hist>>

CutQty == Least(main.d.qty, MaxOrder)
Rebased == IF main.d.kind = "ENTER" /\ CutQty < main.d.qty
           THEN [lot EXCEPT !.pOrig = CutQty] ELSE lot

PlaceEntry ==
  /\ main.d.kind \in Bought /\ buy.left = 0 /\ CutQty > 0
  /\ hist.buys < MaxBuys
  /\ lot' = Rebased
  /\ buy' = Order(main.d.kind, CutQty)
  /\ hist' = IF main.d.kind = "ENTER"
             THEN [hist EXCEPT !.buys = @ + 1, !.ordered = CutQty]
             ELSE [hist EXCEPT !.buys = @ + 1, !.late = @ \/ rec.kind \in Bought]
  /\ Accepted \/ NoAnswer
  /\ UNCHANGED sale

RefusedEntry ==
  /\ main.d.kind \in Bought /\ buy.left = 0 /\ CutQty > 0
  /\ lot' = Rebased /\ Accepted
  /\ UNCHANGED <<buy, sale, hist>>

\* A trim does not go out while a sale is working, or is refused: its rung is
\* given back.
GiveBack ==
  /\ main.d.kind = "TRIM"
  /\ lot' = [lot EXCEPT !.rungs = @ - 1]
  /\ main' = [main EXCEPT !.at = "sync"]
  /\ UNCHANGED <<buy, sale, hist>>

\* (Mutant: a trim without an answer gives its rung back.)
PlaceTrimGivesBack ==
  /\ main.d.kind = "TRIM" /\ sale.left = 0
  /\ sale' = Order("TRIM", main.d.qty)
  /\ hist' = [hist EXCEPT !.trims = @ + 1]
  /\ \/ Accepted /\ UNCHANGED lot
     \/ NoAnswer /\ lot' = [lot EXCEPT !.rungs = @ - 1]
  /\ UNCHANGED buy

PlaceTrim ==
  /\ main.d.kind = "TRIM" /\ sale.left = 0
  /\ sale' = Order("TRIM", main.d.qty)
  /\ hist' = [hist EXCEPT !.trims = @ + 1]
  /\ Accepted \/ NoAnswer
  /\ UNCHANGED <<lot, buy>>

Unheard ==
  /\ NoAnswer
  /\ UNCHANGED <<lot, buy, sale, hist>>

\* An exit cancels the lot's buy, and replaces its working sale.
PlaceExit ==
  /\ main.d.kind = "EXIT" /\ rec.left = 0
  /\ buy' = NoOrder
  /\ sale' \in {Order("EXIT", lot.qty), NoOrder}
  /\ Accepted \/ NoAnswer
  /\ UNCHANGED <<lot, hist>>

Place ==
  /\ main.at = "place"
  /\ SkipEntry \/ PlaceEntry \/ RefusedEntry \/ GiveBack \/ PlaceTrim \/ PlaceExit \/ Unheard
  /\ UNCHANGED <<tpl, joined, mem, row, prev, day, minute, rec, up, crashes>>

EndBar ==
  /\ main.at = "sync"
  /\ main' = Idle /\ row' = Synced(row, lot)
  /\ UNCHANGED <<tpl, joined, lot, mem, prev, day, minute, buy, sale, rec, up, crashes, hist>>

-----------------------------------------------------------------------------
(* Fills: OrderManager.handle_fill, then _on_fill.                         *)

\* Between deciding and placing the main task waits only to look at an order that
\* holds its lock, to cancel one, or to tell of a cut.
Waits ==
  \/ main.at # "place" \/ main.d.kind = "EXIT"
  \/ main.d.kind = "TRIM" /\ (sale.left > 0 \/ rec.kind \in {"TRIM", "EXIT"})
  \/ /\ main.d.kind \in Bought
     /\ buy.left > 0 \/ rec.kind \in Bought \/ CutQty < main.d.qty

AvgOf(a, n, px, q) == (a * n + px * q) \div (n + q)

\* handle_fill: the order, and the position's projection.
FillRow(r, side, n, px) ==
  IF side = "BUY"
  THEN [r EXCEPT !.avg = AvgOf(@, r.qty, px, n), !.qty = @ + n,
                 !.st = IF @ \in {"WATCHING", "CLOSED"} THEN "HOLDING" ELSE @]
  ELSE [r EXCEPT !.qty = @ - n, !.st = IF r.qty = n THEN "CLOSED" ELSE @]

FillBuy(n) ==
  /\ Waits /\ rec.left = 0 /\ n \in 1 .. buy.left
  /\ buy' = IF n = buy.left THEN NoOrder ELSE [buy EXCEPT !.left = @ - n, !.started = TRUE]
  /\ row' = FillRow(row, "BUY", n, buy.px)
  /\ rec' = [buy EXCEPT !.left = n]
  /\ up
  /\ UNCHANGED <<tpl, joined, lot, mem, prev, day, minute, sale, main, up, crashes, hist>>

FillSale(n) ==
  /\ Waits /\ rec.left = 0 /\ n \in 1 .. Least(sale.left, row.qty)
  /\ sale' = IF n = sale.left THEN NoOrder ELSE [sale EXCEPT !.left = @ - n]
  /\ row' = FillRow(row, "SELL", n, sale.px)
  /\ rec' = [sale EXCEPT !.left = n]
  /\ up
  /\ UNCHANGED <<tpl, joined, lot, mem, prev, day, minute, buy, main, up, crashes, hist>>

\* apply_fill: the entry fill opens the lot with what the entry intended.
Filled(l, f) ==
  CASE f.kind \in Bought /\ l.st = "WATCHING" ->
         [l EXCEPT !.st = "HOLDING", !.avg = f.px, !.qty = f.left,
                   !.peak = IF @ = None THEN f.px ELSE @,
                   !.stop = IF l.pStop # None THEN l.pStop ELSE @,
                   !.orig = IF l.pOrig # 0 THEN l.pOrig ELSE f.left]
    [] f.kind \in Bought /\ l.st # "WATCHING" ->
         [l EXCEPT !.avg = AvgOf(@, l.qty, f.px, f.left), !.qty = @ + f.left,
                   !.st = IF @ = "CLOSED" THEN "HOLDING"
                          ELSE IF f.kind = "ADD" /\ @ = "HOLDING" THEN "SCALING" ELSE @]
    [] OTHER ->
         [l EXCEPT !.qty = @ - f.left, !.st = IF l.qty = f.left THEN "CLOSED" ELSE @]

\* _on_fill, with the _sync_runtime at its end.
FillBooked ==
  /\ rec.left > 0 /\ up /\ Waits
  /\ lot' = Filled(lot, rec) /\ row' = Synced(row, lot')
  /\ rec' = NoOrder
  /\ hist' = [hist EXCEPT !.late = @ \/ (Adding /\ rec.kind \in Bought)]
  /\ UNCHANGED <<tpl, joined, mem, prev, day, minute, buy, sale, main, up, crashes>>

-----------------------------------------------------------------------------
(* The night, and a restart.                                               *)

\* Day orders end; expire_stale_orders drops their locks before the first bar.
Night ==
  /\ day < MaxDay[tpl.strat] /\ rec.left = 0 /\ main.at = "idle" /\ minute > 0
  /\ day' = day + 1 /\ minute' = 0 /\ buy' = NoOrder /\ sale' = NoOrder
  /\ UNCHANGED <<tpl, joined, lot, mem, row, prev, rec, main, up, crashes, hist>>

\* A crash loses the book.  It tears a lot that has an order or shares the
\* persisted columns do not answer for: its bar was not synced.
Torn == /\ lot.st # "none" /\ (buy.left + sale.left > 0 \/ row.st \in OpenSt)
        /\ Synced(row, lot) # [row EXCEPT !.peak = lot.peak]

Crash ==
  /\ up /\ main.at # "place" /\ crashes < MaxCrashes
  /\ up' = FALSE /\ crashes' = crashes + 1
  /\ lot' = NoLot /\ mem' = NoMem /\ prev' = NoSnap /\ main' = Idle /\ rec' = NoOrder
  /\ joined' = 0 /\ tpl' = [tpl EXCEPT !.on = ~tpl.scan]
  /\ hist' = [hist EXCEPT !.torn = @ \/ Torn]
  /\ UNCHANGED <<row, day, minute, buy, sale>>

\* hydrate and _lot_from_row: a lot that is watching gets its entry's intent back
\* from the same columns.  What the strategy remembered, and how long the lot
\* has been held, are not kept; the scanner's template is not either.  A closed
\* lot comes back for its working order only.  (Mutant: the intent is not
\* restored.)
FromRowNoIntent(r) ==
  [st |-> r.st, qty |-> r.qty, avg |-> r.avg, held |-> 0, rungs |-> r.rungs,
   peak |-> IF r.peak # None THEN r.peak ELSE r.avg,
   stop |-> IF r.st = "WATCHING" THEN None ELSE r.stop, pStop |-> None,
   orig |-> IF r.orig > 0 THEN r.orig ELSE r.qty, pOrig |-> 0]

FromRow(r) ==
  LET w == r.st = "WATCHING" IN
  [st |-> r.st, qty |-> r.qty, avg |-> r.avg, held |-> 0, rungs |-> r.rungs,
   peak |-> IF r.peak # None THEN r.peak ELSE r.avg,
   stop |-> IF w THEN None ELSE r.stop, pStop |-> IF w THEN r.stop ELSE None,
   orig |-> IF r.orig > 0 THEN r.orig ELSE r.qty, pOrig |-> IF w THEN r.orig ELSE 0]

Hydrate ==
  /\ ~up /\ up' = TRUE
  /\ lot' = IF row.st \in OpenSt \cup {"WATCHING"} \/ (row.st = "CLOSED" /\ buy.left + sale.left > 0)
            THEN FromRow(row) ELSE NoLot
  /\ \E s \in Snaps[tpl.strat] \cup {NoSnap} : prev' = s
  /\ UNCHANGED <<tpl, joined, mem, row, day, minute, buy, sale, rec, main, crashes, hist>>

-----------------------------------------------------------------------------
LotNext ==
  \/ Join
  \/ \E s \in Snaps[tpl.strat], m \in 0 .. LastMinute : Bar(s, m)
  \/ Place \/ EndBar
  \/ \E n \in 1 .. (buy.left + sale.left) : FillBuy(n) \/ FillSale(n)
  \/ FillBooked \/ Night \/ Crash \/ Hydrate

LotSpec == Init /\ [][LotNext]_vars

-----------------------------------------------------------------------------
\* Every variable has its type.
LotTypeOK ==
  /\ tpl \in [strat : Strats, scan : BOOLEAN, on : BOOLEAN]
  /\ joined \in 0 .. day /\ day \in 1 .. MaxDay[tpl.strat] /\ minute \in 0 .. LastMinute
  /\ lot.st \in {"none", "WATCHING", "HOLDING", "SCALING", "CLOSED"} /\ lot.qty \in Nat
  /\ row.st \in {"none", "WATCHING", "HOLDING", "CLOSED", "CANCELLED"} /\ row.qty \in Nat
  /\ lot.rungs \in 0 .. Len(Par.rungs)
  /\ main.at \in {"idle", "place", "sync"}
  /\ up \in BOOLEAN /\ crashes \in 0 .. MaxCrashes

\* A lot bought on a stop never goes without it: not when the entry fills after
\* a restart, nor when the engine dies between the fill's two halves.  (A crash
\* that tears the bar of the entry itself does lose the stop.)
StopKept == /\ IsOpen(lot) /\ tpl.strat # "crash" /\ ~hist.torn
            => lot.stop # None

\* No rung of the ladder is sold twice: every trim that went out is a rung taken,
\* though a trim without an answer may have taken a rung for nothing.
NoRungTwice == lot.st # "none" /\ ~hist.torn => hist.trims <= lot.rungs

\* Shares are only added to a winner (pullback_daily.py:211-221): an add never lowers the
\* average price, over partial fills and restarts, unless a buy was filled between its
\* decision and its order.
AddsToWinners == [][rec.kind = "ADD" /\ rec'.left = 0 /\ up' /\ lot.qty > 0 /\ ~hist.late
                    => lot'.avg >= lot.avg]_vars

\* "No averaging down": without that exception.  (Does not hold: the rest of an earlier
\* add, filled while the next one is placed, lifts the average above the new price.)
NeverAveragesDown == [][rec.kind = "ADD" /\ rec'.left = 0 /\ up' /\ lot.qty > 0
                        => lot'.avg >= lot.avg]_vars

\* A pick enters on the day of its first bar or not at all, unless the engine was
\* restarted (a restored lot has no day).
EntersOnItsDay ==
  [][tpl.scan /\ crashes = 0 /\ main.d.kind = "ENTER" /\ hist'.buys > hist.buys
     => joined = day]_vars

\* "rebase_entry_qty": the ladder's fractions are of the size that was ordered.
\* (Does not hold: an entry decided again while the first one works resets it.)
LadderBasis == IsOpen(lot) /\ hist.ordered # 0 => lot.orig = hist.ordered

\* "hold_days": a crash_momentum lot is sold once it was held for that many bars.
\* (Does not hold: the count is not kept over a restart.)
HoldExpires == tpl.strat = "crash" /\ main.at = "sync" /\ hist.held >= Par.holdDays
               => main.d.kind = "EXIT"
=============================================================================
