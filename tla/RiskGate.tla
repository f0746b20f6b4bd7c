------------------------------ MODULE RiskGate ------------------------------
(***************************************************************************)
(* The limits on new entries (RiskManager.check) and the figures they are  *)
(* checked against: open positions and exposure with the buys in flight,   *)
(* the day's realized profit, equity from a cached balance, and its high-  *)
(* water mark, of which the last two are rebuilt after a restart.          *)
(*                                                                         *)
(* Every ticker has one lot at a time and one working order at a time, of  *)
(* whole shares at whole prices, without costs.  A share is executed at    *)
(* the broker, then recorded in the fills table, then booked in memory.    *)
(* Ticks close the bar before them, so the first one of a day brings the   *)
(* last bar of an earlier day (Market).                                     *)
(***************************************************************************)
EXTENDS Integers, FiniteSets, Sequences, Functions

CONSTANTS Tickers, Prices, Sizes,
          Cash0,        \* money in the account
          MaxOpen, MaxExposure, LossLimit, LossPct, DrawPct,  \* the limits
          PeakStep,     \* a new peak is kept on disk when it is this much higher
          RiskDays,     \* bound: trading days
          MaxFills,     \* bound: shares that trade
          RiskCrashes   \* bound: restarts

ASSUME RiskAssumption ==
  /\ IsFiniteSet(Tickers) /\ Prices \subseteq Nat /\ Sizes \subseteq Nat \ {0} /\ Cash0 \in Nat
  /\ MaxOpen \in Nat /\ PeakStep \in Nat /\ DrawPct \in 0 .. 100

VARIABLES
  today, price,
  bucket,  \* the day of the bar a ticker's builder is building (0: none)
  ord,     \* the working order of each ticker
  account, \* cash at the broker
  fills,   \* the fills table
  row,     \* the positions table: the row of each ticker's lot
  lotNo,   \* the lot of each ticker
  audit,   \* the last risk.peak_equity in the audit log
  book,    \* TradingService's memory
  halted,  \* paused or stopped
  state    \* whether it runs, and what happened, for the properties

riskVars == <<today, price, bucket, ord, account, fills, row, lotNo, audit, book, halted, state>>

NoCash   == -1
NoOrd    == [side |-> "none", px |-> 0, day |-> 0, live |-> 0, done |-> 0, seen |-> 0]
Empty    == [qty |-> 0, avg |-> 0]
NoBook   == [lot |-> [t \in Tickers |-> Empty], left |-> [t \in Tickers |-> 0],
             date |-> 0, realized |-> 0, cash |-> NoCash, equity |-> 0, peak |-> 0]
Bigger(a, b) == IF a >= b THEN a ELSE b
Busy(t)  == ord[t].live + ord[t].done + ord[t].seen > 0
Worth(q, p) == SumFunctionOnSet([t \in Tickers |-> q[t] * p[t]], Tickers)

RiskInit ==
  /\ today = 1 /\ price = [t \in Tickers |-> 0] /\ bucket = [t \in Tickers |-> 0]
  /\ ord = [t \in Tickers |-> NoOrd] /\ account = Cash0 /\ fills = <<>>
  /\ row = [t \in Tickers |-> Empty] /\ lotNo = [t \in Tickers |-> 0]
  /\ audit = 0 /\ book = NoBook
  /\ halted \in BOOLEAN
  /\ state = [up |-> TRUE, crashes |-> 0, top |-> 0, late |-> FALSE]

-----------------------------------------------------------------------------
(* The average-cost account of a lot, which PositionLot.apply_fill keeps   *)
(* in memory, OrderManager in the positions table, and _restore_risk_state *)
(* computes again from the fills.                                          *)

Applied(l, f) ==
  IF f.side = "BUY"
  THEN [qty |-> l.qty + 1, avg |-> (l.avg * l.qty + f.px) \div (l.qty + 1)]
  ELSE [l EXCEPT !.qty = @ - 1]
Gain(l, f) == IF f.side = "SELL" THEN f.px - l.avg ELSE 0

\* What the replay of fill f leaves of a, the account of lot n of ticker t and its
\* profit of day d.
Replay(a, f, t, n, d) ==
  IF f.ticker = t /\ f.lot = n
  THEN [lot |-> Applied(a.lot, f), sum |-> a.sum + IF f.day = d THEN Gain(a.lot, f) ELSE 0]
  ELSE a

Unsold == [lot |-> Empty, sum |-> 0]

\* The account of the lot and its profit of the day after all of the fills, in order.
Replayed(fs, t, n, d) ==
  LET acc[i \in 0 .. Len(fs)] == IF i = 0 THEN Unsold ELSE Replay(acc[i - 1], fs[i], t, n, d)
  IN acc[Len(fs)]

\* What lot n of ticker t realized on day d.  (Mutant: by the fills of the day only.)
RealizedOfDay(t, n, d) == Replayed(SelectSeq(fills, LAMBDA f : f.day = d), t, n, d).sum
Realized(t, n, d)      == Replayed(fills, t, n, d).sum

Lots(t)     == 1 .. lotNo[t]
Restored(d) == SumFunctionOnSet([t \in Tickers |->
                  SumFunctionOnSet([n \in Lots(t) |-> Realized(t, n, d)], Lots(t))], Tickers)

-----------------------------------------------------------------------------
(* The snapshot and the gate.                                              *)

\* Open lots, and lots that will be when their buy fills.  (Mutant: only the open.)
OpenFilled(b) == Cardinality({t \in Tickers : b.lot[t].qty > 0})
OpenCount(b)  == Cardinality({t \in Tickers : b.lot[t].qty > 0 \/ (ord[t].side = "BUY" /\ b.left[t] > 0)})

Exposure(b, t, p) == b.lot[t].qty * p + (IF ord[t].side = "BUY" THEN b.left[t] * ord[t].px ELSE 0)

\* RiskManager.check of an entry: b has the figures of this bar.
Allowed(b, t, q, p) ==
  /\ ~halted
  /\ b.realized > -LossLimit
  /\ b.equity > 0 => 100 * b.realized > -(LossPct * b.equity)
  /\ 100 * b.equity > b.peak * (100 - DrawPct)
  /\ OpenCount(b) < MaxOpen
  /\ Exposure(b, t, p) + q * p <= MaxExposure

\* _cached_equity and _risk_snapshot: the balance is read again when the cached one
\* is old, if the broker answers; the holdings are always valued at last prices.
Valued(b, cash, p) ==
  LET e == IF cash = NoCash THEN 0 ELSE cash + Worth([t \in Tickers |-> b.lot[t].qty], p)
  IN [b EXCEPT !.cash = cash, !.equity = e, !.peak = Bigger(@, e)]

\* A bar of another day starts the day's profit again.
OnDay(b, d) == IF b.date = d THEN b ELSE [b EXCEPT !.date = d, !.realized = 0]

\* _persist_peak.  (Mutant: only the first peak is kept.)
PersistedOnce(peak) == IF audit = 0 THEN peak ELSE audit
Persisted(peak)     == IF peak > 0 /\ peak >= audit + PeakStep THEN peak ELSE audit

-----------------------------------------------------------------------------
\* The first tick of a ticker's builder.
FirstTick(t) ==
  /\ state.up /\ bucket[t] = 0
  /\ bucket' = [bucket EXCEPT ![t] = today]
  /\ UNCHANGED <<today, price, ord, account, fills, row, lotNo, audit, book, halted, state>>

Place(t, side, q, p) ==
  ord' = [ord EXCEPT ![t] = [side |-> side, px |-> p, day |-> today, live |-> q, done |-> 0, seen |-> 0]]

\* process, for a bar of ticker t that closed at p: the figures, then one order or
\* none.
Bar(t, p) ==
  /\ state.up /\ bucket[t] # 0
  /\ bucket' = [bucket EXCEPT ![t] = today]
  /\ price' = [price EXCEPT ![t] = p]
  /\ \E cash \in {account, book.cash} :
       LET b == Valued(OnDay(book, bucket[t]), cash, price') IN
       /\ audit' = Persisted(b.peak)
       /\ state' = [state EXCEPT !.top = Bigger(@, b.peak), !.late = @ \/ bucket[t] < today]
       /\ \/ /\ book' = b /\ UNCHANGED <<ord, row, lotNo>>
          \/ \E q \in Sizes :
               /\ ~Busy(t) /\ b.equity > 0 /\ Allowed(b, t, q, p)
               /\ Place(t, "BUY", q, p)
               /\ IF b.lot[t].qty = 0
                  THEN lotNo' = [lotNo EXCEPT ![t] = @ + 1] /\ row' = [row EXCEPT ![t] = Empty]
                  ELSE UNCHANGED <<row, lotNo>>
               /\ book' = [b EXCEPT !.left[t] = q]
          \/ /\ ~Busy(t) /\ b.lot[t].qty > 0
             /\ Place(t, "SELL", b.lot[t].qty, p)
             /\ book' = [b EXCEPT !.left[t] = b.lot[t].qty]
             /\ UNCHANGED <<row, lotNo>>
  /\ UNCHANGED <<today, account, fills, halted>>

-----------------------------------------------------------------------------
(* A share trades at the broker, reaches the table, reaches the book.      *)

Execute(t) ==
  /\ ord[t].live > 0 /\ ord[t].day = today
  /\ Len(fills) + SumFunctionOnSet([u \in Tickers |-> ord[u].done], Tickers) < MaxFills
  /\ ord' = [ord EXCEPT ![t].live = @ - 1, ![t].done = @ + 1]
  /\ account' = IF ord[t].side = "BUY" THEN account - ord[t].px ELSE account + ord[t].px
  /\ UNCHANGED <<today, price, bucket, fills, row, lotNo, audit, book, halted, state>>

FillOf(t) == [ticker |-> t, lot |-> lotNo[t], side |-> ord[t].side, px |-> ord[t].px,
              day |-> ord[t].day]

\* handle_fill, in one transaction.
Record(t) ==
  /\ state.up /\ ord[t].done > 0 /\ ord[t].seen = 0
  /\ fills' = Append(fills, FillOf(t))
  /\ row' = [row EXCEPT ![t] = Applied(@, FillOf(t))]
  /\ ord' = [ord EXCEPT ![t].done = @ - 1, ![t].seen = 1]
  /\ UNCHANGED <<today, price, bucket, account, lotNo, audit, book, halted, state>>

\* _on_fill: the lot, the cached cash, and the day's profit if the fill is of the
\* day the engine is in.
Booked(t) ==
  /\ state.up /\ ord[t].seen = 1
  /\ LET f == FillOf(t)
         l == book.lot[t]
     IN book' = [book EXCEPT
          !.lot[t] = Applied(l, f), !.left[t] = @ - 1,
          !.cash = IF @ = NoCash THEN @ ELSE @ + (IF f.side = "BUY" THEN -f.px ELSE f.px),
          !.realized = IF book.date = 0 \/ f.day >= book.date THEN @ + Gain(l, f) ELSE @]
  /\ ord' = [ord EXCEPT ![t].seen = 0]
  /\ UNCHANGED <<today, price, bucket, account, fills, row, lotNo, audit, halted, state>>

\* Day orders end; what they got is still to be recorded.
Night ==
  /\ today < RiskDays
  /\ today' = today + 1
  /\ ord' = [t \in Tickers |-> [ord[t] EXCEPT !.live = 0]]
  /\ book' = [book EXCEPT !.left = [t \in Tickers |-> ord[t].done + ord[t].seen]]
  /\ UNCHANGED <<price, bucket, account, fills, row, lotNo, audit, halted, state>>

Down ==
  /\ state.up /\ state.crashes < RiskCrashes
  /\ state' = [state EXCEPT !.up = FALSE, !.crashes = @ + 1]
  /\ book' = NoBook /\ price' = [t \in Tickers |-> 0] /\ bucket' = [t \in Tickers |-> 0]
  /\ ord' = [t \in Tickers |-> [ord[t] EXCEPT !.seen = 0]]
  /\ UNCHANGED <<today, account, fills, row, lotNo, audit, halted>>

\* The shares an open order has yet to bring, by its row and its fills.  (Mutant: by
\* what still works at the broker.)
OwedLive(t) == ord[t].live
Owed(t)     == ord[t].live + ord[t].done

\* hydrate with _restore_risk_state.
Hydrate ==
  /\ ~state.up
  /\ state' = [state EXCEPT !.up = TRUE, !.late = FALSE]
  /\ book' = [NoBook EXCEPT
       !.lot = row,
       !.left = [t \in Tickers |-> Owed(t)],
       !.date = today, !.realized = Restored(today), !.peak = audit]
  /\ price' = [t \in Tickers |-> row[t].avg]       \* valued at cost until a bar comes
  /\ UNCHANGED <<today, bucket, ord, account, fills, row, lotNo, audit, halted>>

RiskNext ==
  \/ \E t \in Tickers : \/ FirstTick(t) \/ Execute(t) \/ Record(t) \/ Booked(t)
                        \/ \E p \in Prices : Bar(t, p)
  \/ Night \/ Down \/ Hydrate

RiskSpec == RiskInit /\ [][RiskNext]_riskVars

-----------------------------------------------------------------------------
\* Every variable has its type; no lot is short.
RiskTypeOK ==
  /\ today \in 1 .. RiskDays /\ account \in Int
  /\ \A t \in Tickers : /\ bucket[t] \in 0 .. today
                        /\ book.lot[t].qty \in Nat /\ book.left[t] \in Nat
                        /\ ord[t].live \in Nat /\ ord[t].done \in Nat /\ ord[t].seen \in {0, 1}
  /\ Len(fills) <= MaxFills /\ audit \in Nat /\ book.peak \in Nat

\* "max_open_positions" holds of the account, not only of the book: tickers with
\* shares at the broker or a buy that can still trade, through fills that are on
\* their way, several entries in one minute, and restarts (service.py:1260-1275).
AtBroker(t) == row[t].qty + (IF ord[t].side = "BUY" THEN ord[t].live + ord[t].done ELSE 0)
OpenCapped  == Cardinality({t \in Tickers : AtBroker(t) > 0}) <= MaxOpen

\* The day's profit the limit is checked against is that of the fills table, whether
\* it was kept fill by fill or rebuilt after a restart (service.py:302-345, 985-991);
\* unless the bar of an earlier day has come in between.
LossKnown ==
  state.up /\ ~state.late /\ book.date = today /\ (\A t \in Tickers : ord[t].seen = 0)
    => book.realized = Restored(today)

\* No buy is sent while equity is below the floor under the highest peak the engine
\* ever used, restarts included; a restart forgets less than PeakStep.
Buys == \E t \in Tickers : ord'[t].side = "BUY" /\ ord'[t].live > ord[t].live
DrawdownSticks ==
  [][Buys => 100 * book'.equity > (state.top - PeakStep) * (100 - DrawPct)]_riskVars

\* limits.py: once the day's realized loss is at the limit, no new entry that day.
\* (Does not hold: the late bar of an earlier day clears it.)
DailyLossStops ==
  [][Buys /\ (\A t \in Tickers : ord[t].seen = 0) => Restored(today) > -LossLimit]_riskVars
=============================================================================
