----------------------------- MODULE LotService -----------------------------
(***************************************************************************)
(* TradingService: the in-memory book of one slot (ticker, resolution),    *)
(* the tables it is projected into, and the broker behind them.  Two tasks *)
(* share the book and interleave at every await:                           *)
(*   the main task   process: strategy intents, the emergency liquidation  *)
(*                   (_flat_all), submit, cancel, refresh of fills;        *)
(*   the poll loop   UnknownOrderResolver, then FillPoller.                *)
(* A fill reaches the tables first (OrderManager.handle_fill) and the book *)
(* in a later step (_on_fill).  The main task's steps are at least as fine *)
(* as its awaits.                                                          *)
(*                                                                         *)
(* One trading day of KRX orders; OrderFlow has the nights, the numbers    *)
(* and the wrong adoptions, so here the resolver adopts the right order.   *)
(* Prices, fees and risk limits are left out: intents are free choices.    *)
(* HOLDING stands for every open state of a lot (HOLDING, SCALING,         *)
(* EXITING).  A definition marked "Mutant" is a slip of the one that       *)
(* follows it, for testing the properties.                                 *)
(***************************************************************************)
EXTENDS Naturals, Functions, FiniteSetsExt

CONSTANTS MaxLots,      \* bound: lots spawned in the slot
          MaxOrders,    \* bound: orders submitted
          MaxQty,       \* bound: shares of an order
          MaxCrashes,   \* bound: engine crashes
          LostAnswers,  \* may the answer to a submit be lost
          Capped        \* is there a limit (max_order_notional) that cuts entries

ASSUME LotAssumption ==
  /\ MaxLots \in Nat \ {0} /\ MaxOrders \in Nat /\ MaxQty \in Nat /\ MaxCrashes \in Nat
  /\ LostAnswers \in BOOLEAN /\ Capped \in BOOLEAN

VARIABLES
  ord,      \* the orders table
  row,      \* the positions table
  brk,      \* what the broker has of each order
  lot,      \* the lots in memory: _lots_by_id
  slot,     \* the lot in the management slot (0: none): _lots
  pending,  \* the order that locks a (lot, side) (0: none): _pending
  meta,     \* shares counted of each order the book follows: _co_map
  barrier,  \* _refresh_before_sell, _unconfirmed_buy_cancels, _startup_refresh_pending
  stopped,  \* the emergency stop was pressed (the kill-switch mark)
  flatReq,  \* flat_all_requested
  phase,    \* the engine: down, hydrating, up, done
  main,     \* where the main task stands
  poll,     \* the FillPoller, held by one task at a time
  relock,   \* adopted orders on_adopt has not been called for
  crashes

table   == <<ord, row>>
book    == <<lot, slot, pending, meta, barrier>>
control == <<stopped, flatReq, phase, crashes>>
vars    == <<table, brk, book, control, main, poll, relock>>

Lots    == 1 .. MaxLots
Orders  == 1 .. MaxOrders
Sides   == {"BUY", "SELL"}
Keys    == Lots \X Sides
Open    == {"PENDING_NEW", "UNKNOWN", "NEW", "PARTIALLY_FILLED"}
Final   == {"FILLED", "CANCELLED", "REJECTED", "EXPIRED"}
LotSt   == {"none", "WATCHING", "HOLDING", "CLOSED", "CANCELLED"}

NoOrder == [st |-> "none", no |-> FALSE, adopted |-> FALSE, filled |-> 0,
            lot |-> 1, side |-> "BUY", qty |-> 0]
NoLot   == [st |-> "none", qty |-> 0]
NoFill  == [at |-> "none", o |-> 0, n |-> 0, old |-> 0]
NoPoll  == [by |-> "none", recs |-> {}, fill |-> NoFill]
Idle    == [at |-> "idle", job |-> "none", lot |-> 0, side |-> "BUY", qty |-> 0,
            order |-> 0, then |-> "none", keys |-> {}, lots |-> {}]
Clear   == [sell |-> {}, buy |-> {}, start |-> FALSE]

Unused  == {o \in Orders : ord[o].st = "none"}
Spare   == \E o, p \in Unused : o # p      \* the last order is left to the liquidation
KeyOf(o)     == <<ord[o].lot, ord[o].side>>
Terminal(l)  == lot[l].st \in {"CLOSED", "CANCELLED"}
Tracked      == {l \in Lots : lot[l].st # "none"}
Without(f, o) == Restrict(f, DOMAIN f \ {o})
With(f, o, n) == [x \in DOMAIN f \cup {o} |-> IF x = o THEN n ELSE f[x]]

\* is_flat: nothing held, nothing pending, no unconfirmed fills.  (Mutant: locks
\* do not count.)
HoldsNothing == /\ \A l \in Lots : lot[l].qty = 0
                /\ barrier.buy = {} /\ ~barrier.start

IsFlat == /\ \A l \in Lots : lot[l].qty = 0
          /\ \A k \in Keys : pending[k] = 0
          /\ barrier.buy = {} /\ ~barrier.start

\* Every variable has its type; no order records more shares than it asked for.
TypeOK ==
  /\ ord \in [Orders -> [st : Open \cup Final \cup {"none"}, no : BOOLEAN, adopted : BOOLEAN,
                         filled : Nat, lot : Lots, side : Sides, qty : Nat]]
  /\ \A o \in Orders : ord[o].filled <= ord[o].qty
  /\ row \in [Lots -> [st : LotSt, qty : Nat]]
  /\ brk \in [Orders -> [at : {"none", "flight", "lost", "refused", "live", "gone"}, exec : Nat]]
  /\ lot \in [Lots -> [st : LotSt, qty : Nat]]
  /\ slot \in Lots \cup {0}
  /\ pending \in [Keys -> Orders \cup {0}]
  /\ DOMAIN meta \subseteq Orders /\ \A o \in DOMAIN meta : meta[o] \in Nat
  /\ barrier \in [sell : SUBSET Lots, buy : SUBSET Lots, start : BOOLEAN]
  /\ stopped \in BOOLEAN /\ flatReq \in BOOLEAN /\ crashes \in Nat
  /\ phase \in {"down", "hydrating", "up", "done"}
  /\ main.at \in {"idle", "bar", "sweep", "lots", "sell", "lock", "send", "ack", "entry",
                  "cancel", "cancelling", "cancelled", "refresh", "polling"}
  /\ poll.by \in {"none", "main", "loop"}
  /\ relock \subseteq Orders

Init ==
  /\ ord = [o \in Orders |-> NoOrder]
  /\ row = [l \in Lots |-> NoLot]
  /\ brk = [o \in Orders |-> [at |-> "none", exec |-> 0]]
  /\ lot = [l \in Lots |-> NoLot] /\ slot = 0
  /\ pending = [k \in Keys |-> 0] /\ meta = <<>> /\ barrier = Clear
  /\ stopped = FALSE /\ flatReq = FALSE /\ phase = "up" /\ crashes = 0
  /\ main = Idle /\ poll = NoPoll /\ relock = {}

-----------------------------------------------------------------------------
(* Orders: submit and the locks.                                           *)

\* _release_if_terminal, when it returns true: a lock whose order is over goes.
\* (Mutant: an UNKNOWN order is over.)
ReleasableIfUnknown(k) == pending[k] # 0 /\ ord[pending[k]].st \in Final \cup {"UNKNOWN"}

Releasable(k) == pending[k] # 0 /\ ord[pending[k]].st \in Final
LockFree(k)   == pending[k] = 0 \/ Releasable(k)
Release(k)    == /\ pending' = [pending EXCEPT ![k] = 0]
                 /\ meta' = Without(meta, pending[k])

\* Where the main task (m: its state) goes when a submit is over.
Over(m) == IF m.job = "flat" THEN [m EXCEPT !.at = "lots"] ELSE Idle

\* _submit, from the free lock to the first await of OrderManager.submit, which
\* has written the row by then.  (At the bound on orders the task waits.)
Send(m) ==
  \/ /\ Unused = {}
     /\ main' = [m EXCEPT !.at = "send"]
     /\ UNCHANGED <<table, brk, book, control, poll, relock>>
  \/ /\ Unused # {}
     /\ LET o == Min(Unused)
            k == <<m.lot, m.side>>
        IN
        /\ ord' = [ord EXCEPT ![o] = [NoOrder EXCEPT !.st = "PENDING_NEW", !.lot = m.lot,
                                      !.side = m.side, !.qty = m.qty]]
        /\ brk' = [brk EXCEPT ![o].at = "flight"]
        /\ pending' = [pending EXCEPT ![k] = o]
        /\ meta' = With(Without(meta, pending[k]), o, 0)
        /\ main' = [m EXCEPT !.at = "ack", !.order = o]
     /\ UNCHANGED <<row, lot, slot, barrier, control, poll, relock>>

Ack ==
  /\ main.at = "ack" /\ brk[main.order].at \in {"live", "gone"}
  /\ ord' = [ord EXCEPT ![main.order].no = TRUE, ![main.order].st = "NEW"]
  /\ main' = Over(main)
  /\ UNCHANGED <<row, brk, book, control, poll, relock>>

Refused ==
  /\ main.at = "ack" /\ brk[main.order].at = "refused"
  /\ ord' = [ord EXCEPT ![main.order].st = "REJECTED"]
  /\ pending' = [pending EXCEPT ![KeyOf(main.order)] = 0]
  /\ meta' = Without(meta, main.order)
  /\ main' = Over(main)
  /\ UNCHANGED <<row, brk, lot, slot, barrier, control, poll, relock>>

\* No answer: the order is UNKNOWN, its lock stays, and the bar is given up.
TimesOut ==
  /\ main.at = "ack" /\ LostAnswers
  /\ ord' = [ord EXCEPT ![main.order].st = "UNKNOWN"]
  /\ main' = Idle
  /\ UNCHANGED <<row, brk, book, control, poll, relock>>

-----------------------------------------------------------------------------
(* A bar while running: spawn, and the intents of the slot's lot.          *)

\* process looks at the control switch once; one intent is handled in a bar.
Bar ==
  /\ phase = "up" /\ main.at = "idle" /\ ~flatReq /\ ~stopped
  /\ main' = [Idle EXCEPT !.at = "bar"]
  /\ UNCHANGED <<table, brk, book, control, poll, relock>>

BarEnds ==
  /\ main.at = "bar" /\ main' = Idle
  /\ UNCHANGED <<table, brk, book, control, poll, relock>>

Spawn ==
  /\ main.at = "bar"
  /\ slot # 0 => Terminal(slot)
  /\ \E l \in Lots :
       /\ row[l].st = "none" /\ \A k \in 1 .. (l - 1) : row[k].st # "none"
       /\ row' = [row EXCEPT ![l].st = "WATCHING"]
       /\ lot' = [lot EXCEPT ![l].st = "WATCHING"]
       /\ slot' = l
  /\ UNCHANGED <<ord, brk, pending, meta, barrier, control, main, poll, relock>>

\* An entry needs a lock that is free, or left by a finished order (and released).
MayEnter == /\ main.at = "bar" /\ Spare /\ slot # 0
            /\ lot[slot].st \in {"WATCHING", "HOLDING"}
            /\ LockFree(<<slot, "BUY">>)

Entry(q) == [Idle EXCEPT !.job = "enter", !.lot = slot, !.side = "BUY", !.qty = q]

\* RiskManager.check lets no entry through once stopped.
Enter(q) == MayEnter /\ ~stopped /\ Send(Entry(q))

\* An entry that is cut to the limit notifies first, and only then looks at the
\* control switch and takes the lock.  (Mutant: it looked before.)
CutEntry(q) ==
  /\ MayEnter /\ Capped
  /\ main' = [Entry(q) EXCEPT !.at = "entry"]
  /\ UNCHANGED <<table, brk, book, control, poll, relock>>

EnterUnchecked ==
  /\ main.at = "entry"
  /\ IF ~LockFree(<<main.lot, "BUY">>)
     THEN main' = Idle /\ UNCHANGED <<table, brk, book, control, poll, relock>>
     ELSE Send(main)

EnterCut ==
  /\ main.at = "entry"
  /\ IF stopped \/ ~LockFree(<<main.lot, "BUY">>)
     THEN main' = Idle /\ UNCHANGED <<table, brk, book, control, poll, relock>>
     ELSE Send(main)

-----------------------------------------------------------------------------
(* Sales: EXIT, TRIM and the liquidation.                                  *)

\* _submit of a sale, at its lock: free (or freed), or in the way - where only a
\* TRIM gives up.
AtLock(m) ==
  LET k == <<m.lot, "SELL">> IN
  \/ LockFree(k) /\ Send(m)
  \/ /\ ~LockFree(k)
     /\ main' = IF m.job = "trim" THEN Over(m) ELSE [m EXCEPT !.at = "cancel"]
     /\ UNCHANGED <<table, brk, book, control, poll, relock>>

\* _submit of a sale from the start: a barrier asks for a refresh first.
Sell(m, q) ==
  LET n == [m EXCEPT !.side = "SELL", !.qty = q]
  IN IF m.lot \in barrier.sell \/ barrier.start
     THEN /\ main' = [n EXCEPT !.at = "refresh", !.then = "lock"]
          /\ UNCHANGED <<table, brk, book, control, poll, relock>>
     ELSE AtLock(n)

\* An EXIT sells the whole holding; so does the liquidation, unless a working
\* order already sells it at the present price.
Covers(w, l) == w \in DOMAIN meta /\ ord[w].qty >= lot[l].qty

SellHolding(m) ==
  LET l == m.lot
      c == m.job = "flat" /\ Covers(pending[<<l, "SELL">>], l)
      h == lot[l].qty > 0 /\ (m.job = "flat" => lot[l].st = "HOLDING")
  IN \/ h /\ (c => Spare) /\ Sell(m, lot[l].qty)
     \/ (~h \/ c) /\ main' = Over(m) /\ UNCHANGED <<table, brk, book, control, poll, relock>>

\* _cancel_open_buy: the lot's buy is cancelled before its shares are sold.
CancelBuyAndSell(m) ==
  LET k == <<m.lot, "BUY">> IN
  \/ pending[k] = 0 /\ SellHolding(m)
  \/ /\ Releasable(k) /\ Release(k)
     /\ main' = [m EXCEPT !.at = "sell"]
     /\ UNCHANGED <<table, brk, lot, slot, barrier, control, poll, relock>>
  \/ /\ ~LockFree(k)
     /\ main' = [m EXCEPT !.at = "cancel", !.side = "BUY"]
     /\ UNCHANGED <<table, brk, book, control, poll, relock>>

Exit ==
  /\ main.at = "bar" /\ Spare
  /\ slot # 0 /\ lot[slot].st = "HOLDING" /\ lot[slot].qty > 0
  /\ CancelBuyAndSell([Idle EXCEPT !.job = "exit", !.lot = slot])

Trim(q) ==
  /\ main.at = "bar" /\ Spare
  /\ slot # 0 /\ lot[slot].st = "HOLDING" /\ q <= lot[slot].qty
  /\ Sell([Idle EXCEPT !.job = "trim", !.lot = slot], q)

\* The main task resumes: the buy is out of the way; the fills are refreshed.
ResumeSale == \/ main.at = "sell" /\ SellHolding(main)
              \/ main.at = "lock" /\ AtLock(main)
              \/ main.at = "send" /\ Send(main)

-----------------------------------------------------------------------------
(* _cancel_pending and OrderManager.cancel.                                *)

\* The lock is dropped, whatever it holds, with the order's meta; the shares the
\* order may have got before are not known, which a barrier remembers.
Unlock(k, o) ==
  /\ pending' = [pending EXCEPT ![k] = 0]
  /\ meta' = Without(meta, o)
  /\ barrier' = IF k[2] = "BUY" THEN [barrier EXCEPT !.buy = @ \cup {k[1]}]
                                ELSE [barrier EXCEPT !.sell = @ \cup {k[1]}]
  /\ main' = [main EXCEPT !.at = "refresh", !.then = IF k[2] = "BUY" THEN "sell" ELSE "send"]

\* A cancellation that is not confirmed does not stop a sale of the holding, but
\* it does stop the replacement of a sale.
NotCancelled == main' = IF main.side = "BUY" THEN [main EXCEPT !.at = "sell"] ELSE Over(main)

\* First session: an order that is over needs no cancelling, UNKNOWN ones are
\* not touched.
Cancel ==
  /\ main.at = "cancel"
  /\ LET k == <<main.lot, main.side>>
         o == pending[k]
     IN \/ (o # 0 => ord[o].st \in Final) /\ Unlock(k, o)
        \/ /\ o # 0 /\ ord[o].st = "UNKNOWN"
           /\ NotCancelled /\ UNCHANGED <<pending, meta, barrier>>
        \/ /\ o # 0 /\ ord[o].st \in {"NEW", "PARTIALLY_FILLED"}
           /\ main' = [main EXCEPT !.at = "cancelling", !.order = o]
           /\ UNCHANGED <<pending, meta, barrier>>
  /\ UNCHANGED <<table, brk, lot, slot, control, poll, relock>>

CancelDenied ==
  /\ main.at = "cancelling"
  /\ NotCancelled
  /\ UNCHANGED <<table, brk, book, control, poll, relock>>

\* The request or its answer is lost: the bar is given up.
CancelLost ==
  /\ main.at \in {"cancelling", "cancelled"} /\ LostAnswers
  /\ main' = Idle
  /\ UNCHANGED <<table, brk, book, control, poll, relock>>

\* Second session.
RecordCancel ==
  /\ main.at = "cancelled"
  /\ LET o == main.order IN
     /\ ord' = [ord EXCEPT ![o].st = IF @ = "FILLED" THEN @ ELSE "CANCELLED"]
     /\ Unlock(<<main.lot, main.side>>, o)
  /\ UNCHANGED <<row, brk, lot, slot, control, poll, relock>>

-----------------------------------------------------------------------------
(* _flat_all, at every bar while it is requested.                          *)

FlatAll ==
  /\ phase = "up" /\ main.at = "idle" /\ flatReq
  /\ main' = [Idle EXCEPT !.at = "sweep", !.job = "flat",
                          !.keys = {k \in Keys : pending[k] # 0}]
  /\ UNCHANGED <<table, brk, book, control, poll, relock>>

\* First the locks of finished orders go ...
Sweep ==
  /\ main.at = "sweep"
  /\ \E k \in main.keys :
       /\ main' = [main EXCEPT !.keys = @ \ {k}]
       /\ IF Releasable(k) THEN Release(k) ELSE UNCHANGED <<pending, meta>>
  /\ UNCHANGED <<table, brk, lot, slot, barrier, control, poll, relock>>

\* ... then the fills a barrier waits for are refreshed ...  (Mutant: the refresh
\* after the cancellation, or at the start, is not repeated when it failed.)
SweptOnce ==
  /\ main.at = "sweep" /\ main.keys = {}
  /\ main' = [main EXCEPT !.at = "lots", !.lots = Tracked]
  /\ UNCHANGED <<table, brk, book, control, poll, relock>>

Swept ==
  /\ main.at = "sweep" /\ main.keys = {}
  /\ main' = IF barrier.buy # {} \/ barrier.start
             THEN [main EXCEPT !.at = "refresh", !.then = "lots"]
             ELSE [main EXCEPT !.at = "lots", !.lots = Tracked]
  /\ UNCHANGED <<table, brk, book, control, poll, relock>>

\* ... then it is every lot's turn, in the slot or not ...
NextLot ==
  /\ main.at = "lots"
  /\ \E l \in main.lots :
       CancelBuyAndSell([main EXCEPT !.lot = l, !.lots = @ \ {l}])

\* ... and the request is cleared if the book is flat.
FlatDone ==
  /\ main.at = "lots" /\ main.lots = {}
  /\ main' = Idle
  /\ flatReq' = (flatReq /\ ~IsFlat)
  /\ UNCHANGED <<table, brk, book, stopped, phase, crashes, poll, relock>>

\* _done, when the feed ends.
Finish ==
  /\ phase = "up" /\ main.at = "idle" /\ stopped /\ IsFlat
  /\ phase' = "done"
  /\ UNCHANGED <<table, brk, book, stopped, flatReq, crashes, main, poll, relock>>

-----------------------------------------------------------------------------
(* Fills: FillPoller.poll_once, handle_fill and _on_fill.                  *)

\* Executions of numbered orders that the table has not yet.
Fetched(who) == [by |-> who, fill |-> NoFill,
  recs |-> {[o |-> o, qty |-> brk[o].exec] :
              o \in {p \in Orders : ord[p].st # "none" /\ brk[p].exec > ord[p].filled}}]

LoopPolls ==
  /\ phase = "up" /\ poll.by = "none" /\ relock = {}
  /\ poll' = Fetched("loop")
  /\ poll'.recs # {}
  /\ UNCHANGED <<table, brk, book, control, main, relock>>

RefreshPolls ==
  /\ main.at = "refresh" /\ poll.by = "none"
  /\ poll' = Fetched("main")
  /\ main' = [main EXCEPT !.at = "polling"]
  /\ UNCHANGED <<table, brk, book, control, relock>>

\* Lookup and handle_fill: the new shares reach the orders and positions tables.
AfterFill(o, n) ==
  LET r == row[ord[o].lot]
  IN IF ord[o].side = "BUY"
     THEN [qty |-> r.qty + n,
           st  |-> IF r.st \in {"WATCHING", "CLOSED"} THEN "HOLDING" ELSE r.st]
     ELSE IF r.qty > n THEN [r EXCEPT !.qty = @ - n] ELSE [qty |-> 0, st |-> "CLOSED"]

HandleFill ==
  /\ poll.by # "none" /\ poll.fill = NoFill
  /\ \E e \in poll.recs :
       LET o == e.o
           n == e.qty - ord[o].filled
       IN IF ord[o].no /\ e.qty > ord[o].filled
          THEN /\ ord' = [ord EXCEPT
                    ![o].filled = e.qty,
                    ![o].st = IF @ \in {"CANCELLED", "EXPIRED"} THEN @
                              ELSE IF e.qty >= ord[o].qty THEN "FILLED" ELSE "PARTIALLY_FILLED"]
               /\ row' = [row EXCEPT ![ord[o].lot] = AfterFill(o, n)]
               /\ poll' = [poll EXCEPT !.recs = @ \ {e},
                                       !.fill = [NoFill EXCEPT !.at = "book", !.o = o, !.n = n]]
          ELSE poll' = [poll EXCEPT !.recs = @ \ {e}] /\ UNCHANGED table
  /\ UNCHANGED <<brk, book, control, main, relock>>

\* PositionLot.apply_fill.  (Mutant: a closed lot stays closed.)
AfterApplyOpenOnly(o, n) ==
  LET m == lot[ord[o].lot]
  IN IF ord[o].side = "BUY"
     THEN [qty |-> m.qty + n, st |-> IF m.st = "WATCHING" THEN "HOLDING" ELSE m.st]
     ELSE IF m.qty > n THEN [m EXCEPT !.qty = @ - n] ELSE [qty |-> 0, st |-> "CLOSED"]

AfterApply(o, n) ==
  LET m == lot[ord[o].lot]
  IN IF ord[o].side = "BUY"
     THEN [qty |-> m.qty + n,
           st  |-> IF m.st \in {"WATCHING", "CLOSED"} THEN "HOLDING" ELSE m.st]
     ELSE IF m.qty > n THEN [m EXCEPT !.qty = @ - n] ELSE [qty |-> 0, st |-> "CLOSED"]

\* The order's count of shares in the book: what it had plus this fill.  The
\* order is over when it has them all; a partly filled one is followed, and one
\* whose meta had to be recovered locks its (lot, side) if nothing else does.
Count(o, n) ==
  LET k    == KeyOf(o)
      had  == IF o \in DOMAIN meta THEN meta[o] ELSE ord[o].filled - n
      over == had + n >= ord[o].qty
      lock == IF o \notin DOMAIN meta /\ ord[o].st \in Open /\ pending[k] = 0
              THEN o ELSE pending[k]
  IN /\ pending' = [pending EXCEPT ![k] = IF over /\ lock = o THEN 0 ELSE lock]
     /\ meta' = IF over THEN Without(meta, o)
                ELSE IF o \in DOMAIN meta \/ ord[o].st \in Open
                THEN With(meta, o, (had + n))
                ELSE meta

\* _on_fill after handle_fill: the lot takes the shares; a closed lot that is
\* open again has to be adopted into the slot.  (In the code the count follows the
\* adoption: until then a lock is only held longer.  Mutant: fills of orders without
\* meta only reach the tables.)
OnFillOfKnown ==
  /\ poll.fill.at = "book"
  /\ LET o == poll.fill.o IN
     IF o \in DOMAIN meta
     THEN /\ lot' = [lot EXCEPT ![ord[o].lot] = AfterApply(o, poll.fill.n)]
          /\ Count(o, poll.fill.n)
     ELSE UNCHANGED <<lot, pending, meta>>
  /\ poll' = [poll EXCEPT !.fill = NoFill]
  /\ UNCHANGED <<table, brk, slot, barrier, control, main, relock>>

OnFill ==
  /\ poll.fill.at = "book"
  /\ LET o == poll.fill.o
         n == poll.fill.n
         l == ord[o].lot
         m == AfterApply(o, n)
     IN \/ /\ lot[l].st # "none"
           /\ lot' = [lot EXCEPT ![l] = m]
           /\ Count(o, n)
           /\ poll' = [poll EXCEPT !.fill = IF lot[l].st = "CLOSED" /\ m.st = "HOLDING"
                                            THEN [@ EXCEPT !.at = "adopt"] ELSE NoFill]
        \* A lot that is not in memory is rebuilt from its row, this fill included.
        \/ /\ lot[l].st = "none" /\ row[l].st = "HOLDING" /\ row[l].qty > 0
           /\ lot' = [lot EXCEPT ![l] = row[l]]
           /\ IF ord[o].filled < ord[o].qty /\ ord[o].st \in Open
              THEN /\ pending' = [pending EXCEPT ![KeyOf(o)] = o]
                   /\ meta' = With(meta, o, ord[o].filled)
              ELSE UNCHANGED <<pending, meta>>
           /\ poll' = [poll EXCEPT !.fill.at = "adopt"]
        \/ /\ lot[l].st = "none" /\ ~(row[l].st = "HOLDING" /\ row[l].qty > 0)
           /\ poll' = [poll EXCEPT !.fill = NoFill]
           /\ UNCHANGED <<lot, pending, meta>>
  /\ UNCHANGED <<table, brk, slot, barrier, control, main, relock>>

\* _adopt_reopened: an idle lot in the slot is retired; one that is not keeps it.
AdoptReopened ==
  /\ poll.fill.at = "adopt"
  /\ LET l == ord[poll.fill.o].lot IN
     \/ /\ slot \in {0, l}
        /\ slot' = l /\ poll' = [poll EXCEPT !.fill = NoFill]
        /\ UNCHANGED lot
     \/ /\ slot \notin {0, l}
        /\ IF lot[slot].st = "WATCHING" /\ lot[slot].qty = 0 /\ pending[<<slot, "BUY">>] = 0
           THEN /\ lot' = [lot EXCEPT ![slot].st = "CANCELLED"]
                /\ poll' = [poll EXCEPT !.fill.at = "retire", !.fill.old = slot]
           ELSE poll' = [poll EXCEPT !.fill = NoFill] /\ UNCHANGED lot
        /\ UNCHANGED slot
  /\ UNCHANGED <<table, brk, pending, meta, barrier, control, main, relock>>

\* The retired lot is closed in its row, and the reopened lot takes the slot.
TakeSlot ==
  /\ poll.fill.at = "retire"
  /\ row' = [row EXCEPT ![poll.fill.old].st = "CANCELLED"]
  /\ slot' = ord[poll.fill.o].lot
  /\ poll' = [poll EXCEPT !.fill = NoFill]
  /\ UNCHANGED <<ord, brk, lot, pending, meta, barrier, control, main, relock>>

\* Where the main task goes when its refresh has succeeded, or not.
Refreshed(ok) ==
  LET m == [main EXCEPT !.at = main.then]
      q == IF main.qty > lot[main.lot].qty THEN lot[main.lot].qty ELSE main.qty
  IN CASE main.then = "up"   -> Idle
       [] main.then = "lots" -> [m EXCEPT !.lots = Tracked]
       [] main.then = "sell" -> m
       [] main.then \in {"lock", "send"} ->
            IF ok /\ q > 0 THEN [m EXCEPT !.qty = q] ELSE Over(main)

\* hydrate ends with its refresh; the stop mark is read after it.
Resumed == IF main.then = "up" /\ phase = "hydrating"
           THEN phase' = "up" /\ flatReq' = stopped
           ELSE UNCHANGED <<phase, flatReq>>

PollEnds ==
  /\ poll.by # "none" /\ poll.recs = {} /\ poll.fill = NoFill
  /\ poll' = NoPoll
  /\ IF poll.by = "main"
     THEN main' = Refreshed(TRUE) /\ barrier' = Clear /\ Resumed
     ELSE UNCHANGED <<main, barrier, phase, flatReq>>
  /\ UNCHANGED <<table, brk, lot, slot, pending, meta, stopped, crashes, relock>>

\* The broker's answer fails, or the lookup of an execution.
PollFails ==
  /\ \/ main.at = "refresh" /\ poll.by = "none" /\ poll' = poll
     \/ poll.by # "none" /\ poll.fill = NoFill /\ poll' = NoPoll
  /\ IF poll.by = "loop" THEN UNCHANGED <<main, phase, flatReq>>
                         ELSE main' = Refreshed(FALSE) /\ Resumed
  /\ UNCHANGED <<table, brk, book, stopped, crashes, relock>>

-----------------------------------------------------------------------------
(* UnknownOrderResolver and on_adopt.                                      *)

\* Accepted orders are adopted; the others are presumed expired.
Resolve ==
  /\ phase = "up" /\ poll.by # "loop" /\ relock = {}
  /\ LET known == {o \in Orders : ord[o].st = "UNKNOWN" /\ brk[o].at # "flight"}
         yes   == {o \in known : brk[o].at \in {"live", "gone"}}
     IN /\ known # {}
        /\ ord' = [o \in Orders |->
             IF o \in yes THEN [ord[o] EXCEPT !.st = "NEW", !.no = TRUE, !.adopted = TRUE]
             ELSE IF o \in known THEN [ord[o] EXCEPT !.st = "REJECTED"] ELSE ord[o]]
        /\ relock' = yes
  /\ UNCHANGED <<row, brk, book, control, main, poll>>

\* The lot of an order that the book does not know is rebuilt from its row.
Known(l) == IF lot[l].st = "none" THEN row[l] ELSE lot[l]

\* _relock_order: lock and meta of an adopted order.
Relock(o) ==
  /\ o \in relock
  /\ relock' = relock \ {o}
  /\ IF ord[o].st \in Open
     THEN /\ lot' = [lot EXCEPT ![ord[o].lot] = Known(ord[o].lot)]
          /\ pending' = [pending EXCEPT ![KeyOf(o)] = o]
          /\ meta' = With(meta, o, ord[o].filled)
     ELSE UNCHANGED <<lot, pending, meta>>
  /\ UNCHANGED <<table, brk, slot, barrier, control, main, poll>>

\* expire_stale_orders: an order that ended at the broker unnoticed is open until
\* the next session, which records its fills first.
Expire(o) ==
  /\ phase = "up" /\ poll.by # "loop" /\ relock = {}
  /\ ord[o].st \in {"NEW", "PARTIALLY_FILLED"}
  /\ brk[o].at = "gone" /\ ord[o].filled = brk[o].exec
  /\ ord' = [ord EXCEPT ![o].st = "EXPIRED"]
  /\ UNCHANGED <<row, brk, book, control, main, poll, relock>>

-----------------------------------------------------------------------------
(* The stop, crash and restart.                                            *)

Stop ==
  /\ phase # "done" /\ ~stopped
  /\ stopped' = TRUE
  /\ flatReq' = (phase = "up")
  /\ UNCHANGED <<table, brk, book, phase, crashes, main, poll, relock>>

Crash ==
  /\ phase \in {"up", "hydrating"} /\ crashes < MaxCrashes
  /\ crashes' = crashes + 1 /\ phase' = "down" /\ flatReq' = FALSE
  /\ lot' = [l \in Lots |-> NoLot] /\ slot' = 0
  /\ pending' = [k \in Keys |-> 0] /\ meta' = <<>> /\ barrier' = Clear
  /\ main' = Idle /\ poll' = NoPoll /\ relock' = {}
  /\ UNCHANGED <<table, brk, stopped>>

\* hydrate: orders that were being submitted become UNKNOWN; open rows and the
\* owners of open orders become lots, one open row's in the slot; open orders
\* take their locks; and a refresh is owed before anything is sold or flat.
Hydrate ==
  /\ phase = "down"
  /\ phase' = "hydrating"
  /\ LET o1     == [o \in Orders |-> IF ord[o].st = "PENDING_NEW"
                                     THEN [ord[o] EXCEPT !.st = "UNKNOWN"] ELSE ord[o]]
         open   == {o \in Orders : o1[o].st \in Open}
         opened == {l \in Lots : row[l].st \in {"WATCHING", "HOLDING"}}
         owners == {ord[o].lot : o \in open}
     IN /\ ord' = o1
        /\ lot' = [l \in Lots |-> IF l \in opened \cup owners THEN row[l] ELSE NoLot]
        /\ IF opened = {} THEN slot' = 0 ELSE slot' \in opened
        /\ pending' = [k \in Keys |->
             IF \E o \in open : KeyOf(o) = k THEN Max({o \in open : KeyOf(o) = k}) ELSE 0]
        /\ meta' = [o \in open |-> ord[o].filled]
  /\ barrier' = [Clear EXCEPT !.start = TRUE]
  /\ main' = [Idle EXCEPT !.at = "refresh", !.then = "up"]
  /\ UNCHANGED <<row, brk, stopped, flatReq, crashes, poll, relock>>

-----------------------------------------------------------------------------
(* The broker (external).  Shares executed, of a lot and in the account.   *)

Executed(S)  == SumFunctionOnSet([o \in Orders |-> brk[o].exec], S)
OfSide(s)    == {o \in Orders : ord[o].side = s}
Traded(l, s) == Executed({o \in OfSide(s) : ord[o].lot = l})
Account      == Executed(OfSide("BUY")) - Executed(OfSide("SELL"))

Accept(o) ==
  /\ brk[o].at = "flight" /\ (ord[o].side = "SELL" => ord[o].qty <= Account)
  /\ brk' = [brk EXCEPT ![o].at = "live"]
  /\ UNCHANGED <<table, book, control, main, poll, relock>>

\* A refusal; or the request never arrives.
Reject(o) ==
  /\ brk[o].at = "flight"
  /\ \E a \in {"refused"} \cup (IF LostAnswers THEN {"lost"} ELSE {}) :
       brk' = [brk EXCEPT ![o].at = a]
  /\ UNCHANGED <<table, book, control, main, poll, relock>>

Execute(o) ==
  /\ brk[o].at = "live" /\ (ord[o].side = "SELL" => Account > 0)
  /\ brk' = [brk EXCEPT ![o].exec = @ + 1,
                        ![o].at = IF brk[o].exec + 1 = ord[o].qty THEN "gone" ELSE @]
  /\ UNCHANGED <<table, book, control, main, poll, relock>>

BrokerCancels ==
  /\ main.at = "cancelling" /\ brk[main.order].at = "live"
  /\ brk' = [brk EXCEPT ![main.order].at = "gone"]
  /\ main' = [main EXCEPT !.at = "cancelled"]
  /\ UNCHANGED <<table, book, control, poll, relock>>

-----------------------------------------------------------------------------
Intents == \/ Bar \/ Spawn \/ Exit
           \/ \E q \in 1 .. MaxQty : Enter(q) \/ CutEntry(q) \/ Trim(q)
MainTask == \/ BarEnds \/ EnterCut \/ ResumeSale
            \/ Ack \/ Refused \/ TimesOut
            \/ Cancel \/ CancelDenied \/ CancelLost \/ RecordCancel
FlatPass == FlatAll \/ Sweep \/ Swept \/ NextLot \/ FlatDone \/ Finish
Fills   == \/ LoopPolls \/ RefreshPolls \/ HandleFill \/ OnFill \/ AdoptReopened \/ TakeSlot
           \/ PollEnds \/ PollFails
Resolver == Resolve \/ (\E o \in relock : Relock(o)) \/ (\E o \in Orders : Expire(o))
Broker  == BrokerCancels \/ \E o \in Orders : Accept(o) \/ Reject(o) \/ Execute(o)

Next == Intents \/ MainTask \/ FlatPass \/ Fills \/ Resolver \/ Broker \/ Stop \/ Crash \/ Hydrate

Spec == Init /\ [][Next]_vars

-----------------------------------------------------------------------------
(* Properties.                                                             *)

\* A lot that gave its slot to a reopened one while it was idle.  A buy of it that was
\* cancelled just before may still fill (_adopt_reopened does not look at
\* _unconfirmed_buy_cancels): the lot stays retired, with shares in it.
Retired(l) == "CANCELLED" \in {lot[l].st, row[l].st}

\* Every fill reaches the book exactly as it reached the tables, through lost
\* metas, closed lots, cancellations and restarts: outside the application of a
\* fill both hold the same shares (service.py:972-1043).
HoldingsTracked ==
  phase = "up" /\ poll.fill.at # "book" =>
    \A l \in Lots : lot[l].qty = row[l].qty \/ Retired(l)

\* An order that can still trade locks its (lot, side), so no second one is sent
\* (service.py:763-767, 914-921).  Adopted orders are left out: see FlatOnceBooked.
LockCoversLive ==
  phase = "up" => \A o \in Orders :
    brk[o].at \in {"flight", "live"} /\ ~ord[o].adopted => pending[KeyOf(o)] = o

\* A lot with shares is an open one, which exits and the liquidation sell and a
\* restart restores: a late fill opens it again (position.py:90-99).
HeldLotsAreOpen ==
  \A l \in Lots : lot[l].qty > 0 => lot[l].st = "HOLDING" \/ Retired(l)

\* No buy is sent once the stop is pressed, not by an intent that was already
\* being handled either (service.py:625-627, 717-725).
NoBuyAfterStop ==
  [][stopped => \A o \in Orders : ord[o].st = "none" /\ ord'[o].st # "none"
                                    => ord'[o].side = "SELL"]_vars

\* The liquidation is declared over: the request is cleared, or the engine ends.
DeclaresFlat == \/ flatReq /\ ~flatReq' /\ phase' = "up"
                \/ phase = "up" /\ phase' = "done"

\* Nothing of lot l is left at the broker: no shares, no order that can still trade.
NoOrderLeft(l) == \A o \in Orders : ord[o].lot = l => brk[o].at \notin {"flight", "live"}
NothingLeft(l) == Traded(l, "BUY") <= Traded(l, "SELL") /\ NoOrderLeft(l)
Empty(l)       == Traded(l, "BUY") = Traded(l, "SELL") /\ NoOrderLeft(l)

\* The liquidation is declared over only when nothing is held and nothing can
\* trade: what is_flat promises (service.py:501).
FlatIsEmpty == [][DeclaresFlat => \A l \in Lots : Empty(l)]_vars

\* The same, unless a fill is on its way from the tables to the book, for the lots that
\* the book can vouch for; and if it can for all, each sold just what it bought (a lot
\* can sell another's shares: the account is one).  It cannot for a lot of which the
\* resolver has adopted an order: _relock_order reads the fills recorded so far, and
\* _on_fill may then add one of them again, which frees the lock early.  Nor for a lot
\* that was retired and got its shares afterwards, of which a restart knows nothing.
Adopted(l)   == \E o \in Orders : ord[o].adopted /\ ord[o].lot = l
Forgotten(l) == row[l].st = "CANCELLED" /\ lot[l].st = "none"
Vouched      == {l \in Lots : ~Adopted(l) /\ ~Forgotten(l)}
FlatOnceBooked ==
  [][DeclaresFlat /\ poll.fill.at # "book" =>
       /\ \A l \in Vouched : NothingLeft(l)
       /\ Vouched = Lots => \A l \in Lots : Empty(l)]_vars

\* The engine's tasks keep running.  The polls and the resolver succeed now and
\* then and take turns at the poller's lock; the broker answers, honours one of
\* the cancellations it is asked for, and sales at the repeated price trade.
Fairness ==
  /\ WF_vars(MainTask \/ FlatPass \/ Hydrate)
  /\ SF_vars(RefreshPolls) /\ WF_vars(LoopPolls)
  /\ SF_vars(HandleFill) /\ WF_vars(OnFill \/ AdoptReopened \/ TakeSlot)
  /\ SF_vars(poll.by = "main" /\ PollEnds) /\ WF_vars(PollEnds)
  /\ SF_vars(Resolve) /\ WF_vars(\E o \in relock : Relock(o))
  /\ SF_vars(\E o \in Orders : Expire(o))
  /\ SF_vars(BrokerCancels) /\ WF_vars(\E o \in Orders : Accept(o) \/ Reject(o))
  /\ WF_vars(\E o \in Orders : ord[o].side = "SELL" /\ Execute(o))

FairSpec == Spec /\ Fairness

\* The emergency stop gets through: the engine ends, or has declared itself flat -
\* whatever it was doing, with crashes, lost answers and denied cancellations
\* (service.py:605-612, cli.py:675).  A run out of orders proves nothing.
OutOfOrders == main.at = "send" /\ Unused = {}
StopEnds == stopped ~> (phase = "done" \/ (phase = "up" /\ ~flatReq) \/ OutOfOrders)
=============================================================================
