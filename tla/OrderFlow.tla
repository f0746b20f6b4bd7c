------------------------------ MODULE OrderFlow ------------------------------
(***************************************************************************)
(* The life of KRX orders: the orders and positions tables, the broker,    *)
(* and the four activities that change them between awaits -               *)
(*   the main task       OrderManager.submit and cancel,                   *)
(*   the resolver        UnknownOrderResolver.poll_once,                   *)
(*   the live poller     FillPoller.poll_once (one per process),           *)
(*   the expiry          TradingService.expire_stale_orders, at the start  *)
(*                       of a trading day and in hydrate.                  *)
(* Every database session is one step and every broker call lies between   *)
(* two steps.  (A fill's lookup and its handler are one step: only fills   *)
(* change what the lookup reads, and pollers are serialised by a lock or   *)
(* read different days.)  The broker is external.                          *)
(*                                                                         *)
(* Orders are numbered as they are created.  Prices, fees and profit are   *)
(* left out; quantities are whole shares.                                  *)
(***************************************************************************)
EXTENDS Naturals, Functions

CONSTANTS MaxOrders,    \* bound: orders submitted during a behaviour
          MaxDay,       \* bound: trading days
          MaxCrashes,   \* bound: engine crashes
          MaxQty,       \* bound: shares of an order
          Lots,         \* position lots ...
          TickerOf,     \* ... and the ticker of each
          ListingLag    \* may an accepted order be missing from the order list

ASSUME OrderAssumption ==
  /\ MaxOrders \in Nat /\ MaxDay \in Nat /\ MaxCrashes \in Nat /\ MaxQty \in Nat
  /\ ListingLag \in BOOLEAN
  /\ Lots # {}

VARIABLES
  ord,      \* the orders table (executions summed up in "filled")
  pos,      \* the positions table
  brk,      \* what the broker has of each order
  acct,     \* shares in the account, by ticker
  nextNo,   \* the next order number of the broker's day
  today,
  phase,    \* the engine: down, hydrating, up
  fresh,    \* the poll loop has been idle: a new session has to be opened
  main,     \* main task: the order it is submitting or cancelling
  res,      \* resolver: what it has read and not yet applied
  batch,    \* live poller: fetched executions not yet applied
  seen,     \* live poller: _seen
  exp,      \* expiry: days to recover, executions fetched, orders to keep
  crashes

table   == <<ord, pos>>
broker  == <<brk, acct, nextNo, today>>
tasks   == <<main, res, batch, seen, exp>>
vars    == <<table, broker, phase, fresh, tasks, crashes>>

Orders  == 1 .. MaxOrders
Tickers == {TickerOf[l] : l \in Lots}
Sides   == {"BUY", "SELL"}
Open    == {"PENDING_NEW", "UNKNOWN", "NEW", "PARTIALLY_FILLED"}
States  == Open \cup {"none", "FILLED", "CANCELLED", "REJECTED", "EXPIRED"}

\* A row of the orders table.  no = 0: no broker number.  presumed: an
\* order.unknown.expired audit row names the order.
Shares  == 0 .. MaxQty
Rows    == [st : States, no : Nat, filled : Shares, day : Nat, presumed : BOOLEAN,
            lot : Lots, side : Sides, qty : Shares]
\* The broker's side.  flight: the request is on its way.
BrkRows == [at : {"none", "flight", "lost", "refused", "live", "gone"},
            no : Nat, exec : Shares, listed : BOOLEAN]
ExecRec == [no : Nat, qty : Shares]       \* cumulative; exec_id is the whole record

Sig(o)      == <<TickerOf[ord[o].lot], ord[o].side, ord[o].qty>>
Accepted(o) == brk[o].no # 0
Stale(o)    == ord[o].st \in Open /\ ord[o].day < today
NoExpiry    == [days |-> {}, day |-> 0, recs |-> {}, keep |-> {}, at |-> "idle"]
NoResolve   == [at |-> "idle", unknowns |-> {}, linked |-> {}, settled |-> {}, recs |-> {}]
NoMain      == [at |-> "idle", o |-> 0]

NoOrder     == [st |-> "none", no |-> 0, filled |-> 0, day |-> 0, presumed |-> FALSE,
                lot |-> CHOOSE l \in Lots : TRUE, side |-> "BUY", qty |-> 0]

TypeOK ==
  /\ ord \in [Orders -> Rows]
  /\ pos \in [Lots -> [qty : Nat, st : {"WATCHING", "HOLDING", "CLOSED"}]]
  /\ brk \in [Orders -> BrkRows]
  /\ acct \in [Tickers -> Nat]
  /\ nextNo \in Nat \ {0} /\ today \in Nat /\ crashes \in Nat
  /\ phase \in {"down", "hydrating", "up"} /\ fresh \in BOOLEAN
  /\ main \in [at : {"idle", "send", "cancel", "cancelled"}, o : Orders \cup {0}]
  /\ res \in [at : {"idle", "read", "fetched"}, unknowns : SUBSET Orders,
              linked : SUBSET Nat, settled : SUBSET Orders, recs : SUBSET Orders]
  /\ batch \in SUBSET ExecRec /\ seen \in SUBSET ExecRec
  /\ exp \in [at : {"idle", "recover"}, days : SUBSET Nat, day : Nat,
              recs : SUBSET ExecRec, keep : SUBSET Orders]

Init ==
  /\ ord = [o \in Orders |-> NoOrder]
  /\ pos = [l \in Lots |-> [qty |-> 0, st |-> "WATCHING"]]
  /\ brk = [o \in Orders |-> [at |-> "none", no |-> 0, exec |-> 0, listed |-> FALSE]]
  /\ acct = [t \in Tickers |-> 0]
  /\ nextNo = 1 /\ today = 1
  /\ phase = "up" /\ fresh = FALSE /\ crashes = 0
  /\ main = NoMain /\ res = NoResolve /\ batch = {} /\ seen = {} /\ exp = NoExpiry

-----------------------------------------------------------------------------
(* What an execution of the broker stands for.                             *)

\* get_executions(_on): the day's cumulative executions, by order number.
Executions(d) ==
  {[no |-> brk[o].no, qty |-> brk[o].exec] :
     o \in {p \in Orders : ord[p].day = d /\ brk[p].exec > 0}}

\* _resolve: the orders a number may stand for on a day.  (Mutant: on any day.)
NamedAnyDay(no, d) == {o \in Orders : ord[o].no = no}

Named(no, d) == {o \in Orders : ord[o].no = no /\ ord[o].day = d}

\* The newest order of an execution's number and day takes what the table does not
\* hold yet, if anything.
Takes(o, e, d) == /\ o \in Named(e.no, d) /\ \A p \in Named(e.no, d) : p <= o
                  /\ e.qty > ord[o].filled

\* _refresh_before_sell and _startup_refresh_pending: a sale waits until what the lot's
\* cancelled sales got today is recorded.
SalesRecorded(l) ==
  \A e \in Executions(today), o \in Orders :
    ord[o].lot = l /\ ord[o].side = "SELL" /\ ord[o].st = "CANCELLED" => ~Takes(o, e, today)

-----------------------------------------------------------------------------
(* The main task: submit and cancel.                                       *)

\* submit, first session: the row is written before the request is sent.  The
\* service allows one order per (lot, side), and sells no more than it knows to hold.
Submit(l, s, q) ==
  /\ phase = "up" /\ main.at = "idle"
  /\ ~\E p \in Orders : ord[p].st \in Open /\ ord[p].lot = l /\ ord[p].side = s
  /\ IF s = "SELL" THEN q <= pos[l].qty /\ SalesRecorded(l) ELSE pos[l].st # "CLOSED"
  /\ \E o \in Orders :
       /\ ord[o].st = "none" /\ \A p \in 1 .. (o - 1) : ord[p].st # "none"
       /\ ord' = [ord EXCEPT ![o] = [NoOrder EXCEPT !.st = "PENDING_NEW", !.day = today,
                                     !.lot = l, !.side = s, !.qty = q]]
       /\ brk' = [brk EXCEPT ![o].at = "flight"]
       /\ main' = [at |-> "send", o |-> o]
  /\ UNCHANGED <<pos, acct, nextNo, today, phase, fresh, res, batch, seen, exp, crashes>>

\* _record_outcome of an accepted order.
AckArrives ==
  /\ main.at = "send" /\ Accepted(main.o)
  /\ ord' = [ord EXCEPT ![main.o].no = brk[main.o].no,
                        ![main.o].st = IF @ = "PENDING_NEW" THEN "NEW" ELSE @]
  /\ main' = NoMain
  /\ UNCHANGED <<pos, broker, phase, fresh, res, batch, seen, exp, crashes>>

\* _record_outcome of a refusal, or of an error that is_definitive_rejection.
RefusalArrives ==
  /\ main.at = "send" /\ brk[main.o].at = "refused"
  /\ ord' = [ord EXCEPT ![main.o].st = "REJECTED"]
  /\ main' = NoMain
  /\ UNCHANGED <<pos, broker, phase, fresh, res, batch, seen, exp, crashes>>

\* The answer does not come in time, whatever became of the request.
SubmitTimesOut ==
  /\ main.at = "send"
  /\ ord' = [ord EXCEPT ![main.o].st = "UNKNOWN"]
  /\ main' = NoMain
  /\ UNCHANGED <<pos, broker, phase, fresh, res, batch, seen, exp, crashes>>

\* cancel, first session: closed orders need nothing, UNKNOWN ones are not
\* touched, and PENDING_NEW is another submit of this very task.
Cancel(o) ==
  /\ phase = "up" /\ main.at = "idle"
  /\ ord[o].st \in {"NEW", "PARTIALLY_FILLED"}
  /\ main' = [at |-> "cancel", o |-> o]
  /\ UNCHANGED <<table, broker, phase, fresh, res, batch, seen, exp, crashes>>

\* cancel, second session: the broker has accepted.
RecordCancel ==
  /\ main.at = "cancelled"
  /\ ord' = [ord EXCEPT ![main.o].st = IF @ = "FILLED" THEN @ ELSE "CANCELLED"]
  /\ main' = NoMain
  /\ UNCHANGED <<pos, broker, phase, fresh, res, batch, seen, exp, crashes>>

\* The broker refuses the cancellation, or its answer is lost.
CancelFails ==
  /\ main.at \in {"cancel", "cancelled"}
  /\ main' = NoMain
  /\ UNCHANGED <<table, broker, phase, fresh, res, batch, seen, exp, crashes>>

-----------------------------------------------------------------------------
(* The broker (external).                                                  *)

\* A request is accepted under the day's next number; the order list may show
\* it later.  Short sales are refused.
Accept(o) ==
  /\ brk[o].at = "flight"
  /\ ord[o].side = "SELL" => ord[o].qty <= acct[Sig(o)[1]]
  /\ brk' = [brk EXCEPT ![o] = [at |-> "live", no |-> nextNo, exec |-> 0,
                                listed |-> ~ListingLag]]
  /\ nextNo' = nextNo + 1
  /\ UNCHANGED <<table, acct, today, phase, fresh, tasks, crashes>>

RefuseOrLose(o) ==
  /\ brk[o].at = "flight"
  /\ \E a \in {"refused", "lost"} : brk' = [brk EXCEPT ![o].at = a]
  /\ UNCHANGED <<table, acct, nextNo, today, phase, fresh, tasks, crashes>>

List(o) ==
  /\ Accepted(o) /\ ~brk[o].listed
  /\ brk' = [brk EXCEPT ![o].listed = TRUE]
  /\ UNCHANGED <<table, acct, nextNo, today, phase, fresh, tasks, crashes>>

\* One share trades; an order that is filled is over.
Execute(o) ==
  LET t == Sig(o)[1] IN
  /\ brk[o].at = "live"
  /\ ord[o].side = "SELL" => acct[t] > 0
  /\ acct' = [acct EXCEPT ![t] = IF ord[o].side = "BUY" THEN @ + 1 ELSE @ - 1]
  /\ brk' = [brk EXCEPT ![o].exec = @ + 1,
                        ![o].at = IF brk[o].exec + 1 = ord[o].qty THEN "gone" ELSE @]
  /\ UNCHANGED <<table, nextNo, today, phase, fresh, tasks, crashes>>

\* A cancellation names an order by its number, whoever's it is.
BrokerCancels ==
  /\ main.at = "cancel"
  /\ \E p \in Orders :
       /\ brk[p].at = "live" /\ brk[p].no = ord[main.o].no
       /\ brk' = [brk EXCEPT ![p].at = "gone"]
  /\ main' = [main EXCEPT !.at = "cancelled"]
  /\ UNCHANGED <<table, acct, nextNo, today, phase, fresh, res, batch, seen, exp, crashes>>

\* The night: no request is under way, day orders end, numbers start again.
NextDay ==
  /\ today < MaxDay
  /\ phase # "hydrating" /\ main = NoMain /\ res = NoResolve /\ batch = {} /\ exp = NoExpiry
  /\ \A o \in Orders : brk[o].at # "flight"
  /\ today' = today + 1
  /\ nextNo' = 1
  /\ brk' = [o \in Orders |-> IF brk[o].at = "live" THEN [brk[o] EXCEPT !.at = "gone"]
                                                    ELSE brk[o]]
  /\ fresh' = (phase = "up")
  /\ UNCHANGED <<table, acct, phase, tasks, crashes>>

-----------------------------------------------------------------------------
(* Fills: OrderManager.handle_fill and FillPoller.                         *)

\* The state of an order after a fill that brings it to f shares: a cancelled
\* or expired order stays so.  (Mutant: any order comes back to life.)
RevivedBy(o, f) == IF f >= ord[o].qty THEN "FILLED" ELSE "PARTIALLY_FILLED"

FilledTo(o, f) == IF ord[o].st \in {"CANCELLED", "EXPIRED"} THEN ord[o].st
                  ELSE IF f >= ord[o].qty THEN "FILLED" ELSE "PARTIALLY_FILLED"

\* _apply_to_position: the position of an order's lot after n more shares.  A buy
\* reopens a closed lot; a sale never goes below zero.  (Mutant: a closed order's
\* fill is not projected.)
ProjectedIfOpen(o, n) ==
  LET p == pos[ord[o].lot]
  IN IF ord[o].st \in {"CANCELLED", "EXPIRED"} THEN p
     ELSE IF ord[o].side = "BUY" THEN [qty |-> p.qty + n, st |-> "HOLDING"]
     ELSE IF p.qty > n THEN [p EXCEPT !.qty = @ - n] ELSE [qty |-> 0, st |-> "CLOSED"]

Projected(o, n) ==
  LET p == pos[ord[o].lot]
  IN IF ord[o].side = "BUY" THEN [qty |-> p.qty + n, st |-> "HOLDING"]
     ELSE IF p.qty > n THEN [p EXCEPT !.qty = @ - n] ELSE [qty |-> 0, st |-> "CLOSED"]

\* handle_fill of n more shares of an order.
HandleFill(o, n) ==
  LET f == ord[o].filled + n
  IN /\ ord' = [ord EXCEPT ![o].filled = f, ![o].st = FilledTo(o, f)]
     /\ pos' = [pos EXCEPT ![ord[o].lot] = Projected(o, n)]

\* (Mutant: the cumulative quantity is taken for the new one.)
ApplyCumulative(e, d) ==
  \/ \E o \in Orders : Takes(o, e, d) /\ HandleFill(o, e.qty)
  \/ (\A o \in Orders : ~Takes(o, e, d)) /\ UNCHANGED table

ApplyExecution(e, d) ==
  \/ \E o \in Orders : Takes(o, e, d) /\ HandleFill(o, e.qty - ord[o].filled)
  \/ (\A o \in Orders : ~Takes(o, e, d)) /\ UNCHANGED table

PollFetch ==
  /\ phase = "up" /\ batch = {}
  /\ batch' = Executions(today) \ seen
  /\ UNCHANGED <<table, broker, phase, fresh, main, res, seen, exp, crashes>>

\* An execution no order claims is left for the next poll.
PollApply(e) ==
  /\ e \in batch
  /\ batch' = batch \ {e}
  /\ ApplyExecution(e, today)
  /\ seen' = IF Named(e.no, today) = {} THEN seen ELSE seen \cup {e}
  /\ UNCHANGED <<broker, phase, fresh, main, res, exp, crashes>>

\* An error in the middle of a poll drops the rest of it.
PollFails ==
  /\ batch # {}
  /\ batch' = {}
  /\ UNCHANGED <<table, broker, phase, fresh, main, res, seen, exp, crashes>>

-----------------------------------------------------------------------------
(* UnknownOrderResolver.poll_once.                                         *)

\* First session: unknown orders, the ones presumed expired today, and the
\* numbers that today's orders own.
ResolverRead ==
  /\ phase = "up" /\ res.at = "idle" /\ exp.at = "idle" /\ ~fresh
  /\ LET u == {o \in Orders : /\ ord[o].no = 0
                              /\ \/ ord[o].st = "UNKNOWN"
                                 \/ /\ ord[o].st = "REJECTED" /\ ord[o].presumed
                                    /\ ord[o].day = today}
     IN /\ u # {}
        /\ res' = [NoResolve EXCEPT !.at = "read", !.unknowns = u,
                     !.linked = {n \in 1 .. nextNo : Named(n, today) # {}}]
  /\ UNCHANGED <<table, broker, phase, fresh, main, batch, seen, exp, crashes>>

\* get_daily_orders, less the linked numbers.  The grace period is much longer
\* than the submit timeout: it can only be over for a request no longer under way.
ResolverFetch ==
  /\ res.at = "read"
  /\ res' = [res EXCEPT
       !.at = "fetched",
       !.recs = {p \in Orders : /\ Accepted(p) /\ brk[p].listed /\ ord[p].day = today
                                /\ brk[p].no \notin res.linked},
       !.settled = {o \in res.unknowns : brk[o].at # "flight"}]
  /\ UNCHANGED <<table, broker, phase, fresh, main, batch, seen, exp, crashes>>

\* The records that match an order.  (Mutant: the ticker is not compared.)
FoundAnyTicker(o) ==
  {p \in res.recs : Sig(p)[2] = Sig(o)[2] /\ Sig(p)[3] = Sig(o)[3]}

Found(o) == {p \in res.recs : Sig(p) = Sig(o)}
Match(o) == CHOOSE p \in Orders : Found(o) = {p}

\* One order and one record of a signature: adopted, also when it had been
\* presumed expired.  (Mutant: only unknown orders are.)
AdoptsUnknown(o) == /\ {q \in res.unknowns : Sig(q) = Sig(o)} = {o}
                    /\ \E p \in Orders : Found(o) = {p}
                    /\ ord[o].st = "UNKNOWN" /\ ord[o].no = 0

Adopts(o) == /\ {q \in res.unknowns : Sig(q) = Sig(o)} = {o}
             /\ \E p \in Orders : Found(o) = {p}
             /\ ord[o].st \in {"UNKNOWN", "REJECTED"} /\ ord[o].no = 0

\* No record of the signature and the grace period over: presumed expired.
\* (Mutant: at once.)
PresumesAtOnce(o) == Found(o) = {} /\ ord[o].st = "UNKNOWN"

Presumes(o) == Found(o) = {} /\ o \in res.settled /\ ord[o].st = "UNKNOWN"

\* Second session: all that was read is decided; the rest is left alone.
ResolverApply ==
  /\ res.at = "fetched"
  /\ ord' = [o \in Orders |->
       CASE o \in res.unknowns /\ Adopts(o) ->
              [ord[o] EXCEPT !.st = "NEW", !.no = brk[Match(o)].no]
         [] o \in res.unknowns /\ Presumes(o) ->
              [ord[o] EXCEPT !.st = "REJECTED", !.presumed = TRUE]
         [] OTHER -> ord[o]]
  /\ res' = NoResolve
  /\ UNCHANGED <<pos, broker, phase, fresh, main, batch, seen, exp, crashes>>

\* get_daily_orders fails.
ResolverFails ==
  /\ res.at = "read"
  /\ res' = NoResolve
  /\ UNCHANGED <<table, broker, phase, fresh, main, batch, seen, exp, crashes>>

-----------------------------------------------------------------------------
(* Expiry, restart and crash.                                              *)

\* stale_open_orders: the days to recover are those of stale numbered orders.
StaleDays == {ord[o].day : o \in {p \in Orders : Stale(p) /\ ord[p].no # 0}}

\* The poll loop opens a session: expire_stale_orders.
OpenSession ==
  /\ phase = "up" /\ fresh /\ res.at = "idle" /\ exp.at = "idle"
  /\ fresh' = FALSE
  /\ exp' = [NoExpiry EXCEPT !.at = "recover", !.days = StaleDays]
  /\ UNCHANGED <<table, broker, phase, main, res, batch, seen, crashes>>

\* A new process hydrates: orphan_pending_to_unknown, then expire_stale_orders.
Start ==
  /\ phase = "down"
  /\ phase' = "hydrating"
  /\ ord' = [o \in Orders |-> IF ord[o].st = "PENDING_NEW"
                              THEN [ord[o] EXCEPT !.st = "UNKNOWN"] ELSE ord[o]]
  /\ exp' = [NoExpiry EXCEPT !.at = "recover", !.days = StaleDays]
  /\ UNCHANGED <<pos, broker, fresh, main, res, batch, seen, crashes>>

\* poll_day of the earliest day left, with a poller of its own.
RecoverFetch ==
  /\ exp.at = "recover" /\ exp.recs = {} /\ exp.days # {}
  /\ \E d \in exp.days :
       /\ \A c \in exp.days : d <= c
       /\ exp' = [exp EXCEPT !.days = @ \ {d}, !.day = d, !.recs = Executions(d)]
  /\ UNCHANGED <<table, broker, phase, fresh, main, res, batch, seen, crashes>>

RecoverApply(e) ==
  /\ exp.at = "recover" /\ e \in exp.recs
  /\ exp' = [exp EXCEPT !.recs = @ \ {e}]
  /\ ApplyExecution(e, exp.day)
  /\ UNCHANGED <<broker, phase, fresh, main, res, batch, seen, crashes>>

\* A day that cannot be fetched, or not applied to the end: its orders are kept.
Keep(d) == exp.keep \cup {o \in Orders : Stale(o) /\ ord[o].no # 0 /\ ord[o].day = d}

RecoverFails ==
  /\ exp.at = "recover"
  /\ \/ /\ exp.recs # {}
        /\ exp' = [exp EXCEPT !.recs = {}, !.keep = Keep(exp.day)]
     \/ /\ exp.recs = {}
        /\ \E d \in exp.days :
             /\ \A c \in exp.days : d <= c
             /\ exp' = [exp EXCEPT !.days = @ \ {d}, !.keep = Keep(d)]
  /\ UNCHANGED <<table, broker, phase, fresh, main, res, batch, seen, crashes>>

\* Mutant: orders whose day could not be recovered expire all the same.
ExpireAll ==
  /\ exp.at = "recover" /\ exp.recs = {} /\ exp.days = {}
  /\ ord' = [o \in Orders |-> IF Stale(o) THEN [ord[o] EXCEPT !.st = "EXPIRED"] ELSE ord[o]]
  /\ exp' = NoExpiry
  /\ phase' = "up"
  /\ UNCHANGED <<pos, broker, fresh, main, res, batch, seen, crashes>>

\* expire_stale, which ends the recovery and, in hydrate, the start.
ExpireStale ==
  /\ exp.at = "recover" /\ exp.recs = {} /\ exp.days = {}
  /\ ord' = [o \in Orders |-> IF Stale(o) /\ o \notin exp.keep
                              THEN [ord[o] EXCEPT !.st = "EXPIRED"] ELSE ord[o]]
  /\ exp' = NoExpiry
  /\ phase' = "up"
  /\ UNCHANGED <<pos, broker, fresh, main, res, batch, seen, crashes>>

Crash ==
  /\ phase # "down" /\ crashes < MaxCrashes
  /\ phase' = "down" /\ fresh' = FALSE
  /\ main' = NoMain /\ res' = NoResolve /\ batch' = {} /\ seen' = {} /\ exp' = NoExpiry
  /\ crashes' = crashes + 1
  /\ UNCHANGED <<table, broker>>

-----------------------------------------------------------------------------
MainTask == \/ \E l \in Lots, s \in Sides, q \in 1 .. MaxQty : Submit(l, s, q)
            \/ AckArrives \/ RefusalArrives \/ SubmitTimesOut
            \/ \E o \in Orders : Cancel(o)
            \/ RecordCancel \/ CancelFails

Broker == \/ \E o \in Orders : Accept(o) \/ RefuseOrLose(o) \/ List(o) \/ Execute(o)
          \/ BrokerCancels \/ NextDay

Poller   == PollFetch \/ (\E e \in batch : PollApply(e)) \/ PollFails
Resolver == ResolverRead \/ ResolverFetch \/ ResolverApply \/ ResolverFails
Expiry   == \/ OpenSession \/ RecoverFetch \/ (\E e \in exp.recs : RecoverApply(e))
            \/ RecoverFails \/ ExpireStale

Next == MainTask \/ Broker \/ Poller \/ Resolver \/ Expiry \/ Start \/ Crash

Spec == Init /\ [][Next]_vars

\* The loops run on their timers, a dead engine is restarted, and the broker
\* answers and lists what it has accepted.  Nothing obliges the strategies, the
\* market or the night to act; a poll does not fail for ever.
Fairness == /\ WF_vars(AckArrives \/ RefusalArrives \/ SubmitTimesOut)
            /\ WF_vars(RecordCancel \/ CancelFails)
            /\ \A o \in Orders : WF_vars(Accept(o) \/ RefuseOrLose(o)) /\ WF_vars(List(o))
            /\ WF_vars(PollFetch) /\ SF_vars(\E e \in batch : PollApply(e))
            /\ WF_vars(ResolverRead) /\ SF_vars(ResolverFetch) /\ WF_vars(ResolverApply)
            /\ WF_vars(OpenSession) /\ WF_vars(Start) /\ WF_vars(ExpireStale)

FairSpec == Spec /\ Fairness

-----------------------------------------------------------------------------
(* Properties.                                                             *)

\* No other order of the day has the same ticker, side and quantity.
Twins(o, p) == ord[p].st # "none" /\ ord[p].day = ord[o].day /\ Sig(p) = Sig(o)
Alone(o)    == \A p \in Orders \ {o} : ~Twins(o, p)

\* An order only ever carries the number of its own broker order, or of one
\* of the same day with the same ticker, side and quantity
\* (unknown_resolver.py: adopting the wrong order is worse than staying locked).
NumberOfTwin ==
  \A o \in Orders : ord[o].no # 0 =>
    \E p \in Orders : Twins(o, p) /\ Accepted(p) /\ brk[p].no = ord[o].no

\* No fill is invented or counted twice: an order without a twin has recorded
\* at most what the broker has executed, through every replay, restart and
\* repeated number (fill_poller.py:7-11).
FillsAreReal ==
  \A o \in Orders : Alone(o) => ord[o].filled <= brk[o].exec

\* Expiring a numbered order loses none of its executions: they are recovered
\* first, or the order is kept (service.py:512-533).
ExpiredIsComplete ==
  \A o \in Orders : ord[o].st = "EXPIRED" /\ ord[o].no # 0 /\ Alone(o)
                      => ord[o].filled = brk[o].exec

\* The positions table is the orders table's sum, so that no fill was ever
\* clipped at zero, for a lot whose orders have no twins (order_manager.py:370-383).
Recorded(l, s) ==
  SumFunctionOnSet([o \in Orders |-> IF ord[o].lot = l /\ ord[o].side = s THEN ord[o].filled ELSE 0],
                   Orders)
PositionIsSumOfFills ==
  \A l \in Lots : (\A o \in Orders : ord[o].lot = l => Alone(o))
                     => pos[l].qty + Recorded(l, "SELL") = Recorded(l, "BUY")

\* At most one order of a lot and side works at the broker, through lost answers, expiry
\* and restart, unless one has a twin in another lot (unknown_resolver.py:5,
\* service.py:763-767).
TwinsOfLot(o) == \A p \in Orders : Twins(o, p) => ord[p].lot = ord[o].lot
OneLiveOrder ==
  \A o, p \in Orders : /\ brk[o].at = "live" /\ brk[p].at = "live"
                       /\ ord[o].lot = ord[p].lot /\ ord[o].side = ord[p].side
                       /\ TwinsOfLot(o) /\ TwinsOfLot(p)
                       => o = p

\* An order closed for good never opens again, whatever arrives late, so its
\* (lot, side) lock is not taken by a dead order (order_manager.py:71-74).
Closed == {"FILLED", "CANCELLED", "EXPIRED"}
ClosedStaysClosed ==
  [][\A o \in Orders : ord[o].st \in Closed => ord'[o].st \in Closed]_vars

\* The two tables implement the ledger: a fill goes to its order and its lot at once,
\* never beyond the order's quantity, and what an order said stays as it was, whatever
\* is lost, late, repeated, or was running at a crash (order_manager.py:201-260).
Kind(s) == IF s \in {"CANCELLED", "EXPIRED"} THEN "shut"
           ELSE IF s = "FILLED" THEN "filled" ELSE IF s = "none" THEN "none" ELSE "open"
Entry(o) == [st |-> Kind(ord[o].st), lot |-> ord[o].lot, side |-> ord[o].side,
             qty |-> ord[o].qty, filled |-> ord[o].filled]
Ledger == INSTANCE PositionLedger WITH order <- [o \in Orders |-> Entry(o)],
                                       hold  <- [l \in Lots |-> pos[l].qty]
ImplementsLedger == Ledger!Spec

\* _seen only skips what the table already holds (fill_poller.py:9-10).
SeenIsFastPath ==
  \A o \in Orders, e \in seen :
    ord[o].day = today /\ ord[o].no = e.no /\ brk[o].no = e.no /\ brk[o].exec = e.qty
      => ord[o].filled >= e.qty

\* Two orders of a day never carry the same number (unknown_resolver.py:8-9:
\* only a number "not already linked to any local order" is adopted).
OneOwner ==
  \A o, p \in Orders : /\ ord[o].no # 0 /\ ord[o].no = ord[p].no
                       /\ ord[o].day = ord[p].day
                       => o = p

\* The night loses nothing: once the session of a later day is open, an order
\* that ended has all its executions recorded (service.py:265, 515-518).
NightLosesNothing ==
  \A o \in Orders : /\ ord[o].st \in Closed /\ ord[o].day < today
                    /\ phase = "up" /\ exp.at = "idle" /\ ~fresh
                    => ord[o].filled = brk[o].exec

\* What the broker executes reaches the table, unless the order has a twin.
ExecutionsRecorded ==
  \A o \in Orders : (brk[o].exec > ord[o].filled)
                      ~> (ord[o].filled = brk[o].exec \/ ~Alone(o))
=============================================================================
