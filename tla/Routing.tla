------------------------------ MODULE Routing ------------------------------
(***************************************************************************)
(* The sale barrier of TradingService over RoutingBrokerAdapter: one       *)
(* interface to two brokers, where the overseas leg may fail without       *)
(* holding up the domestic one, and a sale that replaces another waits     *)
(* until the fills of the cancelled order are known.                       *)
(*                                                                         *)
(*   main    a bar on which a lot has to be sold: _submit                  *)
(*   poll    FillPoller, one at a time: for the main task (_refresh_fills) *)
(*           or for the poll loop                                          *)
(*   the status task, which reads the balance at the same time             *)
(*   the poll loop's UnknownOrderResolver, through get_daily_orders        *)
(*                                                                         *)
(* Each lot has one sale at a time.  Its shares are counted twice: at the  *)
(* broker (real) and in the book.  How fills are recorded one by one is    *)
(* LotService's and OrderFlow's; here a poll brings what it was told.      *)
(***************************************************************************)
EXTENDS Naturals, FiniteSetsExt

CONSTANTS Domestic, Abroad,  \* the lots of each market
          Shares,            \* the shares each lot starts with
          MaxSales           \* bound: sales sent

VARIABLES
  real, book,  \* shares of each lot at the broker, and in the book
  order,       \* shares of its sale that still work at the broker
  lock,        \* the book's lock on the sale
  barrier,     \* _refresh_before_sell and _startup_refresh_pending
  fail,        \* _overseas_fail
  poll,        \* the FillPoller; its complete is executions_complete
  main,
  up,          \* the overseas broker answers
  hist         \* what happened, for the bounds and the properties

routeVars == <<real, book, order, lock, barrier, fail, poll, main, up, hist>>

FailLimit == 3                    \* _OVERSEAS_FAIL_LIMIT
Held      == Domestic \cup Abroad
ASSUME LotAssumption == Domestic \cap Abroad = {} /\ Shares \in [Held -> Nat]

MaxShares == Max({Shares[l] : l \in Held})
NoPoll    == [by |-> "none", at |-> "domestic", before |-> 0,
              complete |-> TRUE, got |-> [l \in Held |-> 0]]
NoBar     == "none"
Waiting   == [at |-> "idle", lot |-> NoBar]

\* hydrate raises the barrier for every lot.  (Mutant: for none.)
BarrierOff == [lots |-> {}, start |-> FALSE]
BarrierOn  == [lots |-> {}, start |-> TRUE]

UpTo(f)    == {g \in [Held -> 0 .. MaxShares] : \A l \in Held : g[l] <= f[l]}

\* As hydrate leaves it after a restart: a lot's last sale may be at work, or over with
\* fills the tables do not have.
RouteInit ==
  /\ book = Shares
  /\ real \in UpTo(Shares) /\ order \in UpTo(real)
  /\ lock = [l \in Held |-> IF order[l] > 0 THEN "working" ELSE "free"]
  /\ barrier = BarrierOn
  /\ fail = 0 /\ poll = NoPoll /\ main = Waiting /\ up \in BOOLEAN
  /\ hist = [sales |-> 0, missed |-> FALSE, blind |-> {}]

-----------------------------------------------------------------------------
(* The overseas leg: _overseas_call.                                       *)

\* (Mutant: the overseas leg is always asked.)
SuspendedNever == FALSE
Suspended      == fail >= FailLimit
Answers   == up /\ fail' = 0
Fails     == ~up /\ fail' = fail + 1

\* resume_overseas_reads.  (Mutant: it stays suspended.)
ResumedNever(n) == n
Resumed(n)      == IF n >= FailLimit THEN FailLimit - 1 ELSE n

-----------------------------------------------------------------------------
(* FillPoller.poll_once over get_executions.                               *)

PollStarts(who) ==
  /\ poll.by = "none"
  /\ who = "main" => main.at = "wait"
  /\ poll' = [NoPoll EXCEPT !.by = who]
  /\ UNCHANGED <<real, book, order, lock, barrier, fail, main, up, hist>>

\* What a leg tells: the executions of the lots' orders, which come to the shares
\* that are left.
Told(legs) == [l \in Held |-> IF l \in legs THEN real[l] ELSE poll.got[l]]

\* The domestic leg answers; the overseas one is asked next, unless it is suspended.
\* get_executions starts from "complete" and notes the failures so far.
DomesticAnswers ==
  /\ poll.by # "none" /\ poll.at = "domestic"
  /\ poll' = [poll EXCEPT !.at = IF Suspended THEN "apply" ELSE "overseas",
                          !.before = IF Suspended THEN 0 ELSE fail, !.complete = ~Suspended,
                          !.got = [l \in Held |-> IF l \in Domestic THEN real[l] ELSE book[l]]]
  /\ UNCHANGED <<real, book, order, lock, barrier, fail, main, up, hist>>

OverseasAnswers ==
  /\ poll.at = "overseas" /\ Answers
  /\ poll' = [poll EXCEPT !.at = "apply", !.before = 0, !.got = Told(Abroad)]
  /\ UNCHANGED <<real, book, order, lock, barrier, main, up, hist>>

\* The leg failed: the list is not complete if the count of failures is higher than
\* it was, or at the limit.
OverseasFails ==
  /\ poll.at = "overseas" /\ Fails
  /\ poll' = [poll EXCEPT !.at = "apply", !.before = 0,
                          !.complete = ~(fail' > poll.before \/ fail' >= FailLimit)]
  /\ hist' = [hist EXCEPT !.missed = @ \/ poll'.complete]
  /\ UNCHANGED <<real, book, order, lock, barrier, main, up>>

\* The fills are applied.  An order that is all filled gives up its lock; one whose
\* number is not known cannot be matched.
Applied(l) == IF lock[l] = "lost" THEN book[l] ELSE poll.got[l]
Filled(l)  == lock[l] = "working" /\ order[l] = 0 /\ Applied(l) = real[l]

\* _refresh_fills after the poll: a complete one lifts every barrier; an incomplete
\* one lifts those of domestic lots, and keeps the one of the restart.  (Mutant: it
\* lifts none.)
Unconfirmed ==
  /\ barrier' = [barrier EXCEPT !.lots = @ \cap Abroad]
  /\ main' = IF main.lot \in Abroad THEN Waiting ELSE [main EXCEPT !.at = "lock"]

AllOrNothing == UNCHANGED barrier /\ main' = Waiting

Degraded == Unconfirmed

PollEnds ==
  /\ poll.at = "apply"
  /\ book' = [l \in Held |-> Applied(l)]
  /\ lock' = [l \in Held |-> IF Filled(l) THEN "free" ELSE lock[l]]
  /\ poll' = NoPoll
  /\ \/ poll.by = "loop" /\ UNCHANGED <<barrier, main>>
     \/ poll.by = "main" /\ ~poll.complete /\ Degraded
     \/ /\ poll.by = "main" /\ poll.complete
        /\ barrier' = [lots |-> {}, start |-> FALSE]
        /\ main' = [main EXCEPT !.at = "lock"]
  /\ UNCHANGED <<real, order, fail, up, hist>>

\* An error of the domestic leg ends the poll, and the main task's bar with it.
DomesticFails ==
  /\ poll.by # "none" /\ poll.at = "domestic"
  /\ poll' = NoPoll
  /\ main' = IF poll.by = "main" THEN Waiting ELSE main
  /\ UNCHANGED <<real, book, order, lock, barrier, fail, up, hist>>

-----------------------------------------------------------------------------
(* _submit of a sale that has to go out (an exit, or the liquidation).     *)

\* A lot whose cancelled sale is not accounted for, or any after a restart, first has
\* its fills refreshed.
Want(l) ==
  /\ main = Waiting /\ book[l] > 0
  /\ main' = [at |-> IF l \in barrier.lots \/ barrier.start THEN "refresh" ELSE "lock", lot |-> l]
  /\ UNCHANGED <<real, book, order, lock, barrier, fail, poll, up, hist>>

Refresh ==
  /\ main.at = "refresh"
  /\ fail' = Resumed(fail)
  /\ main' = [main EXCEPT !.at = "wait"]
  /\ UNCHANGED <<real, book, order, lock, barrier, poll, up, hist>>

\* The lot's working sale is cancelled, and what it sold is not known yet.  (Mutant:
\* taken for known.)
CancelUnchecked ==
  /\ main.at = "lock" /\ lock[main.lot] = "working" /\ order[main.lot] > 0
  /\ order' = [order EXCEPT ![main.lot] = 0] /\ lock' = [lock EXCEPT ![main.lot] = "free"]
  /\ UNCHANGED <<real, book, barrier, main, fail, poll, up, hist>>

Cancel ==
  /\ main.at = "lock" /\ lock[main.lot] = "working" /\ order[main.lot] > 0
  /\ order' = [order EXCEPT ![main.lot] = 0] /\ lock' = [lock EXCEPT ![main.lot] = "free"]
  /\ barrier' = [barrier EXCEPT !.lots = @ \cup {main.lot}]
  /\ main' = [main EXCEPT !.at = "refresh"]
  /\ UNCHANGED <<real, book, fail, poll, up, hist>>

\* Nothing to sell any more, a sale that is all executed or not known, or no answer
\* to the cancel: the bar is over.  (And at the bound on sales.)
GiveUp ==
  /\ main.at = "lock" /\ (lock[main.lot] # "free" \/ book[main.lot] = 0 \/ hist.sales = MaxSales)
  /\ main' = Waiting
  /\ UNCHANGED <<real, book, order, lock, barrier, fail, poll, up, hist>>

\* The sale goes out, for all the book holds; an overseas order wakes the overseas
\* reads.  It is taken, refused, or it arrived and the answer is lost (one that neither
\* arrived nor was answered ends like a refused one).
Send ==
  /\ main.at = "lock" /\ lock[main.lot] = "free" /\ book[main.lot] > 0
  /\ hist.sales < MaxSales
  /\ fail' = IF main.lot \in Abroad THEN 0 ELSE fail
  /\ \E end \in {"working", "lost", "free"} :
       /\ lock' = [lock EXCEPT ![main.lot] = end]
       /\ order' = [order EXCEPT ![main.lot] = IF end \in {"working", "lost"} THEN book[main.lot] ELSE @]
  /\ main' = Waiting
  /\ hist' = [hist EXCEPT !.sales = @ + 1]
  /\ UNCHANGED <<real, book, barrier, poll, up>>

-----------------------------------------------------------------------------
(* The other tasks, the brokers, and a restart.                            *)

\* get_balance for the status file, when its overseas leg ends during that of a poll.
\* (Elsewhere it counts as a poll of the loop does.)
BalanceRead ==
  /\ poll.at = "overseas" /\ ~Suspended
  /\ Answers \/ Fails
  /\ UNCHANGED <<real, book, order, lock, barrier, poll, main, up, hist>>

\* UnknownOrderResolver, past its grace: a sale found at the broker is adopted, one
\* that is not found is given up.  The overseas adapter lists no orders: its leg is
\* the default, an empty list that counts as an answer.
Resolve ==
  /\ \E l \in Held : lock[l] = "lost"
  /\ fail' = IF Suspended THEN fail ELSE 0
  /\ lock' = [l \in Held |-> CASE lock[l] = "lost" /\ l \in Domestic -> "working"
                               [] lock[l] = "lost" /\ l \in Abroad -> "free"
                               [] OTHER -> lock[l]]
  /\ hist' = [hist EXCEPT !.blind = @ \cup {l \in Abroad : lock[l] = "lost"}]
  /\ UNCHANGED <<real, book, order, barrier, poll, main, up>>

Execute(l) ==
  /\ order[l] > 0 /\ real[l] > 0
  /\ order' = [order EXCEPT ![l] = @ - 1] /\ real' = [real EXCEPT ![l] = @ - 1]
  /\ UNCHANGED <<book, lock, barrier, fail, poll, main, up, hist>>

Outage ==
  /\ up' = ~up
  /\ UNCHANGED <<real, book, order, lock, barrier, fail, poll, main, hist>>

MainStep   == Refresh \/ Cancel \/ GiveUp \/ Send
PollStep   == DomesticAnswers \/ OverseasAnswers \/ OverseasFails \/ PollEnds
RouteNext  ==
  \/ MainStep \/ PollStep \/ DomesticFails \/ BalanceRead \/ Resolve \/ Outage
  \/ PollStarts("main") \/ PollStarts("loop")
  \/ \E l \in Held : Want(l) \/ Execute(l)

RouteSpec == RouteInit /\ [][RouteNext]_routeVars

\* A lot that has to be sold is looked at on its every bar, the tasks go on, and the
\* domestic broker answers now and then.
RouteFair == /\ \A l \in Held : SF_routeVars(Want(l))
             /\ WF_routeVars(MainStep) /\ SF_routeVars(PollStarts("main"))
             /\ \A l \in Held : SF_routeVars(DomesticAnswers /\ poll.by = "main" /\ main.lot = l)
             /\ WF_routeVars(PollStep)
FairRoute == RouteSpec /\ RouteFair

-----------------------------------------------------------------------------
\* Every variable has its type; the book never has fewer shares than the broker.
RouteTypeOK ==
  /\ \A l \in Held : real[l] \in 0 .. book[l] /\ book[l] <= Shares[l] /\ order[l] \in 0 .. Shares[l]
  /\ lock \in [Held -> {"free", "working", "lost"}]
  /\ barrier.lots \subseteq Held /\ fail \in 0 .. FailLimit + 1
  /\ poll.by \in {"none", "main", "loop"} /\ main.at \in {"idle", "refresh", "wait", "lock"}

\* A sale never has more shares at work than the broker holds: not after a sale was
\* replaced, after a restart, or while the overseas broker is out (service.py:771-800,
\* 836-866).  Two cases escape it, for overseas lots: an answer that was lost, and a
\* poll that took a failed read for an answer.
Excused       == hist.blind \cup (IF hist.missed THEN Abroad ELSE {})
NeverOversold == \A l \in Held \ Excused : order[l] <= real[l]

\* "False when the last get_executions returned without every broker leg answering"
\* (base.py:20).  (Does not hold: a read of the status task that succeeds in between
\* hides the failure.)
CompleteMeansAnswered == ~hist.missed

\* A lot that has to be sold, with no sale at work, gets to the point of sending one:
\* a domestic lot whatever the overseas broker does (routing.py:62), an overseas one
\* unless its broker fails again - the barrier and the suspended reads do not wait
\* for each other for ever (service.py:839-844).
Stuck(l)   == book[l] > 0 /\ lock[l] = "free"
Tried(l)   == main = [at |-> "lock", lot |-> l]
Excluded(l) == l \in Abroad /\ ~up
SalesGoOut == \A l \in Held : Stuck(l) ~> (Tried(l) \/ ~Stuck(l) \/ Excluded(l))
=============================================================================
