------------------------------- MODULE Market -------------------------------
(***************************************************************************)
(* Where the bars come from and who may trade on them: the tasks of serve  *)
(* that share the feed, the service's list of tickers and the regime.      *)
(*                                                                         *)
(*   feed      KisWebSocketFeed, a new one for each connection, over bar   *)
(*             builders that outlive it; _run reconnects                   *)
(*   scan      _scan_loop: ranks the market, and joins what it picks       *)
(*   regime    MarketRegime: refreshed once a day, and by the proxy's bars *)
(*                                                                         *)
(* Time is in minutes of trading; a bar is a minute.  What a bar makes of  *)
(* its lot is LotLife's: here a scanned ticker's lot only comes and goes.  *)
(***************************************************************************)
EXTENDS Naturals, Sequences, FiniteSets, SequencesExt

CONSTANTS Proxy,      \* regime.proxy_ticker: the only ticker of the settings here
          Scanned,    \* what the ranking may show
          Minutes, Days,
          ScanMinutes, \* of the day, when the scan looks
          MaxActive,  \* scanner_cfg.max_active
          SubGate,    \* the subscriptions at which the scan pauses (40)
          Levels, DropPct,  \* closes of the proxy; daily_drop_pct, leveraged
          MaxFaults  \* a bound: connections that break and restarts

ASSUME MarketAssumption ==
  /\ Minutes \in Nat \ {0} /\ Days \in Nat \ {0} /\ MaxActive \in Nat
  /\ IsFiniteSet(Scanned)

VARIABLES
  now,       \* the minute
  feed,      \* the connection and its tickers
  building,  \* the bar each ticker's builder has open
  tracked,   \* why a scanned ticker is subscribed: a template, a lot or not at all
  scan,      \* _scan_loop, with its joined_today
  regime,
  hist       \* what happened, for the bounds and the properties

marketVars == <<now, feed, building, tracked, scan, regime, hist>>

Tickers  == {Proxy} \cup Scanned
Day(m)   == m \div Minutes
Today    == Day(now)
Never    == Days * Minutes  \* no minute and no day
NoBar    == [at |-> Never, close |-> 0]
Subs     == {Proxy} \cup {t \in Scanned : tracked[t] # "no"}  \* _subscriptions
NewFeed  == [at |-> "down", subs |-> {}, todo |-> {}, sent |-> {}]
NewScan  == [at |-> "idle", picks |-> <<>>, room |-> 0, count |-> 0, day |-> 0]
NewRegime == [daily |-> TRUE, intraday |-> TRUE, prev |-> 0, last |-> 0, day |-> Never, fresh |-> FALSE]

MarketInit ==
  /\ now = 0 /\ feed = NewFeed /\ building = [t \in Tickers |-> NoBar]
  /\ tracked = [t \in Scanned |-> "no"] /\ scan = NewScan
  /\ regime = NewRegime
  /\ hist = [last |-> [t \in Tickers |-> 0], dropped |-> Never, after |-> FALSE, joins |-> 0, faults |-> 0]

-----------------------------------------------------------------------------
(* The connection: _run and KisWebSocketFeed.stream.                       *)

\* Every connection starts from the tickers that are needed then.  (Mutant: from
\* those of the settings.)
SettingsOnly == {Proxy}
Derived      == Subs

Connect ==
  /\ feed.at = "down"
  /\ feed' = [NewFeed EXCEPT !.at = "connecting", !.subs = Derived]
  /\ UNCHANGED <<now, building, tracked, scan, regime, hist>>

\* _ws is set, and the list of tickers is taken; what is appended later subscribes
\* itself.
Opened ==
  /\ feed.at = "connecting"
  /\ feed' = [feed EXCEPT !.at = "up", !.todo = feed.subs]
  /\ UNCHANGED <<now, building, tracked, scan, regime, hist>>

SendNext ==
  /\ feed.at = "up" /\ feed.todo # {}
  /\ \E t \in feed.todo : feed' = [feed EXCEPT !.todo = @ \ {t}, !.sent = @ \cup {t}]
  /\ UNCHANGED <<now, building, tracked, scan, regime, hist>>

\* The connection breaks, which the stream only sees when it reads or sends next.
Break ==
  /\ feed.at \in {"connecting", "up"} /\ hist.faults < MaxFaults
  /\ feed' = [feed EXCEPT !.at = "broken"] /\ hist' = [hist EXCEPT !.faults = @ + 1]
  /\ UNCHANGED <<now, building, tracked, scan, regime>>

\* The builders keep their open bars.  (Mutant: they are closed and sent on, as
\* flush_on_close would.)
Keep(b)    == b
Flushed(b) == [t \in Tickers |-> NoBar]
Closing(b) == Keep(b)

Ended ==
  /\ feed.at = "broken"
  /\ feed' = [feed EXCEPT !.at = "down", !.sent = {}, !.todo = {}]
  /\ building' = Closing(building)
  /\ hist' = [hist EXCEPT !.last = [t \in Tickers |-> IF building[t] # NoBar /\ building'[t] = NoBar
                                                      THEN building[t].at + 1 ELSE @[t]]]
  /\ UNCHANGED <<now, tracked, scan, regime>>

\* subscribe, on the feed there is: at once when it is connected, else with the rest.
\* True when the send of it did not raise.
Subscribed(t, ok) ==
  /\ feed' = IF t \in feed.subs THEN feed
             ELSE [feed EXCEPT !.subs = @ \cup {t}, !.sent = IF feed.at = "up" THEN @ \cup {t} ELSE @]
  /\ ok = ~(feed.at = "broken" /\ t \notin feed.subs)

-----------------------------------------------------------------------------
(* Bars: BarBuilder.on_tick, TradingService.process and the regime.        *)

Fell(close, prev) == prev > 0 /\ 100 * close <= (100 - DropPct) * prev

\* on_proxy_bar: the day's first bar takes the close before it for yesterday's; a fall
\* holds for the day.  (Mutant: until the index is back.)
ByLastBar(r, fell) == ~fell
Sticky(r, fell)    == r.intraday /\ ~fell
OnProxyBar(day, close) ==
  LET r    == IF day = regime.day THEN regime
              ELSE [regime EXCEPT !.day = day, !.intraday = TRUE, !.prev = IF regime.last > 0 THEN regime.last ELSE @]
  IN regime' = [r EXCEPT !.last = close, !.intraday = Sticky(r, Fell(close, r.prev))]

\* The bar of a ticker is over: it is processed.  A scanned ticker with a template
\* gets a lot; a lot may be done with on its bar, and its template with it.
Process(t, bar) ==
  /\ IF t = Proxy THEN OnProxyBar(Day(bar.at), bar.close) /\ UNCHANGED tracked
     ELSE /\ UNCHANGED regime
          /\ tracked' \in {[tracked EXCEPT ![t] = why] :
               why \in IF tracked[t] = "joined" THEN {"lot"} ELSE {tracked[t], "no"}}
  /\ hist' = [hist EXCEPT !.last[t] = bar.at + 1,
                          !.dropped = IF t = Proxy /\ ~regime'.intraday THEN Day(bar.at) ELSE @]

\* A trade of this minute, or of the one before when it comes late.
Trade(t) ==
  /\ feed.at = "up" /\ t \in feed.sent
  /\ \E at \in {now} \cup (IF now % Minutes > 0 THEN {now - 1} ELSE {}),
        close \in (IF t = Proxy THEN Levels ELSE {0}) :
       LET open == building[t]
       IN \/ /\ open = NoBar \/ open.at = at
             /\ building' = [building EXCEPT ![t] = [at |-> at, close |-> close]]
             /\ UNCHANGED <<tracked, regime, hist>>
          \/ /\ open # NoBar /\ open.at < at
             /\ building' = [building EXCEPT ![t] = [at |-> at, close |-> close]]
             /\ Process(t, open)
  /\ UNCHANGED <<now, feed, scan>>

-----------------------------------------------------------------------------
(* The scan: _scan_loop and _join.                                         *)

Count == IF scan.day = Today THEN scan.count ELSE 0

\* The capacity is what the day has left, and none in a bad regime.  (Mutant: the
\* regime is not asked.)
Unasked   == MaxActive - Count
Capacity  == IF regime.daily /\ regime.intraday THEN MaxActive - Count ELSE 0

Idle == [scan EXCEPT !.at = "idle", !.picks = <<>>, !.room = 0]

\* A round starts, and asks for the ranking.
ScanStarts ==
  /\ scan.at = "idle" /\ now % Minutes \in ScanMinutes
  /\ Capacity > 0 /\ Cardinality(Subs) < SubGate
  /\ scan' = [scan EXCEPT !.at = "rank", !.room = Capacity, !.count = Count, !.day = Today]
  /\ hist' = [hist EXCEPT !.after = hist.dropped = Today]
  /\ UNCHANGED <<now, feed, building, tracked, regime>>

\* The ranking: some tickers in some order.
Rankings == SetToAllKPermutations(Scanned)

\* Only tickers of the settings are left out, so what was joined before can come again.
\* (The capacity is that of the start of the round.)
Ranked ==
  /\ scan.at = "rank"
  /\ \E picks \in Rankings :
       /\ Len(picks) <= scan.room
       /\ scan' = IF picks = <<>> THEN Idle ELSE [scan EXCEPT !.at = "join", !.picks = picks]
  /\ UNCHANGED <<now, feed, building, tracked, regime, hist>>

Rest == IF Len(scan.picks) > 1 THEN [scan EXCEPT !.picks = Tail(@)]
        ELSE Idle

\* A pick that is a risk, whose minutes could not be fetched, or that has a template.
PassOver ==
  /\ scan.at = "join" /\ scan' = Rest
  /\ UNCHANGED <<now, feed, building, tracked, regime, hist>>

\* Its minutes are fetched: it is joined, subscribed and counted.  When the send
\* raises, the round ends, and what was joined is not counted.
Join ==
  /\ scan.at = "join"
  /\ LET t == Head(scan.picks)
     IN /\ tracked[t] # "joined" /\ tracked' = [tracked EXCEPT ![t] = "joined"]
        /\ \E ok \in BOOLEAN :
             /\ Subscribed(t, ok)
             /\ scan' = IF ok THEN [Rest EXCEPT !.count = @ + 1] ELSE Idle
             /\ hist' = [hist EXCEPT !.joins = @ + 1]
  /\ UNCHANGED <<now, building, regime>>

-----------------------------------------------------------------------------
(* The other tasks.                                                        *)

\* _regime_loop: once a day, from a source outside; or it fails, until the next time.
RegimeRefresh ==
  /\ ~regime.fresh
  /\ \E ok \in BOOLEAN, prev \in Levels \cup {regime.prev} :
       regime' = [regime EXCEPT !.daily = ok, !.prev = prev, !.fresh = TRUE]
  /\ UNCHANGED <<now, feed, building, tracked, scan, hist>>

\* A lot outside the list is reopened by a late fill, and subscribed (subscribe_hook).
Reopened(t) ==
  /\ tracked[t] = "no" /\ tracked' = [tracked EXCEPT ![t] = "lot"]
  /\ \E ok \in BOOLEAN : Subscribed(t, ok)
  /\ UNCHANGED <<now, building, scan, regime, hist>>

\* A minute goes by, at the end of which the watchdog looks; and at the end of the day
\* the night, which is longer than a round of the scan.
Minute ==
  /\ now + 1 < Days * Minutes
  /\ Day(now + 1) > Today => scan.at = "idle"
  /\ now' = now + 1
  /\ regime' = [regime EXCEPT !.fresh = @ /\ Day(now') = Today]
  /\ hist' = [hist EXCEPT !.joins = IF Day(now') > Today THEN 0 ELSE @]
  /\ UNCHANGED <<feed, building, tracked, scan>>

\* The process ends and starts again: only lots in the database come back.
Restart ==
  /\ hist.faults < MaxFaults
  /\ feed' = NewFeed /\ building' = [t \in Tickers |-> NoBar] /\ scan' = NewScan
  /\ regime' = NewRegime
  /\ tracked' = [t \in Scanned |-> IF tracked[t] = "lot" THEN "lot" ELSE "no"]
  /\ hist' = [hist EXCEPT !.faults = @ + 1, !.dropped = Never, !.after = FALSE,
                          !.last = [t \in Tickers |-> 0]]
  /\ UNCHANGED now

MarketNext ==
  \/ Connect \/ Opened \/ SendNext \/ Break \/ Ended
  \/ \E t \in Tickers : Trade(t)
  \/ ScanStarts \/ Ranked \/ PassOver \/ Join
  \/ RegimeRefresh \/ Minute \/ Restart
  \/ \E t \in Scanned : Reopened(t)

MarketSpec == MarketInit /\ [][MarketNext]_marketVars

-----------------------------------------------------------------------------
\* A ticker's bars come once and in order, though connections end in the middle of
\* them and trades come late (kis_ws_feed.py:46-49, 88-96, bar_builder.py:66-80).
Sent(t) == building[t] # NoBar /\ (building'[t] = NoBar \/ building'[t].at > building[t].at)
BarsInOrder == [][~(hist'.faults > hist.faults) =>
                    \A t \in Tickers : Sent(t) => building[t].at >= hist.last[t]]_marketVars

\* On a connection that is ready, every ticker with a template or a lot is subscribed,
\* whatever was joined while it was being made (cli.py:172-178, 397-401).
TrackedSubscribed == feed.at = "up" /\ feed.todo = {} => Subs \subseteq feed.sent

\* A round of the scan that starts after the day's fall joins nothing, though the index
\* has come back or the day's refresh came in between (regime.py:67, cli.py:435-440).
NoJoinAfterDrop == [][hist'.joins > hist.joins => ~hist.after]_marketVars
=============================================================================
