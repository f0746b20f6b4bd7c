---------------------------- MODULE Market_proofs ----------------------------
(***************************************************************************)
(* Proofs about Market for any number of tickers, minutes, days, joins and *)
(* faults, any levels of the proxy and any limits of the scan.             *)
(***************************************************************************)
EXTENDS Market, Integers, FiniteSetTheorems, SequenceTheorems, TLAPS

Bars    == [at : Nat, close : Levels \cup {0}]
Feeds   == [at : {"down", "connecting", "up", "broken"},
            subs : SUBSET Tickers, todo : SUBSET Tickers, sent : SUBSET Tickers]
Regimes == [daily : BOOLEAN, intraday : BOOLEAN, prev : Levels \cup {0},
            last : Levels \cup {0}, day : Nat, fresh : BOOLEAN]
Hists   == [last : [Tickers -> Nat], dropped : Nat, after : BOOLEAN, joins : Nat, faults : Nat]

TypeInv ==
  /\ now \in Nat /\ now < Never
  /\ feed \in Feeds /\ building \in [Tickers -> Bars]
  /\ tracked \in [Scanned -> {"no", "joined", "lot"}]
  /\ regime \in Regimes /\ hist \in Hists

\* What is tracked is on the list of the connection, which sends it or has sent it.
FeedOK ==
  /\ feed.at \in {"connecting", "up"} => Subs \subseteq feed.subs
  /\ feed.at = "up" => feed.subs \subseteq feed.todo \cup feed.sent

\* A bar that is open is later than every bar sent, and of a minute that has begun;
\* a ticker without one has sent nothing.
BuildingOK ==
  \A t \in Tickers :
    /\ hist.last[t] <= now + 1
    /\ building[t] = NoBar => hist.last[t] = 0
    /\ building[t] # NoBar => hist.last[t] <= building[t].at /\ building[t].at <= now

\* The regime is of the day of the proxy's last bar, and remembers that day's fall; no
\* round of the scan began after it.
RegimeOK ==
  /\ regime.day = Never \/ (hist.last[Proxy] > 0 /\ regime.day = Day(hist.last[Proxy] - 1))
  /\ hist.dropped = Never \/ (regime.day # Never /\ hist.dropped <= regime.day)
  /\ hist.dropped = regime.day /\ regime.day # Never => ~regime.intraday
  /\ ~hist.after

\* A round that joins has tickers left.
ScanOK ==
  /\ scan \in [at : {"idle", "rank", "join"}, picks : Seq(Scanned), room : Int, count : Nat,
              day : Nat]
  /\ scan.at = "join" => scan.picks # <<>>

Inv == TypeInv /\ FeedOK /\ BuildingOK /\ RegimeOK

-----------------------------------------------------------------------------
\* Days follow each other as their minutes do.
LEMMA DayIsMonotone ==
  ASSUME MarketAssumption, NEW m \in Nat, NEW n \in Nat, m <= n
  PROVE  Day(m) \in Nat /\ Day(m) <= Day(n) /\ Day(m) <= m
BY DEF MarketAssumption, Day

\* Today is a day before the end, and no minute or day is Never.
LEMMA TodayIsADay ==
  ASSUME MarketAssumption, TypeInv
  PROVE  Never \in Nat /\ Today \in Nat /\ Today < Never
<1>1. Never \in Nat
  BY DEF MarketAssumption, Never
<1>2. QED
  BY <1>1, DayIsMonotone DEF Today, TypeInv

\* A trade opens or extends a bar of its minute, or closes one that is earlier.
TradeOn(t, at, c) ==
  /\ at \in Nat /\ at <= now /\ c \in Levels \cup {0}
  /\ building' = [building EXCEPT ![t] = [at |-> at, close |-> c]]
  /\ \/ /\ building[t] = NoBar \/ building[t].at = at
        /\ UNCHANGED <<tracked, regime, hist>>
     \/ /\ building[t] # NoBar /\ building[t].at < at
        /\ Process(t, building[t])

\* Every trade is one of these.
LEMMA Trades ==
  ASSUME MarketAssumption, TypeInv, NEW t \in Tickers, Trade(t)
  PROVE  \E at, c : TradeOn(t, at, c)
<1>1. PICK at \in {now} \cup (IF now % Minutes > 0 THEN {now - 1} ELSE {}),
           c \in (IF t = Proxy THEN Levels ELSE {0}) :
        LET open == building[t]
        IN \/ /\ open = NoBar \/ open.at = at
              /\ building' = [building EXCEPT ![t] = [at |-> at, close |-> c]]
              /\ UNCHANGED <<tracked, regime, hist>>
           \/ /\ open # NoBar /\ open.at < at
              /\ building' = [building EXCEPT ![t] = [at |-> at, close |-> c]]
              /\ Process(t, open)
  BY DEF Trade
<1>2. at \in Nat /\ at <= now
  <2>1. now % Minutes > 0 => now > 0
    BY DEF MarketAssumption, TypeInv
  <2>2. QED
    BY <1>1, <2>1 DEF TypeInv
<1>3. QED
  BY <1>1, <1>2 DEF TradeOn

\* What becomes of the other variables when a bar is processed.
Processed(t, bar) ==
  /\ tracked' \in [Scanned -> {"no", "joined", "lot"}]
  /\ \A u \in Scanned : tracked'[u] # "no" => tracked[u] # "no"
  /\ hist' \in Hists /\ hist'.last = [hist.last EXCEPT ![t] = bar.at + 1]
  /\ hist'.after = hist.after /\ hist'.joins = hist.joins /\ hist'.faults = hist.faults
  /\ hist'.dropped = IF t = Proxy /\ ~regime'.intraday THEN Day(bar.at) ELSE hist.dropped
  /\ regime' \in Regimes
  /\ t # Proxy => regime' = regime
  /\ t = Proxy => /\ regime'.day = Day(bar.at)
                  /\ regime.day = Day(bar.at) /\ ~regime.intraday => ~regime'.intraday

LEMMA Processing ==
  ASSUME MarketAssumption, TypeInv, NEW t \in Tickers, NEW bar \in Bars, Process(t, bar)
  PROVE  Processed(t, bar)
<1>1. Day(bar.at) \in Nat
  BY DayIsMonotone DEF Bars
<1>2. PICK d : d = IF t = Proxy /\ ~regime'.intraday THEN Day(bar.at) ELSE hist.dropped
  OBVIOUS
<1>3. hist' = [hist EXCEPT !.last[t] = bar.at + 1, !.dropped = d]
  BY <1>2 DEF Process
<1>4. d \in Nat
  BY <1>1, <1>2 DEF TypeInv, Hists
<1>5. /\ hist'.last = [hist.last EXCEPT ![t] = bar.at + 1] /\ hist'.dropped = d
      /\ hist'.after = hist.after /\ hist'.joins = hist.joins /\ hist'.faults = hist.faults
      /\ hist' \in Hists
  <2>1. PICK f : f = [hist.last EXCEPT ![t] = bar.at + 1]
    OBVIOUS
  <2>2. f \in [Tickers -> Nat]
    BY <2>1 DEF TypeInv, Bars, Hists
  <2>3. hist' = [hist EXCEPT !.last = f, !.dropped = d]
    BY <1>3, <2>1
  <2>4. QED
    BY <1>4, <2>1, <2>2, <2>3 DEF TypeInv, Hists
<1>6. /\ tracked' \in [Scanned -> {"no", "joined", "lot"}]
      /\ \A u \in Scanned : tracked'[u] # "no" => tracked[u] # "no"
  <2>1. CASE t = Proxy
    BY <2>1 DEF Process, TypeInv
  <2>2. CASE t # Proxy
    <3>1. PICK why \in IF tracked[t] = "joined" THEN {"lot"} ELSE {tracked[t], "no"} :
            tracked' = [tracked EXCEPT ![t] = why]
      BY <2>2 DEF Process
    <3>2. t \in Scanned
      BY <2>2 DEF Tickers
    <3>3. why \in {"no", "joined", "lot"} /\ (why # "no" => tracked[t] # "no")
      BY <3>1, <3>2 DEF TypeInv
    <3>4. QED
      BY <3>1, <3>2, <3>3 DEF TypeInv
  <2>3. QED
    BY <2>1, <2>2
<1>7. CASE t = Proxy
  <2>1. PICK r : /\ r = IF Day(bar.at) = regime.day THEN regime
                        ELSE [regime EXCEPT !.day = Day(bar.at), !.intraday = TRUE,
                                !.prev = IF regime.last > 0 THEN regime.last ELSE @]
                 /\ regime' = [r EXCEPT !.last = bar.close,
                                        !.intraday = Sticky(r, Fell(bar.close, r.prev))]
    BY <1>7 DEF Process, OnProxyBar
  <2>2. regime \in Regimes
    BY DEF TypeInv
  <2>3. r.day = Day(bar.at) /\ r \in Regimes
    BY <1>1, <2>1, <2>2 DEF Regimes
  <2>4. Sticky(r, Fell(bar.close, r.prev)) \in BOOLEAN
    BY DEF Sticky
  <2>5. /\ regime'.day = r.day /\ regime'.intraday = Sticky(r, Fell(bar.close, r.prev))
        /\ regime' \in Regimes
    BY ZenonT(60), <2>1, <2>3, <2>4 DEF Regimes, Bars
  <2>6. QED
    BY <1>2, <1>5, <1>6, <1>7, <2>1, <2>3, <2>5 DEF Sticky, Processed
<1>8. CASE t # Proxy
  BY <1>2, <1>5, <1>6, <1>8 DEF Process, TypeInv, Processed
<1>9. QED
  BY <1>7, <1>8

-----------------------------------------------------------------------------
\* Subscribing a ticker puts it on the list of the connection.
LEMMA Subscribing ==
  ASSUME TypeInv, FeedOK, NEW t \in Tickers, NEW ok \in BOOLEAN, Subscribed(t, ok)
  PROVE  /\ feed' \in Feeds
         /\ feed'.at = feed.at /\ feed'.subs = feed.subs \cup {t}
         /\ feed.at = "up" => feed'.subs \subseteq feed'.todo \cup feed'.sent
<1>1. CASE t \in feed.subs
  BY <1>1 DEF Subscribed, TypeInv, FeedOK
<1>2. CASE t \notin feed.subs
  <2>1. PICK f, g : /\ f = feed.subs \cup {t}
                    /\ g = IF feed.at = "up" THEN feed.sent \cup {t} ELSE feed.sent
    OBVIOUS
  <2>2. feed' = [feed EXCEPT !.subs = f, !.sent = g]
    BY <1>2, <2>1 DEF Subscribed
  <2>3. f \in SUBSET Tickers /\ g \in SUBSET Tickers
    BY <2>1 DEF TypeInv, Feeds
  <2>4. /\ feed'.at = feed.at /\ feed'.subs = f /\ feed'.sent = g /\ feed'.todo = feed.todo
        /\ feed' \in Feeds
    BY <2>2, <2>3 DEF TypeInv, Feeds
  <2>5. QED
    BY <2>1, <2>4 DEF FeedOK
<1>3. QED
  BY <1>1, <1>2

\* The connection's own steps.
FeedSteps == Connect \/ Opened \/ SendNext \/ Break \/ Ended

LEMMA FeedStep == ASSUME MarketAssumption, Inv, FeedSteps PROVE Inv'
<1>0. TypeInv /\ FeedOK /\ Subs \subseteq Tickers
  BY DEF Inv, Subs, Tickers
<1>1. /\ feed' \in Feeds
      /\ feed'.at \in {"connecting", "up"} => Subs \subseteq feed'.subs
      /\ feed'.at = "up" => feed'.subs \subseteq feed'.todo \cup feed'.sent
  <2>0. feed \in Feeds
    BY <1>0 DEF TypeInv
  <2>1. CASE Connect
    <3>1. feed' = [NewFeed EXCEPT !.at = "connecting", !.subs = Subs]
      BY <2>1 DEF Connect, Derived
    <3>2. QED
      BY <1>0, <3>1 DEF NewFeed, Feeds
  <2>2. CASE Opened
    BY <1>0, <2>0, <2>2 DEF Opened, Feeds, FeedOK
  <2>3. CASE SendNext
    <3>1. PICK t \in feed.todo :
            feed' = [feed EXCEPT !.todo = feed.todo \ {t}, !.sent = feed.sent \cup {t}]
      BY <2>3 DEF SendNext
    <3>2. /\ feed' \in Feeds /\ feed'.at = feed.at /\ feed'.subs = feed.subs
          /\ feed'.todo = feed.todo \ {t} /\ feed'.sent = feed.sent \cup {t}
      BY <2>0, <3>1 DEF Feeds
    <3>3. QED
      BY <1>0, <3>2 DEF FeedOK
  <2>4. CASE Break \/ Ended
    BY <2>0, <2>4 DEF Break, Ended, Feeds
  <2>5. QED
    BY <2>1, <2>2, <2>3, <2>4 DEF FeedSteps
<1>2. /\ Subs' = Subs /\ now' = now /\ tracked' = tracked /\ regime' = regime
      /\ building' = building /\ Never' = Never /\ Today' = Today
  BY DEF FeedSteps, Connect, Opened, SendNext, Break, Ended, Subs, Closing, Keep, Today, Never
<1>3. /\ hist' \in Hists
      /\ hist'.last = hist.last /\ hist'.dropped = hist.dropped /\ hist'.after = hist.after
  <2>1. CASE hist' = hist
    BY <1>0, <2>1 DEF TypeInv
  <2>2. CASE Break
    BY <1>0, <2>2 DEF Break, TypeInv, Hists
  <2>3. CASE Ended
    <3>1. PICK f : f = [t \in Tickers |-> IF building[t] # NoBar /\ building'[t] = NoBar
                                          THEN building[t].at + 1 ELSE hist.last[t]]
      OBVIOUS
    <3>2. hist' = [hist EXCEPT !.last = f]
      BY <2>3, <3>1 DEF Ended
    <3>3. f = hist.last
      BY <1>0, <1>2, <3>1 DEF TypeInv, Hists
    <3>4. QED
      BY <1>0, <3>2, <3>3 DEF TypeInv, Hists
  <2>4. QED
    BY <2>1, <2>2, <2>3 DEF FeedSteps, Connect, Opened, SendNext
<1>4. TypeInv'
  BY <1>0, <1>1, <1>2, <1>3 DEF TypeInv, Bars, Feeds, Hists, Regimes
<1>5. FeedOK'
  BY <1>1, <1>2 DEF FeedOK
<1>6. BuildingOK' /\ RegimeOK'
  BY <1>2, <1>3 DEF Inv, BuildingOK, RegimeOK, NoBar, Never, Day, Today
<1>7. QED
  BY <1>4, <1>5, <1>6 DEF Inv

\* A trade: its bar is later than the one it closes, and the proxy's bar that it closes is
\* of the regime's day or of a later one.
LEMMA TradeStep == ASSUME MarketAssumption, Inv, NEW t \in Tickers, Trade(t) PROVE Inv'
<1>0. /\ TypeInv /\ FeedOK /\ BuildingOK /\ RegimeOK /\ now' = now /\ feed' = feed
      /\ Never' = Never /\ Today' = Today /\ Never \in Nat /\ Today \in Nat /\ Today < Never
  BY TodayIsADay DEF Inv, Trade, Never, Today
<1>1. PICK at, c : TradeOn(t, at, c)
  BY <1>0, Trades
<1>2. PICK b : b = [at |-> at, close |-> c]
  OBVIOUS
<1>3. /\ b \in Bars /\ b.at = at /\ at < Never /\ b # NoBar /\ at \in Nat /\ at <= now
      /\ building' = [building EXCEPT ![t] = b]
  BY <1>0, <1>1, <1>2 DEF TradeOn, Bars, NoBar, TypeInv
<1>4. /\ building' \in [Tickers -> Bars] /\ building'[t] = b
      /\ \A u \in Tickers \ {t} : building'[u] = building[u]
  BY <1>0, <1>3 DEF TypeInv
<1>5. CASE UNCHANGED <<tracked, regime, hist>> /\ (building[t] = NoBar \/ building[t].at = at)
  <2>1. TypeInv' /\ FeedOK' /\ RegimeOK'
    BY <1>0, <1>4, <1>5 DEF TypeInv, FeedOK, RegimeOK, Subs, Bars, Feeds, Hists, Regimes, Day,
                            Never
  <2>2. ASSUME NEW u \in Tickers
        PROVE  /\ hist.last[u] <= now + 1
               /\ building'[u] = NoBar => hist.last[u] = 0
               /\ building'[u] # NoBar => hist.last[u] <= building'[u].at /\ building'[u].at <= now
    <3>1. CASE u = t
      <4>1. hist.last[t] <= at
        BY <1>0, <1>3, <1>5 DEF BuildingOK
      <4>2. QED
        BY <1>0, <1>3, <1>4, <3>1, <4>1 DEF BuildingOK
    <3>2. CASE u # t
      BY <1>0, <1>4, <3>2 DEF BuildingOK
    <3>3. QED
      BY <3>1, <3>2
  <2>3. BuildingOK'
    BY <1>0, <1>5, <2>2 DEF BuildingOK, NoBar, Never
  <2>4. QED
    BY <2>1, <2>3 DEF Inv
<1>6. CASE building[t] # NoBar /\ building[t].at < at /\ Process(t, building[t])
  <2>1. building[t] \in Bars /\ building[t].at \in Nat
    BY <1>0 DEF TypeInv, Bars
  <2>2. PICK old \in Bars : old = building[t]
    BY <2>1
  <2>3. Processed(t, old)
    BY <1>0, <1>6, <2>2, Processing
  <2>4. TypeInv'
    BY <1>0, <1>4, <2>3 DEF TypeInv, Processed, Bars, Feeds, Hists, Regimes
  <2>5. FeedOK'
    <3>1. Subs' \subseteq Subs
      BY <2>3 DEF Subs, Processed
    <3>2. QED
      BY <1>0, <3>1 DEF FeedOK
  <2>6. BuildingOK'
    <3>1. ASSUME NEW u \in Tickers
          PROVE  /\ hist'.last[u] <= now + 1
                 /\ building'[u] = NoBar => hist'.last[u] = 0
                 /\ building'[u] # NoBar => hist'.last[u] <= building'[u].at /\ building'[u].at <= now
      <4>1. CASE u = t
        <5>1. hist'.last[t] = old.at + 1 /\ old.at < at
          BY <1>0, <1>6, <2>2, <2>3 DEF TypeInv, Hists, Processed
        <5>2. QED
          BY <1>0, <1>3, <1>4, <2>1, <2>2, <4>1, <5>1 DEF TypeInv
      <4>2. CASE u # t
        <5>1. hist'.last[u] = hist.last[u]
          BY <1>0, <2>3, <4>2 DEF TypeInv, Hists, Processed
        <5>2. QED
          BY <1>0, <1>4, <4>2, <5>1 DEF BuildingOK
      <4>3. QED
        BY <4>1, <4>2
    <3>2. QED
      BY <1>0, <3>1 DEF BuildingOK, NoBar, Never
  <2>7. RegimeOK'
    <3>1. CASE t # Proxy
      <4>1. /\ hist'.last[Proxy] = hist.last[Proxy] /\ hist'.dropped = hist.dropped
            /\ hist'.after = hist.after /\ regime' = regime
        BY <1>0, <2>3, <3>1 DEF TypeInv, Tickers, Hists, Processed
      <4>2. QED
        BY <1>0, <4>1 DEF RegimeOK, Day, Never
    <3>2. CASE t = Proxy
      <4>1. /\ hist'.last[Proxy] = old.at + 1 /\ old.at \in Nat /\ old.at <= now
            /\ hist.last[Proxy] <= old.at /\ old.at < Never /\ hist.last[Proxy] \in Nat
        BY <1>0, <1>6, <2>1, <2>2, <2>3, <3>2 DEF TypeInv, BuildingOK, Hists, Processed
      <4>2. Day(old.at) \in Nat /\ Day(old.at) < Never
        BY <1>0, <4>1, DayIsMonotone
      <4>3. regime.day # Never => regime.day \in Nat /\ regime.day <= Day(old.at)
        <5>1. CASE hist.last[Proxy] > 0 /\ regime.day = Day(hist.last[Proxy] - 1)
          <6>1. PICK m \in Nat : m = hist.last[Proxy] - 1 /\ m <= old.at
            BY <4>1, <5>1
          <6>2. QED
            BY <4>1, <5>1, <6>1, DayIsMonotone
        <5>2. QED
          BY <1>0, <5>1 DEF RegimeOK
      <4>4. /\ regime'.day = Day(old.at) /\ hist'.last[Proxy] > 0
            /\ regime'.day = Day(hist'.last[Proxy] - 1)
        <5>1. hist'.last[Proxy] - 1 = old.at
          BY <4>1
        <5>2. QED
          BY <2>3, <3>2, <4>1, <5>1 DEF Processed
      <4>5. hist.dropped = Never \/ (hist.dropped \in Nat /\ hist.dropped <= Day(old.at))
        BY <1>0, <4>2, <4>3 DEF RegimeOK, TypeInv, Hists
      <4>6. hist'.dropped = Never \/ (regime'.day # Never /\ hist'.dropped <= regime'.day)
        BY <1>0, <2>3, <3>2, <4>2, <4>4, <4>5 DEF Processed
      <4>7. hist'.dropped = regime'.day => ~regime'.intraday
        <5>1. SUFFICES ASSUME hist'.dropped = Day(old.at), regime'.intraday PROVE FALSE
          BY <4>4
        <5>2. hist.dropped = Day(old.at)
          BY <2>3, <5>1 DEF Processed
        <5>3. regime.day = Day(old.at)
          BY <1>0, <4>2, <4>3, <5>2 DEF RegimeOK, TypeInv, Hists
        <5>4. ~regime.intraday
          BY <1>0, <4>2, <5>2, <5>3 DEF RegimeOK
        <5>5. QED
          BY <2>3, <3>2, <5>1, <5>3, <5>4 DEF Processed
      <4>8. ~hist'.after
        BY <1>0, <2>3 DEF RegimeOK, Processed
      <4>9. QED
        BY <1>0, <4>4, <4>6, <4>7, <4>8 DEF RegimeOK, Day, Never
    <3>3. QED
      BY <3>1, <3>2
  <2>8. QED
    BY <2>4, <2>5, <2>6, <2>7 DEF Inv
<1>7. QED
  BY <1>1, <1>5, <1>6 DEF TradeOn

\* A join or a reopened lot: what comes to be tracked is on the connection's list.
LEMMA TrackStep ==
  ASSUME MarketAssumption, Inv, NEW t \in Scanned, NEW why \in {"joined", "lot"},
         NEW ok \in BOOLEAN, Subscribed(t, ok), tracked' = [tracked EXCEPT ![t] = why],
         UNCHANGED <<now, building, regime>>, hist' \in Hists, hist'.last = hist.last,
         hist'.dropped = hist.dropped, hist'.after = hist.after
  PROVE  Inv'
<1>0. /\ TypeInv /\ FeedOK /\ t \in Tickers /\ Never' = Never
  BY DEF Inv, Tickers, Never
<1>1. /\ feed' \in Feeds /\ feed'.at = feed.at /\ feed'.subs = feed.subs \cup {t}
      /\ feed.at = "up" => feed'.subs \subseteq feed'.todo \cup feed'.sent
  BY <1>0, Subscribing
<1>2. TypeInv'
  BY <1>0, <1>1 DEF TypeInv, Feeds, Bars, Hists, Regimes
<1>3. Subs' \subseteq Subs \cup {t}
  BY <1>0 DEF Subs, TypeInv
<1>4. FeedOK'
  BY <1>0, <1>1, <1>3 DEF FeedOK
<1>5. BuildingOK' /\ RegimeOK'
  BY <1>0 DEF Inv, BuildingOK, RegimeOK, NoBar, Never, Day
<1>6. QED
  BY <1>2, <1>4, <1>5 DEF Inv

\* A round of the scan starts on no day of a fall: there is no capacity then.
LEMMA ScanStartStep == ASSUME MarketAssumption, Inv, ScanStarts PROVE Inv'
<1>0. /\ TypeInv /\ FeedOK /\ BuildingOK /\ RegimeOK /\ Never' = Never /\ Never \in Nat
      /\ Today \in Nat /\ Today < Never
  BY TodayIsADay DEF Inv, Never
<1>1. PICK a : a = (hist.dropped = Today)
  OBVIOUS
<1>2. hist' = [hist EXCEPT !.after = a] /\ UNCHANGED <<now, feed, building, tracked, regime>>
  BY <1>1 DEF ScanStarts
<1>3. regime.intraday
  <2>1. Capacity > 0
    BY DEF ScanStarts
  <2>2. CASE ~regime.intraday
    <3>1. Capacity = 0
      BY <2>2 DEF Capacity
    <3>2. QED
      BY <2>1, <3>1
  <2>3. QED
    BY <2>2
<1>4. ~a
  <2>1. SUFFICES ASSUME hist.dropped = Today PROVE FALSE
    BY <1>1
  <2>2. regime.day # Never /\ Today <= regime.day
    BY <1>0, <2>1 DEF RegimeOK
  <2>3. regime.day <= Today
    <3>1. PICK m \in Nat : m = hist.last[Proxy] - 1 /\ m <= now /\ regime.day = Day(m)
      BY <1>0, <2>2 DEF RegimeOK, BuildingOK, TypeInv, Hists, Tickers
    <3>2. QED
      BY <1>0, <3>1, DayIsMonotone DEF Today, TypeInv
  <2>4. regime.day = Today
    BY <1>0, <2>2, <2>3 DEF TypeInv, Regimes
  <2>5. QED
    BY <1>0, <1>3, <2>1, <2>2, <2>4 DEF RegimeOK
<1>5. /\ hist' \in Hists /\ hist'.last = hist.last /\ hist'.dropped = hist.dropped
      /\ ~hist'.after
  BY <1>0, <1>1, <1>2, <1>4 DEF TypeInv, Hists
<1>6. TypeInv' /\ FeedOK'
  BY <1>0, <1>2, <1>5 DEF TypeInv, FeedOK, Subs, Feeds, Bars, Hists, Regimes
<1>7. BuildingOK' /\ RegimeOK'
  BY <1>0, <1>2, <1>5 DEF BuildingOK, RegimeOK, NoBar, Never, Day
<1>8. QED
  BY <1>6, <1>7 DEF Inv

\* A minute goes by: what was of the day and before now still is.
LEMMA MinuteStep == ASSUME MarketAssumption, Inv, Minute PROVE Inv'
<1>0. /\ TypeInv /\ FeedOK /\ BuildingOK /\ RegimeOK /\ Never' = Never
      /\ now' = now + 1 /\ now' < Never /\ UNCHANGED <<feed, building, tracked>>
  BY DEF Inv, Never, Minute
<1>1. /\ regime' \in Regimes /\ regime'.day = regime.day /\ regime'.intraday = regime.intraday
  <2>1. PICK f \in BOOLEAN : regime' = [regime EXCEPT !.fresh = f]
    BY DEF Minute
  <2>2. QED
    BY <1>0, <2>1 DEF TypeInv, Regimes
<1>2. /\ hist' \in Hists /\ hist'.last = hist.last /\ hist'.dropped = hist.dropped
      /\ hist'.after = hist.after
  <2>1. PICK j \in Nat : hist' = [hist EXCEPT !.joins = j]
    BY <1>0 DEF Minute, TypeInv, Hists
  <2>2. QED
    BY <1>0, <2>1 DEF TypeInv, Hists
<1>3. TypeInv' /\ FeedOK'
  BY <1>0, <1>1, <1>2 DEF TypeInv, FeedOK, Subs, Feeds, Bars, Hists, Regimes
<1>4. BuildingOK' /\ RegimeOK'
  <2>1. ASSUME NEW t \in Tickers PROVE hist.last[t] \in Nat /\ (building[t] # NoBar => building[t].at \in Nat)
    BY <1>0 DEF TypeInv, Hists, Bars
  <2>2. BuildingOK'
    BY <1>0, <1>2, <2>1 DEF BuildingOK, NoBar, Never, TypeInv
  <2>3. RegimeOK'
    BY <1>0, <1>1, <1>2 DEF RegimeOK, Day, Never
  <2>4. QED
    BY <2>2, <2>3
<1>5. QED
  BY <1>3, <1>4 DEF Inv

\* The other steps of the scan and of the regime, and a restart.
LEMMA OtherStep ==
  ASSUME MarketAssumption, Inv,
         Ranked \/ PassOver \/ RegimeRefresh \/ Restart \/ UNCHANGED marketVars
  PROVE  Inv'
<1>0. /\ TypeInv /\ FeedOK /\ BuildingOK /\ RegimeOK /\ Never' = Never /\ Never \in Nat
  BY TodayIsADay DEF Inv, Never
<1>1. CASE Ranked \/ PassOver \/ UNCHANGED marketVars
  <2>1. UNCHANGED <<now, feed, building, tracked, regime, hist>>
    BY <1>1 DEF Ranked, PassOver, marketVars
  <2>2. QED
    BY <1>0, <2>1 DEF Inv, TypeInv, FeedOK, BuildingOK, RegimeOK, Subs, Feeds, Bars, Hists,
                      Regimes, NoBar, Never, Day
<1>2. CASE RegimeRefresh
  <2>1. PICK ok \in BOOLEAN, p \in Levels \cup {regime.prev} :
          regime' = [regime EXCEPT !.daily = ok, !.prev = p, !.fresh = TRUE]
    BY <1>2 DEF RegimeRefresh
  <2>2. /\ regime' \in Regimes /\ regime'.day = regime.day
        /\ regime'.intraday = regime.intraday
        /\ UNCHANGED <<now, feed, building, tracked, hist>>
    BY <1>0, <1>2, <2>1 DEF RegimeRefresh, TypeInv, Regimes
  <2>3. QED
    BY <1>0, <2>2 DEF Inv, TypeInv, FeedOK, BuildingOK, RegimeOK, Subs, Feeds, Bars, Hists,
                      NoBar, Never, Day
<1>3. CASE Restart
  <2>1. /\ feed' = NewFeed /\ building' = [t \in Tickers |-> NoBar] /\ regime' = NewRegime
        /\ tracked' \in [Scanned -> {"no", "joined", "lot"}] /\ now' = now
    BY <1>3 DEF Restart
  <2>2. PICK f, k : /\ f = [t \in Tickers |-> 0] /\ k = hist.faults + 1
    OBVIOUS
  <2>3. hist' = [hist EXCEPT !.faults = k, !.dropped = Never, !.after = FALSE, !.last = f]
    BY <1>3, <2>2 DEF Restart
  <2>4. f \in [Tickers -> Nat] /\ k \in Nat /\ NoBar \in Bars
    BY <1>0, <2>2 DEF TypeInv, Hists, NoBar, Bars
  <2>5. /\ hist' \in Hists /\ hist'.last = f /\ hist'.dropped = Never /\ ~hist'.after
    BY <1>0, <2>3, <2>4 DEF TypeInv, Hists
  <2>6. TypeInv'
    BY <1>0, <2>1, <2>4, <2>5 DEF TypeInv, Feeds, Bars, Hists, Regimes, NewFeed, NewRegime
  <2>7. FeedOK'
    BY <2>1 DEF FeedOK, NewFeed
  <2>8. BuildingOK'
    BY <1>0, <2>1, <2>2, <2>5 DEF BuildingOK, NoBar, Never, TypeInv
  <2>9. RegimeOK'
    BY <1>0, <2>1, <2>5 DEF RegimeOK, NewRegime, Never
  <2>10. QED
    BY <2>6, <2>7, <2>8, <2>9 DEF Inv
<1>4. QED
  BY <1>1, <1>2, <1>3

\* The picks are tickers.
LEMMA ScanStep ==
  ASSUME MarketAssumption, TypeInv, ScanOK, [MarketNext]_marketVars
  PROVE  ScanOK'
<1> DEFINE Scans == [at : {"idle", "rank", "join"}, picks : Seq(Scanned), room : Int,
                     count : Nat, day : Nat]
<1>0. scan \in Scans /\ Today \in Nat
  BY TodayIsADay DEF ScanOK
<1>1. Idle \in Scans /\ Idle.at = "idle"
  <2>1. <<>> \in Seq(Scanned)
    OBVIOUS
  <2>2. PICK e \in Seq(Scanned) : e = <<>>
    BY <2>1
  <2>3. PICK i : i = [scan EXCEPT !.at = "idle", !.picks = e, !.room = 0]
    OBVIOUS
  <2>4. i.at = "idle" /\ i \in Scans
    <3>1. scan.count \in Nat /\ scan.day \in Nat
      BY <1>0
    <3>2. i = [at |-> "idle", picks |-> e, room |-> 0, count |-> scan.count, day |-> scan.day]
      BY <1>0, <2>3
    <3>3. QED
      BY <3>1, <3>2
  <2>5. Idle = i
    BY <2>2, <2>3 DEF Idle
  <2>6. QED
    BY <2>4, <2>5
<1>2. scan.at = "join" => Rest \in Scans /\ (Rest.at = "join" => Rest.picks # <<>>)
  <2>1. CASE scan.at = "join" /\ Len(scan.picks) > 1
    <3>1. PICK p : p = Tail(scan.picks)
      OBVIOUS
    <3>2. scan.picks \in Seq(Scanned)
      BY <1>0
    <3>3. p \in Seq(Scanned) /\ Len(p) = Len(scan.picks) - 1 /\ Len(scan.picks) \in Nat
      BY <2>1, <3>1, <3>2
    <3>4. p # <<>>
      BY <2>1, <3>3
    <3>5. Rest = [scan EXCEPT !.picks = p]
      BY <2>1, <3>1 DEF Rest
    <3>6. QED
      BY <1>0, <3>3, <3>4, <3>5
  <2>2. CASE ~(Len(scan.picks) > 1)
    BY <1>1, <2>2 DEF Rest
  <2>3. QED
    BY <2>1, <2>2
<1>3. CASE ScanStarts
  <2>1. Count \in Nat
    BY <1>0 DEF Count
  <2>2. Capacity \in Int
    BY <2>1 DEF Capacity, MarketAssumption
  <2>3. PICK c, r, d : c = Count /\ r = Capacity /\ d = Today
    OBVIOUS
  <2>4. scan' = [scan EXCEPT !.at = "rank", !.room = r, !.count = c, !.day = d]
    BY <1>3, <2>3 DEF ScanStarts
  <2>5. QED
    BY <1>0, <2>1, <2>2, <2>3, <2>4 DEF ScanOK
<1>4. CASE Ranked
  <2>1. PICK p \in Rankings : scan' = IF p = <<>> THEN Idle ELSE [scan EXCEPT !.at = "join", !.picks = p]
    BY <1>4 DEF Ranked
  <2>2. p \in Seq(Scanned)
    <3>1. PICK S \in SUBSET Scanned : p \in SetToSeqs(S)
      BY <2>1 DEF Rankings, SetToAllKPermutations
    <3>2. Cardinality(S) \in Nat
      BY <3>1, FS_Subset, FS_CardinalityType DEF MarketAssumption
    <3>3. p \in [1 .. Cardinality(S) -> S]
      BY <3>1 DEF SetToSeqs
    <3>4. p \in Seq(S)
      BY <3>2, <3>3
    <3>5. QED
      BY <3>4
  <2>3. QED
    BY <1>0, <1>1, <2>1, <2>2 DEF ScanOK
<1>5. CASE PassOver
  BY <1>2, <1>5 DEF PassOver, ScanOK
<1>6. CASE Join
  <2>1. scan' = Idle \/ (scan.at = "join" /\ scan' = [Rest EXCEPT !.count = Rest.count + 1])
    BY <1>6 DEF Join
  <2>2. CASE scan.at = "join" /\ scan' = [Rest EXCEPT !.count = Rest.count + 1]
    <3>1. PICK r : r = Rest
      OBVIOUS
    <3>2. r \in Scans /\ (r.at = "join" => r.picks # <<>>) /\ scan' = [r EXCEPT !.count = r.count + 1]
      BY <1>2, <2>2, <3>1
    <3>3. QED
      BY SMTT(40), <3>2 DEF ScanOK
  <2>3. QED
    BY <1>1, <2>1, <2>2 DEF ScanOK
<1>7. CASE Restart
  <2>1. <<>> \in Seq(Scanned)
    OBVIOUS
  <2>2. scan' = [at |-> "idle", picks |-> <<>>, room |-> 0, count |-> 0, day |-> 0]
    BY <1>7 DEF Restart, NewScan
  <2>3. QED
    BY <2>1, <2>2 DEF ScanOK
<1>8. CASE UNCHANGED scan
  BY <1>8 DEF ScanOK
<1>9. QED
  BY <1>3, <1>4, <1>5, <1>6, <1>7, <1>8
     DEF MarketNext, Connect, Opened, SendNext, Break, Ended, Trade, RegimeRefresh, Minute,
         Reopened, marketVars

\* The invariant of the market.
LEMMA StepInv ==
  ASSUME MarketAssumption, ScanOK, Inv, [MarketNext]_marketVars
  PROVE  Inv'
<1>0. TypeInv
  BY DEF Inv
<1>1. CASE Join
  <2>1. PICK t \in Scanned : t = Head(scan.picks)
    BY <1>1, HeadTailProperties DEF Join, ScanOK
  <2>2. /\ tracked' = [tracked EXCEPT ![t] = "joined"]
        /\ \E ok \in BOOLEAN : Subscribed(t, ok)
        /\ hist' = [hist EXCEPT !.joins = hist.joins + 1]
        /\ UNCHANGED <<now, building, regime>>
    BY <1>1, <2>1 DEF Join
  <2>3. /\ hist' \in Hists /\ hist'.last = hist.last /\ hist'.dropped = hist.dropped
        /\ hist'.after = hist.after
    BY <1>0, <2>2 DEF TypeInv, Hists
  <2>4. QED
    BY <2>2, <2>3, TrackStep
<1>2. CASE \E t \in Scanned : Reopened(t)
  BY <1>0, <1>2, TrackStep DEF Reopened, TypeInv
<1>3. QED
  BY <1>1, <1>2, FeedStep, TradeStep, ScanStartStep, MinuteStep, OtherStep
     DEF MarketNext, FeedSteps

\* The initial state.
LEMMA InitInv == ASSUME MarketAssumption, MarketInit PROVE Inv /\ ScanOK
<1>1. Never \in Nat /\ 0 < Never
  BY DEF MarketAssumption, Never
<1>2. TypeInv
  BY <1>1 DEF MarketInit, TypeInv, Feeds, Bars, Regimes, Hists, NewFeed, NoBar, NewRegime
<1>3. FeedOK /\ RegimeOK
  BY DEF MarketInit, FeedOK, RegimeOK, NewFeed, NewRegime
<1>4. BuildingOK
  BY DEF MarketInit, BuildingOK
<1>5. ScanOK
  <2>1. <<>> \in Seq(Scanned)
    OBVIOUS
  <2>2. QED
    BY <2>1 DEF MarketInit, NewScan, ScanOK
<1>6. QED
  BY <1>2, <1>3, <1>4, <1>5 DEF Inv

\* The invariant holds throughout.
LEMMA Invariance == ASSUME MarketAssumption PROVE MarketSpec => [](Inv /\ ScanOK)
<1>1. Inv /\ ScanOK /\ [MarketNext]_marketVars => (Inv /\ ScanOK)'
  BY StepInv, ScanStep DEF Inv
<1>2. QED
  BY <1>1, InitInv, PTL DEF MarketSpec

-----------------------------------------------------------------------------
\* Whatever is joined or reopened, and whenever the connection breaks: on a connection that
\* is ready, every ticker with a template or a lot is subscribed (cli.py:172-178, 397-401).
THEOREM NothingIsMissed == ASSUME MarketAssumption PROVE MarketSpec => []TrackedSubscribed
<1>1. Inv => TrackedSubscribed
  BY DEF Inv, FeedOK, TrackedSubscribed
<1>2. QED
  BY <1>1, Invariance, PTL

\* A ticker's bars come once and in order: the bar that is open is later than all that were
\* sent, through reconnections and late trades (kis_ws_feed.py:46-49, 88-96,
\* bar_builder.py:66-80).
THEOREM BarsComeOnce == ASSUME MarketAssumption PROVE MarketSpec => BarsInOrder
<1>1. Inv => (~(hist'.faults > hist.faults) =>
                \A t \in Tickers : Sent(t) => building[t].at >= hist.last[t])
  <2>1. ASSUME Inv, NEW t \in Tickers, Sent(t) PROVE building[t].at >= hist.last[t]
    <3>1. hist.last[t] \in Nat /\ building[t].at \in Nat /\ hist.last[t] <= building[t].at
      BY <2>1 DEF Sent, Inv, BuildingOK, TypeInv, Bars, Hists
    <3>2. QED
      BY <3>1
  <2>2. QED
    BY <2>1
<1>2. QED
  BY <1>1, Invariance, PTL DEF BarsInOrder

\* A round of the scan that starts after the day's fall joins nothing: none starts, as the
\* fall is remembered until a bar of a later day, and a later day cannot be today
\* (regime.py:67, cli.py:435-440).
THEOREM FallStopsTheScan == ASSUME MarketAssumption PROVE MarketSpec => NoJoinAfterDrop
<1>1. Inv => (hist'.joins > hist.joins => ~hist.after)
  BY DEF Inv, RegimeOK
<1>2. QED
  BY <1>1, Invariance, PTL DEF NoJoinAfterDrop
=============================================================================
