------------------------------ MODULE KisCalls ------------------------------
(***************************************************************************)
(* The calls of one process to the KIS servers.  Every call first takes a  *)
(* bearer token from KisAuth, which caches one and renews it Skew ticks    *)
(* before it runs out, then waits for the RateLimiter, which all calls     *)
(* share, and only then goes out.  A call is one of                        *)
(*                                                                         *)
(*   order    an order, whose failure says "rejected" only when it surely  *)
(*            did not arrive (KisApiError.is_definitive_rejection)         *)
(*   abroad   the same of the overseas adapter, which does not wait for    *)
(*            the limiter and knows no definitive failure                  *)
(*   listing  _daily_ccld: the day's orders, page by page, and a token     *)
(*            for each page                                                *)
(*   history  minutes of a ticker: tried Attempts times, with one token    *)
(*                                                                         *)
(* Time moves in ticks; nothing that can go on waits for a tick, but a     *)
(* server may take up to Timeout.                                          *)
(***************************************************************************)
EXTENDS Naturals, Sequences, FiniteSets

CONSTANTS Callers,   \* the tasks that call
          Cost,      \* 1 / rate: the ticks in which the bucket gains one call
          Burst,     \* the calls the bucket holds
          Life,      \* expires_in of a token
          Skew,      \* skew_seconds
          Timeout,   \* of a request
          Attempts,  \* of a history call
          PageRows, MaxPages,  \* rows on a page; _CCLD_MAX_PAGES
          MaxRows    \* bound: orders at the broker

\* What a call waits for the limiter when all are before it, and the longest time from
\* the token of a history call to its last attempt: the skew is chosen above it.
LongestLine == Cardinality(Callers) * Cost
ASSUME LimiterAssumption == Cost \in Nat /\ Burst \in Nat \ {0}
ASSUME TokenAssumption == Life \in Nat /\ MaxRows \in Nat /\ PageRows \in Nat
ASSUME TimeAssumption == /\ Attempts \in Nat \ {0} /\ Timeout \in Nat /\ Skew \in Nat
                         /\ IsFiniteSet(Callers)
ASSUME PagesAssumption == MaxPages \in Nat \ {0}
ASSUME SkewAssumption ==
  Attempts * LongestLine + (Attempts - 1) * (Timeout + Attempts) <= Skew /\ Timeout + Skew < Life

VARIABLES
  call,    \* the call of each task
  bucket,  \* the RateLimiter: fill, in ticks, and the line at its lock
  token,   \* KisAuth._token: the ticks until expires_at (0: none)
  orders,  \* the day's orders at the broker
  grants   \* how long ago the last Burst calls were let through, up to Cost (history)

callVars == <<call, bucket, token, orders, grants>>

Kinds  == {"order", "abroad", "listing", "history"}
NoCall == [kind |-> "none", at |-> "idle", age |-> 0, bearer |-> 0, try |-> 0,
           page |-> 0, want |-> 0, got |-> 0, here |-> FALSE, verdict |-> "none"]
Full   == Burst * Cost
At(c)  == call[c].at

CallInit ==
  /\ call = [c \in Callers |-> NoCall]
  /\ bucket = [fill |-> Full, line |-> <<>>]
  /\ token = 0 /\ orders = 0 /\ grants = [i \in 1 .. Burst |-> Cost]

-----------------------------------------------------------------------------
(* KisAuth.access_token.                                                   *)

\* A token is good until Skew before it expires.  (Mutant: until it expires.)
FreshToTheEnd == token > 0
Fresh         == token > Skew

\* _headers: the call takes the cached token, or fetches one of its own - there is no
\* lock, so several may.
TakeToken(c) ==
  /\ At(c) = "token"
  /\ call' = [call EXCEPT ![c] =
       IF Fresh THEN [@ EXCEPT !.bearer = token, !.at = "join"]
                ELSE [@ EXCEPT !.at = "fetch", !.age = 0]]
  /\ UNCHANGED <<bucket, token, orders, grants>>

\* The server issued it at some moment of the fetch; the cache counts from before.
Fetched(c) ==
  /\ At(c) = "fetch"
  /\ \E late \in 0 .. call[c].age :
       call' = [call EXCEPT ![c].at = "join", ![c].bearer = Life - late]
  /\ token' = Life - call[c].age
  /\ UNCHANGED <<bucket, orders, grants>>

-----------------------------------------------------------------------------
(* RateLimiter.acquire.                                                    *)

\* Behind the lock, first come first served.  The overseas adapter's own transport
\* goes round it.
Join(c) ==
  /\ At(c) = "join"
  /\ call' = [call EXCEPT ![c].at = IF call[c].kind = "abroad" THEN "out" ELSE "line", ![c].age = 0]
  /\ bucket' = IF call[c].kind = "abroad" THEN bucket
               ELSE [bucket EXCEPT !.line = Append(@, c)]
  /\ UNCHANGED <<token, orders, grants>>

Ready == bucket.line # <<>> /\ bucket.fill >= Cost

Grant(c) ==
  /\ Ready /\ c = Head(bucket.line)
  /\ bucket' = [fill |-> bucket.fill - Cost, line |-> Tail(bucket.line)]
  /\ call' = [call EXCEPT ![c].at = "out", ![c].age = 0]
  /\ grants' = [i \in 1 .. Burst |-> IF i = 1 THEN 0 ELSE grants[i - 1]]
  /\ UNCHANGED <<token, orders>>

\* The bucket gains with time, up to burst.  (Mutant: and beyond.)
RefilledBeyond(n) == n + 1
Refilled(n)       == IF n < Full THEN n + 1 ELSE Full

\* The one that holds the lock sleeps until it can go; nothing else sleeps here.
Busy == Ready \/ \E c \in Callers :
          \/ At(c) \in {"token", "join"}
          \/ At(c) \in {"fetch", "out"} /\ call[c].age = Timeout
          \/ At(c) = "pause" /\ call[c].age >= call[c].try

Older(n) == IF n < Cost THEN n + 1 ELSE Cost
Tick ==
  /\ ~Busy
  /\ call' = [c \in Callers |->
       [call[c] EXCEPT !.age = IF At(c) \in {"fetch", "out", "pause"} THEN @ + 1 ELSE @,
                       !.bearer = IF @ > 0 THEN @ - 1 ELSE 0]]
  /\ token' = IF token > 0 THEN token - 1 ELSE 0
  /\ bucket' = [bucket EXCEPT !.fill = Refilled(@)]
  /\ grants' = [i \in 1 .. Burst |-> Older(grants[i])]
  /\ UNCHANGED orders

-----------------------------------------------------------------------------
(* Orders.                                                                 *)

End(c, verdict) == call' = [call EXCEPT ![c] = [NoCall EXCEPT
                     !.kind = call[c].kind, !.at = "done", !.verdict = verdict, !.want = call[c].want,
                     !.got = call[c].got, !.page = call[c].page, !.here = call[c].here]]

\* The order gets there, and is taken; the answer is yet to come.
Arrive(c) ==
  /\ call[c].kind \in {"order", "abroad"} /\ At(c) = "out" /\ ~call[c].here /\ orders < MaxRows
  /\ call' = [call EXCEPT ![c].here = TRUE] /\ orders' = orders + 1
  /\ UNCHANGED <<bucket, token, grants>>

\* How a request ends: ok, refused by the broker (rt_cd), a 4xx before it was looked
\* at, a code of the gateway (EGW), a 4xx of something in between (408, 409, 425, 429),
\* or a 5xx, a timeout or a broken connection.
Ends(here) == IF here THEN {"ok", "between", "broken"}
              ELSE {"refused", "4xx", "gateway", "between", "broken"}

\* is_definitive_rejection.
Definitive(end)    == end \in {"4xx", "gateway"}

\* The answer, as the order manager takes it.  An error of the overseas transport is
\* never definitive.
Verdict(kind, end) == CASE end = "ok" -> "accepted"
                        [] end = "refused" -> "rejected"
                        [] kind = "order" /\ Definitive(end) -> "rejected"
                        [] OTHER -> "unknown"

Answered(c) ==
  /\ call[c].kind \in {"order", "abroad"} /\ At(c) = "out"
  /\ \E end \in Ends(call[c].here) : End(c, Verdict(call[c].kind, end))
  /\ UNCHANGED <<bucket, token, orders, grants>>

-----------------------------------------------------------------------------
(* Listings: _daily_ccld, and the retries of the history.                  *)

\* tr_cont says whether there is more.  (Mutant: the first page is taken for all.)
FirstPage(seen) == FALSE
More(seen)      == seen < orders

Page(c) ==
  /\ call[c].kind = "listing" /\ At(c) = "out"
  /\ LET seen == IF call[c].got + PageRows < orders THEN call[c].got + PageRows ELSE orders
         page == call[c].page + 1
         now  == [call EXCEPT ![c].got = seen, ![c].page = page]
     IN IF More(seen) /\ page < MaxPages
        THEN call' = [now EXCEPT ![c].at = "token", ![c].age = 0]
        ELSE call' = [now EXCEPT ![c].at = "done", ![c].verdict = "whole", ![c].age = 0, ![c].bearer = 0]
  /\ UNCHANGED <<bucket, token, orders, grants>>

Minutes(c) ==
  /\ call[c].kind = "history" /\ At(c) = "out"
  /\ End(c, "whole")
  /\ UNCHANGED <<bucket, token, orders, grants>>

\* An error: a listing raises at once, a history call sleeps and tries again.
Broken(c) ==
  /\ call[c].kind \in {"listing", "history"} /\ At(c) = "out"
  /\ IF call[c].kind = "history" /\ call[c].try + 1 < Attempts
     THEN call' = [call EXCEPT ![c].at = "pause", ![c].age = 0, ![c].try = @ + 1]
     ELSE End(c, "raised")
  /\ UNCHANGED <<bucket, token, orders, grants>>

Retry(c) ==
  /\ At(c) = "pause" /\ call[c].age >= call[c].try
  /\ call' = [call EXCEPT ![c].at = "join", ![c].age = 0]
  /\ UNCHANGED <<bucket, token, orders, grants>>

Begin(c) ==
  /\ At(c) \in {"idle", "done"}
  /\ \E kind \in Kinds :
       call' = [call EXCEPT ![c] = [NoCall EXCEPT !.kind = kind, !.at = "token",
                                                  !.want = IF kind = "listing" THEN orders ELSE 0]]
  /\ UNCHANGED <<bucket, token, orders, grants>>

CallNext ==
  \/ Tick
  \/ \E c \in Callers :
       \/ Begin(c) \/ TakeToken(c) \/ Fetched(c) \/ Join(c) \/ Grant(c) \/ Arrive(c)
       \/ Answered(c) \/ Page(c) \/ Minutes(c) \/ Broken(c) \/ Retry(c)

CallSpec == CallInit /\ [][CallNext]_callVars

-----------------------------------------------------------------------------
\* More calls than the bucket holds are never let through within the time of one: the
\* queue is the only place where calls wait (rate_limit.py:8-12, 41-55).
NeverBursts ==
  [][\A c \in Callers : At(c) = "line" /\ call'[c].at = "out" => grants[Burst] >= Cost]_callVars

\* A request goes out with a token that is still good, however long it waited for the
\* limiter or retried with the token it had (kis_auth.py:49, kis.py:350-366).
TokenLive == [][\A c \in Callers : At(c) # "out" /\ call'[c].at = "out" => call[c].bearer > 0]_callVars

\* A listing that is taken for whole has every order there was when it began, up to
\* the cap on pages (kis.py:210-241).
ListingIsWhole == \A c \in Callers :
  call[c].kind = "listing" /\ call[c].verdict = "whole"
    => call[c].got >= call[c].want \/ call[c].page = MaxPages
=============================================================================
