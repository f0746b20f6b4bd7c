--------------------------- MODULE Brokers_proofs ---------------------------
(***************************************************************************)
(* The brokers, for any number of tasks, orders and lots: the rate         *)
(* limiter, the tokens and the listings of KisCalls; the cash of           *)
(* PaperBook; the sale barrier of Routing, under which a sale never        *)
(* offers shares that are gone.                                            *)
(***************************************************************************)
EXTENDS Brokers, Routing, Integers, Sums, SequenceTheorems, TLAPS

CallRows == [kind : Kinds \cup {"none"},
             at : {"idle", "token", "fetch", "join", "line", "out", "pause", "done"},
             age : Nat, bearer : Int, try : Nat, page : Nat, want : Nat, got : Nat,
             here : BOOLEAN,
             verdict : {"none", "accepted", "rejected", "unknown", "whole", "raised"}]

CallTypeOK ==
  /\ call \in [Callers -> CallRows]
  /\ bucket \in [fill : 0 .. Full, line : Seq(Callers)]
  /\ token \in Int /\ orders \in Nat
  /\ grants \in [1 .. Burst -> 0 .. Cost]

\* What the bucket holds is what it gained since each of the last Burst grants: a young
\* grant keeps it down.
Owed == \A i \in 1 .. Burst : grants[i] = Cost \/ bucket.fill + i * Cost <= Full + grants[i]

LimiterInv == CallTypeOK /\ Owed

-----------------------------------------------------------------------------
\* The bucket holds a natural amount.
LEMMA FullIsNat == ASSUME LimiterAssumption PROVE Full \in Nat /\ Cost \in Nat /\ Burst \in Nat
BY DEF LimiterAssumption, Full

\* One more call costs one more Cost.
LEMMA OneMore == ASSUME NEW i \in Nat, NEW c \in Nat PROVE (i + 1) * c = i * c + c
OBVIOUS

\* The rows a call can become.
LEMMA CallTypes ==
  ASSUME NEW r \in CallRows
  PROVE  /\ \A n \in Int : [r EXCEPT !.bearer = n, !.at = "join"] \in CallRows
         /\ \A n \in Int : [r EXCEPT !.at = "join", !.bearer = n] \in CallRows
         /\ [r EXCEPT !.at = "fetch", !.age = 0] \in CallRows
         /\ [r EXCEPT !.at = "join", !.age = 0] \in CallRows
         /\ [r EXCEPT !.at = "line", !.age = 0] \in CallRows
         /\ [r EXCEPT !.at = "out", !.age = 0] \in CallRows
         /\ [r EXCEPT !.here = TRUE] \in CallRows
         /\ \A k \in Kinds, w \in Nat : [r EXCEPT !.kind = k, !.at = "token", !.want = w] \in CallRows
         /\ \A t \in Nat : [r EXCEPT !.at = "pause", !.age = 0, !.try = t] \in CallRows
         /\ r.age \in Nat /\ r.bearer \in Int /\ r.try \in Nat /\ r.want \in Nat /\ r.got \in Nat
         /\ r.page \in Nat /\ r.here \in BOOLEAN /\ r.kind \in Kinds \cup {"none"}
BY DEF CallRows

Verdicts == {"none", "accepted", "rejected", "unknown", "whole", "raised"}
\* The rows a call can end with.
LEMMA EndTypes ==
  ASSUME NEW r \in CallRows, NEW k \in Kinds \cup {"none"}, NEW v \in Verdicts,
         NEW w \in Nat, NEW g \in Nat, NEW p \in Nat, NEW h \in BOOLEAN
  PROVE  [r EXCEPT !.kind = k, !.at = "done", !.verdict = v, !.want = w, !.got = g,
                   !.page = p, !.here = h] \in CallRows
BY DEF CallRows, Verdicts

\* What a tick does to the row of a call.
LEMMA AgedRow ==
  ASSUME NEW r \in CallRows, NEW a \in Nat, NEW b \in Int
  PROVE  /\ [r EXCEPT !.age = a, !.bearer = b] \in CallRows
         /\ [r EXCEPT !.age = a, !.bearer = b].at = r.at
BY DEF CallRows

\* The row of a caller that does not call.
LEMMA NoCallType == NoCall \in CallRows
BY DEF NoCall, CallRows

\* A call that ends is a call.
LEMMA EndKeeps ==
  ASSUME call \in [Callers -> CallRows], NEW c \in Callers, NEW v \in Verdicts, End(c, v)
  PROVE  call' \in [Callers -> CallRows]
<1>1. call[c] \in CallRows
  OBVIOUS
<1> DEFINE row == [NoCall EXCEPT !.kind = call[c].kind, !.at = "done", !.verdict = v,
                     !.want = call[c].want, !.got = call[c].got, !.page = call[c].page,
                     !.here = call[c].here]
<1>2. row \in CallRows
  BY ZenonT(60), <1>1, CallTypes, EndTypes, NoCallType
<1>3. call' = [call EXCEPT ![c] = row]
  BY DEF End
<1> HIDE DEF row
<1>4. QED
  BY <1>2, <1>3

\* The limiter starts with a full bucket.
LEMMA InitLimiter == ASSUME LimiterAssumption, CallInit PROVE LimiterInv
<1>1. call \in [Callers -> CallRows]
  BY DEF CallInit, NoCall, CallRows
<1>2. CallTypeOK
  BY <1>1, FullIsNat DEF CallInit, CallTypeOK
<1>3. Owed
  BY DEF CallInit, Owed
<1>4. QED
  BY <1>2, <1>3 DEF LimiterInv

\* The types of the bucket and the grants, and what is owed, step by step.
Limiter == /\ bucket \in [fill : 0 .. Full, line : Seq(Callers)]
           /\ grants \in [1 .. Burst -> 0 .. Cost] /\ Owed

\* A grant moves the ages of the last ones up by one place.
LEMMA GrantOwes ==
  ASSUME LimiterAssumption, LimiterInv, NEW c \in Callers, Grant(c)
  PROVE  Limiter'
<1>1. /\ bucket.fill \in 0 .. Full /\ bucket.line \in Seq(Callers) /\ bucket.fill >= Cost
      /\ bucket' = [fill |-> bucket.fill - Cost, line |-> Tail(bucket.line)]
      /\ grants' = [i \in 1 .. Burst |-> IF i = 1 THEN 0 ELSE grants[i - 1]]
      /\ bucket.line # <<>>
  BY DEF LimiterInv, CallTypeOK, Grant, Ready
<1>2. bucket' \in [fill : 0 .. Full, line : Seq(Callers)]
  BY <1>1, FullIsNat
<1>3. \A i \in 1 .. Burst : i # 1 => i - 1 \in 1 .. Burst
  BY FullIsNat
<1>4. grants' \in [1 .. Burst -> 0 .. Cost]
  BY <1>1, <1>3, FullIsNat DEF LimiterInv, CallTypeOK
<1>5. ASSUME NEW i \in 1 .. Burst
      PROVE  grants'[i] = Cost \/ bucket'.fill + i * Cost <= Full + grants'[i]
  <2>1. CASE i = 1
    <3>1. grants'[i] = 0 /\ bucket'.fill = bucket.fill - Cost /\ i * Cost = Cost
      BY <1>1, <2>1, FullIsNat
    <3>2. QED
      BY <1>1, <3>1, FullIsNat
  <2>2. CASE i # 1
    <3>1. i - 1 \in 1 .. Burst /\ grants'[i] = grants[i - 1] /\ bucket'.fill = bucket.fill - Cost
      BY <1>1, <1>3, <2>2
    <3>2. grants[i - 1] = Cost \/ bucket.fill + (i - 1) * Cost <= Full + grants[i - 1]
      BY <3>1 DEF LimiterInv, Owed
    <3>3. i * Cost = (i - 1) * Cost + Cost /\ (i - 1) * Cost \in Nat
      <4>1. i - 1 \in Nat /\ (i - 1) + 1 = i
        BY <3>1
      <4>2. QED
        BY <4>1, FullIsNat, OneMore
    <3>4. grants[i - 1] \in 0 .. Cost
      BY <3>1 DEF LimiterInv, CallTypeOK
    <3> DEFINE owed == (i - 1) * Cost
    <3> HIDE DEF owed
    <3>5. QED
      BY <1>1, <3>1, <3>2, <3>3, <3>4, FullIsNat DEF owed
  <2>3. QED
    BY <2>1, <2>2
<1>6. QED
  BY <1>2, <1>4, <1>5 DEF Limiter, Owed

\* With time, what the bucket gains is what each grant ages.
LEMMA TickOwes ==
  ASSUME LimiterAssumption, LimiterInv, Tick
  PROVE  Limiter'
<1>1. /\ bucket.fill \in 0 .. Full /\ bucket.line \in Seq(Callers)
      /\ bucket' = [fill |-> Refilled(bucket.fill), line |-> bucket.line]
      /\ grants' = [i \in 1 .. Burst |-> Older(grants[i])]
  BY DEF LimiterInv, CallTypeOK, Tick
<1>2. Refilled(bucket.fill) \in 0 .. Full /\ Refilled(bucket.fill) <= bucket.fill + 1
  BY <1>1, FullIsNat DEF Refilled
<1>3. ASSUME NEW i \in 1 .. Burst
      PROVE  /\ grants[i] \in 0 .. Cost /\ grants'[i] \in 0 .. Cost
             /\ grants'[i] = Cost \/ grants'[i] = grants[i] + 1
             /\ grants[i] = Cost => grants'[i] = Cost
  BY <1>1, <1>3, FullIsNat DEF Older, LimiterInv, CallTypeOK
<1>4. bucket' \in [fill : 0 .. Full, line : Seq(Callers)]
  BY <1>1, <1>2
<1>5. grants' \in [1 .. Burst -> 0 .. Cost]
  BY <1>1, <1>3
<1>6. ASSUME NEW i \in 1 .. Burst
      PROVE  grants'[i] = Cost \/ bucket'.fill + i * Cost <= Full + grants'[i]
  <2>1. grants[i] = Cost \/ bucket.fill + i * Cost <= Full + grants[i]
    BY DEF LimiterInv, Owed
  <2>2. PICK k \in Nat : k = i * Cost
    BY FullIsNat
  <2>3. grants[i] = Cost \/ bucket.fill + k <= Full + grants[i]
    BY <2>1, <2>2
  <2>4. /\ bucket'.fill \in Nat /\ bucket'.fill <= bucket.fill + 1 /\ bucket.fill \in Nat
        /\ grants[i] \in Nat /\ grants'[i] \in Nat /\ Full \in Nat
    BY <1>1, <1>2, <1>3, FullIsNat
  <2>5. grants'[i] = Cost \/ bucket'.fill + k <= Full + grants'[i]
    BY <1>3, <2>3, <2>4
  <2>6. QED
    BY <2>2, <2>5
<1>7. QED
  BY <1>4, <1>5, <1>6 DEF Limiter, Owed

\* The other steps at most lengthen the line.
LEMMA LineOwes ==
  ASSUME LimiterAssumption, LimiterInv, grants' = grants,
         \/ bucket' = bucket
         \/ \E c \in Callers : bucket' = [bucket EXCEPT !.line = Append(@, c)]
  PROVE  Limiter'
<1>1. CASE bucket' = bucket
  BY <1>1 DEF LimiterInv, CallTypeOK, Limiter, Owed
<1>2. ASSUME NEW c \in Callers, bucket' = [bucket EXCEPT !.line = Append(@, c)]
      PROVE  Limiter'
  <2>1. bucket.fill \in 0 .. Full /\ bucket.line \in Seq(Callers)
    BY DEF LimiterInv, CallTypeOK
  <2>2. Append(bucket.line, c) \in Seq(Callers)
    BY <2>1
  <2>3. bucket' = [fill |-> bucket.fill, line |-> Append(bucket.line, c)]
    BY <1>2 DEF LimiterInv, CallTypeOK
  <2>4. bucket' \in [fill : 0 .. Full, line : Seq(Callers)] /\ bucket'.fill = bucket.fill
    BY <2>1, <2>2, <2>3
  <2>5. QED
    BY <2>4 DEF LimiterInv, CallTypeOK, Limiter, Owed
<1>3. QED
  BY <1>1, <1>2

-----------------------------------------------------------------------------
\* Time only ages a call.
LEMMA TickRow ==
  ASSUME call \in [Callers -> CallRows], Tick, NEW c \in Callers
  PROVE  call'[c] \in CallRows /\ call'[c].at = call[c].at
<1>1. call[c] \in CallRows /\ call[c].age \in Nat /\ call[c].bearer \in Int
  BY CallTypes
<1>2. PICK a : a = IF At(c) \in {"fetch", "out", "pause"} THEN call[c].age + 1 ELSE call[c].age
  OBVIOUS
<1>3. PICK b : b = IF call[c].bearer > 0 THEN call[c].bearer - 1 ELSE 0
  OBVIOUS
<1>4. a \in Nat /\ b \in Int
  BY <1>1, <1>2, <1>3
<1>5. call'[c] = [call[c] EXCEPT !.age = a, !.bearer = b]
  BY <1>2, <1>3, Zenon DEF Tick
<1>6. /\ [call[c] EXCEPT !.age = a, !.bearer = b] \in CallRows
      /\ [call[c] EXCEPT !.age = a, !.bearer = b].at = call[c].at
  BY <1>1, <1>4, AgedRow
<1>7. QED
  BY Zenon, <1>5, <1>6

\* Every step keeps the type of the calls.
LEMMA CallStep ==
  ASSUME LimiterAssumption, TokenAssumption, LimiterInv, [CallNext]_callVars
  PROVE  call' \in [Callers -> CallRows] /\ token' \in Int /\ orders' \in Nat
<1> DEFINE Goal == call' \in [Callers -> CallRows] /\ token' \in Int /\ orders' \in Nat
<1>0. /\ call \in [Callers -> CallRows] /\ token \in Int /\ orders \in Nat
      /\ Life \in Nat /\ PageRows \in Nat
      /\ \A c \in Callers : call[c] \in CallRows /\ call[c].age \in Nat
  BY CallTypes DEF LimiterInv, CallTypeOK, TokenAssumption
<1>1. CASE Tick
  <2>1. token' \in Int /\ orders' \in Nat
    <3>1. token' = IF token > 0 THEN token - 1 ELSE 0
      BY <1>1 DEF Tick
    <3>2. token' \in Int
      BY <1>0, <3>1
    <3>3. QED
      BY <1>0, <1>1, <3>2, Zenon DEF Tick
  <2>2. ASSUME NEW c \in Callers PROVE call'[c] \in CallRows
    BY <1>0, <1>1, TickRow
  <2>3. call' \in [Callers -> CallRows]
    BY <1>1, <2>2 DEF Tick
  <2>4. QED
    BY <1>0, <2>1, <2>3
<1>2. ASSUME NEW c \in Callers, Begin(c) PROVE Goal
  <2>1. PICK k \in Kinds : call' = [call EXCEPT ![c] = [NoCall EXCEPT
               !.kind = k, !.at = "token", !.want = IF k = "listing" THEN orders ELSE 0]]
    BY <1>2 DEF Begin
  <2>2. PICK w \in Nat : w = IF k = "listing" THEN orders ELSE 0
    BY <1>0
  <2>3. [NoCall EXCEPT !.kind = k, !.at = "token", !.want = w] \in CallRows
    BY CallTypes, NoCallType
  <2>4. call' \in [Callers -> CallRows]
    BY <1>0, <2>1, <2>2, <2>3
  <2>5. QED
    BY <1>0, <1>2, <2>4 DEF Begin
<1>3. ASSUME NEW c \in Callers, TakeToken(c) PROVE Goal
  <2>1. CASE Fresh
    BY <1>0, <1>3, <2>1, CallTypes DEF TakeToken
  <2>2. CASE ~Fresh
    BY <1>0, <1>3, <2>2, CallTypes DEF TakeToken
  <2>3. QED
    BY <2>1, <2>2
<1>4. ASSUME NEW c \in Callers, Fetched(c) PROVE Goal
  <2>1. PICK late \in 0 .. call[c].age :
          call' = [call EXCEPT ![c].at = "join", ![c].bearer = Life - late]
    BY <1>4 DEF Fetched
  <2>2. Life - late \in Int /\ Life - call[c].age \in Int
    BY <1>0
  <2>3. call' \in [Callers -> CallRows]
    BY <1>0, <2>1, <2>2, CallTypes
  <2>4. QED
    BY <1>0, <1>4, <2>2, <2>3 DEF Fetched
<1>5. ASSUME NEW c \in Callers, Join(c) PROVE Goal
  BY <1>0, <1>5, CallTypes DEF Join
<1>6. ASSUME NEW c \in Callers, Grant(c) PROVE Goal
  BY <1>0, <1>6, CallTypes DEF Grant
<1>7. ASSUME NEW c \in Callers, Arrive(c) PROVE Goal
  <2>1. call' \in [Callers -> CallRows]
    BY <1>0, <1>7, CallTypes DEF Arrive
  <2>2. QED
    BY <1>0, <1>7, <2>1 DEF Arrive
<1>8. ASSUME NEW c \in Callers, Answered(c) \/ Minutes(c) PROVE Goal
  <2>1. PICK v \in Verdicts : End(c, v)
    BY <1>8 DEF Answered, Minutes, Verdict, Verdicts
  <2>2. QED
    BY <1>0, <1>8, <2>1, EndKeeps DEF Answered, Minutes
<1>9. ASSUME NEW c \in Callers, Page(c) PROVE Goal
  BY <1>0, <1>9 DEF Page, CallRows
<1>10. ASSUME NEW c \in Callers, Broken(c) PROVE Goal
  <2>1. CASE End(c, "raised")
    BY <1>0, <1>10, <2>1, EndKeeps DEF Broken, Verdicts
  <2>2. CASE call' = [call EXCEPT ![c].at = "pause", ![c].age = 0, ![c].try = @ + 1]
    <3>1. call[c].try + 1 \in Nat
      <4>1. call[c].try \in Nat
        BY <1>0 DEF CallRows
      <4>2. QED
        BY <4>1
    <3>2. call' \in [Callers -> CallRows]
      BY <1>0, <2>2, <3>1, CallTypes
    <3>3. QED
      BY <1>0, <1>10, <3>2 DEF Broken
  <2>3. QED
    BY <1>10, <2>1, <2>2 DEF Broken
<1>11. ASSUME NEW c \in Callers, Retry(c) PROVE Goal
  BY <1>0, <1>11, CallTypes DEF Retry
<1>12. CASE UNCHANGED callVars
  BY <1>0, <1>12 DEF callVars
<1>13. QED
  BY <1>1, <1>2, <1>3, <1>4, <1>5, <1>6, <1>7, <1>8, <1>9, <1>10, <1>11, <1>12 DEF CallNext

\* Only a grant moves a call from the line to the wire.
LEMMA OnlyGrants ==
  ASSUME LimiterAssumption, LimiterInv, [CallNext]_callVars,
         NEW c \in Callers, At(c) = "line", call'[c].at = "out"
  PROVE  Grant(c)
<1>0. call \in [Callers -> CallRows]
  BY DEF LimiterInv, CallTypeOK
<1>1. CASE Tick
  BY <1>0, <1>1, TickRow DEF At
<1>2. ASSUME NEW d \in Callers, d # c,
             \/ Begin(d) \/ TakeToken(d) \/ Fetched(d) \/ Join(d) \/ Grant(d) \/ Arrive(d)
             \/ Answered(d) \/ Page(d) \/ Minutes(d) \/ Broken(d) \/ Retry(d)
      PROVE  FALSE
  <2>1. call'[c] = call[c]
    BY <1>0, <1>2 DEF Begin, TakeToken, Fetched, Join, Grant, Arrive, Answered, Page, Minutes,
                      Broken, Retry, End
  <2>2. QED
    BY <2>1 DEF At
<1>3. ~(\/ Begin(c) \/ TakeToken(c) \/ Fetched(c) \/ Join(c) \/ Arrive(c)
        \/ Answered(c) \/ Page(c) \/ Minutes(c) \/ Broken(c) \/ Retry(c))
  BY DEF Begin, TakeToken, Fetched, Join, Arrive, Answered, Page, Minutes, Broken, Retry, At
<1>4. ~UNCHANGED callVars
  BY DEF callVars, At
<1>5. QED
  BY <1>1, <1>2, <1>3, <1>4 DEF CallNext

\* No step disturbs the limiter.
LEMMA LimiterStep ==
  ASSUME LimiterAssumption, TokenAssumption, LimiterInv, [CallNext]_callVars
  PROVE  LimiterInv'
<1>1. Limiter'
  <2>1. ASSUME NEW c \in Callers, Grant(c) PROVE Limiter'
    BY <2>1, GrantOwes
  <2>2. CASE Tick
    BY <2>2, TickOwes
  <2>3. ASSUME NEW c \in Callers, Join(c) PROVE Limiter'
    BY <2>3, LineOwes DEF Join
  <2>4. ASSUME grants' = grants, bucket' = bucket PROVE Limiter'
    BY <2>4, LineOwes
  <2>5. \/ UNCHANGED callVars
        \/ \E c \in Callers : \/ Begin(c) \/ TakeToken(c) \/ Fetched(c) \/ Arrive(c)
                              \/ Answered(c) \/ Page(c) \/ Minutes(c) \/ Broken(c) \/ Retry(c)
        => grants' = grants /\ bucket' = bucket
    BY ZenonT(60) DEF callVars, Begin, TakeToken, Fetched, Arrive, Answered, Page, Minutes, Broken, Retry
  <2>6. QED
    BY <2>1, <2>2, <2>3, <2>4, <2>5 DEF CallNext
<1>2. QED
  BY <1>1, CallStep DEF LimiterInv, CallTypeOK, Limiter

\* The invariant of the limiter.
LEMMA LimiterInvariance ==
  ASSUME LimiterAssumption, TokenAssumption PROVE CallSpec => []LimiterInv
<1>1. CallInit => LimiterInv
  BY InitLimiter
<1>2. LimiterInv /\ [CallNext]_callVars => LimiterInv'
  BY LimiterStep
<1>3. QED
  BY <1>1, <1>2, PTL DEF CallSpec

\* The limiter never lets more calls through than the bucket holds within the time of
\* one, whatever the tasks call and however long the server takes.
THEOREM LimiterHolds ==
  ASSUME LimiterAssumption, TokenAssumption PROVE CallSpec => NeverBursts
<1>1. LimiterInv /\ [CallNext]_callVars
        => [\A c \in Callers : At(c) = "line" /\ call'[c].at = "out"
                                => grants[Burst] >= Cost]_callVars
  <2> SUFFICES ASSUME LimiterInv, [CallNext]_callVars,
                      NEW c \in Callers, At(c) = "line", call'[c].at = "out"
               PROVE  grants[Burst] >= Cost
    OBVIOUS
  <2>1. bucket.fill >= Cost
    BY OnlyGrants DEF Grant, Ready
  <2>2. Burst \in 1 .. Burst /\ Burst * Cost = Full
    BY FullIsNat DEF LimiterAssumption, Full
  <2>3. grants[Burst] = Cost \/ bucket.fill + Full <= Full + grants[Burst]
    BY <2>2 DEF LimiterInv, Owed
  <2>4. grants[Burst] \in 0 .. Cost /\ bucket.fill \in 0 .. Full
    BY <2>2 DEF LimiterInv, CallTypeOK
  <2>5. QED
    BY <2>1, <2>3, <2>4, FullIsNat
<1>2. QED
  BY <1>1, LimiterInvariance, PTL DEF CallSpec, NeverBursts

-----------------------------------------------------------------------------
(* Tokens: how much longer the token of a call has to live than the call   *)
(* can still take.                                                         *)

\* The time of one try of a history call, from one limiter to the next, and of all the
\* tries that are left after the n-th.
OneTry   == LongestLine + Timeout + Attempts
Slack(n) == (Attempts - 1 - n) * OneTry

TokenRow(r) ==
  /\ r.try < Attempts
  /\ r.at = "fetch" => r.age <= Timeout
  /\ r.at = "join" => r.bearer > LongestLine + Slack(r.try)
  /\ r.at = "out" => r.age <= Timeout /\ r.bearer + r.age > Slack(r.try)
  /\ r.at = "pause" => r.age <= r.try /\ r.bearer + r.age > Slack(r.try) + LongestLine + Attempts

\* The i-th in line goes out when the bucket has gained what all before it take, and has
\* Slack left then.
Waits(i) == LET r == call[bucket.line[i]]
            IN  /\ r.at = "line" /\ r.bearer > Slack(r.try)
                /\ r.bearer + bucket.fill > i * Cost + Slack(r.try)

InTurn == /\ \A i \in 1 .. Len(bucket.line) : Waits(i)
          /\ \A i, j \in 1 .. Len(bucket.line) : bucket.line[i] = bucket.line[j] => i = j

TokenInv == (\A c \in Callers : TokenRow(call[c])) /\ InTurn

Constants == LimiterAssumption /\ TokenAssumption /\ TimeAssumption /\ SkewAssumption

\* The times are natural numbers, and a token outlives what its users may still need.
LEMMA Times ==
  ASSUME Constants
  PROVE  /\ LongestLine \in Nat /\ OneTry \in Nat /\ Attempts \in Nat \ {0} /\ Timeout \in Nat
         /\ Skew \in Nat /\ Life \in Nat /\ Timeout + Skew < Life
         /\ OneTry = LongestLine + Timeout + Attempts /\ Cardinality(Callers) \in Nat
<1>1. Cardinality(Callers) \in Nat
  BY FS_CardinalityType DEF Constants, TimeAssumption
<1>2. LongestLine \in Nat
  BY <1>1, FullIsNat DEF LongestLine, Constants
<1>3. QED
  BY <1>1, <1>2 DEF Constants, TimeAssumption, TokenAssumption, SkewAssumption, OneTry

\* A later try needs one try less, and the skew is enough for all of them.
LEMMA Slacks ==
  ASSUME Constants, NEW n \in Nat, n < Attempts
  PROVE  /\ Slack(n) \in Nat /\ Slack(n) + LongestLine <= Skew
         /\ n + 1 < Attempts => Slack(n) = Slack(n + 1) + OneTry
<1>1. /\ LongestLine \in Nat /\ OneTry \in Nat /\ Attempts \in Nat \ {0} /\ Timeout \in Nat
      /\ Skew \in Nat /\ OneTry = LongestLine + Timeout + Attempts
  BY Times
<1>2. PICK m \in Nat : m = Attempts - 1 - n
  BY <1>1
<1>3. \A a, b, w \in Nat : a * w \in Nat /\ (a + b) * w = a * w + b * w
  OBVIOUS
<1>4. /\ Slack(n) = m * OneTry /\ m \in Nat /\ n \in Nat
      /\ (m + n) * OneTry = m * OneTry + n * OneTry /\ n * OneTry \in Nat /\ m * OneTry \in Nat
  BY <1>1, <1>2, <1>3 DEF Slack
<1>5. (m + n) * OneTry + LongestLine <= Skew
  <2>1. m + n = Attempts - 1 /\ Attempts - 1 \in Nat
    BY <1>1, <1>2
  <2>2. \A a, l, t \in Nat : a * (l + t) + l = (a + 1) * l + a * t
    OBVIOUS
  <2>3. (Attempts - 1) * (LongestLine + (Timeout + Attempts)) + LongestLine
          = ((Attempts - 1) + 1) * LongestLine + (Attempts - 1) * (Timeout + Attempts)
    BY <1>1, <2>1, <2>2
  <2>4. (Attempts - 1) + 1 = Attempts /\ OneTry = LongestLine + (Timeout + Attempts)
    BY <1>1
  <2>5. QED
    BY <2>1, <2>3, <2>4 DEF Constants, SkewAssumption
<1>6. Slack(n) + LongestLine <= Skew
  BY <1>1, <1>4, <1>5
<1>7. ASSUME n + 1 < Attempts PROVE Slack(n) = Slack(n + 1) + OneTry
  <2>1. m - 1 \in Nat /\ (m - 1) + 1 = m /\ Attempts - 1 - (n + 1) = m - 1
    BY <1>1, <1>2, <1>7
  <2>2. Slack(n + 1) = (m - 1) * OneTry
    BY <2>1 DEF Slack
  <2>3. QED
    BY <1>1, <1>4, <2>1, <2>2, OneMore
<1>8. QED
  BY <1>4, <1>6, <1>7

\* No caller is in line twice, so the line is never longer than there are callers.
LEMMA LineFits ==
  ASSUME Constants, NEW line \in Seq(Callers),
         \A i, j \in 1 .. Len(line) : line[i] = line[j] => i = j
  PROVE  Len(line) * Cost <= LongestLine
<1>1. Len(line) \in Nat /\ line \in [1 .. Len(line) -> Callers]
  OBVIOUS
<1>2. IsFiniteSet(1 .. Len(line)) /\ Cardinality(1 .. Len(line)) = Len(line)
  BY <1>1, FS_Interval
<1>3. ~(Cardinality(Callers) < Len(line))
  BY <1>1, <1>2, FS_PigeonHole DEF Constants, TimeAssumption
<1>4. \A a, b, w \in Nat : a <= b => a * w <= b * w
  <2> SUFFICES ASSUME NEW a \in Nat, NEW b \in Nat, NEW w \in Nat, a <= b
               PROVE  a * w <= b * w
    OBVIOUS
  <2>1. PICK d \in Nat : b = a + d
    BY b - a \in Nat
  <2>2. b * w = a * w + d * w /\ d * w \in Nat /\ a * w \in Nat
    BY <2>1
  <2>3. QED
    BY <2>2
<1>5. /\ Cost \in Nat /\ Cardinality(Callers) \in Nat
      /\ LongestLine = Cardinality(Callers) * Cost
  BY Times, FullIsNat DEF LongestLine, Constants
<1>6. Len(line) <= Cardinality(Callers)
  BY <1>1, <1>3, <1>5
<1>7. Len(line) * Cost <= Cardinality(Callers) * Cost
  BY <1>1, <1>4, <1>5, <1>6
<1>8. QED
  BY <1>5, <1>7

\* The one that is let through is the first in line.
LEMMA HeadIsFirst ==
  ASSUME LimiterInv, InTurn, NEW c \in Callers, Grant(c)
  PROVE  /\ bucket.line \in Seq(Callers) /\ Len(bucket.line) >= 1 /\ Len(bucket.line) \in Nat
         /\ c = bucket.line[1] /\ Waits(1) /\ call[c].at = "line"
         /\ call[c].bearer > Slack(call[c].try)
<1>1. bucket.line \in Seq(Callers) /\ bucket.line # <<>>
  BY DEF LimiterInv, CallTypeOK, Grant, Ready
<1>2. Len(bucket.line) >= 1 /\ Len(bucket.line) \in Nat /\ c = bucket.line[1]
  BY <1>1 DEF Grant
<1>3. Waits(1)
  BY <1>2 DEF InTurn
<1>4. QED
  BY <1>1, <1>2, <1>3 DEF Waits

\* What an ended or new call looks like.
LEMMA EndedRow ==
  ASSUME call \in [Callers -> CallRows], NEW d \in Callers, NEW v, End(d, v)
  PROVE  /\ call'[d].at = "done" /\ call'[d].try = 0 /\ call'[d].kind = call[d].kind
         /\ call'[d].verdict = v
         /\ \A c \in Callers : c # d => call'[c] = call[c]
BY DEF End, NoCall, CallRows

\* A step of one caller leaves the calls of the others alone.
CallerStep(d) == \/ Begin(d) \/ TakeToken(d) \/ Fetched(d) \/ Join(d) \/ Grant(d) \/ Arrive(d)
                 \/ Answered(d) \/ Page(d) \/ Minutes(d) \/ Broken(d) \/ Retry(d)

\* A step of one caller leaves the rows of the others.
LEMMA OthersKeep ==
  ASSUME call \in [Callers -> CallRows], NEW d \in Callers, CallerStep(d)
  PROVE  \A c \in Callers : c # d => call'[c] = call[c]
BY DEF CallerStep, Begin, TakeToken, Fetched, Join, Grant, Arrive, Answered, Page, Minutes, Broken,
       Retry, End

\* The row of the caller that steps.
LEMMA TokenRowStep ==
  ASSUME Constants, LimiterInv, TokenInv, NEW d \in Callers, CallerStep(d)
  PROVE  TokenRow(call'[d])
<1>0. /\ call \in [Callers -> CallRows] /\ call[d] \in CallRows /\ TokenRow(call[d])
      /\ call[d].age \in Nat /\ call[d].bearer \in Int /\ call[d].try \in Nat
      /\ token \in Int /\ call[d].try < Attempts
  BY CallTypes DEF LimiterInv, CallTypeOK, TokenInv, TokenRow
<1> DEFINE s == Slack(call[d].try)
<1>s. s \in Nat /\ s + LongestLine <= Skew
  BY <1>0, Slacks
<1>t. /\ LongestLine \in Nat /\ OneTry \in Nat /\ Attempts \in Nat \ {0} /\ Timeout \in Nat
      /\ Skew \in Nat /\ Life \in Nat /\ Timeout + Skew < Life
      /\ OneTry = LongestLine + Timeout + Attempts
  BY Times
<1>1. CASE Begin(d)
  <2>1. call'[d].at = "token" /\ call'[d].try = 0
    BY <1>0, <1>1 DEF Begin, NoCall
  <2>2. QED
    BY <1>t, <2>1 DEF TokenRow
<1>2. CASE TakeToken(d)
  <2>1. CASE Fresh
    <3>1. /\ call'[d].at = "join" /\ call'[d].bearer = token /\ call'[d].try = call[d].try
          /\ token > Skew
      BY <1>0, <1>2, <2>1 DEF TakeToken, CallRows, Fresh
    <3>2. token > LongestLine + s
      BY <1>0, <1>s, <1>t, <3>1
    <3>3. QED
      BY <1>0, <3>1, <3>2 DEF TokenRow
  <2>2. CASE ~Fresh
    <3>1. call'[d].at = "fetch" /\ call'[d].age = 0 /\ call'[d].try = call[d].try
      BY <1>0, <1>2, <2>2 DEF TakeToken, CallRows
    <3>2. QED
      BY <1>0, <1>t, <3>1 DEF TokenRow
  <2>3. QED
    BY <2>1, <2>2
<1>3. CASE Fetched(d)
  <2>1. PICK late \in 0 .. call[d].age :
          call' = [call EXCEPT ![d].at = "join", ![d].bearer = Life - late]
    BY <1>3 DEF Fetched
  <2>2. call'[d].at = "join" /\ call'[d].bearer = Life - late /\ call'[d].try = call[d].try
    BY <1>0, <2>1 DEF CallRows
  <2>3. call[d].age <= Timeout
    BY <1>0, <1>3 DEF Fetched, At, TokenRow
  <2>4. Life - late > LongestLine + s
    BY <1>0, <1>s, <1>t, <2>3
  <2>5. QED
    BY <1>0, <2>2, <2>4 DEF TokenRow
<1>4. CASE Join(d)
  <2>1. /\ call'[d].at \in {"out", "line"} /\ call'[d].age = 0
        /\ call'[d].bearer = call[d].bearer /\ call'[d].try = call[d].try
    BY <1>0, <1>4 DEF Join, CallRows
  <2>2. call[d].bearer > LongestLine + s
    BY <1>0, <1>4 DEF Join, At, TokenRow
  <2>3. call[d].bearer + 0 > s
    BY <1>0, <1>s, <1>t, <2>2
  <2>4. QED
    BY <1>0, <1>t, <2>1, <2>3 DEF TokenRow
<1>5. CASE Grant(d)
  <2>1. /\ call'[d].at = "out" /\ call'[d].age = 0
        /\ call'[d].bearer = call[d].bearer /\ call'[d].try = call[d].try
    BY <1>0, <1>5 DEF Grant, CallRows
  <2>2. call[d].bearer > s
    BY <1>5, HeadIsFirst DEF TokenInv
  <2>3. call[d].bearer + 0 > s
    BY <1>0, <2>2
  <2>4. QED
    BY <1>0, <1>t, <2>1, <2>3 DEF TokenRow
<1>6. CASE Arrive(d)
  <2>1. /\ call'[d].at = call[d].at /\ call'[d].age = call[d].age
        /\ call'[d].bearer = call[d].bearer /\ call'[d].try = call[d].try
    BY <1>0, <1>6 DEF Arrive, CallRows
  <2>2. QED
    BY <1>0, <2>1 DEF TokenRow
<1>7. CASE Answered(d) \/ Minutes(d)
  <2>1. \E v \in Verdicts : End(d, v)
    BY <1>7 DEF Answered, Minutes, Verdict, Verdicts
  <2>2. call'[d].at = "done" /\ call'[d].try = 0
    BY <1>0, <2>1, EndedRow
  <2>3. QED
    BY <1>t, <2>2 DEF TokenRow
<1>8. CASE Page(d)
  <2>1. call'[d].at \in {"token", "done"} /\ call'[d].try = call[d].try
    BY <1>0, <1>8 DEF Page, CallRows
  <2>2. QED
    BY <1>0, <2>1 DEF TokenRow
<1>9. CASE Broken(d)
  <2>1. CASE End(d, "raised")
    <3>1. call'[d].at = "done" /\ call'[d].try = 0
      BY <1>0, <2>1, EndedRow
    <3>2. QED
      BY <1>t, <3>1 DEF TokenRow
  <2>2. CASE call[d].try + 1 < Attempts
             /\ call' = [call EXCEPT ![d].at = "pause", ![d].age = 0, ![d].try = @ + 1]
    <3>1. /\ call'[d].at = "pause" /\ call'[d].age = 0 /\ call'[d].bearer = call[d].bearer
          /\ call'[d].try = call[d].try + 1
      BY <1>0, <2>2 DEF CallRows
    <3>2. call[d].age <= Timeout /\ call[d].bearer + call[d].age > s
      BY <1>0, <1>9 DEF Broken, At, TokenRow
    <3>3. s = Slack(call[d].try + 1) + OneTry /\ Slack(call[d].try + 1) \in Nat
      BY <1>0, <2>2, Slacks
    <3> DEFINE t == Slack(call[d].try + 1)
    <3> HIDE DEF s, t
    <3>4. call[d].bearer + 0 > t + LongestLine + Attempts
      BY <1>0, <1>s, <1>t, <3>2, <3>3 DEF t
    <3>5. QED
      BY <1>0, <2>2, <3>1, <3>4 DEF TokenRow, t
  <2>3. QED
    BY <1>9, <2>1, <2>2 DEF Broken
<1>10. CASE Retry(d)
  <2>1. /\ call'[d].at = "join" /\ call'[d].bearer = call[d].bearer
        /\ call'[d].try = call[d].try
    BY <1>0, <1>10 DEF Retry, CallRows
  <2>2. call[d].age <= call[d].try /\ call[d].bearer + call[d].age > s + LongestLine + Attempts
    BY <1>0, <1>10 DEF Retry, At, TokenRow
  <2>3. call[d].bearer > LongestLine + s
    BY <1>0, <1>s, <1>t, <2>2
  <2>4. QED
    BY <1>0, <2>1, <2>3 DEF TokenRow
<1>11. QED
  BY <1>1, <1>2, <1>3, <1>4, <1>5, <1>6, <1>7, <1>8, <1>9, <1>10 DEF CallerStep

\* Of the steps of a caller, only its own grant touches a call that is in line.
LEMMA InLineKeeps ==
  ASSUME LimiterInv, InTurn, NEW d \in Callers, CallerStep(d), ~Grant(d)
  PROVE  \A i \in 1 .. Len(bucket.line) : /\ bucket.line[i] \in Callers /\ bucket.line[i] # d
                                          /\ call'[bucket.line[i]] = call[bucket.line[i]]
<1>1. call \in [Callers -> CallRows] /\ bucket.line \in Seq(Callers)
  BY DEF LimiterInv, CallTypeOK
<1>2. call[d].at # "line"
  BY DEF CallerStep, Begin, TakeToken, Fetched, Join, Arrive, Answered, Page, Minutes, Broken,
         Retry, At
<1>3. ASSUME NEW i \in 1 .. Len(bucket.line)
      PROVE  bucket.line[i] \in Callers /\ call[bucket.line[i]].at = "line"
  BY <1>1, <1>3 DEF InTurn, Waits
<1>4. \A c \in Callers : c # d => call'[c] = call[c]
  BY <1>1, OthersKeep
<1>5. QED
  BY <1>2, <1>3, <1>4

\* A caller joins the line.
LEMMA JoinTurn ==
  ASSUME Constants, LimiterInv, TokenInv, NEW d \in Callers, Join(d), call[d].kind # "abroad"
  PROVE  InTurn'
<1> DEFINE line == bucket.line
<1>n. PICK n : n = Len(line)
  OBVIOUS
<1>a. /\ call \in [Callers -> CallRows] /\ call[d] \in CallRows
      /\ bucket \in [fill : 0 .. Full, line : Seq(Callers)]
      /\ call[d].at = "join" /\ TokenRow(call[d])
  BY DEF LimiterInv, CallTypeOK, TokenInv, Join, At
<1>0. /\ call \in [Callers -> CallRows] /\ call[d] \in CallRows /\ line \in Seq(Callers)
      /\ call[d].bearer \in Int /\ call[d].try \in Nat /\ call[d].try < Attempts
      /\ bucket \in [fill : 0 .. Full, line : Seq(Callers)] /\ n \in Nat /\ Cost \in Nat
      /\ bucket.fill \in Nat /\ call[d].at = "join" /\ n = Len(line)
      /\ call[d].bearer > LongestLine + Slack(call[d].try)
  <2>1. call[d].bearer \in Int /\ call[d].try \in Nat
    BY <1>a, CallTypes
  <2>2. Cost \in Nat /\ Full \in Nat
    BY FullIsNat DEF Constants
  <2>3. bucket.fill \in 0 .. Full /\ line \in Seq(Callers)
    BY <1>a
  <2>4. call[d].try < Attempts /\ call[d].bearer > LongestLine + Slack(call[d].try)
    BY <1>a DEF TokenRow
  <2>5. QED
    BY <1>n, <1>a, <2>1, <2>2, <2>3, <2>4
<1>1. /\ bucket'.fill = bucket.fill /\ bucket'.line = Append(line, d)
      /\ call'[d].at = "line" /\ call'[d].bearer = call[d].bearer /\ call'[d].try = call[d].try
  BY <1>0 DEF Join, CallRows
<1>2. /\ Append(line, d) \in Seq(Callers) /\ Len(Append(line, d)) = n + 1
      /\ \A i \in 1 .. n : Append(line, d)[i] = line[i]
      /\ Append(line, d)[n + 1] = d
  BY <1>0, AppendProperties
<1>3. \A i \in 1 .. n : /\ line[i] \in Callers /\ line[i] # d /\ call'[line[i]] = call[line[i]]
  <2>1. ~Grant(d)
    BY <1>0, HeadIsFirst DEF TokenInv
  <2>2. QED
    BY <1>0, <2>1, InLineKeeps DEF TokenInv, CallerStep
<1>4. \A i, j \in 1 .. n + 1 : bucket'.line[i] = bucket'.line[j] => i = j
  <2>1. \A i \in 1 .. n + 1 : i \in 1 .. n \/ i = n + 1
    BY <1>0
  <2>2. \A i, j \in 1 .. n : line[i] = line[j] => i = j
    BY <1>0 DEF TokenInv, InTurn
  <2>3. QED
    BY <1>1, <1>2, <1>3, <2>1, <2>2
<1>5. (n + 1) * Cost <= LongestLine /\ (n + 1) * Cost \in Nat
  <2>0. \A i, j \in 1 .. Len(Append(line, d)) : Append(line, d)[i] = Append(line, d)[j] => i = j
    BY <1>1, <1>2, <1>4
  <2>1. (n + 1) * Cost <= LongestLine
    BY <1>2, <2>0, LineFits
  <2>2. QED
    BY <1>0, <2>1
<1>6. ASSUME NEW i \in 1 .. n PROVE Waits(i)'
  BY <1>0, <1>1, <1>2, <1>3 DEF TokenInv, InTurn, Waits
<1>7. Waits(n + 1)'
  <2> DEFINE s == Slack(call[d].try)
             turn == (n + 1) * Cost
  <2>1. s \in Nat /\ LongestLine \in Nat /\ call[d].bearer > LongestLine + s
    BY <1>0, Slacks, Times
  <2>2. turn \in Nat /\ turn <= LongestLine
    BY <1>5
  <2> HIDE DEF s, turn
  <2>3. call[d].bearer > s /\ call[d].bearer + bucket.fill > turn + s
    BY <1>0, <2>1, <2>2
  <2>4. bucket'.line[n + 1] = d
    BY <1>1, <1>2
  <2>5. QED
    BY <1>1, <2>3, <2>4 DEF Waits, s, turn
<1>8. \A i \in 1 .. n + 1 : Waits(i)'
  BY <1>0, <1>6, <1>7
<1>9. QED
  BY <1>1, <1>2, <1>4, <1>8 DEF InTurn

\* A caller leaves the line, and its call goes out.
LEMMA GrantTurn ==
  ASSUME Constants, LimiterInv, TokenInv, NEW d \in Callers, Grant(d)
  PROVE  InTurn'
<1> DEFINE line == bucket.line
           n == Len(line)
<1>0. /\ call \in [Callers -> CallRows] /\ line \in Seq(Callers) /\ n \in Nat /\ n >= 1
      /\ line # <<>> /\ Cost \in Nat /\ bucket.fill \in Nat /\ d = line[1]
      /\ bucket' = [fill |-> bucket.fill - Cost, line |-> Tail(line)]
  <2>1. /\ line \in Seq(Callers) /\ n \in Nat /\ n >= 1 /\ d = line[1]
    BY HeadIsFirst DEF TokenInv
  <2>2. QED
    BY <2>1, FullIsNat DEF LimiterInv, CallTypeOK, Constants, Grant, Ready
<1>1. /\ Len(Tail(line)) = n - 1
      /\ \A i \in 1 .. n - 1 : Tail(line)[i] = line[i + 1]
  BY <1>0, HeadTailProperties
<1>2. \A i \in 1 .. n - 1 : i + 1 \in 1 .. n
  BY <1>0
<1>3. \A i, j \in 1 .. n : line[i] = line[j] => i = j
  BY DEF TokenInv, InTurn
<1>4. \A i, j \in 1 .. n - 1 : bucket'.line[i] = bucket'.line[j] => i = j
  <2> SUFFICES ASSUME NEW i \in 1 .. n - 1, NEW j \in 1 .. n - 1, bucket'.line[i] = bucket'.line[j]
               PROVE  i = j
    OBVIOUS
  <2>1. line[i + 1] = line[j + 1]
    BY <1>0, <1>1
  <2>2. i + 1 = j + 1
    BY <1>2, <1>3, <2>1
  <2>3. QED
    BY <2>2
<1>5. ASSUME NEW i \in 1 .. n - 1 PROVE Waits(i)'
  <2>1. PICK c \in Callers : c = line[i + 1]
    BY <1>0, <1>2
  <2>2. c # d
    <3>1. 1 \in 1 .. n /\ i + 1 # 1
      BY <1>0
    <3>2. QED
      BY <1>0, <1>2, <1>3, <2>1, <3>1
  <2>3. call'[c] = call[c] /\ call[c] \in CallRows
    BY <1>0, <2>2, OthersKeep DEF CallerStep
  <2>4. /\ call[c].at = "line" /\ call[c].bearer > Slack(call[c].try)
        /\ call[c].bearer + bucket.fill > (i + 1) * Cost + Slack(call[c].try)
    BY <1>2, <2>1 DEF TokenInv, InTurn, Waits
  <2>5. bucket'.line[i] = c /\ bucket'.fill = bucket.fill - Cost
    BY <1>0, <1>1, <2>1
  <2> DEFINE s == Slack(call[c].try)
  <2>6. call[c].bearer \in Int /\ s \in Nat
    BY <2>3, Slacks, CallTypes DEF TokenInv, TokenRow
  <2>7. PICK turn \in Nat : turn = i * Cost
    BY <1>0
  <2>8. (i + 1) * Cost = turn + Cost
    BY <1>0, <2>7, OneMore
  <2> HIDE DEF s
  <2>9. call[c].bearer + (bucket.fill - Cost) > turn + s
    BY <1>0, <2>4, <2>6, <2>7, <2>8 DEF s
  <2>10. QED
    BY <2>3, <2>4, <2>5, <2>7, <2>9 DEF Waits, s
<1>6. bucket'.line = Tail(line) /\ Len(bucket'.line) = n - 1
  BY <1>0, <1>1
<1> HIDE DEF line, n
<1>7. \A i \in 1 .. Len(bucket'.line) : Waits(i)'
  BY <1>5, <1>6
<1>8. \A i, j \in 1 .. Len(bucket'.line) : bucket'.line[i] = bucket'.line[j] => i = j
  BY <1>4, <1>6
<1>9. QED
  BY <1>7, <1>8 DEF InTurn

\* A tick, which only comes when the first in line is short of a call.
LEMMA TickFields ==
  ASSUME call \in [Callers -> CallRows], Tick, NEW c \in Callers
  PROVE  /\ call'[c].at = call[c].at /\ call'[c].try = call[c].try
         /\ call'[c].age = IF call[c].at \in {"fetch", "out", "pause"} THEN call[c].age + 1
                           ELSE call[c].age
         /\ call'[c].bearer = IF call[c].bearer > 0 THEN call[c].bearer - 1 ELSE 0
         /\ call'[c].kind = call[c].kind /\ call'[c].verdict = call[c].verdict
         /\ call'[c].want = call[c].want /\ call'[c].got = call[c].got
         /\ call'[c].page = call[c].page
<1>1. PICK a : a = IF At(c) \in {"fetch", "out", "pause"} THEN call[c].age + 1 ELSE call[c].age
  OBVIOUS
<1>2. PICK b : b = IF call[c].bearer > 0 THEN call[c].bearer - 1 ELSE 0
  OBVIOUS
<1>3. call'[c] = [call[c] EXCEPT !.age = a, !.bearer = b]
  BY <1>1, <1>2, Zenon DEF Tick
<1>4. call[c] \in CallRows
  OBVIOUS
<1>5. QED
  BY <1>1, <1>2, <1>3, <1>4 DEF At, CallRows

\* A tick ages the token and what carries it.
LEMMA TickToken ==
  ASSUME Constants, LimiterInv, TokenInv, Tick
  PROVE  TokenInv'
<1>0. /\ call \in [Callers -> CallRows] /\ bucket \in [fill : 0 .. Full, line : Seq(Callers)]
      /\ Cost \in Nat /\ Full \in Nat /\ Timeout \in Nat /\ Attempts \in Nat /\ LongestLine \in Nat
      /\ bucket.fill \in Nat /\ bucket.line \in Seq(Callers)
  BY FullIsNat, Times DEF LimiterInv, CallTypeOK, Constants
<1>1. ASSUME NEW c \in Callers PROVE TokenRow(call[c])'
  <2> DEFINE s == Slack(call[c].try)
  <2>0. /\ TokenRow(call[c]) /\ call[c].age \in Nat /\ call[c].bearer \in Int
        /\ call[c].try \in Nat /\ s \in Nat
    BY <1>0, Slacks, CallTypes DEF TokenInv, TokenRow
  <2>1. /\ call[c].at \notin {"token", "join"}
        /\ call[c].at \in {"fetch", "out"} => call[c].age # Timeout
        /\ call[c].at = "pause" => ~(call[c].age >= call[c].try)
    BY DEF Tick, Busy, At
  <2>2. /\ call'[c].at = call[c].at /\ call'[c].try = call[c].try
        /\ call[c].at \in {"fetch", "out", "pause"} => call'[c].age = call[c].age + 1
        /\ call'[c].bearer = IF call[c].bearer > 0 THEN call[c].bearer - 1 ELSE 0
    BY <1>0, TickFields
  <2>3. call'[c].bearer \in Int /\ call'[c].bearer + 1 >= call[c].bearer
    BY <2>0, <2>2
  <2> HIDE DEF s
  <2>4. call[c].at = "fetch" => call'[c].age <= Timeout
    BY <1>0, <2>0, <2>1, <2>2 DEF TokenRow
  <2>5. call[c].at = "out" => call'[c].age <= Timeout /\ call'[c].bearer + call'[c].age > s
    BY SMTT(40), <1>0, <2>0, <2>1, <2>2, <2>3 DEF TokenRow, s
  <2>6. ASSUME call[c].at = "pause"
        PROVE  /\ call'[c].age <= call[c].try
               /\ call'[c].bearer + call'[c].age > s + LongestLine + Attempts
    <3>1. /\ call[c].bearer + call[c].age > s + LongestLine + Attempts
          /\ call[c].age < call[c].try /\ call'[c].age = call[c].age + 1
      BY <2>0, <2>1, <2>2, <2>6 DEF TokenRow, s
    <3>2. /\ s \in Nat /\ LongestLine \in Nat /\ Attempts \in Nat /\ call[c].age \in Nat
          /\ call[c].try \in Nat /\ call[c].bearer \in Int
      BY <1>0, <2>0
    <3>3. QED
      BY <2>3, <3>1, <3>2
  <2>7. QED
    BY <2>0, <2>1, <2>2, <2>4, <2>5, <2>6 DEF TokenRow, s
<1>2. bucket'.line = bucket.line
  BY <1>0 DEF Tick
<1>3. ASSUME NEW i \in 1 .. Len(bucket.line) PROVE Waits(i)'
  <2>1. PICK c \in Callers : c = bucket.line[i]
    BY <1>0
  <2> DEFINE s == Slack(call[c].try)
  <2>2. /\ call[c].at = "line" /\ call[c].bearer > s /\ call[c].bearer + bucket.fill > i * Cost + s
        /\ call[c].bearer \in Int /\ s \in Nat
    <3>1. Waits(i)
      BY DEF TokenInv, InTurn
    <3>2. call[c] \in CallRows /\ call[c].try \in Nat /\ call[c].try < Attempts
      BY <1>0, CallTypes DEF TokenInv, TokenRow
    <3>3. QED
      BY <2>1, <3>1, <3>2, CallTypes, Slacks DEF Waits
  <2>3. bucket.fill < Cost
    <3>1. bucket.line # <<>>
      BY <1>0
    <3>2. ~Ready
      BY DEF Tick, Busy
    <3>3. QED
      BY <1>0, <3>1, <3>2 DEF Ready
  <2>4. Cost <= Full
    <3>1. PICK m \in Nat : Burst = m + 1
      <4>1. Burst - 1 \in Nat /\ Burst = (Burst - 1) + 1
        BY DEF Constants, LimiterAssumption
      <4>2. QED
        BY <4>1
    <3>2. Full = m * Cost + Cost /\ m * Cost \in Nat
      BY <1>0, <3>1, OneMore DEF Full
    <3>3. QED
      BY <1>0, <3>2
  <2>5. bucket'.fill = bucket.fill + 1
    <3>1. bucket' = [fill |-> Refilled(bucket.fill), line |-> bucket.line]
      BY <1>0 DEF Tick
    <3>2. bucket.fill < Full
      BY <1>0, <2>3, <2>4
    <3>3. QED
      BY <3>1, <3>2 DEF Refilled
  <2>6. /\ call'[c].at = call[c].at /\ call'[c].try = call[c].try
        /\ call'[c].bearer = IF call[c].bearer > 0 THEN call[c].bearer - 1 ELSE 0
    BY <1>0, TickFields
  <2>7. PICK turn \in Nat : turn = i * Cost /\ turn >= Cost
    <3>1. i - 1 \in Nat /\ (i - 1) + 1 = i
      BY <1>0
    <3>2. i * Cost = (i - 1) * Cost + Cost /\ (i - 1) * Cost \in Nat
      BY <1>0, <3>1, OneMore
    <3>3. QED
      BY <1>0, <3>2
  <2>8. /\ call[c].bearer > s /\ call[c].bearer + bucket.fill > turn + s
        /\ call[c].bearer \in Int /\ s \in Nat /\ turn \in Nat /\ turn >= Cost
        /\ bucket.fill \in Nat /\ Cost \in Nat
    BY <1>0, <2>2, <2>7
  <2> HIDE DEF s
  <2>9. call'[c].bearer = call[c].bearer - 1
    BY <2>2, <2>6
  <2>10. call'[c].bearer > s /\ call'[c].bearer + bucket'.fill > turn + s
    BY SMTT(40), <2>3, <2>5, <2>8, <2>9
  <2>11. QED
    BY <1>2, <2>1, <2>2, <2>6, <2>7, <2>10 DEF Waits, s
<1>4. InTurn'
  BY <1>2, <1>3 DEF TokenInv, InTurn
<1>5. QED
  BY <1>1, <1>4 DEF TokenInv

\* No step disturbs the tokens.
LEMMA TokenStep ==
  ASSUME Constants, LimiterInv, TokenInv, [CallNext]_callVars
  PROVE  TokenInv'
<1>0. call \in [Callers -> CallRows]
  BY DEF LimiterInv, CallTypeOK
<1>1. CASE Tick
  BY <1>1, TickToken
<1>2. ASSUME NEW d \in Callers, CallerStep(d) PROVE TokenInv'
  <2>1. ASSUME NEW c \in Callers PROVE TokenRow(call[c])'
    <3>1. CASE c = d
      BY <1>2, <3>1, TokenRowStep
    <3>2. CASE c # d
      <4>1. call'[c] = call[c]
        BY <1>0, <1>2, <3>2, OthersKeep
      <4>2. QED
        BY <4>1 DEF TokenInv, TokenRow
    <3>3. QED
      BY <3>1, <3>2
  <2>2. CASE Grant(d)
    BY <2>1, <2>2, GrantTurn DEF TokenInv
  <2>3. CASE Join(d) /\ call[d].kind # "abroad"
    BY <2>1, <2>3, JoinTurn DEF TokenInv
  <2>4. CASE ~Grant(d) /\ ~(Join(d) /\ call[d].kind # "abroad")
    <3>1. bucket' = bucket
      BY <1>2, <2>4 DEF CallerStep, Begin, TakeToken, Fetched, Join, Arrive, Answered, Page,
                        Minutes, Broken, Retry
    <3>2. \A i \in 1 .. Len(bucket.line) : call'[bucket.line[i]] = call[bucket.line[i]]
      BY <1>2, <2>4, InLineKeeps DEF TokenInv
    <3>3. InTurn'
      BY <3>1, <3>2 DEF TokenInv, InTurn, Waits
    <3>4. QED
      BY <2>1, <3>3 DEF TokenInv
  <2>5. QED
    BY <2>2, <2>3, <2>4
<1>3. CASE UNCHANGED callVars
  BY <1>3 DEF callVars, TokenInv, TokenRow, InTurn, Waits
<1>4. QED
  BY <1>1, <1>2, <1>3 DEF CallNext, CallerStep

\* The tokens at the start.
LEMMA InitToken == ASSUME Constants, CallInit PROVE TokenInv
<1>1. \A c \in Callers : call[c].at = "idle" /\ call[c].try = 0
  BY DEF CallInit, NoCall
<1>2. bucket.line = <<>>
  BY DEF CallInit
<1>3. \A c \in Callers : TokenRow(call[c])
  BY <1>1, Times DEF TokenRow
<1>4. QED
  BY <1>2, <1>3 DEF TokenInv, InTurn

\* The invariant of the tokens.
LEMMA TokenInvariance == ASSUME Constants PROVE CallSpec => [](LimiterInv /\ TokenInv)
<1>1. CallInit => LimiterInv /\ TokenInv
  BY InitLimiter, InitToken DEF Constants
<1>2. LimiterInv /\ TokenInv /\ [CallNext]_callVars => (LimiterInv /\ TokenInv)'
  BY LimiterStep, TokenStep DEF Constants
<1>3. QED
  BY <1>1, <1>2, PTL DEF CallSpec

\* Whatever the callers do and however long the server and the line take, no request goes
\* out with a token that has run out: the skew at which KisAuth renews a token is longer
\* than a call can still take with it (kis_auth.py:49, kis.py:350-366).
THEOREM TokensLast == ASSUME Constants PROVE CallSpec => TokenLive
<1>1. LimiterInv /\ TokenInv /\ [CallNext]_callVars
        => [\A c \in Callers : At(c) # "out" /\ call'[c].at = "out"
                                 => call[c].bearer > 0]_callVars
  <2> SUFFICES ASSUME LimiterInv, TokenInv, [CallNext]_callVars,
                      NEW c \in Callers, At(c) # "out", call'[c].at = "out"
               PROVE  call[c].bearer > 0
    OBVIOUS
  <2>0. call \in [Callers -> CallRows] /\ call[c] \in CallRows
    BY DEF LimiterInv, CallTypeOK
  <2>1. ~Tick /\ ~UNCHANGED callVars
    BY <2>0, TickRow DEF At, callVars
  <2>2. CallerStep(c)
    <3>1. PICK d \in Callers : CallerStep(d)
      BY <2>1 DEF CallNext, CallerStep
    <3>2. QED
      BY <2>0, <3>1, OthersKeep DEF At
  <2>3. Join(c) \/ Grant(c)
    <3>0. ~Begin(c)
      BY <2>0 DEF Begin, NoCall
    <3>1. ~(TakeToken(c) \/ Fetched(c) \/ Retry(c))
      BY ZenonT(60), <2>0 DEF TakeToken, Fetched, Retry, CallRows
    <3>2. ~(Arrive(c) \/ Answered(c) \/ Page(c) \/ Minutes(c) \/ Broken(c))
      BY DEF Arrive, Answered, Page, Minutes, Broken, At
    <3>3. QED
      BY <2>2, <3>0, <3>1, <3>2 DEF CallerStep
  <2>4. /\ Slack(call[c].try) \in Nat /\ LongestLine \in Nat /\ call[c].bearer \in Int
    BY <2>0, Slacks, Times, CallTypes DEF TokenInv, TokenRow
  <2>5. CASE Join(c)
    <3>1. call[c].bearer > LongestLine + Slack(call[c].try)
      BY <2>5 DEF Join, At, TokenInv, TokenRow
    <3>2. QED
      BY <2>4, <3>1
  <2>6. CASE Grant(c)
    <3>1. call[c].bearer > Slack(call[c].try)
      BY <2>6, HeadIsFirst DEF TokenInv
    <3>2. QED
      BY <2>4, <3>1
  <2>7. QED
    BY <2>3, <2>5, <2>6
<1>2. QED
  BY <1>1, TokenInvariance, PTL DEF CallSpec, TokenLive

-----------------------------------------------------------------------------
(* Listings: orders only come, so a listing that has seen all there are    *)
(* has seen all there were.                                                *)

ListingRow(r, known) == r.kind = "listing" =>
  /\ r.at \in {"token", "fetch", "join", "line", "out", "pause"}
       => r.want <= known /\ r.page < MaxPages /\ r.verdict = "none"
  /\ r.verdict = "whole" => r.got >= r.want \/ r.page = MaxPages

ListingInv == \A c \in Callers : ListingRow(call[c], orders)

\* No listing has begun.
LEMMA InitListing == CallInit => ListingInv
BY DEF CallInit, NoCall, ListingInv, ListingRow

\* No step disturbs the listings.
LEMMA ListingStep ==
  ASSUME Constants, PagesAssumption, LimiterInv, TokenInv, ListingInv, [CallNext]_callVars
  PROVE  ListingInv'
<1>0. /\ call \in [Callers -> CallRows] /\ orders \in Nat /\ orders' \in Nat
      /\ MaxPages \in Nat \ {0} /\ PageRows \in Nat
  BY CallStep DEF LimiterInv, CallTypeOK, PagesAssumption, TokenAssumption, Constants
<1>1. orders' >= orders
  <2>1. CASE \E c \in Callers : Arrive(c)
    BY <1>0, <2>1 DEF Arrive
  <2>2. CASE ~ \E c \in Callers : Arrive(c)
    <3>1. orders' = orders
      BY ZenonT(60), <2>2 DEF CallNext, callVars, Tick, Begin, TakeToken, Fetched, Join, Grant, Answered,
                  Page, Minutes, Broken, Retry
    <3>2. QED
      BY <1>0, <3>1
  <2>3. QED
    BY <2>1, <2>2
<1>2. ASSUME NEW c \in Callers, call'[c] = call[c] PROVE ListingRow(call'[c], orders')
  <2>1. ListingRow(call[c], orders) /\ call[c].want \in Nat
    BY <1>0, CallTypes DEF ListingInv
  <2>2. QED
    BY <1>0, <1>1, <1>2, <2>1 DEF ListingRow
<1>3. CASE Tick
  <2>1. ASSUME NEW c \in Callers PROVE ListingRow(call'[c], orders')
    <3>1. ListingRow(call[c], orders) /\ call[c].want \in Nat
      BY <1>0, CallTypes DEF ListingInv
    <3>2. /\ call'[c].at = call[c].at /\ call'[c].kind = call[c].kind
          /\ call'[c].verdict = call[c].verdict /\ call'[c].want = call[c].want
          /\ call'[c].got = call[c].got /\ call'[c].page = call[c].page
      BY <1>0, <1>3, TickFields
    <3>3. QED
      BY <1>0, <1>1, <3>1, <3>2 DEF ListingRow
  <2>2. QED
    BY <2>1 DEF ListingInv
<1>4. ASSUME NEW d \in Callers, CallerStep(d) PROVE ListingInv'
  <2>0. /\ call[d] \in CallRows /\ ListingRow(call[d], orders)
        /\ call[d].want \in Nat /\ call[d].got \in Nat /\ call[d].page \in Nat
    BY <1>0, CallTypes DEF ListingInv
  <2>1. ListingRow(call'[d], orders')
    <3>1. CASE Begin(d)
      <4>1. PICK k \in Kinds :
              call' = [call EXCEPT ![d] = [NoCall EXCEPT !.kind = k, !.at = "token",
                                             !.want = IF k = "listing" THEN orders ELSE 0]]
        BY <3>1 DEF Begin
      <4>2. /\ call'[d].kind = k /\ call'[d].want = IF k = "listing" THEN orders ELSE 0
            /\ call'[d].verdict = "none" /\ call'[d].page = 0
        BY <1>0, <4>1 DEF NoCall
      <4>3. QED
        BY <1>0, <1>1, <4>2 DEF ListingRow
    <3>2. CASE TakeToken(d) \/ Fetched(d) \/ Join(d) \/ Grant(d) \/ Arrive(d) \/ Retry(d)
      <4>1. /\ call[d].at \in {"token", "fetch", "join", "line", "out", "pause"}
            /\ call'[d].kind = call[d].kind /\ call'[d].verdict = call[d].verdict
            /\ call'[d].want = call[d].want /\ call'[d].got = call[d].got
            /\ call'[d].page = call[d].page
        <5>1. CASE TakeToken(d)
          BY <1>0, <2>0, <5>1 DEF TakeToken, CallRows, At
        <5>2. CASE Fetched(d) \/ Join(d)
          BY SMTT(40), <1>0, <2>0, <5>2 DEF Fetched, Join, CallRows, At
        <5>3. CASE Grant(d)
          <6>1. call[d].at = "line"
            BY <5>3, HeadIsFirst DEF TokenInv
          <6>2. QED
            BY <1>0, <2>0, <5>3, <6>1 DEF Grant, CallRows
        <5>4. CASE Arrive(d) \/ Retry(d)
          BY <1>0, <2>0, <5>4 DEF Arrive, Retry, CallRows, At
        <5>5. QED
          BY <3>2, <5>1, <5>2, <5>3, <5>4
      <4>2. QED
        BY <1>0, <1>1, <2>0, <4>1 DEF ListingRow
    <3>3. CASE Answered(d) \/ Minutes(d) \/ Broken(d)
      <4>1. CASE call'[d].kind # "listing"
        BY <4>1 DEF ListingRow
      <4>2. CASE call'[d].kind = "listing"
        <5>1. call[d].kind = "listing"
          BY <1>0, <2>0, <3>3, <4>2, EndedRow DEF Answered, Minutes, Broken, CallRows
        <5>2. End(d, "raised")
          BY <3>3, <5>1 DEF Answered, Minutes, Broken
        <5>3. call'[d].at = "done" /\ call'[d].verdict = "raised"
          BY <1>0, <5>2, EndedRow
        <5>4. QED
          BY <5>3 DEF ListingRow
      <4>3. QED
        BY <4>1, <4>2
    <3>4. CASE Page(d)
      <4> DEFINE seen == IF call[d].got + PageRows < orders THEN call[d].got + PageRows ELSE orders
                 page == call[d].page + 1
      <4>1. /\ call[d].kind = "listing" /\ call[d].at = "out" /\ orders' = orders
            /\ call[d].want <= orders /\ call[d].page < MaxPages /\ call[d].verdict = "none"
        BY <2>0, <3>4 DEF Page, At, ListingRow
      <4>2. /\ call'[d].kind = "listing" /\ call'[d].want = call[d].want
            /\ call'[d].got = seen /\ call'[d].page = page
        BY <1>0, <2>0, <3>4 DEF Page, CallRows
      <4>3. CASE More(seen) /\ page < MaxPages
        <5>1. call'[d].verdict = "none"
          BY <1>0, <2>0, <3>4, <4>1, <4>3 DEF Page, CallRows
        <5>2. QED
          BY <4>1, <4>2, <4>3, <5>1 DEF ListingRow
      <4>4. CASE ~(More(seen) /\ page < MaxPages)
        <5>1. call'[d].at = "done"
          BY <1>0, <2>0, <3>4, <4>4 DEF Page, CallRows
        <5>2. seen >= call[d].want \/ page = MaxPages
          BY <1>0, <2>0, <4>1, <4>4 DEF More
        <5>3. QED
          BY <4>2, <5>1, <5>2 DEF ListingRow
      <4>5. QED
        BY <4>3, <4>4
    <3>5. QED
      BY <1>4, <3>1, <3>2, <3>3, <3>4 DEF CallerStep
  <2>2. ASSUME NEW c \in Callers PROVE ListingRow(call'[c], orders')
    <3>1. CASE c = d
      BY <2>1, <3>1
    <3>2. CASE c # d
      BY <1>0, <1>2, <1>4, <3>2, OthersKeep
    <3>3. QED
      BY <3>1, <3>2
  <2>3. QED
    BY <2>2 DEF ListingInv
<1>5. CASE UNCHANGED callVars
  BY <1>2, <1>5 DEF callVars, ListingInv
<1>6. QED
  BY <1>3, <1>4, <1>5 DEF CallNext, CallerStep

\* A listing that is taken for whole misses no order there was when it began, for any
\* number of orders, rows to a page and callers, unless it stopped at the cap on pages
\* (kis.py:210-241).
THEOREM ListingsAreWhole ==
  ASSUME Constants, PagesAssumption PROVE CallSpec => []ListingIsWhole
<1>1. LimiterInv /\ TokenInv /\ ListingInv /\ [CallNext]_callVars => ListingInv'
  BY ListingStep
<1>2. ListingInv => ListingIsWhole
  BY DEF ListingInv, ListingRow, ListingIsWhole
<1>3. QED
  BY <1>1, <1>2, InitListing, TokenInvariance, PTL DEF CallSpec

-----------------------------------------------------------------------------
(* The paper broker.                                                        *)

Papers == [side : {"BUY", "SELL"}, limit : Nat, qty : Nat \ {0}, cost : Nat, filled : Nat,
           is : {"resting", "filling", "cancelled"}]
Tasks  == [at : {"free", "run", "await"}, no : Nat, price : Nat, left : Nat, chunks : Nat,
           look : SUBSET Numbers, low : Nat, high : Nat]

PaperTypeOK ==
  /\ waits \in BOOLEAN /\ px \in Nat /\ cash \in Int /\ held \in Int
  /\ paper \in Seq(Papers) /\ task \in Tasks

\* A buy that waits reserves what it costs at its limit.
RestOK == \A n \in Resting : paper[n].cost = Costs(paper[n].limit, paper[n].qty)

\* What the task has to fill is an order that does not wait, and its even chunks can
\* be filled.
TaskOK ==
  /\ task.no > 0 => task.no \in Numbers /\ paper[task.no].is = "filling"
  /\ task.chunks = 0 => task.left = 0
  /\ task.chunks > 0 => task.no > 0 /\ task.chunks * (paper[task.no].qty \div ChunkCount) <= task.left
  /\ task.at = "free" => task = NoTask

PaperInv == PaperTypeOK /\ RestOK /\ TaskOK /\ CashCovers

-----------------------------------------------------------------------------
(* Amounts.                                                                 *)

\* Prices times quantities.
LEMMA Product == ASSUME NEW p \in Nat, NEW q \in Nat PROVE p * q \in Nat
OBVIOUS

\* A quantity in two parts.
LEMMA ProductSum == ASSUME NEW p \in Nat, NEW q \in Nat, NEW r \in Nat PROVE p * (q + r) = p * q + p * r
OBVIOUS

\* The price of an order and the fee of a tenth, the price less fee and tax.
LEMMA Amounts ==
  ASSUME NEW p \in Nat, NEW q \in Nat
  PROVE  /\ Costs(p, q) = 11 * (p * q) /\ Costs(p, q) \in Nat
         /\ Brings(p, q) = 8 * (p * q) /\ Brings(p, q) \in Nat
<1> DEFINE m == p * q
<1>1. m \in Nat
  BY Product
<1>2. Scale * p * q = 10 * m
  BY DEF Scale
<1> HIDE DEF m
<1>3. (10 * m) \div 10 = m
  BY <1>1
<1>4. Costs(p, q) = 11 * m /\ Brings(p, q) = 8 * m
  BY <1>1, <1>2, <1>3 DEF Costs, Brings, Fee, Tax
<1> QED BY <1>1, <1>4 DEF m

\* What is paid for in parts costs the same.
LEMMA CostsAdd ==
  ASSUME NEW p \in Nat, NEW q \in Nat, NEW r \in Nat
  PROVE  Costs(p, q + r) = Costs(p, q) + Costs(p, r)
<1> DEFINE a == p * q
           b == p * r
<1>1. a \in Nat /\ b \in Nat
  BY Product
<1>2. p * (q + r) = a + b
  BY ProductSum
<1>3. Costs(p, q) = 11 * a /\ Costs(p, r) = 11 * b
  BY Amounts
<1>4. q + r \in Nat
  OBVIOUS
<1>5. Costs(p, q + r) = 11 * (p * (q + r))
  BY <1>4, Amounts
<1> HIDE DEF a, b
<1> QED BY <1>1, <1>2, <1>3, <1>5

\* Even chunks do not exceed the quantity.
LEMMA EvenFits ==
  ASSUME NEW c \in Nat \ {0}, NEW q \in Nat \ {0}
  PROVE  q \div c \in Nat /\ c * (q \div c) <= q /\ (q < c => q \div c = 0)
<1>1. q \div c \in Int /\ q \div c >= 0
  OBVIOUS
<1>2. c * (q \div c) <= q
  OBVIOUS
<1>3. q < c => q \div c = 0
  OBVIOUS
<1> QED BY <1>1, <1>2, <1>3

-----------------------------------------------------------------------------
(* What the waiting buys reserve.                                           *)

\* Orders are few, and each reserves a whole amount.
LEMMA Reserves ==
  ASSUME PaperTypeOK
  PROVE  /\ IsFiniteSet(Resting) /\ Resting \subseteq Numbers
         /\ Numbers = 1 .. Len(paper) /\ Len(paper) \in Nat
         /\ \A n \in Numbers : paper[n] \in Papers /\ n \in Nat \ {0}
         /\ Reserved \in [Numbers -> Nat]
         /\ SumFunctionOnSet(Reserved, Resting) \in Nat
<1>1. Numbers = 1 .. Len(paper) /\ Len(paper) \in Nat /\ \A n \in Numbers : paper[n] \in Papers
  BY DEF PaperTypeOK, Numbers
<1>2. IsFiniteSet(Resting) /\ Resting \subseteq Numbers
  <2>1. IsFiniteSet(1 .. Len(paper))
    BY <1>1, FS_Interval
  <2>2. Resting \subseteq Numbers
    BY DEF Resting
  <2> QED BY <1>1, <2>1, <2>2, FS_Subset
<1>3. Reserved \in [Numbers -> Nat]
  BY <1>1 DEF Reserved, Papers
<1>4. \A n \in Resting : Reserved[n] \in Nat
  BY <1>2, <1>3
<1>5. SumFunctionOnSet(Reserved, Resting) \in Nat
  BY <1>2, <1>4, SumIsNat
<1> QED BY <1>1, <1>2, <1>3, <1>5

\* The reserve does not change when the waiting orders are the same, and those that
\* stay are as they were.
LEMMA ReservedSame ==
  ASSUME PaperTypeOK, PaperTypeOK', Resting' = Resting,
         \A n \in Resting : paper'[n] = paper[n]
  PROVE  SumFunctionOnSet(Reserved', Resting') = SumFunctionOnSet(Reserved, Resting)
<1>1. \A n \in Resting : Reserved'[n] = Reserved[n]
  <2> TAKE n \in Resting
  <2>1. n \in Numbers /\ n \in Numbers' /\ paper'[n] = paper[n]
    BY DEF Resting
  <2> QED BY <2>1 DEF Reserved
<1>2. IsFiniteSet(Resting)
  BY Reserves
<1> QED BY <1>1, <1>2, SumSame

\* An order that leaves the waiting ones gives back what it reserved.
LEMMA ReservedLess ==
  ASSUME PaperTypeOK, PaperTypeOK', NEW k \in Resting, Resting' = Resting \ {k},
         \A n \in Resting' : paper'[n] = paper[n]
  PROVE  SumFunctionOnSet(Reserved', Resting') = SumFunctionOnSet(Reserved, Resting) - Reserved[k]
<1>1. \A n \in Resting' : Reserved'[n] = Reserved[n]
  <2> TAKE n \in Resting'
  <2>1. n \in Numbers /\ n \in Numbers' /\ paper'[n] = paper[n]
    BY DEF Resting
  <2> QED BY <2>1 DEF Reserved
<1>2. IsFiniteSet(Resting) /\ IsFiniteSet(Resting \ {k})
  BY Reserves, FS_Subset
<1>3. \A n \in Resting : Reserved[n] \in Int
  BY Reserves
<1>4. SumFunctionOnSet(Reserved, Resting) = Reserved[k] + SumFunctionOnSet(Reserved, Resting \ {k})
  BY <1>2, <1>3, SumRemove
<1>5. SumFunctionOnSet(Reserved', Resting') = SumFunctionOnSet(Reserved, Resting \ {k})
  BY <1>1, <1>2, SumSame
<1>6. SumFunctionOnSet(Reserved, Resting \ {k}) \in Int
  BY <1>2, <1>3, SumIsInt
<1> QED BY <1>3, <1>4, <1>5, <1>6

\* An order that waits from now on reserves what it costs.
LEMMA ReservedMore ==
  ASSUME PaperTypeOK, PaperTypeOK', NEW k, k \notin Resting, Resting' = Resting \cup {k},
         \A n \in Resting : paper'[n] = paper[n]
  PROVE  SumFunctionOnSet(Reserved', Resting') = SumFunctionOnSet(Reserved, Resting) + Reserved'[k]
<1>1. \A n \in Resting : Reserved'[n] = Reserved[n]
  <2> TAKE n \in Resting
  <2>1. n \in Numbers /\ n \in Numbers' /\ paper'[n] = paper[n]
    BY DEF Resting
  <2> QED BY <2>1 DEF Reserved
<1>2. IsFiniteSet(Resting)
  BY Reserves
<1>3. \A n \in Resting \cup {k} : Reserved'[n] \in Int
  <2>1. Resting \cup {k} \subseteq Numbers' /\ \A n \in Numbers' : paper'[n] \in Papers
    BY DEF PaperTypeOK, Resting, Numbers
  <2> QED BY <2>1 DEF Reserved, Papers
<1>4. SumFunctionOnSet(Reserved', Resting \cup {k}) = Reserved'[k] + SumFunctionOnSet(Reserved', Resting)
  BY <1>2, <1>3, SumAdd
<1>5. SumFunctionOnSet(Reserved', Resting) = SumFunctionOnSet(Reserved, Resting)
  BY <1>1, <1>2, SumSame
<1>6. SumFunctionOnSet(Reserved, Resting) \in Int /\ Reserved'[k] \in Int
  BY <1>3, Reserves
<1> QED BY <1>4, <1>5, <1>6

-----------------------------------------------------------------------------
(* The actions.                                                             *)

\* A chunk is no more than what is left, and leaves enough for the ones after it.
LEMMA ChunkFits ==
  ASSUME PaperAssumption, PaperTypeOK, NEW n \in Numbers, NEW left \in Nat, NEW chunks \in Nat \ {0},
         chunks * (paper[n].qty \div ChunkCount) <= left
  PROVE  /\ Chunk(n, left, chunks) \in Nat /\ left - Chunk(n, left, chunks) \in Nat
         /\ (chunks - 1) * (paper[n].qty \div ChunkCount) <= left - Chunk(n, left, chunks)
         /\ chunks = 1 => left - Chunk(n, left, chunks) = 0
<1> DEFINE e == paper[n].qty \div ChunkCount
<1>1. e \in Nat
  <2>1. paper[n].qty \in Nat \ {0} /\ ChunkCount \in Nat \ {0}
    BY Reserves DEF Papers, PaperAssumption
  <2> QED BY <2>1, EvenFits
<1>2. Chunk(n, left, chunks) = IF chunks = 1 THEN left ELSE e
  BY DEF Chunk
<1> HIDE DEF e
<1>3. (chunks - 1) * e = chunks * e - e /\ (chunks - 1) * e >= 0
  BY <1>1
<1>4. chunks * e <= left
  BY DEF e
<1>5. chunks * e \in Nat
  BY <1>1
<1>6. CASE chunks = 1
  BY <1>1, <1>2, <1>3, <1>6 DEF e
<1>7. CASE chunks # 1
  <2>1. Chunk(n, left, chunks) = e
    BY <1>2, <1>7
  <2>2. left - e >= chunks * e - e /\ left - e \in Nat
    BY <1>1, <1>3, <1>4, <1>5
  <2> QED BY <1>1, <1>3, <1>7, <2>1, <2>2 DEF e
<1> QED BY <1>6, <1>7

\* What a fill leaves: the order that is filled does not wait, the others are as they
\* were; the cash that was kept for it pays it.
LEMMA ApplyKeeps ==
  ASSUME PaperAssumption, PaperInv, NEW n \in Numbers,
         NEW price \in Nat, NEW left \in Nat, NEW chunks \in Nat \ {0}, NEW look \in SUBSET Numbers,
         chunks * (paper[n].qty \div ChunkCount) <= left, paper[n].is # "cancelled",
         Apply(n, price, left, chunks, look), UNCHANGED <<waits, px>>
  PROVE  /\ PaperTypeOK' /\ RestOK' /\ TaskOK'
         /\ Resting' = Resting \ {n} /\ \A m \in Numbers \ {n} : paper'[m] = paper[m]
         /\ (IF paper[n].side = "BUY" THEN cash - SumFunctionOnSet(Reserved', Resting') - Costs(price, left) >= 0
                                      ELSE cash - SumFunctionOnSet(Reserved', Resting') >= 0)
            /\ SumFunctionOnSet(Reserved', Resting') \in Int
            => CashCovers'
<1> DEFINE q == Chunk(n, left, chunks)
<1>0. PaperTypeOK /\ RestOK /\ TaskOK /\ paper \in Seq(Papers) /\ task \in Tasks
  BY DEF PaperInv, PaperTypeOK
<1>1. /\ q \in Nat /\ left - q \in Nat
      /\ (chunks - 1) * (paper[n].qty \div ChunkCount) <= left - q
      /\ chunks = 1 => left - q = 0
  BY <1>0, ChunkFits
<1>2. /\ cash' = IF paper[n].side = "BUY" THEN cash - Costs(price, q) ELSE cash + Brings(price, q)
      /\ held' = IF paper[n].side = "BUY" THEN held + q ELSE held - q
      /\ paper' = [paper EXCEPT ![n].is = "filling", ![n].filled = @ + q]
      /\ task' = [task EXCEPT !.at = "await", !.no = n, !.price = price, !.left = left - q,
                              !.chunks = chunks - 1, !.look = look]
  BY DEF Apply
<1> HIDE DEF q
<1>3. /\ Numbers = 1 .. Len(paper) /\ n \in Nat \ {0} /\ paper[n] \in Papers
      /\ Costs(price, q) \in Nat /\ Brings(price, q) \in Nat
  BY <1>0, <1>1, Reserves, Amounts
<1>4. /\ paper' \in Seq(Papers) /\ Numbers' = Numbers
      /\ paper'[n] = [paper[n] EXCEPT !.is = "filling", !.filled = @ + q]
      /\ \A m \in Numbers \ {n} : paper'[m] = paper[m]
  <2> DEFINE row == [paper[n] EXCEPT !.is = "filling", !.filled = @ + q]
  <2>1. row \in Papers
    <3>1. q \in Nat /\ paper[n] \in Papers
      BY <1>1, <1>3, Zenon
    <3>2. paper[n].filled + q \in Nat
      BY <3>1 DEF Papers
    <3> QED BY <3>1, <3>2 DEF Papers
  <2>2. paper' = [paper EXCEPT ![n] = row]
    BY <1>2
  <2> HIDE DEF row
  <2>3. paper' \in Seq(Papers) /\ Numbers' = Numbers /\ paper'[n] = row
    BY <1>0, <1>3, <2>1, <2>2 DEF Numbers
  <2>4. \A m \in Numbers \ {n} : paper'[m] = paper[m]
    BY <1>0, <2>2 DEF Numbers
  <2> QED BY <2>3, <2>4 DEF row
<1>5. paper'[n].is = "filling" /\ paper'[n].side = paper[n].side /\ paper'[n].qty = paper[n].qty
  BY <1>3, <1>4 DEF Papers
<1>6. Resting' = Resting \ {n}
  BY <1>4, <1>5 DEF Resting
<1>7. /\ task'.at = "await" /\ task'.no = n /\ task'.price = price /\ task'.left = left - q
      /\ task'.chunks = chunks - 1 /\ task'.look = look /\ task' \in Tasks'
  <2>1. n \in Nat /\ chunks - 1 \in Nat /\ left - q \in Nat /\ look \in SUBSET Numbers'
    BY SMTT(40), <1>1, <1>3, <1>4
  <2>2. /\ task.low \in Nat /\ task.high \in Nat
        /\ DOMAIN task = {"at", "no", "price", "left", "chunks", "look", "low", "high"}
    BY <1>0 DEF Tasks
  <2>3. /\ task'.at = "await" /\ task'.no = n /\ task'.price = price /\ task'.left = left - q
        /\ task'.chunks = chunks - 1 /\ task'.look = look
    BY <1>0, <1>2 DEF Tasks
  <2>4. task' = [at |-> "await", no |-> n, price |-> price, left |-> left - q, chunks |-> chunks - 1,
                 look |-> look, low |-> task.low, high |-> task.high]
    BY <1>0, <1>2 DEF Tasks
  <2>5. task' \in Tasks'
    BY <2>1, <2>2, <2>4 DEF Tasks
  <2> QED BY <2>3, <2>5
<1>8. PaperTypeOK'
  <2>1. waits \in BOOLEAN /\ px \in Nat /\ cash \in Int /\ held \in Int
    BY <1>0 DEF PaperTypeOK
  <2>2. cash' \in Int /\ held' \in Int
    <3>1. q \in Nat /\ Costs(price, q) \in Nat /\ Brings(price, q) \in Nat
      BY <1>1, <1>3, Zenon
    <3> QED BY <1>2, <2>1, <3>1
  <2> QED BY <1>4, <1>7, <2>1, <2>2 DEF PaperTypeOK
<1>9. RestOK'
  BY <1>0, <1>4, <1>6 DEF RestOK, Resting
<1>10. TaskOK'
  <2>1. task'.no \in Numbers' /\ paper'[task'.no].is = "filling" /\ task'.no > 0 /\ task'.at # "free"
    <3>1. n \in Nat \ {0} /\ n \in Numbers'
      BY <1>3, <1>4, Zenon
    <3> QED BY <1>5, <1>7, <3>1
  <2>2. task'.chunks = 0 => task'.left = 0
    BY <1>1, <1>7
  <2>3. task'.chunks * (paper'[task'.no].qty \div ChunkCount) <= task'.left
    BY <1>1, <1>5, <1>7
  <2> QED BY <2>1, <2>2, <2>3 DEF TaskOK
<1>11. ASSUME IF paper[n].side = "BUY" THEN cash - SumFunctionOnSet(Reserved', Resting') - Costs(price, left) >= 0
                                       ELSE cash - SumFunctionOnSet(Reserved', Resting') >= 0,
              SumFunctionOnSet(Reserved', Resting') \in Int
       PROVE  CashCovers'
  <2> DEFINE R == SumFunctionOnSet(Reserved', Resting')
  <2>1. Available' = cash' - R
    BY DEF Available
  <2>2. R \in Int /\ cash \in Int
    BY <1>0, <1>11 DEF PaperTypeOK
  <2>3. ToCome' = IF paper[n].side = "BUY" THEN Costs(price, left - q) ELSE 0
    BY <1>3, <1>5, <1>7 DEF ToCome
  <2>4. CASE paper[n].side = "BUY"
    <3>1. Costs(price, left) = Costs(price, q) + Costs(price, left - q)
      <4>1. q + (left - q) = left
        BY <1>1
      <4> QED BY <1>1, <4>1, CostsAdd
    <3>2. Costs(price, left - q) \in Nat
      BY <1>1, Amounts
    <3>3. cash - R - Costs(price, left) >= 0 /\ cash' = cash - Costs(price, q)
      BY <1>2, <1>11, <2>4
    <3> HIDE DEF R
    <3>4. Costs(price, q) \in Nat
      BY <1>1, Amounts
    <3>5. ToCome' = Costs(price, left - q)
      BY <2>3, <2>4
    <3>6. \A a, b \in Nat, c, r \in Int : c - r - (a + b) >= 0 => (c - a) - r - b >= 0
      OBVIOUS
    <3>7. (cash - Costs(price, q)) - R - Costs(price, left - q) >= 0
      BY <2>2, <3>1, <3>2, <3>3, <3>4, <3>6
    <3>8. Available' - ToCome' >= 0
      <4>1. Available' = (cash - Costs(price, q)) - R
        BY <2>1, <3>3
      <4> QED BY <3>5, <3>7, <4>1
    <3> QED BY <3>8 DEF CashCovers
  <2>5. CASE paper[n].side # "BUY"
    <3>1. cash - R >= 0 /\ cash' = cash + Brings(price, q)
      BY <1>2, <1>11, <2>5
    <3> HIDE DEF R
    <3>2. ToCome' = 0 /\ Available' = (cash + Brings(price, q)) - R
      BY <2>1, <2>3, <2>5, <3>1
    <3>3. Brings(price, q) \in Nat
      BY <1>3
    <3>4. \A b \in Nat, c, r \in Int : c - r >= 0 => (c + b) - r - 0 >= 0
      OBVIOUS
    <3>5. (cash + Brings(price, q)) - R - 0 >= 0
      BY <2>2, <3>1, <3>3, <3>4
    <3>6. Available' - ToCome' >= 0
      BY <3>2, <3>5
    <3> QED BY <3>6 DEF CashCovers
  <2> QED BY <2>4, <2>5
<1> QED BY <1>4, <1>6, <1>8, <1>9, <1>10, <1>11

\* The next part of an order costs no more than what is still to come.
LEMMA NextChunkKeeps == ASSUME PaperAssumption, PaperInv, NextChunk PROVE PaperInv'
<1>1. /\ task.chunks \in Nat \ {0} /\ task.price \in Nat /\ task.left \in Nat /\ task.look \in SUBSET Numbers
      /\ task.no \in Numbers /\ paper[task.no].is = "filling"
      /\ task.chunks * (paper[task.no].qty \div ChunkCount) <= task.left
  BY DEF PaperInv, PaperTypeOK, TaskOK, Tasks, NextChunk
<1>2. Apply(task.no, task.price, task.left, task.chunks, task.look) /\ UNCHANGED <<waits, px>>
  BY DEF NextChunk
<1>3. /\ PaperTypeOK' /\ RestOK' /\ TaskOK'
      /\ Resting' = Resting \ {task.no} /\ \A m \in Numbers \ {task.no} : paper'[m] = paper[m]
  BY <1>1, <1>2, ApplyKeeps
<1>4. task.no \notin Resting /\ Resting \subseteq Numbers
  BY <1>1 DEF Resting
<1>5. Resting' = Resting /\ \A m \in Resting : paper'[m] = paper[m]
  BY <1>3, <1>4
<1>6. SumFunctionOnSet(Reserved', Resting') = SumFunctionOnSet(Reserved, Resting)
  BY <1>3, <1>5, ReservedSame DEF PaperInv
<1>7. SumFunctionOnSet(Reserved, Resting) \in Int /\ cash \in Int
  BY Reserves DEF PaperInv, PaperTypeOK
<1>8. Costs(task.price, task.left) \in Nat
  BY <1>1, Amounts
<1>9. task.no > 0
  BY <1>1, Reserves DEF PaperInv
<1>10. cash - SumFunctionOnSet(Reserved, Resting) - (IF paper[task.no].side = "BUY" THEN Costs(task.price, task.left) ELSE 0) >= 0
  BY <1>9 DEF PaperInv, CashCovers, Available, ToCome
<1>11. IF paper[task.no].side = "BUY" THEN cash - SumFunctionOnSet(Reserved', Resting') - Costs(task.price, task.left) >= 0
                                      ELSE cash - SumFunctionOnSet(Reserved', Resting') >= 0
  BY <1>6, <1>7, <1>8, <1>10
<1>12. CashCovers'
  BY <1>1, <1>2, <1>6, <1>7, <1>11, ApplyKeeps
<1> QED BY <1>3, <1>12 DEF PaperInv

\* What the chunks to come will cost, nothing when there are none.
LEMMA ToComes ==
  ASSUME PaperInv
  PROVE  ToCome \in Nat /\ (task.left = 0 => ToCome = 0)
<1>1. task.price \in Nat /\ task.left \in Nat
  BY DEF PaperInv, PaperTypeOK, Tasks
<1>2. Costs(task.price, task.left) \in Nat /\ Costs(task.price, task.left) = 11 * (task.price * task.left)
  BY <1>1, Amounts
<1>3. task.left = 0 => 11 * (task.price * task.left) = 0
  BY <1>1
<1> QED BY <1>2, <1>3 DEF ToCome

\* A task with nothing to fill takes no cash.
LEMMA NoFillKeeps ==
  ASSUME PaperInv, UNCHANGED <<waits, cash, held, paper>>, px' \in Nat, task' \in Tasks,
         task'.no = 0, task'.left = 0, task'.chunks = 0, task'.at = "free" => task' = NoTask
  PROVE  PaperInv'
<1>1. Numbers' = Numbers /\ Resting' = Resting /\ Tasks' = Tasks /\ Reserved' = Reserved
  BY DEF Numbers, Resting, Tasks, Reserved
<1>2. PaperTypeOK' /\ RestOK' /\ TaskOK'
  BY <1>1 DEF PaperInv, PaperTypeOK, RestOK, TaskOK
<1>3. Available' = Available /\ ToCome' = 0
  BY <1>1 DEF Available, ToCome
<1>4. ToCome \in Nat /\ Available \in Int
  BY ToComes, Reserves DEF PaperInv, PaperTypeOK, Available
<1>5. CashCovers'
  BY <1>3, <1>4 DEF PaperInv, CashCovers
<1> QED BY <1>2, <1>5 DEF PaperInv

\* A new price begins a round: nothing is filled yet.
LEMMA PriceKeeps == ASSUME PaperAssumption, PaperInv, Price PROVE PaperInv'
<1>1. PICK p \in Prices, low \in Prices, high \in Prices :
        /\ px' = p
        /\ task' = [NoTask EXCEPT !.at = "run", !.low = low, !.high = high, !.look = Resting]
  BY DEF Price
<1>2. p \in Nat /\ low \in Nat /\ high \in Nat
  BY DEF PaperAssumption
<1>3. Resting \in SUBSET Numbers
  BY DEF Resting
<1>4. /\ task' \in Tasks /\ task'.no = 0 /\ task'.left = 0 /\ task'.chunks = 0 /\ task'.at = "run"
  BY <1>1, <1>2, <1>3 DEF Tasks, NoTask
<1> QED BY <1>1, <1>2, <1>4, NoFillKeeps DEF Price

\* A round ends: nothing is to come any more.
LEMMA RoundEndKeeps == ASSUME PaperInv, task' = NoTask, UNCHANGED <<waits, px, cash, held, paper>> PROVE PaperInv'
<1>1. NoTask \in Tasks /\ NoTask.no = 0 /\ NoTask.left = 0 /\ NoTask.chunks = 0
  BY DEF Tasks, NoTask
<1>2. px \in Nat
  BY DEF PaperInv, PaperTypeOK
<1> QED BY <1>1, <1>2, NoFillKeeps

\* Chunks of the whole quantity.
LEMMA ChunksFit ==
  ASSUME PaperAssumption, NEW q \in Nat \ {0}
  PROVE  Chunked(q) \in Nat \ {0} /\ Chunked(q) * (q \div ChunkCount) <= q
<1>1. ChunkCount \in Nat \ {0}
  BY DEF PaperAssumption
<1>2. q \div ChunkCount \in Nat /\ ChunkCount * (q \div ChunkCount) <= q /\ (q < ChunkCount => q \div ChunkCount = 0)
  BY <1>1, EvenFits
<1>3. CASE q < ChunkCount
  BY <1>2, <1>3 DEF Chunked
<1>4. CASE ~(q < ChunkCount)
  BY <1>1, <1>2, <1>4 DEF Chunked
<1> QED BY <1>3, <1>4

\* A waiting order that is touched: what it reserved is what it has to come.
LEMMA NextTouchedKeeps == ASSUME PaperAssumption, PaperInv, NextTouched PROVE PaperInv'
<1>1. CASE task' = NoTask /\ UNCHANGED <<cash, held, paper>>
  BY <1>1, RoundEndKeeps DEF NextTouched
<1>2. ASSUME NEW n \in task.look, ~Missing(n),
             Apply(n, paper[n].limit, paper[n].qty, Chunked(paper[n].qty), {m \in task.look : m > n})
      PROVE  PaperInv'
  <2> DEFINE limit == paper[n].limit
             qty   == paper[n].qty
             look  == {m \in task.look : m > n}
  <2>0. task.look \in SUBSET Numbers /\ task.left \in Nat /\ UNCHANGED <<waits, px>> /\ cash \in Int
    BY DEF PaperInv, PaperTypeOK, Tasks, NextTouched
  <2>1. n \in Numbers /\ look \in SUBSET Numbers /\ n \in Resting
    BY <1>2, <2>0 DEF Resting, Missing, Gone
  <2>2. limit \in Nat /\ qty \in Nat \ {0} /\ paper[n].side \in {"BUY", "SELL"} /\ paper[n].is = "resting"
    BY <2>1, Reserves DEF PaperInv, Papers, Resting
  <2>3. Chunked(qty) \in Nat \ {0} /\ Chunked(qty) * (qty \div ChunkCount) <= qty
    BY <2>2, ChunksFit
  <2>4. Apply(n, limit, qty, Chunked(qty), look)
    BY <1>2
  <2> DEFINE c == Chunked(qty)
  <2>5. c \in Nat \ {0} /\ c * (paper[n].qty \div ChunkCount) <= qty /\ Apply(n, limit, qty, c, look)
    BY <2>3, <2>4
  <2>6. qty \in Nat /\ UNCHANGED <<waits, px>> /\ paper[n].is # "cancelled"
    BY <2>0, <2>2
  <2> HIDE DEF limit, qty, look, c
  <2>7. /\ PaperTypeOK' /\ RestOK' /\ TaskOK'
        /\ Resting' = Resting \ {n} /\ \A m \in Numbers \ {n} : paper'[m] = paper[m]
        /\ (IF paper[n].side = "BUY" THEN cash - SumFunctionOnSet(Reserved', Resting') - Costs(limit, qty) >= 0
                                        ELSE cash - SumFunctionOnSet(Reserved', Resting') >= 0)
              /\ SumFunctionOnSet(Reserved', Resting') \in Int
              => CashCovers'
    BY <2>1, <2>2, <2>5, <2>6, ApplyKeeps
  <2>8. Resting \subseteq Numbers
    BY DEF Resting
  <2>9. SumFunctionOnSet(Reserved', Resting') = SumFunctionOnSet(Reserved, Resting) - Reserved[n]
    BY <2>1, <2>7, <2>8, ReservedLess DEF PaperInv
  <2>10. SumFunctionOnSet(Reserved, Resting) \in Nat /\ Reserved[n] \in Nat
    BY <2>1, Reserves DEF PaperInv
  <2>11. Reserved[n] = IF paper[n].side = "BUY" THEN Costs(limit, qty) ELSE 0
    BY <2>1 DEF Reserved, PaperInv, RestOK, limit, qty
  <2>12. ToCome = 0 /\ cash - SumFunctionOnSet(Reserved, Resting) >= 0
    <3>1. task.left = 0
      BY DEF NextTouched, PaperInv, TaskOK
    <3>2. ToCome = 0
      BY <3>1, ToComes
    <3> QED BY <2>0, <2>10, <3>2 DEF PaperInv, CashCovers, Available
  <2>13. CashCovers'
    <3>1. CASE paper[n].side = "BUY"
      <4>1. cash - SumFunctionOnSet(Reserved', Resting') - Costs(limit, qty) >= 0
        BY <2>0, <2>9, <2>10, <2>11, <2>12, <3>1
      <4>2. SumFunctionOnSet(Reserved', Resting') \in Int
        BY <2>9, <2>10
      <4> QED BY <2>7, <3>1, <4>1, <4>2
    <3>2. CASE paper[n].side # "BUY"
      <4>1. cash - SumFunctionOnSet(Reserved', Resting') >= 0
        BY <2>0, <2>9, <2>10, <2>11, <2>12, <3>2
      <4>2. SumFunctionOnSet(Reserved', Resting') \in Int
        BY <2>9, <2>10
      <4> QED BY <2>7, <3>2, <4>1, <4>2
    <3> QED BY <3>1, <3>2
  <2> QED BY <2>7, <2>13 DEF PaperInv
<1> QED BY <1>1, <1>2 DEF NextTouched

\* A cancel gives back what the order reserved.
LEMMA CancelKeeps == ASSUME PaperInv, NEW n \in Numbers, CancelPaper(n) PROVE PaperInv'
<1>0. /\ PaperTypeOK /\ RestOK /\ TaskOK /\ paper \in Seq(Papers) /\ n \in Resting
      /\ paper' = [paper EXCEPT ![n].is = "cancelled"] /\ UNCHANGED <<waits, px, cash, held, task>>
  BY DEF PaperInv, PaperTypeOK, CancelPaper, Resting
<1>1. n \in Nat \ {0} /\ Numbers = 1 .. Len(paper) /\ paper[n] \in Papers /\ Resting \subseteq Numbers
  BY <1>0, Reserves
<1>2. /\ paper' \in Seq(Papers) /\ Numbers' = Numbers /\ paper'[n].is = "cancelled"
      /\ \A m \in Numbers \ {n} : paper'[m] = paper[m]
  <2> DEFINE row == [paper[n] EXCEPT !.is = "cancelled"]
  <2>1. row \in Papers /\ row.is = "cancelled"
    BY <1>1 DEF Papers
  <2>2. paper' = [paper EXCEPT ![n] = row]
    BY <1>0
  <2> HIDE DEF row
  <2> QED BY <1>0, <1>1, <2>1, <2>2 DEF Numbers
<1>3. Resting' = Resting \ {n} /\ Tasks' = Tasks
  BY <1>2 DEF Resting, Tasks
<1>4. task.no > 0 => task.no \in Numbers \ {n}
  BY <1>0 DEF TaskOK, Resting
<1>5. PaperTypeOK' /\ RestOK'
  BY <1>0, <1>1, <1>2, <1>3 DEF PaperTypeOK, RestOK
<1>6. TaskOK' /\ ToCome' = ToCome
  BY <1>0, <1>2, <1>4 DEF TaskOK, ToCome
<1>7. SumFunctionOnSet(Reserved', Resting') = SumFunctionOnSet(Reserved, Resting) - Reserved[n]
  BY <1>0, <1>1, <1>2, <1>3, <1>5, ReservedLess
<1>8. /\ SumFunctionOnSet(Reserved, Resting) \in Nat /\ Reserved[n] \in Nat
      /\ ToCome \in Nat /\ cash \in Int /\ cash' = cash
  BY <1>0, Reserves, ToComes DEF PaperTypeOK
<1>9. CashCovers'
  BY <1>6, <1>7, <1>8 DEF CashCovers, Available, PaperInv
<1> QED BY <1>5, <1>6, <1>9 DEF PaperInv

\* An order is taken if the cash covers it, and then waits or is to come.
LEMMA SubmitKeeps ==
  ASSUME PaperAssumption, PaperInv, NEW side \in {"BUY", "SELL"}, NEW limit \in Prices \cup {0},
         NEW qty \in Quantities, Submit(side, limit, qty)
  PROVE  PaperInv'
<1> DEFINE price == FillPrice(side, limit)
           no    == Len(paper) + 1
           rests == waits /\ limit > 0 /\ ~Crosses(side, limit, px)
           row   == [side |-> side, limit |-> limit, qty |-> qty, cost |-> Costs(price, qty),
                     filled |-> 0, is |-> IF rests THEN "resting" ELSE "filling"]
<1>0. /\ PaperTypeOK /\ RestOK /\ TaskOK /\ paper \in Seq(Papers) /\ px \in Nat /\ cash \in Int
      /\ task = NoTask /\ UNCHANGED <<waits, px, cash, held>>
  BY DEF PaperInv, PaperTypeOK, TaskOK, Submit
<1>1. limit \in Nat /\ qty \in Nat \ {0} /\ price \in Nat /\ (limit > 0 => price = limit)
  <2>1. limit \in Nat /\ qty \in Nat \ {0} /\ (limit > 0 \/ px > 0)
    BY DEF PaperAssumption, Submit
  <2> QED BY <1>0, <2>1 DEF FillPrice
<1>2. Costs(price, qty) \in Nat /\ (side = "BUY" => Costs(price, qty) <= Available)
  BY <1>1, Amounts DEF Submit
<1>3. /\ paper' = Append(paper, row)
      /\ task' = IF rests THEN task
                 ELSE [NoTask EXCEPT !.at = "run", !.no = no, !.price = price,
                                     !.left = qty, !.chunks = Chunked(qty)]
  BY DEF Submit
<1>4. /\ row \in Papers /\ row.side = side /\ row.limit = limit /\ row.qty = qty
      /\ row.cost = Costs(price, qty) /\ row.is = IF rests THEN "resting" ELSE "filling"
  BY <1>1, <1>2 DEF Papers
<1>5. rests => limit > 0
  OBVIOUS
<1> HIDE DEF price, row, rests
<1>6. /\ paper' \in Seq(Papers) /\ no \in Nat \ {0} /\ no \notin Numbers /\ Numbers' = Numbers \cup {no}
      /\ paper'[no] = row /\ \A m \in Numbers : paper'[m] = paper[m]
  BY <1>0, <1>3, <1>4 DEF Numbers
<1> HIDE DEF no
<1>7. /\ SumFunctionOnSet(Reserved, Resting) \in Nat /\ Resting \subseteq Numbers
      /\ Available = cash - SumFunctionOnSet(Reserved, Resting) /\ ToCome = 0 /\ Available >= 0
  <2>1. SumFunctionOnSet(Reserved, Resting) \in Nat /\ Resting \subseteq Numbers
    BY <1>0, Reserves
  <2>2. ToCome = 0
    BY <1>0, ToComes DEF NoTask
  <2> QED BY <1>0, <2>1, <2>2 DEF Available, PaperInv, CashCovers
<1>8. CASE rests
  <2>1. task' = NoTask /\ Resting' = Resting \cup {no} /\ no \notin Resting
    BY <1>0, <1>3, <1>4, <1>6, <1>7, <1>8 DEF Resting
  <2>2. PaperTypeOK'
    BY <1>0, <1>6, <2>1 DEF PaperTypeOK, Tasks, NoTask
  <2>3. RestOK'
    BY <1>0, <1>1, <1>4, <1>5, <1>6, <1>7, <1>8, <2>1 DEF RestOK
  <2>4. TaskOK'
    BY <2>1 DEF TaskOK, NoTask
  <2>5. SumFunctionOnSet(Reserved', Resting') = SumFunctionOnSet(Reserved, Resting) + Reserved'[no]
    BY <1>0, <1>6, <1>7, <2>1, <2>2, ReservedMore
  <2>6. Reserved'[no] = IF side = "BUY" THEN Costs(price, qty) ELSE 0
    BY <1>4, <1>6 DEF Reserved
  <2>7. ToCome' = 0
    BY <2>1 DEF ToCome, NoTask
  <2>8. CashCovers'
    <3>1. Available' = cash - (SumFunctionOnSet(Reserved, Resting) + Reserved'[no])
      BY <1>0, <2>5 DEF Available
    <3>2. Reserved'[no] \in Nat /\ Reserved'[no] <= Available
      BY <1>0, <1>2, <1>7, <2>6
    <3> QED BY <1>0, <1>7, <2>7, <3>1, <3>2 DEF CashCovers
  <2> QED BY <2>2, <2>3, <2>4, <2>8 DEF PaperInv
<1>9. CASE ~rests
  <2> DEFINE c == Chunked(qty)
  <2>1. c \in Nat \ {0} /\ c * (qty \div ChunkCount) <= qty
    BY <1>1, ChunksFit
  <2>2. task' = [NoTask EXCEPT !.at = "run", !.no = no, !.price = price, !.left = qty, !.chunks = c]
    BY <1>3, <1>9
  <2> HIDE DEF c
  <2>3. /\ task'.at = "run" /\ task'.no = no /\ task'.price = price /\ task'.left = qty /\ task'.chunks = c
        /\ task' \in Tasks'
    BY <1>1, <1>6, <2>1, <2>2 DEF Tasks, NoTask
  <2>4. Resting' = Resting
    BY <1>4, <1>6, <1>9 DEF Resting
  <2>5. PaperTypeOK'
    BY <1>0, <1>6, <2>3 DEF PaperTypeOK
  <2>6. RestOK'
    BY <1>0, <1>6, <1>7, <2>4 DEF RestOK
  <2>7. TaskOK'
    BY <1>4, <1>6, <1>9, <2>1, <2>3 DEF TaskOK
  <2>8. SumFunctionOnSet(Reserved', Resting') = SumFunctionOnSet(Reserved, Resting)
    BY <1>0, <1>6, <1>7, <2>4, <2>5, ReservedSame
  <2>9. Available' = Available
    BY <1>0, <2>8 DEF Available
  <2>10. ToCome' = IF side = "BUY" THEN Costs(price, qty) ELSE 0
    BY <1>4, <1>6, <2>3 DEF ToCome
  <2>11. CashCovers'
    BY <1>0, <1>2, <1>7, <2>9, <2>10 DEF CashCovers
  <2> QED BY <2>5, <2>6, <2>7, <2>11 DEF PaperInv
<1> QED BY <1>8, <1>9

-----------------------------------------------------------------------------

\* The paper broker starts with its cash.
LEMMA PaperStarts == ASSUME PaperAssumption, PaperInit PROVE PaperInv
<1>1. Numbers = {} /\ Resting = {} /\ paper \in Seq(Papers)
  BY DEF PaperInit, Numbers, Resting
<1>2. PaperTypeOK /\ RestOK /\ TaskOK /\ ToCome = 0
  BY <1>1 DEF PaperInit, PaperAssumption, PaperTypeOK, RestOK, TaskOK, Tasks, NoTask, ToCome
<1>3. SumFunctionOnSet(Reserved, Resting) = 0
  <2>1. IsFiniteSet(Resting)
    BY <1>1, FS_EmptySet
  <2> QED BY <1>1, <2>1, SumByPick
<1>4. CashCovers
  BY <1>2, <1>3 DEF CashCovers, Available, PaperInit, PaperAssumption
<1> QED BY <1>2, <1>4 DEF PaperInv

\* No step disturbs the cash.
LEMMA PaperStep == ASSUME PaperAssumption, PaperInv, [PaperNext]_paperVars PROVE PaperInv'
<1>1. CASE UNCHANGED paperVars
  BY <1>1 DEF paperVars, PaperInv, PaperTypeOK, Tasks, RestOK, TaskOK, CashCovers, Available, ToCome,
              Reserved, Resting, Numbers
<1>2. CASE HandlerRaises
  BY <1>2, RoundEndKeeps DEF HandlerRaises
<1>3. CASE \E side \in {"BUY", "SELL"}, limit \in Prices \cup {0}, qty \in Quantities : Submit(side, limit, qty)
  BY <1>3, SubmitKeeps
<1>4. CASE \E n \in Numbers : CancelPaper(n)
  BY <1>4, CancelKeeps
<1> QED BY <1>1, <1>2, <1>3, <1>4, PriceKeeps, NextChunkKeeps, NextTouchedKeeps DEF PaperNext

\* An order that was cancelled stays as it is: only an order that waits or that the task
\* is at is filled.
LEMMA CancelledStays ==
  ASSUME PaperAssumption, PaperInv, PaperNext, NEW n \in Numbers, paper[n].is = "cancelled"
  PROVE  paper'[n] = paper[n]
<1>0. paper \in Seq(Papers) /\ n \in 1 .. Len(paper)
  BY DEF PaperInv, PaperTypeOK, Numbers
<1>1. ASSUME NEW k \in Numbers, NEW price, NEW left, NEW chunks, NEW look,
             paper[k].is # "cancelled", Apply(k, price, left, chunks, look)
      PROVE  paper'[n] = paper[n]
  BY <1>0, <1>1 DEF Apply, Numbers
<1>2. CASE NextChunk
  <2>1. task.no \in Numbers /\ paper[task.no].is = "filling"
    BY <1>2 DEF NextChunk, PaperInv, PaperTypeOK, TaskOK, Tasks
  <2> QED BY <1>1, <1>2, <2>1 DEF NextChunk
<1>3. CASE NextTouched
  <2>1. task.look \subseteq Numbers
    BY DEF PaperInv, PaperTypeOK, Tasks
  <2>2. ASSUME NEW k \in task.look, ~Missing(k) PROVE k \in Numbers /\ paper[k].is # "cancelled"
    BY <2>1, <2>2 DEF Missing, Gone
  <2> QED BY <1>1, <1>3, <2>2 DEF NextTouched
<1>4. ASSUME NEW k \in Numbers, CancelPaper(k) PROVE paper'[n] = paper[n]
  BY <1>0, <1>4 DEF CancelPaper, Numbers
<1>5. ASSUME NEW side, NEW limit, NEW qty, Submit(side, limit, qty) PROVE paper'[n] = paper[n]
  BY <1>0, <1>5 DEF Submit
<1>6. CASE Price \/ HandlerRaises
  BY <1>6 DEF Price, HandlerRaises
<1> QED BY <1>2, <1>3, <1>4, <1>5, <1>6 DEF PaperNext

\* The cash in the memory of the paper broker is enough for what it has taken, whatever
\* the prices, the parts an order is filled in and the cancels between them
\* (paper.py:89-92).
THEOREM CashSuffices == ASSUME PaperAssumption PROVE PaperSpec => []CashCovers
<1>1. PaperInit => PaperInv
  BY PaperStarts
<1>2. PaperInv /\ [PaperNext]_paperVars => PaperInv'
  BY PaperStep
<1>3. PaperInv => CashCovers
  BY DEF PaperInv
<1> QED BY <1>1, <1>2, <1>3, PTL DEF PaperSpec

\* An order that was cancelled while it waited is never filled, though a round of fills
\* still had it on its list (paper.py:100-105, 120-126).
THEOREM CancelledIsOver == ASSUME PaperAssumption PROVE PaperSpec => CancelledNeverFills
<1>1. PaperInit => PaperInv
  BY PaperStarts
<1>2. PaperInv /\ [PaperNext]_paperVars => PaperInv'
  BY PaperStep
<1>3. PaperInv /\ [PaperNext]_paperVars
        => [\A n \in Numbers : paper[n].is = "cancelled" => paper'[n] = paper[n]]_paperVars
  BY CancelledStays
<1> QED BY <1>1, <1>2, <1>3, PTL DEF PaperSpec, CancelledNeverFills

-----------------------------------------------------------------------------
(* The broker serve runs on.                                                *)

\* Whichever was chosen, each broker takes its own steps and no others: what is proved of
\* either alone holds of the process.
LEMMA EitherBroker == BrokerSpec => CallSpec /\ PaperSpec
<1>1. BrokerInit => CallInit /\ PaperInit
  BY DEF BrokerInit
<1>2. [BrokerNext]_brokerVars => [CallNext]_callVars /\ [PaperNext]_paperVars
  BY DEF BrokerNext, brokerVars
<1> QED BY <1>1, <1>2, PTL DEF BrokerSpec, CallSpec, PaperSpec

\* All that is checked of the two brokers, of the process that runs one of them
\* (cli.py:140-149).
THEOREM BrokersHold ==
  ASSUME Constants, PagesAssumption, PaperAssumption
  PROVE  BrokerSpec => /\ NeverBursts /\ TokenLive /\ []ListingIsWhole
                       /\ []CashCovers /\ CancelledNeverFills
<1>1. LimiterAssumption /\ TokenAssumption
  BY DEF Constants
<1> QED BY <1>1, EitherBroker, LimiterHolds, TokensLast, ListingsAreWhole, CashSuffices, CancelledIsOver, PTL

-----------------------------------------------------------------------------
(* The sale barrier.                                                        *)

Polls == [by : {"none", "main", "loop"}, at : {"domestic", "overseas", "apply"},
          before : Nat, complete : BOOLEAN, got : [Held -> Nat]]
Mains == [at : {"idle", "refresh", "wait", "lock"}, lot : Held \cup {NoBar}]

TypeInv ==
  /\ real \in [Held -> Nat] /\ book \in [Held -> Nat] /\ order \in [Held -> Nat]
  /\ \A l \in Held : real[l] <= book[l] /\ book[l] <= Shares[l] /\ order[l] <= Shares[l]
  /\ lock \in [Held -> {"free", "working", "lost"}]
  /\ barrier \in [lots : SUBSET Held, start : BOOLEAN]
  /\ fail \in 0 .. FailLimit + 1 /\ (poll.at = "overseas" => fail <= FailLimit)
  /\ poll \in Polls /\ main \in Mains /\ (main.at # "idle" => main.lot \in Held)
  /\ up \in BOOLEAN
  /\ hist.missed \in BOOLEAN /\ hist.blind \subseteq Abroad

\* A poll of the main task keeps it waiting; no poll asks nobody.
PollOK == /\ poll.by = "main" => main.at = "wait"
          /\ poll.by = "none" => poll.at = "domestic"
          /\ poll.at = "overseas" => poll.complete

\* What a poll was told lies between what is in the book and what is left.
BetweenOK == poll.at \in {"overseas", "apply"} =>
               \A l \in Held : real[l] <= poll.got[l] /\ poll.got[l] <= book[l]

Free(l)    == lock[l] = "free"
Settled(l) == book[l] = real[l]

\* Without a lock, nothing of a sale is at work.
LocksOK == \A l \in Held \ hist.blind : Free(l) => order[l] = 0

\* What is not behind the barrier is settled, and so is what the main task is about to
\* sell.
BarrierOK ==
  /\ \A l \in Held \ Excused : Free(l) /\ l \notin barrier.lots /\ ~barrier.start => Settled(l)
  /\ main.at = "lock" =>
       /\ main.lot \notin barrier.lots
       /\ main.lot \notin Excused /\ Free(main.lot) => Settled(main.lot)

\* A lot whose sale was cancelled during a poll of the loop: the poll may have seen it
\* before it sold, but it stays behind the barrier.
Caught(l) == poll.by = "loop" /\ l \in barrier.lots
Seen(l)   == poll.got[l] = real[l] \/ Caught(l)

\* What a poll was told of a lot without a sale at work is how it is, if its leg
\* answered; if it did not, the poll leaves the book as it is.
ToldOK ==
  poll.at \in {"overseas", "apply"} => \A l \in Held :
    /\ l \in Domestic /\ Free(l) => Seen(l)
    /\ l \in Abroad /\ (poll.at = "overseas" \/ ~poll.complete) => poll.got[l] = book[l]
    /\ l \in Abroad \ Excused /\ poll.at = "apply" /\ poll.complete /\ Free(l) => Seen(l)

IInv == TypeInv /\ PollOK /\ BetweenOK /\ LocksOK /\ BarrierOK /\ ToldOK /\ NeverOversold

-----------------------------------------------------------------------------
\* Every lot starts whole.
LEMMA InitInv == ASSUME LotAssumption, RouteInit PROVE IInv
<1>1. \A f \in [Held -> Nat] : \A g \in UpTo(f) : g \in [Held -> Nat] /\ \A l \in Held : g[l] <= f[l]
  BY DEF UpTo
<1>2. /\ Shares \in [Held -> Nat] /\ book = Shares
      /\ real \in [Held -> Nat] /\ \A l \in Held : real[l] <= Shares[l]
  BY <1>1 DEF RouteInit, LotAssumption
<1>3. order \in [Held -> Nat] /\ \A l \in Held : order[l] <= real[l]
  BY <1>1, <1>2 DEF RouteInit
<1>4. /\ lock = [l \in Held |-> IF order[l] > 0 THEN "working" ELSE "free"]
      /\ barrier = [lots |-> {}, start |-> TRUE] /\ fail = 0
      /\ poll = NoPoll /\ main = Waiting /\ up \in BOOLEAN
      /\ hist = [sales |-> 0, missed |-> FALSE, blind |-> {}]
  BY DEF RouteInit, BarrierOn
<1>5. poll \in Polls /\ main \in Mains /\ main.at = "idle" /\ poll.at = "domestic" /\ poll.by = "none"
  BY <1>4 DEF NoPoll, Waiting, Polls, Mains
<1>6. \A l \in Held : order[l] <= Shares[l]
  BY <1>2, <1>3
<1>7. TypeInv
  BY <1>2, <1>3, <1>4, <1>5, <1>6 DEF TypeInv, FailLimit
<1>8. PollOK /\ BetweenOK /\ ToldOK /\ BarrierOK
  BY <1>4, <1>5 DEF PollOK, BetweenOK, ToldOK, BarrierOK
<1>9. LocksOK /\ NeverOversold
  BY <1>3, <1>4 DEF LocksOK, NeverOversold, Free
<1>10. QED
  BY <1>7, <1>8, <1>9 DEF IInv

\* What a step makes of the record it changes.
LEMMA Records ==
  ASSUME TypeInv
  PROVE  /\ \A w \in {"none", "main", "loop"} : [NoPoll EXCEPT !.by = w] \in Polls
         /\ \A a \in {"idle", "refresh", "wait", "lock"} : [main EXCEPT !.at = a] \in Mains
         /\ \A a \in {"idle", "refresh", "wait", "lock"}, l \in Held : [at |-> a, lot |-> l] \in Mains
         /\ NoPoll \in Polls /\ Waiting \in Mains
BY DEF TypeInv, Polls, Mains, NoPoll, Waiting

\* No step disturbs the counts.
LEMMA TypeStep ==
  ASSUME LotAssumption, IInv, [RouteNext]_routeVars
  PROVE  TypeInv'
<1>0. /\ TypeInv /\ PollOK /\ BetweenOK /\ FailLimit = 3
      /\ real \in [Held -> Nat] /\ book \in [Held -> Nat] /\ order \in [Held -> Nat]
      /\ lock \in [Held -> {"free", "working", "lost"}] /\ fail \in 0 .. 4
      /\ poll \in Polls /\ main \in Mains
      /\ barrier \in [lots : SUBSET Held, start : BOOLEAN]
  BY DEF IInv, TypeInv, FailLimit
<1>1. CASE \E who \in {"main", "loop"} : PollStarts(who)
  <2>1. PICK who \in {"main", "loop"} : PollStarts(who)
    BY <1>1
  <2>2. poll' \in Polls /\ poll'.at = "domestic"
    BY <1>0, <2>1, Records DEF PollStarts, NoPoll
  <2>3. QED
    BY <1>0, <2>1, <2>2 DEF PollStarts, TypeInv
<1>2. CASE DomesticAnswers
  <2>1. poll' \in Polls /\ (poll'.at = "overseas" => fail' <= FailLimit)
    <3>1. PICK g \in [Held -> Nat] : g = [l \in Held |-> IF l \in Domestic THEN real[l] ELSE book[l]]
      BY <1>0
    <3>2. CASE Suspended
      BY <1>0, <1>2, <3>1, <3>2 DEF DomesticAnswers, Polls
    <3>3. CASE ~Suspended
      <4>1. poll' = [poll EXCEPT !.at = "overseas", !.before = fail, !.complete = TRUE, !.got = g]
        BY <1>2, <3>1, <3>3, Zenon DEF DomesticAnswers
      <4>2. fail \in Nat /\ fail <= FailLimit /\ fail' = fail
        BY <1>0, <1>2, <3>3 DEF DomesticAnswers, Suspended
      <4>3. QED
        BY <1>0, <3>1, <4>1, <4>2 DEF Polls
    <3>4. QED
      BY <3>2, <3>3
  <2>2. QED
    BY <1>0, <1>2, <2>1 DEF DomesticAnswers, TypeInv
<1>3. CASE OverseasAnswers
  <2>1. poll' \in Polls /\ poll'.at = "apply" /\ fail' = 0
    <3>1. Told(Abroad) \in [Held -> Nat]
      BY <1>0 DEF Told, Polls
    <3>2. QED
      BY <1>0, <1>3, <3>1 DEF OverseasAnswers, Answers, Polls
  <2>2. QED
    BY <1>0, <1>3, <2>1 DEF OverseasAnswers, TypeInv
<1>4. CASE OverseasFails
  <2>1. fail' \in 0 .. 4
    BY <1>0, <1>4 DEF OverseasFails, Fails, TypeInv
  <2>2. poll' \in Polls /\ poll'.at = "apply"
    <3>1. PICK b \in BOOLEAN : b = ~(fail' > poll.before \/ fail' >= FailLimit)
      OBVIOUS
    <3>2. QED
      BY <1>0, <1>4, <3>1 DEF OverseasFails, Polls
  <2>3. hist'.missed \in BOOLEAN /\ hist'.blind = hist.blind
    BY <1>4, <2>2 DEF OverseasFails, Polls
  <2>4. QED
    BY <1>0, <1>4, <2>1, <2>2, <2>3 DEF OverseasFails, TypeInv
<1>5. CASE PollEnds
  <2>1. \A l \in Held : Applied(l) \in Nat /\ real[l] <= Applied(l) /\ Applied(l) <= book[l]
    BY <1>0, <1>5 DEF PollEnds, Applied, BetweenOK, Polls, TypeInv
  <2>2. /\ book' \in [Held -> Nat]
        /\ \A l \in Held : real'[l] <= book'[l] /\ book'[l] <= Shares[l]
    BY <1>0, <1>5, <2>1 DEF PollEnds, TypeInv, LotAssumption
  <2>3. lock' \in [Held -> {"free", "working", "lost"}]
    BY <1>0, <1>5 DEF PollEnds
  <2>4. poll' \in Polls /\ poll'.at = "domestic"
    BY <1>0, <1>5, Records DEF PollEnds, NoPoll
  <2>5. /\ barrier' \in [lots : SUBSET Held, start : BOOLEAN]
        /\ main' \in Mains /\ (main'.at # "idle" => main'.lot \in Held)
    <3>1. CASE poll.by = "loop" /\ UNCHANGED <<barrier, main>>
      BY <1>0, <3>1 DEF TypeInv
    <3>2. CASE poll.by = "main" /\ ~poll.complete /\ Degraded
      BY <1>0, <3>2, Records DEF Degraded, Unconfirmed, TypeInv, PollOK, Mains, Waiting
    <3>3. CASE /\ poll.by = "main" /\ barrier' = [lots |-> {}, start |-> FALSE]
               /\ main' = [main EXCEPT !.at = "lock"]
      BY <1>0, <3>3, Records DEF TypeInv, PollOK, Mains
    <3>4. QED
      BY <1>5, <3>1, <3>2, <3>3 DEF PollEnds
  <2>6. QED
    BY <1>0, <1>5, <2>2, <2>3, <2>4, <2>5 DEF PollEnds, TypeInv
<1>6. CASE DomesticFails
  <2>1. poll' \in Polls /\ poll'.at = "domestic"
    BY <1>0, <1>6, Records DEF DomesticFails, NoPoll
  <2>2. main' \in Mains /\ (main'.at # "idle" => main'.lot \in Held)
    BY <1>0, <1>6, Records DEF DomesticFails, TypeInv, Waiting
  <2>3. QED
    BY <1>0, <1>6, <2>1, <2>2 DEF DomesticFails, TypeInv
<1>7. CASE \E l \in Held : Want(l)
  BY <1>0, <1>7 DEF Want, TypeInv, Mains
<1>8. CASE Refresh
  <2>1. fail' \in 0 .. 4 /\ (poll'.at = "overseas" => fail' <= FailLimit)
    BY <1>0, <1>8 DEF Refresh, Resumed, TypeInv
  <2>2. main' \in Mains /\ main'.lot \in Held
    BY <1>0, <1>8 DEF Refresh, TypeInv, Mains
  <2>3. QED
    BY <1>0, <1>8, <2>1, <2>2 DEF Refresh, TypeInv
<1>9. CASE Cancel
  <2>1. /\ main.lot \in Held /\ main' \in Mains /\ main'.lot \in Held
        /\ order' \in [Held -> Nat] /\ lock' \in [Held -> {"free", "working", "lost"}]
        /\ \A l \in Held : order'[l] = 0 \/ order'[l] = order[l]
        /\ barrier' \in [lots : SUBSET Held, start : BOOLEAN]
    BY <1>0, <1>9 DEF Cancel, TypeInv, Mains
  <2>2. \A l \in Held : order'[l] <= Shares[l]
    BY <2>1 DEF TypeInv, LotAssumption, IInv
  <2>3. QED
    BY <1>0, <1>9, <2>1, <2>2 DEF Cancel, TypeInv
<1>10. CASE GiveUp
  BY <1>0, <1>10, Records DEF GiveUp, TypeInv, Waiting
<1>11. CASE Send
  <2>1. PICK end \in {"working", "lost", "free"} :
          /\ lock' = [lock EXCEPT ![main.lot] = end]
          /\ order' = [order EXCEPT ![main.lot] =
                         IF end \in {"working", "lost"} THEN book[main.lot] ELSE @]
    BY <1>11 DEF Send
  <2>2. main.lot \in Held /\ main' = Waiting /\ main' \in Mains /\ main'.at = "idle"
    BY <1>0, <1>11, Records DEF Send, TypeInv, Waiting
  <2>3. /\ lock' \in [Held -> {"free", "working", "lost"}] /\ order' \in [Held -> Nat]
        /\ \A l \in Held : order'[l] = book[l] \/ order'[l] = order[l]
    BY <1>0, <2>1, <2>2
  <2>4. \A l \in Held : order'[l] <= Shares[l]
    BY <1>0, <2>3 DEF TypeInv
  <2>5. fail' \in 0 .. 4 /\ (poll'.at = "overseas" => fail' <= FailLimit)
    BY <1>0, <1>11 DEF Send, TypeInv
  <2>6. hist'.missed = hist.missed /\ hist'.blind = hist.blind
    BY <1>11 DEF Send
  <2>7. QED
    BY <1>0, <1>11, <2>2, <2>3, <2>4, <2>5, <2>6 DEF Send, TypeInv
<1>12. CASE BalanceRead
  BY <1>0, <1>12 DEF BalanceRead, Answers, Fails, Suspended, TypeInv
<1>13. CASE Resolve
  <2>1. lock' \in [Held -> {"free", "working", "lost"}]
    BY <1>0, <1>13 DEF Resolve
  <2>2. hist'.missed = hist.missed /\ hist'.blind \subseteq Abroad
    BY <1>0, <1>13 DEF Resolve, TypeInv
  <2>3. fail' \in 0 .. 4 /\ (poll'.at = "overseas" => fail' <= FailLimit)
    BY <1>0, <1>13 DEF Resolve, TypeInv
  <2>4. QED
    BY <1>0, <1>13, <2>1, <2>2, <2>3 DEF Resolve, TypeInv
<1>14. CASE \E l \in Held : Execute(l)
  <2>1. PICK l \in Held : Execute(l)
    BY <1>14
  <2>2. /\ real' \in [Held -> Nat] /\ order' \in [Held -> Nat]
        /\ \A m \in Held : real'[m] <= real[m] /\ order'[m] <= order[m]
    BY <1>0, <2>1 DEF Execute
  <2>3. \A m \in Held : real'[m] <= book[m] /\ book[m] <= Shares[m] /\ order'[m] <= Shares[m]
    BY <1>0, <2>2 DEF TypeInv, LotAssumption
  <2>4. QED
    BY <1>0, <2>1, <2>2, <2>3 DEF Execute, TypeInv
<1>15. CASE Outage
  BY <1>0, <1>15 DEF Outage, TypeInv
<1>16. CASE UNCHANGED routeVars
  BY <1>0, <1>16 DEF routeVars, TypeInv
<1>17. QED
  BY <1>1, <1>2, <1>3, <1>4, <1>5, <1>6, <1>7, <1>8, <1>9, <1>10, <1>11, <1>12, <1>13, <1>14,
     <1>15, <1>16 DEF RouteNext, MainStep, PollStep

-----------------------------------------------------------------------------
\* The poll, and what it is told.
LEMMA AskStep ==
  ASSUME LotAssumption, IInv, [RouteNext]_routeVars
  PROVE  PollOK' /\ BetweenOK'
<1>0. /\ TypeInv /\ PollOK /\ BetweenOK /\ poll \in Polls /\ main \in Mains
      /\ real \in [Held -> Nat] /\ book \in [Held -> Nat] /\ order \in [Held -> Nat]
      /\ \A l \in Held : real[l] <= book[l]
  BY DEF IInv, TypeInv
<1>1. CASE \E who \in {"main", "loop"} : PollStarts(who)
  BY <1>0, <1>1 DEF PollStarts, NoPoll, PollOK, BetweenOK
<1>2. CASE DomesticAnswers
  <2>1. /\ poll'.by = poll.by /\ poll'.by # "none"
        /\ \A l \in Held : poll'.got[l] = IF l \in Domestic THEN real[l] ELSE book[l]
    BY <1>0, <1>2 DEF DomesticAnswers, Polls
  <2>2. \A l \in Held : real[l] <= poll'.got[l] /\ poll'.got[l] <= book[l]
    BY <1>0, <2>1
  <2>3. poll'.at = "overseas" => poll'.complete
    BY <1>0, <1>2 DEF DomesticAnswers, Polls
  <2>4. QED
    BY <1>0, <1>2, <2>1, <2>2, <2>3 DEF DomesticAnswers, PollOK, BetweenOK
<1>3. CASE OverseasAnswers
  <2>1. /\ poll'.by = poll.by /\ poll.at = "overseas" /\ poll'.at = "apply"
        /\ \A l \in Held : poll'.got[l] = IF l \in Abroad THEN real[l] ELSE poll.got[l]
    BY <1>0, <1>3 DEF OverseasAnswers, Told, Polls
  <2>2. \A l \in Held : real[l] <= poll'.got[l] /\ poll'.got[l] <= book[l]
    BY <1>0, <2>1 DEF BetweenOK
  <2>3. QED
    BY <1>0, <1>3, <2>1, <2>2 DEF OverseasAnswers, PollOK, BetweenOK
<1>4. CASE OverseasFails
  <2>1. /\ poll'.by = poll.by /\ poll.at = "overseas" /\ poll'.at = "apply"
        /\ poll'.got = poll.got
    BY <1>0, <1>4 DEF OverseasFails, Polls
  <2>2. QED
    BY <1>0, <1>4, <2>1 DEF OverseasFails, PollOK, BetweenOK
<1>5. CASE PollEnds \/ DomesticFails
  BY <1>5 DEF PollEnds, DomesticFails, NoPoll, PollOK, BetweenOK
<1>6. CASE MainStep \/ (\E l \in Held : Want(l))
  <2>1. poll' = poll /\ real' = real /\ book' = book /\ main.at # "wait"
    BY <1>6 DEF MainStep, Want, Refresh, Cancel, GiveUp, Send, Waiting
  <2>2. QED
    BY <1>0, <2>1 DEF PollOK, BetweenOK
<1>7. CASE \E l \in Held : Execute(l)
  <2>1. \A l \in Held : real'[l] <= real[l] /\ real'[l] \in Nat
    BY <1>0, <1>7 DEF Execute
  <2>2. poll' = poll /\ main' = main /\ book' = book
    BY <1>7 DEF Execute
  <2>3. \A l \in Held : real[l] <= poll.got[l] => real'[l] <= poll.got[l]
    BY <1>0, <2>1 DEF Polls
  <2>4. QED
    BY <1>0, <2>2, <2>3 DEF PollOK, BetweenOK
<1>8. CASE BalanceRead \/ Resolve \/ Outage \/ UNCHANGED routeVars
  BY <1>0, <1>8 DEF BalanceRead, Resolve, Outage, routeVars, PollOK, BetweenOK
<1>9. QED
  BY <1>1, <1>2, <1>3, <1>4, <1>5, <1>6, <1>7, <1>8 DEF RouteNext, PollStep

\* A lot that is excused stays so, and only a lost answer or a hidden failure excuses one.
LEMMA ExcusedStays ==
  ASSUME TypeInv, [RouteNext]_routeVars
  PROVE  Excused \subseteq Excused' /\ hist.blind \subseteq hist'.blind /\ Excused \subseteq Abroad
<1>1. hist.blind \subseteq hist'.blind /\ (hist.missed => hist'.missed)
  <2>1. CASE OverseasFails
    BY <2>1 DEF OverseasFails, TypeInv
  <2>2. CASE Resolve
    BY <2>2 DEF Resolve
  <2>3. CASE Send
    BY <2>3 DEF Send
  <2>4. CASE ~(OverseasFails \/ Resolve \/ Send)
    <3>1. hist' = hist
      BY <2>4 DEF RouteNext, routeVars, MainStep, PollStep, Want, Execute, Refresh, Cancel, GiveUp,
                  PollStarts, DomesticAnswers, OverseasAnswers, PollEnds, DomesticFails,
                  BalanceRead, Outage
    <3>2. QED
      BY <3>1
  <2>5. QED
    BY <2>1, <2>2, <2>3, <2>4
<1>2. hist.blind \subseteq Abroad
  BY DEF TypeInv
<1>3. QED
  BY <1>1, <1>2 DEF Excused

\* No step disturbs the locks.
LEMMA LocksStep ==
  ASSUME LotAssumption, IInv, [RouteNext]_routeVars
  PROVE  LocksOK' /\ NeverOversold'
<1>0. /\ TypeInv /\ LocksOK /\ NeverOversold /\ poll \in Polls /\ main \in Mains
      /\ real \in [Held -> Nat] /\ book \in [Held -> Nat] /\ order \in [Held -> Nat]
      /\ lock \in [Held -> {"free", "working", "lost"}]
      /\ hist.blind \subseteq hist'.blind /\ Excused \subseteq Excused'
  BY ExcusedStays DEF IInv, TypeInv
<1>1. CASE Send
  <2>1. PICK end \in {"working", "lost", "free"} :
          /\ lock' = [lock EXCEPT ![main.lot] = end]
          /\ order' = [order EXCEPT ![main.lot] =
                         IF end \in {"working", "lost"} THEN book[main.lot] ELSE @]
    BY <1>1 DEF Send
  <2>2. /\ main.lot \in Held /\ Free(main.lot) /\ real' = real
        /\ main.lot \notin Excused => book[main.lot] = real[main.lot]
    BY <1>0, <1>1 DEF Send, IInv, TypeInv, BarrierOK, Free, Settled
  <2>3. ASSUME NEW l \in Held \ hist'.blind, Free(l)' PROVE order'[l] = 0
    BY <1>0, <2>1, <2>2, <2>3 DEF LocksOK, Free
  <2>4. ASSUME NEW l \in Held \ Excused' PROVE order'[l] <= real'[l]
    <3>1. l \notin Excused /\ order[l] <= real[l] /\ real[l] \in Nat
      BY <1>0, <2>4 DEF NeverOversold
    <3>2. QED
      BY <1>0, <2>1, <2>2, <3>1
  <2>5. QED
    BY <2>3, <2>4 DEF LocksOK, NeverOversold
<1>2. CASE Cancel
  <2>1. /\ main.lot \in Held /\ order' = [order EXCEPT ![main.lot] = 0] /\ real' = real
        /\ lock' = [lock EXCEPT ![main.lot] = "free"]
    BY <1>0, <1>2 DEF Cancel, TypeInv
  <2>2. \A l \in Held : (l # main.lot => order'[l] = order[l] /\ lock'[l] = lock[l])
                        /\ (l = main.lot => order'[l] = 0)
    BY <1>0, <2>1
  <2>3. \A l \in Held \ Excused' : order'[l] <= real'[l]
    <3>1. ASSUME NEW l \in Held \ Excused' PROVE order'[l] <= real'[l]
      BY <1>0, <2>1, <2>2 DEF NeverOversold
    <3>2. QED
      BY <3>1
  <2>4. QED
    BY <1>0, <2>2, <2>3 DEF LocksOK, NeverOversold, Free
<1>3. CASE PollEnds
  <2>1. /\ order' = order /\ real' = real /\ hist' = hist
        /\ \A l \in Held : Free(l)' => Free(l) \/ order[l] = 0
    BY <1>0, <1>3 DEF PollEnds, Filled, Free
  <2>2. QED
    BY <1>0, <2>1 DEF LocksOK, NeverOversold
<1>4. CASE Resolve
  <2>1. /\ order' = order /\ real' = real
        /\ \A l \in Held : Free(l)' => Free(l) \/ l \in hist'.blind
    BY <1>0, <1>4 DEF Resolve, Free, Held
  <2>2. QED
    BY <1>0, <2>1 DEF LocksOK, NeverOversold
<1>5. CASE \E m \in Held : Execute(m)
  <2>1. PICK m \in Held : Execute(m)
    BY <1>5
  <2>2. /\ lock' = lock /\ order[m] > 0 /\ real[m] > 0
        /\ \A l \in Held : l # m => order'[l] = order[l] /\ real'[l] = real[l]
        /\ order'[m] = order[m] - 1 /\ real'[m] = real[m] - 1
    BY <1>0, <2>1 DEF Execute
  <2>3. ASSUME NEW l \in Held \ Excused' PROVE order'[l] <= real'[l]
    <3>1. order[l] <= real[l] /\ order[l] \in Nat /\ real[l] \in Nat
      BY <1>0, <2>3 DEF NeverOversold
    <3>2. QED
      BY <2>2, <3>1
  <2>4. ASSUME NEW l \in Held \ hist'.blind, Free(l)' PROVE order'[l] = 0
    <3>1. order[l] = 0
      BY <1>0, <2>2, <2>4 DEF LocksOK, Free
    <3>2. QED
      BY <2>2, <3>1
  <2>5. QED
    BY <2>3, <2>4 DEF LocksOK, NeverOversold
<1>6. CASE ~(Send \/ Cancel \/ PollEnds \/ Resolve \/ \E m \in Held : Execute(m))
  <2>1. order' = order /\ real' = real /\ lock' = lock
    BY <1>6 DEF RouteNext, routeVars, MainStep, PollStep, Want, Refresh, GiveUp, PollStarts,
                DomesticAnswers, OverseasAnswers, OverseasFails, DomesticFails, BalanceRead, Outage
  <2>2. QED
    BY <1>0, <2>1 DEF LocksOK, NeverOversold, Free
<1>7. QED
  BY <1>1, <1>2, <1>3, <1>4, <1>5, <1>6

\* What is left of a settled lot with nothing at work does not change.
LEMMA BarrierStep ==
  ASSUME LotAssumption, IInv, [RouteNext]_routeVars
  PROVE  BarrierOK'
<1>0. /\ TypeInv /\ PollOK /\ LocksOK /\ BarrierOK /\ ToldOK /\ BetweenOK
      /\ poll \in Polls /\ main \in Mains
      /\ real \in [Held -> Nat] /\ book \in [Held -> Nat] /\ order \in [Held -> Nat]
      /\ lock \in [Held -> {"free", "working", "lost"}]
      /\ barrier \in [lots : SUBSET Held, start : BOOLEAN]
      /\ hist.blind \subseteq hist'.blind /\ Excused \subseteq Excused' /\ Excused \subseteq Abroad
      /\ hist.blind \subseteq Excused /\ Domestic \cap Abroad = {} /\ Held = Domestic \cup Abroad
  BY ExcusedStays DEF IInv, TypeInv, Excused, LotAssumption, Held
<1>1. CASE PollEnds
  <2>0. /\ poll.at = "apply" /\ real' = real /\ hist' = hist
        /\ \A l \in Held : book'[l] = Applied(l)
        /\ \A l \in Held : lock'[l] = IF Filled(l) THEN "free" ELSE lock[l]
        /\ Excused' = Excused
    BY <1>0, <1>1 DEF PollEnds, Excused
  <2>1. ASSUME NEW l \in Held \ Excused, Free(l)', Free(l) => poll.got[l] = real[l]
        PROVE  Settled(l)'
    <3>1. CASE Filled(l)
      BY <2>0, <2>1, <3>1 DEF Filled, Settled
    <3>2. CASE ~Filled(l)
      BY <2>0, <2>1, <3>2 DEF Applied, Free, Settled
    <3>3. QED
      BY <3>1, <3>2
  <2>2. ASSUME NEW l \in Held \ Excused, Free(l), l \in Domestic \/ poll.complete
        PROVE  Seen(l)
    BY <1>0, <2>0, <2>2 DEF ToldOK
  <2>3. ASSUME NEW l \in Held \ Excused, Free(l), l \in Abroad, ~poll.complete, Settled(l)
        PROVE  poll.got[l] = real[l]
    BY <1>0, <2>0, <2>3 DEF ToldOK, Settled
  <2>4. CASE poll.by = "loop" /\ UNCHANGED <<barrier, main>>
    <3>1. ASSUME NEW l \in Held \ Excused, l \notin barrier.lots, Free(l) => Settled(l), Free(l)'
          PROVE  Settled(l)'
      <4>1. Free(l) => poll.got[l] = real[l]
        BY <1>0, <2>2, <2>3, <3>1 DEF Seen, Caught
      <4>2. QED
        BY <2>1, <3>1, <4>1
    <3>2. \A l \in Held \ Excused' : Free(l)' /\ l \notin barrier'.lots /\ ~barrier'.start => Settled(l)'
      BY <1>0, <2>0, <2>4, <3>1 DEF BarrierOK
    <3>3. main'.at = "lock" => /\ main'.lot \notin barrier'.lots
                               /\ main'.lot \notin Excused' /\ Free(main.lot)' => Settled(main.lot)'
      BY <1>0, <2>0, <2>4, <3>1 DEF BarrierOK, TypeInv
    <3>4. QED
      BY <2>4, <3>2, <3>3 DEF BarrierOK, Free, Settled
  <2>5. CASE poll.by = "main" /\ ~poll.complete /\ Degraded
    <3>1. /\ barrier'.lots = barrier.lots \cap Abroad /\ barrier'.start = barrier.start
          /\ main.lot \in Held
          /\ main' = IF main.lot \in Abroad THEN Waiting ELSE [main EXCEPT !.at = "lock"]
      BY <1>0, <2>5 DEF Degraded, Unconfirmed, TypeInv, PollOK
    <3>2. ASSUME NEW l \in Domestic \ Excused, Free(l)' PROVE Settled(l)'
      <4>1. Free(l) => poll.got[l] = real[l]
        BY <1>0, <2>2, <2>5 DEF Seen, Caught
      <4>2. QED
        BY <1>0, <2>1, <3>2, <4>1
    <3>3. ASSUME NEW l \in Abroad \ Excused, Free(l)', l \notin barrier'.lots, ~barrier'.start
          PROVE  Settled(l)'
      <4>1. Free(l) => poll.got[l] = real[l]
        BY <1>0, <2>3, <2>5, <3>1, <3>3 DEF BarrierOK
      <4>2. QED
        BY <1>0, <2>1, <3>3, <4>1
    <3>4. main'.at = "lock" => main' = [main EXCEPT !.at = "lock"] /\ main.lot \in Domestic
      BY <1>0, <3>1 DEF Waiting
    <3>5. main'.at = "lock" => main'.lot = main.lot /\ main.lot \in Domestic
      BY <1>0, <3>4 DEF Mains
    <3>6. QED
      BY <1>0, <2>0, <3>1, <3>2, <3>3, <3>5 DEF BarrierOK, Free, Settled
  <2>6. CASE /\ poll.by = "main" /\ poll.complete /\ barrier' = [lots |-> {}, start |-> FALSE]
             /\ main' = [main EXCEPT !.at = "lock"]
    <3>1. ASSUME NEW l \in Held \ Excused, Free(l)' PROVE Settled(l)'
      <4>1. Free(l) => poll.got[l] = real[l]
        BY <2>2, <2>6 DEF Seen, Caught
      <4>2. QED
        BY <2>1, <3>1, <4>1
    <3>2. main'.lot = main.lot /\ main.lot \in Held
      BY <1>0, <2>6 DEF TypeInv, PollOK, Mains
    <3>3. QED
      BY <2>0, <2>6, <3>1, <3>2 DEF BarrierOK, Free, Settled
  <2>7. QED
    BY <1>1, <2>4, <2>5, <2>6 DEF PollEnds
<1>2. CASE \E m \in Held : Want(m)
  BY <1>0, <1>2 DEF Want, BarrierOK, Free, Settled, Excused
<1>3. CASE Cancel
  <2>1. /\ main.lot \in Held /\ barrier'.lots = barrier.lots \cup {main.lot}
        /\ barrier'.start = barrier.start /\ main'.at = "refresh"
        /\ \A l \in Held : l # main.lot => lock'[l] = lock[l]
        /\ real' = real /\ book' = book /\ Excused' = Excused
    BY <1>0, <1>3 DEF Cancel, TypeInv, Mains, Excused
  <2>2. QED
    BY <1>0, <2>1 DEF BarrierOK, Free, Settled
<1>4. CASE Send
  <2>1. /\ main.lot \in Held /\ Free(main.lot) /\ main'.at = "idle"
        /\ \A l \in Held : l # main.lot => lock'[l] = lock[l]
        /\ real' = real /\ book' = book /\ barrier' = barrier
        /\ main.lot \notin Excused => Settled(main.lot)
    BY <1>0, <1>4 DEF Send, TypeInv, Waiting, Free, BarrierOK
  <2>2. QED
    BY <1>0, <2>1 DEF BarrierOK, Free, Settled
<1>5. CASE Resolve
  <2>1. /\ real' = real /\ book' = book /\ barrier' = barrier /\ main' = main
        /\ \A l \in Held : Free(l)' => Free(l) \/ l \in hist'.blind
    BY <1>0, <1>5 DEF Resolve, Free
  <2>2. hist'.blind \subseteq Excused'
    BY DEF Excused
  <2>3. QED
    BY <1>0, <2>1, <2>2 DEF BarrierOK, Settled, TypeInv, Free
<1>6. CASE \E m \in Held : Execute(m)
  <2>1. PICK m \in Held : Execute(m)
    BY <1>6
  <2>2. /\ lock' = lock /\ book' = book /\ barrier' = barrier /\ main' = main
        /\ order[m] > 0 /\ \A l \in Held : l # m => real'[l] = real[l]
        /\ Excused' = Excused
    BY <1>0, <2>1 DEF Execute, Excused
  <2>3. m \notin Excused => ~Free(m)
    <3>1. m \notin hist.blind => ~Free(m)
      BY <1>0, <2>2 DEF LocksOK
    <3>2. QED
      BY <1>0, <3>1
  <2>4. QED
    BY <1>0, <2>2, <2>3 DEF BarrierOK, Free, Settled, TypeInv
<1>7. CASE OverseasFails
  BY <1>0, <1>7 DEF OverseasFails, BarrierOK, Free, Settled, TypeInv
<1>8. CASE Refresh \/ GiveUp \/ DomesticFails
  <2>1. /\ UNCHANGED <<real, book, barrier, lock, hist>>
        /\ main'.at = "lock" => main' = main
    BY <1>0, <1>8 DEF Refresh, GiveUp, DomesticFails, Waiting, Mains
  <2>2. QED
    BY <1>0, <2>1 DEF BarrierOK, Free, Settled, Excused
<1>9. CASE ~(\/ PollEnds \/ (\E m \in Held : Want(m) \/ Execute(m)) \/ Cancel \/ Send \/ Resolve
             \/ OverseasFails \/ Refresh \/ GiveUp \/ DomesticFails)
  <2>1. UNCHANGED <<real, book, barrier, lock, hist, main>>
    BY <1>9 DEF RouteNext, routeVars, MainStep, PollStep, PollStarts, DomesticAnswers,
                OverseasAnswers, BalanceRead, Outage
  <2>2. QED
    BY <1>0, <2>1 DEF BarrierOK, Free, Settled, Excused
<1>10. QED
  BY <1>1, <1>2, <1>3, <1>4, <1>5, <1>6, <1>7, <1>8, <1>9

\* No step disturbs what the book was told.
LEMMA ToldStep ==
  ASSUME LotAssumption, IInv, [RouteNext]_routeVars
  PROVE  ToldOK'
<1>0. /\ TypeInv /\ PollOK /\ LocksOK /\ BarrierOK /\ ToldOK /\ poll \in Polls /\ main \in Mains
      /\ real \in [Held -> Nat] /\ book \in [Held -> Nat] /\ order \in [Held -> Nat]
      /\ lock \in [Held -> {"free", "working", "lost"}]
      /\ barrier \in [lots : SUBSET Held, start : BOOLEAN]
      /\ hist.blind \subseteq hist'.blind /\ Excused \subseteq Excused' /\ Excused \subseteq Abroad
      /\ hist.blind \subseteq Excused /\ Domestic \cap Abroad = {} /\ Held = Domestic \cup Abroad
  BY ExcusedStays DEF IInv, TypeInv, Excused, LotAssumption, Held
<1>1. CASE PollEnds \/ DomesticFails \/ PollStarts("main") \/ PollStarts("loop")
  BY <1>1 DEF PollEnds, DomesticFails, PollStarts, NoPoll, ToldOK
<1>2. CASE DomesticAnswers
  <2>1. /\ real' = real /\ book' = book
        /\ \A l \in Held : poll'.got[l] = IF l \in Domestic THEN real[l] ELSE book[l]
        /\ poll'.at = "apply" => ~poll'.complete
    BY <1>0, <1>2 DEF DomesticAnswers, Polls
  <2>2. QED
    BY <1>0, <2>1 DEF ToldOK, Seen
<1>3. CASE OverseasAnswers
  <2>1. /\ real' = real /\ book' = book /\ lock' = lock /\ barrier' = barrier /\ poll'.by = poll.by
        /\ poll.at = "overseas" /\ poll'.at = "apply" /\ poll'.complete = poll.complete
        /\ \A l \in Held : poll'.got[l] = IF l \in Abroad THEN real[l] ELSE poll.got[l]
    BY <1>0, <1>3 DEF OverseasAnswers, Told, Polls
  <2>2. poll.complete
    BY <1>0, <2>1 DEF PollOK
  <2>3. QED
    BY <1>0, <2>1, <2>2 DEF ToldOK, Seen, Caught, Free
<1>4. CASE OverseasFails
  <2>1. /\ real' = real /\ book' = book /\ lock' = lock /\ barrier' = barrier /\ poll'.by = poll.by
        /\ poll.at = "overseas" /\ poll'.at = "apply" /\ poll'.got = poll.got
        /\ poll'.complete => hist'.missed
    BY <1>0, <1>4 DEF OverseasFails, Polls
  <2>2. poll'.complete => Abroad \subseteq Excused'
    BY <2>1 DEF Excused
  <2>3. QED
    BY <1>0, <2>1, <2>2 DEF ToldOK, Seen, Caught, Free
<1>5. CASE Cancel
  <2>1. /\ main.lot \in Held /\ barrier'.lots = barrier.lots \cup {main.lot} /\ main.at = "lock"
        /\ \A l \in Held : l # main.lot => lock'[l] = lock[l]
        /\ real' = real /\ book' = book /\ poll' = poll /\ Excused' = Excused
    BY <1>0, <1>5 DEF Cancel, TypeInv, Mains, Excused
  <2>2. poll.at \in {"overseas", "apply"} => poll.by = "loop"
    BY <1>0, <2>1 DEF PollOK, Polls
  <2>3. QED
    BY <1>0, <2>1, <2>2 DEF ToldOK, Seen, Caught, Free
<1>6. CASE Send
  <2>1. /\ main.lot \in Held /\ Free(main.lot)
        /\ \A l \in Held : l # main.lot => lock'[l] = lock[l]
        /\ real' = real /\ book' = book /\ barrier' = barrier /\ poll' = poll
    BY <1>0, <1>6 DEF Send, TypeInv, Free
  <2>2. QED
    BY <1>0, <2>1 DEF ToldOK, Seen, Caught, Free
<1>7. CASE Resolve
  <2>1. /\ real' = real /\ book' = book /\ barrier' = barrier /\ poll' = poll
        /\ \A l \in Held : Free(l)' => Free(l) \/ l \in hist'.blind
    BY <1>0, <1>7 DEF Resolve, Free
  <2>2. hist'.blind \subseteq Excused' /\ hist'.blind \subseteq Abroad
    BY TypeStep DEF Excused, TypeInv
  <2>3. QED
    BY <1>0, <2>1, <2>2 DEF ToldOK, Seen, Caught
<1>8. CASE \E m \in Held : Execute(m)
  <2>1. PICK m \in Held : Execute(m)
    BY <1>8
  <2>2. /\ lock' = lock /\ book' = book /\ barrier' = barrier /\ poll' = poll
        /\ order[m] > 0 /\ \A l \in Held : l # m => real'[l] = real[l]
    BY <1>0, <2>1 DEF Execute
  <2>3. m \notin Excused => ~Free(m)
    <3>1. m \notin hist.blind => ~Free(m)
      BY <1>0, <2>2 DEF LocksOK
    <3>2. QED
      BY <1>0, <3>1
  <2>4. QED
    BY <1>0, <2>2, <2>3 DEF ToldOK, Seen, Caught, Free
<1>9. CASE \/ (\E m \in Held : Want(m)) \/ Refresh \/ GiveUp \/ BalanceRead \/ Outage
           \/ UNCHANGED routeVars
  <2>1. UNCHANGED <<real, book, barrier, lock, poll>>
    BY <1>9 DEF routeVars, Want, Refresh, GiveUp, BalanceRead, Outage
  <2>2. QED
    BY <1>0, <2>1 DEF ToldOK, Seen, Caught, Free
<1>10. QED
  BY <1>1, <1>2, <1>3, <1>4, <1>5, <1>6, <1>7, <1>8, <1>9 DEF RouteNext, MainStep, PollStep

\* The invariant of the sale barrier.
LEMMA Invariance == ASSUME LotAssumption PROVE RouteSpec => []IInv
<1>1. RouteInit => IInv
  BY InitInv
<1>2. IInv /\ [RouteNext]_routeVars => IInv'
  BY TypeStep, AskStep, LocksStep, BarrierStep, ToldStep DEF IInv
<1>3. QED
  BY <1>1, <1>2, PTL DEF RouteSpec

\* Whatever the lots, the shares and the number of sales, the tasks in any order and the
\* overseas broker in and out: no sale ever has more shares at work than are left, but for
\* the overseas lots that NeverOversold excuses (service.py:771-800, 836-866).
THEOREM BarrierHolds == ASSUME LotAssumption PROVE RouteSpec => []NeverOversold
<1>1. IInv => NeverOversold
  BY DEF IInv
<1>2. QED
  BY <1>1, Invariance, PTL

\* Every variable of the barrier has its type, and the book is never behind the broker.
THEOREM RouteTypeCorrect == ASSUME LotAssumption PROVE RouteSpec => []RouteTypeOK
<1>1. IInv => RouteTypeOK
  BY DEF IInv, TypeInv, RouteTypeOK, Polls, Mains, FailLimit
<1>2. QED
  BY <1>1, Invariance, PTL
=============================================================================
