----------------------------- MODULE PaperBook -----------------------------
(***************************************************************************)
(* PaperBrokerAdapter, the broker in memory that stands in for KIS: one    *)
(* ticker, in won.  The main task submits and brings the prices; while a   *)
(* fill is handed to the order manager, which awaits, other tasks may      *)
(* cancel.  Amounts are Scale times price times quantity, so that fee and  *)
(* tax are whole; slippage is one step of the price.                       *)
(***************************************************************************)
EXTENDS Integers, Sequences, Functions

CONSTANTS Prices, Quantities,
          ChunkCount,  \* max_fill_chunks
          StartCash,   \* initial_cash
          MaxPaper     \* bound: orders

ASSUME PaperAssumption == /\ Prices \subseteq Nat \ {0} /\ Quantities \subseteq Nat \ {0}
                          /\ ChunkCount \in Nat \ {0} /\ StartCash \in Nat

VARIABLES
  waits,  \* resting_limits: a limit waits for its price, or is filled at once
  px,     \* the last price
  cash, held,
  paper,  \* the orders taken, by number
  task    \* what the main task is at: shares and chunks to come, orders still to be
          \* looked at

paperVars == <<waits, px, cash, held, paper, task>>

Scale    == 10
Fee(amt) == amt \div 10
Tax(amt) == amt \div 10
Costs(price, qty)  == Scale * price * qty + Fee(Scale * price * qty)    \* _estimated_cost
Brings(price, qty) == LET amt == Scale * price * qty IN amt - Fee(amt) - Tax(amt)

NoTask == [at |-> "free", no |-> 0, price |-> 0, left |-> 0, chunks |-> 0,
           look |-> {}, low |-> 0, high |-> 0]
Numbers == DOMAIN paper
Resting == {n \in Numbers : paper[n].is = "resting"}

PaperInit ==
  /\ waits \in BOOLEAN /\ px = 0 /\ cash = StartCash /\ held = 0
  /\ paper = <<>> /\ task = NoTask

-----------------------------------------------------------------------------

\* The last chunk takes what the even ones leave; empty ones are dropped, so a quantity
\* below the number of chunks is one chunk.
Chunked(qty) == IF qty < ChunkCount THEN 1 ELSE ChunkCount
Chunk(no, left, chunks) == IF chunks = 1 THEN left ELSE paper[no].qty \div ChunkCount

\* Cash, less what the waiting buys reserve.  (Mutant: all of it.)
AvailableAll == cash
Reserved     == [n \in Numbers |-> IF paper[n].side = "BUY" THEN paper[n].cost ELSE 0]
Available    == cash - SumFunctionOnSet(Reserved, Resting)

Crosses(side, limit, at) == at > 0 /\ IF side = "BUY" THEN at <= limit ELSE at >= limit

\* A market order is filled at the last price and a slip, a limit at its limit.
FillPrice(side, limit) == IF limit > 0 THEN limit ELSE IF side = "BUY" THEN px + 1 ELSE px - 1

\* submit_order of one that is taken.  (At market with no price, or a buy beyond the
\* cash, it is rejected and nothing changes.)  Sells are not checked.
Submit(side, limit, qty) ==
  LET price == FillPrice(side, limit)
      no    == Len(paper) + 1
      rests == waits /\ limit > 0 /\ ~Crosses(side, limit, px)
  IN /\ task.at = "free" /\ no <= MaxPaper
     /\ limit > 0 \/ px > 0
     /\ side = "BUY" => Costs(price, qty) <= Available
     /\ paper' = Append(paper, [side |-> side, limit |-> limit, qty |-> qty, cost |-> Costs(price, qty),
                                filled |-> 0, is |-> IF rests THEN "resting" ELSE "filling"])
     /\ task' = IF rests THEN task
                ELSE [NoTask EXCEPT !.at = "run", !.no = no, !.price = price,
                                        !.left = qty, !.chunks = Chunked(qty)]
     /\ UNCHANGED <<waits, px, cash, held>>

\* on_market_price: the waiting orders are looked at in the order they came; a bar
\* also brings its low and high.
Price ==
  /\ task.at = "free"
  /\ \E p, low, high \in Prices :
       /\ low <= p /\ p <= high
       /\ px' = p
       /\ task' = [NoTask EXCEPT !.at = "run", !.low = low, !.high = high,
                                 !.look = Resting]
  /\ UNCHANGED <<waits, cash, held, paper>>

\* A buy is touched by the low, a sale by the high.
Touched(n) == Crosses(paper[n].side, paper[n].limit, IF paper[n].side = "BUY" THEN task.low ELSE task.high)

\* _apply_and_emit of the next chunk, then the await of the fill handler.
Apply(no, price, left, chunks, look) ==
  LET qty == Chunk(no, left, chunks) IN
  /\ cash' = IF paper[no].side = "BUY" THEN cash - Costs(price, qty) ELSE cash + Brings(price, qty)
  /\ held' = IF paper[no].side = "BUY" THEN held + qty ELSE held - qty
  /\ paper' = [paper EXCEPT ![no].is = "filling", ![no].filled = @ + qty]
  /\ task' = [task EXCEPT !.at = "await", !.no = no, !.price = price, !.left = left - qty,
                          !.chunks = chunks - 1, !.look = look]

NextChunk ==
  /\ task.at # "free" /\ task.chunks > 0
  /\ Apply(task.no, task.price, task.left, task.chunks, task.look)
  /\ UNCHANGED <<waits, px>>

\* The next order that is touched leaves the waiting ones and is filled.  One that was
\* cancelled since the list was made is not there any more: a KeyError, which ends the
\* round.  (Mutant: it is filled.)
Gone(n)        == paper[n].is # "resting"
GoneIgnored(n) == FALSE
Missing(n)     == Gone(n)
IsNext(n)      == n \in task.look /\ Touched(n) /\ \A m \in task.look : Touched(m) => n <= m

NextTouched ==
  /\ task.at # "free" /\ task.chunks = 0
  /\ \/ (\A n \in task.look : ~Touched(n)) /\ task' = NoTask /\ UNCHANGED <<cash, held, paper>>
     \/ \E n \in task.look :
          /\ IsNext(n)
          /\ IF Missing(n) THEN task' = NoTask /\ UNCHANGED <<cash, held, paper>>
             ELSE Apply(n, paper[n].limit, paper[n].qty, Chunked(paper[n].qty), {m \in task.look : m > n})
  /\ UNCHANGED <<waits, px>>

\* The fill handler raises (the database): the round ends, with the fills to come.
HandlerRaises ==
  /\ task.at = "await"
  /\ task' = NoTask
  /\ UNCHANGED <<waits, px, cash, held, paper>>

\* cancel_order of another task, while the main one awaits or has nothing to do.
CancelPaper(n) ==
  /\ task.at \in {"free", "await"} /\ paper[n].is = "resting"
  /\ paper' = [paper EXCEPT ![n].is = "cancelled"]
  /\ UNCHANGED <<waits, px, cash, held, task>>

PaperNext ==
  \/ \E side \in {"BUY", "SELL"}, limit \in Prices \cup {0}, qty \in Quantities : Submit(side, limit, qty)
  \/ Price \/ NextChunk \/ NextTouched \/ HandlerRaises
  \/ \E n \in Numbers : CancelPaper(n)

PaperSpec == PaperInit /\ [][PaperNext]_paperVars

-----------------------------------------------------------------------------
\* The cash is enough for the chunks to come and for every buy that waits, however
\* they are filled (paper.py:89-92).
ToCome     == IF task.no > 0 /\ paper[task.no].side = "BUY"
              THEN Costs(task.price, task.left) ELSE 0
CashCovers == Available - ToCome >= 0

\* An order that was cancelled while it waited is never filled, though the round had
\* it on its list (paper.py:100-105, 120-126).
CancelledNeverFills == [][\A n \in Numbers : paper[n].is = "cancelled" => paper'[n] = paper[n]]_paperVars

=============================================================================
