------------------------ MODULE LotService_proofs ------------------------
(***************************************************************************)
(* The book of LotService against the tables and the broker, for any       *)
(* number of lots, orders, shares and crashes: fills reach the book as     *)
(* they reached the tables, an order that can still trade holds its lock,  *)
(* no buy is sent after a stop, and the liquidation is declared over only  *)
(* when what the book can vouch for is sold.                               *)
(***************************************************************************)
EXTENDS LotService, Sums, Integers, WellFoundedInduction, TLAPS

Stages == {"idle", "bar", "sweep", "lots", "sell", "lock", "send", "ack", "entry",
           "cancel", "cancelling", "cancelled", "refresh", "polling"}
Mains  == [at : Stages, job : {"none", "enter", "exit", "trim", "flat"}, lot : Lots \cup {0},
           side : Sides, qty : Nat, order : Orders \cup {0},
           then : {"none", "up", "lots", "sell", "lock", "send"},
           keys : SUBSET Keys, lots : SUBSET Lots]
FillRecs == [at : {"none", "book", "adopt", "retire"}, o : Orders \cup {0}, n : Nat,
             old : Lots \cup {0}]
Polls  == [by : {"none", "main", "loop"}, recs : SUBSET [o : Orders, qty : Nat], fill : FillRecs]
OrderRows == [st : Open \cup Final \cup {"none"}, no : BOOLEAN, adopted : BOOLEAN,
              filled : Nat, lot : Lots, side : Sides, qty : Nat]
LotRows   == [st : LotSt, qty : Nat]
BrkRows   == [at : {"none", "flight", "lost", "refused", "live", "gone"}, exec : Nat]

TypeInv ==
  /\ ord \in [Orders -> OrderRows] /\ row \in [Lots -> LotRows]
  /\ brk \in [Orders -> BrkRows] /\ lot \in [Lots -> LotRows]
  /\ slot \in Lots \cup {0} /\ pending \in [Keys -> Orders \cup {0}]
  /\ DOMAIN meta \subseteq Orders /\ \A o \in DOMAIN meta : meta[o] \in Nat
  /\ barrier \in [sell : SUBSET Lots, buy : SUBSET Lots, start : BOOLEAN]
  /\ stopped \in BOOLEAN /\ flatReq \in BOOLEAN /\ crashes \in Nat
  /\ phase \in {"down", "hydrating", "up", "done"}
  /\ main \in Mains /\ poll \in Polls /\ relock \subseteq Orders

\* The engine is down, or the tasks run.
Up     == phase # "down"
DownOK == ~Up => main = Idle /\ poll = NoPoll /\ relock = {}

\* An order at the broker and its row.
Working(o) == brk[o].at \in {"flight", "live"}
Used(o)    == ord[o].st # "none"
OrderOK(o) ==
  /\ Used(o) <=> brk[o].at # "none"
  /\ Used(o) => ord[o].qty > 0 /\ row[ord[o].lot].st # "none"
  /\ ~Used(o) => brk[o].exec = 0
  /\ ord[o].no => ord[o].st \in (Open \cup Final) \ {"PENDING_NEW", "UNKNOWN", "REJECTED"}
  /\ ord[o].adopted => ord[o].no
  /\ ord[o].st \in Final => ~Working(o)
  /\ ord[o].filled <= brk[o].exec /\ brk[o].exec <= ord[o].qty
  /\ Working(o) => brk[o].exec < ord[o].qty
  /\ ord[o].st = "FILLED" => ord[o].filled = ord[o].qty
  /\ Used(o) /\ ord[o].filled >= ord[o].qty => ord[o].st \in Final
OrdersOK == /\ \A o \in Orders : OrderOK(o)
            /\ \A o, p \in Orders : o < p /\ Used(p) => Used(o)

\* The order that has a right to the lock of its (lot, side): it is open, and it was not
\* adopted, or is about to be relocked.
Covered(o) == ord[o].st \in Open /\ (~ord[o].adopted \/ o \in relock)
Vacant(k)  == \A o \in Orders : KeyOf(o) = k => ~Covered(o)

LatestOK == \A o, p \in Orders : o < p /\ Used(p) /\ KeyOf(o) = KeyOf(p) => ~Covered(o)
LocksOK  == Up => \A o \in Orders : Covered(o) => pending[KeyOf(o)] = o
RelockOK == \A o \in relock : ord[o].adopted /\ Used(o)
OwnedOK  == Up => \A o \in Orders : ord[o].st \in Open \/ o \in DOMAIN meta => lot[ord[o].lot].st # "none"

\* The book's count of an order is the table's, less the fill that is on its way.
OnItsWay(o) == IF poll.fill.at = "book" /\ poll.fill.o = o THEN poll.fill.n ELSE 0
MetaOK == \A o \in DOMAIN meta : ~ord[o].adopted \/ o \in relock =>
            meta[o] + OnItsWay(o) = ord[o].filled

\* What the main task knows where it stands.
Waits(m)  == m.at \in {"refresh", "polling"}
MainFine(m) ==
  /\ m.lots \subseteq Tracked /\ (m.lot # 0 => m.lot \in Tracked)
  /\ m.lot = 0 => \/ m.at \in {"idle", "bar", "sweep", "lots"}
                 \/ (Waits(m) /\ m.then \in {"up", "lots"})
  /\ Waits(m) => m.then # "none"
  /\ m.side = "SELL" \/ m.at \in {"entry", "send"} => m.qty > 0
  /\ m.at = "entry" => m.side = "BUY"
  /\ m.at = "lock" \/ (Waits(m) /\ m.then \in {"lock", "send"}) => m.side = "SELL"
  /\ m.at = "send" \/ (Waits(m) /\ m.then = "send") => Vacant(<<m.lot, m.side>>)
  /\ m.at = "send" /\ m.side = "BUY" => Unused = {}
  /\ m.at = "ack" => m.order \in Orders /\ ord[m.order].st = "PENDING_NEW"
  /\ m.at \in {"cancelling", "cancelled"} =>
       /\ m.order \in Orders /\ ord[m.order].st \notin {"none", "PENDING_NEW", "UNKNOWN"}
       /\ \A o \in Orders \ {m.order} : KeyOf(o) = <<m.lot, m.side>> => ~Covered(o)
  /\ m.at = "cancelled" => brk[m.order].at = "gone"
MainOK == MainFine(main) /\ (poll.by = "main" => main.at = "polling")

\* A poll and the fill it is about to book.
PollOK == /\ \A e \in poll.recs : e.qty <= brk[e.o].exec
          /\ poll.fill.at # "none" =>
               /\ poll.by # "none" /\ poll.fill.o \in Orders /\ poll.fill.n > 0
               /\ (poll.fill.at = "retire" => poll.fill.old \in Tracked)
               /\ ord[poll.fill.o].no /\ poll.fill.n <= ord[poll.fill.o].filled

\* A fill applied to a lot, in its row or in memory.
After(r, side, n) ==
  IF side = "BUY"
  THEN [qty |-> r.qty + n, st |-> IF r.st \in {"WATCHING", "CLOSED"} THEN "HOLDING" ELSE r.st]
  ELSE IF r.qty > n THEN [r EXCEPT !.qty = @ - n] ELSE [qty |-> 0, st |-> "CLOSED"]

\* The row is ahead of the book by the fill that is being booked; the book by the
\* retirement that is not yet recorded.
Sound(r)    == r.st \in {"none", "WATCHING", "CLOSED"} => r.qty = 0
Booking(l)  == poll.fill.at = "book" /\ ord[poll.fill.o].lot = l
Retiring(l) == poll.fill.at = "retire" /\ poll.fill.old = l
InMemory(l) ==
  IF Booking(l) THEN row[l] = After(lot[l], ord[poll.fill.o].side, poll.fill.n)
  ELSE IF Retiring(l) THEN /\ lot[l] = [st |-> "CANCELLED", qty |-> 0]
                           /\ row[l] = [st |-> "WATCHING", qty |-> 0]
  ELSE lot[l] = row[l]
OnlyInRow(l) == IF Booking(l) THEN row[l].st # "WATCHING" /\ (row[l].st = "HOLDING" => row[l].qty > 0)
                ELSE row[l].st \notin {"WATCHING", "HOLDING"}
BookOK == /\ \A l \in Lots : Sound(row[l]) /\ Sound(lot[l])
          /\ Up => \A l \in Lots : /\ lot[l].st # "none" => InMemory(l)
                                   /\ lot[l].st = "none" => OnlyInRow(l)

IInv == TypeInv /\ DownOK /\ OrdersOK /\ LatestOK /\ LocksOK /\ RelockOK /\ OwnedOK /\ MetaOK
          /\ MainOK /\ PollOK /\ BookOK

-----------------------------------------------------------------------------
(* The operators.                                                          *)

\* Min and Max of sets of numbers.
LEMMA Least ==
  ASSUME NEW S \in SUBSET Nat, S # {}
  PROVE  Min(S) \in S /\ \A y \in S : Min(S) <= y
<1> DEFINE Less == {ss \in Nat \X Nat : ss[1] < ss[2]}
<1>1. IsWellFoundedOn(Less, Nat)
  BY NatLessThanWellFounded DEF OpToRel
<1>2. \A x, y \in Nat : x < y => <<x, y>> \in Less
  OBVIOUS
<1> HIDE DEF Less
<1>3. PICK x \in S : \A y \in S : <<y, x>> \notin Less
  BY <1>1, WFMin
<1>4. ASSUME NEW y \in S PROVE x <= y
  <2>1. x \in Nat /\ y \in Nat /\ ~(y < x)
    BY <1>2, <1>3
  <2>2. QED
    BY <2>1
<1>5. QED
  BY <1>4 DEF Min

LEMMA Greatest ==
  ASSUME NEW n \in Nat, NEW S \in SUBSET (0 .. n), S # {}
  PROVE  Max(S) \in S /\ \A y \in S : y <= Max(S)
<1> DEFINE T == {n - x : x \in S}
<1>1. T \in SUBSET Nat
  <2>1. \A x \in S : n - x \in Nat
    OBVIOUS
  <2>2. QED
    BY <2>1
<1>2. T # {}
  OBVIOUS
<1>3. Min(T) \in T /\ \A y \in T : Min(T) <= y
  BY <1>1, <1>2, Least
<1>4. PICK x \in S : Min(T) = n - x
  BY <1>3
<1>5. ASSUME NEW y \in S PROVE y <= x
  <2>1. n - y \in T /\ y \in Int /\ x \in Int
    OBVIOUS
  <2>2. n - x <= n - y
    BY <1>3, <1>4, <2>1
  <2>3. QED
    BY <2>1, <2>2
<1>6. QED
  BY <1>5 DEF Max

\* The book's counts without an order.
LEMMA WithoutIs ==
  ASSUME NEW f, NEW o
  PROVE  /\ DOMAIN Without(f, o) = DOMAIN f \ {o}
         /\ \A x \in DOMAIN f \ {o} : Without(f, o)[x] = f[x]
BY DEF Without, Restrict

\* The first free order number: everything before it is used, nothing after it.
LEMMA FirstUnused ==
  ASSUME LotAssumption, TypeInv, OrdersOK, Unused # {}
  PROVE  /\ Min(Unused) \in Orders /\ ~Used(Min(Unused))
         /\ \A p \in Orders : Used(p) <=> p < Min(Unused)
<1>1. Unused \in SUBSET Nat /\ Unused \subseteq Orders /\ Orders \subseteq Nat
  BY DEF Unused, Orders, LotAssumption
<1>2. Min(Unused) \in Unused /\ \A y \in Unused : Min(Unused) <= y
  BY <1>1, Least
<1>3. PICK u \in Unused : u = Min(Unused)
  BY <1>2
<1>4. u \in Orders /\ ~Used(u) /\ u \in Nat
  BY <1>1, <1>3 DEF Unused, Used
<1>5. ASSUME NEW p \in Orders PROVE Used(p) <=> p < u
  <2>1. p \in Nat
    BY <1>1
  <2>2. CASE Used(p)
    <3>1. p # u /\ ~(u < p)
      BY <1>4, <2>2 DEF OrdersOK
    <3>2. QED
      BY <1>4, <2>1, <2>2, <3>1
  <2>3. CASE ~Used(p)
    <3>1. p \in Unused /\ u <= p
      BY <1>2, <1>3, <2>3 DEF Unused, Used
    <3>2. QED
      BY <1>4, <2>1, <2>3, <3>1
  <2>4. QED
    BY <2>2, <2>3
<1>6. QED
  BY <1>3, <1>4, <1>5

-----------------------------------------------------------------------------
(* What the invariant says of locks and lots.                              *)

\* An order with a right to its lock is open.
LEMMA CoveredIsOpen ==
  ASSUME TypeInv, OrdersOK, NEW o \in Orders, Covered(o)
  PROVE  ord[o].st \in Open /\ Used(o)
<1>1. OrderOK(o) /\ ord[o].st \in Open \cup Final \cup {"none"}
  BY DEF OrdersOK, TypeInv, OrderRows
<1>2. QED
  BY <1>1 DEF Covered, OrderOK, Working, Used, Open, Final

\* A lock that is free, or left by a finished order, is nobody's.
LEMMA FreeIsVacant ==
  ASSUME TypeInv, OrdersOK, LocksOK, Up, NEW k \in Keys, LockFree(k)
  PROVE  Vacant(k)
<1>1. SUFFICES ASSUME NEW o \in Orders, KeyOf(o) = k, Covered(o) PROVE FALSE
  BY DEF Vacant
<1>2. pending[k] = o /\ ord[o].st \in Open
  BY <1>1, CoveredIsOpen DEF LocksOK
<1>3. o # 0 /\ Open \cap Final = {}
  BY DEF Orders, Open, Final, LotAssumption
<1>4. QED
  BY <1>2, <1>3 DEF LockFree, Releasable

\* A lot in memory has a row.
LEMMA TrackedHasRow ==
  ASSUME TypeInv, BookOK, Up, NEW l \in Tracked
  PROVE  l \in Lots /\ row[l].st # "none"
<1>1. l \in Lots /\ lot[l].st # "none" /\ InMemory(l) /\ lot[l] \in LotRows
  BY DEF Tracked, BookOK, TypeInv
<1>2. QED
  BY <1>1 DEF InMemory, After, LotRows

-----------------------------------------------------------------------------
(* Steps that leave something alone.                                       *)

\* The orders keep their places, and none gets a right to a lock.
Calm == \A o \in Orders : /\ ord'[o].lot = ord[o].lot /\ ord'[o].side = ord[o].side
                          /\ (Used(o)' <=> Used(o)) /\ (Covered(o)' => Covered(o))

\* A calm step leaves locks vacant and orders unused as they were.
LEMMA CalmKeeps ==
  ASSUME LotAssumption, Calm
  PROVE  /\ \A k : Vacant(k) => Vacant(k)'
         /\ LatestOK => LatestOK'
         /\ LocksOK /\ (Up' => Up) /\ UNCHANGED pending => LocksOK'
         /\ Unused = {} => Unused' = {}
<1>1. \A o \in Orders : KeyOf(o)' = KeyOf(o)
  BY DEF Calm, KeyOf
<1>2. \A k : Vacant(k) => Vacant(k)'
  BY <1>1 DEF Vacant, Calm
<1>3. LatestOK => LatestOK'
  BY <1>1 DEF LatestOK, Calm
<1>4. LocksOK /\ (Up' => Up) /\ UNCHANGED pending => LocksOK'
  BY <1>1 DEF LocksOK, Calm
<1>5. Unused = {} => Unused' = {}
  BY DEF Unused, Calm, Used
<1>6. QED
  BY <1>2, <1>3, <1>4, <1>5

\* What the main task knows stays true when others move.
LEMMA MainKeeps ==
  ASSUME LotAssumption, NEW m \in Mains, MainFine(m), Calm, Tracked \subseteq Tracked',
         m.at = "ack" => ord'[m.order].st = ord[m.order].st,
         m.at \in {"cancelling", "cancelled"} =>
           ord'[m.order].st \notin {"none", "PENDING_NEW", "UNKNOWN"},
         m.at = "cancelled" => brk'[m.order].at = "gone"
  PROVE  MainFine(m)'
<1>1. \A o \in Orders : KeyOf(o)' = KeyOf(o)
  BY DEF Calm, KeyOf
<1>2. /\ m.lots \subseteq Tracked' /\ (m.lot # 0 => m.lot \in Tracked')
      /\ (m.at = "send" \/ (Waits(m) /\ m.then = "send") => Vacant(<<m.lot, m.side>>)')
      /\ (m.at = "send" /\ m.side = "BUY" => Unused' = {})
  BY CalmKeeps DEF MainFine
<1>3. m.at \in {"cancelling", "cancelled"} =>
        \A o \in Orders \ {m.order} : KeyOf(o)' = <<m.lot, m.side>> => ~Covered(o)'
  BY <1>1 DEF MainFine, Calm
<1>4. QED
  BY <1>2, <1>3 DEF MainFine, Waits

\* A step that only moves the main task.
LEMMA MainMoves ==
  ASSUME LotAssumption, IInv, NEW m \in Mains, MainFine(m), main' = m, Up, Up',
         poll.by # "main" \/ m.at = "polling", UNCHANGED <<table, brk, book, poll, relock>>,
         stopped' \in BOOLEAN, flatReq' \in BOOLEAN, crashes' \in Nat,
         phase' \in {"down", "hydrating", "up", "done"}
  PROVE  IInv'
<1>1. /\ UNCHANGED <<ord, row, brk, lot, slot, pending, meta, barrier, poll, relock>>
      /\ TypeInv /\ OrdersOK /\ LatestOK /\ LocksOK /\ RelockOK /\ OwnedOK /\ MetaOK /\ PollOK
      /\ BookOK
  BY DEF table, book, IInv
<1>2. TypeInv' /\ DownOK'
  BY <1>1 DEF TypeInv, DownOK
<1>3. Calm
  BY <1>1 DEF Calm, Used, Covered, Working
<1>4. LatestOK' /\ LocksOK'
  BY <1>1, <1>3, CalmKeeps
<1>5. OrdersOK'
  BY <1>1 DEF OrdersOK, OrderOK, Used, Working
<1>6. RelockOK' /\ OwnedOK'
  BY <1>1 DEF RelockOK, OwnedOK, Used
<1>7. MetaOK'
  BY <1>1 DEF MetaOK, OnItsWay
<1>8. PollOK'
  BY <1>1 DEF PollOK, Tracked
<1>9. BookOK'
  BY <1>1 DEF BookOK, InMemory, OnlyInRow, Booking, Retiring, Sound
<1>10. MainFine(m)'
  BY <1>1, <1>3, MainKeeps DEF MainFine, Tracked
<1>11. MainOK'
  BY <1>1, <1>10 DEF MainOK
<1>12. QED
  BY <1>2, <1>4, <1>5, <1>6, <1>7, <1>8, <1>9, <1>11 DEF IInv

\* The places where the main task knows nothing.
LEMMA IdleIsFine == Idle \in Mains /\ MainFine(Idle)
BY DEF Idle, Mains, Stages, MainFine, Sides, Waits

\* _submit, once the lock is free: a new order takes it.
LEMMA SendStep ==
  ASSUME LotAssumption, IInv, Up, NEW m \in Mains, Send(m), poll.by # "main",
         m.lot \in Tracked, m.lots \subseteq Tracked, m.qty > 0, Vacant(<<m.lot, m.side>>)
  PROVE  IInv'
<1>0. /\ TypeInv /\ OrdersOK /\ LatestOK /\ LocksOK /\ RelockOK /\ OwnedOK /\ MetaOK /\ PollOK
      /\ BookOK /\ main \in Mains /\ 0 \notin Orders /\ Orders \subseteq Nat
      /\ m.lot \in Lots /\ m.lot # 0 /\ m.side \in Sides /\ <<m.lot, m.side>> \in Keys
      /\ ord \in [Orders -> OrderRows] /\ brk \in [Orders -> BrkRows]
  BY DEF IInv, TypeInv, LotAssumption, Orders, Lots, Tracked, Mains, Keys
<1>1. CASE Unused = {}
  <2>1. PICK n : n = [m EXCEPT !.at = "send"]
    OBVIOUS
  <2>2. /\ n \in Mains /\ n.at = "send" /\ n.lot = m.lot /\ n.lots = m.lots /\ n.qty = m.qty
        /\ n.side = m.side
    BY <2>1 DEF Mains, Stages
  <2>3. MainFine(n)
    BY <1>0, <1>1, <2>2 DEF MainFine, Waits
  <2>4. main' = n /\ UNCHANGED <<table, brk, book, poll, relock, stopped, flatReq, crashes, phase>>
    BY <1>1, <2>1 DEF Send, control
  <2>5. stopped \in BOOLEAN /\ flatReq \in BOOLEAN /\ crashes \in Nat
        /\ phase \in {"down", "hydrating", "up", "done"} /\ phase' = phase
    BY <1>0, <2>4 DEF TypeInv
  <2>6. QED
    BY <2>2, <2>3, <2>4, <2>5, MainMoves DEF Up
<1>2. CASE Unused # {}
  <2>1. PICK o : o = Min(Unused)
    OBVIOUS
  <2>2. PICK k : k = <<m.lot, m.side>>
    OBVIOUS
  <2>3. PICK n : n = [m EXCEPT !.at = "ack", !.order = o]
    OBVIOUS
  <2>4. PICK r : r = [NoOrder EXCEPT !.st = "PENDING_NEW", !.lot = m.lot, !.side = m.side, !.qty = m.qty]
    OBVIOUS
  <2>5. /\ ord' = [ord EXCEPT ![o] = r] /\ brk' = [brk EXCEPT ![o].at = "flight"]
        /\ pending' = [pending EXCEPT ![k] = o]
        /\ meta' = With(Without(meta, pending[k]), o, 0) /\ main' = n
        /\ UNCHANGED <<row, lot, slot, barrier, stopped, flatReq, phase, crashes, poll, relock>>
    BY <1>2, <2>1, <2>2, <2>3, <2>4, Zenon DEF Send, control
  <2>6. o \in Orders /\ ~Used(o) /\ \A p \in Orders : Used(p) <=> p < o
    BY <1>0, <1>2, <2>1, FirstUnused
  <2>7. /\ r \in OrderRows /\ r.st = "PENDING_NEW" /\ r.lot = m.lot /\ r.side = m.side
        /\ r.qty = m.qty /\ r.filled = 0 /\ ~r.no /\ ~r.adopted
    <3>1. m.qty \in Nat
      BY DEF Mains
    <3>2. QED
      BY <1>0, <2>4, <3>1 DEF NoOrder, OrderRows, Open
  <2>8. /\ n \in Mains /\ n.at = "ack" /\ n.order = o /\ n.lot = m.lot /\ n.lots = m.lots
        /\ n.qty = m.qty /\ n.side = m.side
    BY <2>3, <2>6 DEF Mains, Stages
  <2>9. /\ ord'[o] = r /\ \A p \in Orders \ {o} : ord'[p] = ord[p]
        /\ ord' \in [Orders -> OrderRows] /\ brk' \in [Orders -> BrkRows]
        /\ brk'[o].at = "flight" /\ brk'[o].exec = brk[o].exec
        /\ \A p \in Orders \ {o} : brk'[p] = brk[p]
    BY <1>0, <2>5, <2>6, <2>7 DEF BrkRows
  <2>10. /\ KeyOf(o)' = k /\ \A p \in Orders \ {o} : KeyOf(p)' = KeyOf(p)
         /\ \A p \in Orders \ {o} : (Covered(p)' <=> Covered(p)) /\ (Used(p)' <=> Used(p))
    BY <2>2, <2>5, <2>7, <2>9 DEF KeyOf, Covered, Used, Working
  <2>11. /\ pending' \in [Keys -> Orders \cup {0}] /\ pending'[k] = o
         /\ \A j \in Keys \ {k} : pending'[j] = pending[j]
    BY <1>0, <2>2, <2>5, <2>6 DEF TypeInv
  <2>12. /\ DOMAIN meta' = (DOMAIN meta \ {pending[k]}) \cup {o} /\ meta'[o] = 0
         /\ \A p \in DOMAIN meta' \ {o} : p \in DOMAIN meta /\ meta'[p] = meta[p]
    <3>1. PICK f : f = Without(meta, pending[k])
      OBVIOUS
    <3>2. /\ DOMAIN f = DOMAIN meta \ {pending[k]}
          /\ \A x \in DOMAIN meta \ {pending[k]} : f[x] = meta[x]
      BY <3>1, WithoutIs, Zenon
    <3>3. meta' = With(f, o, 0)
      BY <2>5, <3>1, Zenon
    <3>4. /\ DOMAIN meta' = DOMAIN f \cup {o} /\ meta'[o] = 0
          /\ \A x \in DOMAIN f \ {o} : meta'[x] = f[x]
      BY <3>3 DEF With
    <3>5. QED
      BY <3>2, <3>4
  <2>13. TypeInv'
    <3>1. DOMAIN meta' \subseteq Orders /\ \A p \in DOMAIN meta' : meta'[p] \in Nat
      BY <1>0, <2>6, <2>12 DEF TypeInv
    <3>2. QED
      BY <1>0, <2>5, <2>8, <2>9, <2>11, <3>1 DEF TypeInv
  <2>14. DownOK' /\ Up'
    BY <2>5 DEF DownOK, Up
  <2>15. OrdersOK'
    <3>1. OrderOK(o)'
      <4>1. brk[o].exec = 0 /\ row[m.lot].st # "none" /\ m.qty \in Nat
        BY <1>0, <2>6, TrackedHasRow DEF OrdersOK, OrderOK, Mains
      <4>2. QED
        BY <2>5, <2>7, <2>9, <4>1 DEF OrderOK, Used, Working, Final
    <3>2. ASSUME NEW p \in Orders \ {o} PROVE OrderOK(p)'
      BY <1>0, <2>5, <2>9 DEF OrderOK, OrdersOK, Used, Working
    <3>3. ASSUME NEW p \in Orders, NEW q \in Orders, p < q, Used(q)' PROVE Used(p)'
      <4>1. q = o \/ Used(q)
        BY <2>10, <3>3
      <4>2. q <= o
        BY <1>0, <2>6, <4>1
      <4>3. p < o /\ p # o
        BY <1>0, <2>6, <3>3, <4>2
      <4>4. QED
        BY <2>6, <2>10, <4>3
    <3>4. QED
      BY <3>1, <3>2, <3>3 DEF OrdersOK
  <2>16. LatestOK'
    <3>1. SUFFICES ASSUME NEW p \in Orders, NEW q \in Orders, p < q, Used(q)', KeyOf(p)' = KeyOf(q)'
                   PROVE  ~Covered(p)'
      BY DEF LatestOK
    <3>2. p # o
      BY <1>0, <2>6, <2>10, <3>1
    <3>3. CASE q = o
      BY <2>2, <2>10, <3>1, <3>2, <3>3 DEF Vacant
    <3>4. CASE q # o
      BY <1>0, <2>10, <3>1, <3>2, <3>4 DEF LatestOK
    <3>5. QED
      BY <3>3, <3>4
  <2>17. LocksOK'
    <3>1. ASSUME NEW p \in Orders \ {o}, Covered(p)' PROVE pending'[KeyOf(p)'] = p
      <4>1. Covered(p) /\ KeyOf(p) # k /\ KeyOf(p) \in Keys /\ pending[KeyOf(p)] = p
        BY <1>0, <2>2, <2>10, <3>1 DEF Vacant, LocksOK, KeyOf, Keys, OrderRows
      <4>2. QED
        BY <2>10, <2>11, <4>1
    <3>2. QED
      BY <2>10, <2>11, <3>1 DEF LocksOK
  <2>18. RelockOK'
    BY <1>0, <2>5, <2>6, <2>9, <2>10 DEF RelockOK, TypeInv
  <2>19. OwnedOK'
    <3>1. lot' = lot /\ Up /\ lot[m.lot].st # "none"
      BY <2>5 DEF Tracked
    <3>2. ASSUME NEW p \in Orders, p # o, ord'[p].st \in Open \/ p \in DOMAIN meta'
          PROVE  lot'[ord'[p].lot].st # "none"
      BY <1>0, <2>9, <2>12, <3>1, <3>2 DEF OwnedOK
    <3>3. QED
      BY <2>7, <2>9, <3>1, <3>2 DEF OwnedOK
  <2>20. ~(poll.fill.at = "book" /\ poll.fill.o = o)
    BY <1>0, <2>6 DEF PollOK, OrdersOK, OrderOK, Used, Open, Final
  <2>21. MetaOK'
    <3>1. meta'[o] + OnItsWay(o)' = ord'[o].filled
      BY <2>5, <2>7, <2>9, <2>12, <2>20 DEF OnItsWay
    <3>2. ASSUME NEW p \in DOMAIN meta', p # o, ~ord'[p].adopted \/ p \in relock'
          PROVE  meta'[p] + OnItsWay(p)' = ord'[p].filled
      <4>1. p \in Orders \ {o} /\ p \in DOMAIN meta /\ meta'[p] = meta[p] /\ ord'[p] = ord[p]
            /\ relock' = relock /\ poll' = poll
        BY <2>5, <2>9, <2>12, <2>13, <3>2 DEF TypeInv
      <4>2. QED
        BY <1>0, <3>2, <4>1 DEF MetaOK, OnItsWay
    <3>3. QED
      BY <3>1, <3>2 DEF MetaOK
  <2>22. MainOK'
    <3>1. m.lot \in Tracked' /\ m.lots \subseteq Tracked'
      BY <2>5 DEF Tracked
    <3>2. MainFine(n)'
      BY <1>0, <2>6, <2>7, <2>8, <2>9, <3>1 DEF MainFine, Waits
    <3>3. QED
      BY <2>5, <3>2 DEF MainOK
  <2>23. PollOK'
    BY <1>0, <2>5, <2>6, <2>9 DEF PollOK, OrdersOK, OrderOK, Used, Open, Final, TypeInv, Polls, Tracked
  <2>24. BookOK'
    <3>1. \A l \in Lots : (Booking(l)' <=> Booking(l)) /\ (Retiring(l)' <=> Retiring(l))
      BY <1>0, <2>5, <2>9, <2>20 DEF Booking, Retiring, PollOK
    <3>2. poll.fill.at = "book" => ord'[poll.fill.o] = ord[poll.fill.o]
      BY <1>0, <2>9, <2>20 DEF PollOK
    <3>3. QED
      BY <1>0, <2>5, <2>14, <3>1, <3>2 DEF BookOK, InMemory, OnlyInRow, Booking
  <2>25. QED
    BY <2>13, <2>14, <2>15, <2>16, <2>17, <2>18, <2>19, <2>21, <2>22, <2>23, <2>24 DEF IInv
<1>3. QED
  BY <1>1, <1>2

\* The orders keep everything but their state and number; none becomes open.
Kept(o) == /\ ord'[o].lot = ord[o].lot /\ ord'[o].side = ord[o].side /\ ord'[o].qty = ord[o].qty
           /\ ord'[o].filled = ord[o].filled /\ ord'[o].adopted = ord[o].adopted
           /\ (ord[o].no => ord'[o].no) /\ (ord'[o].st \in Open => ord[o].st \in Open)

\* A step of the orders, of the broker, and of locks nobody has a right to.
LEMMA OrdersMove ==
  ASSUME LotAssumption, IInv, Up' <=> Up, Calm, \A o \in Orders : Kept(o) /\ OrderOK(o)',
         ord' \in [Orders -> OrderRows], brk' \in [Orders -> BrkRows],
         \A o \in Orders : brk[o].exec <= brk'[o].exec,
         UNCHANGED <<row, lot, slot, poll, relock>>,
         pending' \in [Keys -> Orders \cup {0}],
         \A o \in Orders : Covered(o)' => pending'[KeyOf(o)] = pending[KeyOf(o)],
         DOMAIN meta' \subseteq DOMAIN meta, \A o \in DOMAIN meta' : meta'[o] = meta[o],
         barrier' \in [sell : SUBSET Lots, buy : SUBSET Lots, start : BOOLEAN],
         stopped' \in BOOLEAN, flatReq' \in BOOLEAN, crashes' \in Nat,
         phase' \in {"down", "hydrating", "up", "done"},
         NEW m \in Mains, main' = m, MainFine(m)', ~Up => m = Idle,
         poll.by = "main" => m.at = "polling"
  PROVE  IInv'
<1>0. /\ TypeInv /\ OrdersOK /\ LatestOK /\ LocksOK /\ RelockOK /\ OwnedOK /\ MetaOK /\ PollOK
      /\ BookOK /\ DownOK /\ brk \in [Orders -> BrkRows] /\ poll \in Polls
  BY DEF IInv, TypeInv
<1>1. TypeInv'
  <2>1. DOMAIN meta' \subseteq Orders /\ \A o \in DOMAIN meta' : meta'[o] \in Nat
    BY <1>0 DEF TypeInv
  <2>2. QED
    BY <1>0, <2>1 DEF TypeInv
<1>2. DownOK'
  BY <1>0 DEF DownOK
<1>3. OrdersOK'
  BY <1>0 DEF OrdersOK, Calm
<1>4. LatestOK'
  BY <1>0, CalmKeeps
<1>5. LocksOK'
  BY <1>0 DEF LocksOK, Calm, KeyOf
<1>6. RelockOK'
  BY <1>0 DEF RelockOK, Kept, Calm, TypeInv
<1>7. OwnedOK'
  BY <1>0 DEF OwnedOK, Kept
<1>8. MetaOK'
  <2>1. SUFFICES ASSUME NEW o \in DOMAIN meta', ~ord'[o].adopted \/ o \in relock'
                 PROVE  meta'[o] + OnItsWay(o)' = ord'[o].filled
    BY DEF MetaOK
  <2>2. /\ o \in DOMAIN meta /\ o \in Orders /\ meta'[o] = meta[o]
        /\ ord'[o].filled = ord[o].filled /\ ord'[o].adopted = ord[o].adopted
    BY <1>0, <2>1 DEF Kept, TypeInv
  <2>3. QED
    BY <1>0, <2>1, <2>2 DEF MetaOK, OnItsWay
<1>9. PollOK'
  <2>1. \A e \in poll.recs : e.qty <= brk'[e.o].exec
    <3>1. SUFFICES ASSUME NEW e \in poll.recs PROVE e.qty <= brk'[e.o].exec
      OBVIOUS
    <3>2. /\ e.o \in Orders /\ e.qty \in Nat /\ brk[e.o].exec \in Nat /\ brk'[e.o].exec \in Nat
          /\ e.qty <= brk[e.o].exec /\ brk[e.o].exec <= brk'[e.o].exec
      BY <1>0 DEF Polls, PollOK, BrkRows
    <3>3. QED
      BY <3>2
  <2>2. QED
    BY <1>0, <2>1 DEF PollOK, Kept, Tracked
<1>10. MainOK'
  BY DEF MainOK
<1>11. BookOK'
  <2>1. \A l \in Lots : (Booking(l)' <=> Booking(l)) /\ (Retiring(l)' <=> Retiring(l))
    BY <1>0 DEF Booking, Retiring, PollOK, Kept
  <2>2. poll.fill.at = "book" => ord'[poll.fill.o].side = ord[poll.fill.o].side
    BY <1>0 DEF PollOK, Kept
  <2>3. QED
    BY <1>0, <2>1, <2>2 DEF BookOK, InMemory, OnlyInRow, Booking
<1>12. QED
  BY <1>1, <1>2, <1>3, <1>4, <1>5, <1>6, <1>7, <1>8, <1>9, <1>10, <1>11 DEF IInv

\* A step of one order's state and number.
LEMMA OneOrder ==
  ASSUME LotAssumption, IInv, NEW o \in Orders, NEW r \in OrderRows, Used(o),
         ord' = [ord EXCEPT ![o] = r], UNCHANGED <<brk, row, relock>>,
         r.lot = ord[o].lot, r.side = ord[o].side, r.qty = ord[o].qty,
         r.filled = ord[o].filled, r.adopted = ord[o].adopted, ord[o].no => r.no,
         r.st # "none", r.st \in Open => ord[o].st \in Open,
         r.st \in {"PENDING_NEW", "UNKNOWN"} => ord[o].st \in {"PENDING_NEW", "UNKNOWN"},
         r.no => r.st \notin {"PENDING_NEW", "UNKNOWN", "REJECTED"},
         r.st \in Final => ~Working(o), r.st = "FILLED" => ord[o].st = "FILLED"
  PROVE  /\ ord' \in [Orders -> OrderRows] /\ Calm /\ \A p \in Orders : Kept(p) /\ OrderOK(p)'
         /\ ord'[o] = r /\ \A p \in Orders \ {o} : ord'[p] = ord[p]
<1>0. TypeInv /\ OrdersOK /\ ord \in [Orders -> OrderRows]
  BY DEF IInv, TypeInv
<1>1. ord' \in [Orders -> OrderRows] /\ ord'[o] = r /\ \A p \in Orders \ {o} : ord'[p] = ord[p]
  BY <1>0
<1>2. Kept(o) /\ OrderOK(o)'
  BY <1>0, <1>1 DEF Kept, OrdersOK, OrderOK, Used, Working, Open, Final, OrderRows
<1>3. ASSUME NEW p \in Orders \ {o} PROVE Kept(p) /\ OrderOK(p)'
  BY <1>0, <1>1 DEF Kept, OrdersOK, OrderOK, Used, Working
<1>4. Calm
  BY <1>0, <1>1 DEF Calm, Used, Covered, Working
<1>5. QED
  BY <1>1, <1>2, <1>3, <1>4

\* A main task that goes back to its place between two pieces of work.
Sane(m) == /\ m.lots \subseteq Tracked /\ (m.lot # 0 => m.lot \in Tracked)
           /\ (m.side = "SELL" => m.qty > 0)

\* Where the main task goes when a submit is over is a fine place.
LEMMA OverIsFine ==
  ASSUME NEW m \in Mains, Sane(m), Tracked \subseteq Tracked'
  PROVE  Over(m) \in Mains /\ Over(m).at \in {"idle", "lots"} /\ MainFine(Over(m)) /\ MainFine(Over(m))'
<1>1. PICK n : n = Over(m)
  OBVIOUS
<1>2. /\ n \in Mains /\ n.at \in {"idle", "lots"} /\ n.lots \subseteq m.lots
      /\ (n.side = "SELL" => n.qty > 0) /\ (n.lot # 0 => n.lot = m.lot)
  BY <1>1 DEF Over, Idle, Mains, Stages, Sides, Sane
<1>3. MainFine(n) /\ MainFine(n)'
  BY <1>2 DEF MainFine, Waits, Sane
<1>4. QED
  BY <1>1, <1>2, <1>3

\* A step of the main task alone.
LEMMA MainOnly ==
  ASSUME LotAssumption, IInv, Up, NEW m \in Mains, MainFine(m), main' = m,
         poll.by # "main" \/ m.at = "polling", UNCHANGED <<table, brk, book, control, poll, relock>>
  PROVE  IInv'
<1>1. TypeInv /\ UNCHANGED <<stopped, flatReq, phase, crashes>>
  BY DEF IInv, control
<1>2. /\ stopped' \in BOOLEAN /\ flatReq' \in BOOLEAN /\ crashes' \in Nat
      /\ phase' \in {"down", "hydrating", "up", "done"} /\ Up'
  BY <1>1 DEF TypeInv, Up
<1>3. QED
  BY <1>2, MainMoves

\* Orders that do not change.
LEMMA SameOrders ==
  ASSUME IInv, UNCHANGED <<ord, brk, row, relock>>
  PROVE  ord' \in [Orders -> OrderRows] /\ Calm /\ \A p \in Orders : Kept(p) /\ OrderOK(p)'
<1>1. TypeInv /\ OrdersOK
  BY DEF IInv
<1>2. QED
  BY <1>1 DEF TypeInv, Calm, Kept, OrdersOK, OrderOK, Used, Covered, Working

\* A lock goes that nobody has a right to.
LEMMA LockDrops ==
  ASSUME LotAssumption, IInv, Up, NEW k \in Keys, NEW x, Vacant(k)',
         ord' \in [Orders -> OrderRows], Calm, \A p \in Orders : Kept(p) /\ OrderOK(p)',
         UNCHANGED <<row, brk, lot, slot, stopped, flatReq, phase, crashes, poll, relock>>,
         pending' = [pending EXCEPT ![k] = 0], meta' = Without(meta, x),
         barrier' \in [sell : SUBSET Lots, buy : SUBSET Lots, start : BOOLEAN],
         NEW m \in Mains, main' = m, MainFine(m)', poll.by # "main"
  PROVE  IInv'
<1>0. TypeInv
  BY DEF IInv
<1>1. /\ pending' \in [Keys -> Orders \cup {0}]
      /\ \A j \in Keys \ {k} : pending'[j] = pending[j]
  BY <1>0 DEF TypeInv
<1>2. ASSUME NEW p \in Orders, Covered(p)' PROVE pending'[KeyOf(p)] = pending[KeyOf(p)]
  <2>1. KeyOf(p)' = KeyOf(p) /\ KeyOf(p) \in Keys
    BY <1>0 DEF Calm, KeyOf, TypeInv, Keys, OrderRows
  <2>2. KeyOf(p) # k
    BY <1>2, <2>1 DEF Vacant
  <2>3. QED
    BY <1>1, <2>1, <2>2
<1>3. DOMAIN meta' \subseteq DOMAIN meta /\ \A p \in DOMAIN meta' : meta'[p] = meta[p]
  <2>1. PICK f : f = Without(meta, x)
    OBVIOUS
  <2>2. DOMAIN f = DOMAIN meta \ {x} /\ \A p \in DOMAIN meta \ {x} : f[p] = meta[p]
    BY <2>1, WithoutIs, Zenon
  <2>3. meta' = f
    BY <2>1
  <2>4. QED
    BY <2>2, <2>3
<1>4. /\ stopped' \in BOOLEAN /\ flatReq' \in BOOLEAN /\ crashes' \in Nat
      /\ phase' \in {"down", "hydrating", "up", "done"} /\ brk' \in [Orders -> BrkRows]
      /\ \A p \in Orders : brk[p].exec \in Nat /\ brk'[p].exec = brk[p].exec
      /\ Up' <=> Up
  BY <1>0 DEF TypeInv, BrkRows, Up
<1>5. QED
  BY <1>1, <1>2, <1>3, <1>4, OrdersMove

\* The lock of a finished order goes.
LEMMA ReleaseStep ==
  ASSUME LotAssumption, IInv, Up, NEW k \in Keys, Releasable(k), Release(k),
         UNCHANGED <<table, brk, lot, slot, barrier, control, poll, relock>>,
         NEW m \in Mains, main' = m, MainFine(m), poll.by # "main"
  PROVE  IInv'
<1>1. /\ TypeInv /\ OrdersOK /\ LocksOK
      /\ UNCHANGED <<ord, row, brk, lot, slot, barrier, stopped, flatReq, phase, crashes, poll, relock>>
  BY DEF IInv, table, control
<1>2. Vacant(k)
  BY <1>1, FreeIsVacant DEF LockFree
<1>3. ord' \in [Orders -> OrderRows] /\ Calm /\ \A p \in Orders : Kept(p) /\ OrderOK(p)'
  BY <1>1, SameOrders
<1>4. Vacant(k)' /\ MainFine(m)'
  <2>1. Tracked' = Tracked
    BY <1>1 DEF Tracked
  <2>2. QED
    BY <1>1, <1>2, <1>3, <2>1, CalmKeeps, MainKeeps DEF MainFine
<1>5. PICK x : x = pending[k]
  OBVIOUS
<1>6. pending' = [pending EXCEPT ![k] = 0] /\ meta' = Without(meta, x)
  BY <1>5, Zenon DEF Release
<1>7. barrier' \in [sell : SUBSET Lots, buy : SUBSET Lots, start : BOOLEAN]
  BY <1>1 DEF TypeInv
<1>8. QED
  BY <1>1, <1>3, <1>4, <1>6, <1>7, LockDrops

-----------------------------------------------------------------------------
(* The steps.                                                              *)

\* The answers to a submit.
LEMMA AnswerStep == ASSUME LotAssumption, IInv, Ack \/ Refused \/ TimesOut PROVE IInv'
<1>0. /\ TypeInv /\ OrdersOK /\ DownOK /\ LocksOK /\ MainFine(main) /\ main \in Mains
      /\ poll.by # "main" /\ ord \in [Orders -> OrderRows] /\ main.at = "ack"
  BY DEF IInv, TypeInv, MainOK, Ack, Refused, TimesOut
<1>1. PICK o : o = main.order
  OBVIOUS
<1>2. /\ o \in Orders /\ ord[o].st = "PENDING_NEW" /\ OrderOK(o) /\ Used(o) /\ ~ord[o].no
      /\ Covered(o) /\ ord[o] \in OrderRows
  BY <1>0, <1>1 DEF MainFine, OrdersOK, OrderOK, Used, Covered, Open
<1>3. /\ UNCHANGED <<row, brk, lot, slot, barrier, stopped, flatReq, phase, crashes, poll, relock>>
      /\ Up /\ Up' /\ Tracked' = Tracked
  BY <1>0 DEF Ack, Refused, TimesOut, book, control, DownOK, Up, Idle, Tracked
<1>4. /\ stopped' \in BOOLEAN /\ flatReq' \in BOOLEAN /\ crashes' \in Nat
      /\ phase' \in {"down", "hydrating", "up", "done"} /\ brk' \in [Orders -> BrkRows]
      /\ barrier' \in [sell : SUBSET Lots, buy : SUBSET Lots, start : BOOLEAN]
      /\ \A p \in Orders : brk[p].exec \in Nat /\ brk'[p].exec = brk[p].exec
  BY <1>0, <1>3 DEF TypeInv, BrkRows
<1>5. PICK m : m = main'
  OBVIOUS
<1>6. m \in Mains /\ MainFine(m)'
  <2>1. m = Over(main) \/ m = Idle
    BY <1>5 DEF Ack, Refused, TimesOut
  <2>2. CASE m = Over(main)
    <3>1. Sane(main)
      BY <1>0 DEF MainFine, Sane
    <3> QED BY <1>0, <1>3, <2>2, <3>1, OverIsFine
  <2>3. CASE m = Idle
    BY <2>3, IdleIsFine DEF Idle, MainFine, Waits
  <2> QED BY <2>1, <2>2, <2>3
<1>7. CASE Ack \/ TimesOut
  <2>1. UNCHANGED <<pending, meta>>
    BY <1>7 DEF Ack, TimesOut, book
  <2>2. PICK r : r = IF Ack THEN [ord[o] EXCEPT !.no = TRUE, !.st = "NEW"]
                            ELSE [ord[o] EXCEPT !.st = "UNKNOWN"]
    OBVIOUS
  <2>3. r \in OrderRows /\ ord' = [ord EXCEPT ![o] = r]
    BY <1>0, <1>1, <1>2, <1>7, <2>2 DEF Ack, TimesOut, OrderRows, Open
  <2>4. /\ r.lot = ord[o].lot /\ r.side = ord[o].side /\ r.qty = ord[o].qty
        /\ r.filled = ord[o].filled /\ r.adopted = ord[o].adopted
        /\ r.st = "NEW" \/ (r.st = "UNKNOWN" /\ ~r.no)
    BY <1>2, <2>2 DEF OrderRows
  <2>5. /\ ord' \in [Orders -> OrderRows] /\ Calm /\ \A p \in Orders : Kept(p) /\ OrderOK(p)'
    BY <1>2, <1>3, <2>3, <2>4, OneOrder DEF Open, Final
  <2>6. pending' \in [Keys -> Orders \cup {0}]
    BY <1>0, <2>1 DEF TypeInv
  <2>7. QED
    BY <1>0, <1>3, <1>4, <1>5, <1>6, <2>1, <2>5, <2>6, OrdersMove
<1>8. CASE Refused
  <2>1. PICK k : k = KeyOf(o)
    OBVIOUS
  <2>2. k \in Keys /\ pending[k] = o
    BY <1>0, <1>2, <1>3, <2>1 DEF LocksOK, KeyOf, Keys, OrderRows
  <2>3. pending' = [pending EXCEPT ![k] = 0] /\ meta' = Without(meta, o)
    BY <1>1, <1>8, <2>1, Zenon DEF Refused
  <2>4. /\ pending' \in [Keys -> Orders \cup {0}]
        /\ \A j \in Keys \ {k} : pending'[j] = pending[j]
    BY <1>0, <2>2, <2>3 DEF TypeInv
  <2>5. PICK r : r = [ord[o] EXCEPT !.st = "REJECTED"]
    OBVIOUS
  <2>6. r \in OrderRows /\ ord' = [ord EXCEPT ![o] = r]
    BY <1>0, <1>1, <1>2, <1>8, <2>5 DEF Refused, OrderRows, Final
  <2>7. /\ r.lot = ord[o].lot /\ r.side = ord[o].side /\ r.qty = ord[o].qty /\ r.no = ord[o].no
        /\ r.filled = ord[o].filled /\ r.adopted = ord[o].adopted /\ r.st = "REJECTED"
    BY <1>2, <2>5 DEF OrderRows
  <2>8. /\ ord' \in [Orders -> OrderRows] /\ Calm /\ \A p \in Orders : Kept(p) /\ OrderOK(p)'
        /\ ord'[o] = r
    BY <1>1, <1>2, <1>3, <1>8, <2>6, <2>7, OneOrder DEF Open, Final, Working, Refused
  <2>9. ASSUME NEW p \in Orders, Covered(p)' PROVE pending'[KeyOf(p)] = pending[KeyOf(p)]
    <3>1. p # o
      BY <1>3, <2>7, <2>8, <2>9, <1>8, <1>1 DEF Covered, Working, Open, Refused
    <3>2. Covered(p) /\ KeyOf(p) \in Keys /\ pending[KeyOf(p)] = p
      BY <1>0, <1>3, <2>8, <2>9 DEF Calm, LocksOK, KeyOf, Keys, OrderRows
    <3>3. QED
      BY <2>2, <2>4, <3>1, <3>2
  <2>10. DOMAIN meta' \subseteq DOMAIN meta /\ \A p \in DOMAIN meta' : meta'[p] = meta[p]
    BY <2>3, WithoutIs, Zenon
  <2>11. QED
    BY <1>0, <1>3, <1>4, <1>5, <1>6, <2>4, <2>8, <2>9, <2>10, OrdersMove
<1>9. QED
  BY <1>7, <1>8

\* A sale at its lock.
LEMMA AtLockStep ==
  ASSUME LotAssumption, IInv, Up, NEW m \in Mains, AtLock(m), poll.by # "main",
         m.lot \in Tracked, Sane(m), m.side = "SELL"
  PROVE  IInv'
<1>0. TypeInv /\ OrdersOK /\ LocksOK /\ m.qty > 0 /\ m.lot # 0
  BY DEF IInv, Sane, Tracked, Lots, LotAssumption
<1>1. PICK k : k = <<m.lot, "SELL">>
  OBVIOUS
<1>2. k \in Keys
  BY <1>1 DEF Keys, Sides, Tracked
<1>3. CASE LockFree(k) /\ Send(m)
  <2>1. Vacant(<<m.lot, m.side>>)
    BY <1>0, <1>1, <1>2, <1>3, FreeIsVacant
  <2>2. QED
    BY <1>0, <1>3, <2>1, SendStep DEF Sane
<1>4. CASE /\ main' = IF m.job = "trim" THEN Over(m) ELSE [m EXCEPT !.at = "cancel"]
           /\ UNCHANGED <<table, brk, book, control, poll, relock>>
  <2>1. CASE m.job = "trim"
    BY <1>4, <2>1, OverIsFine, MainOnly DEF Tracked, book
  <2>2. CASE m.job # "trim"
    <3>1. PICK n : n = [m EXCEPT !.at = "cancel"]
      OBVIOUS
    <3>2. n \in Mains /\ n.at = "cancel" /\ n.lot = m.lot /\ n.lots = m.lots /\ n.qty = m.qty
      BY <3>1 DEF Mains, Stages
    <3>3. MainFine(n)
      BY <1>0, <3>2 DEF MainFine, Waits, Sane
    <3>4. QED
      BY <1>4, <2>2, <3>1, <3>2, <3>3, MainOnly
  <2>3. QED
    BY <2>1, <2>2
<1>5. QED
  BY <1>1, <1>3, <1>4 DEF AtLock

\* A sale from its start.
LEMMA SellStep ==
  ASSUME LotAssumption, IInv, Up, NEW m \in Mains, NEW q \in Nat, q > 0, Sell(m, q),
         poll.by # "main", m.lot \in Tracked, Sane(m)
  PROVE  IInv'
<1>1. PICK n : n = [m EXCEPT !.side = "SELL", !.qty = q]
  OBVIOUS
<1>2. n \in Mains /\ n.side = "SELL" /\ n.lot = m.lot /\ n.lots = m.lots /\ n.qty = q
  BY <1>1 DEF Mains, Sides
<1>3. Sane(n) /\ n.lot \in Tracked /\ n.lot # 0
  BY <1>2 DEF Sane, Tracked, Lots, LotAssumption
<1>4. CASE m.lot \in barrier.sell \/ barrier.start
  <2>1. PICK w : w = [n EXCEPT !.at = "refresh", !.then = "lock"]
    OBVIOUS
  <2>2. /\ w \in Mains /\ w.at = "refresh" /\ w.then = "lock" /\ w.lot = n.lot
        /\ w.lots = n.lots /\ w.qty = n.qty /\ w.side = n.side
    BY ZenonT(60), <1>2, <2>1 DEF Mains, Stages
  <2>3. MainFine(w)
    BY <1>2, <1>3, <2>2 DEF MainFine, Waits, Sane
  <2>4. main' = w /\ UNCHANGED <<table, brk, book, control, poll, relock>>
    BY <1>1, <1>4, <2>1 DEF Sell
  <2>5. QED
    BY <2>2, <2>3, <2>4, MainOnly
<1>5. CASE ~(m.lot \in barrier.sell \/ barrier.start)
  <2>1. AtLock(n)
    BY <1>1, <1>5, Zenon DEF Sell
  <2>2. QED
    BY <1>2, <1>3, <2>1, AtLockStep
<1>6. QED
  BY <1>4, <1>5

\* The sale of a holding, from its barrier or its lock.
LEMMA SellHoldingStep ==
  ASSUME LotAssumption, IInv, Up, NEW m \in Mains, SellHolding(m),
         poll.by # "main", m.lot \in Tracked, Sane(m)
  PROVE  IInv'
<1>1. m.lot \in Lots /\ lot[m.lot].qty \in Nat
  BY DEF IInv, TypeInv, LotRows, Tracked
<1>2. CASE lot[m.lot].qty > 0 /\ Sell(m, lot[m.lot].qty)
  BY <1>1, <1>2, SellStep
<1>3. CASE main' = Over(m) /\ UNCHANGED <<table, brk, book, control, poll, relock>>
  BY <1>3, OverIsFine, MainOnly DEF Tracked, book
<1>4. QED
  BY <1>2, <1>3 DEF SellHolding

\* The buy of a lot is out of the way, released, or to be cancelled first.
LEMMA CancelBuyStep ==
  ASSUME LotAssumption, IInv, Up, NEW m \in Mains, CancelBuyAndSell(m),
         poll.by # "main", m.lot \in Tracked, Sane(m)
  PROVE  IInv'
<1>1. PICK k : k = <<m.lot, "BUY">>
  OBVIOUS
<1>2. k \in Keys /\ m.lot # 0
  BY <1>1 DEF Keys, Sides, Tracked, Lots, LotAssumption
<1>3. CASE SellHolding(m)
  BY <1>3, SellHoldingStep
<1>4. CASE /\ Releasable(k) /\ Release(k) /\ main' = [m EXCEPT !.at = "sell"]
           /\ UNCHANGED <<table, brk, lot, slot, barrier, control, poll, relock>>
  <2>1. PICK n : n = [m EXCEPT !.at = "sell"]
    OBVIOUS
  <2>2. /\ n \in Mains /\ n.at = "sell" /\ n.lot = m.lot /\ n.lots = m.lots /\ n.qty = m.qty
        /\ n.side = m.side
    BY <2>1 DEF Mains, Stages
  <2>3. MainFine(n)
    BY <1>2, <2>2 DEF MainFine, Waits, Sane
  <2>4. QED
    BY <1>2, <1>4, <2>1, <2>2, <2>3, ReleaseStep
<1>5. CASE /\ main' = [m EXCEPT !.at = "cancel", !.side = "BUY"]
           /\ UNCHANGED <<table, brk, book, control, poll, relock>>
  <2>1. PICK n : n = [m EXCEPT !.at = "cancel", !.side = "BUY"]
    OBVIOUS
  <2>2. /\ n \in Mains /\ n.at = "cancel" /\ n.lot = m.lot /\ n.lots = m.lots /\ n.side = "BUY"
    BY <2>1 DEF Mains, Stages, Sides
  <2>3. MainFine(n)
    BY <1>2, <2>2 DEF MainFine, Waits, Sane
  <2>4. QED
    BY <1>5, <2>1, <2>2, <2>3, MainOnly
<1>6. QED
  BY <1>1, <1>3, <1>4, <1>5 DEF CancelBuyAndSell

\* The bar: its start and end, entries and exits.
LEMMA BarStep ==
  ASSUME LotAssumption, IInv,
         Bar \/ BarEnds \/ Exit \/ (\E q \in 1 .. MaxQty : Enter(q) \/ CutEntry(q) \/ Trim(q))
  PROVE  IInv'
<1>0. /\ TypeInv /\ OrdersOK /\ LocksOK /\ DownOK /\ MainOK
      /\ main \in Mains /\ main.at \in {"idle", "bar"} /\ poll.by # "main"
  BY DEF IInv, TypeInv, MainOK, Bar, BarEnds, Exit, Enter, CutEntry, Trim, MayEnter
<1>1. Up
  BY <1>0 DEF DownOK, Up, Bar, BarEnds, Exit, Enter, CutEntry, Trim, MayEnter, Idle
<1>2. CASE Bar
  <2>1. PICK n : n = [Idle EXCEPT !.at = "bar"]
    OBVIOUS
  <2>2. n \in Mains /\ MainFine(n)
    BY <2>1 DEF Idle, Mains, Stages, Sides, MainFine, Waits
  <2>3. QED
    BY <1>0, <1>1, <1>2, <2>1, <2>2, MainOnly DEF Bar
<1>3. CASE BarEnds
  BY <1>0, <1>1, <1>3, IdleIsFine, MainOnly DEF BarEnds
<1>4. CASE Exit
  <2>1. PICK m : m = [Idle EXCEPT !.job = "exit", !.lot = slot]
    OBVIOUS
  <2>2. slot \in Tracked
    BY <1>0, <1>4 DEF Exit, Tracked, TypeInv
  <2>3. m \in Mains /\ m.lot = slot /\ Sane(m)
    BY <2>1, <2>2 DEF Idle, Mains, Stages, Sides, Sane, Tracked
  <2>4. CancelBuyAndSell(m)
    BY <1>4, <2>1, Zenon DEF Exit
  <2>5. QED
    BY <1>0, <1>1, <2>2, <2>3, <2>4, CancelBuyStep
<1>5. ASSUME NEW q \in 1 .. MaxQty, Enter(q) \/ CutEntry(q) \/ Trim(q)
      PROVE  IInv'
  <2>0. /\ q \in Nat /\ q > 0 /\ slot \in Lots /\ slot # 0
        /\ lot[slot].st \in {"WATCHING", "HOLDING"} /\ slot \in Tracked
    BY <1>0, <1>5 DEF LotAssumption, Enter, CutEntry, Trim, MayEnter, TypeInv, Tracked
  <2>1. CASE Enter(q)
    <3>1. PICK m : m = Entry(q)
      OBVIOUS
    <3>2. m \in Mains /\ m.lot = slot /\ m.lots = {} /\ m.qty = q /\ m.side = "BUY"
      BY <2>0, <3>1 DEF Entry, Idle, Mains, Stages, Sides
    <3>3. <<slot, "BUY">> \in Keys /\ LockFree(<<slot, "BUY">>)
      BY <2>0, <2>1 DEF Keys, Sides, Enter, MayEnter
    <3>4. Vacant(<<m.lot, m.side>>)
      BY <1>0, <1>1, <3>2, <3>3, FreeIsVacant
    <3>5. Send(m)
      BY <2>1, <3>1, Zenon DEF Enter
    <3>6. QED
      BY <1>0, <1>1, <2>0, <3>2, <3>4, <3>5, SendStep
  <2>2. CASE CutEntry(q)
    <3>1. PICK m : m = [Entry(q) EXCEPT !.at = "entry"]
      OBVIOUS
    <3>2. m \in Mains /\ m.at = "entry" /\ m.lot = slot /\ m.lots = {} /\ m.qty = q /\ m.side = "BUY"
      BY <2>0, <3>1 DEF Entry, Idle, Mains, Stages, Sides
    <3>3. MainFine(m)
      BY <2>0, <3>2 DEF MainFine, Waits
    <3>4. QED
      BY <1>0, <1>1, <2>2, <3>1, <3>2, <3>3, MainOnly DEF CutEntry
  <2>3. CASE Trim(q)
    <3>1. PICK m : m = [Idle EXCEPT !.job = "trim", !.lot = slot]
      OBVIOUS
    <3>2. m \in Mains /\ m.lot = slot /\ Sane(m)
      BY <2>0, <3>1 DEF Idle, Mains, Stages, Sides, Sane
    <3>3. Sell(m, q)
      BY <2>3, <3>1, Zenon DEF Trim
    <3>4. QED
      BY <1>0, <1>1, <2>0, <3>2, <3>3, SellStep
  <2>4. QED
    BY <1>5, <2>1, <2>2, <2>3
<1>6. QED
  BY <1>2, <1>3, <1>4, <1>5

\* The main task goes on with an entry or a sale.
LEMMA ResumeStep ==
  ASSUME LotAssumption, IInv, ResumeSale \/ EnterCut
  PROVE  IInv'
<1>0. /\ TypeInv /\ OrdersOK /\ LocksOK /\ DownOK /\ MainFine(main) /\ main \in Mains
      /\ main.at \in {"sell", "lock", "send", "entry"} /\ poll.by # "main"
  BY DEF IInv, TypeInv, MainOK, ResumeSale, EnterCut
<1>1. Up /\ main.lot \in Tracked /\ main.lot \in Lots /\ main.lot # 0 /\ Sane(main)
  BY <1>0 DEF DownOK, Idle, MainFine, Waits, Sane, Tracked
<1>2. CASE main.at = "sell" /\ SellHolding(main)
  BY <1>0, <1>1, <1>2, SellHoldingStep
<1>3. CASE main.at = "lock" /\ AtLock(main)
  BY <1>0, <1>1, <1>3, AtLockStep DEF MainFine
<1>4. CASE main.at = "send" /\ Send(main)
  BY <1>0, <1>1, <1>4, SendStep DEF MainFine, Sane
<1>5. CASE EnterCut
  <2>1. CASE main' = Idle /\ UNCHANGED <<table, brk, book, control, poll, relock>>
    BY <1>0, <1>1, <2>1, IdleIsFine, MainOnly
  <2>2. CASE LockFree(<<main.lot, "BUY">>) /\ Send(main)
    <3>1. CASE main.side = "BUY"
      <4>1. <<main.lot, main.side>> \in Keys
        BY <1>1, <3>1 DEF Keys, Sides
      <4>2. Vacant(<<main.lot, main.side>>)
        BY <1>0, <1>1, <2>2, <3>1, <4>1, FreeIsVacant
      <4>3. main.qty > 0 /\ main.lots \subseteq Tracked
        BY <1>0, <1>5 DEF MainFine, EnterCut
      <4>4. QED
        BY <1>0, <1>1, <2>2, <4>2, <4>3, SendStep
    <3>2. QED
      BY <1>0, <1>5, <3>1 DEF MainFine, EnterCut
  <2>3. QED
    BY <1>5, <2>1, <2>2 DEF EnterCut
<1>6. QED
  BY <1>2, <1>3, <1>4, <1>5 DEF ResumeSale

\* A sale or a cancellation gives up.
LEMMA GiveUpStep ==
  ASSUME LotAssumption, IInv, Up, poll.by # "main", main.at \in {"cancel", "cancelling", "cancelled"},
         NotCancelled \/ main' = Idle, UNCHANGED <<table, brk, book, control, poll, relock>>
  PROVE  IInv'
<1>0. MainFine(main) /\ main \in Mains /\ main.lot # 0
  BY DEF IInv, TypeInv, MainOK, MainFine, Waits
<1>1. CASE main' = Idle
  BY <1>1, IdleIsFine, MainOnly
<1>2. CASE main' = [main EXCEPT !.at = "sell"]
  <2>1. PICK n : n = [main EXCEPT !.at = "sell"]
    OBVIOUS
  <2>2. /\ n \in Mains /\ n.at = "sell" /\ n.lot = main.lot /\ n.lots = main.lots
        /\ n.qty = main.qty /\ n.side = main.side
    BY <1>0, <2>1 DEF Mains, Stages
  <2>3. MainFine(n)
    BY <1>0, <2>2 DEF MainFine, Waits
  <2>4. QED
    BY <1>2, <2>1, <2>2, <2>3, MainOnly
<1>3. CASE main' = Over(main)
  BY <1>0, <1>3, OverIsFine, MainOnly DEF Tracked, book, Sane, MainFine
<1>4. QED
  BY <1>1, <1>2, <1>3 DEF NotCancelled

\* An order's lock is dropped with its meta, once nobody has a right to it.
LEMMA UnlockStep ==
  ASSUME LotAssumption, IInv, Up, poll.by # "main", main.at \in {"cancel", "cancelled"},
         NEW k \in Keys, k = <<main.lot, main.side>>, NEW o, Unlock(k, o), Vacant(k)',
         ord' \in [Orders -> OrderRows], Calm, \A p \in Orders : Kept(p) /\ OrderOK(p)',
         UNCHANGED <<row, brk, lot, slot, control, poll, relock>>
  PROVE  IInv'
<1>0. /\ TypeInv /\ MainFine(main) /\ main \in Mains /\ main.lot # 0
      /\ UNCHANGED <<stopped, flatReq, phase, crashes>>
  BY DEF IInv, TypeInv, MainOK, MainFine, Waits, control
<1>1. PICK n : n = [main EXCEPT !.at = "refresh", !.then = IF k[2] = "BUY" THEN "sell" ELSE "send"]
  OBVIOUS
<1>2. /\ n \in Mains /\ n.at = "refresh" /\ n.lot = main.lot /\ n.lots = main.lots
      /\ n.qty = main.qty /\ n.side = main.side
      /\ n.then \in {"sell", "send"} /\ (n.then = "send" => n.side = "SELL")
  BY ZenonT(60), <1>0, <1>1 DEF Mains, Stages, Sides
<1>3. MainFine(n)'
  <2>1. Tracked' = Tracked
    BY DEF Tracked
  <2>2. QED
    BY <1>0, <1>2, <2>1 DEF MainFine, Waits
<1>4. main' = n
  BY <1>1 DEF Unlock
<1>5. barrier' \in [sell : SUBSET Lots, buy : SUBSET Lots, start : BOOLEAN]
  <2>1. k[1] \in Lots /\ barrier \in [sell : SUBSET Lots, buy : SUBSET Lots, start : BOOLEAN]
    BY <1>0 DEF TypeInv, Keys
  <2>2. QED
    BY <2>1 DEF Unlock
<1>6. pending' = [pending EXCEPT ![k] = 0] /\ meta' = Without(meta, o)
  BY DEF Unlock
<1>7. QED
  BY <1>0, <1>2, <1>3, <1>4, <1>5, <1>6, LockDrops

\* Cancelling an order.
LEMMA CancelStep ==
  ASSUME LotAssumption, IInv, Cancel \/ CancelDenied \/ CancelLost \/ RecordCancel
  PROVE  IInv'
<1>0. /\ TypeInv /\ OrdersOK /\ LocksOK /\ DownOK /\ MainFine(main) /\ main \in Mains
      /\ main.at \in {"cancel", "cancelling", "cancelled"} /\ poll.by # "main"
      /\ ord \in [Orders -> OrderRows]
  BY DEF IInv, TypeInv, MainOK, Cancel, CancelDenied, CancelLost, RecordCancel
<1>1. Up /\ main.lot \in Tracked /\ main.lot \in Lots /\ main.lot # 0
  BY <1>0 DEF DownOK, Idle, MainFine, Waits, Tracked
<1>2. PICK k : k = <<main.lot, main.side>>
  OBVIOUS
<1>3. k \in Keys /\ pending[k] \in Orders \cup {0} /\ 0 \notin Orders
  BY <1>0, <1>1, <1>2 DEF Keys, Mains, TypeInv, Orders, LotAssumption
<1>4. CASE CancelDenied \/ CancelLost
  BY <1>0, <1>1, <1>4, GiveUpStep DEF CancelDenied, CancelLost
<1>5. CASE Cancel
  <2>0. PICK o : o = pending[k]
    OBVIOUS
  <2>1. UNCHANGED <<ord, row, brk, lot, slot, control, poll, relock>>
    BY <1>5 DEF Cancel, table
  <2>2. CASE (o # 0 => ord[o].st \in Final) /\ Unlock(k, o)
    <3>1. LockFree(k)
      BY <2>0, <2>2 DEF LockFree, Releasable
    <3>2. Vacant(k)
      BY <1>0, <1>1, <1>3, <3>1, FreeIsVacant
    <3>3. ord' \in [Orders -> OrderRows] /\ Calm /\ \A p \in Orders : Kept(p) /\ OrderOK(p)'
      BY <2>1, SameOrders
    <3>4. Vacant(k)'
      BY <3>2, <3>3, CalmKeeps
    <3>5. QED
      BY <1>0, <1>1, <1>2, <1>3, <1>5, <2>1, <2>2, <3>3, <3>4, UnlockStep DEF Cancel
  <2>3. CASE NotCancelled /\ UNCHANGED <<pending, meta, barrier>>
    BY <1>0, <1>1, <2>1, <2>3, GiveUpStep DEF table, book
  <2>4. CASE /\ o # 0 /\ ord[o].st \in {"NEW", "PARTIALLY_FILLED"}
             /\ main' = [main EXCEPT !.at = "cancelling", !.order = o]
             /\ UNCHANGED <<pending, meta, barrier>>
    <3>1. PICK n : n = [main EXCEPT !.at = "cancelling", !.order = o]
      OBVIOUS
    <3>2. o \in Orders
      BY <1>3, <2>0, <2>4
    <3>3. /\ n \in Mains /\ n.at = "cancelling" /\ n.lot = main.lot /\ n.lots = main.lots
          /\ n.qty = main.qty /\ n.side = main.side /\ n.order = o
      BY <1>0, <3>1, <3>2 DEF Mains, Stages
    <3>4. \A p \in Orders \ {o} : KeyOf(p) = k => ~Covered(p)
      BY <1>0, <1>1, <2>0 DEF LocksOK
    <3>5. MainFine(n)
      BY <1>0, <1>1, <1>2, <2>4, <3>2, <3>3, <3>4 DEF MainFine, Waits
    <3>6. QED
      BY <1>0, <1>1, <2>1, <2>4, <3>1, <3>3, <3>5, MainOnly DEF table, book
  <2>5. QED
    BY <1>2, <1>5, <2>0, <2>2, <2>3, <2>4 DEF Cancel
<1>6. CASE RecordCancel
  <2>1. PICK o : o = main.order
    OBVIOUS
  <2>2. PICK r : r = [ord[o] EXCEPT !.st = IF @ = "FILLED" THEN @ ELSE "CANCELLED"]
    OBVIOUS
  <2>3. /\ UNCHANGED <<row, brk, lot, slot, control, poll, relock>>
        /\ o \in Orders /\ Used(o) /\ brk[o].at = "gone" /\ ~Working(o) /\ OrderOK(o)
        /\ ord[o] \in OrderRows /\ \A p \in Orders \ {o} : KeyOf(p) = k => ~Covered(p)
    BY <1>0, <1>2, <1>6, <2>1 DEF RecordCancel, MainFine, Used, Working, OrdersOK
  <2>4. /\ r \in OrderRows /\ r.lot = ord[o].lot /\ r.side = ord[o].side /\ r.qty = ord[o].qty
        /\ r.no = ord[o].no /\ r.filled = ord[o].filled /\ r.adopted = ord[o].adopted
        /\ r.st \in {"FILLED", "CANCELLED"} /\ (r.st = "FILLED" => ord[o].st = "FILLED")
    BY <2>2, <2>3 DEF OrderRows, Final
  <2>5. ord' = [ord EXCEPT ![o] = r]
    BY <1>0, <1>6, <2>1, <2>2, <2>3 DEF RecordCancel
  <2>6. /\ ord' \in [Orders -> OrderRows] /\ Calm /\ \A p \in Orders : Kept(p) /\ OrderOK(p)'
        /\ ord'[o] = r
    BY <2>3, <2>4, <2>5, OneOrder DEF Open, Final
  <2>7. Vacant(k)'
    <3>1. ~Covered(o)'
      BY <2>3, <2>4, <2>6 DEF Covered, Working, Open
    <3>2. \A p \in Orders : KeyOf(p)' = KeyOf(p) /\ (Covered(p)' => Covered(p))
      BY <2>6 DEF Calm, KeyOf
    <3>3. QED
      BY <2>3, <3>1, <3>2 DEF Vacant
  <2>8. Unlock(k, o)
    BY <1>2, <1>6, <2>1, Zenon DEF RecordCancel
  <2>9. QED
    BY <1>0, <1>1, <1>2, <1>3, <1>6, <2>3, <2>6, <2>7, <2>8, UnlockStep DEF RecordCancel
<1>7. QED
  BY <1>4, <1>5, <1>6

\* The liquidation.
LEMMA FlatStep ==
  ASSUME LotAssumption, IInv, FlatPass
  PROVE  IInv'
<1>0. /\ TypeInv /\ DownOK /\ MainFine(main) /\ main \in Mains
      /\ main.at \in {"idle", "sweep", "lots"} /\ poll.by # "main"
  BY DEF IInv, TypeInv, MainOK, FlatPass, FlatAll, Sweep, Swept, NextLot, FlatDone, Finish
<1>1. Up
  <2>1. main.at # "idle" \/ phase = "up"
    BY DEF FlatPass, FlatAll, Sweep, Swept, NextLot, FlatDone, Finish
  <2>2. QED
    BY <1>0, <2>1 DEF DownOK, Up, Idle
<1>2. Sane(main)
  BY <1>0 DEF MainFine, Sane
<1>3. CASE FlatAll
  <2>1. PICK n : n = [Idle EXCEPT !.at = "sweep", !.job = "flat", !.keys = {k \in Keys : pending[k] # 0}]
    OBVIOUS
  <2>2. n \in Mains /\ MainFine(n)
    BY <2>1 DEF Idle, Mains, Stages, Sides, MainFine, Waits
  <2>3. QED
    BY <1>0, <1>1, <1>3, <2>1, <2>2, MainOnly DEF FlatAll
<1>4. CASE Sweep
  <2>1. PICK k \in main.keys : /\ main' = [main EXCEPT !.keys = @ \ {k}]
                               /\ IF Releasable(k) THEN Release(k) ELSE UNCHANGED <<pending, meta>>
    BY <1>4 DEF Sweep
  <2>2. PICK n : n = [main EXCEPT !.keys = @ \ {k}]
    OBVIOUS
  <2>3. /\ n \in Mains /\ n.at = main.at /\ n.lot = main.lot /\ n.lots = main.lots
        /\ n.qty = main.qty /\ n.side = main.side /\ k \in Keys
    BY <1>0, <2>2 DEF Mains
  <2>4. MainFine(n)
    BY <1>0, <1>4, <2>3 DEF MainFine, Waits, Sweep
  <2>5. CASE Releasable(k)
    BY <1>0, <1>1, <1>4, <2>1, <2>2, <2>3, <2>4, <2>5, ReleaseStep DEF Sweep
  <2>6. CASE ~Releasable(k)
    BY <1>0, <1>1, <1>4, <2>1, <2>2, <2>3, <2>4, <2>6, MainOnly DEF Sweep, book
  <2>7. QED
    BY <2>5, <2>6
<1>5. CASE Swept
  <2>1. PICK n : n = IF barrier.buy # {} \/ barrier.start
                     THEN [main EXCEPT !.at = "refresh", !.then = "lots"]
                     ELSE [main EXCEPT !.at = "lots", !.lots = Tracked]
    OBVIOUS
  <2>2. /\ n \in Mains /\ n.lot = main.lot /\ n.lots \subseteq Tracked
        /\ n.qty = main.qty /\ n.side = main.side
        /\ (n.at = "lots" \/ (n.at = "refresh" /\ n.then = "lots"))
    BY <1>0, <1>2, <2>1 DEF Mains, Stages, Sane, Tracked
  <2>3. MainFine(n)
    BY <1>2, <2>2 DEF MainFine, Waits, Sane
  <2>4. QED
    BY <1>0, <1>1, <1>5, <2>1, <2>2, <2>3, MainOnly DEF Swept
<1>6. CASE NextLot
  <2>1. PICK l \in main.lots : CancelBuyAndSell([main EXCEPT !.lot = l, !.lots = @ \ {l}])
    BY <1>6 DEF NextLot
  <2>2. PICK n : n = [main EXCEPT !.lot = l, !.lots = @ \ {l}]
    OBVIOUS
  <2>3. l \in Tracked /\ l \in Lots
    BY <1>2 DEF Sane, Tracked
  <2>4. /\ n \in Mains /\ n.lot = l /\ n.lots \subseteq main.lots
        /\ n.qty = main.qty /\ n.side = main.side
    BY <1>0, <2>2, <2>3 DEF Mains
  <2>5. Sane(n)
    BY <1>2, <2>3, <2>4 DEF Sane
  <2>6. CancelBuyAndSell(n)
    BY <2>1, <2>2, Zenon
  <2>7. QED
    BY <1>0, <1>1, <2>3, <2>4, <2>5, <2>6, CancelBuyStep
<1>7. CASE FlatDone
  <2>1. /\ stopped' \in BOOLEAN /\ flatReq' \in BOOLEAN /\ crashes' \in Nat
        /\ phase' \in {"down", "hydrating", "up", "done"} /\ Up'
    BY <1>0, <1>1, <1>7 DEF FlatDone, TypeInv, Up
  <2>2. QED
    BY <1>0, <1>1, <1>7, <2>1, IdleIsFine, MainMoves DEF FlatDone
<1>8. CASE Finish
  <2>1. /\ stopped' \in BOOLEAN /\ flatReq' \in BOOLEAN /\ crashes' \in Nat
        /\ phase' \in {"down", "hydrating", "up", "done"} /\ Up' /\ main' = main
    BY <1>0, <1>8 DEF Finish, TypeInv, Up
  <2>2. QED
    BY <1>0, <1>1, <1>8, <2>1, MainMoves DEF Finish
<1>9. QED
  BY <1>3, <1>4, <1>5, <1>6, <1>7, <1>8 DEF FlatPass

-----------------------------------------------------------------------------
(* Steps of lots, polls and fills.                                         *)

\* A step of lots, rows and locks; orders and the broker stay as they are.
LEMMA LotsMove ==
  ASSUME LotAssumption, IInv, Up, UNCHANGED <<ord, brk, barrier, control, main>>,
         row' \in [Lots -> LotRows], lot' \in [Lots -> LotRows], slot' \in Lots \cup {0},
         \A l \in Lots : row[l].st # "none" => row'[l].st # "none",
         \A l \in Lots : lot[l].st # "none" => lot'[l].st # "none",
         pending' \in [Keys -> Orders \cup {0}], DOMAIN meta' \subseteq Orders,
         \A o \in DOMAIN meta' : meta'[o] \in Nat /\ lot'[ord[o].lot].st # "none",
         relock' \subseteq relock, poll' \in Polls, poll'.by = poll.by,
         LocksOK', MetaOK', PollOK', BookOK'
  PROVE  IInv'
<1>0. /\ TypeInv /\ OrdersOK /\ LatestOK /\ RelockOK /\ OwnedOK /\ DownOK /\ MainOK
      /\ UNCHANGED <<stopped, flatReq, phase, crashes>> /\ ord \in [Orders -> OrderRows]
  BY DEF IInv, TypeInv, control
<1>1. TypeInv'
  BY <1>0 DEF TypeInv
<1>2. Up' /\ DownOK'
  BY <1>0 DEF Up, DownOK
<1>3. OrdersOK'
  <2>1. \A o \in Orders : OrderOK(o)'
    BY <1>0 DEF OrdersOK, OrderOK, Used, Working, OrderRows
  <2>2. QED
    BY <1>0, <2>1 DEF OrdersOK, Used
<1>4. Calm
  BY <1>0 DEF Calm, Used, Covered, Working
<1>5. LatestOK'
  BY <1>0, <1>4, CalmKeeps
<1>6. RelockOK'
  BY <1>0 DEF RelockOK, Used
<1>7. OwnedOK'
  BY <1>0 DEF OwnedOK, OrderRows
<1>8. MainOK'
  <2>1. Tracked \subseteq Tracked'
    BY DEF Tracked
  <2>2. main \in Mains /\ MainFine(main)
    BY <1>0 DEF TypeInv, MainOK
  <2>3. PICK m \in Mains : m = main
    BY <2>2
  <2>4. MainFine(m)'
    BY ZenonT(60), <1>4, <2>1, <2>2, <2>3, MainKeeps DEF MainFine
  <2>5. QED
    BY <1>0, <2>3, <2>4 DEF MainOK
<1>9. QED
  BY <1>1, <1>2, <1>3, <1>5, <1>6, <1>7, <1>8 DEF IInv

\* A new lot.
LEMMA SpawnStep == ASSUME LotAssumption, IInv, Spawn PROVE IInv'
<1>0. /\ TypeInv /\ DownOK /\ OrdersOK /\ LocksOK /\ MetaOK /\ OwnedOK /\ PollOK /\ BookOK /\ MainOK
      /\ ord \in [Orders -> OrderRows] /\ row \in [Lots -> LotRows] /\ lot \in [Lots -> LotRows]
  BY DEF IInv, TypeInv
<1>1. PICK l \in Lots : /\ row[l].st = "none" /\ slot' = l
                        /\ row' = [row EXCEPT ![l].st = "WATCHING"]
                        /\ lot' = [lot EXCEPT ![l].st = "WATCHING"]
  BY DEF Spawn
<1>2. UNCHANGED <<ord, brk, pending, meta, barrier, control, main, poll, relock>> /\ Up
  BY <1>0 DEF Spawn, DownOK, Idle
<1>3. ~Booking(l) /\ ~Retiring(l)
  <2>1. ~Booking(l)
    BY <1>0, <1>1 DEF Booking, PollOK, OrdersOK, OrderOK, Used, Open, Final
  <2>2. ~Retiring(l)
    BY <1>0, <1>1, <1>2, <2>1 DEF BookOK, InMemory, Retiring, PollOK, Tracked
  <2>3. QED
    BY <2>1, <2>2
<1>4. lot[l].st = "none" /\ lot[l].qty = 0 /\ row[l].qty = 0
  BY <1>0, <1>1, <1>2, <1>3 DEF BookOK, InMemory, Sound
<1>5. /\ row' \in [Lots -> LotRows] /\ lot' \in [Lots -> LotRows]
      /\ row'[l] = [st |-> "WATCHING", qty |-> 0] /\ lot'[l] = [st |-> "WATCHING", qty |-> 0]
      /\ \A j \in Lots \ {l} : row'[j] = row[j] /\ lot'[j] = lot[j]
  BY <1>0, <1>1, <1>4 DEF LotRows, LotSt
<1>6. LocksOK'
  BY <1>0, <1>2 DEF LocksOK, Covered, Working, KeyOf, Up, control
<1>7. MetaOK' /\ PollOK'
  BY <1>0, <1>2, <1>5 DEF MetaOK, OnItsWay, PollOK, Tracked
<1>8. BookOK'
  <2>1. \A j \in Lots : (Booking(j)' <=> Booking(j)) /\ (Retiring(j)' <=> Retiring(j))
    BY <1>2 DEF Booking, Retiring
  <2>2. Sound(row'[l]) /\ Sound(lot'[l]) /\ InMemory(l)'
    BY <1>3, <1>5, <2>1 DEF Sound, InMemory
  <2>3. ASSUME NEW j \in Lots \ {l}
        PROVE  /\ Sound(row'[j]) /\ Sound(lot'[j])
               /\ lot'[j].st # "none" => InMemory(j)'
               /\ lot'[j].st = "none" => OnlyInRow(j)'
    BY <1>0, <1>2, <1>5, <2>1 DEF BookOK, InMemory, OnlyInRow
  <2>4. QED
    BY <1>2, <1>5, <2>2, <2>3 DEF BookOK
<1>9. /\ pending' \in [Keys -> Orders \cup {0}] /\ DOMAIN meta' \subseteq Orders
      /\ poll' \in Polls /\ slot' \in Lots \cup {0}
      /\ \A o \in DOMAIN meta' : meta'[o] \in Nat /\ lot'[ord[o].lot].st # "none"
  BY <1>0, <1>1, <1>2, <1>5 DEF TypeInv, OwnedOK, OrderRows
<1>10. QED
  BY <1>2, <1>5, <1>6, <1>7, <1>8, <1>9, LotsMove

\* Where a refresh leads the main task.
LEMMA RefreshedIsFine ==
  ASSUME TypeInv, MainFine(main), Waits(main), NEW ok \in BOOLEAN
  PROVE  Refreshed(ok) \in Mains /\ MainFine(Refreshed(ok)) /\ ~Waits(Refreshed(ok))
<1>0. main \in Mains /\ main.then \in {"up", "lots", "sell", "lock", "send"} /\ Sane(main)
  BY DEF TypeInv, Mains, MainFine, Sane
<1>1. CASE main.then = "up"
  <2>1. Refreshed(ok) = Idle
    BY <1>1 DEF Refreshed
  <2>2. QED
    BY <2>1, IdleIsFine DEF Waits, Idle
<1>2. CASE main.then = "lots"
  <2>1. PICK n : n = [main EXCEPT !.at = main.then, !.lots = Tracked]
    OBVIOUS
  <2>2. n = Refreshed(ok)
    BY <1>0, <1>2, <2>1 DEF Refreshed, Mains
  <2>3. /\ n \in Mains /\ n.at = "lots" /\ n.lot = main.lot /\ n.lots = Tracked
        /\ n.qty = main.qty /\ n.side = main.side
    BY <1>0, <1>2, <2>1 DEF Mains, Stages, Tracked
  <2>4. MainFine(n) /\ ~Waits(n)
    BY <1>0, <2>3 DEF MainFine, Waits, Sane
  <2>5. QED
    BY <2>2, <2>3, <2>4
<1>3. CASE main.then = "sell"
  <2>1. PICK n : n = [main EXCEPT !.at = main.then]
    OBVIOUS
  <2>2. n = Refreshed(ok)
    BY <1>3, <2>1 DEF Refreshed
  <2>3. /\ n \in Mains /\ n.at = "sell" /\ n.lot = main.lot /\ n.lots = main.lots
        /\ n.qty = main.qty /\ n.side = main.side
    BY <1>0, <1>3, <2>1 DEF Mains, Stages
  <2>4. MainFine(n) /\ ~Waits(n)
    BY <2>3, <1>3 DEF MainFine, Waits
  <2>5. QED
    BY <2>2, <2>3, <2>4
<1>4. CASE main.then \in {"lock", "send"}
  <2>1. PICK q : q = IF main.qty > lot[main.lot].qty THEN lot[main.lot].qty ELSE main.qty
    OBVIOUS
  <2>2. PICK n : n = [main EXCEPT !.at = main.then, !.qty = q]
    OBVIOUS
  <2>3. q \in Nat
    <3>1. main.lot # 0 /\ main.lot \in Lots
      BY <1>0, <1>4 DEF MainFine, Waits, Tracked
    <3>2. lot[main.lot].qty \in Nat /\ main.qty \in Nat
      BY <1>0, <3>1 DEF TypeInv, LotRows, Mains
    <3>3. QED
      BY <2>1, <3>2
  <2>4. CASE ok /\ q > 0
    <3>1. n = Refreshed(ok)
      BY <1>0, <1>4, <2>1, <2>2, <2>4 DEF Refreshed, Mains
    <3>2. /\ n \in Mains /\ n.at = main.then /\ n.lot = main.lot /\ n.lots = main.lots
          /\ n.qty = q /\ n.side = main.side
      BY <1>0, <1>4, <2>2, <2>3 DEF Mains, Stages
    <3>3. MainFine(n) /\ ~Waits(n)
      BY <1>0, <1>4, <2>4, <3>2 DEF MainFine, Waits
    <3>4. QED
      BY <3>1, <3>2, <3>3
  <2>5. CASE ~(ok /\ q > 0)
    <3>1. Refreshed(ok) = Over(main)
      BY <1>4, <2>1, <2>5 DEF Refreshed
    <3>2. Over(main) \in Mains /\ Over(main).at \in {"idle", "lots"} /\ MainFine(Over(main))
      <4>1. PICK v : v = Over(main)
        OBVIOUS
      <4>2. /\ v \in Mains /\ v.at \in {"idle", "lots"} /\ v.lots \subseteq main.lots
            /\ (v.side = "SELL" => v.qty > 0) /\ (v.lot # 0 => v.lot = main.lot)
        BY <1>0, <4>1 DEF Over, Idle, Mains, Stages, Sides, Sane
      <4>3. QED
        BY <1>0, <4>1, <4>2 DEF MainFine, Waits, Sane
    <3>3. QED
      BY <3>1, <3>2 DEF Waits
  <2>6. QED
    BY <2>4, <2>5
<1>5. QED
  BY <1>0, <1>1, <1>2, <1>3, <1>4

\* A poll begins or ends: no fill is on its way.
LEMMA PollMoves ==
  ASSUME LotAssumption, IInv, Up, Up', poll.fill.at = "none",
         UNCHANGED <<table, brk, lot, slot, pending, meta, relock>>,
         poll' \in Polls, poll'.fill.at = "none", \A e \in poll'.recs : e.qty <= brk[e.o].exec,
         barrier' \in [sell : SUBSET Lots, buy : SUBSET Lots, start : BOOLEAN],
         stopped' \in BOOLEAN, flatReq' \in BOOLEAN, crashes' \in Nat,
         phase' \in {"down", "hydrating", "up", "done"},
         NEW m \in Mains, main' = m, MainFine(m), poll'.by = "main" => m.at = "polling"
  PROVE  IInv'
<1>0. /\ TypeInv /\ OrdersOK /\ LatestOK /\ LocksOK /\ RelockOK /\ OwnedOK /\ MetaOK /\ BookOK
      /\ UNCHANGED <<ord, row>>
  BY DEF IInv, table
<1>1. TypeInv' /\ DownOK'
  BY <1>0 DEF TypeInv, DownOK
<1>2. Calm
  BY <1>0 DEF Calm, Used, Covered, Working
<1>3. OrdersOK' /\ LatestOK' /\ LocksOK'
  BY <1>0, <1>2, CalmKeeps DEF OrdersOK, OrderOK, Used, Working
<1>4. RelockOK' /\ OwnedOK'
  BY <1>0 DEF RelockOK, OwnedOK, Used
<1>5. MetaOK' /\ PollOK'
  BY <1>0 DEF MetaOK, OnItsWay, PollOK
<1>6. MainFine(m)'
  <2>1. Tracked' = Tracked
    BY DEF Tracked
  <2>2. QED
    BY <1>0, <1>2, <2>1, MainKeeps DEF MainFine
<1>7. BookOK'
  <2>1. \A l \in Lots : ~Booking(l) /\ ~Booking(l)' /\ ~Retiring(l) /\ ~Retiring(l)'
    BY DEF Booking, Retiring
  <2>2. QED
    BY <1>0, <2>1 DEF BookOK, InMemory, OnlyInRow
<1>8. QED
  BY <1>1, <1>3, <1>4, <1>5, <1>6, <1>7 DEF IInv, MainOK

\* A poll begins, ends or fails.
LEMMA PollStep ==
  ASSUME LotAssumption, IInv, LoopPolls \/ RefreshPolls \/ PollEnds \/ PollFails
  PROVE  IInv'
<1>0. /\ TypeInv /\ DownOK /\ PollOK /\ MainOK /\ main \in Mains /\ poll \in Polls
      /\ MainFine(main) /\ NoPoll \in Polls /\ NoPoll.recs = {} /\ NoPoll.fill.at = "none"
      /\ NoPoll.by = "none" /\ NoFill.at = "none"
  BY DEF IInv, TypeInv, MainOK, NoPoll, NoFill, Polls, FillRecs
<1>1. poll.fill.at = "none"
  BY <1>0 DEF LoopPolls, RefreshPolls, PollEnds, PollFails, PollOK
<1>2. Up
  <2>1. phase = "up" \/ main.at = "refresh" \/ poll.by # "none"
    BY DEF LoopPolls, RefreshPolls, PollEnds, PollFails
  <2>2. QED
    BY <1>0, <2>1 DEF DownOK, Up, Idle
<1>3. CASE LoopPolls \/ RefreshPolls
  <2>1. PICK who \in {"main", "loop"} : /\ poll' = Fetched(who)
                                        /\ who = "main" => RefreshPolls
                                        /\ who = "loop" => LoopPolls
    BY <1>3 DEF LoopPolls, RefreshPolls
  <2>2. /\ poll' \in Polls /\ poll'.by = who /\ poll'.fill.at = "none"
        /\ \A e \in poll'.recs : e.qty <= brk[e.o].exec
    <3>1. PICK recs : recs = {[o |-> o, qty |-> brk[o].exec] :
              o \in {p \in Orders : ord[p].st # "none" /\ brk[p].exec > ord[p].filled}}
      OBVIOUS
    <3>2. \A o \in Orders : brk[o].exec \in Nat
      BY <1>0 DEF TypeInv, BrkRows
    <3>3. recs \subseteq [o : Orders, qty : Nat] /\ \A e \in recs : e.qty <= brk[e.o].exec
      BY <3>1, <3>2
    <3>4. poll' = [by |-> who, fill |-> NoFill, recs |-> recs]
      BY <2>1, <3>1 DEF Fetched
    <3>5. NoFill \in FillRecs
      BY DEF NoFill, FillRecs
    <3>6. QED
      BY <1>0, <2>1, <3>3, <3>4, <3>5 DEF Polls
  <2>3. /\ UNCHANGED <<table, brk, lot, slot, pending, meta, barrier, relock, stopped, flatReq,
                       phase, crashes>>
        /\ Up'
    BY <1>2, <1>3 DEF LoopPolls, RefreshPolls, book, control, Up
  <2>4. /\ barrier' \in [sell : SUBSET Lots, buy : SUBSET Lots, start : BOOLEAN]
        /\ stopped' \in BOOLEAN /\ flatReq' \in BOOLEAN /\ crashes' \in Nat
        /\ phase' \in {"down", "hydrating", "up", "done"}
    BY <1>0, <2>3 DEF TypeInv
  <2>5. CASE who = "loop"
    BY <1>0, <1>1, <1>2, <2>1, <2>2, <2>3, <2>4, <2>5, PollMoves DEF LoopPolls
  <2>6. CASE who = "main"
    <3>1. PICK n : n = [main EXCEPT !.at = "polling"]
      OBVIOUS
    <3>2. /\ n \in Mains /\ n.at = "polling" /\ n.lot = main.lot /\ n.lots = main.lots
          /\ n.qty = main.qty /\ n.side = main.side /\ n.then = main.then
      BY <1>0, <3>1 DEF Mains, Stages
    <3>3. main' = n /\ main.at = "refresh"
      BY <2>1, <2>6, <3>1 DEF RefreshPolls
    <3>4. MainFine(n)
      BY <1>0, <3>2, <3>3 DEF MainFine, Waits
    <3>5. QED
      BY <1>0, <1>1, <1>2, <2>2, <2>3, <2>4, <2>6, <3>2, <3>3, <3>4, PollMoves
  <2>7. QED
    BY <2>1, <2>5, <2>6
<1>4. CASE PollEnds \/ PollFails
  <2>1. /\ UNCHANGED <<table, brk, lot, slot, pending, meta, stopped, crashes, relock>>
        /\ poll' = NoPoll \/ (poll' = poll /\ poll.by = "none")
    BY <1>4 DEF PollEnds, PollFails, book
  <2>2. /\ barrier' \in [sell : SUBSET Lots, buy : SUBSET Lots, start : BOOLEAN]
        /\ stopped' \in BOOLEAN /\ flatReq' \in BOOLEAN /\ crashes' \in Nat
        /\ phase' \in {"down", "hydrating", "up", "done"} /\ Up'
    <3>1. barrier' = barrier \/ barrier' = Clear
      BY <1>4 DEF PollEnds, PollFails, book
    <3>2. UNCHANGED <<phase, flatReq>> \/ (phase' = "up" /\ flatReq' = stopped)
      BY <1>4 DEF PollEnds, PollFails, Resumed
    <3>3. phase' \in {"down", "hydrating", "up", "done"} /\ Up' /\ flatReq' \in BOOLEAN
      BY <1>0, <1>2, <3>2 DEF TypeInv, Up
    <3>4. barrier' \in [sell : SUBSET Lots, buy : SUBSET Lots, start : BOOLEAN]
      <4>1. Clear \in [sell : SUBSET Lots, buy : SUBSET Lots, start : BOOLEAN]
        BY DEF Clear
      <4>2. barrier \in [sell : SUBSET Lots, buy : SUBSET Lots, start : BOOLEAN]
        BY <1>0 DEF TypeInv
      <4>3. QED
        BY <3>1, <4>1, <4>2
    <3>5. QED
      BY <1>0, <2>1, <3>3, <3>4 DEF TypeInv
  <2>3. PICK m \in Mains : main' = m /\ MainFine(m)
    <3>1. CASE UNCHANGED main
      BY <1>0, <3>1
    <3>2. ASSUME NEW ok \in BOOLEAN, main' = Refreshed(ok), Waits(main)
          PROVE  main' \in Mains /\ MainFine(Refreshed(ok))
      BY <1>0, <3>2, RefreshedIsFine
    <3>3. \/ UNCHANGED main
          \/ Waits(main) /\ (main' = Refreshed(TRUE) \/ main' = Refreshed(FALSE))
      BY <1>0, <1>4 DEF PollEnds, PollFails, MainOK, Waits, Polls
    <3>4. QED
      BY <3>1, <3>2, <3>3
  <2>4. poll' \in Polls /\ poll'.fill.at = "none" /\ poll'.by # "main"
        /\ \A e \in poll'.recs : e.qty <= brk[e.o].exec
    BY <1>0, <1>1, <2>1 DEF PollOK
  <2>5. QED
    BY <1>0, <1>1, <1>2, <2>1, <2>2, <2>3, <2>4, PollMoves
<1>5. QED
  BY <1>3, <1>4

\* A fill reaches the tables.
LEMMA HandleFillStep == ASSUME LotAssumption, IInv, HandleFill PROVE IInv'
<1>0. /\ TypeInv /\ DownOK /\ OrdersOK /\ LatestOK /\ LocksOK /\ RelockOK /\ OwnedOK /\ MetaOK
      /\ PollOK /\ BookOK /\ MainOK /\ poll.fill = NoFill /\ poll.fill.at = "none"
      /\ poll.by # "none" /\ poll \in Polls
      /\ ord \in [Orders -> OrderRows] /\ row \in [Lots -> LotRows] /\ lot \in [Lots -> LotRows]
      /\ brk \in [Orders -> BrkRows] /\ main \in Mains /\ MainFine(main)
  BY DEF IInv, TypeInv, HandleFill, NoFill, MainOK
<1>1. /\ UNCHANGED <<brk, lot, slot, pending, meta, barrier, stopped, flatReq, phase, crashes,
                     main, relock>>
      /\ Up /\ Up'
  BY <1>0 DEF HandleFill, book, control, DownOK, NoPoll, Up
<1>2. PICK e \in poll.recs :
         IF ord[e.o].no /\ e.qty > ord[e.o].filled
         THEN /\ ord' = [ord EXCEPT
                   ![e.o].filled = e.qty,
                   ![e.o].st = IF @ \in {"CANCELLED", "EXPIRED"} THEN @
                               ELSE IF e.qty >= ord[e.o].qty THEN "FILLED" ELSE "PARTIALLY_FILLED"]
              /\ row' = [row EXCEPT ![ord[e.o].lot] = AfterFill(e.o, e.qty - ord[e.o].filled)]
              /\ poll' = [poll EXCEPT !.recs = @ \ {e},
                            !.fill = [NoFill EXCEPT !.at = "book", !.o = e.o,
                                                    !.n = e.qty - ord[e.o].filled]]
         ELSE poll' = [poll EXCEPT !.recs = @ \ {e}] /\ UNCHANGED table
  BY DEF HandleFill
<1>3. e.o \in Orders /\ e.qty \in Nat /\ e.qty <= brk[e.o].exec
  BY <1>0, <1>2 DEF Polls, PollOK
<1>4. CASE ~(ord[e.o].no /\ e.qty > ord[e.o].filled)
  <2>1. poll' = [poll EXCEPT !.recs = @ \ {e}] /\ UNCHANGED table
    BY <1>2, <1>4
  <2>2. /\ poll' \in Polls /\ poll'.fill.at = "none" /\ poll'.by = poll.by
        /\ \A f \in poll'.recs : f \in poll.recs
    BY <1>0, <2>1 DEF Polls
  <2>3. /\ barrier' \in [sell : SUBSET Lots, buy : SUBSET Lots, start : BOOLEAN]
        /\ stopped' \in BOOLEAN /\ flatReq' \in BOOLEAN /\ crashes' \in Nat
        /\ phase' \in {"down", "hydrating", "up", "done"}
    BY <1>0, <1>1 DEF TypeInv
  <2>4. PICK m \in Mains : m = main
    BY <1>0
  <2>5. main' = m /\ MainFine(m) /\ (poll'.by = "main" => m.at = "polling")
    BY <1>0, <1>1, <2>2, <2>4 DEF MainOK
  <2>6. \A f \in poll'.recs : f.qty <= brk[f.o].exec
    BY <1>0, <2>2 DEF PollOK
  <2>7. QED
    BY <1>0, <1>1, <2>1, <2>2, <2>3, <2>5, <2>6, PollMoves
<1>5. CASE ord[e.o].no /\ e.qty > ord[e.o].filled
  <2>1. PICK o : o = e.o
    OBVIOUS
  <2>2. PICK n : n = e.qty - ord[o].filled
    OBVIOUS
  <2>3. /\ o \in Orders /\ ord[o].no /\ OrderOK(o) /\ Used(o) /\ ord[o] \in OrderRows
        /\ n \in Nat /\ n > 0 /\ e.qty = ord[o].filled + n
        /\ ord[o].qty \in Nat /\ brk[o].exec \in Nat /\ ord[o].filled \in Nat
        /\ brk[o].exec <= ord[o].qty /\ e.qty <= ord[o].qty
    <3>1. /\ o \in Orders /\ ord[o].no /\ OrderOK(o) /\ ord[o] \in OrderRows
          /\ ord[o].qty \in Nat /\ brk[o].exec \in Nat /\ ord[o].filled \in Nat
          /\ e.qty > ord[o].filled /\ e.qty <= brk[o].exec
      BY <1>0, <1>3, <1>5, <2>1 DEF OrdersOK, OrderRows, BrkRows
    <3>2. Used(o) /\ brk[o].exec <= ord[o].qty
      BY <3>1 DEF OrderOK, Used, Open, Final
    <3>3. QED
      BY <1>3, <2>2, <3>1, <3>2
  <2>4. PICK s : s = IF ord[o].st \in {"CANCELLED", "EXPIRED"} THEN ord[o].st
                     ELSE IF e.qty >= ord[o].qty THEN "FILLED" ELSE "PARTIALLY_FILLED"
    OBVIOUS
  <2>5. ord[o].st \in {"NEW", "PARTIALLY_FILLED", "CANCELLED", "EXPIRED"}
    <3>1. ord[o].st # "FILLED"
      BY <1>3, <2>1, <2>3 DEF OrderOK
    <3>2. QED
      BY <2>3, <3>1 DEF OrderOK, Open, Final
  <2>6. PICK r : r = [ord[o] EXCEPT !.filled = e.qty, !.st = s]
    OBVIOUS
  <2>7. /\ r \in OrderRows /\ r.filled = e.qty /\ r.st = s /\ r.no /\ r.lot = ord[o].lot
        /\ r.side = ord[o].side /\ r.qty = ord[o].qty /\ r.adopted = ord[o].adopted
    BY <1>3, <2>3, <2>4, <2>5, <2>6 DEF OrderRows, Open, Final
  <2>8. ord' = [ord EXCEPT ![o] = r]
    BY <1>0, <1>2, <1>5, <2>1, <2>3, <2>4, <2>6
  <2>9. /\ ord' \in [Orders -> OrderRows] /\ ord'[o] = r
        /\ \A p \in Orders \ {o} : ord'[p] = ord[p]
    BY <1>0, <2>3, <2>7, <2>8
  <2>10. PICK l : l = ord[o].lot
    OBVIOUS
  <2>11. PICK w : w = AfterFill(o, n)
    OBVIOUS
  <2>12. /\ l \in Lots /\ row[l] \in LotRows /\ row[l].st # "none" /\ Sound(row[l])
         /\ w = After(row[l], ord[o].side, n)
    BY <1>0, <2>3, <2>10, <2>11 DEF OrderOK, OrderRows, BookOK, AfterFill, After
  <2>13. w \in LotRows /\ Sound(w) /\ w.st # "none"
    <3>1. row[l].qty \in Nat /\ row[l].qty + n \in Nat
      BY <2>3, <2>12 DEF LotRows
    <3>2. CASE ord[o].side = "BUY"
      BY <2>12, <3>1, <3>2 DEF After, LotRows, LotSt, Sound
    <3>3. CASE ord[o].side # "BUY" /\ row[l].qty > n
      BY <2>3, <2>12, <3>1, <3>3 DEF After, LotRows, LotSt, Sound
    <3>4. CASE ord[o].side # "BUY" /\ ~(row[l].qty > n)
      BY <2>12, <3>4 DEF After, LotRows, LotSt, Sound
    <3>5. QED
      BY <3>2, <3>3, <3>4
  <2>14. /\ row' = [row EXCEPT ![l] = w]
         /\ poll' = [poll EXCEPT !.recs = @ \ {e},
                       !.fill = [NoFill EXCEPT !.at = "book", !.o = o, !.n = n]]
    BY <1>2, <1>5, <2>1, <2>2, <2>10, <2>11
  <2>15. /\ row' \in [Lots -> LotRows] /\ row'[l] = w /\ \A j \in Lots \ {l} : row'[j] = row[j]
    BY <1>0, <2>12, <2>13, <2>14
  <2>16. /\ poll' \in Polls /\ poll'.by = poll.by /\ poll'.recs \subseteq poll.recs
         /\ poll'.fill.at = "book" /\ poll'.fill.o = o /\ poll'.fill.n = n
    <3>1. PICK f : f = [NoFill EXCEPT !.at = "book", !.o = o, !.n = n]
      OBVIOUS
    <3>2. f \in FillRecs /\ f.at = "book" /\ f.o = o /\ f.n = n
      BY <2>3, <3>1 DEF NoFill, FillRecs
    <3>3. poll' = [poll EXCEPT !.recs = @ \ {e}, !.fill = f]
      BY <2>14, <3>1
    <3>4. QED
      BY <1>0, <3>2, <3>3 DEF Polls
  <2>17. TypeInv' /\ DownOK'
    BY <1>0, <1>1, <2>9, <2>15, <2>16 DEF TypeInv, DownOK
  <2>18. \A p \in Orders : ord'[p].lot = ord[p].lot /\ ord'[p].adopted = ord[p].adopted
                           /\ (Used(p)' <=> Used(p)) /\ (ord[p].no => ord'[p].no)
                           /\ (ord'[p].st \in Open => ord[p].st \in Open)
    BY <2>3, <2>4, <2>5, <2>7, <2>9 DEF Used, Open
  <2>19. OrdersOK'
    <3>1. OrderOK(o)'
      <4>1. e.qty <= brk[o].exec /\ brk[o].exec <= ord[o].qty
        BY <1>3, <2>1, <2>3
      <4>2. /\ s = "FILLED" => e.qty = ord[o].qty /\ ~Working(o)
            /\ s \in {"CANCELLED", "EXPIRED"} => ~Working(o)
            /\ s = "PARTIALLY_FILLED" => e.qty < ord[o].qty
        BY <1>3, <2>1, <2>3, <2>4, <4>1 DEF OrderOK, Final, Working
      <4>3. s \in {"FILLED", "PARTIALLY_FILLED", "CANCELLED", "EXPIRED"}
        BY <2>4
      <4>4. row'[l].st # "none" /\ ord[o].qty > 0
        BY <2>3, <2>13, <2>15 DEF OrderOK
      <4>5. QED
        BY <1>1, <2>3, <2>7, <2>9, <2>10, <4>1, <4>2, <4>3, <4>4 DEF OrderOK, Used, Working, Open, Final
    <3>2. ASSUME NEW p \in Orders \ {o} PROVE OrderOK(p)'
      <4>1. row[ord[p].lot].st # "none" => row'[ord[p].lot].st # "none"
        BY <1>0, <2>12, <2>13, <2>15 DEF OrderRows
      <4>2. QED
        BY <1>0, <1>1, <2>9, <4>1 DEF OrderOK, OrdersOK, Used, Working
    <3>3. QED
      BY <1>0, <2>18, <3>1, <3>2 DEF OrdersOK
  <2>20. Calm
    <3>1. Covered(o)' => Covered(o)
      BY <1>1, <2>4, <2>5, <2>7, <2>9, <2>18 DEF Covered, Working, Open
    <3>2. \A p \in Orders \ {o} : Covered(p)' => Covered(p)
      BY <1>1, <2>9 DEF Covered, Working
    <3>3. QED
      BY <2>7, <2>9, <2>18, <3>1, <3>2 DEF Calm
  <2>21. LatestOK' /\ LocksOK'
    BY <1>0, <1>1, <2>20, CalmKeeps
  <2>22. RelockOK' /\ OwnedOK'
    BY <1>0, <1>1, <2>18 DEF RelockOK, OwnedOK, TypeInv
  <2>23. MetaOK'
    <3>1. SUFFICES ASSUME NEW p \in DOMAIN meta, ~ord'[p].adopted \/ p \in relock
                   PROVE  meta[p] + OnItsWay(p)' = ord'[p].filled
      BY <1>1 DEF MetaOK
    <3>2. p \in Orders /\ meta[p] \in Nat /\ meta[p] + 0 = ord[p].filled
      BY <1>0, <2>18, <3>1 DEF MetaOK, OnItsWay, TypeInv
    <3>3. OnItsWay(p)' = IF p = o THEN n ELSE 0
      BY <2>16 DEF OnItsWay
    <3>4. CASE p = o
      BY <2>3, <2>7, <2>9, <3>2, <3>3, <3>4
    <3>5. CASE p # o
      BY <2>9, <3>2, <3>3, <3>5
    <3>6. QED
      BY <3>4, <3>5
  <2>24. MainOK'
    <3>1. PICK m \in Mains : m = main
      BY <1>0
    <3>2. m.at = "ack" => ord'[m.order].st = ord[m.order].st
      BY <1>0, <2>5, <2>9, <3>1 DEF MainFine
    <3>3. m.at \in {"cancelling", "cancelled"} =>
            ord'[m.order].st \notin {"none", "PENDING_NEW", "UNKNOWN"}
      BY <1>0, <2>4, <2>5, <2>7, <2>9, <3>1 DEF MainFine
    <3>4. MainFine(m)'
      <4>1. Tracked' = Tracked /\ MainFine(m)
        BY <1>0, <1>1, <3>1 DEF Tracked
      <4>2. m.at = "cancelled" => brk'[m.order].at = "gone"
        BY <1>1, <4>1 DEF MainFine
      <4>3. QED
        BY <2>20, <3>2, <3>3, <4>1, <4>2, MainKeeps
    <3>5. QED
      BY <1>0, <1>1, <2>16, <3>1, <3>4 DEF MainOK
  <2>25. PollOK'
    <3>1. n <= e.qty
      BY <2>3
    <3>2. QED
      BY <1>0, <1>1, <2>3, <2>7, <2>9, <2>16, <3>1 DEF PollOK
  <2>26. BookOK'
    <3>1. \A j \in Lots : /\ ~Booking(j) /\ ~Retiring(j) /\ ~Retiring(j)'
                          /\ (Booking(j)' <=> j = l)
      BY <1>0, <2>7, <2>9, <2>10, <2>16 DEF Booking, Retiring
    <3>2. ASSUME NEW j \in Lots \ {l}
          PROVE  /\ Sound(row'[j]) /\ Sound(lot'[j])
                 /\ lot'[j].st # "none" => InMemory(j)'
                 /\ lot'[j].st = "none" => OnlyInRow(j)'
      BY <1>0, <1>1, <2>15, <3>1 DEF BookOK, InMemory, OnlyInRow
    <3>3. Sound(row'[l]) /\ Sound(lot'[l])
      BY <1>0, <1>1, <2>12, <2>13, <2>15 DEF BookOK
    <3>4. lot'[l].st # "none" => InMemory(l)'
      <4>1. lot[l].st # "none" => lot[l] = row[l]
        BY <1>0, <1>1, <2>12, <3>1 DEF BookOK, InMemory
      <4>2. QED
        BY <1>1, <2>7, <2>9, <2>12, <2>15, <2>16, <3>1, <4>1 DEF InMemory
    <3>5. lot'[l].st = "none" => OnlyInRow(l)'
      <4>1. lot[l].st = "none" => row[l].st \in {"CLOSED", "CANCELLED"}
        BY <1>0, <1>1, <2>12, <3>1 DEF BookOK, OnlyInRow, LotRows, LotSt
      <4>2. row[l].st \in {"CLOSED", "CANCELLED"} =>
              w.st # "WATCHING" /\ (w.st = "HOLDING" => w.qty > 0)
        BY <2>3, <2>12 DEF After, LotRows
      <4>3. QED
        BY <1>1, <2>12, <2>15, <3>1, <4>1, <4>2 DEF OnlyInRow
    <3>6. QED
      BY <2>12, <3>2, <3>3, <3>4, <3>5 DEF BookOK
  <2>27. QED
    BY <2>17, <2>19, <2>21, <2>22, <2>23, <2>24, <2>25, <2>26 DEF IInv
<1>6. QED
  BY <1>4, <1>5

\* The book's count of a fill: locks and counts stay right.
LEMMA CountIsRight ==
  ASSUME LotAssumption, IInv, Up, NEW o \in Orders, NEW n \in Nat, n > 0, Count(o, n),
         poll.fill.at = "book", poll.fill.o = o, poll.fill.n = n,
         UNCHANGED <<ord, brk, phase, relock>>, poll'.fill.at # "book", lot[ord[o].lot].st # "none",
         \A l \in Lots : lot[l].st # "none" => lot'[l].st # "none"
  PROVE  /\ pending' \in [Keys -> Orders \cup {0}] /\ DOMAIN meta' \subseteq Orders
         /\ \A p \in DOMAIN meta' : meta'[p] \in Nat /\ lot'[ord[p].lot].st # "none"
         /\ LocksOK' /\ MetaOK'
<1>0. /\ TypeInv /\ OrdersOK /\ LocksOK /\ OwnedOK /\ MetaOK /\ PollOK
      /\ ord[o].no /\ n <= ord[o].filled /\ OrderOK(o) /\ Used(o)
      /\ ord \in [Orders -> OrderRows] /\ ord[o] \in OrderRows /\ brk[o] \in BrkRows
  BY DEF IInv, PollOK, OrdersOK, OrderOK, Used, TypeInv, Open, Final
<1>1. PICK k : k = KeyOf(o)
  OBVIOUS
<1>2. PICK had : had = IF o \in DOMAIN meta THEN meta[o] ELSE ord[o].filled - n
  OBVIOUS
<1>3. PICK over \in BOOLEAN : over <=> had + n >= ord[o].qty
  OBVIOUS
<1>4. PICK lk : lk = IF o \notin DOMAIN meta /\ ord[o].st \in Open /\ pending[k] = 0
                     THEN o ELSE pending[k]
  OBVIOUS
<1>5. /\ pending' = [pending EXCEPT ![k] = IF over /\ lk = o THEN 0 ELSE lk]
      /\ meta' = IF over THEN Without(meta, o)
                 ELSE IF o \in DOMAIN meta \/ ord[o].st \in Open
                 THEN With(meta, o, (had + n))
                 ELSE meta
  BY <1>1, <1>2, <1>3, <1>4, Zenon DEF Count
<1>6. /\ k \in Keys /\ pending[k] \in Orders \cup {0} /\ lk \in Orders \cup {0}
      /\ had \in Nat /\ ord[o].filled \in Nat /\ ord[o].qty \in Nat /\ brk[o].exec \in Nat
      /\ 0 \notin Orders
  BY SMTT(40), <1>0, <1>1, <1>2, <1>4 DEF KeyOf, Keys, OrderRows, BrkRows, TypeInv, Orders, LotAssumption
<1>7. /\ pending' \in [Keys -> Orders \cup {0}]
      /\ pending'[k] = IF over /\ lk = o THEN 0 ELSE lk
      /\ \A j \in Keys \ {k} : pending'[j] = pending[j]
  BY <1>0, <1>5, <1>6 DEF TypeInv
<1>8. ~ord[o].adopted \/ o \in relock => had + n = ord[o].filled
  <2>1. o \in DOMAIN meta /\ (~ord[o].adopted \/ o \in relock) => meta[o] + n = ord[o].filled
    BY <1>0 DEF MetaOK, OnItsWay
  <2>2. o \notin DOMAIN meta => had + n = ord[o].filled
    BY <1>0, <1>2, <1>6
  <2>3. QED
    BY <1>2, <2>1, <2>2
<1>9. over => ~Covered(o)
  <2>1. SUFFICES ASSUME over, Covered(o) PROVE FALSE
    OBVIOUS
  <2>2. ord[o].st \notin {"PENDING_NEW", "UNKNOWN"}
    BY <1>0 DEF OrderOK
  <2>3. ~ord[o].adopted \/ (o \in relock /\ ord[o].st \in Open)
    BY <2>1, <2>2 DEF Covered
  <2>4. ord[o].filled >= ord[o].qty
    BY <1>3, <1>6, <1>8, <2>1, <2>3
  <2>5. ord[o].st \in Final
    BY <1>0, <2>4 DEF OrderOK
  <2>6. QED
    BY <1>0, <2>1, <2>2, <2>5 DEF Covered, OrderOK, Open, Final
<1>10. LocksOK'
  <2>1. SUFFICES ASSUME NEW p \in Orders, Covered(p) PROVE pending'[KeyOf(p)] = p
    BY DEF LocksOK, Covered, Working, KeyOf
  <2>2. KeyOf(p) \in Keys /\ pending[KeyOf(p)] = p
    BY <1>0, <2>1 DEF LocksOK, KeyOf, Keys, OrderRows
  <2>3. CASE KeyOf(p) # k
    BY <1>7, <2>2, <2>3
  <2>4. CASE KeyOf(p) = k
    <3>1. pending[k] = p /\ p # 0 /\ lk = p
      BY <1>4, <1>6, <2>2, <2>4
    <3>2. ~(over /\ lk = o)
      BY <1>9, <2>1, <3>1
    <3>3. QED
      BY <1>7, <2>4, <3>1, <3>2
  <2>5. QED
    BY <2>3, <2>4
<1>11. /\ \A p \in DOMAIN meta' \ {o} : p \in DOMAIN meta /\ meta'[p] = meta[p]
       /\ o \in DOMAIN meta' => ~over /\ meta'[o] = had + n
  <2>1. CASE over
    <3>1. PICK f : f = Without(meta, o)
      OBVIOUS
    <3>2. DOMAIN f = DOMAIN meta \ {o} /\ \A p \in DOMAIN meta \ {o} : f[p] = meta[p]
      BY <3>1 DEF Without, Restrict
    <3>3. meta' = f
      BY <1>5, <2>1, <3>1
    <3>4. QED
      BY <3>2, <3>3
  <2>2. CASE ~over /\ (o \in DOMAIN meta \/ ord[o].st \in Open)
    <3>1. PICK c : c = had + n
      OBVIOUS
    <3>2. meta' = With(meta, o, c)
      BY <1>5, <2>2, <3>1
    <3>3. /\ DOMAIN meta' = DOMAIN meta \cup {o} /\ meta'[o] = c
          /\ \A p \in DOMAIN meta \ {o} : meta'[p] = meta[p]
      BY <3>2 DEF With
    <3>4. QED
      BY <2>2, <3>1, <3>3
  <2>3. CASE ~over /\ ~(o \in DOMAIN meta \/ ord[o].st \in Open)
    BY <1>5, <2>3
  <2>4. QED
    BY <2>1, <2>2, <2>3
<1>12. /\ DOMAIN meta' \subseteq Orders
       /\ \A p \in DOMAIN meta' : meta'[p] \in Nat /\ lot'[ord[p].lot].st # "none"
  <2>1. had + n \in Nat /\ DOMAIN meta \subseteq Orders
    BY <1>0, <1>6 DEF TypeInv
  <2>2. ASSUME NEW p \in DOMAIN meta'
        PROVE  p \in Orders /\ meta'[p] \in Nat /\ lot'[ord[p].lot].st # "none"
    <3>1. p \in Orders /\ meta'[p] \in Nat
      BY <1>0, <1>11, <2>1 DEF TypeInv
    <3>2. lot[ord[p].lot].st # "none" /\ ord[p].lot \in Lots
      BY <1>0, <1>11, <3>1 DEF OwnedOK, OrderRows
    <3>3. QED
      BY <3>1, <3>2
  <2>3. QED
    BY <2>2
<1>13. MetaOK'
  <2>1. SUFFICES ASSUME NEW p \in DOMAIN meta', ~ord[p].adopted \/ p \in relock
                 PROVE  meta'[p] + 0 = ord[p].filled
    BY DEF MetaOK, OnItsWay
  <2>2. CASE p = o
    BY <1>6, <1>8, <1>11, <2>1, <2>2
  <2>3. CASE p # o
    <3>1. p \in DOMAIN meta /\ meta'[p] = meta[p] /\ OnItsWay(p) = 0
      BY <1>11, <2>3 DEF OnItsWay
    <3>2. QED
      BY <1>0, <2>1, <3>1 DEF MetaOK
  <2>4. QED
    BY <2>2, <2>3
<1>14. QED
  BY <1>7, <1>10, <1>12, <1>13

\* A fill reaches the book.
LEMMA OnFillStep == ASSUME LotAssumption, IInv, OnFill PROVE IInv'
<1>0. /\ TypeInv /\ DownOK /\ OrdersOK /\ LocksOK /\ OwnedOK /\ MetaOK /\ PollOK /\ BookOK
      /\ poll.fill.at = "book" /\ poll \in Polls /\ poll.fill \in FillRecs
      /\ ord \in [Orders -> OrderRows] /\ row \in [Lots -> LotRows] /\ lot \in [Lots -> LotRows]
      /\ UNCHANGED <<ord, row, brk, slot, barrier, control, main, relock, phase>>
  BY DEF IInv, TypeInv, OnFill, Polls, table, control
<1>1. PICK o : o = poll.fill.o
  OBVIOUS
<1>2. PICK n : n = poll.fill.n
  OBVIOUS
<1>3. PICK l : l = ord[o].lot
  OBVIOUS
<1>4. PICK m : m = AfterApply(o, n)
  OBVIOUS
<1>5. /\ o \in Orders /\ n \in Nat /\ n > 0 /\ l \in Lots /\ poll.by # "none" /\ Up
      /\ Booking(l) /\ \A j \in Lots \ {l} : ~Booking(j)
      /\ \A j \in Lots : ~Retiring(j)
  BY <1>0, <1>1, <1>2, <1>3 DEF PollOK, FillRecs, OrderRows, Booking, Retiring, DownOK, NoPoll
<1>6. PICK f : f = poll'.fill
  OBVIOUS
<1>7. /\ poll' \in Polls /\ poll'.by = poll.by /\ poll'.recs = poll.recs
      /\ poll'.fill.at \in {"none", "adopt"} /\ (poll'.fill.at = "adopt" => poll'.fill = [poll.fill EXCEPT !.at = "adopt"])
  <2>1. \/ poll' = [poll EXCEPT !.fill = NoFill]
        \/ poll' = [poll EXCEPT !.fill = [@ EXCEPT !.at = "adopt"]]
        \/ poll' = [poll EXCEPT !.fill.at = "adopt"]
    BY DEF OnFill
  <2>2. NoFill \in FillRecs /\ NoFill.at = "none"
    BY DEF NoFill, FillRecs
  <2>3. [poll.fill EXCEPT !.at = "adopt"] \in FillRecs
    BY <1>0 DEF FillRecs
  <2>4. QED
    BY <1>0, <2>1, <2>2, <2>3 DEF Polls, FillRecs
<1>8. PollOK'
  <2>1. poll'.fill.at = "adopt" => poll'.fill.o = poll.fill.o /\ poll'.fill.n = poll.fill.n
    BY <1>0, <1>7 DEF FillRecs
  <2>2. QED
    BY <1>0, <1>5, <1>7, <2>1 DEF PollOK
<1>9. \A j \in Lots : ~Booking(j)' /\ ~Retiring(j)'
  BY <1>7 DEF Booking, Retiring
<1>10. ASSUME lot[l].st # "none"
       PROVE  row[l] = m
  BY <1>0, <1>1, <1>2, <1>3, <1>4, <1>5, <1>10 DEF BookOK, InMemory, After, AfterApply
<1>11. ASSUME \/ lot[l].st # "none" /\ lot' = [lot EXCEPT ![l] = m]
              \/ lot[l].st = "none" /\ lot' = [lot EXCEPT ![l] = row[l]] /\ row[l].st # "none"
              \/ lot[l].st = "none" /\ lot' = lot /\ ~(row[l].st = "HOLDING" /\ row[l].qty > 0)
       PROVE  /\ lot' \in [Lots -> LotRows] /\ BookOK'
              /\ \A j \in Lots : lot[j].st # "none" => lot'[j].st # "none"
  <2>1. \/ lot' = [lot EXCEPT ![l] = row[l]] /\ row[l].st # "none"
        \/ lot[l].st = "none" /\ lot' = lot /\ ~(row[l].st = "HOLDING" /\ row[l].qty > 0)
    <3>1. lot[l].st # "none" => row[l].st # "none"
      BY <1>0, <1>5, TrackedHasRow DEF Tracked
    <3>2. QED
      BY <1>10, <1>11, <3>1
  <2>2. lot' \in [Lots -> LotRows] /\ \A j \in Lots \ {l} : lot'[j] = lot[j]
    BY <1>0, <1>5, <2>1
  <2>3. lot'[l].st # "none" => lot'[l] = row[l]
    BY <1>0, <1>5, <2>1
  <2>4. lot'[l].st = "none" => row[l].st \notin {"WATCHING", "HOLDING"}
    BY <1>0, <1>5, <2>1 DEF BookOK, OnlyInRow
  <2>5. Sound(row[l]) /\ Sound(lot'[l])
    BY <1>0, <1>5, <2>1 DEF BookOK
  <2>6. ASSUME NEW j \in Lots
        PROVE  /\ Sound(row[j]) /\ Sound(lot'[j])
               /\ lot'[j].st # "none" => lot'[j] = row[j]
               /\ lot'[j].st = "none" => row[j].st \notin {"WATCHING", "HOLDING"}
    <3>1. CASE j = l
      BY <2>3, <2>4, <2>5, <3>1
    <3>2. CASE j # l
      BY <1>0, <1>5, <2>2, <3>2 DEF BookOK, InMemory, OnlyInRow
    <3>3. QED
      BY <3>1, <3>2
  <2>7. BookOK'
    BY <1>0, <1>9, <2>6 DEF BookOK, InMemory, OnlyInRow
  <2>8. QED
    BY <1>5, <2>1, <2>2, <2>7
<1>12. CASE lot[l].st # "none" /\ lot' = [lot EXCEPT ![l] = m] /\ Count(o, n)
  <2>1. /\ lot' \in [Lots -> LotRows] /\ BookOK'
        /\ \A j \in Lots : lot[j].st # "none" => lot'[j].st # "none"
    BY <1>11, <1>12
  <2>2. /\ pending' \in [Keys -> Orders \cup {0}] /\ DOMAIN meta' \subseteq Orders
        /\ \A p \in DOMAIN meta' : meta'[p] \in Nat /\ lot'[ord[p].lot].st # "none"
        /\ LocksOK' /\ MetaOK'
    <3>1. poll'.fill.at # "book"
      BY <1>7
    <3>2. QED
      BY <1>0, <1>1, <1>2, <1>3, <1>5, <1>12, <2>1, <3>1, CountIsRight
  <2>3. slot' \in Lots \cup {0}
    BY <1>0 DEF TypeInv
  <2>4. QED
    BY <1>0, <1>5, <1>7, <1>8, <2>1, <2>2, <2>3, LotsMove
<1>13. CASE /\ lot[l].st = "none"
            /\ \/ row[l].st = "HOLDING" /\ row[l].qty > 0 /\ lot' = [lot EXCEPT ![l] = row[l]]
               \/ ~(row[l].st = "HOLDING" /\ row[l].qty > 0) /\ lot' = lot
            /\ (ord[o].st \notin Open => UNCHANGED <<pending, meta>>)
  <2>1. ord[o].st \notin Open /\ o \notin DOMAIN meta
    BY <1>0, <1>3, <1>5, <1>13 DEF OwnedOK
  <2>2. UNCHANGED <<pending, meta>>
    BY <1>13, <2>1
  <2>3. /\ lot' \in [Lots -> LotRows] /\ BookOK'
        /\ \A j \in Lots : lot[j].st # "none" => lot'[j].st # "none"
    BY <1>11, <1>13
  <2>4. LocksOK'
    BY <1>0, <2>2 DEF LocksOK, Covered, Working, KeyOf, Up
  <2>5. MetaOK'
    BY <1>0, <1>1, <1>7, <2>1, <2>2 DEF MetaOK, OnItsWay
  <2>6. /\ pending' \in [Keys -> Orders \cup {0}] /\ DOMAIN meta' \subseteq Orders
        /\ slot' \in Lots \cup {0}
        /\ \A p \in DOMAIN meta' : meta'[p] \in Nat /\ lot'[ord[p].lot].st # "none"
    BY <1>0, <1>5, <2>2, <2>3 DEF TypeInv, OwnedOK, OrderRows
  <2>7. QED
    BY <1>0, <1>5, <1>7, <1>8, <2>3, <2>4, <2>5, <2>6, LotsMove
<1>14. QED
  <2>1. \/ lot[l].st # "none" /\ lot' = [lot EXCEPT ![l] = m] /\ Count(o, n)
        \/ /\ lot[l].st = "none"
           /\ \/ row[l].st = "HOLDING" /\ row[l].qty > 0 /\ lot' = [lot EXCEPT ![l] = row[l]]
              \/ ~(row[l].st = "HOLDING" /\ row[l].qty > 0) /\ lot' = lot
           /\ (ord[o].st \notin Open => UNCHANGED <<pending, meta>>)
    BY ZenonT(60), <1>1, <1>2, <1>3, <1>4 DEF OnFill
  <2>2. QED
    BY <1>12, <1>13, <2>1

\* The lot of a fill takes the slot.
LEMMA AdoptStep == ASSUME LotAssumption, IInv, AdoptReopened \/ TakeSlot PROVE IInv'
<1>0. /\ TypeInv /\ DownOK /\ OrdersOK /\ LocksOK /\ OwnedOK /\ MetaOK /\ PollOK /\ BookOK
      /\ poll.fill.at \in {"adopt", "retire"} /\ poll \in Polls /\ poll.fill \in FillRecs
      /\ ord \in [Orders -> OrderRows] /\ row \in [Lots -> LotRows] /\ lot \in [Lots -> LotRows]
      /\ UNCHANGED <<ord, brk, pending, meta, barrier, control, main, relock, phase>>
      /\ slot \in Lots \cup {0} /\ 0 \notin Lots
  <2>1. /\ UNCHANGED <<ord, brk, pending, meta, barrier, control, main, relock, phase>>
        /\ poll.fill.at \in {"adopt", "retire"}
    BY DEF AdoptReopened, TakeSlot, table, control
  <2>2. 0 \notin Lots
    BY DEF Lots, LotAssumption
  <2>3. QED
    BY <2>1, <2>2 DEF IInv, TypeInv, Polls
<1>1. /\ poll.by # "none" /\ Up /\ poll.fill.o \in Orders /\ ord[poll.fill.o].lot \in Lots
      /\ \A j \in Lots : ~Booking(j)
  BY <1>0 DEF PollOK, DownOK, NoPoll, OrderRows, Booking
<1>2. NoFill \in FillRecs /\ NoFill.at = "none"
  BY DEF NoFill, FillRecs
<1>3. ASSUME poll' \in Polls, poll'.by = poll.by, poll'.recs = poll.recs,
             poll'.fill.at \in {"none", "retire"}, PollOK',
             row' \in [Lots -> LotRows], lot' \in [Lots -> LotRows], slot' \in Lots \cup {0},
             \A l \in Lots : row[l].st # "none" => row'[l].st # "none",
             \A l \in Lots : lot[l].st # "none" => lot'[l].st # "none",
             BookOK'
      PROVE  IInv'
  <2>1. LocksOK'
    BY <1>0 DEF LocksOK, Covered, Working, KeyOf, Up
  <2>2. MetaOK'
    BY <1>0, <1>3 DEF MetaOK, OnItsWay
  <2>3. /\ pending' \in [Keys -> Orders \cup {0}] /\ DOMAIN meta' \subseteq Orders
        /\ \A p \in DOMAIN meta' : meta'[p] \in Nat /\ lot'[ord[p].lot].st # "none"
    BY <1>0, <1>1, <1>3 DEF TypeInv, OwnedOK, OrderRows
  <2>4. QED
    BY <1>0, <1>1, <1>3, <2>1, <2>2, <2>3, LotsMove
<1>4. ASSUME poll' = [poll EXCEPT !.fill = NoFill]
      PROVE  /\ poll' \in Polls /\ poll'.by = poll.by /\ poll'.recs = poll.recs
             /\ poll'.fill.at = "none" /\ PollOK' /\ \A j \in Lots : ~Booking(j)' /\ ~Retiring(j)'
  BY <1>0, <1>2, <1>4 DEF Polls, PollOK, Booking, Retiring
<1>5. CASE AdoptReopened /\ lot' = lot /\ poll' = [poll EXCEPT !.fill = NoFill]
  <2>1. row' = row /\ slot' \in Lots \cup {0} /\ \A j \in Lots : ~Retiring(j)
    BY <1>0, <1>1, <1>5 DEF AdoptReopened, table, Retiring
  <2>2. BookOK'
    BY <1>0, <1>1, <1>4, <1>5, <2>1 DEF BookOK, InMemory, OnlyInRow
  <2>3. QED
    BY <1>0, <1>3, <1>4, <1>5, <2>1, <2>2
<1>6. CASE /\ AdoptReopened /\ slot # 0 /\ slot' = slot
           /\ lot[slot].st = "WATCHING" /\ lot[slot].qty = 0
           /\ lot' = [lot EXCEPT ![slot].st = "CANCELLED"]
           /\ poll' = [poll EXCEPT !.fill.at = "retire", !.fill.old = slot]
  <2>0. PICK idle : idle = slot
    OBVIOUS
  <2>1. /\ row' = row /\ idle \in Lots /\ slot' \in Lots \cup {0}
        /\ \A j \in Lots : ~Retiring(j)
        /\ lot[idle].st = "WATCHING" /\ lot[idle].qty = 0
        /\ lot' = [lot EXCEPT ![idle].st = "CANCELLED"]
        /\ poll' = [poll EXCEPT !.fill.at = "retire", !.fill.old = idle]
    BY <1>0, <1>6, <2>0 DEF AdoptReopened, table, Retiring
  <2>2. PICK f : f = [poll.fill EXCEPT !.at = "retire", !.old = idle]
    OBVIOUS
  <2>3. /\ f \in FillRecs /\ f.at = "retire" /\ f.old = idle /\ f.o = poll.fill.o
        /\ f.n = poll.fill.n
    BY <1>0, <2>1, <2>2 DEF FillRecs
  <2>4. poll' = [poll EXCEPT !.fill = f]
    BY <1>0, <2>1, <2>2 DEF Polls, FillRecs
  <2>5. poll' \in Polls /\ poll'.by = poll.by /\ poll'.recs = poll.recs /\ poll'.fill = f
    BY <1>0, <2>3, <2>4 DEF Polls
  <2>6. row[idle] = [st |-> "WATCHING", qty |-> 0]
    BY <1>0, <1>1, <2>1 DEF BookOK, InMemory, LotRows
  <2>7. /\ lot' \in [Lots -> LotRows] /\ lot'[idle] = [st |-> "CANCELLED", qty |-> 0]
        /\ \A j \in Lots \ {idle} : lot'[j] = lot[j]
    BY <1>0, <2>1, <2>6 DEF LotRows, LotSt
  <2>8. PollOK'
    <3>1. idle \in Tracked'
      BY <2>1, <2>7 DEF Tracked
    <3>2. QED
      BY <1>0, <1>1, <2>3, <2>5, <3>1 DEF PollOK
  <2>9. \A j \in Lots : ~Booking(j)' /\ (Retiring(j)' <=> j = idle)
    BY <2>3, <2>5 DEF Booking, Retiring
  <2>10. BookOK'
    <3>1. ASSUME NEW j \in Lots \ {idle}
          PROVE  /\ Sound(row'[j]) /\ Sound(lot'[j])
                 /\ lot'[j].st # "none" => InMemory(j)'
                 /\ lot'[j].st = "none" => OnlyInRow(j)'
      BY <1>0, <1>1, <2>1, <2>7, <2>9 DEF BookOK, InMemory, OnlyInRow
    <3>2. Sound(row'[idle]) /\ Sound(lot'[idle]) /\ InMemory(idle)' /\ lot'[idle].st # "none"
      BY <2>1, <2>6, <2>7, <2>9 DEF Sound, InMemory
    <3>3. QED
      BY <2>1, <3>1, <3>2 DEF BookOK
  <2>11. \A j \in Lots : lot[j].st # "none" => lot'[j].st # "none"
    BY <2>7
  <2>12. QED
    BY <1>0, <1>3, <1>6, <2>1, <2>3, <2>5, <2>7, <2>8, <2>10, <2>11
<1>7. CASE TakeSlot
  <2>1. PICK old : old = poll.fill.old
    OBVIOUS
  <2>2. /\ lot' = lot /\ row' = [row EXCEPT ![old].st = "CANCELLED"] /\ slot' \in Lots
        /\ poll' = [poll EXCEPT !.fill = NoFill] /\ poll.fill.at = "retire"
    BY <1>1, <1>7, <2>1 DEF TakeSlot
  <2>3. old \in Lots /\ lot[old].st # "none" /\ \A j \in Lots : Retiring(j) <=> j = old
    BY <1>0, <2>1, <2>2 DEF PollOK, Tracked, Retiring
  <2>4. lot[old] = [st |-> "CANCELLED", qty |-> 0] /\ row[old] = [st |-> "WATCHING", qty |-> 0]
    BY <1>0, <1>1, <2>3 DEF BookOK, InMemory
  <2>5. /\ row' \in [Lots -> LotRows] /\ row'[old] = [st |-> "CANCELLED", qty |-> 0]
        /\ \A j \in Lots \ {old} : row'[j] = row[j]
    BY <1>0, <2>2, <2>3, <2>4 DEF LotRows, LotSt
  <2>6. BookOK'
    <3>1. ASSUME NEW j \in Lots \ {old}
          PROVE  /\ Sound(row'[j]) /\ Sound(lot'[j])
                 /\ lot'[j].st # "none" => InMemory(j)'
                 /\ lot'[j].st = "none" => OnlyInRow(j)'
      BY <1>0, <1>1, <1>4, <2>2, <2>3, <2>5 DEF BookOK, InMemory, OnlyInRow
    <3>2. Sound(row'[old]) /\ Sound(lot'[old]) /\ InMemory(old)' /\ lot'[old].st # "none"
      BY <1>4, <2>2, <2>3, <2>4, <2>5 DEF Sound, InMemory
    <3>3. QED
      BY <2>3, <3>1, <3>2 DEF BookOK
  <2>7. \A j \in Lots : row[j].st # "none" => row'[j].st # "none"
    BY <2>5
  <2>8. QED
    BY <1>0, <1>3, <1>4, <2>2, <2>5, <2>6, <2>7
<1>8. QED
  BY <1>0, <1>5, <1>6, <1>7 DEF AdoptReopened

\* The resolver: orders are adopted or given up, locked again, and expire.
LEMMA RelockStep == ASSUME LotAssumption, IInv, NEW o \in relock, Relock(o) PROVE IInv'
<1>0. /\ TypeInv /\ DownOK /\ OrdersOK /\ LocksOK /\ RelockOK /\ OwnedOK /\ MetaOK /\ PollOK
      /\ BookOK /\ o \in Orders /\ ord[o].adopted
      /\ UNCHANGED <<ord, row, brk, slot, barrier, control, main, poll, phase>>
      /\ relock' = relock \ {o} /\ Up /\ ord \in [Orders -> OrderRows]
      /\ lot \in [Lots -> LotRows] /\ pending \in [Keys -> Orders \cup {0}]
  BY DEF IInv, TypeInv, Relock, table, control, DownOK, RelockOK
<1>1. PICK k : k = KeyOf(o)
  OBVIOUS
<1>2. k \in Keys /\ ord[o].lot \in Lots /\ ord[o] \in OrderRows
  BY <1>0, <1>1 DEF KeyOf, Keys, OrderRows
<1>3. UNCHANGED <<lot, pending>>
  <2>1. CASE ord[o].st \in Open
    <3>1. lot[ord[o].lot].st # "none" /\ pending[k] = o
      BY <1>0, <1>1, <2>1 DEF OwnedOK, LocksOK, Covered
    <3>2. PICK l : l = ord[o].lot
      OBVIOUS
    <3>3. lot' = [lot EXCEPT ![l] = lot[l]] /\ pending' = [pending EXCEPT ![k] = o]
      BY <1>1, <2>1, <3>1, <3>2 DEF Relock, Known
    <3>4. QED
      BY <1>0, <1>2, <3>1, <3>2, <3>3
  <2>2. CASE ord[o].st \notin Open
    BY <2>2 DEF Relock
  <2>3. QED
    BY <2>1, <2>2
<1>4. /\ DOMAIN meta' \subseteq DOMAIN meta \cup {o} /\ \A p \in DOMAIN meta' \ {o} : meta'[p] = meta[p]
      /\ o \in DOMAIN meta' => meta'[o] \in Nat /\ lot[ord[o].lot].st # "none"
  <2>1. CASE ord[o].st \in Open
    <3>1. PICK n : n = ord[o].filled
      OBVIOUS
    <3>2. meta' = With(meta, o, n) /\ n \in Nat
      BY <1>2, <2>1, <3>1 DEF Relock, OrderRows
    <3>3. QED
      BY <1>0, <2>1, <3>2 DEF With, OwnedOK
  <2>2. CASE ord[o].st \notin Open
    BY <1>0, <2>2 DEF Relock, TypeInv, OwnedOK
  <2>3. QED
    BY <2>1, <2>2
<1>5. LocksOK'
  BY <1>0, <1>3 DEF LocksOK, Covered, Working, KeyOf, Up
<1>6. MetaOK'
  BY <1>0, <1>4 DEF MetaOK, OnItsWay
<1>7. PollOK' /\ BookOK'
  BY <1>0, <1>3 DEF PollOK, Tracked, BookOK, InMemory, OnlyInRow, Booking, Retiring
<1>8. /\ row' \in [Lots -> LotRows] /\ slot' \in Lots \cup {0} /\ poll' \in Polls
      /\ DOMAIN meta' \subseteq Orders
      /\ \A p \in DOMAIN meta' : meta'[p] \in Nat /\ lot'[ord[p].lot].st # "none"
  BY <1>0, <1>3, <1>4 DEF TypeInv, OwnedOK
<1>9. QED
  BY <1>0, <1>3, <1>5, <1>6, <1>7, <1>8, LotsMove

\* The resolver adopts accepted orders and presumes the others rejected.
LEMMA ResolveStep == ASSUME LotAssumption, IInv, Resolve PROVE IInv'
<1>0. /\ TypeInv /\ OrdersOK /\ LatestOK /\ LocksOK /\ RelockOK /\ OwnedOK /\ MetaOK /\ PollOK
      /\ BookOK /\ MainOK /\ main \in Mains /\ MainFine(main) /\ ord \in [Orders -> OrderRows]
      /\ Up /\ Up' /\ relock = {}
      /\ UNCHANGED <<row, brk, lot, slot, pending, meta, barrier, stopped, flatReq, phase,
                     crashes, main, poll>>
  BY DEF IInv, TypeInv, MainOK, Resolve, Up, book, control
<1>1. PICK known : known = {o \in Orders : ord[o].st = "UNKNOWN" /\ brk[o].at # "flight"}
  OBVIOUS
<1>2. PICK yes : yes = {o \in known : brk[o].at \in {"live", "gone"}}
  OBVIOUS
<1>3. /\ ord' = [o \in Orders |->
             IF o \in yes THEN [ord[o] EXCEPT !.st = "NEW", !.no = TRUE, !.adopted = TRUE]
             ELSE IF o \in known THEN [ord[o] EXCEPT !.st = "REJECTED"] ELSE ord[o]]
      /\ relock' = yes /\ yes \subseteq Orders
  BY <1>1, <1>2 DEF Resolve
<1>4. ord' \in [Orders -> OrderRows]
  BY ZenonT(60), <1>0, <1>3 DEF OrderRows, Open, Final
<1>5. ASSUME NEW o \in Orders
      PROVE  /\ ord'[o].lot = ord[o].lot /\ ord'[o].side = ord[o].side /\ ord'[o].qty = ord[o].qty
             /\ ord'[o].filled = ord[o].filled
             /\ \/ /\ o \in yes /\ ord[o].st = "UNKNOWN" /\ ord'[o].st = "NEW"
                   /\ ord'[o].no /\ ord'[o].adopted
                \/ /\ o \notin yes /\ ord[o].st = "UNKNOWN" /\ ord'[o].st = "REJECTED"
                   /\ brk[o].at \notin {"flight", "live"}
                   /\ ord'[o].no = ord[o].no /\ ord'[o].adopted = ord[o].adopted
                \/ o \notin yes /\ ord'[o] = ord[o]
  <2>1. ord[o] \in OrderRows
    BY <1>0
  <2>2. CASE o \in yes
    BY <1>1, <1>2, <1>3, <2>1, <2>2 DEF OrderRows
  <2>3. CASE o \in known \ yes
    BY <1>1, <1>2, <1>3, <2>1, <2>3 DEF OrderRows
  <2>4. CASE o \notin known
    BY <1>2, <1>3, <2>4
  <2>5. QED
    BY <2>2, <2>3, <2>4
<1>6. TypeInv' /\ DownOK'
  BY <1>0, <1>3, <1>4 DEF TypeInv, DownOK
<1>7. Calm
  <2>1. ASSUME NEW o \in Orders
        PROVE  (Used(o)' <=> Used(o)) /\ (Covered(o)' => Covered(o))
    <3>1. OrderOK(o) /\ Open \cap (Final \cup {"none"}) = {}
      BY <1>0 DEF OrdersOK, Open, Final
    <3>2. o \in yes => ~ord[o].adopted /\ ord[o].st \in Open
      BY <1>5, <3>1 DEF OrderOK, Open
    <3>3. o \notin yes => ord'[o].st \in Final \/ ord'[o] = ord[o]
      BY <1>5 DEF Final
    <3> QED BY <1>0, <1>3, <1>5, <3>1, <3>2, <3>3 DEF Used, Covered
  <2> QED BY <1>5, <2>1 DEF Calm
<1>8. OrdersOK'
  <2>1. ASSUME NEW o \in Orders PROVE OrderOK(o)'
    <3>1. OrderOK(o)
      BY <1>0 DEF OrdersOK
    <3>2. QED
      BY <1>0, <1>5, <3>1 DEF OrderOK, Used, Working, Open, Final
  <2>2. QED
    BY <1>0, <1>7, <2>1 DEF OrdersOK, Calm
<1>9. LatestOK' /\ LocksOK'
  BY <1>0, <1>7, CalmKeeps
<1>10. RelockOK'
  BY <1>3, <1>5 DEF RelockOK, Used
<1>11. OwnedOK'
  BY <1>0, <1>5 DEF OwnedOK, Open
<1>12. MetaOK'
  <2>1. SUFFICES ASSUME NEW o \in DOMAIN meta, ~ord'[o].adopted \/ o \in relock'
                 PROVE  meta[o] + OnItsWay(o) = ord'[o].filled
    BY <1>0 DEF MetaOK, OnItsWay
  <2>2. o \in Orders /\ OrderOK(o)
    BY <1>0, <2>1 DEF TypeInv, OrdersOK
  <2>3. ~ord[o].adopted
    BY <1>3, <1>5, <2>1, <2>2 DEF OrderOK
  <2>4. QED
    BY <1>0, <1>5, <2>1, <2>2, <2>3 DEF MetaOK
<1>13. PollOK'
  BY <1>0, <1>5 DEF PollOK, Tracked
<1>14. MainOK'
  <2>1. PICK m \in Mains : m = main
    BY <1>0
  <2>2. /\ m.at = "ack" => ord'[m.order].st = ord[m.order].st
        /\ m.at \in {"cancelling", "cancelled"} =>
             ord'[m.order].st \notin {"none", "PENDING_NEW", "UNKNOWN"}
        /\ m.at = "cancelled" => brk'[m.order].at = "gone"
    BY <1>0, <1>5, <2>1 DEF MainFine
  <2>3. Tracked' = Tracked /\ MainFine(m)
    BY <1>0, <2>1 DEF Tracked
  <2>4. MainFine(m)'
    BY <1>7, <2>2, <2>3, MainKeeps
  <2>5. QED
    BY <1>0, <2>1, <2>4 DEF MainOK
<1>15. BookOK'
  <2>1. \A l \in Lots : (Booking(l)' <=> Booking(l)) /\ (Retiring(l)' <=> Retiring(l))
    BY <1>0, <1>5 DEF Booking, Retiring, PollOK
  <2>2. poll.fill.at = "book" => ord'[poll.fill.o].side = ord[poll.fill.o].side
    BY <1>0, <1>5 DEF PollOK
  <2>3. QED
    BY <1>0, <2>1, <2>2 DEF BookOK, InMemory, OnlyInRow, Booking
<1>16. QED
  BY <1>6, <1>8, <1>9, <1>10, <1>11, <1>12, <1>13, <1>14, <1>15 DEF IInv

\* An order ends that was over at the broker; the stop is pressed.
LEMMA QuietStep ==
  ASSUME LotAssumption, IInv, Stop \/ \E o \in Orders : Expire(o)
  PROVE  IInv'
<1>0. /\ TypeInv /\ OrdersOK /\ DownOK /\ MainOK /\ main \in Mains /\ MainFine(main)
      /\ ord \in [Orders -> OrderRows] /\ UNCHANGED <<row, brk, lot, slot, pending, meta,
                                                      barrier, crashes, main, poll, relock, phase>>
  BY DEF IInv, TypeInv, MainOK, Stop, Expire, table, book, control
<1>1. PICK m \in Mains : m = main
  BY <1>0
<1>2. /\ ord' \in [Orders -> OrderRows] /\ Calm /\ \A p \in Orders : Kept(p) /\ OrderOK(p)'
      /\ m.at = "ack" => ord'[m.order].st = ord[m.order].st
      /\ m.at \in {"cancelling", "cancelled"} =>
           ord'[m.order].st \notin {"none", "PENDING_NEW", "UNKNOWN"}
  <2>1. CASE Stop
    <3>1. ord' = ord
      BY <2>1 DEF Stop, table
    <3>2. QED
      BY <1>0, <1>1, <3>1, SameOrders DEF MainFine
  <2>2. CASE \E o \in Orders : Expire(o)
    <3>1. PICK o \in Orders : Expire(o)
      BY <2>2
    <3>2. PICK r : r = [ord[o] EXCEPT !.st = "EXPIRED"]
      OBVIOUS
    <3>3. /\ r \in OrderRows /\ r.lot = ord[o].lot /\ r.side = ord[o].side /\ r.qty = ord[o].qty
          /\ r.no = ord[o].no /\ r.filled = ord[o].filled /\ r.adopted = ord[o].adopted
          /\ r.st = "EXPIRED"
      BY <1>0, <3>2 DEF OrderRows, Final
    <3>4. /\ ord' = [ord EXCEPT ![o] = r] /\ ord[o].st \in {"NEW", "PARTIALLY_FILLED"}
          /\ ~Working(o) /\ Used(o)
      BY <1>0, <3>1, <3>2 DEF Expire, Working, Used
    <3>5. /\ ord' \in [Orders -> OrderRows] /\ Calm /\ \A p \in Orders : Kept(p) /\ OrderOK(p)'
          /\ ord'[o] = r /\ \A p \in Orders \ {o} : ord'[p] = ord[p]
      BY <1>0, <3>3, <3>4, OneOrder DEF Open, Final
    <3>6. QED
      BY <1>0, <1>1, <3>3, <3>4, <3>5 DEF MainFine
  <2>3. QED
    BY <2>1, <2>2
<1>3. MainFine(m)'
  <2>1. Tracked' = Tracked /\ MainFine(m) /\ (m.at = "cancelled" => brk'[m.order].at = "gone")
    BY <1>0, <1>1 DEF Tracked, MainFine
  <2>2. QED
    BY <1>2, <2>1, MainKeeps
<1>4. /\ stopped' \in BOOLEAN /\ flatReq' \in BOOLEAN /\ crashes' \in Nat
      /\ phase' \in {"down", "hydrating", "up", "done"} /\ brk' \in [Orders -> BrkRows]
      /\ \A p \in Orders : brk[p].exec \in Nat /\ brk'[p].exec = brk[p].exec
      /\ pending' \in [Keys -> Orders \cup {0}]
      /\ barrier' \in [sell : SUBSET Lots, buy : SUBSET Lots, start : BOOLEAN]
      /\ Up' <=> Up
  BY <1>0 DEF Stop, Expire, control, TypeInv, BrkRows, Up
<1>5. (~Up => m = Idle) /\ (poll.by = "main" => m.at = "polling") /\ main' = m
  BY <1>0, <1>1 DEF DownOK, MainOK
<1>6. QED
  BY <1>0, <1>2, <1>3, <1>4, <1>5, OrdersMove

\* A crash loses the book; the tables and the broker stay.
LEMMA CrashStep == ASSUME LotAssumption, IInv, Crash PROVE IInv'
<1>0. /\ TypeInv /\ OrdersOK /\ LatestOK /\ BookOK /\ UNCHANGED <<ord, row, brk, stopped>>
      /\ phase' = "down" /\ flatReq' = FALSE /\ crashes' = crashes + 1
      /\ lot' = [l \in Lots |-> NoLot] /\ slot' = 0 /\ pending' = [k \in Keys |-> 0]
      /\ meta' = <<>> /\ barrier' = Clear /\ main' = Idle /\ poll' = NoPoll /\ relock' = {}
  BY DEF IInv, Crash, table
<1>1. /\ NoLot \in LotRows /\ NoLot.st = "none" /\ NoLot.qty = 0 /\ DOMAIN meta' = {}
      /\ NoPoll \in Polls /\ NoPoll.by = "none" /\ NoPoll.recs = {} /\ NoPoll.fill.at = "none"
  BY <1>0 DEF NoLot, LotRows, LotSt, NoPoll, NoFill, Polls, FillRecs
<1>2. TypeInv'
  <2>1. lot' \in [Lots -> LotRows] /\ pending' \in [Keys -> Orders \cup {0}] /\ slot' = 0
    BY <1>0, <1>1
  <2>2. /\ barrier' \in [sell : SUBSET Lots, buy : SUBSET Lots, start : BOOLEAN]
        /\ crashes' \in Nat /\ stopped' \in BOOLEAN /\ relock' \subseteq Orders
    BY <1>0 DEF Clear, TypeInv
  <2>3. /\ ord' \in [Orders -> OrderRows] /\ row' \in [Lots -> LotRows]
        /\ brk' \in [Orders -> BrkRows]
    BY <1>0 DEF TypeInv
  <2>4. main' \in Mains /\ poll' \in Polls /\ DOMAIN meta' = {}
    BY <1>0, <1>1, IdleIsFine
  <2>5. QED
    BY <1>0, <2>1, <2>2, <2>3, <2>4 DEF TypeInv
<1>3. DownOK' /\ ~Up'
  BY <1>0 DEF DownOK, Up
<1>4. OrdersOK'
  BY <1>0 DEF OrdersOK, OrderOK, Used, Working
<1>5. Calm
  BY <1>0 DEF Calm, Used, Covered, Working
<1>6. LatestOK'
  BY <1>0, <1>5, CalmKeeps
<1>7. LocksOK' /\ OwnedOK' /\ RelockOK' /\ MetaOK'
  BY <1>0, <1>1, <1>3 DEF LocksOK, OwnedOK, RelockOK, MetaOK
<1>8. PollOK'
  BY <1>0, <1>1 DEF PollOK
<1>9. MainOK'
  <2>1. MainFine(Idle)'
    BY DEF Idle, MainFine, Waits
  <2>2. QED
    BY <1>0, <1>1, <2>1 DEF MainOK
<1>10. BookOK'
  BY <1>0, <1>1, <1>3 DEF BookOK, Sound
<1>11. QED
  BY <1>2, <1>3, <1>4, <1>6, <1>7, <1>8, <1>9, <1>10 DEF IInv

\* hydrate: of the open orders of a (lot, side), the last one gets the lock, and no
\* earlier one has a right to it.
LEMMA HydrateStep == ASSUME LotAssumption, IInv, Hydrate PROVE IInv'
<1>0. /\ TypeInv /\ DownOK /\ OrdersOK /\ LatestOK /\ BookOK /\ ~Up
      /\ main = Idle /\ poll = NoPoll /\ relock = {} /\ phase' = "hydrating" /\ Up'
      /\ UNCHANGED <<row, brk, stopped, flatReq, crashes, poll, relock>>
      /\ ord \in [Orders -> OrderRows] /\ row \in [Lots -> LotRows]
  BY DEF IInv, TypeInv, Hydrate, DownOK, Up
<1>1. PICK o1 : o1 = [o \in Orders |-> IF ord[o].st = "PENDING_NEW"
                                       THEN [ord[o] EXCEPT !.st = "UNKNOWN"] ELSE ord[o]]
  OBVIOUS
<1>2. PICK open : open = {o \in Orders : o1[o].st \in Open}
  OBVIOUS
<1>3. PICK there : there = {l \in Lots : row[l].st \in {"WATCHING", "HOLDING"}}
                             \cup {ord[o].lot : o \in open}
  OBVIOUS
<1>4. /\ ord' = o1
      /\ lot' = [l \in Lots |-> IF l \in there THEN row[l] ELSE NoLot]
      /\ slot' \in Lots \cup {0}
      /\ pending' = [k \in Keys |->
           IF \E o \in open : KeyOf(o) = k THEN Max({o \in open : KeyOf(o) = k}) ELSE 0]
      /\ meta' = [o \in open |-> ord[o].filled]
      /\ barrier' = [Clear EXCEPT !.start = TRUE]
      /\ main' = [Idle EXCEPT !.at = "refresh", !.then = "up"]
  BY <1>1, <1>2, <1>3 DEF Hydrate
<1>5. ASSUME NEW o \in Orders
      PROVE  /\ ord'[o] \in OrderRows /\ ord[o] \in OrderRows /\ OrderOK(o)
             /\ ord'[o].lot = ord[o].lot /\ ord'[o].side = ord[o].side /\ ord'[o].qty = ord[o].qty
             /\ ord'[o].filled = ord[o].filled /\ ord'[o].adopted = ord[o].adopted
             /\ ord'[o].no = ord[o].no
             /\ \/ ord[o].st = "PENDING_NEW" /\ ord'[o].st = "UNKNOWN"
                \/ ord[o].st # "PENDING_NEW" /\ ord'[o].st = ord[o].st
             /\ (o \in open <=> ord'[o].st \in Open)
  <2>1. ord[o] \in OrderRows /\ OrderOK(o)
    BY <1>0 DEF OrdersOK
  <2>2. ord'[o] = IF ord[o].st = "PENDING_NEW" THEN [ord[o] EXCEPT !.st = "UNKNOWN"] ELSE ord[o]
    BY <1>1, <1>4
  <2>3. o \in open <=> ord'[o].st \in Open
    BY <1>2, <1>4
  <2>4. QED
    BY <2>1, <2>2, <2>3 DEF OrderRows, Open
<1>6. ord' \in [Orders -> OrderRows] /\ open \subseteq Orders
  BY <1>1, <1>2, <1>4, <1>5
<1>7. Calm
  BY <1>0, <1>5 DEF Calm, Used, Covered, Open
<1>8. OrdersOK'
  <2>1. ASSUME NEW o \in Orders PROVE OrderOK(o)'
    BY <1>0, <1>5 DEF OrderOK, Used, Working, Open, Final
  <2>2. QED
    BY <1>0, <1>7, <2>1 DEF OrdersOK, Calm
<1>9. LatestOK'
  BY <1>0, <1>7, CalmKeeps
<1>10. ASSUME NEW k \in Keys, NEW S, S = {o \in open : KeyOf(o) = k}, S # {}
       PROVE  /\ Max(S) \in Orders /\ \A o \in Orders : KeyOf(o) = k /\ Covered(o)' => Max(S) = o
  <2>1. MaxOrders \in Nat /\ S \in SUBSET (0 .. MaxOrders) /\ Orders \subseteq Nat
    <3>1. MaxOrders \in Nat
      BY DEF LotAssumption
    <3>2. Orders \subseteq Nat /\ Orders \subseteq 0 .. MaxOrders
      BY <3>1 DEF Orders
    <3>3. S \subseteq Orders
      BY <1>6, <1>10
    <3>4. QED
      BY <3>1, <3>2, <3>3
  <2>2. Max(S) \in S /\ \A y \in S : y <= Max(S)
    BY <1>10, <2>1, Greatest
  <2>3. PICK x \in S : x = Max(S)
    BY <2>2
  <2>4. x \in Orders /\ x \in open /\ KeyOf(x) = k /\ Used(x)'
    BY <1>5, <1>6, <1>10, <2>3 DEF Used, Open
  <2>5. ASSUME NEW o \in Orders, KeyOf(o) = k, Covered(o)' PROVE x = o
    <3>1. Covered(o) /\ Used(x) /\ KeyOf(o) = KeyOf(x)
      BY <1>7, <2>4, <2>5 DEF Calm
    <3>2. o \in S /\ o <= x
      <4>1. ord[o].st \in Open
        BY <1>0, <3>1, CoveredIsOpen
      <4>2. o \in open
        BY <1>5, <4>1 DEF Open
      <4>3. QED
        BY <1>10, <2>2, <2>3, <2>5, <4>2
    <3>3. ~(o < x)
      BY <1>0, <2>4, <3>1 DEF LatestOK
    <3>4. QED
      BY <2>1, <2>4, <3>2, <3>3
  <2>6. QED
    BY <2>3, <2>4, <2>5
<1>11. pending' \in [Keys -> Orders \cup {0}] /\ LocksOK'
  <2>1. ASSUME NEW k \in Keys
        PROVE  /\ pending'[k] \in Orders \cup {0}
               /\ \A o \in Orders : KeyOf(o) = k /\ Covered(o)' => pending'[k] = o
    <3>1. PICK S : S = {o \in open : KeyOf(o) = k}
      OBVIOUS
    <3>2. pending'[k] = IF S # {} THEN Max(S) ELSE 0
      BY <1>4, <3>1
    <3>3. CASE S # {}
      BY <1>10, <3>1, <3>2, <3>3
    <3>4. CASE S = {}
      <4>1. ASSUME NEW o \in Orders, KeyOf(o) = k, Covered(o)' PROVE FALSE
        <5>1. ord[o].st \in Open
          BY <1>0, <1>7, <4>1, CoveredIsOpen DEF Calm
        <5>2. o \in open
          BY <1>5, <5>1 DEF Open
        <5>3. QED
          BY <3>1, <3>4, <4>1, <5>2
      <4>2. QED
        BY <3>2, <3>4, <4>1
    <3>5. QED
      BY <3>3, <3>4
  <2>2. pending' \in [Keys -> Orders \cup {0}]
    BY <1>4, <2>1
  <2>3. ASSUME NEW o \in Orders, Covered(o)' PROVE pending'[KeyOf(o)'] = o
    <3>1. KeyOf(o)' = KeyOf(o) /\ KeyOf(o) \in Keys
      BY <1>5 DEF KeyOf, Keys, OrderRows
    <3>2. QED
      BY <2>1, <2>3, <3>1
  <2>4. QED
    BY <2>2, <2>3 DEF LocksOK
<1>12. NoLot \in LotRows /\ NoLot.st = "none" /\ NoLot.qty = 0
  BY DEF NoLot, LotRows, LotSt
<1>13. lot' \in [Lots -> LotRows] /\ \A l \in Lots : lot'[l] = IF l \in there THEN row[l] ELSE NoLot
  BY <1>0, <1>4, <1>12
<1>14. OwnedOK'
  <2>1. SUFFICES ASSUME NEW o \in open PROVE lot'[ord'[o].lot].st # "none"
    BY <1>4, <1>5 DEF OwnedOK
  <2>2. o \in Orders /\ ord[o].lot \in there /\ ord[o].lot \in Lots /\ Used(o)
    BY <1>3, <1>5, <1>6 DEF OrderRows, Used, Open
  <2>3. row[ord[o].lot].st # "none"
    BY <1>0, <2>2 DEF OrdersOK, OrderOK
  <2>4. QED
    BY <1>5, <1>13, <2>2, <2>3
<1>15. RelockOK' /\ MetaOK'
  BY <1>0, <1>4, <1>5, <1>6 DEF RelockOK, MetaOK, OnItsWay, NoPoll, NoFill, OrderRows
<1>16. PollOK'
  BY <1>0 DEF PollOK, NoPoll, NoFill
<1>17. PICK m : m = [Idle EXCEPT !.at = "refresh", !.then = "up"]
  OBVIOUS
<1>18. /\ m \in Mains /\ m.at = "refresh" /\ m.then = "up" /\ m.lot = 0 /\ m.lots = {}
       /\ m.side = "BUY"
  BY <1>17 DEF Idle, Mains, Stages, Sides
<1>19. MainOK'
  <2>1. MainFine(m)'
    BY <1>18 DEF MainFine, Waits
  <2>2. QED
    BY <1>0, <1>4, <1>17, <2>1 DEF MainOK, NoPoll
<1>20. BookOK'
  <2>1. \A l \in Lots : ~Booking(l)' /\ ~Retiring(l)'
    BY <1>0 DEF Booking, Retiring, NoPoll, NoFill
  <2>2. ASSUME NEW l \in Lots
        PROVE  /\ Sound(row'[l]) /\ Sound(lot'[l])
               /\ lot'[l].st # "none" => InMemory(l)'
               /\ lot'[l].st = "none" => OnlyInRow(l)'
    <3>1. Sound(row[l]) /\ Sound(NoLot) /\ (l \notin there => row[l].st \notin {"WATCHING", "HOLDING"})
      BY <1>0, <1>3, <1>12 DEF BookOK, Sound
    <3>2. QED
      BY <1>0, <1>12, <1>13, <2>1, <3>1 DEF InMemory, OnlyInRow
  <2>3. QED
    BY <2>2 DEF BookOK
<1>21. TypeInv' /\ DownOK'
  <2>1. barrier' \in [sell : SUBSET Lots, buy : SUBSET Lots, start : BOOLEAN]
    BY <1>4 DEF Clear
  <2>2. DOMAIN meta' \subseteq Orders /\ \A o \in DOMAIN meta' : meta'[o] \in Nat
    BY <1>4, <1>5, <1>6 DEF OrderRows
  <2>3. QED
    BY <1>0, <1>4, <1>6, <1>11, <1>13, <1>17, <1>18, <2>1, <2>2 DEF TypeInv, DownOK
<1>22. QED
  BY <1>8, <1>9, <1>11, <1>14, <1>15, <1>16, <1>19, <1>20, <1>21 DEF IInv

\* The broker: an order is accepted, refused, executed or cancelled.
LEMMA BrokerStep == ASSUME LotAssumption, IInv, Broker PROVE IInv'
<1>0. /\ TypeInv /\ OrdersOK /\ DownOK /\ MainOK /\ main \in Mains /\ MainFine(main)
      /\ brk \in [Orders -> BrkRows] /\ ord \in [Orders -> OrderRows]
      /\ UNCHANGED <<ord, row, lot, slot, pending, meta, barrier, stopped, flatReq, phase, crashes,
                     poll, relock>>
  BY DEF IInv, TypeInv, MainOK, Broker, BrokerCancels, Accept, Reject, Execute, table, book, control
<1>1. PICK o \in Orders, a \in {"lost", "refused", "live", "gone"}, x \in Nat :
         /\ Working(o) /\ brk[o].exec <= x /\ x <= ord[o].qty
         /\ a = "live" => x < ord[o].qty
         /\ brk'[o] = [at |-> a, exec |-> x] /\ \A p \in Orders \ {o} : brk'[p] = brk[p]
         /\ brk' \in [Orders -> BrkRows]
         /\ \/ main' = main
            \/ main.at = "cancelling" /\ o = main.order /\ a = "gone"
               /\ main' = [main EXCEPT !.at = "cancelled"]
  <2>1. ASSUME NEW o \in Orders, NEW a \in {"lost", "refused", "live", "gone"}, NEW x \in Nat,
               brk' = [brk EXCEPT ![o] = [at |-> a, exec |-> x]]
        PROVE  /\ brk'[o] = [at |-> a, exec |-> x] /\ \A p \in Orders \ {o} : brk'[p] = brk[p]
               /\ brk' \in [Orders -> BrkRows]
    BY <1>0, <2>1 DEF BrkRows
  <2>0. ASSUME NEW o \in Orders, NEW r, NEW a, r = [brk[o] EXCEPT !.at = a]
        PROVE  r = [at |-> a, exec |-> brk[o].exec]
    <3>1. brk[o] \in [at : {"none", "flight", "lost", "refused", "live", "gone"}, exec : Nat]
      BY <1>0 DEF BrkRows
    <3>2. QED
      BY <2>0, <3>1
  <2>2. ASSUME NEW o \in Orders, Working(o)
        PROVE  /\ brk[o] \in BrkRows /\ brk[o].exec \in Nat /\ ord[o].qty \in Nat
               /\ brk[o].exec < ord[o].qty /\ brk[o].exec <= brk[o].exec /\ brk[o].exec <= ord[o].qty
    BY <1>0, <2>2 DEF OrdersOK, OrderOK, BrkRows, OrderRows
  <2>3. CASE \E o \in Orders : Accept(o)
    <3>1. PICK o \in Orders : Accept(o)
      BY <2>3
    <3>2. Working(o) /\ main' = main
      BY <3>1 DEF Accept, Working
    <3>3. brk' = [brk EXCEPT ![o] = [at |-> "live", exec |-> brk[o].exec]]
      <4>1. PICK r : r = [brk[o] EXCEPT !.at = "live"]
        OBVIOUS
      <4>2. brk' = [brk EXCEPT ![o] = r]
        BY <3>1, <4>1 DEF Accept
      <4>3. QED
        BY <2>0, <4>1, <4>2
    <3>4. QED
      BY ZenonT(60), <2>1, <2>2, <3>2, <3>3
  <2>4. CASE \E o \in Orders : Reject(o)
    <3>1. PICK o \in Orders : Reject(o)
      BY <2>4
    <3>2. Working(o) /\ main' = main
      BY <3>1 DEF Reject, Working
    <3>3. PICK a \in {"refused", "lost"} : brk' = [brk EXCEPT ![o].at = a]
      BY <3>1 DEF Reject
    <3>4. brk' = [brk EXCEPT ![o] = [at |-> a, exec |-> brk[o].exec]]
      <4>1. PICK r : r = [brk[o] EXCEPT !.at = a]
        OBVIOUS
      <4>2. brk' = [brk EXCEPT ![o] = r]
        BY <3>3, <4>1
      <4>3. QED
        BY <2>0, <4>1, <4>2
    <3>5. QED
      BY ZenonT(60), <2>1, <2>2, <3>2, <3>4
  <2>5. CASE \E o \in Orders : Execute(o)
    <3>1. PICK o \in Orders : Execute(o)
      BY <2>5
    <3>2. Working(o) /\ main' = main /\ brk[o].at = "live"
      BY <3>1 DEF Execute, Working
    <3>3. PICK x \in Nat : x = brk[o].exec + 1
      BY <2>2, <3>2
    <3>4. PICK a \in {"live", "gone"} : a = IF x = ord[o].qty THEN "gone" ELSE "live"
      OBVIOUS
    <3>5. brk' = [brk EXCEPT ![o] = [at |-> a, exec |-> x]]
      <4>1. brk[o] \in [at : {"none", "flight", "lost", "refused", "live", "gone"}, exec : Nat]
        BY <1>0 DEF BrkRows
      <4>2. PICK r : r = [brk[o] EXCEPT !.exec = x, !.at = a]
        OBVIOUS
      <4>3. r = [at |-> a, exec |-> x]
        BY <4>1, <4>2
      <4>4. brk' = [brk EXCEPT ![o].exec = brk[o].exec + 1,
                               ![o].at = IF brk[o].exec + 1 = ord[o].qty THEN "gone" ELSE brk[o].at]
        BY <3>1 DEF Execute
      <4>5. brk' = [brk EXCEPT ![o].exec = x, ![o].at = a]
        BY <3>2, <3>3, <3>4, <4>4
      <4>6. brk' = [brk EXCEPT ![o] = r]
        BY <4>2, <4>5
      <4>7. QED
        BY <4>3, <4>6
    <3>6. brk[o].exec <= x /\ x <= ord[o].qty /\ (a = "live" => x < ord[o].qty)
      BY <2>2, <3>2, <3>3, <3>4
    <3>7. QED
      BY <2>1, <3>2, <3>5, <3>6
  <2>6. CASE BrokerCancels
    <3>1. PICK o \in Orders : o = main.order
      BY <1>0, <2>6 DEF BrokerCancels, MainFine
    <3>2. Working(o) /\ main.at = "cancelling" /\ main' = [main EXCEPT !.at = "cancelled"]
      BY <2>6, <3>1 DEF BrokerCancels, Working
    <3>3. brk' = [brk EXCEPT ![o] = [at |-> "gone", exec |-> brk[o].exec]]
      <4>1. PICK r : r = [brk[o] EXCEPT !.at = "gone"]
        OBVIOUS
      <4>2. brk' = [brk EXCEPT ![o] = r]
        BY <2>6, <3>1, <4>1 DEF BrokerCancels
      <4>3. QED
        BY <2>0, <4>1, <4>2
    <3>4. QED
      BY <2>1, <2>2, <3>1, <3>2, <3>3
  <2>7. QED
    BY <2>3, <2>4, <2>5, <2>6 DEF Broker
<1>2. /\ \A p \in Orders : Kept(p) /\ OrderOK(p)' /\ brk[p].exec <= brk'[p].exec
      /\ Calm
  <2>1. ASSUME NEW p \in Orders \ {o} PROVE OrderOK(p)' /\ brk[p].exec <= brk'[p].exec
    <3>1. brk[p].exec \in Nat /\ brk'[p] = brk[p]
      BY <1>0, <1>1 DEF BrkRows
    <3>2. QED
      BY <1>0, <3>1 DEF OrdersOK, OrderOK, Used, Working
  <2>2. OrderOK(o)' /\ brk[o].exec <= brk'[o].exec
    <3>1. /\ brk[o].exec \in Nat /\ ord[o].filled \in Nat /\ ord[o].qty \in Nat /\ OrderOK(o)
          /\ ord[o].filled <= x
      BY <1>0, <1>1 DEF BrkRows, OrderRows, OrdersOK, OrderOK
    <3>2. brk'[o].at = a /\ brk'[o].exec = x
      BY <1>1
    <3>3. QED
      BY <1>0, <1>1, <3>1, <3>2 DEF OrderOK, Used, Working
  <2>3. \A p \in Orders : Kept(p)
    BY <1>0 DEF Kept
  <2>4. Calm
    BY <1>0, <1>1 DEF Calm, Used, Covered, Working
  <2>5. QED
    BY <2>1, <2>2, <2>3, <2>4
<1>3. PICK m \in Mains : main' = m /\ (m = main \/ (m.at = "cancelled" /\ main.at = "cancelling"))
  BY <1>0, <1>1 DEF Mains, Stages
<1>4. MainFine(m)'
  <2>1. Tracked' = Tracked
    BY <1>0 DEF Tracked
  <2>2. PICK n \in Mains : n = main
    BY <1>0
  <2>3. MainFine(n)'
    <3>1. n.at = "cancelled" => brk'[n.order].at = "gone"
      BY <1>0, <1>1, <2>2 DEF MainFine, Working
    <3>2. QED
      BY ZenonT(60), <1>0, <1>2, <2>1, <2>2, <3>1, MainKeeps DEF MainFine
  <2>4. CASE m = main
    BY <2>2, <2>3, <2>4
  <2>5. CASE m # main
    <3>1. /\ m = [n EXCEPT !.at = "cancelled"] /\ n.at = "cancelling" /\ brk'[n.order].at = "gone"
          /\ m.at = "cancelled"
      BY <1>1, <1>3, <2>2, <2>5
    <3>2. /\ m.lot = n.lot /\ m.lots = n.lots /\ m.side = n.side /\ m.qty = n.qty
          /\ m.order = n.order /\ m.at = "cancelled"
      BY <3>1 DEF Mains
    <3>3. QED
      BY <2>3, <3>1, <3>2 DEF MainFine, Waits
  <2>6. QED
    BY <2>4, <2>5
<1>5. /\ stopped' \in BOOLEAN /\ flatReq' \in BOOLEAN /\ crashes' \in Nat
      /\ phase' \in {"down", "hydrating", "up", "done"}
      /\ pending' \in [Keys -> Orders \cup {0}]
      /\ barrier' \in [sell : SUBSET Lots, buy : SUBSET Lots, start : BOOLEAN]
      /\ Up' <=> Up
  BY <1>0 DEF TypeInv, Up
<1>6. (~Up => m = Idle) /\ (poll.by = "main" => m.at = "polling")
  BY <1>0, <1>3 DEF DownOK, MainOK, Idle
<1>7. QED
  BY <1>0, <1>1, <1>2, <1>3, <1>4, <1>5, <1>6, OrdersMove

-----------------------------------------------------------------------------
(* The theorems.                                                           *)

\* The invariant holds at the start ...
LEMMA InitInv == ASSUME LotAssumption, Init PROVE IInv
<1>0. /\ ord = [o \in Orders |-> NoOrder] /\ row = [l \in Lots |-> NoLot]
      /\ brk = [o \in Orders |-> [at |-> "none", exec |-> 0]] /\ lot = [l \in Lots |-> NoLot]
      /\ slot = 0 /\ pending = [k \in Keys |-> 0] /\ meta = <<>> /\ barrier = Clear
      /\ stopped = FALSE /\ flatReq = FALSE /\ phase = "up" /\ crashes = 0
      /\ main = Idle /\ poll = NoPoll /\ relock = {}
  BY DEF Init
<1>1. /\ NoLot \in LotRows /\ NoLot.st = "none" /\ NoLot.qty = 0 /\ DOMAIN meta = {}
      /\ NoPoll \in Polls /\ NoPoll.by = "none" /\ NoPoll.recs = {} /\ NoPoll.fill.at = "none"
  BY <1>0 DEF NoLot, LotRows, LotSt, NoPoll, NoFill, Polls, FillRecs
<1>2. NoOrder \in OrderRows /\ NoOrder.st = "none" /\ ~NoOrder.no /\ ~NoOrder.adopted
      /\ NoOrder.filled = 0 /\ NoOrder.qty = 0 /\ [at |-> "none", exec |-> 0] \in BrkRows
  BY DEF NoOrder, OrderRows, Lots, LotAssumption, Sides, BrkRows
<1>3. TypeInv /\ DownOK
  BY <1>0, <1>1, <1>2, IdleIsFine DEF TypeInv, Clear, DownOK, Up
<1>4. OrdersOK
  BY <1>0, <1>2 DEF OrdersOK, OrderOK, Used, Working, Final
<1>5. \A o \in Orders : ~Covered(o) /\ ~Used(o) /\ ord[o].st \notin Open
  BY <1>0, <1>2 DEF Covered, Used, Working, Open
<1>6. LatestOK /\ LocksOK /\ RelockOK /\ OwnedOK /\ MetaOK
  BY <1>0, <1>1, <1>5 DEF LatestOK, LocksOK, RelockOK, OwnedOK, MetaOK
<1>7. PollOK /\ MainOK
  BY <1>0, <1>1, IdleIsFine DEF PollOK, MainOK
<1>8. BookOK
  BY <1>0, <1>1 DEF BookOK, Sound, OnlyInRow, Booking
<1>9. QED
  BY <1>3, <1>4, <1>6, <1>7, <1>8 DEF IInv

\* ... every step keeps it ...
LEMMA StepInv == ASSUME LotAssumption, IInv, [Next]_vars PROVE IInv'
<1>1. CASE UNCHANGED vars
  <2>1. /\ UNCHANGED <<ord, row, brk, lot, slot, pending, meta, barrier, stopped, flatReq, phase,
                       crashes, main, poll, relock>>
    BY <1>1 DEF vars, table, book, control
  <2>2. PICK m \in Mains : m = main
    BY DEF IInv, TypeInv
  <2>3. TypeInv /\ DownOK /\ MainOK /\ MainFine(m) /\ ord' \in [Orders -> OrderRows]
        /\ Calm /\ \A p \in Orders : Kept(p) /\ OrderOK(p)'
    BY <2>1, <2>2, SameOrders DEF IInv, MainOK
  <2>4. MainFine(m)'
    BY <2>1, <2>3, MainKeeps DEF MainFine, Tracked
  <2>5. /\ stopped' \in BOOLEAN /\ flatReq' \in BOOLEAN /\ crashes' \in Nat
        /\ phase' \in {"down", "hydrating", "up", "done"} /\ brk' \in [Orders -> BrkRows]
        /\ pending' \in [Keys -> Orders \cup {0}]
        /\ barrier' \in [sell : SUBSET Lots, buy : SUBSET Lots, start : BOOLEAN]
        /\ Up' <=> Up
        /\ \A p \in Orders : brk[p].exec <= brk'[p].exec
    BY <2>1, <2>3 DEF TypeInv, Up, BrkRows
  <2>6. (~Up => m = Idle) /\ (poll.by = "main" => m.at = "polling") /\ main' = m
    BY <2>1, <2>2, <2>3 DEF DownOK, MainOK
  <2>7. /\ \A o \in Orders : Covered(o)' => pending'[KeyOf(o)] = pending[KeyOf(o)]
        /\ DOMAIN meta' \subseteq DOMAIN meta /\ \A o \in DOMAIN meta' : meta'[o] = meta[o]
        /\ UNCHANGED <<row, lot, slot, poll, relock>>
    BY <2>1
  <2>8. QED
    BY <2>2, <2>3, <2>4, <2>5, <2>6, <2>7, OrdersMove
<1>2. CASE Intents
  BY <1>2, BarStep, SpawnStep DEF Intents
<1>3. CASE MainTask
  BY <1>3, BarStep, ResumeStep, AnswerStep, CancelStep DEF MainTask
<1>4. CASE FlatPass
  BY <1>4, FlatStep
<1>5. CASE Fills
  BY <1>5, PollStep, HandleFillStep, OnFillStep, AdoptStep DEF Fills
<1>6. CASE Resolver
  BY <1>6, ResolveStep, RelockStep, QuietStep DEF Resolver
<1>7. CASE Broker \/ Stop \/ Crash \/ Hydrate
  BY <1>7, BrokerStep, QuietStep, CrashStep, HydrateStep
<1>8. QED
  BY <1>1, <1>2, <1>3, <1>4, <1>5, <1>6, <1>7 DEF Next

\* ... and so it always holds.
LEMMA Invariance == ASSUME LotAssumption PROVE Spec => []IInv
<1>1. Init => IInv
  BY InitInv
<1>2. IInv /\ [Next]_vars => IInv'
  BY StepInv
<1>3. QED
  BY <1>1, <1>2, PTL DEF Spec

\* Every variable has its type, and no order records more shares than it asked for.
THEOREM ServiceTypeCorrect == ASSUME LotAssumption PROVE Spec => []TypeOK
<1>1. IInv => TypeOK
  <2>1. ASSUME IInv PROVE TypeOK
    <3>1. TypeInv /\ OrdersOK
      BY <2>1 DEF IInv
    <3>2. ASSUME NEW o \in Orders PROVE ord[o].filled <= ord[o].qty
      <4>1. /\ ord[o].filled \in Nat /\ ord[o].qty \in Nat /\ brk[o].exec \in Nat
            /\ ord[o].filled <= brk[o].exec /\ brk[o].exec <= ord[o].qty
        BY <3>1 DEF TypeInv, OrderRows, BrkRows, OrdersOK, OrderOK
      <4>2. QED
        BY <4>1
    <3>3. main.at \in Stages /\ poll.by \in {"none", "main", "loop"}
      BY <3>1 DEF TypeInv, Mains, Polls
    <3>4. QED
      BY <3>1, <3>2, <3>3 DEF TypeOK, TypeInv, OrderRows, LotRows, BrkRows, Stages
  <2>2. QED
    BY <2>1
<1>2. QED
  BY <1>1, Invariance, PTL

\* Outside the application of a fill the lots in memory hold the shares their rows hold,
\* whatever was lost, cancelled or restarted on the way (service.py:972-1043).
THEOREM FillsReachTheBook == ASSUME LotAssumption PROVE Spec => []HoldingsTracked
<1>1. IInv => HoldingsTracked
  <2>1. SUFFICES ASSUME IInv, phase = "up", poll.fill.at # "book", NEW l \in Lots
                 PROVE  lot[l].qty = row[l].qty \/ Retired(l)
    BY DEF HoldingsTracked
  <2>2. TypeInv /\ BookOK /\ Up /\ ~Booking(l) /\ lot[l] \in LotRows /\ row[l] \in LotRows
    BY <2>1 DEF IInv, Up, Booking, TypeInv
  <2>3. CASE lot[l].st = "none"
    BY <2>2, <2>3 DEF BookOK, OnlyInRow, Sound, Retired, LotRows, LotSt
  <2>4. CASE lot[l].st # "none"
    BY <2>2, <2>4 DEF BookOK, InMemory
  <2>5. QED
    BY <2>3, <2>4
<1>2. QED
  BY <1>1, Invariance, PTL

\* Shares are in open lots, where exits, the liquidation and a restart find them
\* (position.py:90-99).
THEOREM SharesAreInOpenLots == ASSUME LotAssumption PROVE Spec => []HeldLotsAreOpen
<1>1. IInv => HeldLotsAreOpen
  <2>1. SUFFICES ASSUME IInv, NEW l \in Lots, lot[l].qty > 0
                 PROVE  lot[l].st = "HOLDING" \/ Retired(l)
    BY DEF HeldLotsAreOpen
  <2>2. Sound(lot[l]) /\ lot[l] \in LotRows
    BY <2>1 DEF IInv, BookOK, TypeInv
  <2>3. QED
    BY <2>1, <2>2 DEF Sound, LotRows, LotSt, Retired
<1>2. QED
  BY <1>1, Invariance, PTL

\* An order that can still trade locks its (lot, side), through lost answers,
\* cancellations and restarts (service.py:763-767, 914-921).
THEOREM LiveOrdersAreLocked == ASSUME LotAssumption PROVE Spec => []LockCoversLive
<1>1. IInv => LockCoversLive
  <2>1. SUFFICES ASSUME IInv, phase = "up", NEW o \in Orders, Working(o), ~ord[o].adopted
                 PROVE  pending[KeyOf(o)] = o
    BY DEF LockCoversLive, Working
  <2>2. OrderOK(o) /\ ord[o].st \in Open \cup Final \cup {"none"}
    BY <2>1 DEF IInv, OrdersOK, TypeInv, OrderRows
  <2>3. Covered(o)
    BY <2>1, <2>2 DEF OrderOK, Covered, Used, Working
  <2> QED BY <2>1, <2>3 DEF IInv, LocksOK, Up
<1>2. QED
  BY <1>1, Invariance, PTL


\* No buy is sent once the stop is pressed, not by an intent that was already being
\* handled either (service.py:625-627, 717-725).
THEOREM NoBuyGetsThrough == ASSUME LotAssumption PROVE Spec => NoBuyAfterStop
<1> DEFINE SellsOnly == stopped => \A o \in Orders : ord[o].st = "none" /\ ord'[o].st # "none"
                                                       => ord'[o].side = "SELL"
<1>1. ASSUME IInv, [Next]_vars PROVE SellsOnly
  <2>0. TypeInv /\ OrdersOK /\ MainFine(main) /\ main \in Mains /\ ord \in [Orders -> OrderRows]
    BY <1>1 DEF IInv, MainOK, TypeInv
  <2>1. ASSUME \A o \in Orders : ord'[o] = ord[o] \/ ord[o].st # "none" PROVE SellsOnly
    BY <2>1
  <2>2. ASSUME NEW m \in Mains, Send(m), m.side = "SELL" \/ ~stopped \/ Unused = {}
        PROVE  SellsOnly
    <3>1. CASE ~stopped
      BY <3>1
    <3>2. CASE Unused = {}
      <4>1. ord' = ord
        BY <2>2, <3>2 DEF Send, table
      <4>2. QED
        BY <2>1, <4>1
    <3>3. CASE m.side = "SELL" /\ Unused # {}
      <4>1. PICK n : n = Min(Unused)
        OBVIOUS
      <4>2. PICK r : r = [NoOrder EXCEPT !.st = "PENDING_NEW", !.lot = m.lot, !.side = m.side,
                                         !.qty = m.qty]
        OBVIOUS
      <4>3. ord' = [ord EXCEPT ![n] = r]
        BY <2>2, <3>3, <4>1, <4>2 DEF Send
      <4>4. r.side = "SELL"
        BY <3>3, <4>2 DEF NoOrder
      <4>5. \A o \in Orders : ord'[o] = ord[o] \/ ord'[o].side = "SELL"
        BY <2>0, <4>3, <4>4
      <4>6. QED
        BY <4>5
    <3>4. QED
      BY <2>2, <3>1, <3>2, <3>3
  <2>3. ASSUME NEW m \in Mains, AtLock(m), m.side = "SELL" PROVE SellsOnly
    <3>1. Send(m) \/ ord' = ord
      BY <2>3 DEF AtLock, table
    <3>2. QED
      BY <2>1, <2>2, <2>3, <3>1
  <2>4. ASSUME NEW m \in Mains, NEW q \in Nat, Sell(m, q) PROVE SellsOnly
    <3>1. PICK n : n = [m EXCEPT !.side = "SELL", !.qty = q]
      OBVIOUS
    <3>2. n \in Mains /\ n.side = "SELL"
      BY <3>1 DEF Mains, Sides
    <3>3. AtLock(n) \/ ord' = ord
      BY <2>4, <3>1 DEF Sell, table
    <3>4. QED
      BY <2>1, <2>3, <3>2, <3>3
  <2>5. ASSUME NEW m \in Mains, SellHolding(m), m.lot \in Lots PROVE SellsOnly
    <3>1. lot[m.lot].qty \in Nat
      BY <2>0, <2>5 DEF TypeInv, LotRows
    <3>2. Sell(m, lot[m.lot].qty) \/ ord' = ord
      BY <2>5 DEF SellHolding, table
    <3>3. QED
      BY <2>1, <2>4, <3>1, <3>2
  <2>6. ASSUME NEW m \in Mains, CancelBuyAndSell(m), m.lot \in Lots PROVE SellsOnly
    <3>1. SellHolding(m) \/ ord' = ord
      BY <2>6 DEF CancelBuyAndSell, table
    <3>2. QED
      BY <2>1, <2>5, <2>6, <3>1
  <2>7. CASE Intents
    <3>1. CASE Bar \/ Spawn \/ \E q \in 1 .. MaxQty : CutEntry(q)
      <4>1. ord' = ord
        BY <3>1 DEF Bar, Spawn, CutEntry, table
      <4>2. QED
        BY <2>1, <4>1
    <3>2. CASE Exit
      <4>1. PICK m : m = [Idle EXCEPT !.job = "exit", !.lot = slot]
        OBVIOUS
      <4>2. m \in Mains /\ m.lot = slot /\ slot \in Lots
        BY <2>0, <3>2, <4>1, IdleIsFine DEF Mains, Exit, TypeInv
      <4>3. CancelBuyAndSell(m)
        BY <3>2, <4>1 DEF Exit
      <4>4. QED
        BY <2>6, <4>2, <4>3
    <3>3. ASSUME NEW q \in 1 .. MaxQty, Enter(q) PROVE SellsOnly
      BY <3>3 DEF Enter
    <3>4. ASSUME NEW q \in 1 .. MaxQty, Trim(q) PROVE SellsOnly
      <4>1. PICK m : m = [Idle EXCEPT !.job = "trim", !.lot = slot]
        OBVIOUS
      <4>2. m \in Mains
        BY <2>0, <4>1, IdleIsFine DEF Mains, TypeInv
      <4>3. Sell(m, q) /\ q \in Nat
        BY <3>4, <4>1 DEF Trim, LotAssumption
      <4>4. QED
        BY <2>4, <4>2, <4>3
    <3>5. QED
      BY <2>7, <3>1, <3>2, <3>3, <3>4 DEF Intents
  <2>8. CASE MainTask
    <3>1. CASE BarEnds \/ Cancel \/ CancelDenied \/ CancelLost
      <4>1. ord' = ord
        BY <3>1 DEF BarEnds, Cancel, CancelDenied, CancelLost, table
      <4>2. QED
        BY <2>1, <4>1
    <3>2. CASE EnterCut
      <4>1. ord' = ord \/ (Send(main) /\ ~stopped)
        BY <3>2 DEF EnterCut, table
      <4>2. QED
        BY <2>0, <2>1, <2>2, <4>1
    <3>3. CASE ResumeSale
      <4>1. CASE main.at = "sell" /\ SellHolding(main)
        <5>1. main.lot \in Lots
          BY <2>0, <4>1 DEF MainFine, Tracked, Waits
        <5>2. QED
          BY <2>0, <2>5, <4>1, <5>1
      <4>2. CASE main.at = "lock" /\ AtLock(main)
        BY <2>0, <2>3, <4>2 DEF MainFine
      <4>3. CASE main.at = "send" /\ Send(main)
        <5>1. main.side = "SELL" \/ Unused = {}
          BY <2>0, <4>3 DEF MainFine, Mains, Sides
        <5>2. QED
          BY <2>0, <2>2, <4>3, <5>1
      <4>4. QED
        BY <3>3, <4>1, <4>2, <4>3 DEF ResumeSale
    <3>4. CASE Ack \/ Refused \/ TimesOut \/ RecordCancel
      <4>1. PICK n : n = main.order
        OBVIOUS
      <4>2. n \in Orders /\ ord[n].st # "none"
        BY <2>0, <3>4, <4>1 DEF MainFine, Ack, Refused, TimesOut, RecordCancel
      <4>3. \A o \in Orders \ {n} : ord'[o] = ord[o]
        BY <2>0, <3>4, <4>1 DEF Ack, Refused, TimesOut, RecordCancel
      <4>4. QED
        BY <2>1, <4>2, <4>3
    <3>5. QED
      BY <2>8, <3>1, <3>2, <3>3, <3>4 DEF MainTask
  <2>9. CASE FlatPass
    <3>1. CASE FlatAll \/ Sweep \/ Swept \/ FlatDone \/ Finish
      <4>1. ord' = ord
        BY <3>1 DEF FlatAll, Sweep, Swept, FlatDone, Finish, table
      <4>2. QED
        BY <2>1, <4>1
    <3>2. CASE NextLot
      <4>1. PICK l \in main.lots : CancelBuyAndSell([main EXCEPT !.lot = l, !.lots = @ \ {l}])
        BY <3>2 DEF NextLot
      <4>2. PICK m : m = [main EXCEPT !.lot = l, !.lots = main.lots \ {l}]
        OBVIOUS
      <4>3. m \in Mains /\ m.lot = l /\ l \in Lots
        BY <2>0, <4>2 DEF Mains
      <4>4. CancelBuyAndSell(m)
        BY <4>1, <4>2
      <4>5. QED
        BY <2>6, <4>3, <4>4
    <3>3. QED
      BY <2>9, <3>1, <3>2 DEF FlatPass
  <2>10. CASE Fills
    <3>1. CASE HandleFill
      <4>1. PICK e \in poll.recs : \/ /\ ord[e.o].no
                                       /\ \A o \in Orders \ {e.o} : ord'[o] = ord[o]
                                    \/ ord' = ord
        BY <2>0, <3>1 DEF HandleFill, table
      <4>2. QED
        BY <2>0, <2>1, <4>1 DEF OrdersOK, OrderOK, Open, Final
    <3>2. CASE ~HandleFill
      <4>1. ord' = ord
        BY <2>10, <3>2 DEF Fills, LoopPolls, RefreshPolls, OnFill, AdoptReopened, TakeSlot, PollEnds,
                           PollFails, table
      <4>2. QED
        BY <2>1, <4>1
    <3>3. QED
      BY <3>1, <3>2
  <2>11. CASE Resolver
    <3>1. CASE Resolve
      <4>1. \A o \in Orders : ord[o].st # "UNKNOWN" => ord'[o] = ord[o]
        BY <2>0, <3>1 DEF Resolve
      <4>2. QED
        BY <2>1, <4>1
    <3>2. CASE \E o \in relock : Relock(o)
      <4>1. ord' = ord
        BY <3>2 DEF Relock, table
      <4>2. QED
        BY <2>1, <4>1
    <3>3. CASE \E o \in Orders : Expire(o)
      <4>1. PICK n \in Orders : Expire(n)
        BY <3>3
      <4>2. ord[n].st # "none" /\ \A o \in Orders \ {n} : ord'[o] = ord[o]
        BY <2>0, <4>1 DEF Expire
      <4>3. QED
        BY <2>1, <4>2
    <3>4. QED
      BY <2>11, <3>1, <3>2, <3>3 DEF Resolver
  <2>12. CASE Broker \/ Stop \/ Crash \/ UNCHANGED vars
    <3>1. ord' = ord
      BY <2>12 DEF Broker, BrokerCancels, Accept, Reject, Execute, Stop, Crash, vars, table
    <3>2. QED
      BY <2>1, <3>1
  <2>13. CASE Hydrate
    <3>1. \A o \in Orders : ord'[o] = IF ord[o].st = "PENDING_NEW"
                                      THEN [ord[o] EXCEPT !.st = "UNKNOWN"] ELSE ord[o]
      BY <2>13 DEF Hydrate
    <3>2. QED
      BY <2>1, <3>1
  <2>14. QED
    BY <1>1, <2>7, <2>8, <2>9, <2>10, <2>11, <2>12, <2>13 DEF Next
<1>2. IInv /\ [Next]_vars => [SellsOnly]_vars
  BY <1>1
<1>3. QED
  BY <1>2, Invariance, PTL DEF Spec, NoBuyAfterStop

-----------------------------------------------------------------------------
(* When the liquidation is declared over.                                  *)

\* Shares of an order that the tables have not recorded; of a cancelled one.
Behind(o) == ord[o].filled < brk[o].exec
Unseen(o) == ord[o].st = "CANCELLED" /\ Behind(o)

RequestOK == flatReq => phase \in {"up", "done"}
KeysOK    == \A k \in Keys : pending[k] # 0 => Used(pending[k]) /\ KeyOf(pending[k]) = k
WantedOK  == main.at \in {"cancelling", "cancelled"} =>
               ord[main.order].no /\ KeyOf(main.order) = <<main.lot, main.side>>

\* What the end of an order says of its executions.
Ended(o) == /\ brk[o].at \in {"flight", "lost", "refused"} => brk[o].exec = 0
            /\ ord[o].st = "REJECTED" => brk[o].at \in {"lost", "refused"}
            /\ ord[o].st = "EXPIRED" => ~Behind(o)
            /\ ord[o].st \in {"NEW", "PARTIALLY_FILLED", "FILLED", "CANCELLED", "EXPIRED"} => ord[o].no
EndedOK  == \A o \in Orders : Ended(o)

\* What a cancelled buy got unseen is behind a barrier, and whoever is about to lift the
\* barriers is about to record it.
UnsureOK == Up => \A o \in Orders : Unseen(o) /\ ord[o].side = "BUY" =>
                    ord[o].lot \in barrier.buy \/ barrier.start
FetchOK  == poll.by = "main" => \A o \in Orders : Unseen(o) => [o |-> o, qty |-> brk[o].exec] \in poll.recs

\* A row has at least what was recorded of its orders (a sale may be clipped), and the
\* account is never short.
Amount(l, s)   == [o \in Orders |-> IF KeyOf(o) = <<l, s>> THEN ord[o].filled ELSE 0]
Recorded(l, s) == SumFunctionOnSet(Amount(l, s), Orders)
HeldOK    == \A l \in Lots : Recorded(l, "BUY") <= row[l].qty + Recorded(l, "SELL")
Volume(s) == [o \in Orders |-> IF ord[o].side = s THEN brk[o].exec ELSE 0]
AccountOK == SumFunctionOnSet(Volume("SELL"), Orders) <= SumFunctionOnSet(Volume("BUY"), Orders)

FInv == RequestOK /\ KeysOK /\ WantedOK /\ EndedOK /\ UnsureOK /\ FetchOK /\ HeldOK /\ AccountOK

\* The orders are finitely many, and their sums are numbers.
LEMMA OrdersFinite == ASSUME LotAssumption PROVE IsFiniteSet(Orders)
BY FS_Interval DEF Orders, LotAssumption

\* A step that records and executes nothing leaves the sums alone.
SameSums == /\ \A o \in Orders : \/ /\ ord'[o].filled = ord[o].filled /\ brk'[o].exec = brk[o].exec
                                    /\ ord'[o].side = ord[o].side /\ ord'[o].lot = ord[o].lot
                                 \/ /\ ord[o].filled = 0 /\ brk[o].exec = 0
                                    /\ ord'[o].filled = 0 /\ brk'[o].exec = 0
            /\ \A l \in Lots : row'[l].qty = row[l].qty

\* ... so that it keeps what they say.
LEMMA SumsStay == ASSUME FInv, SameSums PROVE HeldOK' /\ AccountOK'
<1>1. ASSUME NEW l \in Lots, NEW s \in Sides PROVE Amount(l, s)' = Amount(l, s)
  BY DEF SameSums, Amount, KeyOf
<1>2. ASSUME NEW s \in Sides PROVE Volume(s)' = Volume(s)
  BY DEF SameSums, Volume
<1>3. HeldOK'
  <2>1. SUFFICES ASSUME NEW l \in Lots PROVE (Recorded(l, "BUY") <= row[l].qty + Recorded(l, "SELL"))'
    BY DEF HeldOK
  <2>2. Recorded(l, "BUY")' = Recorded(l, "BUY") /\ Recorded(l, "SELL")' = Recorded(l, "SELL")
    BY <1>1 DEF Recorded, Sides
  <2>3. row'[l].qty = row[l].qty /\ Recorded(l, "BUY") <= row[l].qty + Recorded(l, "SELL")
    BY DEF FInv, HeldOK, SameSums
  <2> QED BY <2>2, <2>3
<1>4. AccountOK'
  BY <1>2 DEF FInv, AccountOK, Sides
<1> QED BY <1>3, <1>4

\* The orders keep their terms and numbers.
OrderStep == \A o \in Orders : Used(o) => /\ Used(o)' /\ ord'[o].lot = ord[o].lot
                                          /\ ord'[o].side = ord[o].side /\ (ord[o].no => ord'[o].no)

\* What that leaves alone: locks that stay or go, and the cancellation under way.
LEMMA TermsStay ==
  ASSUME LotAssumption, IInv, FInv, OrderStep
  PROVE  /\ (\A k \in Keys : pending'[k] \in {0, pending[k]}) => KeysOK'
         /\ UNCHANGED main \/ main'.at \notin {"cancelling", "cancelled"} => WantedOK'
<1>1. TypeInv /\ MainFine(main) /\ 0 \notin Orders
  BY DEF IInv, MainOK, Orders, LotAssumption
<1>2. ASSUME \A k \in Keys : pending'[k] \in {0, pending[k]} PROVE KeysOK'
  <2>1. SUFFICES ASSUME NEW k \in Keys, pending'[k] # 0
                 PROVE  (Used(pending[k]) /\ KeyOf(pending[k]) = k)'
    BY DEF KeysOK
  <2>2. PICK o : o = pending[k]
    OBVIOUS
  <2>3. o \in Orders /\ pending'[k] = o /\ Used(o) /\ KeyOf(o) = k
    BY <1>1, <1>2, <2>1, <2>2 DEF FInv, KeysOK, TypeInv
  <2>4. Used(o)' /\ KeyOf(o)' = k
    BY <2>3 DEF OrderStep, KeyOf
  <2> QED BY <2>3, <2>4 DEF Used, KeyOf
<1>3. ASSUME UNCHANGED main \/ main'.at \notin {"cancelling", "cancelled"} PROVE WantedOK'
  <2>1. SUFFICES ASSUME UNCHANGED main, main.at \in {"cancelling", "cancelled"}
                 PROVE  ord'[main.order].no /\ KeyOf(main.order)' = <<main.lot, main.side>>
    BY <1>3 DEF WantedOK
  <2>2. main.order \in Orders /\ Used(main.order)
    BY <1>1, <2>1 DEF MainFine, Used
  <2>3. ord[main.order].no /\ KeyOf(main.order) = <<main.lot, main.side>>
    BY <2>1 DEF FInv, WantedOK
  <2> QED BY <2>1, <2>2, <2>3 DEF OrderStep, KeyOf
<1> QED BY <1>2, <1>3

\* A step that leaves orders, broker and holdings alone.
LEMMA FlatStill ==
  ASSUME LotAssumption, IInv, FInv, UNCHANGED <<ord, brk>>, RequestOK', KeysOK', WantedOK',
         \A l \in Lots : row'[l].qty = row[l].qty,
         Up' => /\ Up
                /\ \/ barrier.buy \subseteq barrier'.buy /\ (barrier.start => barrier'.start)
                   \/ poll.by = "main" /\ poll.recs = {},
         poll'.by = "main" => \/ poll.by = "main" /\ poll'.recs = poll.recs
                              \/ poll'.recs = Fetched("main").recs
                              \/ \A o \in Orders : Unseen(o) => [o |-> o, qty |-> brk[o].exec] \in poll'.recs
  PROVE  FInv'
<1>1. HeldOK' /\ AccountOK'
  BY SumsStay DEF SameSums
<1>2. EndedOK' /\ \A o \in Orders : Unseen(o)' <=> Unseen(o)
  BY DEF FInv, EndedOK, Ended, Behind, Unseen
<1>3. UnsureOK'
  BY <1>2 DEF FInv, UnsureOK, FetchOK
<1>4. FetchOK'
  <2>1. SUFFICES ASSUME poll'.by = "main", NEW o \in Orders, Unseen(o)
                 PROVE  [o |-> o, qty |-> brk[o].exec] \in poll'.recs
    BY <1>2 DEF FetchOK
  <2>2. CASE poll.by = "main" /\ poll'.recs = poll.recs
    BY <2>1, <2>2 DEF FInv, FetchOK
  <2>3. CASE poll'.recs = Fetched("main").recs
    <3>1. ord[o].st # "none" /\ brk[o].exec > ord[o].filled
      <4>1. ord[o] \in OrderRows /\ brk[o] \in BrkRows
        BY DEF IInv, TypeInv
      <4> QED BY <2>1, <4>1 DEF Unseen, Behind, OrderRows, BrkRows
    <3> QED BY <2>3, <3>1 DEF Fetched
  <2>4. CASE \A p \in Orders : Unseen(p) => [o |-> p, qty |-> brk[p].exec] \in poll'.recs
    BY <2>1, <2>4
  <2> QED BY <2>1, <2>2, <2>3, <2>4
<1> QED BY <1>1, <1>2, <1>3, <1>4 DEF FInv

\* A step of the main task alone.
LEMMA FlatMain ==
  ASSUME LotAssumption, IInv, FInv, UNCHANGED <<table, brk, book, phase, poll>>, flatReq' => flatReq,
         main'.at \notin {"cancelling", "cancelled"} \/ UNCHANGED main
  PROVE  FInv'
<1>1. UNCHANGED <<ord, row, brk, pending, barrier, phase, poll>>
  BY DEF table, book
<1>2. OrderStep
  BY <1>1 DEF OrderStep, Used
<1>3. RequestOK' /\ KeysOK' /\ WantedOK' /\ (Up' => Up)
  BY <1>1, <1>2, TermsStay DEF FInv, RequestOK, Up
<1> QED BY <1>1, <1>3, FlatStill

\* _submit.
LEMMA FlatSend ==
  ASSUME LotAssumption, IInv, FInv, NEW m \in Mains, m.lot \in Lots, Send(m)
  PROVE  FInv'
<1>0. /\ TypeInv /\ OrdersOK /\ 0 \notin Orders /\ ord \in [Orders -> OrderRows]
      /\ brk \in [Orders -> BrkRows] /\ pending \in [Keys -> Orders \cup {0}]
      /\ m.side \in Sides /\ <<m.lot, m.side>> \in Keys
  BY DEF IInv, TypeInv, Orders, LotAssumption, Mains, Keys
<1>1. CASE Unused = {}
  <2>1. main' = [m EXCEPT !.at = "send"] /\ UNCHANGED <<table, brk, book, control, poll, relock>>
    BY <1>1 DEF Send
  <2>2. main'.at = "send"
    BY <2>1 DEF Mains
  <2> QED BY <2>1, <2>2, FlatMain DEF control
<1>2. CASE Unused # {}
  <2>1. PICK n : n = Min(Unused)
    OBVIOUS
  <2>2. PICK k : k = <<m.lot, m.side>>
    OBVIOUS
  <2>3. PICK r : r = [NoOrder EXCEPT !.st = "PENDING_NEW", !.lot = m.lot, !.side = m.side, !.qty = m.qty]
    OBVIOUS
  <2>4. /\ ord' = [ord EXCEPT ![n] = r] /\ brk' = [brk EXCEPT ![n].at = "flight"]
        /\ pending' = [pending EXCEPT ![k] = n] /\ main'.at = "ack"
        /\ UNCHANGED <<row, barrier, flatReq, phase, poll>>
    <3>1. main' = [m EXCEPT !.at = "ack", !.order = n]
      BY <1>2, <2>1 DEF Send
    <3>2. main'.at = "ack"
      BY <3>1 DEF Mains
    <3> QED BY <1>2, <2>1, <2>2, <2>3, <3>2, Zenon DEF Send, control
  <2>5. /\ n \in Orders /\ ~Used(n) /\ brk[n].exec = 0 /\ ord[n].filled = 0
    <3>1. n \in Orders /\ ~Used(n)
      BY <1>0, <1>2, <2>1, FirstUnused
    <3>2. OrderOK(n) /\ ord[n] \in OrderRows /\ brk[n] \in BrkRows
      BY <1>0, <3>1 DEF OrdersOK
    <3> QED BY <3>1, <3>2 DEF OrderOK, OrderRows, BrkRows
  <2>6. /\ r.st = "PENDING_NEW" /\ r.lot = m.lot /\ r.side = m.side /\ r.filled = 0
    BY <2>3 DEF NoOrder
  <2>7. /\ ord'[n] = r /\ \A o \in Orders \ {n} : ord'[o] = ord[o]
        /\ brk'[n].at = "flight" /\ brk'[n].exec = 0 /\ \A o \in Orders \ {n} : brk'[o] = brk[o]
        /\ pending'[k] = n /\ \A j \in Keys \ {k} : pending'[j] = pending[j]
    BY <1>0, <2>2, <2>4, <2>5 DEF BrkRows
  <2>8. HeldOK' /\ AccountOK'
    BY <2>4, <2>5, <2>6, <2>7, SumsStay DEF SameSums
  <2>9. RequestOK'
    BY <2>4 DEF FInv, RequestOK
  <2>10. OrderStep
    BY <2>5, <2>7 DEF OrderStep, Used
  <2>11. WantedOK'
    BY <2>4, <2>10, TermsStay
  <2>12. KeysOK'
    <3>1. Used(n)' /\ KeyOf(n)' = k
      BY <2>2, <2>6, <2>7 DEF Used, KeyOf
    <3>2. ASSUME NEW j \in Keys \ {k}, pending'[j] # 0
          PROVE  (Used(pending[j]) /\ KeyOf(pending[j]) = j)'
      <4>1. pending'[j] = pending[j] /\ pending[j] \in Orders /\ Used(pending[j]) /\ KeyOf(pending[j]) = j
        BY <1>0, <2>7, <3>2 DEF FInv, KeysOK
      <4>2. ord'[pending[j]] = ord[pending[j]]
        BY <2>5, <2>7, <4>1
      <4> QED BY <4>1, <4>2 DEF Used, KeyOf
    <3>3. (Used(pending[k]) /\ KeyOf(pending[k]) = k)'
      BY <2>7, <3>1 DEF Used, KeyOf
    <3> QED BY <3>2, <3>3 DEF KeysOK
  <2>13. EndedOK'
    BY <2>6, <2>7 DEF FInv, EndedOK, Ended, Behind
  <2>14. \A o \in Orders : Unseen(o)' => /\ Unseen(o) /\ ord'[o] = ord[o] /\ brk'[o] = brk[o]
    BY <2>6, <2>7 DEF Unseen, Behind
  <2>15. UnsureOK' /\ FetchOK'
    BY <2>4, <2>14 DEF FInv, UnsureOK, FetchOK, Up
  <2> QED BY <2>8, <2>9, <2>11, <2>12, <2>13, <2>15 DEF FInv
<1> QED BY <1>1, <1>2

\* A lock is given up.
LEMMA FlatRelease ==
  ASSUME LotAssumption, IInv, FInv, NEW k \in Keys, Release(k),
         UNCHANGED <<table, brk, barrier, phase, poll>>, flatReq' => flatReq,
         main'.at \notin {"cancelling", "cancelled"}
  PROVE  FInv'
<1>1. UNCHANGED <<ord, row, brk, barrier, phase, poll>>
  BY DEF table
<1>2. OrderStep
  BY <1>1 DEF OrderStep, Used
<1>3. \A j \in Keys : pending'[j] \in {0, pending[j]}
  BY DEF Release, IInv, TypeInv
<1>4. RequestOK' /\ KeysOK' /\ WantedOK' /\ (Up' => Up)
  BY <1>1, <1>2, <1>3, TermsStay DEF FInv, RequestOK, Up
<1> QED BY <1>1, <1>4, FlatStill

\* A sale at its lock, and before it.
LEMMA FlatSale ==
  ASSUME LotAssumption, IInv, FInv, NEW m \in Mains, m.lot \in Lots,
         AtLock(m) \/ (\E q \in Nat : Sell(m, q)) \/ SellHolding(m) \/ CancelBuyAndSell(m)
  PROVE  FInv'
<1>0. /\ \A n \in Mains : Over(n).at \in {"idle", "lots"}
      /\ \A n \in Mains, a \in Stages, b \in {"none", "up", "lots", "sell", "lock", "send"} :
           [n EXCEPT !.at = a, !.then = b].at = a
      /\ \A n \in Mains, a \in Stages : [n EXCEPT !.at = a].at = a
  BY DEF Over, Idle, Mains
<1>1. ASSUME NEW n \in Mains, n.lot \in Lots, AtLock(n) PROVE FInv'
  <2>1. CASE LockFree(<<n.lot, "SELL">>) /\ Send(n)
    BY <1>1, <2>1, FlatSend
  <2>2. CASE ~(LockFree(<<n.lot, "SELL">>) /\ Send(n))
    <3>1. /\ main' = IF n.job = "trim" THEN Over(n) ELSE [n EXCEPT !.at = "cancel"]
          /\ UNCHANGED <<table, brk, book, control, poll, relock>>
      BY <1>1, <2>2 DEF AtLock
    <3>2. main'.at \notin {"cancelling", "cancelled"}
      BY <1>0, <3>1 DEF Stages
    <3> QED BY <3>1, <3>2, FlatMain DEF control
  <2> QED BY <2>1, <2>2
<1>2. ASSUME NEW q \in Nat, Sell(m, q) PROVE FInv'
  <2>1. PICK n : n = [m EXCEPT !.side = "SELL", !.qty = q]
    OBVIOUS
  <2>2. n \in Mains /\ n.lot = m.lot
    BY <2>1 DEF Mains, Sides
  <2>3. CASE AtLock(n)
    BY <1>1, <2>2, <2>3
  <2>4. CASE ~AtLock(n)
    <3>1. /\ main' = [n EXCEPT !.at = "refresh", !.then = "lock"]
          /\ UNCHANGED <<table, brk, book, control, poll, relock>>
      BY <1>2, <2>1, <2>4 DEF Sell
    <3>2. main'.at = "refresh"
      BY <1>0, <2>2, <3>1 DEF Stages
    <3> QED BY <3>1, <3>2, FlatMain DEF control
  <2> QED BY <2>3, <2>4
<1>3. CASE SellHolding(m)
  <2>1. lot[m.lot].qty \in Nat
    BY DEF IInv, TypeInv, LotRows
  <2>2. \/ Sell(m, lot[m.lot].qty)
        \/ main' = Over(m) /\ UNCHANGED <<table, brk, book, control, poll, relock>>
    BY <1>3 DEF SellHolding
  <2>3. CASE main' = Over(m) /\ UNCHANGED <<table, brk, book, control, poll, relock>>
    <3>1. main'.at \notin {"cancelling", "cancelled"}
      BY <1>0, <2>3
    <3> QED BY <2>3, <3>1, FlatMain DEF control
  <2> QED BY <1>2, <2>1, <2>2, <2>3
<1>4. CASE CancelBuyAndSell(m)
  <2>1. PICK k : k = <<m.lot, "BUY">>
    OBVIOUS
  <2>2. k \in Keys
    BY <2>1 DEF Keys, Sides
  <2>3. CASE pending[k] = 0 /\ SellHolding(m)
    BY <1>3, <2>3
  <2>4. CASE /\ Releasable(k) /\ Release(k) /\ main' = [m EXCEPT !.at = "sell"]
             /\ UNCHANGED <<table, brk, lot, slot, barrier, control, poll, relock>>
    <3>1. main'.at = "sell"
      BY <1>0, <2>4 DEF Stages
    <3> QED BY <2>2, <2>4, <3>1, FlatRelease DEF control
  <2>5. CASE /\ ~LockFree(k) /\ main' = [m EXCEPT !.at = "cancel", !.side = "BUY"]
             /\ UNCHANGED <<table, brk, book, control, poll, relock>>
    <3>1. main'.at = "cancel"
      BY <2>5 DEF Mains
    <3> QED BY <2>5, <3>1, FlatMain DEF control
  <2> QED BY <1>4, <2>1, <2>3, <2>4, <2>5 DEF CancelBuyAndSell
<1> QED BY <1>1, <1>2, <1>3, <1>4

\* The intents of a bar.
LEMMA FlatIntents == ASSUME LotAssumption, IInv, FInv, Intents PROVE FInv'
<1>0. TypeInv /\ Idle \in Mains /\ 0 \notin Lots
  BY IdleIsFine DEF IInv, Lots
<1>1. CASE Bar \/ \E q \in 1 .. MaxQty : CutEntry(q)
  <2>1. /\ UNCHANGED <<table, brk, book, phase, poll, flatReq>>
        /\ main'.at \in {"bar", "entry"}
    BY <1>1 DEF Bar, CutEntry, Entry, Idle, control
  <2> QED BY <2>1, FlatMain
<1>2. CASE Spawn
  <2>1. PICK l \in Lots : row' = [row EXCEPT ![l].st = "WATCHING"]
    BY <1>2 DEF Spawn
  <2>2. \A j \in Lots : row'[j].qty = row[j].qty
    BY <1>0, <2>1 DEF TypeInv, LotRows
  <2>3. UNCHANGED <<ord, brk, pending, barrier, flatReq, phase, main, poll>>
    BY <1>2 DEF Spawn, control
  <2>4. OrderStep
    BY <2>3 DEF OrderStep, Used
  <2>5. RequestOK' /\ KeysOK' /\ WantedOK' /\ (Up' => Up)
    BY <2>3, <2>4, TermsStay DEF FInv, RequestOK, Up
  <2> QED BY <2>2, <2>3, <2>5, FlatStill
<1>3. CASE Exit
  <2>1. PICK m : m = [Idle EXCEPT !.job = "exit", !.lot = slot]
    OBVIOUS
  <2>2. m \in Mains /\ m.lot \in Lots
    BY <1>0, <1>3, <2>1 DEF Mains, Exit, TypeInv
  <2>3. CancelBuyAndSell(m)
    BY <1>3, <2>1 DEF Exit
  <2> QED BY <2>2, <2>3, FlatSale
<1>4. ASSUME NEW q \in 1 .. MaxQty, Enter(q) PROVE FInv'
  <2>1. PICK m : m = Entry(q)
    OBVIOUS
  <2>2. m \in Mains /\ m.lot \in Lots
    <3>1. q \in Nat
      BY DEF LotAssumption
    <3>2. slot \in Lots
      BY <1>0, <1>4 DEF Enter, MayEnter, TypeInv
    <3> QED BY <1>0, <2>1, <3>1, <3>2 DEF Mains, Sides, Entry
  <2>3. Send(m)
    BY <1>4, <2>1 DEF Enter
  <2> QED BY <2>2, <2>3, FlatSend
<1>5. ASSUME NEW q \in 1 .. MaxQty, Trim(q) PROVE FInv'
  <2>1. PICK m : m = [Idle EXCEPT !.job = "trim", !.lot = slot]
    OBVIOUS
  <2>2. m \in Mains /\ m.lot \in Lots /\ q \in Nat
    <3>1. q \in Nat
      BY DEF LotAssumption
    <3>2. slot \in Lots
      BY <1>0, <1>5 DEF Trim, TypeInv
    <3> QED BY <1>0, <2>1, <3>1, <3>2 DEF Mains
  <2>3. Sell(m, q)
    BY <1>5, <2>1 DEF Trim
  <2> QED BY <2>2, <2>3, FlatSale
<1> QED BY <1>1, <1>2, <1>3, <1>4, <1>5 DEF Intents

\* One order's state changes, and what it recorded does not.
LEMMA FlatOrder ==
  ASSUME LotAssumption, IInv, FInv, NEW o \in Orders, NEW r \in OrderRows, Used(o),
         ord' = [ord EXCEPT ![o] = r], r.st # "none", r.lot = ord[o].lot, r.side = ord[o].side,
         r.filled = ord[o].filled, ord[o].no => r.no,
         UNCHANGED <<row, brk, flatReq, phase, poll>>, Ended(o)',
         \A k \in Keys : pending'[k] \in {0, pending[k]},
         UNCHANGED main \/ main'.at \notin {"cancelling", "cancelled"},
         barrier.buy \subseteq barrier'.buy, barrier.start => barrier'.start,
         r.st = "CANCELLED" /\ Behind(o) =>
           \/ ord[o].st = "CANCELLED"
           \/ poll.by # "main" /\ (r.side = "BUY" => r.lot \in barrier'.buy)
  PROVE  FInv'
<1>1. /\ ord'[o] = r /\ \A p \in Orders \ {o} : ord'[p] = ord[p]
  BY DEF IInv, TypeInv
<1>2. HeldOK' /\ AccountOK'
  BY <1>1, SumsStay DEF SameSums
<1>3. OrderStep
  BY <1>1 DEF OrderStep, Used
<1>4. RequestOK' /\ KeysOK' /\ WantedOK'
  BY <1>3, TermsStay DEF FInv, RequestOK
<1>5. EndedOK'
  BY <1>1 DEF FInv, EndedOK, Ended, Behind
<1>6. \A p \in Orders \ {o} : Unseen(p)' <=> Unseen(p)
  BY <1>1 DEF Unseen, Behind
<1>7. Unseen(o)' => \/ Unseen(o)
                    \/ poll.by # "main" /\ (r.side = "BUY" => r.lot \in barrier'.buy)
  BY <1>1 DEF Unseen, Behind
<1>8. UnsureOK'
  <2>1. SUFFICES ASSUME Up', NEW p \in Orders, Unseen(p)', ord'[p].side = "BUY"
                 PROVE  ord'[p].lot \in barrier'.buy \/ barrier'.start
    BY DEF UnsureOK
  <2>2. Up /\ ord[p].side = "BUY" /\ ord'[p].lot = ord[p].lot
    BY <1>1, <2>1 DEF Up
  <2>3. Unseen(p) \/ (p = o /\ r.lot \in barrier'.buy)
    BY <1>1, <1>6, <1>7, <2>1
  <2> QED BY <1>1, <2>2, <2>3 DEF FInv, UnsureOK
<1>9. FetchOK'
  BY <1>6, <1>7 DEF FInv, FetchOK
<1> QED BY <1>2, <1>4, <1>5, <1>8, <1>9 DEF FInv

\* The answers to a submit, and the end of an order that ended at the broker.
LEMMA FlatAnswers ==
  ASSUME LotAssumption, IInv, FInv, Ack \/ Refused \/ TimesOut \/ \E o \in Orders : Expire(o)
  PROVE  FInv'
<1>0. TypeInv /\ OrdersOK /\ MainFine(main) /\ ord \in [Orders -> OrderRows] /\ main \in Mains
      /\ EndedOK /\ Idle.at = "idle" /\ Over(main).at \in {"idle", "lots"}
  BY DEF IInv, TypeInv, MainOK, FInv, Over, Idle, Mains
<1>1. CASE Ack \/ Refused \/ TimesOut
  <2>1. PICK o : o = main.order
    OBVIOUS
  <2>2. /\ o \in Orders /\ ord[o].st = "PENDING_NEW" /\ Used(o) /\ Ended(o) /\ ord[o] \in OrderRows
    BY <1>0, <1>1, <2>1 DEF MainFine, Used, Ack, Refused, TimesOut, EndedOK
  <2>3. PICK r : r = IF Ack THEN [ord[o] EXCEPT !.no = TRUE, !.st = "NEW"]
                     ELSE IF Refused THEN [ord[o] EXCEPT !.st = "REJECTED"]
                     ELSE [ord[o] EXCEPT !.st = "UNKNOWN"]
    OBVIOUS
  <2>4. /\ r \in OrderRows /\ r.lot = ord[o].lot /\ r.side = ord[o].side /\ r.filled = ord[o].filled
        /\ \/ r.st = "NEW" /\ r.no
           \/ r.st = "REJECTED" /\ brk[o].at = "refused" /\ r.no = ord[o].no
           \/ r.st = "UNKNOWN" /\ r.no = ord[o].no
    <3>1. CASE Ack
      BY <2>2, <2>3, <3>1 DEF OrderRows, Open
    <3>2. CASE ~Ack /\ Refused
      BY <2>1, <2>2, <2>3, <3>2 DEF OrderRows, Final, Refused
    <3>3. CASE ~Ack /\ ~Refused
      BY <2>2, <2>3, <3>3 DEF OrderRows, Open
    <3> QED BY <3>1, <3>2, <3>3
  <2>5. ord' = [ord EXCEPT ![o] = r]
    <3>1. CASE Ack
      BY <1>0, <2>1, <2>2, <2>3, <3>1 DEF Ack
    <3>2. CASE ~Ack /\ Refused
      BY <1>0, <2>1, <2>2, <2>3, <3>2 DEF Refused
    <3>3. CASE ~Ack /\ ~Refused
      BY <1>0, <1>1, <2>1, <2>2, <2>3, <3>3 DEF TimesOut
    <3> QED BY <3>1, <3>2, <3>3
  <2>6. /\ UNCHANGED <<row, brk, flatReq, phase, poll, barrier>>
        /\ main'.at \notin {"cancelling", "cancelled"}
    BY <1>0, <1>1 DEF Ack, Refused, TimesOut, book, control
  <2>7. \A k \in Keys : pending'[k] \in {0, pending[k]}
    BY <1>0, <1>1 DEF Ack, Refused, TimesOut, book, TypeInv
  <2>8. Ended(o)'
    <3>1. ord'[o] = r /\ brk'[o] = brk[o]
      BY <1>0, <2>2, <2>5, <2>6
    <3> QED BY <2>2, <2>4, <3>1 DEF Ended, Behind
  <2>9. r.st # "CANCELLED" /\ r.st # "none" /\ (ord[o].no => r.no)
    BY <2>4
  <2> QED BY <2>2, <2>4, <2>5, <2>6, <2>7, <2>8, <2>9, FlatOrder
<1>2. ASSUME NEW o \in Orders, Expire(o) PROVE FInv'
  <2>1. PICK r : r = [ord[o] EXCEPT !.st = "EXPIRED"]
    OBVIOUS
  <2>2. /\ r \in OrderRows /\ r.lot = ord[o].lot /\ r.side = ord[o].side /\ r.filled = ord[o].filled
        /\ r.st = "EXPIRED" /\ r.no = ord[o].no
    <3>1. ord[o] \in OrderRows
      BY <1>0
    <3> QED BY <2>1, <3>1 DEF OrderRows, Final
  <2>3. /\ ord' = [ord EXCEPT ![o] = r] /\ Used(o) /\ ord[o].no /\ ord[o].filled = brk[o].exec
        /\ UNCHANGED <<row, brk, flatReq, phase, poll, barrier, pending, main>>
    BY <1>0, <1>2, <2>1 DEF Expire, Used, EndedOK, Ended, book, control
  <2>4. Ended(o)'
    <3>1. ord'[o] = r /\ brk'[o] = brk[o] /\ Ended(o) /\ brk[o].exec \in Nat
      BY <1>0, <2>3 DEF EndedOK, TypeInv, BrkRows
    <3>2. ~Behind(o)'
      BY <2>2, <2>3, <3>1 DEF Behind
    <3>3. brk[o].at \in {"flight", "lost", "refused"} => brk[o].exec = 0
      BY <3>1 DEF Ended
    <3> QED BY <2>2, <2>3, <3>1, <3>2, <3>3 DEF Ended
  <2>5. (\A k \in Keys : pending'[k] \in {0, pending[k]}) /\ r.st # "CANCELLED" /\ r.st # "none"
        /\ (ord[o].no => r.no)
    BY <2>2, <2>3
  <2> QED BY <2>2, <2>3, <2>4, <2>5, FlatOrder
<1> QED BY <1>1, <1>2

\* The cancellation of an order, at its places.
LEMMA FlatCancel ==
  ASSUME LotAssumption, IInv, FInv, Cancel \/ CancelDenied \/ CancelLost \/ RecordCancel
  PROVE  FInv'
<1>0. /\ TypeInv /\ OrdersOK /\ MainFine(main) /\ ord \in [Orders -> OrderRows] /\ main \in Mains
      /\ EndedOK /\ KeysOK /\ 0 \notin Orders /\ 0 \notin Lots /\ Idle.at = "idle"
      /\ Over(main).at \in {"idle", "lots"} /\ UNCHANGED <<row, brk, flatReq, phase, poll>>
      /\ [main EXCEPT !.at = "sell"].at = "sell"
  BY SMTT(60) DEF IInv, TypeInv, MainOK, FInv, Over, Idle, Mains, Orders, Lots, LotAssumption,
         Cancel, CancelDenied, CancelLost, RecordCancel, control, table, book
<1>1. CASE CancelDenied \/ CancelLost
  <2>1. /\ UNCHANGED <<table, brk, book, phase, poll, flatReq>>
        /\ main'.at \in {"sell", "idle", "lots"}
    BY <1>0, <1>1 DEF CancelDenied, CancelLost, NotCancelled, control
  <2> QED BY <2>1, FlatMain
<1> DEFINE k == <<main.lot, main.side>>
<1>2. ASSUME NEW o \in Orders \cup {0}, Unlock(k, o)
      PROVE  /\ main'.at = "refresh" /\ barrier.buy \subseteq barrier'.buy
             /\ (barrier.start => barrier'.start) /\ (main.side = "BUY" => main.lot \in barrier'.buy)
             /\ \A j \in Keys : pending'[j] \in {0, pending[j]}
  <2>1. main' = [main EXCEPT !.at = "refresh", !.then = IF main.side = "BUY" THEN "sell" ELSE "send"]
    BY <1>2 DEF Unlock
  <2>2. main'.at = "refresh"
    BY <1>0, <2>1 DEF Mains
  <2>3. barrier' = IF main.side = "BUY" THEN [barrier EXCEPT !.buy = @ \cup {main.lot}]
                   ELSE [barrier EXCEPT !.sell = @ \cup {main.lot}]
    BY <1>2 DEF Unlock
  <2>4. /\ barrier.buy \subseteq barrier'.buy /\ (barrier.start => barrier'.start)
        /\ (main.side = "BUY" => main.lot \in barrier'.buy)
    BY <1>0, <2>3 DEF TypeInv
  <2>5. \A j \in Keys : pending'[j] \in {0, pending[j]}
    BY <1>0, <1>2 DEF Unlock, TypeInv
  <2> QED BY <2>2, <2>4, <2>5
<1>3. CASE Cancel
  <2>1. UNCHANGED <<ord, row>> /\ main.at = "cancel" /\ OrderStep
    BY <1>3 DEF Cancel, table, OrderStep, Used
  <2>2. k \in Keys
    BY <1>0, <2>1 DEF MainFine, Mains, Keys, Waits
  <2>3. PICK o \in Orders \cup {0} : o = pending[k]
    BY <1>0, <2>2 DEF TypeInv
  <2>4. CASE Unlock(k, o)
    <3>1. KeysOK' /\ WantedOK' /\ RequestOK' /\ (Up' => Up)
      BY <1>0, <1>2, <2>1, <2>4, TermsStay DEF FInv, RequestOK, Up
    <3> QED BY <1>0, <1>2, <2>1, <2>4, <3>1, FlatStill
  <2>5. CASE NotCancelled /\ UNCHANGED <<pending, meta, barrier>>
    <3>1. main'.at \in {"sell", "idle", "lots"}
      BY <1>0, <2>5 DEF NotCancelled
    <3>2. KeysOK' /\ WantedOK' /\ RequestOK' /\ (Up' => Up)
      BY <1>0, <2>1, <2>5, <3>1, TermsStay DEF FInv, RequestOK, Up
    <3> QED BY <1>0, <2>1, <2>5, <3>2, FlatStill
  <2>6. CASE /\ o # 0 /\ ord[o].st \in {"NEW", "PARTIALLY_FILLED"}
             /\ main' = [main EXCEPT !.at = "cancelling", !.order = o]
             /\ UNCHANGED <<pending, meta, barrier>>
    <3>1. ord[o].no /\ KeyOf(o) = k
      BY <1>0, <2>2, <2>3, <2>6 DEF EndedOK, Ended, KeysOK
    <3>2. main'.order = o /\ main'.lot = main.lot /\ main'.side = main.side
      BY <1>0, <2>6 DEF Mains
    <3>3. WantedOK'
      BY <2>1, <3>1, <3>2 DEF WantedOK, KeyOf
    <3>4. KeysOK' /\ RequestOK' /\ (Up' => Up)
      BY <1>0, <2>1, <2>6, TermsStay DEF FInv, RequestOK, Up
    <3> QED BY <1>0, <2>1, <2>6, <3>3, <3>4, FlatStill
  <2>7. \/ Unlock(k, o)
        \/ NotCancelled /\ UNCHANGED <<pending, meta, barrier>>
        \/ /\ o # 0 /\ ord[o].st \in {"NEW", "PARTIALLY_FILLED"}
           /\ main' = [main EXCEPT !.at = "cancelling", !.order = o]
           /\ UNCHANGED <<pending, meta, barrier>>
    <3>1. o = pending[<<main.lot, main.side>>]
      BY <2>3
    <3> HIDE DEF k
    <3> QED BY <1>3, <3>1, Zenon DEF Cancel, k
  <2> QED BY <2>4, <2>5, <2>6, <2>7
<1>4. CASE RecordCancel
  <2>1. PICK o : o = main.order
    OBVIOUS
  <2>2. /\ o \in Orders /\ Used(o) /\ ord[o].no /\ KeyOf(o) = k /\ main.at = "cancelled"
        /\ ord[o] \in OrderRows /\ OrderOK(o) /\ Ended(o)
    BY <1>0, <1>4, <2>1 DEF RecordCancel, MainFine, Used, FInv, WantedOK, OrdersOK, EndedOK
  <2>3. PICK r : r = [ord[o] EXCEPT !.st = IF @ = "FILLED" THEN @ ELSE "CANCELLED"]
    OBVIOUS
  <2>4. /\ r \in OrderRows /\ r.lot = ord[o].lot /\ r.side = ord[o].side /\ r.filled = ord[o].filled
        /\ r.no = ord[o].no /\ r.st \in {"FILLED", "CANCELLED"}
    BY <2>2, <2>3 DEF OrderRows, Final
  <2>5. ord' = [ord EXCEPT ![o] = r] /\ Unlock(k, o)
    BY <1>0, <1>4, <2>1, <2>2, <2>3 DEF RecordCancel
  <2>6. poll.by # "main"
    BY <2>2 DEF IInv, MainOK
  <2>7. Ended(o)'
    <3>1. ord'[o] = r /\ brk'[o] = brk[o]
      BY <1>0, <2>2, <2>5
    <3> QED BY <2>2, <2>4, <3>1 DEF Ended, Behind
  <2>8. r.side = "BUY" => r.lot \in barrier'.buy
    BY <1>2, <2>2, <2>4, <2>5 DEF KeyOf
  <2>9. r.st # "none" /\ (ord[o].no => r.no) /\ main'.at = "refresh"
        /\ barrier.buy \subseteq barrier'.buy /\ (barrier.start => barrier'.start)
        /\ \A j \in Keys : pending'[j] \in {0, pending[j]}
    BY <1>2, <2>2, <2>4, <2>5
  <2> HIDE DEF k
  <2> QED BY <1>0, <2>2, <2>4, <2>5, <2>6, <2>7, <2>8, <2>9, FlatOrder
<1> QED BY <1>1, <1>3, <1>4

\* The liquidation.
LEMMA FlatPasses == ASSUME LotAssumption, IInv, FInv, FlatPass PROVE FInv'
<1>0. /\ TypeInv /\ main \in Mains /\ Idle.at = "idle"
  BY DEF IInv, TypeInv, Idle
<1>1. CASE FlatAll \/ Swept \/ FlatDone
  <2>1. UNCHANGED <<table, brk, book, phase, poll>> /\ (flatReq' => flatReq)
    <3>1. CASE FlatAll \/ Swept
      BY <3>1 DEF FlatAll, Swept, control
    <3>2. CASE FlatDone
      BY <3>2, Zenon DEF FlatDone
    <3> QED BY <1>1, <3>1, <3>2
  <2>2. main'.at \in {"sweep", "refresh", "lots", "idle"}
    BY <1>0, <1>1 DEF FlatAll, Swept, FlatDone, Mains, Idle
  <2> QED BY <2>1, <2>2, FlatMain
<1>2. CASE Sweep
  <2>1. PICK k \in main.keys : /\ main' = [main EXCEPT !.keys = @ \ {k}]
                              /\ IF Releasable(k) THEN Release(k) ELSE UNCHANGED <<pending, meta>>
    BY <1>2 DEF Sweep
  <2>2. /\ k \in Keys /\ main'.at = "sweep"
        /\ UNCHANGED <<table, brk, lot, slot, barrier, flatReq, phase, poll>>
    BY <1>0, <1>2, <2>1 DEF Sweep, Mains, control
  <2>3. CASE Release(k)
    BY <2>2, <2>3, FlatRelease
  <2>4. CASE UNCHANGED <<pending, meta>>
    BY <2>2, <2>4, FlatMain DEF book
  <2> QED BY <2>1, <2>3, <2>4
<1>3. CASE NextLot
  <2>1. PICK l \in main.lots : CancelBuyAndSell([main EXCEPT !.lot = l, !.lots = @ \ {l}])
    BY <1>3 DEF NextLot
  <2>2. PICK m : m = [main EXCEPT !.lot = l, !.lots = main.lots \ {l}]
    OBVIOUS
  <2>3. m \in Mains /\ m.lot \in Lots
    BY <1>0, <2>2 DEF Mains
  <2>4. CancelBuyAndSell(m)
    BY <2>1, <2>2
  <2> QED BY <2>3, <2>4, FlatSale
<1>4. CASE Finish
  <2>1. UNCHANGED <<ord, row, brk, pending, barrier, flatReq, main, poll>> /\ phase' = "done" /\ phase = "up"
    BY <1>4 DEF Finish, table, book
  <2>2. OrderStep
    BY <2>1 DEF OrderStep, Used
  <2>3. RequestOK' /\ KeysOK' /\ WantedOK' /\ Up
    BY <2>1, <2>2, TermsStay DEF RequestOK, Up
  <2> QED BY <2>1, <2>3, FlatStill
<1> QED BY <1>1, <1>2, <1>3, <1>4 DEF FlatPass

\* The main task goes on.
LEMMA FlatTask == ASSUME LotAssumption, IInv, FInv, MainTask PROVE FInv'
<1>0. /\ TypeInv /\ main \in Mains /\ MainFine(main) /\ Idle.at = "idle" /\ 0 \notin Lots
  BY DEF IInv, TypeInv, MainOK, Idle, Lots
<1>1. CASE BarEnds
  <2>1. UNCHANGED <<table, brk, book, phase, poll, flatReq>> /\ main'.at = "idle"
    BY <1>0, <1>1 DEF BarEnds, control
  <2> QED BY <2>1, FlatMain
<1>2. CASE EnterCut
  <2>1. main.lot \in Lots
    BY <1>0, <1>2 DEF EnterCut, MainFine, Tracked, Waits
  <2>2. \/ Send(main)
        \/ main' = Idle /\ UNCHANGED <<table, brk, book, control, poll, relock>>
    BY <1>2 DEF EnterCut
  <2>3. CASE main' = Idle /\ UNCHANGED <<table, brk, book, control, poll, relock>>
    BY <1>0, <2>3, FlatMain DEF control
  <2> QED BY <1>0, <2>1, <2>2, <2>3, FlatSend
<1>3. CASE ResumeSale
  <2>1. main.lot \in Lots
    BY <1>0, <1>3 DEF ResumeSale, MainFine, Tracked, Waits
  <2>2. SellHolding(main) \/ AtLock(main) \/ Send(main)
    BY <1>3 DEF ResumeSale
  <2> QED BY <1>0, <2>1, <2>2, FlatSale, FlatSend
<1> QED BY <1>1, <1>2, <1>3, FlatAnswers, FlatCancel DEF MainTask

\* What changes the locks in a fill or an adoption is an order of that key.
LEMMA FlatLocks ==
  ASSUME LotAssumption, IInv, FInv, UNCHANGED <<ord, brk, row, barrier, flatReq, phase, main>>,
         NEW o \in Orders, Used(o),
         \A k \in Keys : pending'[k] \in {0, pending[k]} \/ (k = KeyOf(o) /\ pending'[k] = o),
         poll'.by = "main" => poll.by = "main" /\ poll'.recs = poll.recs
  PROVE  FInv'
<1>1. OrderStep /\ RequestOK' /\ (Up' => Up)
  BY DEF OrderStep, Used, FInv, RequestOK, Up
<1>2. WantedOK'
  BY <1>1, TermsStay
<1>3. KeysOK'
  BY DEF FInv, KeysOK, Used, KeyOf
<1> QED BY <1>1, <1>2, <1>3, FlatStill

\* The poller, but for its fills.
LEMMA FlatPolls ==
  ASSUME LotAssumption, IInv, FInv,
         LoopPolls \/ RefreshPolls \/ OnFill \/ AdoptReopened \/ TakeSlot \/ PollEnds \/ PollFails
  PROVE  FInv'
<1>0. /\ TypeInv /\ PollOK /\ MainFine(main) /\ MainOK /\ main \in Mains /\ poll \in Polls
      /\ UNCHANGED <<ord, brk>> /\ Idle.at = "idle" /\ OrderStep /\ NoPoll.by = "none"
  BY DEF IInv, TypeInv, MainOK, Idle, OrderStep, Used, table, NoPoll,
         LoopPolls, RefreshPolls, OnFill, AdoptReopened, TakeSlot, PollEnds, PollFails
<1>1. CASE LoopPolls
  <2>1. UNCHANGED <<row, pending, barrier, flatReq, phase, main>> /\ poll'.by = "loop"
    BY <1>1 DEF LoopPolls, table, book, control, Fetched
  <2>2. RequestOK' /\ KeysOK' /\ WantedOK' /\ (Up' => Up)
    BY <1>0, <2>1, TermsStay DEF FInv, RequestOK, Up
  <2> QED BY <1>0, <2>1, <2>2, FlatStill
<1>2. CASE RefreshPolls
  <2>1. UNCHANGED <<row, pending, barrier, flatReq, phase>> /\ poll' = Fetched("main")
        /\ main'.at = "polling"
    BY <1>0, <1>2 DEF RefreshPolls, table, book, control, Mains
  <2>2. RequestOK' /\ KeysOK' /\ WantedOK' /\ (Up' => Up)
    BY <1>0, <2>1, TermsStay DEF FInv, RequestOK, Up
  <2> QED BY <1>0, <2>1, <2>2, FlatStill
<1>3. CASE OnFill
  <2>1. PICK o : o = poll.fill.o
    OBVIOUS
  <2>2. o \in Orders /\ Used(o) /\ KeyOf(o) \in Keys
    <3>1. o \in Orders /\ ord[o].no
      BY <1>0, <1>3, <2>1 DEF OnFill, PollOK
    <3>2. OrderOK(o) /\ ord[o] \in OrderRows
      BY <3>1 DEF IInv, OrdersOK, TypeInv
    <3> QED BY <3>1, <3>2 DEF OrderOK, Used, Open, Final, KeyOf, Keys, OrderRows
  <2>3. UNCHANGED <<row, barrier, flatReq, phase, main>>
    BY Zenon, <1>3 DEF OnFill, table, control
  <2>4. poll'.by = poll.by /\ poll'.recs = poll.recs
    BY ZenonT(60), <1>0, <1>3 DEF OnFill, Polls
  <2>5. \/ \E n \in Nat : Count(o, n)
        \/ pending' = [pending EXCEPT ![KeyOf(o)] = o] \/ pending' = pending
    BY ZenonT(60), <1>0, <1>3, <2>1 DEF OnFill, Polls, FillRecs
  <2>6. \A k \in Keys : pending'[k] \in {0, pending[k]} \/ (k = KeyOf(o) /\ pending'[k] = o)
    <3>1. pending \in [Keys -> Orders \cup {0}]
      BY <1>0 DEF TypeInv
    <3>2. ASSUME NEW n \in Nat, Count(o, n)
          PROVE  \E x \in {0, o, pending[KeyOf(o)]} : pending' = [pending EXCEPT ![KeyOf(o)] = x]
      <4> PICK over, lock : /\ lock \in {o, pending[KeyOf(o)]}
                           /\ pending' = [pending EXCEPT ![KeyOf(o)] = IF over /\ lock = o THEN 0 ELSE lock]
        BY <3>2, Zenon DEF Count
      <4> QED OBVIOUS
    <3> QED BY <2>2, <2>5, <3>1, <3>2
  <2> QED BY <1>0, <2>2, <2>3, <2>4, <2>6, FlatLocks
<1>4. CASE AdoptReopened \/ TakeSlot
  <2>1. UNCHANGED <<pending, barrier, flatReq, phase, main>>
    BY <1>4 DEF AdoptReopened, TakeSlot, control
  <2>2. \A l \in Lots : row'[l].qty = row[l].qty
    BY <1>0, <1>4 DEF AdoptReopened, TakeSlot, table, TypeInv, LotRows
  <2>3. poll'.by = poll.by /\ poll'.recs = poll.recs
    BY <1>0, <1>4 DEF AdoptReopened, TakeSlot, Polls
  <2>4. RequestOK' /\ KeysOK' /\ WantedOK' /\ (Up' => Up)
    BY <1>0, <2>1, TermsStay DEF FInv, RequestOK, Up
  <2> QED BY <1>0, <2>1, <2>2, <2>3, <2>4, FlatStill
<1>5. CASE PollEnds \/ PollFails
  <2>1. UNCHANGED <<row, pending>> /\ (poll' = poll \/ poll' = NoPoll)
    BY <1>5 DEF PollEnds, PollFails, table, book
  <2>2. \/ UNCHANGED main \/ main' = Refreshed(TRUE) \/ main' = Refreshed(FALSE)
    BY <1>5 DEF PollEnds, PollFails
  <2>3. UNCHANGED main \/ main'.at \notin {"cancelling", "cancelled"}
    <3>1. CASE UNCHANGED main
      BY <3>1
    <3>2. ASSUME NEW ok \in BOOLEAN, main' = Refreshed(ok), ~UNCHANGED main
          PROVE  main'.at \notin {"cancelling", "cancelled"}
      <4>1. Waits(main) /\ main.then \in {"up", "lots", "sell", "lock", "send"}
        <5>1. Waits(main)
          <6>1. CASE PollEnds
            BY <1>0, <3>2, <6>1 DEF PollEnds, MainOK, Waits
          <6>2. CASE PollFails
            BY <1>0, <3>2, <6>2 DEF PollFails, MainOK, Waits, Polls
          <6> QED BY <1>5, <6>1, <6>2
        <5> QED BY <1>0, <5>1 DEF MainFine, Mains
      <4>2. Over(main).at \in {"idle", "lots"}
        BY <1>0 DEF Over, Mains
      <4> QED BY <1>0, <3>2, <4>1, <4>2 DEF Refreshed, Mains
    <3> QED BY <2>2, <3>1, <3>2
  <2>4. /\ UNCHANGED <<phase, flatReq>> \/ (phase = "hydrating" /\ phase' = "up")
        /\ UNCHANGED barrier \/ (poll.by = "main" /\ poll.recs = {})
    <3>1. Resumed => UNCHANGED <<phase, flatReq>> \/ (phase = "hydrating" /\ phase' = "up")
      BY DEF Resumed
    <3>2. CASE PollEnds
      BY <3>1, <3>2, Zenon DEF PollEnds
    <3>3. CASE PollFails
      BY <3>1, <3>3, Zenon DEF PollFails, book
    <3> QED BY <1>5, <3>2, <3>3
  <2>5. RequestOK' /\ KeysOK' /\ WantedOK' /\ (Up' => Up)
    BY <1>0, <2>1, <2>3, <2>4, TermsStay DEF FInv, RequestOK, Up
  <2> QED BY <1>0, <2>1, <2>4, <2>5, FlatStill
<1> QED BY <1>1, <1>2, <1>3, <1>4, <1>5

\* A fill reaches the tables.
LEMMA FlatHandleFill == ASSUME LotAssumption, IInv, FInv, HandleFill PROVE FInv'
<1>0. /\ TypeInv /\ OrdersOK /\ PollOK /\ EndedOK /\ ord \in [Orders -> OrderRows]
      /\ row \in [Lots -> LotRows] /\ brk \in [Orders -> BrkRows] /\ poll \in Polls
      /\ UNCHANGED <<brk, pending, barrier, flatReq, phase, main>>
  BY DEF IInv, TypeInv, FInv, HandleFill, book, control
<1>1. PICK e \in poll.recs :
        IF ord[e.o].no /\ e.qty > ord[e.o].filled
        THEN /\ ord' = [ord EXCEPT
                  ![e.o].filled = e.qty,
                  ![e.o].st = IF @ \in {"CANCELLED", "EXPIRED"} THEN @
                            ELSE IF e.qty >= ord[e.o].qty THEN "FILLED" ELSE "PARTIALLY_FILLED"]
             /\ row' = [row EXCEPT ![ord[e.o].lot] = AfterFill(e.o, e.qty - ord[e.o].filled)]
             /\ poll' = [poll EXCEPT !.recs = @ \ {e},
                           !.fill = [NoFill EXCEPT !.at = "book", !.o = e.o, !.n = e.qty - ord[e.o].filled]]
        ELSE poll' = [poll EXCEPT !.recs = @ \ {e}] /\ UNCHANGED table
  BY DEF HandleFill
<1>2. e \in [o : Orders, qty : Nat] /\ e.qty <= brk[e.o].exec
  BY <1>0, <1>1 DEF Polls, PollOK
<1>3. PICK o \in Orders : o = e.o
  BY <1>2
<1>4. /\ ord[o] \in OrderRows /\ brk[o] \in BrkRows /\ OrderOK(o) /\ Ended(o)
      /\ ord[o].filled \in Nat /\ brk[o].exec \in Nat /\ e.qty \in Nat /\ e.qty <= brk[o].exec
      /\ ord[o].lot \in Lots /\ ord[o].side \in Sides
  BY <1>0, <1>2, <1>3 DEF OrdersOK, EndedOK, OrderRows, BrkRows
<1>5. poll'.recs = poll.recs \ {e} /\ poll'.by = poll.by
  BY <1>0, <1>1 DEF Polls
<1>6. CASE ~(ord[o].no /\ e.qty > ord[o].filled)
  <2>1. UNCHANGED <<ord, row>>
    BY <1>1, <1>3, <1>6 DEF table
  <2>2. OrderStep /\ RequestOK' /\ (Up' => Up)
    BY <1>0, <2>1 DEF OrderStep, Used, FInv, RequestOK, Up
  <2>3. KeysOK' /\ WantedOK'
    BY <1>0, <2>2, TermsStay
  <2>4. ASSUME poll.by = "main", NEW p \in Orders, Unseen(p)
        PROVE  [o |-> p, qty |-> brk[p].exec] \in poll'.recs
    <3>1. [o |-> p, qty |-> brk[p].exec] \in poll.recs
      BY <2>4 DEF FInv, FetchOK
    <3>2. ASSUME e = [o |-> p, qty |-> brk[p].exec] PROVE FALSE
      <4>1. p = o /\ e.qty = brk[o].exec
        BY <1>3, <3>2
      <4> QED BY <1>4, <1>6, <2>4, <4>1 DEF Unseen, Behind, Ended
    <3> QED BY <1>5, <3>1, <3>2
  <2> QED BY <1>0, <1>5, <2>1, <2>2, <2>3, <2>4, FlatStill
<1>7. CASE ord[o].no /\ e.qty > ord[o].filled
  <2>1. PICK n \in Nat : n = e.qty - ord[o].filled
    BY <1>4, <1>7
  <2>2. PICK st : st = IF ord[o].st \in {"CANCELLED", "EXPIRED"} THEN ord[o].st
                       ELSE IF e.qty >= ord[o].qty THEN "FILLED" ELSE "PARTIALLY_FILLED"
    OBVIOUS
  <2>3. /\ ord'[o] = [ord[o] EXCEPT !.filled = e.qty, !.st = st]
        /\ \A p \in Orders \ {o} : ord'[p] = ord[p]
    BY <1>0, <1>1, <1>3, <1>7, <2>2
  <2>4. /\ ord'[o].filled = e.qty /\ ord'[o].st = st /\ ord'[o].lot = ord[o].lot
        /\ ord'[o].side = ord[o].side /\ ord'[o].no
    BY <1>4, <1>7, <2>3 DEF OrderRows
  <2>5. /\ row'[ord[o].lot] = AfterFill(o, n)
        /\ \A l \in Lots \ {ord[o].lot} : row'[l] = row[l]
    BY <1>0, <1>1, <1>3, <1>4, <1>7, <2>1
  <2>6. /\ st \notin {"none", "REJECTED"} /\ (st = "CANCELLED" => ord[o].st = "CANCELLED")
        /\ st # "EXPIRED"
    <3>1. ord[o].st # "EXPIRED"
      BY <1>4, <1>7 DEF Ended, Behind
    <3> QED BY <2>2, <3>1
  <2>7. OrderStep
    BY <2>3, <2>4, <2>6 DEF OrderStep, Used
  <2>8. RequestOK' /\ KeysOK' /\ WantedOK' /\ (Up' => Up)
    BY <1>0, <2>7, TermsStay DEF FInv, RequestOK, Up
  <2>9. EndedOK'
    <3>1. Ended(o)'
      BY <1>0, <1>4, <2>4, <2>6 DEF Ended
    <3> QED BY <1>0, <2>3, <3>1 DEF EndedOK, Ended, Behind
  <2>10. /\ Unseen(o)' => Unseen(o) /\ e.qty < brk[o].exec
         /\ \A p \in Orders \ {o} : Unseen(p)' <=> Unseen(p)
    BY <1>0, <1>4, <1>7, <2>3, <2>4, <2>6 DEF Unseen, Behind
  <2>11. UnsureOK'
    <3>1. SUFFICES ASSUME Up', NEW p \in Orders, Unseen(p)', ord'[p].side = "BUY"
                   PROVE  ord'[p].lot \in barrier'.buy \/ barrier'.start
      BY DEF UnsureOK
    <3>2. Unseen(p) /\ ord[p].side = "BUY" /\ ord'[p].lot = ord[p].lot
      BY <2>3, <2>4, <2>10, <3>1
    <3> QED BY <1>0, <2>8, <3>1, <3>2 DEF FInv, UnsureOK
  <2>12. FetchOK'
    <3>1. SUFFICES ASSUME poll'.by = "main", NEW p \in Orders, Unseen(p)'
                   PROVE  [o |-> p, qty |-> brk'[p].exec] \in poll'.recs
      BY DEF FetchOK
    <3>2. Unseen(p) /\ (p = o => e.qty < brk[o].exec)
      BY <2>10, <3>1
    <3>3. [o |-> p, qty |-> brk[p].exec] \in poll.recs
      BY <1>5, <3>1, <3>2 DEF FInv, FetchOK
    <3>4. ASSUME e = [o |-> p, qty |-> brk[p].exec] PROVE FALSE
      <4>1. p = o /\ e.qty = brk[o].exec
        BY <1>3, <3>4
      <4> QED BY <1>4, <3>2, <4>1
    <3> QED BY <1>0, <1>5, <3>3, <3>4
  <2>13. AccountOK'
    <3>1. ASSUME NEW s \in Sides PROVE Volume(s)' = Volume(s)
      <4>1. \A p \in Orders : ord'[p].side = ord[p].side /\ brk'[p] = brk[p]
        BY <1>0, <2>3, <2>4
      <4> QED BY <4>1 DEF Volume
    <3> QED BY <3>1 DEF FInv, AccountOK, Sides
  <2>14. HeldOK'
    <3>1. SUFFICES ASSUME NEW l \in Lots PROVE (Recorded(l, "BUY") <= row[l].qty + Recorded(l, "SELL"))'
      BY DEF HeldOK
    <3>2. ASSUME NEW s \in Sides
          PROVE  /\ Recorded(l, s) \in Nat /\ Recorded(l, s)' \in Nat
                 /\ Recorded(l, s)' = IF KeyOf(o) = <<l, s>> THEN Recorded(l, s) + n ELSE Recorded(l, s)
      <4>1. PICK f, g : f = Amount(l, s) /\ g = Amount(l, s)'
        OBVIOUS
      <4>2. \A p \in Orders : ord[p].filled \in Nat /\ ord'[p].filled \in Nat /\ KeyOf(p)' = KeyOf(p)
        <5>1. \A p \in Orders : ord[p].filled \in Nat
          BY <1>0 DEF OrderRows
        <5>2. ASSUME NEW p \in Orders PROVE ord'[p].filled \in Nat /\ KeyOf(p)' = KeyOf(p)
          BY <1>4, <2>3, <2>4, <5>1 DEF KeyOf
        <5> QED BY <5>1, <5>2
      <4>3. \A p \in Orders : /\ f[p] = IF KeyOf(p) = <<l, s>> THEN ord[p].filled ELSE 0
                              /\ g[p] = IF KeyOf(p) = <<l, s>> THEN ord'[p].filled ELSE 0
        BY <4>1, <4>2 DEF Amount
      <4>4. \A p \in Orders : f[p] \in Nat /\ g[p] \in Nat /\ (p # o => f[p] = g[p])
        BY <2>3, <4>2, <4>3
      <4>5. SumFunctionOnSet(f, Orders) \in Nat /\ SumFunctionOnSet(g, Orders) \in Nat
        BY <4>4, OrdersFinite, SumIsNat
      <4>6. SumFunctionOnSet(g, Orders) = SumFunctionOnSet(f, Orders) + (g[o] - f[o])
        BY <4>4, OrdersFinite, SumChange
      <4>7. g[o] - f[o] = IF KeyOf(o) = <<l, s>> THEN n ELSE 0
        BY <1>4, <2>1, <2>4, <4>3
      <4> QED BY <4>1, <4>5, <4>6, <4>7 DEF Recorded
    <3>3. row[l].qty \in Nat /\ Recorded(l, "BUY") <= row[l].qty + Recorded(l, "SELL")
      BY <1>0 DEF LotRows, FInv, HeldOK
    <3>4. CASE l # ord[o].lot
      BY <2>5, <3>2, <3>3, <3>4 DEF KeyOf, Sides
    <3>5. CASE l = ord[o].lot /\ ord[o].side = "BUY"
      <4>1. row'[l].qty = row[l].qty + n
        BY <2>5, <3>5 DEF AfterFill
      <4> QED BY <3>2, <3>3, <3>5, <4>1 DEF KeyOf, Sides
    <3>6. CASE l = ord[o].lot /\ ord[o].side = "SELL"
      <4>1. row'[l].qty \in Nat /\ row[l].qty <= row'[l].qty + n
        <5>1. row[l] \in LotRows
          BY <1>0
        <5> QED BY <2>5, <3>3, <3>6, <5>1 DEF AfterFill, LotRows
      <4> QED BY <3>2, <3>3, <3>6, <4>1 DEF KeyOf, Sides
    <3> QED BY <1>4, <3>4, <3>5, <3>6 DEF Sides
  <2> QED BY <2>8, <2>9, <2>11, <2>12, <2>13, <2>14 DEF FInv
<1> QED BY <1>6, <1>7

\* Steps that change several orders, or what the broker has of one.
LEMMA FlatMany ==
  ASSUME LotAssumption, IInv, FInv, HeldOK', AccountOK', EndedOK', RequestOK', KeysOK', WantedOK',
         \A o \in Orders : Unseen(o)' => /\ Unseen(o) /\ brk'[o].exec = brk[o].exec
                                         /\ ord'[o].side = ord[o].side /\ ord'[o].lot = ord[o].lot,
         Up' => barrier'.start \/ (Up /\ UNCHANGED barrier),
         poll'.by = "main" => UNCHANGED poll
  PROVE  FInv'
<1>1. UnsureOK'
  BY DEF FInv, UnsureOK
<1>2. FetchOK'
  BY DEF FInv, FetchOK
<1> QED BY <1>1, <1>2 DEF FInv

\* The resolver.
LEMMA FlatResolver ==
  ASSUME LotAssumption, IInv, FInv, Resolver
  PROVE  FInv'
<1>0. TypeInv /\ OrdersOK /\ RelockOK /\ EndedOK /\ ord \in [Orders -> OrderRows] /\ brk \in [Orders -> BrkRows]
  BY DEF IInv, TypeInv, FInv
<1>1. CASE Resolve
  <2>1. PICK known : known = {o \in Orders : ord[o].st = "UNKNOWN" /\ brk[o].at # "flight"}
    OBVIOUS
  <2>2. PICK yes : yes = {o \in known : brk[o].at \in {"live", "gone"}}
    OBVIOUS
  <2>3. ord' = [o \in Orders |->
             IF o \in yes THEN [ord[o] EXCEPT !.st = "NEW", !.no = TRUE, !.adopted = TRUE]
             ELSE IF o \in known THEN [ord[o] EXCEPT !.st = "REJECTED"] ELSE ord[o]]
    BY <1>1, <2>1, <2>2 DEF Resolve
  <2>4. UNCHANGED <<row, brk, pending, barrier, flatReq, phase, main, poll>>
    BY <1>1 DEF Resolve, book, control
  <2>5. ASSUME NEW o \in Orders
        PROVE  /\ ord'[o].lot = ord[o].lot /\ ord'[o].side = ord[o].side
               /\ ord'[o].filled = ord[o].filled
               /\ \/ ord[o].st = "UNKNOWN" /\ ord'[o].st = "NEW" /\ ord'[o].no
                  \/ /\ ord[o].st = "UNKNOWN" /\ ord'[o].st = "REJECTED" /\ ord'[o].no = ord[o].no
                     /\ brk[o].at \in {"lost", "refused"}
                  \/ ord'[o] = ord[o]
    <3>1. ord[o] \in OrderRows /\ brk[o] \in BrkRows /\ OrderOK(o)
      BY <1>0 DEF OrdersOK
    <3>2. CASE o \in yes
      BY <2>1, <2>2, <2>3, <3>1, <3>2 DEF OrderRows
    <3>3. CASE o \in known \ yes
      <4>1. brk[o].at \in {"lost", "refused"}
        BY <2>1, <2>2, <3>1, <3>3 DEF OrderOK, Used, BrkRows
      <4> QED BY <2>1, <2>2, <2>3, <3>1, <3>3, <4>1 DEF OrderRows
    <3>4. CASE o \notin known
      BY <2>2, <2>3, <3>4
    <3> QED BY <3>2, <3>3, <3>4
  <2>6. HeldOK' /\ AccountOK'
    BY <2>4, <2>5, SumsStay DEF SameSums
  <2>7. OrderStep
    BY <2>5 DEF OrderStep, Used
  <2>8. KeysOK' /\ WantedOK' /\ RequestOK'
    BY <2>4, <2>7, TermsStay DEF FInv, RequestOK
  <2>9. EndedOK'
    <3>1. SUFFICES ASSUME NEW o \in Orders PROVE Ended(o)'
      BY DEF EndedOK
    <3> QED BY <1>0, <2>4, <2>5 DEF EndedOK, Ended, Behind
  <2>10. \A o \in Orders : Unseen(o)' => Unseen(o)
    BY <2>4, <2>5 DEF Unseen, Behind
  <2>11. Up' => Up /\ UNCHANGED barrier
    BY <2>4 DEF Up
  <2> QED BY <2>4, <2>5, <2>6, <2>8, <2>9, <2>10, <2>11, FlatMany
<1>2. ASSUME NEW o \in relock, Relock(o) PROVE FInv'
  <2>1. o \in Orders /\ Used(o) /\ KeyOf(o) \in Keys
    BY <1>0 DEF RelockOK, TypeInv, KeyOf, Keys, OrderRows
  <2>2. /\ UNCHANGED <<ord, brk, row, barrier, flatReq, phase, main, poll>>
        /\ pending' = [pending EXCEPT ![KeyOf(o)] = o] \/ pending' = pending
    BY <1>2 DEF Relock, table, control
  <2>3. \A k \in Keys : pending'[k] \in {0, pending[k]} \/ (k = KeyOf(o) /\ pending'[k] = o)
    BY <1>0, <2>1, <2>2 DEF TypeInv
  <2> QED BY <2>1, <2>2, <2>3, FlatLocks
<1> QED BY <1>1, <1>2, FlatAnswers DEF Resolver

\* The stop, a crash, and the restart.
LEMMA FlatRestart == ASSUME LotAssumption, IInv, FInv, Stop \/ Crash \/ Hydrate PROVE FInv'
<1>0. /\ TypeInv /\ OrdersOK /\ DownOK /\ EndedOK /\ ord \in [Orders -> OrderRows] /\ 0 \notin Orders
      /\ Idle.at = "idle"
  BY DEF IInv, TypeInv, FInv, Orders, LotAssumption, Idle
<1>1. CASE Stop
  <2>1. UNCHANGED <<ord, brk, row, pending, barrier, phase, main, poll>>
    BY <1>1 DEF Stop, table, book
  <2>2. RequestOK'
    BY <1>1, Zenon DEF Stop, RequestOK
  <2>3. OrderStep
    BY <2>1 DEF OrderStep, Used
  <2>4. KeysOK' /\ WantedOK' /\ (Up' => Up)
    BY <2>1, <2>3, TermsStay DEF Up
  <2> QED BY <2>1, <2>2, <2>4, FlatStill
<1>2. CASE Crash
  <2>1. /\ UNCHANGED <<ord, row, brk>> /\ phase' = "down" /\ ~flatReq' /\ main' = Idle
        /\ pending' = [k \in Keys |-> 0] /\ poll' = NoPoll
    BY <1>2 DEF Crash, table
  <2>2. HeldOK' /\ AccountOK'
    BY <2>1, SumsStay DEF SameSums
  <2>3. EndedOK' /\ \A o \in Orders : Unseen(o)' => Unseen(o)
    BY <1>0, <2>1 DEF EndedOK, Ended, Behind, Unseen
  <2>4. KeysOK' /\ WantedOK' /\ RequestOK' /\ ~Up'
    BY <1>0, <2>1 DEF KeysOK, WantedOK, RequestOK, Up
  <2>5. poll'.by # "main"
    BY <2>1 DEF NoPoll
  <2> QED BY <2>1, <2>2, <2>3, <2>4, <2>5, FlatMany
<1>3. CASE Hydrate
  <2>0. ~Up /\ UNCHANGED <<row, brk, flatReq, poll>> /\ poll = NoPoll
    BY <1>0, <1>3 DEF Hydrate, Up, DownOK
  <2>1. PICK o1 : o1 = [o \in Orders |-> IF ord[o].st = "PENDING_NEW"
                                         THEN [ord[o] EXCEPT !.st = "UNKNOWN"] ELSE ord[o]]
    OBVIOUS
  <2>2. PICK open : open = {o \in Orders : o1[o].st \in Open}
    OBVIOUS
  <2>3. /\ ord' = o1 /\ barrier' = [Clear EXCEPT !.start = TRUE]
        /\ pending' = [k \in Keys |->
             IF \E o \in open : KeyOf(o) = k THEN Max({o \in open : KeyOf(o) = k}) ELSE 0]
        /\ main' = [Idle EXCEPT !.at = "refresh", !.then = "up"]
    BY <1>3, <2>1, <2>2 DEF Hydrate
  <2>4. ASSUME NEW o \in Orders
        PROVE  /\ ord'[o].lot = ord[o].lot /\ ord'[o].side = ord[o].side /\ ord'[o].no = ord[o].no
               /\ ord'[o].filled = ord[o].filled
               /\ \/ ord[o].st = "PENDING_NEW" /\ ord'[o].st = "UNKNOWN"
                  \/ ord'[o].st = ord[o].st
               /\ (o \in open => Used(o)')
    <3>1. ord[o] \in OrderRows
      BY <1>0
    <3>2. ord'[o] = IF ord[o].st = "PENDING_NEW" THEN [ord[o] EXCEPT !.st = "UNKNOWN"] ELSE ord[o]
      BY <2>1, <2>3
    <3>3. o \in open => ord'[o].st \in Open
      BY <2>2, <2>3
    <3> QED BY <3>1, <3>2, <3>3 DEF OrderRows, Open, Used
  <2>5. HeldOK' /\ AccountOK'
    BY <2>0, <2>4, SumsStay DEF SameSums
  <2>6. EndedOK'
    <3>1. SUFFICES ASSUME NEW o \in Orders PROVE Ended(o)'
      BY DEF EndedOK
    <3> QED BY <1>0, <2>0, <2>4 DEF EndedOK, Ended, Behind
  <2>7. \A o \in Orders : Unseen(o)' => Unseen(o)
    BY <2>0, <2>4 DEF Unseen, Behind
  <2>8. RequestOK' /\ WantedOK' /\ barrier'.start /\ poll'.by # "main"
    <3>1. main'.at = "refresh"
      BY <2>3 DEF Idle
    <3>2. barrier'.start
      BY <2>3 DEF Clear
    <3>3. ~flatReq'
      BY <1>3, <2>0 DEF FInv, RequestOK, Hydrate
    <3> QED BY <2>0, <3>1, <3>2, <3>3 DEF RequestOK, WantedOK, NoPoll
  <2>9. KeysOK'
    <3>1. SUFFICES ASSUME NEW k \in Keys, pending'[k] # 0
                   PROVE  (Used(pending[k]) /\ KeyOf(pending[k]) = k)'
      BY DEF KeysOK
    <3>2. PICK S : S = {o \in open : KeyOf(o) = k}
      OBVIOUS
    <3>3. pending'[k] = Max(S) /\ S # {}
      BY <2>3, <3>1, <3>2
    <3>4. MaxOrders \in Nat /\ S \in SUBSET (0 .. MaxOrders)
      <4>1. MaxOrders \in Nat
        BY DEF LotAssumption
      <4>2. Orders \subseteq 0 .. MaxOrders
        BY <4>1 DEF Orders
      <4>3. S \subseteq Orders
        BY <2>2, <3>2
      <4> QED BY <4>1, <4>2, <4>3
    <3>5. PICK x \in S : pending'[k] = x
      BY <3>3, <3>4, Greatest
    <3>6. x \in Orders /\ x \in open /\ KeyOf(x) = k
      BY <2>2, <3>2, <3>5
    <3>7. Used(x)' /\ KeyOf(x)' = k
      BY <2>4, <3>6 DEF KeyOf
    <3> QED BY <3>5, <3>7 DEF Used, KeyOf
  <2> QED BY <2>0, <2>4, <2>5, <2>6, <2>7, <2>8, <2>9, FlatMany
<1> QED BY <1>1, <1>2, <1>3

\* What was executed on a side, and of a lot, as sums over all orders.
Shares(l, s) == [o \in Orders |-> IF KeyOf(o) = <<l, s>> THEN brk[o].exec ELSE 0]

LEMMA ExecutedIs ==
  ASSUME LotAssumption, TypeInv, NEW T \in SUBSET Orders
  PROVE  /\ Executed(T) \in Nat
         /\ \A g : (\A o \in Orders : g[o] = IF o \in T THEN brk[o].exec ELSE 0)
                     => Executed(T) = SumFunctionOnSet(g, Orders)
<1>1. PICK f : f = [o \in Orders |-> brk[o].exec]
  OBVIOUS
<1>2. \A o \in Orders : f[o] = brk[o].exec /\ f[o] \in Nat /\ f[o] \in Int
  BY <1>1 DEF TypeInv, BrkRows
<1>3. Executed(T) = SumFunctionOnSet(f, T)
  BY <1>1 DEF Executed
<1>4. IsFiniteSet(T) /\ IsFiniteSet(Orders)
  BY OrdersFinite, FS_Subset
<1>5. Executed(T) \in Nat
  BY <1>2, <1>3, <1>4, SumIsNat
<1>6. ASSUME NEW g, \A o \in Orders : g[o] = IF o \in T THEN brk[o].exec ELSE 0
      PROVE  Executed(T) = SumFunctionOnSet(g, Orders)
  BY <1>2, <1>3, <1>4, <1>6, SumWhere
<1> QED BY <1>5, <1>6

LEMMA SidesAreSums ==
  ASSUME LotAssumption, TypeInv, NEW s
  PROVE  /\ Executed(OfSide(s)) \in Nat /\ Executed(OfSide(s)) = SumFunctionOnSet(Volume(s), Orders)
         /\ \A l : Traded(l, s) \in Nat /\ Traded(l, s) = SumFunctionOnSet(Shares(l, s), Orders)
<1>1. OfSide(s) \in SUBSET Orders /\ \A o \in Orders : o \in OfSide(s) <=> ord[o].side = s
  BY DEF OfSide
<1>2. \A o \in Orders : Volume(s)[o] = IF o \in OfSide(s) THEN brk[o].exec ELSE 0
  BY <1>1 DEF Volume
<1>3. Executed(OfSide(s)) \in Nat /\ Executed(OfSide(s)) = SumFunctionOnSet(Volume(s), Orders)
  BY <1>1, <1>2, ExecutedIs
<1>4. ASSUME NEW l PROVE Traded(l, s) \in Nat /\ Traded(l, s) = SumFunctionOnSet(Shares(l, s), Orders)
  <2>1. PICK T : T = {o \in OfSide(s) : ord[o].lot = l}
    OBVIOUS
  <2>2. T \in SUBSET Orders /\ Traded(l, s) = Executed(T)
    BY <1>1, <2>1 DEF Traded
  <2>3. \A o \in Orders : Shares(l, s)[o] = IF o \in T THEN brk[o].exec ELSE 0
    BY <1>1, <2>1 DEF Shares, KeyOf
  <2> QED BY <2>2, <2>3, ExecutedIs
<1> QED BY <1>3, <1>4

\* The broker.
LEMMA FlatBroker == ASSUME LotAssumption, IInv, FInv, Broker PROVE FInv'
<1>0. /\ TypeInv /\ OrdersOK /\ EndedOK /\ MainFine(main) /\ main \in Mains
      /\ ord \in [Orders -> OrderRows] /\ brk \in [Orders -> BrkRows]
      /\ UNCHANGED <<ord, row, pending, barrier, flatReq, phase, poll>> /\ OrderStep
  BY DEF IInv, TypeInv, MainOK, FInv, Broker, BrokerCancels, Accept, Reject, Execute, table, book,
         control, OrderStep, Used
<1>1. KeysOK' /\ RequestOK' /\ (Up' => Up /\ UNCHANGED barrier) /\ (UNCHANGED main => WantedOK')
  BY <1>0, TermsStay DEF FInv, RequestOK, Up
<1>2. ASSUME NEW o \in Orders, Working(o), NEW r \in BrkRows, brk' = [brk EXCEPT ![o] = r],
             HeldOK', AccountOK', WantedOK', brk[o].at = "flight" \/ r.at \in {"live", "gone"},
             r.at # "flight", r.at \in {"lost", "refused"} => r.exec = 0
      PROVE  FInv'
  <2>1. brk'[o] = r /\ \A p \in Orders \ {o} : brk'[p] = brk[p]
    BY <1>0, <1>2
  <2>2. ord[o].st \notin Final
    BY <1>0, <1>2 DEF OrdersOK, OrderOK
  <2>3. EndedOK'
    BY <1>0, <1>2, <2>1, <2>2 DEF EndedOK, Ended, Behind, Final
  <2>4. \A p \in Orders : Unseen(p)' => Unseen(p) /\ brk'[p].exec = brk[p].exec
    BY <1>0, <2>1, <2>2 DEF Unseen, Behind, Final
  <2> QED BY <1>0, <1>1, <1>2, <2>3, <2>4, FlatMany
<1>3. ASSUME NEW o \in Orders, NEW r \in BrkRows, brk' = [brk EXCEPT ![o] = r], r.exec = brk[o].exec
      PROVE  HeldOK' /\ AccountOK'
  <2>1. \A p \in Orders : brk'[p].exec = brk[p].exec
    BY <1>0, <1>3
  <2> QED BY <1>0, <2>1, SumsStay DEF SameSums
<1>4. ASSUME NEW o \in Orders, NEW a \in {"lost", "refused", "live", "gone"}, brk' = [brk EXCEPT ![o].at = a]
      PROVE  \E r \in BrkRows : /\ brk' = [brk EXCEPT ![o] = r] /\ r.exec = brk[o].exec /\ r.at = a
  <2>1. brk[o] \in BrkRows
    BY <1>0
  <2>2. PICK r : r = [brk[o] EXCEPT !.at = a]
    OBVIOUS
  <2>3. r \in BrkRows /\ r.exec = brk[o].exec /\ r.at = a
    BY <2>1, <2>2 DEF BrkRows
  <2> QED BY <1>4, <2>2, <2>3
<1>5. CASE \E o \in Orders : Accept(o) \/ Reject(o)
  <2>1. PICK o \in Orders : Accept(o) \/ Reject(o)
    BY <1>5
  <2>2. PICK a \in {"lost", "refused", "live", "gone"} : brk' = [brk EXCEPT ![o].at = a] /\ UNCHANGED main
    BY <2>1 DEF Accept, Reject
  <2>3. PICK r \in BrkRows : brk' = [brk EXCEPT ![o] = r] /\ r.exec = brk[o].exec /\ r.at = a
    BY <1>4, <2>2
  <2>4. brk[o].at = "flight" /\ Working(o) /\ brk[o].exec = 0
    BY <1>0, <2>1 DEF Accept, Reject, Working, EndedOK, Ended
  <2> QED BY <1>1, <1>2, <1>3, <2>2, <2>3, <2>4
<1>6. CASE BrokerCancels
  <2>1. PICK o \in Orders : o = main.order
    BY <1>0, <1>6 DEF BrokerCancels, MainFine
  <2>2. Working(o) /\ brk' = [brk EXCEPT ![o].at = "gone"]
    BY <1>6, <2>1 DEF BrokerCancels, Working
  <2>3. PICK r \in BrkRows : brk' = [brk EXCEPT ![o] = r] /\ r.exec = brk[o].exec /\ r.at = "gone"
    BY <1>4, <2>2
  <2>4. WantedOK'
    <3>1. main' = [main EXCEPT !.at = "cancelled"] /\ main.at = "cancelling"
      BY <1>6 DEF BrokerCancels
    <3>2. main'.order = main.order /\ main'.lot = main.lot /\ main'.side = main.side
      BY <1>0, <3>1 DEF Mains
    <3> QED BY <1>0, <3>1, <3>2 DEF FInv, WantedOK, KeyOf
  <2> QED BY <1>2, <1>3, <2>2, <2>3, <2>4
<1>7. CASE \E o \in Orders : Execute(o)
  <2>1. PICK o \in Orders : Execute(o)
    BY <1>7
  <2>2. brk[o].at = "live" /\ Working(o) /\ UNCHANGED main /\ (ord[o].side = "SELL" => Account > 0)
        /\ brk[o] \in BrkRows /\ brk[o].exec \in Nat
    BY <1>0, <2>1 DEF Execute, Working, BrkRows
  <2>3. PICK a \in {"live", "gone"} : a = IF brk[o].exec + 1 = ord[o].qty THEN "gone" ELSE "live"
    OBVIOUS
  <2>4. PICK x \in Nat : x = brk[o].exec + 1
    BY <2>2
  <2>5. PICK r : r = [brk[o] EXCEPT !.exec = x, !.at = a]
    OBVIOUS
  <2>6. r \in BrkRows /\ r.at = a /\ r.exec = x
    BY <2>2, <2>5 DEF BrkRows
  <2>7. brk' = [brk EXCEPT ![o] = r]
    <3>1. brk' = [brk EXCEPT ![o].exec = brk[o].exec + 1,
                             ![o].at = IF brk[o].exec + 1 = ord[o].qty THEN "gone" ELSE brk[o].at]
      BY <2>1 DEF Execute
    <3>2. brk' = [brk EXCEPT ![o].exec = x, ![o].at = a]
      BY <2>2, <2>3, <2>4, <3>1
    <3> QED BY <2>5, <3>2
  <2>8. brk'[o].exec = x /\ \A p \in Orders \ {o} : brk'[p] = brk[p]
    BY <1>0, <2>6, <2>7
  <2>9. HeldOK'
    <3>1. ASSUME NEW l \in Lots, NEW s \in Sides PROVE Recorded(l, s)' = Recorded(l, s)
      BY <1>0 DEF Recorded, Amount, KeyOf
    <3> QED BY <1>0, <3>1 DEF FInv, HeldOK, Sides
  <2>10. AccountOK'
    <3>1. ASSUME NEW s \in Sides
          PROVE  /\ SumFunctionOnSet(Volume(s), Orders) \in Nat
                 /\ SumFunctionOnSet(Volume(s)', Orders)
                      = SumFunctionOnSet(Volume(s), Orders) + (IF ord[o].side = s THEN 1 ELSE 0)
      <4>1. PICK f, g : f = Volume(s) /\ g = Volume(s)'
        OBVIOUS
      <4>2. \A p \in Orders : /\ brk[p].exec \in Nat /\ brk'[p].exec \in Nat
                              /\ f[p] = IF ord[p].side = s THEN brk[p].exec ELSE 0
                              /\ g[p] = IF ord[p].side = s THEN brk'[p].exec ELSE 0
        <5>1. \A p \in Orders : brk[p].exec \in Nat /\ brk'[p].exec \in Nat
          BY <1>0, <2>8 DEF BrkRows
        <5> QED BY <1>0, <4>1, <5>1 DEF Volume
      <4>3. \A p \in Orders : f[p] \in Nat /\ g[p] \in Nat /\ (p # o => f[p] = g[p])
        BY <2>8, <4>2
      <4>4. SumFunctionOnSet(f, Orders) \in Nat
        BY <4>3, OrdersFinite, SumIsNat
      <4>5. SumFunctionOnSet(g, Orders) = SumFunctionOnSet(f, Orders) + (g[o] - f[o])
        BY <4>3, OrdersFinite, SumChange
      <4>6. g[o] - f[o] = IF ord[o].side = s THEN 1 ELSE 0
        BY <2>2, <2>4, <2>8, <4>2
      <4> QED BY <4>1, <4>4, <4>5, <4>6
    <3>2. ord[o].side = "SELL" =>
            SumFunctionOnSet(Volume("SELL"), Orders) < SumFunctionOnSet(Volume("BUY"), Orders)
      <4>1. /\ Executed(OfSide("BUY")) = SumFunctionOnSet(Volume("BUY"), Orders)
            /\ Executed(OfSide("SELL")) = SumFunctionOnSet(Volume("SELL"), Orders)
        BY <1>0, SidesAreSums
      <4> QED BY <2>2, <3>1, <4>1 DEF Account, Sides
    <3>3. PICK a1, b1, a2, b2 : /\ a1 = SumFunctionOnSet(Volume("SELL"), Orders)
                                /\ b1 = SumFunctionOnSet(Volume("BUY"), Orders)
                                /\ a2 = SumFunctionOnSet(Volume("SELL")', Orders)
                                /\ b2 = SumFunctionOnSet(Volume("BUY")', Orders)
      OBVIOUS
    <3>4. /\ a1 \in Nat /\ b1 \in Nat /\ a1 <= b1 /\ (ord[o].side = "SELL" => a1 < b1)
          /\ a2 = a1 + (IF ord[o].side = "SELL" THEN 1 ELSE 0)
          /\ b2 = b1 + (IF ord[o].side = "BUY" THEN 1 ELSE 0)
      BY <3>1, <3>2, <3>3 DEF Sides, FInv, AccountOK
    <3>5. a2 <= b2
      BY <3>4
    <3> QED BY <3>3, <3>5 DEF AccountOK
  <2> QED BY <1>1, <1>2, <2>2, <2>3, <2>6, <2>7, <2>9, <2>10
<1> QED BY <1>5, <1>6, <1>7 DEF Broker

\* The invariant of the liquidation holds at the start ...
LEMMA InitFlat == ASSUME LotAssumption, Init PROVE FInv
<1>0. /\ ord = [o \in Orders |-> NoOrder] /\ row = [l \in Lots |-> NoLot]
      /\ brk = [o \in Orders |-> [at |-> "none", exec |-> 0]]
      /\ pending = [k \in Keys |-> 0] /\ ~flatReq /\ main = Idle /\ poll = NoPoll
  BY DEF Init
<1>1. /\ NoLot.qty = 0 /\ NoOrder.st = "none" /\ NoOrder.filled = 0 /\ ~NoOrder.no
      /\ Idle.at = "idle" /\ NoPoll.by = "none"
  BY DEF NoLot, NoOrder, Idle, NoPoll
<1>2. RequestOK /\ KeysOK /\ WantedOK
  BY <1>0, <1>1 DEF RequestOK, KeysOK, WantedOK
<1>3. EndedOK /\ UnsureOK /\ FetchOK
  BY <1>0, <1>1 DEF EndedOK, Ended, UnsureOK, FetchOK, Unseen
<1>4. ASSUME NEW f, \A o \in Orders : f[o] = 0 PROVE SumFunctionOnSet(f, Orders) = 0
  <2>1. \A o \in Orders : f[o] \in {0}
    BY <1>4
  <2>2. \A a, b \in {0} : a + b \in {0}
    OBVIOUS
  <2> QED BY <2>1, <2>2, OrdersFinite, SumIn
<1>5. \A l \in Lots, s \in Sides : Recorded(l, s) = 0
  BY <1>0, <1>1, <1>4 DEF Recorded, Amount
<1>6. HeldOK
  BY <1>0, <1>1, <1>5 DEF HeldOK, Sides
<1>7. AccountOK
  <2>1. \A s \in Sides : SumFunctionOnSet(Volume(s), Orders) = 0
    BY <1>0, <1>4 DEF Volume
  <2> QED BY <2>1 DEF AccountOK, Sides
<1> QED BY <1>2, <1>3, <1>6, <1>7 DEF FInv

\* ... every step keeps it ...
LEMMA StepFlat == ASSUME LotAssumption, IInv, FInv, [Next]_vars PROVE FInv'
<1>1. CASE UNCHANGED vars
  BY <1>1, FlatMain DEF vars, control
<1>2. CASE Fills
  BY <1>2, FlatPolls, FlatHandleFill DEF Fills
<1>3. CASE Next
  BY <1>2, <1>3, FlatIntents, FlatTask, FlatPasses, FlatResolver, FlatBroker, FlatRestart DEF Next
<1> QED BY <1>1, <1>3

\* ... and so it always holds.
LEMMA FlatInvariance == ASSUME LotAssumption PROVE Spec => [](IInv /\ FInv)
<1>1. Init => IInv /\ FInv
  BY InitInv, InitFlat
<1>2. IInv /\ FInv /\ [Next]_vars => (IInv /\ FInv)'
  BY StepInv, StepFlat
<1> QED BY <1>1, <1>2, PTL DEF Spec

\* Only a flat engine that is up declares itself flat.
LEMMA DeclaresWhenFlat ==
  ASSUME LotAssumption, IInv, FInv, [Next]_vars, DeclaresFlat
  PROVE  phase = "up" /\ IsFlat
<1>0. DownOK /\ RequestOK
  BY DEF IInv, FInv
<1>1. ASSUME NEW m PROVE Send(m) => UNCHANGED <<flatReq, phase>>
  BY DEF Send, control
<1>2. ASSUME NEW m PROVE AtLock(m) => UNCHANGED <<flatReq, phase>>
  BY <1>1 DEF AtLock, control
<1>3. ASSUME NEW m, NEW q PROVE Sell(m, q) => UNCHANGED <<flatReq, phase>>
  <2>1. PICK n : n = [m EXCEPT !.side = "SELL", !.qty = q]
    OBVIOUS
  <2>2. AtLock(n) => UNCHANGED <<flatReq, phase>>
    BY <1>2
  <2> QED BY <2>1, <2>2 DEF Sell, control
<1>4. ASSUME NEW m PROVE SellHolding(m) => UNCHANGED <<flatReq, phase>>
  BY <1>3 DEF SellHolding, control
<1>5. ASSUME NEW m PROVE CancelBuyAndSell(m) => UNCHANGED <<flatReq, phase>>
  BY <1>4 DEF CancelBuyAndSell, control
<1>6. Intents => UNCHANGED <<flatReq, phase>>
  <2>1. Bar \/ Spawn => UNCHANGED <<flatReq, phase>>
    BY DEF Bar, Spawn, control
  <2>2. Exit => UNCHANGED <<flatReq, phase>>
    BY <1>5 DEF Exit
  <2>3. ASSUME NEW q PROVE Enter(q) \/ CutEntry(q) \/ Trim(q) => UNCHANGED <<flatReq, phase>>
    BY <1>1, <1>3 DEF Enter, CutEntry, Trim, control
  <2> QED BY <2>1, <2>2, <2>3 DEF Intents
<1>7. MainTask => UNCHANGED <<flatReq, phase>>
  <2>1. BarEnds \/ Ack \/ Refused \/ TimesOut => UNCHANGED <<flatReq, phase>>
    BY DEF BarEnds, Ack, Refused, TimesOut, control
  <2>2. EnterCut \/ ResumeSale => UNCHANGED <<flatReq, phase>>
    BY <1>1, <1>2, <1>4 DEF EnterCut, ResumeSale, control
  <2>3. Cancel \/ CancelDenied \/ CancelLost \/ RecordCancel => UNCHANGED <<flatReq, phase>>
    BY DEF Cancel, CancelDenied, CancelLost, RecordCancel, control
  <2> QED BY <2>1, <2>2, <2>3 DEF MainTask
<1>8. FlatAll \/ Sweep \/ Swept \/ NextLot => UNCHANGED <<flatReq, phase>>
  BY <1>5 DEF FlatAll, Sweep, Swept, NextLot, control
<1>9. Fills => UNCHANGED <<flatReq, phase>> \/ phase = "hydrating"
  <2>1. LoopPolls \/ RefreshPolls \/ HandleFill => UNCHANGED <<flatReq, phase>>
    BY DEF LoopPolls, RefreshPolls, HandleFill, book, control
  <2>2. OnFill \/ AdoptReopened \/ TakeSlot => UNCHANGED <<flatReq, phase>>
    BY Zenon DEF OnFill, AdoptReopened, TakeSlot, control
  <2>3. PollEnds \/ PollFails => UNCHANGED <<flatReq, phase>> \/ phase = "hydrating"
    BY DEF PollEnds, PollFails, Resumed
  <2> QED BY <2>1, <2>2, <2>3 DEF Fills
<1>10. Resolver \/ Broker => UNCHANGED <<flatReq, phase>>
  BY DEF Resolver, Resolve, Relock, Expire, Broker, BrokerCancels, Accept, Reject, Execute, control
<1>11. ~UNCHANGED <<flatReq, phase>>
  BY DEF DeclaresFlat
<1>12. phase # "hydrating"
  BY <1>0 DEF DeclaresFlat, RequestOK
<1>13. ~Stop
  BY DEF DeclaresFlat, Stop
<1>14. ~Crash /\ ~Hydrate
  BY DEF DeclaresFlat, Crash, Hydrate
<1>15. ~UNCHANGED vars
  BY <1>11 DEF vars, control
<1>16. FlatDone \/ Finish
  BY <1>6, <1>7, <1>8, <1>9, <1>10, <1>11, <1>12, <1>13, <1>14, <1>15 DEF Next, FlatPass
<1>17. CASE Finish
  BY <1>17 DEF Finish
<1>18. CASE FlatDone
  <2>1. phase' = phase
    BY <1>18 DEF FlatDone
  <2>2. flatReq /\ ~flatReq' /\ phase = "up"
    BY <2>1 DEF DeclaresFlat
  <2>3. IsFlat
    BY <1>18, <2>2, Zenon DEF FlatDone
  <2> QED BY <2>2, <2>3
<1> QED BY <1>16, <1>17, <1>18

\* In a flat book a lot that the book can vouch for has no order left, and sold what it bought.
LEMMA VouchedIsSold ==
  ASSUME LotAssumption, IInv, FInv, phase = "up", IsFlat, poll.fill.at # "book", NEW l \in Vouched
  PROVE  NothingLeft(l)
<1>0. /\ TypeInv /\ OrdersOK /\ LocksOK /\ BookOK /\ EndedOK /\ UnsureOK /\ HeldOK /\ Up
      /\ l \in Lots /\ ~Adopted(l) /\ ~Forgotten(l) /\ 0 \notin Orders
  BY DEF IInv, FInv, Up, Vouched, Orders, LotAssumption
<1>1. ASSUME NEW o \in Orders, ord[o].lot = l
      PROVE  /\ ord[o].st \in Final \cup {"none"} /\ ~Working(o)
             /\ ord[o].side = "BUY" => ord[o].filled = brk[o].exec
  <2>1. OrderOK(o) /\ Ended(o) /\ ord[o] \in OrderRows /\ brk[o] \in BrkRows /\ KeyOf(o) \in Keys
    BY <1>0 DEF OrdersOK, EndedOK, TypeInv, KeyOf, Keys, OrderRows
  <2>2. ord[o].st \notin Open
    <3>1. SUFFICES ASSUME ord[o].st \in Open PROVE FALSE
      OBVIOUS
    <3>2. Covered(o)
      BY <1>0, <1>1, <3>1 DEF Covered, Adopted
    <3>3. pending[KeyOf(o)] = o /\ pending[KeyOf(o)] = 0
      BY <1>0, <2>1, <3>2 DEF LocksOK, IsFlat
    <3> QED BY <1>0, <3>3
  <2>3. ord[o].st \in Final \cup {"none"}
    BY <2>1, <2>2 DEF OrderRows
  <2>4. ~Working(o)
    BY <2>1, <2>3 DEF OrderOK, Used, Working
  <2>5. ord[o].side = "BUY" => ~Behind(o)
    <3>1. CASE ord[o].st = "CANCELLED"
      BY <1>0, <3>1 DEF UnsureOK, Unseen, IsFlat
    <3>2. CASE ord[o].st = "FILLED"
      BY <2>1, <3>2 DEF OrderOK, Behind, OrderRows, BrkRows
    <3>3. CASE ord[o].st = "EXPIRED"
      BY <2>1, <3>3 DEF Ended
    <3>4. CASE ord[o].st \in {"REJECTED", "none"}
      <4>1. brk[o].exec = 0
        BY <2>1, <3>4 DEF Ended, OrderOK, Used
      <4> QED BY <2>1, <4>1 DEF Behind, OrderRows
    <3> QED BY <2>3, <3>1, <3>2, <3>3, <3>4 DEF Final
  <2>6. ord[o].filled <= brk[o].exec /\ ord[o].filled \in Nat /\ brk[o].exec \in Nat
    BY <2>1 DEF OrderOK, OrderRows, BrkRows
  <2> QED BY <2>3, <2>4, <2>5, <2>6 DEF Behind
<1>2. NoOrderLeft(l)
  BY <1>1 DEF NoOrderLeft, Working
<1>3. row[l].qty = 0
  <2>1. ~Booking(l) /\ lot[l].qty = 0 /\ row[l] \in LotRows /\ Sound(row[l])
    BY <1>0 DEF Booking, IsFlat, TypeInv, BookOK
  <2>2. CASE lot[l].st # "none"
    BY <1>0, <2>1, <2>2 DEF BookOK, InMemory
  <2>3. CASE lot[l].st = "none"
    <3>1. row[l].st \notin {"WATCHING", "HOLDING", "CANCELLED"}
      BY <1>0, <2>1, <2>3 DEF BookOK, OnlyInRow, Forgotten
    <3> QED BY <2>1, <3>1 DEF LotRows, LotSt, Sound
  <2> QED BY <2>2, <2>3
<1>4. ASSUME NEW s \in Sides, NEW o \in Orders
      PROVE  /\ Amount(l, s)[o] \in Nat /\ Shares(l, s)[o] \in Nat /\ Amount(l, s)[o] <= Shares(l, s)[o]
             /\ s = "BUY" => Amount(l, s)[o] = Shares(l, s)[o]
  <2>1. ord[o].filled \in Nat /\ brk[o].exec \in Nat /\ ord[o].filled <= brk[o].exec
    BY <1>0 DEF OrdersOK, OrderOK, TypeInv, OrderRows, BrkRows
  <2>2. s = "BUY" /\ KeyOf(o) = <<l, s>> => ord[o].filled = brk[o].exec
    BY <1>1 DEF KeyOf
  <2> QED BY <2>1, <2>2 DEF Amount, Shares
<1>5. Recorded(l, "BUY") = Traded(l, "BUY")
  <2>1. \A o \in Orders : Amount(l, "BUY")[o] = Shares(l, "BUY")[o]
    BY <1>4 DEF Sides
  <2> QED BY <1>0, <2>1, OrdersFinite, SumSame, SidesAreSums DEF Recorded
<1>6. Recorded(l, "SELL") <= Traded(l, "SELL") /\ Recorded(l, "SELL") \in Nat
  <2>1. \A o \in Orders : /\ Amount(l, "SELL")[o] \in Nat /\ Shares(l, "SELL")[o] \in Nat
                          /\ Amount(l, "SELL")[o] <= Shares(l, "SELL")[o]
    BY <1>4 DEF Sides
  <2>2. SumFunctionOnSet(Amount(l, "SELL"), Orders) <= SumFunctionOnSet(Shares(l, "SELL"), Orders)
    BY <2>1, OrdersFinite, SumGrows
  <2>3. SumFunctionOnSet(Amount(l, "SELL"), Orders) \in Nat
    BY <2>1, OrdersFinite, SumIsNat
  <2> QED BY <1>0, <2>2, <2>3, SidesAreSums DEF Recorded
<1>7. Recorded(l, "BUY") <= Recorded(l, "SELL")
  <2>1. Recorded(l, "BUY") <= row[l].qty + Recorded(l, "SELL")
    BY <1>0 DEF HeldOK
  <2> QED BY <1>3, <1>6, <2>1
<1>8. Traded(l, "BUY") \in Nat /\ Traded(l, "SELL") \in Nat
  BY <1>0, SidesAreSums
<1> QED BY <1>2, <1>5, <1>6, <1>7, <1>8 DEF NothingLeft

\* What was executed of the lots in D, and of one more.
LotsTraded(D, s) == Executed({o \in OfSide(s) : ord[o].lot \in D})

LEMMA OneMoreLot ==
  ASSUME LotAssumption, TypeInv, NEW D, NEW l \in D, NEW s
  PROVE  /\ LotsTraded(D, s) = LotsTraded(D \ {l}, s) + Traded(l, s)
         /\ LotsTraded(D, s) \in Nat /\ LotsTraded(D \ {l}, s) \in Nat /\ Traded(l, s) \in Nat
<1>1. PICK S, T : /\ S = {o \in OfSide(s) : ord[o].lot \in D \ {l}}
                  /\ T = {o \in OfSide(s) : ord[o].lot = l}
  OBVIOUS
<1>2. S \in SUBSET Orders /\ T \in SUBSET Orders /\ S \cap T = {} /\ S \cup T \in SUBSET Orders
      /\ S \cup T = {o \in OfSide(s) : ord[o].lot \in D}
  BY <1>1 DEF OfSide
<1>3. PICK f : f = [o \in Orders |-> brk[o].exec]
  OBVIOUS
<1>4. \A o \in Orders : f[o] \in Int
  BY <1>3 DEF TypeInv, BrkRows
<1>5. IsFiniteSet(S) /\ IsFiniteSet(T)
  BY <1>2, OrdersFinite, FS_Subset
<1>6. \A o \in S \cup T : f[o] \in Int
  BY <1>2, <1>4
<1>7. SumFunctionOnSet(f, S \cup T) = SumFunctionOnSet(f, S) + SumFunctionOnSet(f, T)
  BY <1>2, <1>5, <1>6, SumUnion
<1>8. Executed(S \cup T) \in Nat /\ Executed(S) \in Nat /\ Executed(T) \in Nat
  BY <1>2, ExecutedIs
<1>9. LotsTraded(D, s) = Executed(S \cup T) /\ LotsTraded(D \ {l}, s) = Executed(S) /\ Traded(l, s) = Executed(T)
  BY <1>1, <1>2 DEF LotsTraded, Traded
<1> QED BY <1>3, <1>7, <1>8, <1>9 DEF Executed

\* If every lot sold what it bought, each sold just that: the account is never short.
LEMMA AllSoldIsEmpty ==
  ASSUME LotAssumption, TypeInv, AccountOK, \A l \in Lots : NothingLeft(l), NEW l \in Lots
  PROVE  Empty(l)
<1>1. IsFiniteSet(Lots)
  BY FS_Interval DEF Lots, LotAssumption
<1>2. PICK R : R = Lots \ {l}
  OBVIOUS
<1>3. PICK P : P = {D \in SUBSET R : LotsTraded(D, "BUY") <= LotsTraded(D, "SELL")}
  OBVIOUS
<1>4. ASSUME NEW D \in SUBSET R, \A x \in D : D \ {x} \in P PROVE D \in P
  <2>1. CASE D = {}
    <3>1. LotsTraded(D, "BUY") = Executed({}) /\ LotsTraded(D, "SELL") = Executed({})
      BY <2>1 DEF LotsTraded
    <3>2. Executed({}) \in Nat
      BY ExecutedIs
    <3>3. LotsTraded(D, "BUY") <= LotsTraded(D, "SELL")
      BY <3>1, <3>2
    <3> QED BY <1>3, <3>3
  <2>2. CASE D # {}
    <3>1. PICK x \in D : TRUE
      BY <2>2
    <3>2. LotsTraded(D \ {x}, "BUY") <= LotsTraded(D \ {x}, "SELL") /\ x \in Lots
      BY <1>2, <1>3, <1>4, <3>1
    <3>3. Traded(x, "BUY") <= Traded(x, "SELL")
      BY <3>2 DEF NothingLeft
    <3>4. \A s \in Sides : /\ LotsTraded(D, s) = LotsTraded(D \ {x}, s) + Traded(x, s)
                           /\ LotsTraded(D \ {x}, s) \in Nat /\ Traded(x, s) \in Nat
      BY <3>1, OneMoreLot
    <3>5. LotsTraded(D, "BUY") <= LotsTraded(D, "SELL")
      BY <3>2, <3>3, <3>4 DEF Sides
    <3> QED BY <1>3, <3>5
  <2> QED BY <2>1, <2>2
<1>5. R \in P
  <2>1. IsFiniteSet(R)
    BY <1>1, <1>2, FS_Subset
  <2> QED BY <1>4, <2>1, SubsetInduction
<1>6. LotsTraded(R, "BUY") <= LotsTraded(R, "SELL")
  BY <1>3, <1>5
<1>7. \A s \in Sides : /\ LotsTraded(Lots, s) = LotsTraded(R, s) + Traded(l, s)
                       /\ LotsTraded(R, s) \in Nat /\ Traded(l, s) \in Nat
  BY <1>2, OneMoreLot
<1>8. LotsTraded(Lots, "SELL") <= LotsTraded(Lots, "BUY")
  <2>1. ASSUME NEW s \in Sides PROVE LotsTraded(Lots, s) = SumFunctionOnSet(Volume(s), Orders)
    <3>1. OfSide(s) = {o \in OfSide(s) : ord[o].lot \in Lots}
      BY DEF OfSide, TypeInv, OrderRows
    <3> QED BY <3>1, SidesAreSums DEF LotsTraded
  <2> QED BY <2>1 DEF AccountOK, Sides
<1>9. Traded(l, "SELL") <= Traded(l, "BUY")
  BY <1>6, <1>7, <1>8 DEF Sides
<1>10. NothingLeft(l)
  OBVIOUS
<1> QED BY <1>7, <1>9, <1>10 DEF NothingLeft, Empty, Sides

\* The liquidation is declared over only when every lot that the book can vouch for has
\* sold what it bought and has no order left; and when that is every lot, nothing is left
\* in the account (service.py:501).
THEOREM FlatIsFlat == ASSUME LotAssumption PROVE Spec => FlatOnceBooked
<1> DEFINE SoldOut == DeclaresFlat /\ poll.fill.at # "book" =>
                        /\ \A l \in Vouched : NothingLeft(l)
                        /\ Vouched = Lots => \A l \in Lots : Empty(l)
<1>1. ASSUME IInv, FInv, [Next]_vars PROVE SoldOut
  <2>1. SUFFICES ASSUME DeclaresFlat, poll.fill.at # "book"
                 PROVE  /\ \A l \in Vouched : NothingLeft(l)
                        /\ Vouched = Lots => \A l \in Lots : Empty(l)
    OBVIOUS
  <2>2. phase = "up" /\ IsFlat
    BY <1>1, <2>1, DeclaresWhenFlat
  <2>3. \A l \in Vouched : NothingLeft(l)
    BY <1>1, <2>1, <2>2, VouchedIsSold
  <2>4. ASSUME Vouched = Lots PROVE \A l \in Lots : Empty(l)
    <3>1. TypeInv /\ AccountOK
      BY <1>1 DEF IInv, FInv
    <3> QED BY <2>3, <2>4, <3>1, AllSoldIsEmpty
  <2> QED BY <2>3, <2>4
<1>2. IInv /\ FInv /\ [Next]_vars => [SoldOut]_vars
  BY <1>1
<1>3. QED
  BY <1>2, FlatInvariance, PTL DEF Spec, FlatOnceBooked
=============================================================================
