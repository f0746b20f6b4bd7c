-------------------------- MODULE OrderFlow_proofs --------------------------
(***************************************************************************)
(* Proofs about OrderFlow for any number of orders, days and crashes, any  *)
(* lots and tickers, with and without listing lag.                         *)
(***************************************************************************)
EXTENDS OrderFlow, Sums

\* A row and what the broker has of it belong together.
RowOK(o) ==
  /\ ord[o].st = "none" => brk[o].at = "none" /\ ord[o].no = 0 /\ ord[o].filled = 0
  /\ ord[o].st # "none" => ord[o].day <= today /\ ord[o].qty > 0
  /\ ord[o].st \in {"PENDING_NEW", "UNKNOWN", "REJECTED"} => ord[o].no = 0
  /\ ord[o].st = "EXPIRED" => ord[o].day < today
  /\ ord[o].st = "FILLED" => ord[o].filled >= ord[o].qty
  /\ brk[o].at \in {"flight", "live"} => ord[o].day = today
  /\ brk[o].no # 0 <=> brk[o].at \in {"live", "gone"}
  /\ brk[o].exec > 0 => brk[o].no # 0
  /\ brk[o].exec <= ord[o].qty
  /\ brk[o].at = "live" => brk[o].exec < ord[o].qty

RowsOK == \A o \in Orders : RowOK(o)

\* A number names one broker order of a day.
NumbersOK ==
  /\ \A o, p \in Orders : /\ Accepted(o) /\ Accepted(p)
                          /\ ord[o].day = ord[p].day /\ brk[o].no = brk[p].no
                          => o = p
  /\ \A o \in Orders : Accepted(o) /\ ord[o].day = today => brk[o].no < nextNo

\* What the main task holds is still what it read.
MainOK ==
  /\ main.at # "idle" => /\ phase = "up" /\ main.o \in Orders
                         /\ ord[main.o].st # "none"
  /\ main.at = "send" => ord[main.o].st = "PENDING_NEW" /\ ord[main.o].day = today

\* What the resolver holds is of today.
ResOK ==
  res.at # "idle" =>
    /\ phase = "up" /\ ~fresh /\ exp.at = "idle"
    /\ \A o \in res.unknowns : ord[o].st # "none" /\ ord[o].day = today
    /\ \A p \in res.recs : Accepted(p) /\ ord[p].st # "none" /\ ord[p].day = today

\* Between expiries every open order of an earlier day has a number.
SettledOK ==
  /\ phase = "up" /\ ~fresh /\ exp.at = "idle"
       => \A o \in Orders : Stale(o) => ord[o].no # 0
  /\ fresh => phase = "up"
  /\ exp.at = "recover" => ~fresh /\ phase # "down"
  /\ \A o \in exp.keep : ord[o].no # 0

\* A fetched execution is no more than what the broker has executed.
RealOn(e, d) == /\ e.no # 0
                /\ \E p \in Orders : ord[p].day = d /\ brk[p].no = e.no /\ e.qty <= brk[p].exec

RecsOK == /\ \A e \in batch : RealOn(e, today)
          /\ \A e \in exp.recs : RealOn(e, exp.day)

\* During a recovery an order is complete, kept, or still to be recovered.
Recovered(o) == \/ ord[o].day \in exp.days
                \/ ord[o].filled = brk[o].exec
                \/ /\ ord[o].day = exp.day
                   /\ \E e \in exp.recs : e.no = ord[o].no /\ e.qty = brk[o].exec

RecoveryOK ==
  exp.at = "recover" =>
    \A o \in Orders : Stale(o) /\ ord[o].no # 0 /\ Alone(o) /\ o \notin exp.keep
                        => Recovered(o)

IInv == /\ TypeOK /\ RowsOK /\ NumbersOK /\ MainOK /\ ResOK /\ SettledOK /\ RecsOK
        /\ NumberOfTwin /\ FillsAreReal /\ ExpiredIsComplete /\ RecoveryOK

-----------------------------------------------------------------------------
\* The tuples every action leaves alone are sets of variables.
USE DEF table, broker, tasks, Closed

\* The empty row is a row.
LEMMA NoOrderType == ASSUME OrderAssumption PROVE NoOrder \in Rows
<1>1. (CHOOSE l \in Lots : TRUE) \in Lots
  BY DEF OrderAssumption
<1>2. 0 \in Shares
  BY DEF OrderAssumption, Shares
<1>3. QED
  BY <1>1, <1>2 DEF NoOrder, Rows, States, Open, Sides

\* The initial state is well typed.
LEMMA InitType == ASSUME OrderAssumption, Init PROVE TypeOK
<1>1. 0 \in Shares
  BY DEF OrderAssumption, Shares
<1>2. ord \in [Orders -> Rows]
  BY NoOrderType DEF Init
<1>3. brk \in [Orders -> BrkRows]
  BY <1>1 DEF Init, BrkRows
<1>4. pos \in [Lots -> [qty : Nat, st : {"WATCHING", "HOLDING", "CLOSED"}]]
  BY DEF Init
<1>5. acct \in [Tickers -> Nat] /\ nextNo \in Nat \ {0} /\ today \in Nat /\ crashes \in Nat
  BY DEF Init
<1>6. phase \in {"down", "hydrating", "up"} /\ fresh \in BOOLEAN
  BY DEF Init
<1>7. main \in [at : {"idle", "send", "cancel", "cancelled"}, o : Orders \cup {0}]
  BY DEF Init, NoMain
<1>8. res \in [at : {"idle", "read", "fetched"}, unknowns : SUBSET Orders,
               linked : SUBSET Nat, settled : SUBSET Orders, recs : SUBSET Orders]
  BY DEF Init, NoResolve
<1>9. batch \in SUBSET ExecRec /\ seen \in SUBSET ExecRec
  BY DEF Init
<1>10. exp \in [at : {"idle", "recover"}, days : SUBSET Nat, day : Nat,
                recs : SUBSET ExecRec, keep : SUBSET Orders]
  BY DEF Init, NoExpiry
<1>11. QED
  BY <1>2, <1>3, <1>4, <1>5, <1>6, <1>7, <1>8, <1>9, <1>10 DEF TypeOK

-----------------------------------------------------------------------------
(* Type correctness.                                                       *)

\* The shapes a row of either table can take.
LEMMA RowTypes ==
  ASSUME OrderAssumption, NEW r \in Rows
  PROVE  /\ \A s \in States : [r EXCEPT !.st = s] \in Rows
         /\ \A s \in States, n \in Nat : [r EXCEPT !.no = n, !.st = s] \in Rows
         /\ \A s \in States, n \in Nat : [r EXCEPT !.st = s, !.no = n] \in Rows
         /\ \A s \in States, f \in Shares : [r EXCEPT !.filled = f, !.st = s] \in Rows
         /\ \A s \in States : [r EXCEPT !.st = s, !.presumed = TRUE] \in Rows
         /\ r.st \in States /\ r.no \in Nat /\ r.filled \in Shares /\ r.qty \in Shares
         /\ r.day \in Nat /\ r.lot \in Lots /\ r.side \in Sides
BY DEF Rows

\* The rows of the tables have their fields' types.
LEMMA Fields ==
  ASSUME TypeOK, NEW o \in Orders
  PROVE  /\ ord[o] \in Rows /\ brk[o] \in BrkRows
         /\ brk[o].no \in Nat /\ brk[o].exec \in Shares /\ ord[o].lot \in Lots
         /\ ord[o].st \in States /\ ord[o].qty \in Shares /\ ord[o].filled \in Shares
         /\ ord[o].no \in Nat /\ ord[o].day \in Nat /\ ord[o].side \in Sides
<1>1. ord[o] \in Rows /\ brk[o] \in BrkRows
  BY DEF TypeOK
<1>2. QED
  BY <1>1 DEF Rows, BrkRows

\* A fill of one order keeps both tables well typed.
LEMMA FillType ==
  ASSUME OrderAssumption, TypeOK, NEW e \in ExecRec, NEW d, ApplyExecution(e, d)
  PROVE  /\ ord' \in [Orders -> Rows]
         /\ pos' \in [Lots -> [qty : Nat, st : {"WATCHING", "HOLDING", "CLOSED"}]]
<1>1. CASE UNCHANGED table
  BY <1>1 DEF TypeOK
<1>2. ASSUME NEW o \in Orders, Takes(o, e, d), HandleFill(o, e.qty - ord[o].filled)
      PROVE  /\ ord' \in [Orders -> Rows]
             /\ pos' \in [Lots -> [qty : Nat, st : {"WATCHING", "HOLDING", "CLOSED"}]]
  <2> DEFINE n == e.qty - ord[o].filled
  <2>1. e.qty \in Shares /\ ord[o].filled \in Shares /\ e.qty > ord[o].filled
    BY <1>2, Fields DEF ExecRec, Takes
  <2>2. n \in Nat /\ ord[o].filled + n = e.qty
    BY <2>1 DEF Shares
  <2>3. FilledTo(o, e.qty) \in States
    BY Fields DEF FilledTo, States, Open
  <2>4. ord' = [ord EXCEPT ![o] = [@ EXCEPT !.filled = e.qty, !.st = FilledTo(o, e.qty)]]
    BY <1>2, <2>2 DEF HandleFill
  <2>5. [ord[o] EXCEPT !.filled = e.qty, !.st = FilledTo(o, e.qty)] \in Rows
    BY <2>1, <2>3, Fields, RowTypes
  <2>6. ord' \in [Orders -> Rows]
    BY <2>4, <2>5 DEF TypeOK
  <2>7. pos[ord[o].lot] \in [qty : Nat, st : {"WATCHING", "HOLDING", "CLOSED"}]
    BY Fields DEF TypeOK
  <2>8. Projected(o, n) \in [qty : Nat, st : {"WATCHING", "HOLDING", "CLOSED"}]
    BY <2>2, <2>7 DEF Projected
  <2>9. pos' = [pos EXCEPT ![ord[o].lot] = Projected(o, n)]
    BY <1>2 DEF HandleFill
  <2>10. QED
    BY <2>6, <2>8, <2>9, Fields DEF TypeOK
<1>3. QED
  BY <1>1, <1>2 DEF ApplyExecution


\* Every step keeps the types.
LEMMA TypeStep ==
  ASSUME OrderAssumption, TypeOK, RowsOK, MainOK, [Next]_vars
  PROVE  TypeOK'
<1> USE DEF Shares
<1>1. ASSUME NEW l \in Lots, NEW s \in Sides, NEW q \in 1 .. MaxQty, Submit(l, s, q)
      PROVE  TypeOK'
  <2>1. PICK o \in Orders :
          /\ ord' = [ord EXCEPT ![o] = [NoOrder EXCEPT !.st = "PENDING_NEW", !.day = today,
                                     !.lot = l, !.side = s, !.qty = q]]
          /\ brk' = [brk EXCEPT ![o].at = "flight"]
          /\ main' = [at |-> "send", o |-> o]
    BY <1>1 DEF Submit
  <2>2. "PENDING_NEW" \in States
    BY DEF States, Open
  <2>3. [NoOrder EXCEPT !.st = "PENDING_NEW", !.day = today,
                        !.lot = l, !.side = s, !.qty = q] \in Rows
    <3>1. q \in Shares /\ today \in Nat
      BY DEF OrderAssumption, TypeOK
    <3>2. QED
      BY <2>2, <3>1, NoOrderType DEF Rows
  <2>4. [brk[o] EXCEPT !.at = "flight"] \in BrkRows
    BY Fields DEF BrkRows
  <2>5. ord' \in [Orders -> Rows] /\ brk' \in [Orders -> BrkRows]
    BY <2>1, <2>3, <2>4 DEF TypeOK
  <2>6. main' \in [at : {"idle", "send", "cancel", "cancelled"}, o : Orders \cup {0}]
    BY <2>1
  <2>7. QED
    BY <1>1, <2>5, <2>6 DEF Submit, TypeOK
<1>2. CASE AckArrives \/ RefusalArrives \/ SubmitTimesOut \/ RecordCancel
  <2>1. main' \in [at : {"idle", "send", "cancel", "cancelled"}, o : Orders \cup {0}]
    BY <1>2 DEF AckArrives, RefusalArrives, SubmitTimesOut, RecordCancel, NoMain
  <2>2. ord' \in [Orders -> Rows]
    <3>1. CASE AckArrives
      <4>1. PICK s \in States :
              ord' = [ord EXCEPT ![main.o] = [@ EXCEPT !.no = brk[main.o].no, !.st = s]]
        <5>1. CASE ord[main.o].st = "PENDING_NEW"
          BY <3>1, <5>1 DEF AckArrives, States, Open
        <5>2. CASE ord[main.o].st # "PENDING_NEW"
          BY <3>1, <5>2, Fields DEF AckArrives, MainOK, TypeOK
        <5>3. QED
          BY <5>1, <5>2
      <4>2. QED
        BY <4>1, <3>1, Fields, RowTypes DEF TypeOK
    <3>2. ASSUME NEW s \in States, ord' = [ord EXCEPT ![main.o].st = s]
          PROVE  ord' \in [Orders -> Rows]
      BY <3>2, Fields, RowTypes DEF TypeOK
    <3>3. CASE RefusalArrives \/ SubmitTimesOut
      BY <3>2, <3>3 DEF RefusalArrives, SubmitTimesOut, States, Open
    <3>4. CASE RecordCancel
      BY <3>2, <3>4 DEF RecordCancel, States
    <3>5. QED
      BY <1>2, <3>1, <3>3, <3>4
  <2>3. QED
    BY <1>2, <2>1, <2>2
       DEF AckArrives, RefusalArrives, SubmitTimesOut, RecordCancel, TypeOK
<1>3. ASSUME NEW o \in Orders, Cancel(o) PROVE TypeOK'
  BY <1>3 DEF Cancel, TypeOK
<1>4. CASE CancelFails
  BY <1>4 DEF CancelFails, NoMain, TypeOK
<1>5. ASSUME NEW o \in Orders, Accept(o) PROVE TypeOK'
  <2>1. [at |-> "live", no |-> nextNo, exec |-> 0, listed |-> ~ListingLag] \in BrkRows
    BY DEF BrkRows, TypeOK, OrderAssumption
  <2>2. brk' \in [Orders -> BrkRows] /\ nextNo' \in Nat \ {0}
    BY <1>5, <2>1 DEF Accept, TypeOK
  <2>3. QED
    BY <1>5, <2>2 DEF Accept, TypeOK
<1>6. ASSUME NEW o \in Orders, RefuseOrLose(o) \/ List(o) PROVE TypeOK'
  <2>1. \A a \in {"refused", "lost"} : [brk[o] EXCEPT !.at = a] \in BrkRows
    BY Fields DEF BrkRows
  <2>2. [brk[o] EXCEPT !.listed = TRUE] \in BrkRows
    BY Fields DEF BrkRows
  <2>3. brk' \in [Orders -> BrkRows]
    <3>1. CASE RefuseOrLose(o)
      BY <3>1, <2>1 DEF RefuseOrLose, TypeOK
    <3>2. CASE List(o)
      BY <3>2, <2>2 DEF List, TypeOK
    <3>3. QED
      BY <1>6, <3>1, <3>2
  <2>4. QED
    BY <1>6, <2>3 DEF RefuseOrLose, List, TypeOK
<1>7. ASSUME NEW o \in Orders, Execute(o) PROVE TypeOK'
  <2>1. brk[o].exec + 1 \in Shares
    BY <1>7, Fields DEF Execute, RowsOK, RowOK, OrderAssumption
  <2>2. PICK a \in {"gone", brk[o].at} :
          brk' = [brk EXCEPT ![o] = [brk[o] EXCEPT !.exec = brk[o].exec + 1, !.at = a]]
    <3>1. CASE brk[o].exec + 1 = ord[o].qty
      BY <1>7, <3>1 DEF Execute, TypeOK
    <3>2. CASE brk[o].exec + 1 # ord[o].qty
      BY <1>7, <3>2 DEF Execute, TypeOK
    <3>3. QED
      BY <3>1, <3>2
  <2>3. [brk[o] EXCEPT !.exec = brk[o].exec + 1, !.at = a] \in BrkRows
    BY <2>1, Fields DEF BrkRows
  <2>4. brk' \in [Orders -> BrkRows]
    BY <2>2, <2>3 DEF TypeOK
  <2>5. Sig(o)[1] \in Tickers
    BY Fields DEF Sig, Tickers
  <2>6. acct' \in [Tickers -> Nat]
    BY <1>7, <2>5, Fields DEF Execute, TypeOK, Sides
  <2>7. QED
    BY <1>7, <2>4, <2>6 DEF Execute, TypeOK
<1>8. CASE BrokerCancels
  <2>1. PICK p \in Orders : brk' = [brk EXCEPT ![p].at = "gone"]
    BY <1>8 DEF BrokerCancels
  <2>2. [brk[p] EXCEPT !.at = "gone"] \in BrkRows
    BY Fields DEF BrkRows
  <2>3. brk' \in [Orders -> BrkRows]
    BY <2>1, <2>2 DEF TypeOK
  <2>4. main' \in [at : {"idle", "send", "cancel", "cancelled"}, o : Orders \cup {0}]
    BY <1>8 DEF BrokerCancels, TypeOK
  <2>5. QED
    BY <1>8, <2>3, <2>4 DEF BrokerCancels, TypeOK
<1>9. CASE NextDay
  <2>1. \A o \in Orders : [brk[o] EXCEPT !.at = "gone"] \in BrkRows /\ brk[o] \in BrkRows
    BY Fields DEF BrkRows
  <2>2. brk' \in [Orders -> BrkRows]
    BY <1>9, <2>1 DEF NextDay
  <2>3. fresh' \in BOOLEAN /\ today' \in Nat /\ nextNo' \in Nat \ {0}
    BY <1>9 DEF NextDay, TypeOK
  <2>4. QED
    BY <1>9, <2>2, <2>3 DEF NextDay, TypeOK
<1>10. \A d : Executions(d) \subseteq ExecRec
  BY Fields DEF Executions, ExecRec
<1>11. CASE PollFetch
  BY <1>10, <1>11 DEF PollFetch, TypeOK
<1>12. ASSUME NEW e \in batch, PollApply(e) PROVE TypeOK'
  <2>1. e \in ExecRec
    BY DEF TypeOK
  <2>2. batch' \in SUBSET ExecRec /\ seen' \in SUBSET ExecRec
    BY <1>12, <2>1 DEF PollApply, TypeOK
  <2>3. QED
    BY <1>12, <2>1, <2>2, FillType DEF PollApply, TypeOK
<1>13. CASE PollFails
  BY <1>13 DEF PollFails, TypeOK
<1>14. CASE ResolverRead
  <2>1. PICK u \in SUBSET Orders :
          res' = [NoResolve EXCEPT !.at = "read", !.unknowns = u,
                    !.linked = {n \in 1 .. nextNo : Named(n, today) # {}}]
    BY <1>14 DEF ResolverRead
  <2>2. {n \in 1 .. nextNo : Named(n, today) # {}} \in SUBSET Nat
    BY DEF TypeOK
  <2>3. res' \in [at : {"idle", "read", "fetched"}, unknowns : SUBSET Orders,
                  linked : SUBSET Nat, settled : SUBSET Orders, recs : SUBSET Orders]
    BY <2>1, <2>2 DEF NoResolve
  <2>4. QED
    BY <1>14, <2>3 DEF ResolverRead, TypeOK
<1>15. CASE ResolverFetch
  <2>1. {o \in res.unknowns : brk[o].at # "flight"} \in SUBSET Orders
    BY DEF TypeOK
  <2>2. res' \in [at : {"idle", "read", "fetched"}, unknowns : SUBSET Orders,
                  linked : SUBSET Nat, settled : SUBSET Orders, recs : SUBSET Orders]
    BY <1>15, <2>1 DEF ResolverFetch, TypeOK
  <2>3. QED
    BY <1>15, <2>2 DEF ResolverFetch, TypeOK
<1>16. CASE ResolverApply
  <2> DEFINE row(o) ==
       CASE o \in res.unknowns /\ Adopts(o) ->
              [ord[o] EXCEPT !.st = "NEW", !.no = brk[Match(o)].no]
         [] o \in res.unknowns /\ Presumes(o) ->
              [ord[o] EXCEPT !.st = "REJECTED", !.presumed = TRUE]
         [] OTHER -> ord[o]
  <2>1. \A o \in Orders : Adopts(o) => brk[Match(o)].no \in Nat
    BY Fields DEF Adopts, Match
  <2>2. "NEW" \in States /\ "REJECTED" \in States
    BY DEF States, Open
  <2>3. ASSUME NEW o \in Orders PROVE row(o) \in Rows
    <3>1. CASE o \in res.unknowns /\ Adopts(o)
      BY <3>1, <2>1, <2>2, Fields, RowTypes
    <3>2. CASE ~(o \in res.unknowns /\ Adopts(o)) /\ o \in res.unknowns /\ Presumes(o)
      BY <3>2, <2>2, Fields, RowTypes
    <3>3. CASE ~(o \in res.unknowns /\ Adopts(o)) /\ ~(o \in res.unknowns /\ Presumes(o))
      BY <3>3, Fields
    <3>4. QED
      BY <3>1, <3>2, <3>3
  <2>4. ord' \in [Orders -> Rows]
    <3>1. ord' = [o \in Orders |-> row(o)]
      BY <1>16 DEF ResolverApply
    <3> HIDE DEF row
    <3>2. QED
      BY <2>3, <3>1
  <2>5. QED
    BY <1>16, <2>4 DEF ResolverApply, NoResolve, TypeOK
<1>17. CASE ResolverFails
  BY <1>17 DEF ResolverFails, NoResolve, TypeOK
<1>18. CASE OpenSession \/ Start
  <2>1. StaleDays \in SUBSET Nat
    BY Fields DEF StaleDays
  <2>2. exp' \in [at : {"idle", "recover"}, days : SUBSET Nat, day : Nat,
                  recs : SUBSET ExecRec, keep : SUBSET Orders]
    <3>1. exp' = [NoExpiry EXCEPT !.at = "recover", !.days = StaleDays]
      BY <1>18 DEF OpenSession, Start
    <3>2. QED
      BY <2>1, <3>1 DEF NoExpiry
  <2>3. \A o \in Orders : ord[o] \in Rows /\ [ord[o] EXCEPT !.st = "UNKNOWN"] \in Rows
    BY Fields, RowTypes DEF States, Open
  <2>4. ord' \in [Orders -> Rows]
    BY <1>18, <2>3 DEF OpenSession, Start, TypeOK
  <2>5. QED
    BY <1>18, <2>2, <2>4 DEF OpenSession, Start, TypeOK
<1>19. CASE RecoverFetch
  <2>1. exp' \in [at : {"idle", "recover"}, days : SUBSET Nat, day : Nat,
                  recs : SUBSET ExecRec, keep : SUBSET Orders]
    <3>1. PICK d \in exp.days :
            exp' = [exp EXCEPT !.days = @ \ {d}, !.day = d, !.recs = Executions(d)]
      BY <1>19 DEF RecoverFetch
    <3>2. d \in Nat /\ Executions(d) \in SUBSET ExecRec
      BY <1>10 DEF TypeOK
    <3>3. QED
      BY <3>1, <3>2 DEF TypeOK
  <2>2. QED
    BY <1>19, <2>1 DEF RecoverFetch, TypeOK
<1>20. ASSUME NEW e \in exp.recs, RecoverApply(e) PROVE TypeOK'
  <2>1. e \in ExecRec
    BY DEF TypeOK
  <2>2. exp' \in [at : {"idle", "recover"}, days : SUBSET Nat, day : Nat,
                  recs : SUBSET ExecRec, keep : SUBSET Orders]
    BY <1>20 DEF RecoverApply, TypeOK
  <2>3. QED
    BY <1>20, <2>1, <2>2, FillType DEF RecoverApply, TypeOK
<1>21. CASE RecoverFails
  <2>1. exp' \in [at : {"idle", "recover"}, days : SUBSET Nat, day : Nat,
                  recs : SUBSET ExecRec, keep : SUBSET Orders]
    <3>1. \A d : Keep(d) \in SUBSET Orders
      BY DEF Keep, TypeOK
    <3>2. \/ exp' = [exp EXCEPT !.recs = {}, !.keep = Keep(exp.day)]
          \/ \E d \in exp.days : exp' = [exp EXCEPT !.days = @ \ {d}, !.keep = Keep(d)]
      BY <1>21 DEF RecoverFails
    <3>3. CASE exp' = [exp EXCEPT !.recs = {}, !.keep = Keep(exp.day)]
      BY <3>1, <3>3 DEF TypeOK
    <3>4. ASSUME NEW d \in exp.days,
                 exp' = [exp EXCEPT !.days = @ \ {d}, !.keep = Keep(d)]
          PROVE  exp' \in [at : {"idle", "recover"}, days : SUBSET Nat, day : Nat,
                           recs : SUBSET ExecRec, keep : SUBSET Orders]
      BY <3>1, <3>4 DEF TypeOK
    <3>5. QED
      BY <3>2, <3>3, <3>4
  <2>2. QED
    BY <1>21, <2>1 DEF RecoverFails, TypeOK
<1>22. CASE ExpireStale
  <2>1. \A o \in Orders : ord[o] \in Rows /\ [ord[o] EXCEPT !.st = "EXPIRED"] \in Rows
    BY Fields, RowTypes DEF States, Open
  <2>2. ord' \in [Orders -> Rows]
    BY <1>22, <2>1 DEF ExpireStale
  <2>3. QED
    BY <1>22, <2>2 DEF ExpireStale, NoExpiry, TypeOK
<1>23. CASE Crash
  <2>1. main' \in [at : {"idle", "send", "cancel", "cancelled"}, o : Orders \cup {0}]
    BY <1>23 DEF Crash, NoMain
  <2>2. res' \in [at : {"idle", "read", "fetched"}, unknowns : SUBSET Orders,
                  linked : SUBSET Nat, settled : SUBSET Orders, recs : SUBSET Orders]
    BY <1>23 DEF Crash, NoResolve
  <2>3. exp' \in [at : {"idle", "recover"}, days : SUBSET Nat, day : Nat,
                  recs : SUBSET ExecRec, keep : SUBSET Orders]
    BY <1>23 DEF Crash, NoExpiry
  <2>4. crashes' \in Nat /\ batch' \in SUBSET ExecRec /\ seen' \in SUBSET ExecRec
    BY <1>23 DEF Crash, TypeOK
  <2>5. QED
    BY <1>23, <2>1, <2>2, <2>3, <2>4 DEF Crash, TypeOK
<1>24. CASE UNCHANGED vars
  BY <1>24 DEF vars, TypeOK
<1>25. QED
  BY <1>1, <1>2, <1>3, <1>4, <1>5, <1>6, <1>7, <1>8, <1>9, <1>11, <1>12, <1>13, <1>14,
     <1>15, <1>16, <1>17, <1>18, <1>19, <1>20, <1>21, <1>22, <1>23, <1>24
     DEF Next, MainTask, Broker, Poller, Resolver, Expiry

-----------------------------------------------------------------------------
(* What a step may do to one order.                                        *)

\* An order that exists keeps its day, lot, side and quantity, and its numbers
\* once it has them, and once closed stays closed; executions only grow, and
\* only while it works.
Lawful(o) ==
  /\ today' >= today
  /\ ord[o].st # "none" => /\ ord'[o].st # "none"
                           /\ ord'[o].day = ord[o].day /\ ord'[o].qty = ord[o].qty
                           /\ ord'[o].lot = ord[o].lot /\ ord'[o].side = ord[o].side
  /\ ord[o].st = "none" => ord'[o].st = "none" \/ ord'[o].day = today
  /\ ord[o].no # 0 => ord'[o].no = ord[o].no
  /\ ord[o].no = 0 /\ ord'[o].no # 0
       => /\ ord[o].st # "none" /\ ord[o].day = today
          /\ \E p \in Orders : Twins(o, p) /\ Accepted(p) /\ brk[p].no = ord'[o].no
  /\ brk'[o].exec # brk[o].exec => brk[o].at = "live" /\ brk'[o].exec >= brk[o].exec
  /\ Accepted(o) => brk'[o].no = brk[o].no
  /\ ~Accepted(o) /\ brk'[o].no # 0
       => /\ brk'[o].no = nextNo /\ nextNo' = nextNo + 1
          /\ brk[o].at = "flight" /\ today' = today
          /\ \A p \in Orders : p # o => brk'[p] = brk[p]
  /\ ord'[o].st \in Open => \/ ord[o].st \in Open
                            \/ ord'[o].day = today
  /\ ord[o].st \in Closed => ord'[o].st \in Closed

\* A fetched execution brings at most one order to its quantity.
LEMMA FillRow ==
  ASSUME TypeOK, NEW e \in ExecRec, NEW d, ApplyExecution(e, d), NEW o \in Orders
  PROVE  \/ ord'[o] = ord[o]
         \/ /\ Takes(o, e, d)
            /\ ord'[o] = [ord[o] EXCEPT !.filled = e.qty, !.st = FilledTo(o, e.qty)]
<1>1. CASE UNCHANGED table
  BY <1>1
<1>2. ASSUME NEW p \in Orders, Takes(p, e, d), HandleFill(p, e.qty - ord[p].filled)
      PROVE  \/ ord'[o] = ord[o]
             \/ /\ Takes(o, e, d)
                /\ ord'[o] = [ord[o] EXCEPT !.filled = e.qty, !.st = FilledTo(o, e.qty)]
  <2>1. e.qty \in Nat /\ ord[p].filled \in Nat
    BY Fields DEF ExecRec, Shares
  <2>2. ord[p].filled + (e.qty - ord[p].filled) = e.qty
    BY <2>1
  <2>3. ord' = [ord EXCEPT ![p] = [@ EXCEPT !.filled = e.qty, !.st = FilledTo(p, e.qty)]]
    BY <1>2, <2>2 DEF HandleFill
  <2>4. QED
    BY <1>2, <2>3 DEF TypeOK
<1>3. QED
  BY <1>1, <1>2 DEF ApplyExecution

\* The resolver adopts a record of the same signature, or presumes.
LEMMA ResolverRow ==
  ASSUME TypeOK, ResolverApply, NEW o \in Orders
  PROVE  \/ ord'[o] = ord[o]
         \/ /\ o \in res.unknowns /\ ord[o].no = 0
            /\ ord[o].st \in {"UNKNOWN", "REJECTED"}
            /\ \E p \in res.recs : /\ Sig(p) = Sig(o)
                                   /\ ord'[o] = [ord[o] EXCEPT !.st = "NEW", !.no = brk[p].no]
         \/ /\ ord[o].st = "UNKNOWN"
            /\ ord'[o] = [ord[o] EXCEPT !.st = "REJECTED", !.presumed = TRUE]
<1> DEFINE row(q) ==
     CASE q \in res.unknowns /\ Adopts(q) ->
            [ord[q] EXCEPT !.st = "NEW", !.no = brk[Match(q)].no]
       [] q \in res.unknowns /\ Presumes(q) ->
            [ord[q] EXCEPT !.st = "REJECTED", !.presumed = TRUE]
       [] OTHER -> ord[q]
<1>1. ord' = [q \in Orders |-> row(q)]
  BY DEF ResolverApply
<1>2. ord'[o] = row(o)
  <2> HIDE DEF row
  <2> QED BY <1>1
<1>3. CASE o \in res.unknowns /\ Adopts(o)
  <2>1. Match(o) \in Orders /\ Found(o) = {Match(o)}
    BY <1>3 DEF Adopts, Match
  <2>2. Match(o) \in res.recs /\ Sig(Match(o)) = Sig(o)
    BY <2>1 DEF Found
  <2>3. ord'[o] = [ord[o] EXCEPT !.st = "NEW", !.no = brk[Match(o)].no]
    <3>1. ~Presumes(o)
      BY <2>1 DEF Presumes
    <3>2. row(o) = [ord[o] EXCEPT !.st = "NEW", !.no = brk[Match(o)].no]
      BY <1>3, <3>1
    <3> HIDE DEF row
    <3>3. QED
      BY <1>2, <3>2
  <2>4. ord[o].no = 0 /\ ord[o].st \in {"UNKNOWN", "REJECTED"}
    BY <1>3 DEF Adopts
  <2>5. QED
    BY <1>3, <2>2, <2>3, <2>4
<1>4. CASE ~(o \in res.unknowns /\ Adopts(o)) /\ o \in res.unknowns /\ Presumes(o)
  BY <1>4, <1>2 DEF Presumes
<1>5. CASE ~(o \in res.unknowns /\ Adopts(o)) /\ ~(o \in res.unknowns /\ Presumes(o))
  BY <1>5, <1>2
<1>6. QED
  BY <1>3, <1>4, <1>5

\* A row whose every entry is untouched is lawful.
LEMMA Untouched ==
  ASSUME TypeOK, RowsOK, NEW o \in Orders,
         ord'[o] = ord[o], brk'[o] = brk[o], today' = today
  PROVE  Lawful(o) /\ RowOK(o)'
<1>1. RowOK(o) /\ today \in Nat
  BY DEF RowsOK, TypeOK
<1>2. RowOK(o)'
  BY <1>1 DEF RowOK
<1>3. Lawful(o)
  BY <1>1, Fields DEF Lawful, Accepted
<1>4. QED
  BY <1>2, <1>3

\* A fill is lawful.
LEMMA FillLawful ==
  ASSUME TypeOK, RowsOK, NEW e \in ExecRec, NEW d, e.no # 0, ApplyExecution(e, d),
         NEW o \in Orders, brk' = brk, today' = today
  PROVE  Lawful(o) /\ RowOK(o)'
<1>1. CASE ord'[o] = ord[o]
  BY <1>1, Untouched
<1>2. CASE /\ Takes(o, e, d)
           /\ ord'[o] = [ord[o] EXCEPT !.filled = e.qty, !.st = FilledTo(o, e.qty)]
  <2>1. RowOK(o) /\ today \in Nat /\ ord[o].no = e.no /\ ord[o] \in Rows
    BY <1>2, Fields DEF RowsOK, TypeOK, Takes, Named
  <2>2. /\ ord'[o].st = FilledTo(o, e.qty) /\ ord'[o].filled = e.qty
        /\ ord'[o].no = ord[o].no /\ ord'[o].day = ord[o].day /\ ord'[o].lot = ord[o].lot
        /\ ord'[o].side = ord[o].side /\ ord'[o].qty = ord[o].qty
    BY <1>2, <2>1 DEF Rows
  <2>3. e.qty > ord[o].filled /\ e.qty \in Nat /\ ord[o].filled \in Nat /\ ord[o].qty \in Nat
    BY <1>2, Fields DEF Takes, ExecRec, Shares
  <2>4. RowOK(o)'
    BY <2>1, <2>2, <2>3 DEF RowOK, FilledTo
  <2>5. Lawful(o)
    <3>1. ord[o].st \in States /\ ord[o].st \notin {"none", "REJECTED"}
      BY <2>1, Fields DEF RowOK
    <3>2. ord'[o].st \in Open => ord[o].st \in Open
      BY <2>1, <2>2, <2>3, <3>1 DEF RowOK, FilledTo, States, Open
    <3>3. ord'[o].st # "none"
      BY <2>2, <3>1 DEF FilledTo
    <3>4. QED
      BY <2>1, <2>2, <2>3, <3>1, <3>2, <3>3 DEF Lawful, Accepted, FilledTo, RowOK
  <2>6. QED
    BY <2>4, <2>5
<1>3. QED
  BY <1>1, <1>2, FillRow

\* Every step is lawful to every order.
LEMMA RowStep ==
  ASSUME OrderAssumption, TypeOK, RowsOK, MainOK, ResOK, RecsOK, [Next]_vars,
         NEW o \in Orders
  PROVE  Lawful(o) /\ RowOK(o)'
<1> DEFINE Goal == Lawful(o) /\ RowOK(o)'
<1>0. /\ RowOK(o) /\ ord[o] \in Rows /\ brk[o] \in BrkRows
      /\ today \in Nat /\ nextNo \in Nat \ {0}
      /\ ord[o].day \in Nat /\ ord[o].qty \in Nat /\ brk[o].exec \in Nat
      /\ ord[o].st \in States
  BY Fields DEF RowsOK, TypeOK, Shares
<1>1. ASSUME NEW l \in Lots, NEW s \in Sides, NEW q \in 1 .. MaxQty, Submit(l, s, q)
      PROVE  Goal
  <2>1. PICK p \in Orders :
          /\ ord[p].st = "none"
          /\ ord' = [ord EXCEPT ![p] = [NoOrder EXCEPT !.st = "PENDING_NEW", !.day = today,
                                     !.lot = l, !.side = s, !.qty = q]]
          /\ brk' = [brk EXCEPT ![p].at = "flight"]
    BY <1>1 DEF Submit
  <2>2. today' = today
    BY <1>1 DEF Submit
  <2>3. CASE o = p
    <3>1. /\ ord'[o].st = "PENDING_NEW" /\ ord'[o].day = today /\ ord'[o].qty = q
          /\ ord'[o].no = 0
      BY <2>1, <2>3 DEF NoOrder, TypeOK
    <3>2. /\ brk'[o].at = "flight" /\ brk'[o].no = brk[o].no /\ brk'[o].exec = brk[o].exec
      BY <2>1, <2>3, <1>0 DEF BrkRows, TypeOK
    <3>3. brk[o].no = 0 /\ brk[o].exec = 0 /\ ord[o].no = 0
      BY <2>1, <2>3, <1>0 DEF RowOK
    <3>4. q \in Nat /\ q > 0
      BY DEF OrderAssumption
    <3>5. RowOK(o)'
      BY <1>0, <2>2, <3>1, <3>2, <3>3, <3>4 DEF RowOK
    <3>6. Lawful(o)
      BY <1>0, <2>1, <2>2, <2>3, <3>1, <3>2, <3>3 DEF Lawful, Accepted
    <3>7. QED
      BY <3>5, <3>6
  <2>4. CASE o # p
    BY <2>1, <2>2, <2>4, Untouched DEF TypeOK
  <2>5. QED
    BY <2>3, <2>4
<1>2. CASE AckArrives
  <2>1. CASE o = main.o
    <3>1. /\ ord'[o].st = "NEW" /\ ord'[o].no = brk[o].no /\ ord'[o].day = ord[o].day
          /\ ord'[o].lot = ord[o].lot /\ ord'[o].side = ord[o].side
          /\ ord'[o].qty = ord[o].qty /\ ord'[o].filled = ord[o].filled
      BY <1>0, <1>2, <2>1 DEF AckArrives, MainOK, TypeOK, Rows
    <3>2. brk' = brk /\ today' = today
      BY <1>2 DEF AckArrives
    <3>3. ord[o].st = "PENDING_NEW" /\ ord[o].day = today /\ ord[o].no = 0 /\ Accepted(o)
      BY <1>0, <1>2, <2>1 DEF AckArrives, MainOK, RowOK
    <3>4. Twins(o, o)
      BY <3>3 DEF Twins
    <3>5. QED
      BY <1>0, <3>1, <3>2, <3>3, <3>4 DEF Lawful, RowOK, Accepted, Open
  <2>2. CASE o # main.o
    BY <1>2, <2>2, Untouched DEF AckArrives, TypeOK
  <2>3. QED
    BY <2>1, <2>2
<1>3. CASE RefusalArrives \/ SubmitTimesOut \/ RecordCancel
  <2>1. CASE o = main.o
    <3>1. PICK s \in States : ord' = [ord EXCEPT ![main.o].st = s]
      BY <1>3, <2>1, <1>0
         DEF RefusalArrives, SubmitTimesOut, RecordCancel, States, Open
    <3>2. /\ ord'[o].st = s /\ ord'[o].no = ord[o].no /\ ord'[o].day = ord[o].day
          /\ ord'[o].lot = ord[o].lot /\ ord'[o].side = ord[o].side
          /\ ord'[o].qty = ord[o].qty /\ ord'[o].filled = ord[o].filled
      BY <1>0, <2>1, <3>1 DEF TypeOK, Rows
    <3>3. brk' = brk /\ today' = today
      BY <1>3 DEF RefusalArrives, SubmitTimesOut, RecordCancel
    <3>4. \/ ord[o].st = "PENDING_NEW" /\ s \in {"REJECTED", "UNKNOWN"}
          \/ ord[o].st # "none" /\ (s = "CANCELLED" \/ (s = "FILLED" /\ ord[o].st = "FILLED"))
      <4>1. CASE RefusalArrives \/ SubmitTimesOut
        <5>1. ord[o].st = "PENDING_NEW"
          BY <2>1, <4>1 DEF RefusalArrives, SubmitTimesOut, MainOK
        <5>2. ord'[o].st \in {"REJECTED", "UNKNOWN"}
          BY <1>0, <2>1, <4>1 DEF RefusalArrives, SubmitTimesOut, TypeOK, Rows
        <5>3. QED
          BY <3>2, <5>1, <5>2
      <4>2. CASE RecordCancel
        <5>1. ord[o].st # "none"
          BY <2>1, <4>2 DEF RecordCancel, MainOK
        <5>2. \/ ord'[o].st = "CANCELLED"
              \/ ord'[o].st = "FILLED" /\ ord[o].st = "FILLED"
          <6>1. CASE ord[main.o].st = "FILLED"
            BY <1>0, <2>1, <4>2, <6>1 DEF RecordCancel, TypeOK, Rows
          <6>2. CASE ord[main.o].st # "FILLED"
            BY <1>0, <2>1, <4>2, <6>2 DEF RecordCancel, TypeOK, Rows
          <6>3. QED
            BY <6>1, <6>2
        <5>3. QED
          BY <3>2, <5>1, <5>2
      <4>3. QED
        BY <1>3, <4>1, <4>2
    <3>5. QED
      BY <1>0, <3>2, <3>3, <3>4 DEF Lawful, RowOK, Accepted, Open
  <2>2. CASE o # main.o
    BY <1>3, <2>2, Untouched DEF RefusalArrives, SubmitTimesOut, RecordCancel, TypeOK
  <2>3. QED
    BY <2>1, <2>2
<1>4. ASSUME NEW p \in Orders, Accept(p) PROVE Goal
  <2>1. CASE o = p
    <3>1. /\ brk'[o].at = "live" /\ brk'[o].no = nextNo /\ brk'[o].exec = 0
          /\ brk[o].at = "flight" /\ nextNo' = nextNo + 1 /\ today' = today /\ ord' = ord
      BY <1>4, <2>1 DEF Accept, TypeOK
    <3>2. ord[o].st # "none" /\ brk[o].exec = 0 /\ brk[o].no = 0
      BY <1>0, <3>1 DEF RowOK
    <3>3. \A r \in Orders : r # o => brk'[r] = brk[r]
      BY <1>4, <2>1 DEF Accept, TypeOK
    <3>4. QED
      BY <1>0, <3>1, <3>2, <3>3 DEF Lawful, RowOK, Accepted
  <2>2. CASE o # p
    BY <1>4, <2>2, Untouched DEF Accept, TypeOK
  <2>3. QED
    BY <2>1, <2>2
<1>5. ASSUME NEW p \in Orders, RefuseOrLose(p) \/ List(p) PROVE Goal
  <2>1. CASE o = p
    <3>1. /\ brk'[o].no = brk[o].no /\ brk'[o].exec = brk[o].exec
          /\ today' = today /\ ord' = ord
      BY <1>0, <1>5, <2>1 DEF RefuseOrLose, List, TypeOK, BrkRows
    <3>2. \/ brk[o].at = "flight" /\ brk'[o].at \in {"refused", "lost"}
          \/ brk'[o].at = brk[o].at
      BY <1>0, <1>5, <2>1 DEF RefuseOrLose, List, TypeOK, BrkRows
    <3>3. QED
      BY <1>0, <3>1, <3>2 DEF Lawful, RowOK, Accepted
  <2>2. CASE o # p
    BY <1>5, <2>2, Untouched DEF RefuseOrLose, List, TypeOK
  <2>3. QED
    BY <2>1, <2>2

<1>6. ASSUME NEW p \in Orders, Execute(p) PROVE Goal
  <2>1. CASE o = p
    <3>1. /\ brk'[o].no = brk[o].no /\ brk'[o].exec = brk[o].exec + 1
          /\ today' = today /\ ord' = ord /\ brk[o].at = "live"
      BY <1>0, <1>6, <2>1 DEF Execute, TypeOK, BrkRows
    <3>2. \/ brk'[o].at = "live" /\ brk[o].exec + 1 # ord[o].qty
          \/ brk'[o].at = "gone" /\ brk[o].exec + 1 = ord[o].qty
      BY <1>0, <1>6, <2>1 DEF Execute, TypeOK, BrkRows
    <3>3. ord[o].st # "none" /\ brk[o].no # 0 /\ brk[o].exec + 1 <= ord[o].qty
      BY <1>0, <3>1 DEF RowOK
    <3>4. QED
      BY <1>0, <3>1, <3>2, <3>3 DEF Lawful, RowOK, Accepted
  <2>2. CASE o # p
    BY <1>6, <2>2, Untouched DEF Execute, TypeOK
  <2>3. QED
    BY <2>1, <2>2
<1>7. CASE BrokerCancels
  <2>1. PICK p \in Orders : brk[p].at = "live" /\ brk' = [brk EXCEPT ![p].at = "gone"]
    BY <1>7 DEF BrokerCancels
  <2>2. ord' = ord /\ today' = today
    BY <1>7 DEF BrokerCancels
  <2>3. CASE o = p
    <3>1. /\ brk'[o].no = brk[o].no /\ brk'[o].exec = brk[o].exec
          /\ brk[o].at = "live" /\ brk'[o].at = "gone"
      BY <1>0, <2>1, <2>3 DEF TypeOK, BrkRows
    <3>2. QED
      BY <1>0, <2>2, <3>1 DEF Lawful, RowOK, Accepted
  <2>4. CASE o # p
    BY <2>1, <2>2, <2>4, Untouched DEF TypeOK
  <2>5. QED
    BY <2>3, <2>4
<1>8. CASE NextDay
  <2>1. /\ brk'[o].no = brk[o].no /\ brk'[o].exec = brk[o].exec
        /\ today' = today + 1 /\ ord' = ord /\ brk[o].at # "flight"
        /\ \/ brk[o].at = "live" /\ brk'[o].at = "gone"
           \/ brk[o].at # "live" /\ brk'[o].at = brk[o].at
    BY <1>0, <1>8 DEF NextDay, TypeOK, BrkRows
  <2>2. QED
    BY <1>0, <2>1 DEF Lawful, RowOK, Accepted
<1>9. ASSUME NEW e \in batch, PollApply(e) PROVE Goal
  <2>1. e \in ExecRec /\ e.no # 0
    BY DEF TypeOK, RecsOK, RealOn
  <2>2. QED
    BY <1>9, <2>1, FillLawful DEF PollApply
<1>10. ASSUME NEW e \in exp.recs, RecoverApply(e) PROVE Goal
  <2>1. e \in ExecRec /\ e.no # 0
    BY DEF TypeOK, RecsOK, RealOn
  <2>2. QED
    BY <1>10, <2>1, FillLawful DEF RecoverApply
<1>11. CASE ResolverApply
  <2>1. brk' = brk /\ today' = today
    BY <1>11 DEF ResolverApply
  <2>2. CASE ord'[o] = ord[o]
    BY <2>1, <2>2, Untouched
  <2>3. ASSUME o \in res.unknowns, ord[o].no = 0, ord[o].st \in {"UNKNOWN", "REJECTED"},
               NEW p \in res.recs, Sig(p) = Sig(o),
               ord'[o] = [ord[o] EXCEPT !.st = "NEW", !.no = brk[p].no]
        PROVE  Goal
    <3>1. /\ ord[o].day = today /\ p \in Orders
          /\ Accepted(p) /\ ord[p].st # "none" /\ ord[p].day = today
      BY <1>11, <2>3 DEF ResolverApply, ResOK, TypeOK
    <3>2. Twins(o, p)
      BY <2>3, <3>1 DEF Twins
    <3>3. /\ ord'[o].st = "NEW" /\ ord'[o].no = brk[p].no /\ ord'[o].day = ord[o].day
          /\ ord'[o].lot = ord[o].lot /\ ord'[o].side = ord[o].side
          /\ ord'[o].qty = ord[o].qty /\ ord'[o].filled = ord[o].filled
      BY <1>0, <2>3 DEF Rows
    <3>4. RowOK(o)'
      BY <1>0, <2>1, <2>3, <3>1, <3>3 DEF RowOK, Accepted
    <3>5. Lawful(o)
      BY <1>0, <2>1, <2>3, <3>1, <3>2, <3>3 DEF Lawful, Accepted, Open
    <3>6. QED
      BY <3>4, <3>5
  <2>4. CASE /\ ord[o].st = "UNKNOWN"
             /\ ord'[o] = [ord[o] EXCEPT !.st = "REJECTED", !.presumed = TRUE]
    <3>1. /\ ord'[o].st = "REJECTED" /\ ord'[o].no = ord[o].no /\ ord'[o].day = ord[o].day
          /\ ord'[o].lot = ord[o].lot /\ ord'[o].side = ord[o].side
          /\ ord'[o].qty = ord[o].qty /\ ord'[o].filled = ord[o].filled
      BY <1>0, <2>4 DEF Rows
    <3>2. QED
      BY <1>0, <2>1, <2>4, <3>1 DEF Lawful, RowOK, Accepted, Open
  <2>5. QED
    BY <1>11, <2>2, <2>3, <2>4, ResolverRow
<1>12. CASE Start
  <2>1. brk' = brk /\ today' = today
    BY <1>12 DEF Start
  <2>2. CASE ord[o].st = "PENDING_NEW"
    <3>1. ord'[o] = [ord[o] EXCEPT !.st = "UNKNOWN"]
      BY <1>12, <2>2 DEF Start
    <3>2. /\ ord'[o].st = "UNKNOWN" /\ ord'[o].no = ord[o].no /\ ord'[o].day = ord[o].day
          /\ ord'[o].lot = ord[o].lot /\ ord'[o].side = ord[o].side
          /\ ord'[o].qty = ord[o].qty /\ ord'[o].filled = ord[o].filled
      BY <1>0, <3>1 DEF Rows
    <3>3. QED
      BY <1>0, <2>1, <2>2, <3>2 DEF Lawful, RowOK, Accepted, Open
  <2>3. CASE ord[o].st # "PENDING_NEW"
    BY <1>12, <2>1, <2>3, Untouched DEF Start
  <2>4. QED
    BY <2>2, <2>3
<1>13. CASE ExpireStale
  <2>1. brk' = brk /\ today' = today
    BY <1>13 DEF ExpireStale
  <2>2. CASE Stale(o) /\ o \notin exp.keep
    <3>1. ord'[o] = [ord[o] EXCEPT !.st = "EXPIRED"]
      BY <1>13, <2>2 DEF ExpireStale
    <3>2. /\ ord'[o].st = "EXPIRED" /\ ord'[o].no = ord[o].no /\ ord'[o].day = ord[o].day
          /\ ord'[o].lot = ord[o].lot /\ ord'[o].side = ord[o].side
          /\ ord'[o].qty = ord[o].qty /\ ord'[o].filled = ord[o].filled
      BY <1>0, <3>1 DEF Rows
    <3>3. ord[o].st \in Open /\ ord[o].day < today /\ ord[o].st # "none"
      BY <2>2 DEF Stale, Open
    <3>4. QED
      BY <1>0, <2>1, <3>2, <3>3 DEF Lawful, RowOK, Accepted, Open
  <2>3. CASE ~(Stale(o) /\ o \notin exp.keep)
    BY <1>13, <2>1, <2>3, Untouched DEF ExpireStale
  <2>4. QED
    BY <2>2, <2>3
<1>14. CASE UNCHANGED <<ord, brk, today>>
  BY <1>14, Untouched
<1>15. \/ CancelFails \/ PollFetch \/ PollFails \/ ResolverRead \/ ResolverFetch
       \/ ResolverFails \/ OpenSession \/ RecoverFetch \/ RecoverFails \/ Crash
       \/ (\E p \in Orders : Cancel(p)) \/ UNCHANGED vars
       => UNCHANGED <<ord, brk, today>>
  BY DEF CancelFails, PollFetch, PollFails, ResolverRead, ResolverFetch, ResolverFails,
         OpenSession, RecoverFetch, RecoverFails, Crash, Cancel, vars
<1>16. QED
  BY <1>1, <1>2, <1>3, <1>4, <1>5, <1>6, <1>7, <1>8, <1>9, <1>10, <1>11, <1>12, <1>13,
     <1>14, <1>15 DEF Next, MainTask, Broker, Poller, Resolver, Expiry

-----------------------------------------------------------------------------
(* The invariants that follow from lawfulness alone.                       *)

\* Only the broker's acceptances and the night move its clock.
LEMMA ClockStep ==
  ASSUME TypeOK, [Next]_vars
  PROVE  \/ today' = today /\ nextNo' \in {nextNo, nextNo + 1}
         \/ NextDay /\ today' = today + 1
<1>1. CASE (\E o \in Orders : Accept(o)) \/ NextDay
  BY <1>1 DEF Accept, NextDay
<1>2. CASE MainTask
  BY <1>2 DEF MainTask, Submit, AckArrives, RefusalArrives, SubmitTimesOut, Cancel,
              RecordCancel, CancelFails
<1>3. CASE (\E o \in Orders : RefuseOrLose(o) \/ List(o) \/ Execute(o)) \/ BrokerCancels
  BY <1>3 DEF RefuseOrLose, List, Execute, BrokerCancels
<1>4. CASE Poller \/ Resolver
  BY <1>4 DEF Poller, PollFetch, PollApply, PollFails, Resolver, ResolverRead,
              ResolverFetch, ResolverApply, ResolverFails
<1>5. CASE Expiry \/ Start \/ Crash
  BY <1>5 DEF Expiry, OpenSession, RecoverFetch, RecoverApply, RecoverFails, ExpireStale,
              Start, Crash
<1>6. CASE UNCHANGED vars
  BY <1>6 DEF vars
<1>7. QED
  BY <1>1, <1>2, <1>3, <1>4, <1>5, <1>6 DEF Next, Broker

\* What the rest of the proof needs to know of a step.
LEMMA LawfulStep ==
  ASSUME OrderAssumption, IInv, [Next]_vars
  PROVE  /\ TypeOK' /\ RowsOK' /\ \A o \in Orders : Lawful(o)
         /\ \A o \in Orders : RowOK(o) /\ ord[o].day \in Nat /\ today \in Nat
<1>1. TypeOK'
  BY TypeStep DEF IInv
<1>2. \A o \in Orders : Lawful(o) /\ RowOK(o)'
  BY RowStep DEF IInv
<1>3. QED
  BY <1>1, <1>2, Fields DEF IInv, RowsOK, TypeOK

\* Twins stay twins, and an order can only lose its solitude.
LEMMA TwinStep ==
  ASSUME OrderAssumption, IInv, [Next]_vars, NEW o \in Orders, ord[o].st # "none"
  PROVE  /\ \A p \in Orders : Twins(o, p) => Twins(o, p)'
         /\ Alone(o)' => Alone(o)
<1>1. ASSUME NEW p \in Orders, Twins(o, p)
      PROVE  Twins(o, p)'
  BY <1>1, LawfulStep DEF Twins, Sig, Lawful
<1>2. QED
  BY <1>1 DEF Alone

\* Numbers keep naming one broker order of a day.
LEMMA NumbersStep ==
  ASSUME OrderAssumption, IInv, [Next]_vars
  PROVE  NumbersOK'
<1>1. ASSUME NEW o \in Orders, Accepted(o)
      PROVE  /\ ord'[o].day = ord[o].day /\ ord[o].day <= today /\ Accepted(o)'
             /\ brk'[o].no = brk[o].no
  <2>1. ord[o].st # "none"
    BY <1>1, LawfulStep DEF RowOK, Accepted
  <2>2. QED
    BY <1>1, <2>1, LawfulStep DEF RowOK, Accepted, Lawful
<1>2. ASSUME NEW o \in Orders, ~Accepted(o), Accepted(o)'
      PROVE  /\ brk'[o].no = nextNo /\ nextNo' = nextNo + 1 /\ today' = today
             /\ ord[o].day = today /\ ord'[o].day = today
             /\ \A p \in Orders : p # o => brk'[p] = brk[p]
  BY <1>2, LawfulStep DEF RowOK, Accepted, Lawful
<1>3. ASSUME NEW o \in Orders, NEW p \in Orders, Accepted(o)', Accepted(p)',
             ord'[o].day = ord'[p].day, brk'[o].no = brk'[p].no
      PROVE  o = p
  <2>1. CASE Accepted(o) /\ Accepted(p)
    BY <1>1, <1>3, <2>1 DEF IInv, NumbersOK
  <2>2. ASSUME NEW q \in Orders, NEW r \in Orders, Accepted(q), ~Accepted(r), Accepted(r)',
               ord'[q].day = ord'[r].day, brk'[q].no = brk'[r].no
        PROVE  FALSE
    <3>1. ord[q].day = today /\ brk[q].no = nextNo
      BY <1>1, <1>2, <2>2
    <3>2. brk[q].no < nextNo /\ nextNo \in Nat
      BY <2>2, <3>1 DEF IInv, NumbersOK, TypeOK
    <3>3. QED
      BY <3>1, <3>2
  <2>3. CASE ~Accepted(o) /\ ~Accepted(p)
    BY <1>2, <1>3, <2>3 DEF Accepted
  <2>4. QED
    BY <1>3, <2>1, <2>2, <2>3
<1>4. ASSUME NEW o \in Orders, Accepted(o)', ord'[o].day = today'
      PROVE  brk'[o].no < nextNo'
  <2>1. nextNo \in Nat /\ today \in Nat
    BY DEF IInv, TypeOK
  <2>2. CASE Accepted(o)
    <3>1. today' = today /\ nextNo' \in {nextNo, nextNo + 1}
      BY <1>1, <1>4, <2>1, <2>2, LawfulStep, ClockStep DEF IInv
    <3>2. brk[o].no < nextNo /\ brk[o].no \in Nat
      BY <1>1, <1>4, <2>2, <3>1, Fields DEF IInv, NumbersOK
    <3>3. QED
      BY <1>1, <2>1, <2>2, <3>1, <3>2
  <2>3. CASE ~Accepted(o)
    BY <1>2, <1>4, <2>1, <2>3
  <2>4. QED
    BY <2>2, <2>3
<1>5. QED
  BY <1>3, <1>4 DEF NumbersOK

\* A number still comes from a twin.
LEMMA NumberOfTwinStep ==
  ASSUME OrderAssumption, IInv, [Next]_vars
  PROVE  NumberOfTwin'
<1>1. SUFFICES ASSUME NEW o \in Orders, ord'[o].no # 0
               PROVE  \E p \in Orders : Twins(o, p)' /\ Accepted(p)' /\ brk'[p].no = ord'[o].no
  BY DEF NumberOfTwin
<1>2. PICK p \in Orders : Twins(o, p) /\ Accepted(p) /\ brk[p].no = ord'[o].no
  BY <1>1, LawfulStep DEF Lawful, IInv, NumberOfTwin
<1>3. ord[o].st # "none"
  BY <1>1, LawfulStep DEF Lawful, RowOK
<1>4. Twins(o, p)'
  BY <1>2, <1>3, TwinStep
<1>5. Accepted(p)' /\ brk'[p].no = ord'[o].no
  BY <1>2, LawfulStep DEF Lawful, Accepted
<1>6. QED
  BY <1>4, <1>5

\* What the main task holds stays true while others act.
LEMMA MainStep ==
  ASSUME OrderAssumption, IInv, [Next]_vars
  PROVE  MainOK'
<1> DEFINE Same == main' = main /\ phase' = phase
<1>1. MainOK /\ TypeOK /\ TypeOK' /\ RowsOK /\ RecsOK
  BY LawfulStep DEF IInv
<1>2. CASE main'.at = "idle"
  BY <1>2 DEF MainOK
<1>3. ASSUME Same, \A o \in Orders : ord[o].st = "PENDING_NEW" => ord'[o].st = "PENDING_NEW",
             today' = today
      PROVE  MainOK'
  BY <1>1, <1>3, LawfulStep DEF MainOK, Lawful
<1>4. CASE Same /\ UNCHANGED <<ord, today>>
  BY <1>3, <1>4
<1>5. ASSUME NEW e \in ExecRec, NEW d, e.no # 0, ApplyExecution(e, d), NEW o \in Orders,
             ord[o].st = "PENDING_NEW"
      PROVE  ord'[o].st = "PENDING_NEW"
  <2>1. ord[o].no = 0
    BY <1>5, LawfulStep DEF RowOK
  <2>2. ~Takes(o, e, d)
    BY <1>5, <2>1 DEF Takes, Named
  <2>3. ord'[o] = ord[o]
    BY <1>1, <1>5, <2>2, FillRow
  <2>4. QED
    BY <1>5, <2>3
<1>6. ASSUME NEW l \in Lots, NEW s \in Sides, NEW q \in 1 .. MaxQty, Submit(l, s, q)
      PROVE  MainOK'
  <2>1. PICK o \in Orders :
          /\ ord' = [ord EXCEPT ![o] = [NoOrder EXCEPT !.st = "PENDING_NEW", !.day = today,
                                     !.lot = l, !.side = s, !.qty = q]]
          /\ main' = [at |-> "send", o |-> o]
    BY <1>6 DEF Submit
  <2>2. ord'[o].st = "PENDING_NEW" /\ ord'[o].day = today
    BY <1>1, <2>1 DEF TypeOK, NoOrder
  <2>3. QED
    BY <1>6, <2>1, <2>2 DEF Submit, MainOK
<1>7. ASSUME NEW o \in Orders, Cancel(o) PROVE MainOK'
  BY <1>7 DEF Cancel, MainOK
<1>8. CASE AckArrives \/ RefusalArrives \/ SubmitTimesOut \/ RecordCancel \/ CancelFails
  BY <1>2, <1>8 DEF AckArrives, RefusalArrives, SubmitTimesOut, RecordCancel, CancelFails,
                    NoMain
<1>9. ASSUME NEW o \in Orders, Accept(o) \/ RefuseOrLose(o) \/ List(o) \/ Execute(o)
      PROVE  MainOK'
  BY <1>4, <1>9 DEF Accept, RefuseOrLose, List, Execute
<1>10. CASE BrokerCancels
  <2>1. /\ main.at = "cancel" /\ main'.at = "cancelled" /\ main'.o = main.o
        /\ ord' = ord /\ phase' = phase
    BY <1>1, <1>10 DEF BrokerCancels, TypeOK
  <2>2. QED
    BY <1>1, <2>1 DEF MainOK
<1>11. CASE NextDay
  BY <1>2, <1>11 DEF NextDay, NoMain
<1>12. ASSUME NEW e \in batch, PollApply(e) PROVE MainOK'
  <2>1. e \in ExecRec /\ e.no # 0
    BY <1>1 DEF TypeOK, RecsOK, RealOn
  <2>2. QED
    BY <1>3, <1>5, <1>12, <2>1 DEF PollApply
<1>13. ASSUME NEW e \in exp.recs, RecoverApply(e) PROVE MainOK'
  <2>1. e \in ExecRec /\ e.no # 0
    BY <1>1 DEF TypeOK, RecsOK, RealOn
  <2>2. QED
    BY <1>3, <1>5, <1>13, <2>1 DEF RecoverApply
<1>14. CASE PollFetch \/ PollFails
  BY <1>4, <1>14 DEF PollFetch, PollFails
<1>15. CASE ResolverApply
  <2>1. \A o \in Orders : ord[o].st = "PENDING_NEW" => ord'[o] = ord[o]
    BY <1>1, <1>15, ResolverRow
  <2>2. QED
    BY <1>3, <1>15, <2>1 DEF ResolverApply
<1>16. CASE ResolverRead \/ ResolverFetch \/ ResolverFails
  BY <1>4, <1>16 DEF ResolverRead, ResolverFetch, ResolverFails
<1>17. CASE OpenSession \/ RecoverFetch \/ RecoverFails
  BY <1>4, <1>17 DEF OpenSession, RecoverFetch, RecoverFails
<1>18. CASE ExpireStale
  <2>1. /\ main' = main /\ phase' = "up" /\ today' = today
        /\ \A o \in Orders : ord'[o] = ord[o] \/ Stale(o)
    BY <1>18 DEF ExpireStale
  <2>2. \A o \in Orders : ord[o].day = today => ord'[o] = ord[o]
    BY <2>1, LawfulStep DEF Stale
  <2>3. QED
    BY <1>1, <2>1, <2>2, LawfulStep DEF MainOK, Lawful
<1>19. CASE Start
  BY <1>1, <1>2, <1>19 DEF Start, MainOK
<1>20. CASE Crash
  BY <1>2, <1>20 DEF Crash, NoMain
<1>21. CASE UNCHANGED vars
  BY <1>4, <1>21 DEF vars
<1>22. QED
  BY <1>6, <1>7, <1>8, <1>9, <1>10, <1>11, <1>12, <1>13, <1>14, <1>15, <1>16, <1>17,
     <1>18, <1>19, <1>20, <1>21 DEF Next, MainTask, Broker, Poller, Resolver, Expiry

\* What the resolver holds stays of today.
LEMMA ResStep ==
  ASSUME OrderAssumption, IInv, [Next]_vars
  PROVE  ResOK'
<1>1. ResOK /\ SettledOK /\ TypeOK /\ TypeOK'
  BY LawfulStep DEF IInv
<1>2. CASE res'.at = "idle"
  BY <1>2 DEF ResOK
<1>3. CASE UNCHANGED <<res, phase, fresh, exp, today>>
  <2>1. SUFFICES ASSUME res.at # "idle"
                 PROVE  /\ \A o \in res.unknowns : ord'[o].st # "none" /\ ord'[o].day = today
                        /\ \A p \in res.recs : /\ brk'[p].no # 0 /\ ord'[p].st # "none"
                                               /\ ord'[p].day = today
    BY <1>1, <1>3 DEF ResOK, Accepted
  <2>2. res.unknowns \subseteq Orders /\ res.recs \subseteq Orders
    BY <1>1 DEF TypeOK
  <2>3. QED
    BY <1>1, <2>1, <2>2, LawfulStep DEF ResOK, Lawful, Accepted
<1>4. CASE MainTask
  BY <1>3, <1>4 DEF MainTask, Submit, AckArrives, RefusalArrives, SubmitTimesOut, Cancel,
                    RecordCancel, CancelFails
<1>5. CASE (\E o \in Orders : Accept(o) \/ RefuseOrLose(o) \/ List(o) \/ Execute(o))
             \/ BrokerCancels
  BY <1>3, <1>5 DEF Accept, RefuseOrLose, List, Execute, BrokerCancels
<1>6. CASE Poller
  BY <1>3, <1>6 DEF Poller, PollFetch, PollApply, PollFails
<1>7. CASE ResolverRead
  <2>1. PICK u \in SUBSET Orders :
          /\ res' = [NoResolve EXCEPT !.at = "read", !.unknowns = u,
                       !.linked = {n \in 1 .. nextNo : Named(n, today) # {}}]
          /\ \A o \in u : /\ ord[o].no = 0
                          /\ ord[o].st = "UNKNOWN" \/ (ord[o].st = "REJECTED" /\ ord[o].day = today)
    BY <1>7 DEF ResolverRead
  <2>2. res'.unknowns = u /\ res'.recs = {}
    BY <2>1 DEF NoResolve
  <2>3. /\ phase = "up" /\ ~fresh /\ exp.at = "idle"
        /\ UNCHANGED <<phase, fresh, exp, ord, today>>
    BY <1>7 DEF ResolverRead
  <2>4. ASSUME NEW o \in u
        PROVE  ord[o].st # "none" /\ ord[o].day = today
    <3>1. ord[o].day < today => ~(ord[o].st = "UNKNOWN")
      BY <1>1, <2>1, <2>3 DEF SettledOK, Stale, Open
    <3>2. ord[o].day \in Nat /\ today \in Nat /\ (ord[o].st # "none" => ord[o].day <= today)
      BY LawfulStep DEF RowOK
    <3>3. QED
      BY <2>1, <3>1, <3>2
  <2>5. QED
    BY <2>2, <2>3, <2>4 DEF ResOK
<1>8. CASE ResolverFetch
  <2>1. /\ res'.unknowns = res.unknowns /\ res.at = "read"
        /\ \A p \in res'.recs : p \in Orders /\ Accepted(p) /\ ord[p].day = today
    BY <1>1, <1>8 DEF ResolverFetch, TypeOK
  <2>2. UNCHANGED <<phase, fresh, exp, ord, brk, today>>
    BY <1>8 DEF ResolverFetch
  <2>3. \A p \in Orders : Accepted(p) => ord[p].st # "none"
    BY LawfulStep DEF RowOK, Accepted
  <2>4. QED
    BY <1>1, <2>1, <2>2, <2>3 DEF ResOK, Accepted
<1>9. CASE ResolverApply \/ ResolverFails \/ Crash \/ NextDay
  <2>1. res' = NoResolve
    BY <1>9 DEF ResolverApply, ResolverFails, Crash, NextDay
  <2>2. QED
    BY <1>2, <2>1 DEF NoResolve
<1>10. CASE Expiry \/ Start
  BY <1>1, <1>2, <1>10 DEF Expiry, OpenSession, RecoverFetch, RecoverApply, RecoverFails,
                           ExpireStale, Start, ResOK
<1>11. CASE UNCHANGED vars
  BY <1>3, <1>11 DEF vars
<1>12. QED
  BY <1>4, <1>5, <1>6, <1>7, <1>8, <1>9, <1>10, <1>11 DEF Next, Broker, Resolver

\* After an expiry only numbered orders are left stale.
LEMMA SettledStep ==
  ASSUME OrderAssumption, IInv, [Next]_vars
  PROVE  SettledOK'
<1>1. SettledOK /\ TypeOK /\ TypeOK'
  BY LawfulStep DEF IInv
<1>2. ASSUME NEW o \in Orders, today' = today, Stale(o)'
      PROVE  Stale(o)
  BY <1>2, LawfulStep DEF Stale, Lawful, Open
<1>3. \A o \in Orders : ord[o].no # 0 => ord'[o].no # 0
  BY LawfulStep DEF Lawful
<1>4. exp.keep \subseteq Orders
  BY <1>1 DEF TypeOK
<1>5. CASE /\ today' = today /\ phase' = phase /\ fresh' = fresh
           /\ exp'.at = exp.at /\ exp'.keep = exp.keep
  BY <1>1, <1>2, <1>3, <1>4, <1>5 DEF SettledOK
<1>6. CASE UNCHANGED <<today, phase, fresh, exp>>
  BY <1>5, <1>6
<1>7. CASE MainTask
  BY <1>6, <1>7 DEF MainTask, Submit, AckArrives, RefusalArrives, SubmitTimesOut, Cancel,
                    RecordCancel, CancelFails
<1>8. CASE (\E o \in Orders : Accept(o) \/ RefuseOrLose(o) \/ List(o) \/ Execute(o))
             \/ BrokerCancels
  BY <1>6, <1>8 DEF Accept, RefuseOrLose, List, Execute, BrokerCancels
<1>9. CASE NextDay
  BY <1>1, <1>3, <1>4, <1>9 DEF NextDay, NoExpiry, SettledOK
<1>10. CASE Poller \/ Resolver
  BY <1>6, <1>10 DEF Poller, PollFetch, PollApply, PollFails, Resolver, ResolverRead,
                     ResolverFetch, ResolverApply, ResolverFails
<1>11. CASE OpenSession \/ Start
  <2>1. /\ exp'.at = "recover" /\ exp'.keep = {} /\ ~fresh' /\ phase' # "down"
    <3>1. exp' = [NoExpiry EXCEPT !.at = "recover", !.days = StaleDays]
      BY <1>11 DEF OpenSession, Start
    <3>2. ~fresh' /\ phase' # "down"
      BY <1>1, <1>11 DEF OpenSession, Start, SettledOK
    <3>3. QED
      BY <3>1, <3>2 DEF NoExpiry
  <2>2. QED
    BY <2>1 DEF SettledOK
<1>12. CASE RecoverFetch \/ \E e \in exp.recs : RecoverApply(e)
  <2>1. exp'.at = exp.at /\ exp'.keep = exp.keep
    BY ZenonT(60), <1>1, <1>12 DEF RecoverFetch, RecoverApply, TypeOK
  <2>2. QED
    BY <1>5, <1>12, <2>1 DEF RecoverFetch, RecoverApply
<1>13. CASE RecoverFails
  <2>1. exp.at = "recover" /\ UNCHANGED <<today, phase, fresh, ord>>
    BY <1>13 DEF RecoverFails
  <2>2. exp'.at = "recover" /\ \E d : exp'.keep = Keep(d)
    <3>1. CASE exp' = [exp EXCEPT !.recs = {}, !.keep = Keep(exp.day)]
      BY <1>1, <2>1, <3>1 DEF TypeOK
    <3>2. ASSUME NEW d \in exp.days, exp' = [exp EXCEPT !.days = @ \ {d}, !.keep = Keep(d)]
          PROVE  exp'.at = "recover" /\ exp'.keep = Keep(d)
      BY <1>1, <2>1, <3>2 DEF TypeOK
    <3>3. QED
      BY <1>13, <3>1, <3>2 DEF RecoverFails
  <2>3. \A o \in exp'.keep : ord'[o].no # 0
    BY <1>1, <2>1, <2>2 DEF Keep, SettledOK
  <2>4. QED
    BY <1>1, <2>1, <2>2, <2>3 DEF SettledOK
<1>14. CASE ExpireStale
  <2>1. /\ exp' = NoExpiry /\ fresh' = fresh /\ today' = today /\ phase' = "up"
    BY <1>14 DEF ExpireStale
  <2>2. ASSUME NEW o \in Orders, Stale(o)'
        PROVE  ord'[o].no # 0
    <3>1. Stale(o)
      BY <1>2, <2>1, <2>2
    <3>2. o \notin exp.keep => ord'[o].st = "EXPIRED"
      <4>1. ASSUME o \notin exp.keep PROVE ord'[o].st = "EXPIRED"
        <5>1. ord'[o] = [ord[o] EXCEPT !.st = "EXPIRED"]
          BY <1>14, <3>1, <4>1 DEF ExpireStale
        <5>2. ord[o] \in Rows
          BY <1>1 DEF TypeOK
        <5>3. QED
          BY <5>1, <5>2 DEF Rows
      <4>2. QED
        BY <4>1
    <3>3. o \in exp.keep
      BY <2>2, <3>2 DEF Stale, Open
    <3>4. QED
      BY <1>1, <1>3, <3>3 DEF SettledOK
  <2>3. QED
    BY <2>1, <2>2 DEF SettledOK, NoExpiry
<1>15. CASE Crash
  BY <1>15 DEF Crash, NoExpiry, SettledOK
<1>16. CASE UNCHANGED vars
  BY <1>6, <1>16 DEF vars
<1>17. QED
  BY <1>7, <1>8, <1>9, <1>10, <1>11, <1>12, <1>13, <1>14, <1>15, <1>16
     DEF Next, Broker, Expiry

-----------------------------------------------------------------------------
(* Fills: none is invented, and a recovery is complete before it expires.  *)

\* What is recorded of an order changes with a fill or with its expiry only.
LEMMA RecordStep ==
  ASSUME OrderAssumption, IInv, [Next]_vars, NEW o \in Orders
  PROVE  /\ \/ ord'[o].filled = ord[o].filled
            \/ ord[o].st = "none" /\ ord'[o].filled = 0
            \/ \E e \in batch : /\ PollApply(e) /\ Takes(o, e, today)
                                /\ ord'[o].filled = e.qty
            \/ \E e \in exp.recs : /\ RecoverApply(e) /\ Takes(o, e, exp.day)
                                   /\ ord'[o].filled = e.qty
         /\ ord'[o].st = "EXPIRED" /\ ord[o].st # "EXPIRED"
              => ExpireStale /\ Stale(o) /\ o \notin exp.keep
<1> DEFINE Goal ==
      /\ \/ ord'[o].filled = ord[o].filled
         \/ ord[o].st = "none" /\ ord'[o].filled = 0
         \/ \E e \in batch : /\ PollApply(e) /\ Takes(o, e, today)
                             /\ ord'[o].filled = e.qty
         \/ \E e \in exp.recs : /\ RecoverApply(e) /\ Takes(o, e, exp.day)
                                /\ ord'[o].filled = e.qty
      /\ ord'[o].st = "EXPIRED" /\ ord[o].st # "EXPIRED"
           => ExpireStale /\ Stale(o) /\ o \notin exp.keep
<1>1. TypeOK /\ RecsOK /\ ord[o] \in Rows
  BY Fields DEF IInv
<1>2. CASE ord'[o] = ord[o]
  BY <1>2
<1>3. ASSUME NEW l \in Lots, NEW s \in Sides, NEW q \in 1 .. MaxQty, Submit(l, s, q)
      PROVE  Goal
  <2>1. PICK p \in Orders :
          /\ ord[p].st = "none"
          /\ ord' = [ord EXCEPT ![p] = [NoOrder EXCEPT !.st = "PENDING_NEW", !.day = today,
                                     !.lot = l, !.side = s, !.qty = q]]
    BY <1>3 DEF Submit
  <2>2. CASE o = p
    <3>1. ord'[o].st = "PENDING_NEW" /\ ord'[o].filled = 0
      BY <1>1, <2>1, <2>2 DEF NoOrder, TypeOK
    <3>2. QED
      BY <2>1, <2>2, <3>1
  <2>3. CASE o # p
    BY <1>1, <1>2, <2>1, <2>3 DEF TypeOK
  <2>4. QED
    BY <2>2, <2>3
<1>4. ASSUME NEW s \in States, s # "EXPIRED" \/ s = ord[main.o].st,
             NEW n \in Nat, \/ ord' = [ord EXCEPT ![main.o].st = s]
                            \/ ord' = [ord EXCEPT ![main.o].no = n, ![main.o].st = s]
      PROVE  Goal
  <2>1. CASE o = main.o
    <3>1. ord'[o].filled = ord[o].filled /\ ord'[o].st = s
      <4>1. CASE ord' = [ord EXCEPT ![main.o].st = s]
        BY <1>1, <2>1, <4>1 DEF TypeOK, Rows
      <4>2. CASE ord' = [ord EXCEPT ![main.o].no = n, ![main.o].st = s]
        BY <1>1, <2>1, <4>2 DEF TypeOK, Rows
      <4>3. QED
        BY <1>4, <4>1, <4>2
    <3>2. QED
      BY <1>4, <2>1, <3>1
  <2>2. CASE o # main.o
    BY <1>1, <1>2, <1>4, <2>2 DEF TypeOK
  <2>3. QED
    BY <2>1, <2>2
<1>5. CASE AckArrives
  <2>1. main.o \in Orders /\ ord[main.o].st = "PENDING_NEW" /\ brk[main.o].no \in Nat
    BY <1>1, <1>5, Fields DEF IInv, MainOK, AckArrives
  <2>2. ord' = [ord EXCEPT ![main.o].no = brk[main.o].no, ![main.o].st = "NEW"]
    BY <1>1, <1>5, <2>1 DEF AckArrives, TypeOK
  <2>3. QED
    BY <1>4, <2>1, <2>2 DEF States, Open
<1>6. CASE RefusalArrives \/ SubmitTimesOut \/ RecordCancel
  <2>1. \/ ord' = [ord EXCEPT ![main.o].st = "REJECTED"]
        \/ ord' = [ord EXCEPT ![main.o].st = "UNKNOWN"]
        \/ ord' = [ord EXCEPT ![main.o].st = "CANCELLED"]
        \/ ord' = [ord EXCEPT ![main.o].st = "FILLED"]
    <3>1. CASE RecordCancel /\ ord[main.o].st = "FILLED"
      BY <3>1 DEF RecordCancel
    <3>2. CASE RecordCancel /\ ord[main.o].st # "FILLED"
      BY <3>2 DEF RecordCancel
    <3>3. QED
      BY <1>6, <3>1, <3>2 DEF RefusalArrives, SubmitTimesOut
  <2>2. {"REJECTED", "UNKNOWN", "CANCELLED", "FILLED"} \subseteq States
    BY DEF States, Open
  <2>3. QED
    BY <1>4, <2>1, <2>2
<1>7. ASSUME NEW e \in batch, PollApply(e) PROVE Goal
  <2>1. e \in ExecRec /\ ApplyExecution(e, today)
    BY <1>1, <1>7 DEF TypeOK, PollApply
  <2>2. CASE /\ Takes(o, e, today)
             /\ ord'[o] = [ord[o] EXCEPT !.filled = e.qty, !.st = FilledTo(o, e.qty)]
    <3>1. ord'[o].filled = e.qty /\ ord'[o].st = FilledTo(o, e.qty)
      BY <1>1, <2>2 DEF Rows
    <3>2. FilledTo(o, e.qty) = "EXPIRED" => ord[o].st = "EXPIRED"
      BY DEF FilledTo
    <3>3. QED
      BY <1>7, <2>2, <3>1, <3>2
  <2>3. QED
    BY <1>1, <1>2, <2>1, <2>2, FillRow
<1>8. ASSUME NEW e \in exp.recs, RecoverApply(e) PROVE Goal
  <2>1. e \in ExecRec /\ ApplyExecution(e, exp.day)
    BY <1>1, <1>8 DEF TypeOK, RecoverApply
  <2>2. CASE /\ Takes(o, e, exp.day)
             /\ ord'[o] = [ord[o] EXCEPT !.filled = e.qty, !.st = FilledTo(o, e.qty)]
    <3>1. ord'[o].filled = e.qty /\ ord'[o].st = FilledTo(o, e.qty)
      BY <1>1, <2>2 DEF Rows
    <3>2. FilledTo(o, e.qty) = "EXPIRED" => ord[o].st = "EXPIRED"
      BY DEF FilledTo
    <3>3. QED
      BY <1>8, <2>2, <3>1, <3>2
  <2>3. QED
    BY <1>1, <1>2, <2>1, <2>2, FillRow
<1>9. CASE ResolverApply
  <2>1. \/ ord'[o] = ord[o]
        \/ \E n : ord'[o] = [ord[o] EXCEPT !.st = "NEW", !.no = n]
        \/ ord'[o] = [ord[o] EXCEPT !.st = "REJECTED", !.presumed = TRUE]
    BY <1>1, <1>9, ResolverRow
  <2>2. QED
    BY <1>1, <1>2, <2>1 DEF Rows
<1>10. CASE Start
  <2>1. ord'[o] = ord[o] \/ ord'[o] = [ord[o] EXCEPT !.st = "UNKNOWN"]
    BY <1>10 DEF Start
  <2>2. QED
    BY <1>1, <1>2, <2>1 DEF Rows
<1>11. CASE ExpireStale
  <2>1. \/ ord'[o] = ord[o]
        \/ Stale(o) /\ o \notin exp.keep /\ ord'[o] = [ord[o] EXCEPT !.st = "EXPIRED"]
    BY <1>11 DEF ExpireStale
  <2>2. QED
    BY <1>1, <1>2, <1>11, <2>1 DEF Rows
<1>12. CASE ord' = ord
  BY <1>2, <1>12
<1>13. (\E p \in Orders : Cancel(p)) \/ CancelFails \/ Broker \/ PollFetch \/ PollFails
       \/ ResolverRead \/ ResolverFetch \/ ResolverFails \/ OpenSession \/ RecoverFetch
       \/ RecoverFails \/ Crash \/ UNCHANGED vars
       => ord' = ord
  BY DEF Cancel, CancelFails, Broker, Accept, RefuseOrLose, List, Execute, BrokerCancels,
         NextDay, PollFetch, PollFails, ResolverRead, ResolverFetch, ResolverFails,
         OpenSession, RecoverFetch, RecoverFails, Crash, vars
<1>14. QED
  BY <1>3, <1>5, <1>6, <1>7, <1>8, <1>9, <1>10, <1>11, <1>12, <1>13
     DEF Next, MainTask, Poller, Resolver, Expiry

\* An execution fetched for an order without a twin is its own, and no other
\* order has its number.
LEMMA OwnExecution ==
  ASSUME IInv, NEW o \in Orders, Alone(o), NEW e, NEW d, RealOn(e, d),
         o \in Named(e.no, d)
  PROVE  /\ brk[o].no = e.no /\ e.qty <= brk[o].exec
         /\ \A p \in Named(e.no, d) : p = o
<1>1. /\ NumberOfTwin /\ NumbersOK /\ e.no # 0
      /\ ord[o].no = e.no /\ ord[o].day = d
  BY DEF IInv, RealOn, Named
<1>2. Accepted(o) /\ brk[o].no = e.no
  BY <1>1 DEF NumberOfTwin, Alone
<1>3. PICK p \in Orders : ord[p].day = d /\ brk[p].no = e.no /\ e.qty <= brk[p].exec
  BY DEF RealOn
<1>4. p = o
  BY <1>1, <1>2, <1>3 DEF NumbersOK, Accepted
<1>5. ASSUME NEW q \in Named(e.no, d) PROVE q = o
  <2>1. q \in Orders /\ ord[q].no = e.no /\ ord[q].day = d
    BY DEF Named
  <2>2. PICK r \in Orders : Twins(q, r) /\ Accepted(r) /\ brk[r].no = e.no
    BY <1>1, <2>1 DEF NumberOfTwin
  <2>3. r = o
    BY <1>1, <1>2, <2>1, <2>2 DEF NumbersOK, Twins
  <2>4. ord[q].st # "none"
    BY <1>1, <2>1 DEF IInv, RowsOK, RowOK
  <2>5. Twins(o, q)
    BY <1>1, <2>1, <2>2, <2>3, <2>4 DEF Twins
  <2>6. QED
    BY <2>1, <2>5 DEF Alone
<1>6. QED
  BY <1>2, <1>3, <1>4, <1>5

\* No fill is invented.
LEMMA FillsStep ==
  ASSUME OrderAssumption, IInv, [Next]_vars
  PROVE  FillsAreReal'
<1>1. SUFFICES ASSUME NEW o \in Orders, Alone(o)'
               PROVE  ord'[o].filled <= brk'[o].exec
  BY DEF FillsAreReal
<1>2. /\ ord[o].filled \in Nat /\ brk[o].exec \in Nat /\ brk'[o].exec \in Nat
      /\ brk'[o].exec >= brk[o].exec
  <2>1. brk[o].exec \in Shares /\ ord[o].filled \in Shares /\ brk'[o] \in BrkRows
    BY LawfulStep, Fields DEF IInv, TypeOK
  <2>2. QED
    BY <2>1, LawfulStep DEF Lawful, BrkRows, Shares
<1>3. CASE ord[o].st = "none"
  <2>1. ord[o].no = 0 /\ ord[o].filled = 0
    BY <1>3, LawfulStep DEF RowOK
  <2>2. \A e, d : Takes(o, e, d) => e.no = 0
    BY <2>1 DEF Takes, Named
  <2>3. ord'[o].filled = 0
    BY <2>1, <2>2, RecordStep DEF IInv, RecsOK, RealOn
  <2>4. QED
    BY <1>2, <2>3
<1>4. CASE ord[o].st # "none"
  <2>1. Alone(o) /\ ord[o].filled <= brk[o].exec
    BY <1>1, <1>4, TwinStep DEF IInv, FillsAreReal
  <2>2. CASE ord'[o].filled = ord[o].filled
    BY <1>2, <2>1, <2>2
  <2>3. ASSUME NEW e \in ExecRec, NEW d, RealOn(e, d), Takes(o, e, d), ord'[o].filled = e.qty
        PROVE  ord'[o].filled <= brk'[o].exec
    <3>1. e.qty <= brk[o].exec /\ e.qty \in Nat
      BY <2>1, <2>3, OwnExecution DEF Takes, ExecRec, Shares
    <3>2. QED
      BY <1>2, <2>3, <3>1
  <2>4. RecsOK /\ batch \subseteq ExecRec /\ exp.recs \subseteq ExecRec
    BY DEF IInv, TypeOK
  <2>5. QED
    BY <1>4, <2>2, <2>3, <2>4, RecordStep DEF RecsOK
<1>5. QED
  BY <1>3, <1>4

\* Fetched executions stay real.
LEMMA RecsStep ==
  ASSUME OrderAssumption, IInv, [Next]_vars
  PROVE  RecsOK'
<1> DEFINE RealNext(e, d) ==
      e.no # 0 /\ \E p \in Orders : /\ ord'[p].day = d /\ brk'[p].no = e.no
                                    /\ e.qty <= brk'[p].exec
<1>1. TypeOK /\ RecsOK
  BY DEF IInv
<1>2. ASSUME NEW e \in ExecRec, NEW d, RealOn(e, d) PROVE RealNext(e, d)
  <2>1. PICK p \in Orders : ord[p].day = d /\ brk[p].no = e.no /\ e.qty <= brk[p].exec
    BY <1>2 DEF RealOn
  <2>2. /\ e.no # 0 /\ e.qty \in Nat /\ brk[p].exec \in Nat /\ brk'[p].exec \in Nat
    <3>1. TypeOK'
      BY LawfulStep
    <3>2. brk'[p] \in BrkRows
      BY <3>1 DEF TypeOK
    <3>3. QED
      BY <1>1, <1>2, <3>2, Fields DEF RealOn, ExecRec, Shares, BrkRows
  <2>3. Accepted(p) /\ ord[p].st # "none"
    BY <2>1, <2>2, LawfulStep DEF RowOK, Accepted
  <2>4. ord'[p].day = d /\ brk'[p].no = e.no /\ brk'[p].exec >= brk[p].exec
    BY <2>1, <2>2, <2>3, LawfulStep DEF Lawful
  <2>5. QED
    BY <2>1, <2>2, <2>4
<1>3. ASSUME NEW d, NEW e \in Executions(d) PROVE RealOn(e, d)
  <2>1. PICK o \in Orders : /\ ord[o].day = d /\ brk[o].exec > 0
                            /\ e = [no |-> brk[o].no, qty |-> brk[o].exec]
    BY <1>3 DEF Executions
  <2>2. brk[o].no # 0 /\ brk[o].exec \in Nat
    BY <1>1, <2>1, LawfulStep, Fields DEF RowOK, Shares
  <2>3. QED
    BY <2>1, <2>2 DEF RealOn
<1>4. \A d : Executions(d) \subseteq ExecRec
  BY <1>1, Fields DEF Executions, ExecRec
<1>5. CASE batch' = {} /\ exp'.recs = {}
  BY <1>5 DEF RecsOK
<1>6. ASSUME \A e \in batch' : e \in batch \/ e \in Executions(today),
             \/ exp'.recs \subseteq exp.recs /\ exp'.day = exp.day
             \/ exp'.recs \subseteq Executions(exp'.day),
             today' = today
      PROVE  RecsOK'
  <2>1. \A e \in batch' : RealNext(e, today')
    BY <1>1, <1>2, <1>3, <1>4, <1>6 DEF RecsOK, TypeOK
  <2>2. \A e \in exp'.recs : RealNext(e, exp'.day)
    BY <1>1, <1>2, <1>3, <1>4, <1>6 DEF RecsOK, TypeOK
  <2>3. QED
    BY <2>1, <2>2 DEF RecsOK, RealOn
<1>7. CASE UNCHANGED <<batch, exp, today>>
  BY <1>6, <1>7
<1>8. CASE MainTask
  BY <1>7, <1>8 DEF MainTask, Submit, AckArrives, RefusalArrives, SubmitTimesOut, Cancel,
                    RecordCancel, CancelFails
<1>9. CASE (\E o \in Orders : Accept(o) \/ RefuseOrLose(o) \/ List(o) \/ Execute(o))
             \/ BrokerCancels
  BY <1>7, <1>9 DEF Accept, RefuseOrLose, List, Execute, BrokerCancels
<1>10. CASE NextDay
  BY <1>5, <1>10 DEF NextDay, NoExpiry
<1>11. CASE Poller
  BY <1>6, <1>11 DEF Poller, PollFetch, PollApply, PollFails
<1>12. CASE Resolver
  BY <1>7, <1>12 DEF Resolver, ResolverRead, ResolverFetch, ResolverApply, ResolverFails
<1>13. CASE OpenSession \/ Start
  <2>1. exp' = [NoExpiry EXCEPT !.at = "recover", !.days = StaleDays]
    BY <1>13 DEF OpenSession, Start
  <2>2. exp'.recs = {}
    BY <2>1 DEF NoExpiry
  <2>3. QED
    BY <1>6, <1>13, <2>2 DEF OpenSession, Start
<1>14. CASE RecoverFetch
  <2>1. exp'.recs = Executions(exp'.day) /\ batch' = batch /\ today' = today
    BY <1>1, <1>14 DEF RecoverFetch, TypeOK
  <2>2. QED
    BY <1>6, <2>1
<1>15. ASSUME NEW e \in exp.recs, RecoverApply(e) PROVE RecsOK'
  <2>1. exp'.recs = exp.recs \ {e} /\ exp'.day = exp.day /\ batch' = batch /\ today' = today
    BY <1>1, <1>15 DEF RecoverApply, TypeOK
  <2>2. QED
    BY <1>6, <2>1
<1>16. CASE RecoverFails
  <2>1. exp'.recs = {} /\ batch' = batch /\ today' = today
    <3>1. CASE exp' = [exp EXCEPT !.recs = {}, !.keep = Keep(exp.day)]
      BY <1>1, <1>16, <3>1 DEF RecoverFails, TypeOK
    <3>2. ASSUME exp.recs = {}, NEW d \in exp.days,
                 exp' = [exp EXCEPT !.days = @ \ {d}, !.keep = Keep(d)]
          PROVE  exp'.recs = {}
      BY <1>1, <3>2 DEF TypeOK
    <3>3. QED
      BY <1>16, <3>1, <3>2 DEF RecoverFails
  <2>2. QED
    BY <1>6, <2>1
<1>17. CASE ExpireStale
  BY <1>6, <1>17 DEF ExpireStale, NoExpiry
<1>18. CASE Crash
  BY <1>5, <1>18 DEF Crash, NoExpiry
<1>19. CASE UNCHANGED vars
  BY <1>7, <1>19 DEF vars
<1>20. QED
  BY <1>8, <1>9, <1>10, <1>11, <1>12, <1>13, <1>14, <1>15, <1>16, <1>17, <1>18, <1>19
     DEF Next, Broker, Expiry

\* An expired order is complete.
LEMMA ExpiredStep ==
  ASSUME OrderAssumption, IInv, [Next]_vars
  PROVE  ExpiredIsComplete'
<1>1. SUFFICES ASSUME NEW o \in Orders, ord'[o].st = "EXPIRED", ord'[o].no # 0, Alone(o)'
               PROVE  ord'[o].filled = brk'[o].exec
  BY DEF ExpiredIsComplete
<1>2. CASE ord[o].st = "EXPIRED"
  <2>1. ord[o].day < today /\ ord[o].no # 0 /\ brk'[o].exec = brk[o].exec
    BY <1>1, <1>2, LawfulStep DEF Lawful, RowOK
  <2>2. Alone(o) /\ ord[o].filled = brk[o].exec
    BY <1>1, <1>2, <2>1, TwinStep DEF IInv, ExpiredIsComplete
  <2>3. ASSUME NEW e \in ExecRec, NEW d, RealOn(e, d), Takes(o, e, d)
        PROVE  FALSE
    <3>1. e.qty <= brk[o].exec /\ e.qty > ord[o].filled
      BY <2>2, <2>3, OwnExecution DEF Takes
    <3>2. e.qty \in Nat /\ brk[o].exec \in Nat
      BY Fields DEF IInv, ExecRec, Shares
    <3>3. QED
      BY <2>2, <3>1, <3>2
  <2>4. RecsOK /\ batch \subseteq ExecRec /\ exp.recs \subseteq ExecRec
    BY DEF IInv, TypeOK
  <2>5. ord'[o].filled = ord[o].filled
    BY <1>2, <2>3, <2>4, RecordStep DEF RecsOK
  <2>6. QED
    BY <2>1, <2>2, <2>5
<1>3. CASE ord[o].st # "EXPIRED"
  <2>1. ExpireStale /\ Stale(o) /\ o \notin exp.keep
    BY <1>1, <1>3, RecordStep
  <2>2. /\ exp.at = "recover" /\ exp.recs = {} /\ exp.days = {} /\ brk' = brk
        /\ ord'[o] = [ord[o] EXCEPT !.st = "EXPIRED"]
    BY <2>1 DEF ExpireStale
  <2>3. ord'[o].filled = ord[o].filled /\ ord'[o].no = ord[o].no
    BY <2>2, Fields DEF IInv, Rows
  <2>4. ord[o].st # "none"
    BY <2>1 DEF Stale, Open
  <2>5. Alone(o)
    BY <1>1, <2>4, TwinStep
  <2>6. Recovered(o)
    BY <1>1, <2>1, <2>2, <2>3, <2>5 DEF IInv, RecoveryOK
  <2>7. QED
    BY <2>2, <2>3, <2>6 DEF Recovered
<1>4. QED
  BY <1>2, <1>3

\* A recovery leaves no order behind.
LEMMA RecoveryStep ==
  ASSUME OrderAssumption, IInv, [Next]_vars
  PROVE  RecoveryOK'
<1> DEFINE Goal(o) == \/ ord'[o].day \in exp'.days
                      \/ ord'[o].filled = brk'[o].exec
                      \/ /\ ord'[o].day = exp'.day
                         /\ \E e \in exp'.recs : e.no = ord'[o].no /\ e.qty = brk'[o].exec
<1>1. TypeOK /\ RecsOK /\ RecoveryOK /\ FillsAreReal /\ NumberOfTwin
  BY DEF IInv
<1>2. CASE exp'.at # "recover"
  BY <1>2 DEF RecoveryOK
<1>3. CASE NextDay
  BY <1>2, <1>3 DEF NextDay, NoExpiry
<1>4. SUFFICES ASSUME exp'.at = "recover", today' = today,
                      NEW o \in Orders, Stale(o)', ord'[o].no # 0, Alone(o)',
                      o \notin exp'.keep
               PROVE  Goal(o)
  BY <1>2, <1>3, ClockStep, <1>1 DEF RecoveryOK, Recovered
<1>5. /\ Stale(o) /\ ord[o].no # 0 /\ ord'[o].no = ord[o].no /\ ord'[o].day = ord[o].day
      /\ brk'[o].exec = brk[o].exec
  BY <1>4, LawfulStep DEF Lawful, Stale, RowOK, Open
<1>6. Alone(o) /\ ord[o].day # today
  BY <1>4, <1>5, TwinStep, LawfulStep DEF Stale, Open
<1>7. /\ ord[o].filled <= brk[o].exec /\ ord[o].filled \in Nat /\ brk[o].exec \in Nat
  BY <1>1, <1>6, Fields DEF FillsAreReal, Shares
<1>8. CASE OpenSession \/ Start
  <2>1. exp' = [NoExpiry EXCEPT !.at = "recover", !.days = StaleDays]
    BY <1>8 DEF OpenSession, Start
  <2>2. exp'.days = StaleDays
    BY <2>1 DEF NoExpiry
  <2>3. QED
    BY <1>5, <2>2 DEF StaleDays
<1>9. ASSUME exp' = exp, ord'[o].filled = ord[o].filled
      PROVE  Goal(o)
  BY <1>1, <1>4, <1>5, <1>6, <1>9 DEF RecoveryOK, Recovered
<1>10. ASSUME exp' = exp, ~\E e \in exp.recs : RecoverApply(e)
       PROVE  Goal(o)
  <2>1. ord[o].st # "none"
    BY <1>5 DEF Stale, Open
  <2>2. \A e : ~Takes(o, e, today)
    BY <1>6 DEF Takes, Named
  <2>3. ord'[o].filled = ord[o].filled
    BY <1>10, <2>1, <2>2, RecordStep
  <2>4. QED
    BY <1>9, <1>10, <2>3
<1>11. CASE RecoverFetch
  <2>1. /\ exp.at = "recover" /\ exp.recs = {} /\ ord' = ord /\ brk' = brk
    BY <1>11 DEF RecoverFetch
  <2>2. PICK d \in exp.days :
          exp' = [exp EXCEPT !.days = @ \ {d}, !.day = d, !.recs = Executions(d)]
    BY <1>11 DEF RecoverFetch
  <2>3. /\ exp'.days = exp.days \ {d} /\ exp'.day = d /\ exp'.recs = Executions(d)
        /\ exp'.keep = exp.keep
    BY <1>1, <2>2 DEF TypeOK
  <2>4. Recovered(o)
    BY <1>1, <1>4, <1>5, <1>6, <2>1, <2>3 DEF RecoveryOK
  <2>5. CASE ord[o].day = d
    <3>1. brk[o].no = ord[o].no
      BY <1>1, <1>5, <1>6 DEF NumberOfTwin, Alone
    <3>2. CASE brk[o].exec = 0
      BY <1>7, <2>1, <3>2
    <3>3. CASE brk[o].exec # 0
      <4>1. [no |-> brk[o].no, qty |-> brk[o].exec] \in Executions(d)
        BY <1>7, <2>5, <3>3 DEF Executions
      <4>2. QED
        BY <1>5, <2>1, <2>3, <2>5, <3>1, <4>1
    <3>4. QED
      BY <3>2, <3>3
  <2>6. CASE ord[o].day # d
    BY <2>1, <2>3, <2>4, <2>6 DEF Recovered
  <2>7. QED
    BY <2>5, <2>6
<1>12. ASSUME NEW e \in exp.recs, RecoverApply(e) PROVE Goal(o)
  <2>1. /\ exp'.days = exp.days /\ exp'.day = exp.day /\ exp'.recs = exp.recs \ {e}
        /\ exp'.keep = exp.keep /\ exp.at = "recover" /\ e \in ExecRec
    BY <1>1, <1>12 DEF RecoverApply, TypeOK
  <2>2. Recovered(o)
    BY <1>1, <1>4, <1>5, <1>6, <2>1 DEF RecoveryOK
  <2>3. ApplyExecution(e, exp.day) /\ RealOn(e, exp.day)
    BY <1>1, <1>12 DEF RecoverApply, RecsOK
  <2>4. \/ ord'[o] = ord[o]
        \/ /\ Takes(o, e, exp.day)
           /\ ord'[o] = [ord[o] EXCEPT !.filled = e.qty, !.st = FilledTo(o, e.qty)]
    BY <1>1, <2>1, <2>3, FillRow
  <2>5. \/ ord'[o].filled = ord[o].filled
        \/ Takes(o, e, exp.day) /\ ord'[o].filled = e.qty
    BY <1>1, <2>4, Fields DEF Rows
  <2>6. CASE ord[o].day \in exp.days
    BY <1>5, <2>1, <2>6
  <2>7. CASE ord[o].filled = brk[o].exec
    <3>1. Takes(o, e, exp.day) => e.qty <= brk[o].exec /\ e.qty > ord[o].filled
      BY <1>6, <2>3, OwnExecution DEF Takes
    <3>2. e.qty \in Nat
      BY <2>1 DEF ExecRec, Shares
    <3>3. QED
      BY <1>5, <1>7, <2>5, <2>7, <3>1, <3>2
  <2>8. ASSUME ord[o].day = exp.day, NEW w \in exp.recs, w.no = ord[o].no,
               w.qty = brk[o].exec
        PROVE  Goal(o)
    <3>1. CASE w # e
      BY <1>5, <2>1, <2>8, <3>1
    <3>2. CASE w = e
      <4>1. o \in Named(e.no, exp.day)
        BY <2>8, <3>2 DEF Named
      <4>2. \A p \in Named(e.no, exp.day) : p = o
        BY <1>6, <2>3, <4>1, OwnExecution
      <4>3. CASE e.qty > ord[o].filled
        <5>1. Takes(o, e, exp.day)
          BY <4>1, <4>2, <4>3 DEF Takes, Orders
        <5>2. PICK p \in Orders : Takes(p, e, exp.day)
                                  /\ HandleFill(p, e.qty - ord[p].filled)
          BY <2>3, <5>1 DEF ApplyExecution
        <5>3. p = o
          BY <4>2, <5>2 DEF Takes
        <5>4. ord'[o].filled = ord[o].filled + (e.qty - ord[o].filled)
          BY <1>1, <5>2, <5>3, Fields DEF HandleFill, TypeOK, Rows
        <5>5. e.qty \in Nat
          BY <2>1 DEF ExecRec, Shares
        <5>6. QED
          BY <1>5, <1>7, <2>8, <3>2, <5>4, <5>5
      <4>4. CASE ~(e.qty > ord[o].filled)
        <5>1. ord[o].filled = brk[o].exec
          BY <1>7, <2>8, <3>2, <4>4
        <5>2. QED
          BY <2>7, <5>1
      <4>5. QED
        BY <4>3, <4>4
    <3>3. QED
      BY <3>1, <3>2
  <2>9. QED
    BY <2>2, <2>6, <2>7, <2>8 DEF Recovered
<1>13. CASE RecoverFails
  <2>1. exp.at = "recover" /\ ord' = ord /\ brk' = brk
    BY <1>13 DEF RecoverFails
  <2>2. \A d : o \in Keep(d) <=> o \in exp.keep \/ ord[o].day = d
    BY <1>5 DEF Keep
  <2>3. CASE exp' = [exp EXCEPT !.recs = {}, !.keep = Keep(exp.day)]
    <3>1. exp'.days = exp.days /\ exp'.keep = Keep(exp.day)
      BY <1>1, <2>3 DEF TypeOK
    <3>2. o \notin exp.keep /\ ord[o].day # exp.day
      BY <1>4, <2>2, <3>1
    <3>3. Recovered(o)
      BY <1>1, <1>5, <1>6, <2>1, <3>2 DEF RecoveryOK
    <3>4. QED
      BY <1>5, <2>1, <3>1, <3>2, <3>3 DEF Recovered
  <2>4. ASSUME exp.recs = {}, NEW d \in exp.days,
               exp' = [exp EXCEPT !.days = @ \ {d}, !.keep = Keep(d)]
        PROVE  Goal(o)
    <3>1. exp'.days = exp.days \ {d} /\ exp'.keep = Keep(d)
      BY <1>1, <2>4 DEF TypeOK
    <3>2. o \notin exp.keep /\ ord[o].day # d
      BY <1>4, <2>2, <3>1
    <3>3. Recovered(o)
      BY <1>1, <1>5, <1>6, <2>1, <3>2 DEF RecoveryOK
    <3>4. QED
      BY <1>5, <2>1, <2>4, <3>1, <3>2, <3>3 DEF Recovered
  <2>5. QED
    BY <1>13, <2>3, <2>4 DEF RecoverFails
<1>14. ~(ExpireStale \/ Crash)
  BY <1>4 DEF ExpireStale, Crash, NoExpiry
<1>15. CASE exp' = exp
  BY <1>10, <1>12, <1>15
<1>16. MainTask \/ Broker \/ Poller \/ Resolver \/ UNCHANGED vars => exp' = exp
  BY DEF MainTask, Submit, AckArrives, RefusalArrives, SubmitTimesOut, Cancel, RecordCancel,
         CancelFails, Broker, Accept, RefuseOrLose, List, Execute, BrokerCancels, NextDay,
         Poller, PollFetch, PollApply, PollFails, Resolver, ResolverRead, ResolverFetch,
         ResolverApply, ResolverFails, vars
<1>17. QED
  BY <1>8, <1>11, <1>12, <1>13, <1>14, <1>15, <1>16 DEF Next, Expiry

-----------------------------------------------------------------------------
(* The theorems.                                                           *)

LEMMA InitInv == ASSUME OrderAssumption, Init PROVE IInv
<1>1. TypeOK
  BY InitType
<1>2. /\ \A o \in Orders : /\ ord[o] = NoOrder /\ ord[o].no = 0 /\ ord[o].st = "none"
                           /\ ord[o].filled = 0 /\ ord[o].qty = 0
                           /\ brk[o].at = "none" /\ brk[o].no = 0 /\ brk[o].exec = 0
      /\ batch = {} /\ exp = NoExpiry /\ main = NoMain /\ res = NoResolve /\ phase = "up"
  BY DEF Init, NoOrder
<1>3. RowsOK
  <2>1. ASSUME NEW o \in Orders PROVE RowOK(o)
    BY <1>2 DEF RowOK
  <2>2. QED
    BY <2>1 DEF RowsOK
<1>4. NumbersOK /\ NumberOfTwin /\ FillsAreReal /\ ExpiredIsComplete
  BY <1>2 DEF NumbersOK, NumberOfTwin, FillsAreReal, ExpiredIsComplete, Accepted
<1>5. MainOK /\ ResOK
  BY <1>2 DEF MainOK, NoMain, ResOK, NoResolve
<1>6. SettledOK /\ RecsOK /\ RecoveryOK
  <2>1. exp.at = "idle" /\ exp.recs = {} /\ exp.keep = {} /\ batch = {}
    BY <1>2 DEF NoExpiry
  <2>2. \A o \in Orders : ~Stale(o)
    BY <1>2 DEF Stale, Open
  <2>3. QED
    BY <1>2, <2>1, <2>2 DEF SettledOK, RecsOK, RecoveryOK
<1>7. QED
  BY <1>1, <1>3, <1>4, <1>5, <1>6 DEF IInv

LEMMA StepInv == ASSUME OrderAssumption, IInv, [Next]_vars PROVE IInv'
BY LawfulStep, NumbersStep, MainStep, ResStep, SettledStep, RecsStep, NumberOfTwinStep,
   FillsStep, ExpiredStep, RecoveryStep DEF IInv

LEMMA Invariance == ASSUME OrderAssumption PROVE Spec => []IInv
<1>1. Init => IInv
  BY InitInv
<1>2. IInv /\ [Next]_vars => IInv'
  BY StepInv
<1>3. QED
  BY <1>1, <1>2, PTL DEF Spec

\* Every state of the order flow is well typed; in particular no order of the
\* broker executes beyond its quantity.
THEOREM TypeCorrect == ASSUME OrderAssumption PROVE Spec => []TypeOK
<1>1. IInv => TypeOK
  BY DEF IInv
<1>2. QED
  BY <1>1, Invariance, PTL

\* An order carries its own broker number or that of a twin, whatever answers are
\* lost and however the resolver races the main task.
THEOREM AdoptsOnlyTwins == ASSUME OrderAssumption PROVE Spec => []NumberOfTwin
<1>1. IInv => NumberOfTwin
  BY DEF IInv
<1>2. QED
  BY <1>1, Invariance, PTL

\* No fill is invented or counted twice.
THEOREM NoInventedFills == ASSUME OrderAssumption PROVE Spec => []FillsAreReal
<1>1. IInv => FillsAreReal
  BY DEF IInv
<1>2. QED
  BY <1>1, Invariance, PTL

\* Expiry never loses an execution of a numbered order without a twin, for any
\* number of days to recover and any failures among them.
THEOREM ExpiryIsSafe == ASSUME OrderAssumption PROVE Spec => []ExpiredIsComplete
<1>1. IInv => ExpiredIsComplete
  BY DEF IInv
<1>2. QED
  BY <1>1, Invariance, PTL

\* A closed order never opens again.
THEOREM ClosedForGood == ASSUME OrderAssumption PROVE Spec => ClosedStaysClosed
<1>1. IInv /\ [Next]_vars
        => [\A o \in Orders : ord[o].st \in Closed => ord'[o].st \in Closed]_vars
  BY LawfulStep DEF Lawful
<1>2. QED
  BY <1>1, Invariance, PTL DEF Spec, ClosedStaysClosed

-----------------------------------------------------------------------------
(* One live order of a lot and side, where no listing lags. What OneLiveOrder says of *)
(* the broker holds because the table keeps an order open for as long as its request  *)
(* may still trade, under whichever number: LInv states that for every place the      *)
(* request can be in, and for what each task has read and not yet applied.            *)

\* A request of today that the broker has, or may yet take, under a number that no
\* order carries.
Claimed(o)  == \E w \in Orders : ord[w].day = ord[o].day /\ ord[w].no = brk[o].no
Awaiting(o) == /\ brk[o].at \in {"flight", "live", "gone"} /\ ord[o].day = today
               /\ brk[o].no # 0 => ~Claimed(o)

\* The order that keeps its (lot, side) from another: it may trade, or be adopted.
Holds(o)      == Awaiting(o) \/ brk[o].at = "live"
SameSlot(o, p) == ord[o].lot = ord[p].lot /\ ord[o].side = ord[p].side

ListedOK   == \A o \in Orders : Accepted(o) => brk[o].listed
AwaitingOK == \A o \in Orders : Awaiting(o) /\ TwinsOfLot(o)
                                  => ord[o].st \in {"PENDING_NEW", "UNKNOWN"}

\* Who carries the number of a live order is open.
CarrierOK == \A o, w \in Orders : /\ brk[o].at = "live" /\ ord[w].day = ord[o].day
                                  /\ ord[w].no = brk[o].no
                                  => ord[w].st \in Open
\* A cancelled order is not live under its number.
CancelOK  == main.at = "cancelled" =>
               /\ ord[main.o].no # 0
               /\ ord[main.o].day = today =>
                    \A p \in Orders : brk[p].at = "live" => brk[p].no # ord[main.o].no

OneHolder == \A o, p \in Orders : /\ Holds(o) /\ Holds(p) /\ SameSlot(o, p)
                                  /\ TwinsOfLot(o) /\ TwinsOfLot(p)
                                  => o = p

\* What the resolver has read: linked numbers stay linked; an order in flight had its
\* slot to itself; one that is settled is listed, if it was accepted and not claimed.
ReadOK ==
  /\ res.at # "idle" => \A n \in res.linked : n # 0 /\ Named(n, today) # {}
  /\ res.at = "read" =>
       \A o \in res.unknowns, p \in Orders :
         brk[o].at = "flight" /\ TwinsOfLot(o) /\ p # o /\ Twins(o, p) /\ Accepted(p)
           => brk[p].no \in res.linked
  /\ res.at = "fetched" =>
       /\ res.settled \subseteq res.unknowns
       /\ \A o \in res.settled : /\ brk[o].at # "flight"
                                 /\ Awaiting(o) => o \in res.recs
       /\ \A o \in res.unknowns \ res.settled, p \in res.recs : Twins(o, p) => ~TwinsOfLot(o)

LInv == ListedOK /\ AwaitingOK /\ CarrierOK /\ CancelOK /\ OneHolder /\ ReadOK

-----------------------------------------------------------------------------
(* What a step may do to an order at the broker and to its state.          *)

\* A request moves on from its flight to the broker's book and out of it.
BrkMoves(o) ==
  /\ brk'[o].at = "flight" => brk[o].at = "flight" \/ ord[o].st = "none"
  /\ brk'[o].at = "live" => brk[o].at \in {"flight", "live"}
  /\ brk'[o].at = "gone" => brk[o].at \in {"live", "gone"}
  /\ brk'[o].no # 0 /\ (Accepted(o) => brk[o].listed) => brk'[o].listed

\* What a step may do to an order's row at the broker.
LEMMA BrkRow ==
  ASSUME OrderAssumption, ~ListingLag, IInv, [Next]_vars
  PROVE  \A o \in Orders : BrkMoves(o)
<1>0. TypeOK /\ RowsOK /\ brk \in [Orders -> BrkRows]
  BY DEF IInv, TypeOK
<1>1. ASSUME NEW o \in Orders, brk'[o] = brk[o] PROVE BrkMoves(o)
  BY <1>1 DEF BrkMoves, Accepted
<1>2. CASE brk' = brk
  BY <1>1, <1>2
<1>3. ASSUME NEW l \in Lots, NEW s \in Sides, NEW q \in 1 .. MaxQty, Submit(l, s, q)
      PROVE  \A o \in Orders : BrkMoves(o)
  <2>1. PICK n \in Orders : ord[n].st = "none" /\ brk' = [brk EXCEPT ![n].at = "flight"]
    BY <1>3 DEF Submit
  <2>2. /\ brk'[n].at = "flight" /\ brk'[n].no = brk[n].no
        /\ \A o \in Orders \ {n} : brk'[o] = brk[o]
    BY <1>0, <2>1 DEF BrkRows
  <2>3. brk[n].no = 0
    BY <1>0, <2>1 DEF RowsOK, RowOK
  <2>4. QED
    BY <1>1, <2>1, <2>2, <2>3 DEF BrkMoves
<1>4. ASSUME NEW n \in Orders, Accept(n) PROVE \A o \in Orders : BrkMoves(o)
  <2>1. /\ brk[n].at = "flight" /\ brk'[n].at = "live" /\ brk'[n].listed
        /\ \A o \in Orders \ {n} : brk'[o] = brk[o]
    BY <1>0, <1>4 DEF Accept
  <2>2. QED
    BY <1>1, <2>1 DEF BrkMoves
<1>5. ASSUME NEW n \in Orders, RefuseOrLose(n) PROVE \A o \in Orders : BrkMoves(o)
  <2>1. PICK a \in {"refused", "lost"} : brk' = [brk EXCEPT ![n].at = a]
    BY <1>5 DEF RefuseOrLose
  <2>2. /\ brk'[n].at = a /\ brk'[n].no = brk[n].no /\ brk'[n].listed = brk[n].listed
        /\ \A o \in Orders \ {n} : brk'[o] = brk[o]
    BY <1>0, <2>1 DEF BrkRows
  <2>3. QED
    BY <1>1, <2>2 DEF BrkMoves, Accepted
<1>6. ASSUME NEW n \in Orders, List(n) PROVE \A o \in Orders : BrkMoves(o)
  <2>1. /\ brk'[n].at = brk[n].at /\ brk'[n].listed
        /\ \A o \in Orders \ {n} : brk'[o] = brk[o]
    BY <1>0, <1>6 DEF List, BrkRows
  <2>2. QED
    BY <1>1, <2>1 DEF BrkMoves
<1>7. ASSUME NEW n \in Orders, Execute(n) PROVE \A o \in Orders : BrkMoves(o)
  <2>0. PICK x : x = brk[n].exec + 1
    OBVIOUS
  <2>1. PICK a \in {"live", "gone"} :
          brk' = [brk EXCEPT ![n] = [brk[n] EXCEPT !.exec = x, !.at = a]]
    <3>1. CASE brk[n].exec + 1 = ord[n].qty
      BY <1>7, <2>0, <3>1 DEF Execute
    <3>2. CASE brk[n].exec + 1 # ord[n].qty
      BY <1>7, <1>0, <2>0, <3>2 DEF Execute, BrkRows
    <3>3. QED
      BY <3>1, <3>2
  <2>2. /\ brk'[n].at = a /\ brk'[n].no = brk[n].no /\ brk'[n].listed = brk[n].listed
        /\ \A o \in Orders \ {n} : brk'[o] = brk[o]
    BY <1>0, <2>1 DEF BrkRows
  <2>3. brk[n].at = "live"
    BY <1>7 DEF Execute
  <2>4. QED
    BY <1>1, <2>2, <2>3 DEF BrkMoves, Accepted
<1>8. CASE BrokerCancels
  <2>1. PICK n \in Orders : brk[n].at = "live" /\ brk' = [brk EXCEPT ![n].at = "gone"]
    BY <1>8 DEF BrokerCancels
  <2>2. /\ brk'[n].at = "gone" /\ brk'[n].no = brk[n].no /\ brk'[n].listed = brk[n].listed
        /\ \A o \in Orders \ {n} : brk'[o] = brk[o]
    BY <1>0, <2>1 DEF BrkRows
  <2>3. QED
    BY <1>1, <2>1, <2>2 DEF BrkMoves, Accepted
<1>9. CASE NextDay
  <2>1. ASSUME NEW o \in Orders PROVE BrkMoves(o)
    <3>1. CASE brk[o].at # "live"
      BY <1>1, <1>9, <3>1 DEF NextDay
    <3>2. CASE brk[o].at = "live"
      <4>1. brk[o] \in BrkRows /\ brk'[o] = [brk[o] EXCEPT !.at = "gone"]
        BY <1>0, <1>9, <3>2 DEF NextDay
      <4>2. brk'[o].at = "gone" /\ brk'[o].no = brk[o].no /\ brk'[o].listed = brk[o].listed
        BY <4>1 DEF BrkRows
      <4>3. QED
        BY <3>2, <4>2 DEF BrkMoves, Accepted
    <3>3. QED
      BY <3>1, <3>2
  <2>2. QED
    BY <2>1
<1>10. CASE AckArrives \/ RefusalArrives \/ SubmitTimesOut \/ (\E o \in Orders : Cancel(o))
            \/ RecordCancel \/ CancelFails
  BY <1>2, <1>10 DEF AckArrives, RefusalArrives, SubmitTimesOut, Cancel, RecordCancel, CancelFails
<1>11. CASE Poller \/ Resolver
  BY <1>2, <1>11 DEF Poller, PollFetch, PollApply, PollFails, Resolver, ResolverRead,
              ResolverFetch, ResolverApply, ResolverFails
<1>12. CASE Expiry \/ Start \/ Crash
  BY <1>2, <1>12 DEF Expiry, OpenSession, RecoverFetch, RecoverApply, RecoverFails, ExpireStale,
              Start, Crash
<1>13. CASE UNCHANGED vars
  BY <1>2, <1>13 DEF vars
<1>14. QED
  BY <1>3, <1>4, <1>5, <1>6, <1>7, <1>8, <1>9, <1>10, <1>11, <1>12, <1>13
     DEF Next, MainTask, Broker

\* Who changes an order's state or number, and to what.
StMoves(o) ==
  \/ ord'[o].st = ord[o].st /\ ord'[o].no = ord[o].no
  \/ ord[o].st = "none"
  \/ ord[o].st = "PENDING_NEW" /\ ord'[o].st = "UNKNOWN" /\ ord'[o].no = ord[o].no
  \/ /\ ord[o].st = "PENDING_NEW" /\ ord'[o].st = "NEW" /\ Accepted(o) /\ ord'[o].no = brk[o].no
     /\ brk' = brk
  \/ brk[o].at = "refused" /\ ord[o].no = 0 /\ ord'[o].no = 0
  \/ main.at = "cancelled" /\ o = main.o /\ ord[o].no # 0 /\ brk' = brk
  \/ /\ \E e \in ExecRec : \E d : /\ RealOn(e, d) /\ Takes(o, e, d)
                                 /\ ord'[o].st = FilledTo(o, e.qty)
     /\ ord[o].no # 0 /\ ord'[o].no = ord[o].no /\ brk' = brk
  \/ /\ ResolverApply /\ o \in res.unknowns /\ ord[o].no = 0
     /\ \/ Adopts(o) /\ ord'[o].st = "NEW" /\ ord'[o].no = brk[Match(o)].no
        \/ ~Adopts(o) /\ Presumes(o) /\ ord'[o].no = 0
  \/ Stale(o) /\ ord'[o].no = ord[o].no /\ brk' = brk

\* What a step may do to an order's state and number.
LEMMA StRow ==
  ASSUME OrderAssumption, IInv, CancelOK, [Next]_vars
  PROVE  \A o \in Orders : StMoves(o)
<1>0. /\ TypeOK /\ RowsOK /\ MainOK /\ RecsOK /\ ord \in [Orders -> Rows]
      /\ \A o \in Orders : ord[o] \in Rows
  BY DEF IInv, TypeOK
<1>1. ASSUME NEW o \in Orders, ord'[o] = ord[o] PROVE StMoves(o)
  BY <1>1 DEF StMoves
<1>2. CASE ord' = ord
  BY <1>1, <1>2
<1>3. ASSUME NEW l \in Lots, NEW s \in Sides, NEW q \in 1 .. MaxQty, Submit(l, s, q)
      PROVE  \A o \in Orders : StMoves(o)
  <2>1. PICK n, r : n \in Orders /\ ord[n].st = "none" /\ ord' = [ord EXCEPT ![n] = r]
    BY <1>3 DEF Submit
  <2>2. \A o \in Orders \ {n} : ord'[o] = ord[o]
    BY <1>0, <2>1
  <2>3. QED
    BY <1>1, <2>1, <2>2 DEF StMoves
<1>4. CASE AckArrives \/ RefusalArrives \/ SubmitTimesOut \/ RecordCancel
  <2>1. PICK n : n = main.o
    OBVIOUS
  <2>2. n \in Orders /\ ord[n] \in Rows /\ main.at \in {"send", "cancelled"}
        /\ \A o \in Orders \ {n} : ord'[o] = ord[o]
    BY <1>0, <1>4, <2>1 DEF MainOK, AckArrives, RefusalArrives, SubmitTimesOut, RecordCancel
  <2>3. StMoves(n)
    <3>1. CASE AckArrives
      <4>1. ord[n].st = "PENDING_NEW"
        BY <1>0, <2>1, <3>1 DEF AckArrives, MainOK
      <4>2. ord' = [ord EXCEPT ![n] = [ord[n] EXCEPT !.no = brk[n].no, !.st = "NEW"]]
        BY <2>1, <3>1, <4>1 DEF AckArrives
      <4>3. ord'[n].st = "NEW" /\ ord'[n].no = brk[n].no
        BY <1>0, <2>2, <4>2 DEF Rows
      <4>4. QED
        BY <2>1, <3>1, <4>1, <4>3 DEF AckArrives, StMoves
    <3>2. ASSUME NEW s, ord' = [ord EXCEPT ![n].st = s] PROVE ord'[n].st = s /\ ord'[n].no = ord[n].no
      BY <1>0, <2>2, <3>2 DEF Rows
    <3>3. CASE RefusalArrives
      <4>1. ord[n].st = "PENDING_NEW" /\ brk[n].at = "refused"
        BY <1>0, <2>1, <3>3 DEF RefusalArrives, MainOK
      <4>2. ord[n].no = 0
        BY <1>0, <2>2, <4>1 DEF RowsOK, RowOK
      <4>3. QED
        BY <2>1, <3>2, <3>3, <4>1, <4>2 DEF RefusalArrives, StMoves
    <3>4. CASE SubmitTimesOut
      BY <1>0, <2>1, <3>2, <3>4 DEF SubmitTimesOut, MainOK, StMoves
    <3>5. CASE RecordCancel
      BY <2>1, <3>5 DEF RecordCancel, CancelOK, StMoves
    <3>6. QED
      BY <1>4, <3>1, <3>3, <3>4, <3>5
  <2>4. QED
    BY <1>1, <2>2, <2>3
<1>5. ASSUME NEW e \in ExecRec, NEW d, RealOn(e, d), ApplyExecution(e, d), brk' = brk
      PROVE  \A o \in Orders : StMoves(o)
  <2>1. ASSUME NEW o \in Orders, Takes(o, e, d),
               ord'[o] = [ord[o] EXCEPT !.filled = e.qty, !.st = FilledTo(o, e.qty)]
        PROVE  StMoves(o)
    <3>1. ord'[o].st = FilledTo(o, e.qty) /\ ord'[o].no = ord[o].no
      BY <1>0, <2>1 DEF Rows
    <3>2. ord[o].no # 0
      BY <1>5, <2>1 DEF Takes, Named, RealOn
    <3>3. QED
      BY <1>5, <2>1, <3>1, <3>2 DEF StMoves
  <2>2. QED
    BY <1>0, <1>1, <1>5, <2>1, FillRow
<1>6. CASE (\E e \in batch : PollApply(e)) \/ (\E e \in exp.recs : RecoverApply(e))
  BY <1>0, <1>5, <1>6 DEF PollApply, RecoverApply, RecsOK, TypeOK
<1>7. CASE ResolverApply
  <2>1. ASSUME NEW o \in Orders PROVE StMoves(o)
    <3>1. ord'[o] = CASE o \in res.unknowns /\ Adopts(o) ->
                           [ord[o] EXCEPT !.st = "NEW", !.no = brk[Match(o)].no]
                      [] o \in res.unknowns /\ Presumes(o) ->
                           [ord[o] EXCEPT !.st = "REJECTED", !.presumed = TRUE]
                      [] OTHER -> ord[o]
      BY <1>7 DEF ResolverApply
    <3>2. CASE o \in res.unknowns /\ Adopts(o)
      <4>1. ~Presumes(o) /\ ord[o].no = 0
        BY <3>2 DEF Adopts, Presumes
      <4>2. ord'[o] = [ord[o] EXCEPT !.st = "NEW", !.no = brk[Match(o)].no]
        BY <3>1, <3>2, <4>1
      <4>3. ord'[o].st = "NEW" /\ ord'[o].no = brk[Match(o)].no
        BY <1>0, <4>2 DEF Rows
      <4>4. QED
        BY <1>7, <3>2, <4>1, <4>3 DEF StMoves
    <3>3. CASE o \in res.unknowns /\ ~Adopts(o) /\ Presumes(o)
      <4>1. ord'[o] = [ord[o] EXCEPT !.st = "REJECTED", !.presumed = TRUE]
        BY <3>1, <3>3
      <4>2. ord[o].no = 0
        BY <1>0, <3>3 DEF Presumes, RowsOK, RowOK
      <4>3. ord'[o].no = 0
        BY <1>0, <4>1, <4>2 DEF Rows
      <4>4. QED
        BY <1>7, <3>3, <4>2, <4>3 DEF StMoves
    <3>4. CASE ~(o \in res.unknowns /\ Adopts(o)) /\ ~(o \in res.unknowns /\ Presumes(o))
      BY <1>1, <3>1, <3>4
    <3>5. QED
      BY <3>2, <3>3, <3>4
  <2>2. QED
    BY <2>1
<1>8. CASE Start
  <2>1. ASSUME NEW o \in Orders, ord[o].st = "PENDING_NEW" PROVE StMoves(o)
    <3>1. ord'[o] = [ord[o] EXCEPT !.st = "UNKNOWN"]
      BY <1>8, <2>1 DEF Start
    <3>2. ord'[o].st = "UNKNOWN" /\ ord'[o].no = ord[o].no
      BY <1>0, <3>1 DEF Rows
    <3>3. QED
      BY <2>1, <3>2 DEF StMoves
  <2>2. QED
    BY <1>1, <1>8, <2>1 DEF Start
<1>9. CASE ExpireStale
  <2>1. ASSUME NEW o \in Orders, Stale(o) PROVE StMoves(o)
    <3>1. CASE o \in exp.keep
      BY <1>1, <1>9, <3>1 DEF ExpireStale
    <3>2. CASE o \notin exp.keep
      <4>1. ord'[o] = [ord[o] EXCEPT !.st = "EXPIRED"] /\ brk' = brk
        BY <1>9, <2>1, <3>2 DEF ExpireStale
      <4>2. ord'[o].no = ord[o].no
        BY <1>0, <4>1 DEF Rows
      <4>3. QED
        BY <2>1, <4>1, <4>2 DEF StMoves
    <3>3. QED
      BY <3>1, <3>2
  <2>2. QED
    BY <1>1, <1>9, <2>1 DEF ExpireStale
<1>10. CASE (\E o \in Orders : Cancel(o)) \/ CancelFails \/ Broker
  BY <1>2, <1>10 DEF Cancel, CancelFails, Broker, Accept, RefuseOrLose, List, Execute,
                     BrokerCancels, NextDay
<1>11. CASE PollFetch \/ PollFails \/ ResolverRead \/ ResolverFetch \/ ResolverFails
  BY <1>2, <1>11 DEF PollFetch, PollFails, ResolverRead, ResolverFetch, ResolverFails
<1>12. CASE OpenSession \/ RecoverFetch \/ RecoverFails \/ Crash \/ UNCHANGED vars
  BY <1>2, <1>12 DEF OpenSession, RecoverFetch, RecoverFails, Crash, vars
<1>13. QED
  BY <1>3, <1>4, <1>6, <1>7, <1>8, <1>9, <1>10, <1>11, <1>12
     DEF Next, MainTask, Poller, Resolver, Expiry

-----------------------------------------------------------------------------
(* One order holds each (lot, side).                                       *)

\* An order that holds its slot held it before, and its twins were of its lot, unless it
\* is new.
LEMMA HoldsStep ==
  ASSUME OrderAssumption, ~ListingLag, IInv, [Next]_vars, NEW o \in Orders, ord[o].st # "none"
  PROVE  /\ ord'[o].st # "none" /\ ord'[o].day = ord[o].day /\ ord'[o].lot = ord[o].lot
         /\ ord'[o].side = ord[o].side /\ ord'[o].qty = ord[o].qty
         /\ TwinsOfLot(o)' => TwinsOfLot(o)
         /\ Awaiting(o)' => Awaiting(o)
         /\ brk'[o].at = "live" => \/ brk[o].at = "live" /\ brk'[o].no = brk[o].no
                                   \/ /\ brk[o].at = "flight" /\ ord[o].day = today
                                      /\ brk'[o].no = nextNo
         /\ Holds(o)' => Holds(o)
<1>1. /\ Lawful(o) /\ BrkMoves(o) /\ RowOK(o) /\ RowOK(o)' /\ today \in Nat /\ today' \in Nat
      /\ ord[o].day \in Nat /\ TypeOK /\ \A w \in Orders : Lawful(w) /\ RowOK(w)
  BY LawfulStep, BrkRow DEF IInv, RowsOK, TypeOK
<1>2. TwinsOfLot(o)' => TwinsOfLot(o)
  <2>1. ASSUME NEW p \in Orders, Twins(o, p), TwinsOfLot(o)' PROVE ord[p].lot = ord[o].lot
    <3>1. Twins(o, p)' /\ ord[p].st # "none"
      BY <2>1, TwinStep DEF Twins
    <3>2. ord'[p].lot = ord'[o].lot
      BY <2>1, <3>1 DEF TwinsOfLot
    <3>3. QED
      BY <1>1, <3>1, <3>2 DEF Lawful
  <2>2. QED
    BY <2>1 DEF TwinsOfLot
<1>3. brk'[o].at = "live" => \/ brk[o].at = "live" /\ brk'[o].no = brk[o].no
                             \/ /\ brk[o].at = "flight" /\ ord[o].day = today
                                /\ brk'[o].no = nextNo
  BY <1>1 DEF BrkMoves, RowOK, Accepted, Lawful
<1>4. Awaiting(o)' => Awaiting(o)
  <2>1. SUFFICES ASSUME Awaiting(o)' PROVE Awaiting(o)
    OBVIOUS
  <2>2. brk[o].at \in {"flight", "live", "gone"}
    BY <1>1, <2>1 DEF Awaiting, BrkMoves
  <2>3. ord[o].day = today
    BY <1>1, <2>1 DEF Awaiting, Lawful, RowOK
  <2>4. ASSUME brk[o].no # 0, NEW w \in Orders, ord[w].day = ord[o].day, ord[w].no = brk[o].no
        PROVE  FALSE
    <3>1. ord[w].st # "none" /\ ord'[w].no = ord[w].no /\ ord'[w].day = ord[w].day
      BY <1>1, <2>4 DEF Lawful, RowOK
    <3>2. brk'[o].no = brk[o].no /\ ord'[o].day = ord[o].day
      BY <1>1, <2>4 DEF Lawful, Accepted
    <3>3. QED
      BY <2>1, <2>4, <3>1, <3>2 DEF Awaiting, Claimed
  <2>5. QED
    BY <2>2, <2>3, <2>4 DEF Awaiting, Claimed
<1>5. Holds(o)' => Holds(o)
  <2>1. brk[o].at = "flight" /\ ord[o].day = today => Awaiting(o)
    BY <1>1 DEF Awaiting, RowOK
  <2>2. QED
    BY <1>3, <1>4, <2>1 DEF Holds
<1>6. QED
  BY <1>1, <1>2, <1>3, <1>4, <1>5 DEF Lawful

\* The order that carries the number of a live one is its twin.
LEMMA CarrierIsTwin ==
  ASSUME IInv, NEW o \in Orders, NEW w \in Orders, Accepted(o), ord[w].day = ord[o].day,
         ord[w].no = brk[o].no
  PROVE  Twins(w, o) /\ Twins(o, w)
<1>1. PICK q \in Orders : Twins(w, q) /\ Accepted(q) /\ brk[q].no = ord[w].no
  BY DEF IInv, NumberOfTwin, Accepted
<1>2. q = o
  BY <1>1 DEF IInv, NumbersOK, Twins
<1>3. ord[w].st # "none"
  BY DEF IInv, RowsOK, RowOK, Accepted
<1>4. QED
  BY <1>1, <1>2, <1>3 DEF Twins

\* A number of today is below the next one.
LEMMA NumberIsPast ==
  ASSUME IInv, NEW w \in Orders, ord[w].no # 0, ord[w].day = today
  PROVE  ord[w].no \in Nat /\ ord[w].no < nextNo /\ nextNo \in Nat
<1>1. PICK q \in Orders : Twins(w, q) /\ Accepted(q) /\ brk[q].no = ord[w].no
  BY DEF IInv, NumberOfTwin
<1>2. QED
  BY <1>1, Fields DEF IInv, NumbersOK, Twins, TypeOK

\* An order that holds its slot keeps an open one there, which blocks the next submit.
LEMMA SlotIsBlocked ==
  ASSUME IInv, LInv, NEW o \in Orders, Holds(o), TwinsOfLot(o)
  PROVE  \E w \in Orders : ord[w].st \in Open /\ SameSlot(w, o)
<1>1. CASE Awaiting(o)
  BY <1>1 DEF LInv, AwaitingOK, SameSlot, Open
<1>2. CASE ~Awaiting(o)
  <2>1. brk[o].at = "live" /\ Accepted(o) /\ ord[o].day = today
    BY <1>2 DEF Holds, IInv, RowsOK, RowOK, Accepted
  <2>2. PICK w \in Orders : ord[w].day = ord[o].day /\ ord[w].no = brk[o].no
    BY <1>2, <2>1 DEF Awaiting, Claimed
  <2>3. ord[w].st \in Open /\ Twins(w, o) /\ Twins(o, w)
    BY <2>1, <2>2, CarrierIsTwin DEF LInv, CarrierOK
  <2>4. QED
    BY <2>3 DEF TwinsOfLot, SameSlot, Twins, Sig
<1>3. QED
  BY <1>1, <1>2

\* Twins of a lot: if all of one's twins are of its lot, so are the other's.
LEMMA TwinsShare ==
  ASSUME NEW o \in Orders, NEW p \in Orders, Twins(o, p), TwinsOfLot(o)
  PROVE  TwinsOfLot(p) /\ SameSlot(o, p)
BY DEF Twins, TwinsOfLot, SameSlot, Sig

\* A new order is the only one of its step, and finds its slot free.
LEMMA NewOrder ==
  ASSUME OrderAssumption, IInv, [Next]_vars, NEW o \in Orders, ord[o].st = "none", ord'[o].st # "none"
  PROVE  /\ \A p \in Orders \ {o} : ord'[p] = ord[p] /\ brk'[p] = brk[p]
         /\ \A p \in Orders : ord[p].st \in Open =>
              ~(ord[p].lot = ord'[o].lot /\ ord[p].side = ord'[o].side)
         /\ brk'[o].at = "flight" /\ ord'[o].st = "PENDING_NEW" /\ today' = today /\ res' = res
<1>0. TypeOK /\ RowsOK /\ MainOK /\ ord \in [Orders -> Rows] /\ brk \in [Orders -> BrkRows]
  BY DEF IInv, TypeOK
<1>1. ASSUME NEW l \in Lots, NEW s \in Sides, NEW q \in 1 .. MaxQty, Submit(l, s, q)
      PROVE  /\ \A p \in Orders \ {o} : ord'[p] = ord[p] /\ brk'[p] = brk[p]
             /\ \A p \in Orders : ord[p].st \in Open =>
                  ~(ord[p].lot = ord'[o].lot /\ ord[p].side = ord'[o].side)
             /\ brk'[o].at = "flight" /\ ord'[o].st = "PENDING_NEW" /\ today' = today /\ res' = res
  <2>1. PICK r : r = [NoOrder EXCEPT !.st = "PENDING_NEW", !.day = today,
                                     !.lot = l, !.side = s, !.qty = q]
    OBVIOUS
  <2>2. r.st = "PENDING_NEW" /\ r.lot = l /\ r.side = s
    BY <2>1 DEF NoOrder
  <2>3. PICK n \in Orders : ord' = [ord EXCEPT ![n] = r] /\ brk' = [brk EXCEPT ![n].at = "flight"]
    BY <1>1, <2>1 DEF Submit
  <2>4. n = o
    BY <1>0, <2>3
  <2>5. ord'[o] = r /\ brk'[o].at = "flight"
    BY <1>0, <2>3, <2>4 DEF BrkRows
  <2>6. \A p \in Orders \ {o} : ord'[p] = ord[p] /\ brk'[p] = brk[p]
    BY <1>0, <2>3, <2>4
  <2>7. QED
    BY <1>1, <2>2, <2>5, <2>6 DEF Submit
<1>2. ASSUME ord'[o].st = ord[o].st PROVE FALSE
  BY <1>2
<1>3. CASE AckArrives \/ RefusalArrives \/ SubmitTimesOut \/ RecordCancel
  <2>1. o # main.o
    BY <1>0, <1>3 DEF MainOK, AckArrives, RefusalArrives, SubmitTimesOut, RecordCancel
  <2>2. QED
    BY <1>0, <1>2, <1>3, <2>1 DEF AckArrives, RefusalArrives, SubmitTimesOut, RecordCancel
<1>4. ASSUME NEW e \in ExecRec, NEW d, RealOn(e, d), ApplyExecution(e, d) PROVE FALSE
  <2>1. ord[o].no = 0
    BY <1>0 DEF RowsOK, RowOK
  <2>2. ~Takes(o, e, d)
    BY <1>4, <2>1 DEF Takes, Named, RealOn
  <2>3. QED
    BY <1>0, <1>2, <1>4, <2>2, FillRow
<1>5. CASE (\E e \in batch : PollApply(e)) \/ (\E e \in exp.recs : RecoverApply(e))
  BY <1>4, <1>5 DEF PollApply, RecoverApply, IInv, RecsOK, TypeOK
<1>6. CASE ResolverApply
  BY <1>0, <1>2, <1>6, ResolverRow
<1>7. CASE Start \/ ExpireStale
  BY <1>2, <1>7 DEF Start, ExpireStale, Stale, Open
<1>8. CASE (\E p \in Orders : Cancel(p)) \/ CancelFails \/ Broker
  BY <1>2, <1>8 DEF Cancel, CancelFails, Broker, Accept, RefuseOrLose, List, Execute,
                    BrokerCancels, NextDay
<1>9. CASE PollFetch \/ PollFails \/ ResolverRead \/ ResolverFetch \/ ResolverFails
  BY <1>2, <1>9 DEF PollFetch, PollFails, ResolverRead, ResolverFetch, ResolverFails
<1>10. CASE OpenSession \/ RecoverFetch \/ RecoverFails \/ Crash \/ UNCHANGED vars
  BY <1>2, <1>10 DEF OpenSession, RecoverFetch, RecoverFails, Crash, vars
<1>11. QED
  BY <1>1, <1>3, <1>5, <1>6, <1>7, <1>8, <1>9, <1>10 DEF Next, MainTask, Poller, Resolver, Expiry

\* Two holders of a slot are one order.
LEMMA OneHolderStep ==
  ASSUME OrderAssumption, ~ListingLag, IInv, LInv, [Next]_vars
  PROVE  OneHolder'
<1>1. SUFFICES ASSUME NEW o \in Orders, NEW p \in Orders, Holds(o)', Holds(p)', SameSlot(o, p)',
                      TwinsOfLot(o)', TwinsOfLot(p)', o # p
               PROVE  FALSE
  BY DEF OneHolder
<1>2. ASSUME NEW x \in Orders, Holds(x)' PROVE ord'[x].st # "none"
  BY <1>2, LawfulStep DEF Holds, Awaiting, RowsOK, RowOK
<1>3. CASE ord[o].st # "none" /\ ord[p].st # "none"
  BY <1>1, <1>3, HoldsStep DEF LInv, OneHolder, SameSlot
<1>4. ASSUME NEW x \in Orders, NEW y \in Orders, x # y, ord[x].st = "none", Holds(x)', Holds(y)',
             SameSlot(x, y)', TwinsOfLot(y)'
      PROVE  FALSE
  <2>1. /\ ord'[y] = ord[y]
        /\ \A w \in Orders : ord[w].st \in Open =>
             ~(ord[w].lot = ord'[x].lot /\ ord[w].side = ord'[x].side)
    BY <1>2, <1>4, NewOrder
  <2>2. Holds(y) /\ TwinsOfLot(y)
    BY <1>2, <1>4, <2>1, HoldsStep
  <2>3. PICK w \in Orders : ord[w].st \in Open /\ SameSlot(w, y)
    BY <2>2, SlotIsBlocked
  <2>4. QED
    BY <1>4, <2>1, <2>3 DEF SameSlot
<1>5. QED
  BY <1>1, <1>3, <1>4 DEF SameSlot

\* Accepted orders are listed.
LEMMA ListedStep ==
  ASSUME OrderAssumption, ~ListingLag, IInv, LInv, [Next]_vars
  PROVE  ListedOK'
BY BrkRow DEF LInv, ListedOK, BrkMoves, Accepted

\* A request that the table has no number for stays open: the resolver adopts its own
\* record, or none.
LEMMA AwaitingStep ==
  ASSUME OrderAssumption, ~ListingLag, IInv, LInv, [Next]_vars
  PROVE  AwaitingOK'
<1>1. SUFFICES ASSUME NEW o \in Orders, Awaiting(o)', TwinsOfLot(o)',
                      ord'[o].st \notin {"PENDING_NEW", "UNKNOWN"}
               PROVE  FALSE
  BY DEF AwaitingOK
<1>2. ord[o].st # "none"
  <2>1. ord'[o].st # "none"
    BY <1>1, LawfulStep DEF Awaiting, RowsOK, RowOK
  <2>2. QED
    BY <1>1, <2>1, NewOrder
<1>3. /\ Awaiting(o) /\ TwinsOfLot(o) /\ ord[o].st \in {"PENDING_NEW", "UNKNOWN"}
      /\ ord'[o].day = ord[o].day /\ RowOK(o) /\ RowOK(o)' /\ Lawful(o) /\ ord[o].day = today
      /\ today \in Nat /\ ord[o].no = 0 /\ BrkMoves(o)
  <2>1. Awaiting(o) /\ TwinsOfLot(o) /\ ord'[o].day = ord[o].day
    BY <1>1, <1>2, HoldsStep
  <2>2. RowOK(o) /\ RowOK(o)' /\ Lawful(o) /\ today \in Nat /\ BrkMoves(o)
    BY LawfulStep, BrkRow DEF RowsOK
  <2>3. ord[o].st \in {"PENDING_NEW", "UNKNOWN"} /\ ord[o].day = today
    BY <2>1 DEF LInv, AwaitingOK, Awaiting
  <2>4. QED
    BY <2>1, <2>2, <2>3 DEF RowOK
<1>4. ASSUME ord'[o].no = brk'[o].no, brk'[o].no # 0 PROVE FALSE
  BY <1>1, <1>4 DEF Awaiting, Claimed
<1>5. CASE ord[o].st = "PENDING_NEW" /\ ord'[o].st = "NEW" /\ Accepted(o) /\ ord'[o].no = brk[o].no
           /\ brk' = brk
  BY <1>4, <1>5 DEF Accepted
<1>6. CASE ResolverApply /\ o \in res.unknowns /\ (Adopts(o) \/ Presumes(o))
  <2>1. /\ res.at = "fetched" /\ brk' = brk /\ ReadOK /\ ResOK
        /\ \A p \in res.recs : p \in Orders /\ Accepted(p) /\ ord[p].st # "none" /\ ord[p].day = today
    BY <1>6 DEF ResolverApply, LInv, IInv, ResOK, TypeOK
  <2>2. CASE o \in res.settled
    <3>1. o \in res.recs /\ o \in Found(o) /\ Accepted(o)
      BY <1>3, <2>1, <2>2 DEF ReadOK, Found
    <3>2. Adopts(o) /\ ~Presumes(o)
      BY <1>6, <3>1 DEF Presumes
    <3>3. Match(o) \in Orders /\ Found(o) = {Match(o)}
      BY <3>2 DEF Adopts, Match
    <3>4. Match(o) = o
      BY <3>1, <3>3
    <3>5. ord'[o].no = brk[o].no
      <4>1. StMoves(o)
        BY StRow DEF LInv
      <4>2. ord'[o] = [ord[o] EXCEPT !.st = "NEW", !.no = brk[Match(o)].no] /\ ord[o] \in Rows
        BY <1>6, <3>2 DEF ResolverApply, IInv, TypeOK
      <4>3. QED
        BY <3>4, <4>2 DEF Rows
    <3>6. QED
      BY <1>4, <2>1, <3>1, <3>5 DEF Accepted
  <2>3. CASE o \notin res.settled
    <3>1. Adopts(o)
      BY <1>6, <2>3 DEF Presumes
    <3>2. PICK p \in Orders : Found(o) = {p}
      BY <3>1 DEF Adopts
    <3>3. p \in res.recs /\ Sig(p) = Sig(o)
      BY <3>2 DEF Found
    <3>4. Twins(o, p)
      BY <1>3, <2>1, <3>3 DEF Twins
    <3>5. QED
      BY <1>3, <1>6, <2>1, <2>3, <3>3, <3>4 DEF ReadOK
  <2>4. QED
    BY <2>2, <2>3
<1>7. QED
  <2>1. StMoves(o)
    BY StRow DEF LInv
  <2>2. brk[o].at # "refused" /\ ~Stale(o)
    BY <1>3 DEF Awaiting, Stale
  <2>3. QED
    BY <1>1, <1>3, <1>5, <1>6, <2>1, <2>2 DEF StMoves

\* Who carries the number of a live order stays open: its fills do not complete it, and
\* its cancellation ends the live one first.
LEMMA CarrierStep ==
  ASSUME OrderAssumption, ~ListingLag, IInv, LInv, [Next]_vars
  PROVE  CarrierOK'
<1>1. SUFFICES ASSUME NEW o \in Orders, NEW w \in Orders, brk'[o].at = "live",
                      ord'[w].day = ord'[o].day, ord'[w].no = brk'[o].no
               PROVE  ord'[w].st \in Open
  BY DEF CarrierOK
<1>2. /\ RowOK(o) /\ RowOK(w) /\ RowOK(o)' /\ RowOK(w)' /\ Lawful(o) /\ Lawful(w) /\ StMoves(w)
      /\ BrkMoves(o) /\ today \in Nat /\ ord[w].day \in Nat
  BY LawfulStep, BrkRow, StRow DEF LInv, RowsOK
<1>3. ord[o].st # "none" /\ ord'[w].no # 0 /\ ord'[w].st # "none" /\ ord[w].st # "none"
  BY <1>1, <1>2 DEF RowOK, BrkMoves, Lawful
<1>4. ord[w].day = ord[o].day
  BY <1>1, <1>2, <1>3 DEF Lawful
<1>5. CASE ord[w].no = 0
  <2>1. ord'[w].st = "NEW"
    BY <1>2, <1>3, <1>5 DEF StMoves
  <2>2. QED
    BY <2>1 DEF Open
<1>6. CASE ord[w].no # 0
  <2>1. ord'[w].no = ord[w].no
    BY <1>2, <1>6 DEF Lawful
  <2>2. brk[o].at = "live" /\ brk'[o].no = brk[o].no
    <3>1. ASSUME brk[o].at = "flight", ord[o].day = today, brk'[o].no = nextNo PROVE FALSE
      <4>1. ord[w].no = nextNo /\ ord[w].day = today
        BY <1>1, <1>4, <2>1, <3>1
      <4>2. QED
        BY <1>6, <4>1, NumberIsPast
    <3>2. QED
      BY <1>1, <1>3, <3>1, HoldsStep
  <2>3. ord[w].st \in Open /\ ord[o].day = today /\ Accepted(o)
    BY <1>1, <1>2, <1>4, <2>1, <2>2 DEF LInv, CarrierOK, RowOK, Accepted
  <2>4. Twins(w, o)
    BY <1>1, <1>4, <2>1, <2>2, <2>3, CarrierIsTwin
  <2>5. CASE ord'[w].st = ord[w].st
    BY <2>3, <2>5
  <2>6. CASE main.at = "cancelled" /\ w = main.o
    BY <1>1, <1>4, <2>1, <2>2, <2>3, <2>6 DEF LInv, CancelOK
  <2>7. ASSUME NEW e \in ExecRec, NEW d, RealOn(e, d), Takes(w, e, d), ord'[w].st = FilledTo(w, e.qty)
        PROVE  ord'[w].st \in Open
    <3>1. PICK p \in Orders : ord[p].day = d /\ brk[p].no = e.no /\ e.qty <= brk[p].exec /\ e.no # 0
      BY <2>7 DEF RealOn
    <3>2. ord[w].no = e.no /\ ord[w].day = d
      BY <2>7 DEF Takes, Named
    <3>3. p = o
      BY <1>1, <1>4, <2>1, <2>2, <2>3, <3>1, <3>2 DEF IInv, NumbersOK, Accepted
    <3>4. brk[o].exec < ord[o].qty /\ ord[w].qty = ord[o].qty
      BY <1>2, <2>2, <2>4 DEF RowOK, Twins, Sig
    <3>5. brk[o].exec \in Nat /\ ord[w].qty \in Nat /\ ~(e.qty >= ord[w].qty)
      <4>1. brk[o].exec \in Nat /\ ord[w].qty \in Nat /\ ord[w].filled \in Nat
        BY Fields DEF IInv, Shares
      <4>2. e.qty <= brk[o].exec /\ e.qty > ord[w].filled
        BY <2>7, <3>1, <3>3 DEF Takes
      <4>3. e.qty \in Nat
        BY DEF ExecRec, Shares
      <4>4. QED
        BY <3>4, <4>1, <4>2, <4>3
    <3>6. QED
      BY <2>3, <2>7, <3>5 DEF FilledTo, Open
  <2>8. ~Stale(w) /\ (ord[w].st = "PENDING_NEW" => ord[w].no = 0)
    BY <1>2, <1>4, <2>3 DEF Stale, RowOK
  <2>9. QED
    BY <1>2, <1>3, <1>6, <2>5, <2>6, <2>7, <2>8 DEF StMoves
<1>7. QED
  BY <1>5, <1>6

\* What is cancelled at the broker is over, whatever number the order went by.
LEMMA CancelledStep ==
  ASSUME OrderAssumption, ~ListingLag, IInv, LInv, [Next]_vars
  PROVE  CancelOK'
<1>0. TypeOK /\ MainOK /\ RowsOK /\ NumbersOK /\ \A p \in Orders : RowOK(p)
  BY DEF IInv, RowsOK
<1>1. SUFFICES ASSUME main'.at = "cancelled" PROVE CancelOK'
  BY DEF CancelOK
<1>2. BrokerCancels \/ main' = main
  <2>1. CASE MainTask
    <3>1. ASSUME NEW l \in Lots, NEW r \in Sides, NEW q \in 1 .. MaxQty, Submit(l, r, q) PROVE FALSE
      BY <1>1, <3>1 DEF Submit
    <3>2. CASE \E o \in Orders : Cancel(o)
      BY <1>1, <3>2 DEF Cancel
    <3>3. CASE AckArrives \/ RefusalArrives \/ SubmitTimesOut \/ RecordCancel \/ CancelFails
      BY <1>1, <3>3 DEF AckArrives, RefusalArrives, SubmitTimesOut, RecordCancel, CancelFails, NoMain
    <3>4. QED
      BY <2>1, <3>1, <3>2, <3>3 DEF MainTask
  <2>2. CASE Broker
    BY <2>2 DEF Broker, Accept, RefuseOrLose, List, Execute, NextDay
  <2>3. CASE Poller \/ Resolver
    BY <2>3 DEF Poller, PollFetch, PollApply, PollFails, Resolver, ResolverRead,
                ResolverFetch, ResolverApply, ResolverFails
  <2>4. CASE Expiry
    BY <2>4 DEF Expiry, OpenSession, RecoverFetch, RecoverApply, RecoverFails, ExpireStale
  <2>5. CASE Start \/ Crash \/ UNCHANGED vars
    BY <1>1, <2>5 DEF Start, Crash, vars, NoMain
  <2>6. QED
    BY <2>1, <2>2, <2>3, <2>4, <2>5 DEF Next
<1>3. CASE BrokerCancels
  <2>1. PICK n \in Orders : /\ brk[n].at = "live" /\ brk[n].no = ord[main.o].no
                            /\ brk' = [brk EXCEPT ![n].at = "gone"]
    BY <1>3 DEF BrokerCancels
  <2>2. brk'[n].at = "gone" /\ \A p \in Orders \ {n} : brk'[p] = brk[p]
    BY <1>0, <2>1, Fields DEF TypeOK, BrkRows
  <2>3. main'.o = main.o /\ ord' = ord /\ today' = today
    BY <1>0, <1>3 DEF BrokerCancels, TypeOK
  <2>4. ord[main.o].no # 0 /\ Accepted(n) /\ ord[n].day = today
    BY <1>0, <2>1 DEF RowOK, Accepted
  <2>5. ASSUME NEW p \in Orders, brk'[p].at = "live", brk'[p].no = ord[main.o].no PROVE FALSE
    <3>1. p # n /\ brk[p].at = "live" /\ brk[p].no = brk[n].no
      BY <2>1, <2>2, <2>5
    <3>2. Accepted(p) /\ ord[p].day = today
      BY <1>0, <3>1 DEF RowOK, Accepted
    <3>3. QED
      BY <1>0, <2>4, <3>1, <3>2 DEF NumbersOK
  <2>6. QED
    BY <2>3, <2>4, <2>5 DEF CancelOK
<1>4. CASE main' = main
  <2>1. PICK w \in Orders : w = main.o
    BY <1>0, <1>1, <1>4 DEF MainOK
  <2>2. /\ today' = today /\ ord[w].no # 0 /\ ord'[w].no = ord[w].no /\ ord[w].st # "none"
        /\ ord'[w].day = ord[w].day
    <3>1. ~NextDay /\ main.at = "cancelled"
      BY <1>1, <1>4 DEF NextDay, NoMain
    <3>2. today' = today
      BY <1>0, <3>1, ClockStep
    <3>3. ord[w].no # 0 /\ ord[w].st # "none" /\ Lawful(w)
      BY <1>0, <2>1, <3>1, LawfulStep DEF LInv, CancelOK, MainOK
    <3>4. QED
      BY <3>2, <3>3 DEF Lawful
  <2>3. ASSUME NEW p \in Orders, ord[w].day = today, brk'[p].at = "live", brk'[p].no = ord[w].no
        PROVE  FALSE
    <3>1. ord[p].st # "none"
      BY <1>0, <2>3, BrkRow DEF BrkMoves, RowOK
    <3>2. CASE brk[p].at = "live" /\ brk'[p].no = brk[p].no
      BY <1>1, <1>4, <2>1, <2>3, <3>2 DEF LInv, CancelOK
    <3>3. CASE brk'[p].no = nextNo
      <4>1. ord[w].no < nextNo /\ ord[w].no \in Nat /\ nextNo \in Nat
        BY <2>2, <2>3, NumberIsPast
      <4>2. QED
        BY <2>3, <3>3, <4>1
    <3>4. QED
      BY <2>3, <3>1, <3>2, <3>3, HoldsStep
  <2>4. QED
    BY <1>4, <2>1, <2>2, <2>3 DEF CancelOK
<1>5. QED
  BY <1>2, <1>3, <1>4

\* What the resolver has read stays good until it is applied.
LEMMA ReadStep ==
  ASSUME OrderAssumption, ~ListingLag, IInv, LInv, [Next]_vars
  PROVE  ReadOK'
<1>0. /\ TypeOK /\ RowsOK /\ ResOK /\ ReadOK /\ NumbersOK /\ today \in Nat
      /\ \A p \in Orders : RowOK(p) /\ Lawful(p) /\ RowOK(p)'
  <2>1. TypeOK /\ RowsOK /\ ResOK /\ ReadOK /\ NumbersOK /\ today \in Nat
    BY DEF IInv, LInv, TypeOK
  <2>2. RowsOK' /\ \A p \in Orders : Lawful(p)
    BY LawfulStep
  <2>3. QED
    BY <2>1, <2>2 DEF RowsOK
<1>1. CASE res'.at = "idle"
  BY <1>1 DEF ReadOK
<1>2. CASE ResolverRead
  <2>1. PICK u \in SUBSET Orders :
          /\ \A o \in u : ord[o].st \in {"UNKNOWN", "REJECTED"}
          /\ res' = [NoResolve EXCEPT !.at = "read", !.unknowns = u,
                       !.linked = {n \in 1 .. nextNo : Named(n, today) # {}}]
    BY <1>2 DEF ResolverRead
  <2>2. /\ res'.at = "read" /\ res'.unknowns = u
        /\ res'.linked = {n \in 1 .. nextNo : Named(n, today) # {}}
        /\ ord' = ord /\ brk' = brk /\ today' = today
    BY <1>2, <2>1 DEF ResolverRead, NoResolve
  <2>3. ASSUME NEW o \in u, NEW p \in Orders, brk[o].at = "flight", TwinsOfLot(o), p # o,
               Twins(o, p), Accepted(p)
        PROVE  brk[p].no \in res'.linked
    <3>1. Holds(o) /\ ord[o].day = today /\ o \in Orders
      BY <1>0, <2>3 DEF Holds, Awaiting, RowOK
    <3>2. ord[p].day = today /\ TwinsOfLot(p) /\ SameSlot(o, p)
      BY <2>3, <3>1, TwinsShare DEF Twins
    <3>3. ~Holds(p)
      BY <2>3, <3>1, <3>2 DEF LInv, OneHolder
    <3>4. PICK w \in Orders : ord[w].day = today /\ ord[w].no = brk[p].no
      BY <1>0, <2>3, <3>2, <3>3 DEF Holds, Awaiting, Claimed, RowOK, Accepted
    <3>5. w \in Named(brk[p].no, today)
      BY <3>4 DEF Named
    <3>6. brk[p].no \in 1 .. nextNo
      <4>1. brk[p].no \in Nat /\ brk[p].no # 0 /\ brk[p].no < nextNo /\ nextNo \in Nat
        BY <1>0, <2>3, <3>2, Fields DEF NumbersOK, Accepted, TypeOK
      <4>2. QED
        BY <4>1
    <3>7. QED
      BY <2>2, <3>5, <3>6
  <2>4. \A n \in res'.linked : n # 0 /\ Named(n, today)' # {}
    BY <1>0, <2>2 DEF Named, TypeOK
  <2>5. QED
    BY <2>2, <2>3, <2>4 DEF ReadOK, TwinsOfLot, Twins, Sig, Accepted
<1>3. CASE ResolverFetch
  <2>1. /\ res.at = "read" /\ ord' = ord /\ brk' = brk /\ today' = today
        /\ res' = [res EXCEPT
             !.at = "fetched",
             !.recs = {p \in Orders : /\ Accepted(p) /\ brk[p].listed /\ ord[p].day = today
                                      /\ brk[p].no \notin res.linked},
             !.settled = {o \in res.unknowns : brk[o].at # "flight"}]
    BY <1>3 DEF ResolverFetch
  <2>2. /\ res'.at = "fetched" /\ res'.linked = res.linked /\ res'.unknowns = res.unknowns
        /\ res'.recs = {p \in Orders : /\ Accepted(p) /\ brk[p].listed /\ ord[p].day = today
                                       /\ brk[p].no \notin res.linked}
        /\ res'.settled = {o \in res.unknowns : brk[o].at # "flight"}
        /\ res.unknowns \subseteq Orders
    BY <1>0, <2>1 DEF TypeOK
  <2>3. \A n \in res.linked : n # 0 /\ Named(n, today) # {}
    BY <1>0, <2>1 DEF ReadOK
  <2>4. ASSUME NEW o \in res.unknowns, brk[o].at # "flight", Awaiting(o) PROVE o \in res'.recs
    <3>1. o \in Orders /\ Accepted(o) /\ brk[o].listed /\ ord[o].day = today
      BY <1>0, <2>2, <2>4 DEF Awaiting, RowOK, Accepted, LInv, ListedOK
    <3>2. Named(brk[o].no, today) = {}
      BY <2>4, <3>1 DEF Awaiting, Claimed, Named, Accepted
    <3>3. QED
      BY <2>2, <2>3, <3>1, <3>2
  <2>5. ASSUME NEW o \in res.unknowns, brk[o].at = "flight", NEW p \in res'.recs, Twins(o, p)
        PROVE  ~TwinsOfLot(o)
    <3>1. p # o /\ Accepted(p) /\ brk[p].no \notin res.linked /\ p \in Orders
      BY <1>0, <2>2, <2>5 DEF RowOK, Accepted
    <3>2. QED
      BY <1>0, <2>1, <2>5, <3>1 DEF ReadOK
  <2>6. QED
    BY <2>1, <2>2, <2>3, <2>4, <2>5
       DEF ReadOK, TwinsOfLot, Twins, Sig, Named, Awaiting, Claimed
<1>4. CASE res' = res /\ res.at # "idle"
  <2>1. today' = today
    BY <1>0, <1>4, ClockStep DEF NextDay, NoResolve
  <2>2. ASSUME NEW n \in res.linked PROVE n # 0 /\ Named(n, today)' # {}
    <3>1. PICK w \in Orders : ord[w].no = n /\ ord[w].day = today
      BY <1>0, <1>4 DEF ReadOK, Named
    <3>2. ASSUME n # 0 PROVE ord'[w].no = n /\ ord'[w].day = today
      BY <1>0, <3>1, <3>2 DEF Lawful, RowOK
    <3>3. n # 0
      BY <1>0, <1>4 DEF ReadOK
    <3>4. QED
      BY <2>1, <3>2, <3>3 DEF Named
  <2>3. ASSUME NEW o \in res.unknowns
        PROVE  o \in Orders /\ ord[o].st # "none"
    BY <1>0, <1>4 DEF ResOK, TypeOK
  <2>4. ASSUME res.at = "read", NEW o \in res.unknowns, NEW p \in Orders, brk'[o].at = "flight",
               TwinsOfLot(o)', p # o, Twins(o, p)', Accepted(p)'
        PROVE  brk'[p].no \in res.linked
    <3>1. brk[o].at = "flight" /\ TwinsOfLot(o) /\ o \in Orders /\ ord[o].st # "none"
      BY <2>3, <2>4, BrkRow, HoldsStep DEF BrkMoves
    <3>2. ord[p].st # "none"
      <4>1. ASSUME ord[p].st = "none" PROVE FALSE
        <5>1. brk'[p].at = "flight"
          BY <2>4, <4>1, NewOrder DEF Twins
        <5>2. QED
          BY <1>0, <2>4, <5>1 DEF RowOK, Accepted
      <4>2. QED
        BY <4>1
    <3>3. Twins(o, p)
      BY <2>4, <3>1, <3>2, HoldsStep DEF Twins, Sig
    <3>4. CASE Accepted(p)
      BY <1>0, <2>4, <3>1, <3>3, <3>4 DEF ReadOK, Lawful
    <3>5. CASE ~Accepted(p)
      <4>1. brk[p].at = "flight"
        BY <1>0, <2>4, <3>5 DEF Lawful, Accepted
      <4>2. Holds(o) /\ Holds(p)
        BY <1>0, <3>1, <4>1 DEF Holds, Awaiting, RowOK
      <4>3. QED
        BY <2>4, <3>1, <3>3, <4>2, TwinsShare DEF LInv, OneHolder
    <3>6. QED
      BY <3>4, <3>5
  <2>5. ASSUME res.at = "fetched", NEW o \in res.settled
        PROVE  brk'[o].at # "flight" /\ (Awaiting(o)' => o \in res.recs)
    <3>1. o \in Orders /\ brk[o].at # "flight" /\ (Awaiting(o) => o \in res.recs)
      BY <1>0, <2>5 DEF ReadOK, TypeOK
    <3>2. ord[o].st # "none"
      BY <1>0, <2>3, <2>5 DEF ReadOK
    <3>3. QED
      BY <3>1, <3>2, HoldsStep, BrkRow DEF BrkMoves
  <2>6. ASSUME res.at = "fetched", NEW o \in res.unknowns \ res.settled, NEW p \in res.recs,
               Twins(o, p)', TwinsOfLot(o)'
        PROVE  FALSE
    <3>1. o \in Orders /\ ord[o].st # "none" /\ p \in Orders /\ ord[p].st # "none"
      BY <1>0, <2>3, <2>6 DEF ResOK, TypeOK
    <3>2. Twins(o, p) /\ TwinsOfLot(o)
      BY <2>6, <3>1, HoldsStep DEF Twins, Sig
    <3>3. QED
      BY <1>0, <2>6, <3>2 DEF ReadOK
  <2>7. QED
    BY <1>0, <1>4, <2>2, <2>4, <2>5, <2>6 DEF ReadOK
<1>5. CASE res' = res /\ res.at = "idle"
  BY <1>1, <1>5
<1>6. res' = res \/ res'.at = "idle" \/ ResolverRead \/ ResolverFetch
  <2>1. CASE MainTask \/ Broker
    BY <2>1 DEF MainTask, Submit, AckArrives, RefusalArrives, SubmitTimesOut, Cancel,
                RecordCancel, CancelFails, Broker, Accept, RefuseOrLose, List, Execute,
                BrokerCancels, NextDay
  <2>2. CASE Poller \/ Resolver
    <3>1. CASE Poller
      BY <3>1 DEF Poller, PollFetch, PollApply, PollFails
    <3>2. CASE ResolverApply \/ ResolverFails
      <4>1. res' = NoResolve
        BY <3>2 DEF ResolverApply, ResolverFails
      <4>2. QED
        BY <4>1 DEF NoResolve
    <3>3. QED
      BY <2>2, <3>1, <3>2 DEF Resolver
  <2>3. CASE Expiry
    BY <2>3, ZenonT(60) DEF Expiry, OpenSession, RecoverFetch, RecoverApply, RecoverFails, ExpireStale
  <2>4. CASE Start \/ Crash \/ UNCHANGED vars
    BY <2>4 DEF Start, Crash, NoResolve, vars
  <2>5. QED
    BY <2>1, <2>2, <2>3, <2>4 DEF Next
<1>7. QED
  BY <1>1, <1>2, <1>3, <1>4, <1>5, <1>6

\* At the beginning no request is anywhere.
LEMMA InitLocks == Init => LInv
<1> SUFFICES ASSUME Init PROVE LInv
  OBVIOUS
<1>1. /\ \A o \in Orders : brk[o].at = "none" /\ brk[o].no = 0
      /\ main.at = "idle" /\ res.at = "idle"
  BY DEF Init, NoMain, NoResolve
<1> QED BY <1>1 DEF LInv, ListedOK, AwaitingOK, CarrierOK, CancelOK, OneHolder, ReadOK, Holds,
                    Awaiting, Accepted

\* Every step keeps what is said of requests and of the order that keeps a slot.
LEMMA LocksStep ==
  ASSUME OrderAssumption, ~ListingLag PROVE IInv /\ LInv /\ [Next]_vars => LInv'
BY ListedStep, AwaitingStep, CarrierStep, CancelledStep, OneHolderStep, ReadStep DEF LInv

\* Without listing lag, one order of a lot and side at most works at the broker: the
\* submit of a second one finds an open order in its way, as long as the first one may
\* still trade or be adopted (unknown_resolver.py:5, service.py:763-767).
THEOREM OneOrderPerSlot ==
  ASSUME OrderAssumption, ~ListingLag PROVE Spec => []OneLiveOrder
<1>1. Init => LInv
  BY InitLocks
<1>2. IInv /\ LInv /\ [Next]_vars => LInv'
  BY LocksStep
<1>3. LInv => OneLiveOrder
  BY DEF LInv, OneHolder, OneLiveOrder, Holds, SameSlot
<1>4. QED
  BY <1>1, <1>2, <1>3, Invariance, PTL DEF Spec

-----------------------------------------------------------------------------
(***************************************************************************)
(* OrderFlow implements PositionLedger, for any number of orders, days and *)
(* crashes: every step of the tasks, the broker and the process is a step  *)
(* of the ledger or leaves it as it is.                                    *)
(***************************************************************************)
USE DEF table, broker, tasks

\* What the ledger sees of the tables.
Book == [o \in Orders |-> Entry(o)]
Held == [l \in Lots |-> pos[l].qty]

\* The fields of an entry are those of its row.
LEMMA EntryFields ==
  ASSUME NEW o \in Orders
  PROVE  /\ Book[o] = Entry(o)
         /\ Entry(o).st = Kind(ord[o].st) /\ Entry(o).lot = ord[o].lot
         /\ Entry(o).side = ord[o].side /\ Entry(o).qty = ord[o].qty
         /\ Entry(o).filled = ord[o].filled
BY DEF Book, Entry

\* A row that keeps its terms, its shares and the kind of its state keeps its entry.
LEMMA SameEntry ==
  ASSUME NEW o \in Orders,
         ord'[o].lot = ord[o].lot, ord'[o].side = ord[o].side, ord'[o].qty = ord[o].qty,
         ord'[o].filled = ord[o].filled, Kind(ord'[o].st) = Kind(ord[o].st)
  PROVE  Entry(o)' = Entry(o)
BY DEF Entry, Kind

\* The steps of the ledger, said of the book and the holdings.
LEMMA Placing ==
  ASSUME NEW o \in Orders, Book[o].st = "none", Held' = Held,
         NEW l \in Lots, NEW s \in {"BUY", "SELL"}, NEW q \in 1 .. MaxQty,
         Book' = [Book EXCEPT ![o] = [st |-> "open", lot |-> l, side |-> s, qty |-> q, filled |-> 0]]
  PROVE  Ledger!Place(o)
BY Zenon DEF Ledger!Place, Book, Held

LEMMA Posting ==
  ASSUME NEW o \in Orders, NEW n \in 1 .. MaxQty,
         Book[o].st \in {"open", "shut"}, Book[o].filled + n <= Book[o].qty,
         Book' = [Book EXCEPT ![o] =
                    Ledger!Becomes(o, Ledger!Reached(o, Book[o].filled + n), Book[o].filled + n)],
         Held' = [Held EXCEPT ![Book[o].lot] = Ledger!Moved(o, n)]
  PROVE  Ledger!Post(o, n)
BY Zenon DEF Ledger!Post, Book, Held

LEMMA Shutting ==
  ASSUME NEW S, \A o \in S : Book[o].st = "open", Held' = Held,
         Book' = [o \in Orders |-> IF o \in S THEN Ledger!Becomes(o, "shut", Book[o].filled)
                                  ELSE Book[o]]
  PROVE  Ledger!Shut(S)
BY Zenon DEF Ledger!Shut, Book, Held

LEMMA LedgerStep ==
  ASSUME \/ \E o \in Orders : Ledger!Place(o)
         \/ \E o \in Orders : \E n \in 1 .. MaxQty : Ledger!Post(o, n)
         \/ \E S \in SUBSET Orders : Ledger!Shut(S),
         Book' # Book
  PROVE  Ledger!Next
BY Zenon DEF Ledger!Next, Book

\* A row that keeps its terms.
LEMMA NewEntry ==
  ASSUME NEW o \in Orders,
         ord'[o].lot = ord[o].lot, ord'[o].side = ord[o].side, ord'[o].qty = ord[o].qty
  PROVE  Entry(o)' = Ledger!Becomes(o, Kind(ord'[o].st), ord'[o].filled)
<1>1. Ledger!Becomes(o, Kind(ord'[o].st), ord'[o].filled) =
        [st |-> Kind(ord'[o].st), lot |-> Book[o].lot, side |-> Book[o].side,
         qty |-> Book[o].qty, filled |-> ord'[o].filled]
  BY Zenon DEF Ledger!Becomes, Book
<1>2. QED
  BY ZenonT(60), <1>1, EntryFields DEF Entry, Kind

\* Nothing happened to the ledger.
LEMMA SameLedger ==
  ASSUME \A o \in Orders : Entry(o)' = Entry(o), pos' = pos
  PROVE  Book' = Book /\ Held' = Held
BY DEF Book, Held

\* An execution never brings an order beyond its quantity: its number is that of a twin.
LEMMA WithinQuantity ==
  ASSUME IInv, NEW e \in ExecRec, NEW d, RealOn(e, d), NEW o \in Orders, Takes(o, e, d)
  PROVE  e.qty <= ord[o].qty /\ ord[o].st \notin {"none", "FILLED"}
<1>1. ord[o].no = e.no /\ ord[o].day = d /\ e.no # 0 /\ e.qty > ord[o].filled
  BY DEF Takes, Named, RealOn
<1>2. PICK p \in Orders : Twins(o, p) /\ Accepted(p) /\ brk[p].no = e.no
  BY <1>1 DEF IInv, NumberOfTwin
<1>3. PICK r \in Orders : ord[r].day = d /\ brk[r].no = e.no /\ e.qty <= brk[r].exec
  BY DEF RealOn
<1>4. p = r
  BY <1>1, <1>2, <1>3 DEF IInv, NumbersOK, Accepted, Twins
<1>5. ord[p].qty = ord[o].qty
  BY <1>2 DEF Twins, Sig
<1>6. RowOK(o) /\ RowOK(r) /\ TypeOK
  BY DEF IInv, RowsOK
<1>7. /\ brk[r].exec \in Nat /\ ord[r].qty \in Nat /\ ord[o].qty \in Nat /\ ord[o].filled \in Nat
      /\ brk[r].exec <= ord[r].qty
  BY <1>6, Fields DEF Shares, RowOK
<1>8. e.qty <= ord[o].qty
  <2>1. e.qty \in Nat
    BY DEF ExecRec, Shares
  <2>2. QED
    BY <1>3, <1>4, <1>5, <1>7, <2>1
<1>9. ord[o].st # "none"
  BY <1>1, <1>6 DEF RowOK
<1>10. ord[o].st # "FILLED"
  <2>1. e.qty \in Nat
    BY DEF ExecRec, Shares
  <2>2. QED
    BY <1>1, <1>6, <1>7, <1>8, <2>1 DEF RowOK
<1>11. QED
  BY <1>8, <1>9, <1>10

-----------------------------------------------------------------------------
(* Steps of the ledger.                                                    *)

\* A new order is placed.
LEMMA SubmitPlaces ==
  ASSUME OrderAssumption, IInv, NEW l \in Lots, NEW s \in Sides, NEW q \in 1 .. MaxQty, Submit(l, s, q)
  PROVE  Ledger!Next
<1>1. PICK o \in Orders :
        /\ ord[o].st = "none"
        /\ ord' = [ord EXCEPT ![o] = [NoOrder EXCEPT !.st = "PENDING_NEW", !.day = today,
                                   !.lot = l, !.side = s, !.qty = q]]
  BY DEF Submit
<1>2. pos' = pos
  BY DEF Submit
<1>3. /\ ord'[o].st = "PENDING_NEW" /\ ord'[o].lot = l /\ ord'[o].side = s
      /\ ord'[o].qty = q /\ ord'[o].filled = 0
      /\ \A p \in Orders : p # o => ord'[p] = ord[p]
  BY <1>1 DEF IInv, TypeOK, NoOrder
<1>4. Entry(o)' = [st |-> "open", lot |-> l, side |-> s, qty |-> q, filled |-> 0]
  BY <1>3 DEF Entry, Kind
<1>5. Book' = [Book EXCEPT ![o] = [st |-> "open", lot |-> l, side |-> s, qty |-> q, filled |-> 0]]
  BY <1>3, <1>4 DEF Book, Entry
<1>6. Held' = Held
  BY <1>2 DEF Held
<1>7. Book[o].st = "none" /\ Book'[o].st = "open"
  BY <1>1, <1>4, EntryFields DEF Kind, Book
<1>8. Book' # Book
  BY <1>7
<1>9. Ledger!Place(o)
  BY <1>5, <1>6, <1>7, Placing DEF Sides
<1>10. QED
  BY <1>8, <1>9, LedgerStep

\* A fetched execution posts what it adds to its order and to its lot, or nothing.
LEMMA ExecutionPosts ==
  ASSUME OrderAssumption, IInv, NEW e \in ExecRec, NEW d, RealOn(e, d), ApplyExecution(e, d)
  PROVE  Ledger!Next \/ (Book' = Book /\ Held' = Held)
<1>1. CASE UNCHANGED table
  <2>1. ord' = ord /\ pos' = pos
    BY <1>1
  <2>2. \A o \in Orders : Entry(o)' = Entry(o)
    BY <2>1, SameEntry
  <2>3. QED
    BY <2>1, <2>2, SameLedger
<1>2. ASSUME NEW o \in Orders, Takes(o, e, d), HandleFill(o, e.qty - ord[o].filled)
      PROVE  Ledger!Next
  <2>0. /\ TypeOK /\ ord[o].lot \in Lots /\ e.qty \in Nat /\ ord[o].filled \in Nat /\ ord[o].qty \in Nat
        /\ e.qty > ord[o].filled /\ ord[o].qty <= MaxQty /\ MaxQty \in Nat
    BY <1>2, Fields DEF IInv, ExecRec, Shares, Takes, OrderAssumption
  <2>1. e.qty <= ord[o].qty /\ ord[o].st \notin {"none", "FILLED"}
    BY <1>2, WithinQuantity
  <2>2. PICK n \in 1 .. MaxQty : n = e.qty - ord[o].filled /\ ord[o].filled + n = e.qty
    BY <2>0, <2>1
  <2>3. /\ ord' = [ord EXCEPT ![o].filled = e.qty, ![o].st = FilledTo(o, e.qty)]
        /\ pos' = [pos EXCEPT ![ord[o].lot] = Projected(o, n)]
    BY <1>2, <2>2 DEF HandleFill
  <2>4. /\ ord'[o].filled = e.qty /\ ord'[o].st = FilledTo(o, e.qty)
        /\ ord'[o].lot = ord[o].lot /\ ord'[o].side = ord[o].side /\ ord'[o].qty = ord[o].qty
        /\ \A p \in Orders : p # o => ord'[p] = ord[p]
    <3>1. ord[o] \in Rows
      BY <2>0, Fields
    <3>2. QED
      BY <2>0, <2>3, <3>1 DEF TypeOK, Rows
  <2> DEFINE st == IF Book[o].st = "shut" THEN "shut"
                   ELSE IF e.qty = Book[o].qty THEN "filled" ELSE "open"
  <2>5. Book[o].st \in {"open", "shut"} /\ Book[o].qty = ord[o].qty /\ Book[o].filled = ord[o].filled
        /\ Book[o].lot = ord[o].lot /\ Book[o].side = ord[o].side
    BY <2>1, EntryFields DEF Kind
  <2>6. Kind(ord'[o].st) = st
    <3>1. CASE ord[o].st \in {"CANCELLED", "EXPIRED"}
      BY <2>4, <3>1, EntryFields DEF Kind, FilledTo
    <3>2. CASE ord[o].st \notin {"CANCELLED", "EXPIRED"}
      <4>1. Book[o].st = "open"
        BY <2>1, <3>2, EntryFields DEF Kind
      <4>2. CASE e.qty = ord[o].qty
        BY <2>0, <2>4, <2>5, <3>2, <4>1, <4>2 DEF Kind, FilledTo
      <4>3. CASE e.qty # ord[o].qty
        <5>1. ~(e.qty >= ord[o].qty)
          BY <2>0, <2>1, <4>3
        <5>2. QED
          BY <2>4, <2>5, <3>2, <4>1, <4>3, <5>1 DEF Kind, FilledTo
      <4>4. QED
        BY <4>2, <4>3
    <3>3. QED
      BY <3>1, <3>2
  <2>7. Entry(o)' = Ledger!Becomes(o, st, e.qty)
    BY <2>4, <2>6, NewEntry
  <2>8. Book' = [Book EXCEPT ![o] = Ledger!Becomes(o, st, e.qty)]
    <3>1. \A p \in Orders : p # o => Entry(p)' = Entry(p)
      BY <2>4, SameEntry
    <3> HIDE DEF st
    <3>2. QED
      BY <2>7, <3>1 DEF Book
  <2>9. Held' = [Held EXCEPT ![Book[o].lot] = Ledger!Moved(o, n)]
    <3>1. Held' = [Held EXCEPT ![ord[o].lot] = Projected(o, n).qty]
      BY <2>0, <2>3 DEF Held, TypeOK
    <3>2. Ledger!Moved(o, n) = IF Book[o].side = "BUY" THEN Held[Book[o].lot] + n
                               ELSE IF Held[Book[o].lot] > n THEN Held[Book[o].lot] - n ELSE 0
      BY Zenon DEF Ledger!Moved, Book, Held
    <3>3. Held[ord[o].lot] = pos[ord[o].lot].qty /\ pos[ord[o].lot] \in [qty : Nat, st : {"WATCHING", "HOLDING", "CLOSED"}]
      BY <2>0 DEF Held, TypeOK
    <3>4. Projected(o, n).qty = Ledger!Moved(o, n)
      BY <2>5, <3>2, <3>3 DEF Projected
    <3>5. QED
      BY <2>5, <3>1, <3>4
  <2>10. Book' # Book
    <3>1. Book'[o].filled = e.qty
      BY <2>4, EntryFields DEF Book, Entry
    <3>2. QED
      BY <2>0, <2>5, <3>1
  <2>11. Book[o].filled + n = e.qty /\ Ledger!Reached(o, e.qty) = st
    <3>1. Ledger!Reached(o, e.qty) = st
      BY Zenon DEF Ledger!Reached, Book
    <3>2. QED
      BY <2>2, <2>5, <3>1
  <2> HIDE DEF st
  <2>12. Book' = [Book EXCEPT ![o] =
                    Ledger!Becomes(o, Ledger!Reached(o, Book[o].filled + n), Book[o].filled + n)]
    BY <2>8, <2>11
  <2>13. Book[o].filled + n <= Book[o].qty
    BY <2>1, <2>5, <2>11
  <2>14. Ledger!Post(o, n)
    BY <2>5, <2>9, <2>12, <2>13, Posting
  <2>15. \E p \in Orders : \E k \in 1 .. MaxQty : Ledger!Post(p, k)
    BY <2>2, <2>14
  <2>16. QED
    BY <2>10, <2>15, LedgerStep
<1>3. QED
  BY <1>1, <1>2 DEF ApplyExecution

-----------------------------------------------------------------------------
(* The other changes of a row: it is shut, or the ledger does not see them. *)

\* The actions that change rows and are neither a new order nor a fill.
Answers == AckArrives \/ RefusalArrives \/ SubmitTimesOut \/ RecordCancel
           \/ ResolverApply \/ Start \/ ExpireStale

\* An order keeps its terms and its shares, and is at most shut.
Settles(o) ==
  /\ ord'[o].lot = ord[o].lot /\ ord'[o].side = ord[o].side /\ ord'[o].qty = ord[o].qty
  /\ ord'[o].filled = ord[o].filled
  /\ \/ Kind(ord'[o].st) = Kind(ord[o].st)
     \/ Kind(ord[o].st) = "open" /\ Kind(ord'[o].st) = "shut"

LEMMA AnswersSettle ==
  ASSUME OrderAssumption, IInv, Answers, NEW o \in Orders
  PROVE  Settles(o)
<1>0. TypeOK /\ MainOK /\ ord[o] \in Rows
  BY Fields DEF IInv
<1>1. CASE ord'[o] = ord[o]
  BY <1>1 DEF Settles
<1>2. CASE AckArrives
  <2>1. CASE o = main.o
    <3>1. /\ ord'[o].st = "NEW" /\ ord[o].st = "PENDING_NEW"
          /\ ord'[o].lot = ord[o].lot /\ ord'[o].side = ord[o].side
          /\ ord'[o].qty = ord[o].qty /\ ord'[o].filled = ord[o].filled
      BY <1>0, <1>2, <2>1 DEF AckArrives, MainOK, TypeOK, Rows
    <3>2. QED
      BY <3>1 DEF Settles, Kind
  <2>2. CASE o # main.o
    BY <1>0, <1>1, <1>2, <2>2 DEF AckArrives, TypeOK
  <2>3. QED
    BY <2>1, <2>2
<1>3. CASE RefusalArrives \/ SubmitTimesOut \/ RecordCancel
  <2>1. CASE o = main.o
    <3>1. PICK s \in States : ord' = [ord EXCEPT ![main.o].st = s]
      BY <1>0, <1>3, <2>1, Fields
         DEF RefusalArrives, SubmitTimesOut, RecordCancel, States, Open
    <3>2. /\ ord'[o].st = s
          /\ ord'[o].lot = ord[o].lot /\ ord'[o].side = ord[o].side
          /\ ord'[o].qty = ord[o].qty /\ ord'[o].filled = ord[o].filled
      BY <1>0, <2>1, <3>1 DEF TypeOK, Rows
    <3>3. \/ ord[o].st = "PENDING_NEW" /\ s \in {"REJECTED", "UNKNOWN"}
          \/ ord[o].st = "FILLED" /\ s = "FILLED"
          \/ ord[o].st \notin {"none", "FILLED"} /\ s = "CANCELLED"
      <4>1. CASE RefusalArrives \/ SubmitTimesOut
        <5>1. ord[o].st = "PENDING_NEW"
          BY <1>0, <2>1, <4>1 DEF RefusalArrives, SubmitTimesOut, MainOK
        <5>2. ord'[o].st \in {"REJECTED", "UNKNOWN"}
          BY <1>0, <2>1, <4>1 DEF RefusalArrives, SubmitTimesOut, TypeOK, Rows
        <5>3. QED
          BY <3>2, <5>1, <5>2
      <4>2. CASE RecordCancel
        <5>1. ord[o].st # "none"
          BY <1>0, <2>1, <4>2 DEF RecordCancel, MainOK
        <5>2. CASE ord[o].st = "FILLED"
          <6>1. ord'[o].st = "FILLED"
            BY <1>0, <2>1, <4>2, <5>2 DEF RecordCancel, TypeOK, Rows
          <6>2. QED
            BY <3>2, <5>2, <6>1
        <5>3. CASE ord[o].st # "FILLED"
          <6>1. ord'[o].st = "CANCELLED"
            BY <1>0, <2>1, <4>2, <5>3 DEF RecordCancel, TypeOK, Rows
          <6>2. QED
            BY <3>2, <5>1, <5>3, <6>1
        <5>4. QED
          BY <5>2, <5>3
      <4>3. QED
        BY <1>3, <4>1, <4>2
    <3>4. QED
      BY <3>2, <3>3 DEF Settles, Kind
  <2>2. CASE o # main.o
    BY <1>0, <1>1, <1>3, <2>2 DEF RefusalArrives, SubmitTimesOut, RecordCancel, TypeOK
  <2>3. QED
    BY <2>1, <2>2
<1>4. CASE ResolverApply
  <2>1. \/ ord'[o] = ord[o]
        \/ /\ ord[o].st \in {"UNKNOWN", "REJECTED"} /\ ord'[o].st \in {"NEW", "REJECTED"}
           /\ ord'[o].lot = ord[o].lot /\ ord'[o].side = ord[o].side
           /\ ord'[o].qty = ord[o].qty /\ ord'[o].filled = ord[o].filled
    <3>1. ASSUME NEW p, ord'[o] = [ord[o] EXCEPT !.st = "NEW", !.no = brk[p].no]
          PROVE  /\ ord'[o].st = "NEW"
                 /\ ord'[o].lot = ord[o].lot /\ ord'[o].side = ord[o].side
                 /\ ord'[o].qty = ord[o].qty /\ ord'[o].filled = ord[o].filled
      BY <1>0, <3>1 DEF Rows
    <3>2. ASSUME ord'[o] = [ord[o] EXCEPT !.st = "REJECTED", !.presumed = TRUE]
          PROVE  /\ ord'[o].st = "REJECTED"
                 /\ ord'[o].lot = ord[o].lot /\ ord'[o].side = ord[o].side
                 /\ ord'[o].qty = ord[o].qty /\ ord'[o].filled = ord[o].filled
      BY <1>0, <3>2 DEF Rows
    <3>3. QED
      BY <1>0, <1>4, <3>1, <3>2, ResolverRow
  <2>2. QED
    BY <1>1, <2>1 DEF Settles, Kind
<1>5. CASE Start
  <2>1. \/ ord'[o] = ord[o]
        \/ ord[o].st = "PENDING_NEW" /\ ord'[o] = [ord[o] EXCEPT !.st = "UNKNOWN"]
    BY <1>5 DEF Start
  <2>2. CASE ord[o].st = "PENDING_NEW" /\ ord'[o] = [ord[o] EXCEPT !.st = "UNKNOWN"]
    <3>1. /\ ord'[o].st = "UNKNOWN"
          /\ ord'[o].lot = ord[o].lot /\ ord'[o].side = ord[o].side
          /\ ord'[o].qty = ord[o].qty /\ ord'[o].filled = ord[o].filled
      BY <1>0, <2>2 DEF Rows
    <3>2. QED
      BY <2>2, <3>1 DEF Settles, Kind
  <2>3. QED
    BY <1>1, <2>1, <2>2
<1>6. CASE ExpireStale
  <2>1. \/ ord'[o] = ord[o]
        \/ ord[o].st \in Open /\ ord'[o] = [ord[o] EXCEPT !.st = "EXPIRED"]
    BY <1>6 DEF ExpireStale, Stale
  <2>2. CASE ord[o].st \in Open /\ ord'[o] = [ord[o] EXCEPT !.st = "EXPIRED"]
    <3>1. /\ ord'[o].st = "EXPIRED"
          /\ ord'[o].lot = ord[o].lot /\ ord'[o].side = ord[o].side
          /\ ord'[o].qty = ord[o].qty /\ ord'[o].filled = ord[o].filled
      BY <1>0, <2>2 DEF Rows
    <3>2. QED
      BY <2>2, <3>1 DEF Settles, Kind, Open
  <2>3. QED
    BY <1>1, <2>1, <2>2
<1>7. QED
  BY <1>2, <1>3, <1>4, <1>5, <1>6 DEF Answers

\* All the rows that are shut are shut together.
LEMMA AnswersShut ==
  ASSUME OrderAssumption, IInv, Answers
  PROVE  Ledger!Next \/ (Book' = Book /\ Held' = Held)
<1>1. pos' = pos
  BY DEF Answers, AckArrives, RefusalArrives, SubmitTimesOut, RecordCancel, ResolverApply,
         Start, ExpireStale
<1>2. Held' = Held
  BY <1>1 DEF Held
<1>3. PICK S \in SUBSET Orders : S = {o \in Orders : Kind(ord'[o].st) # Kind(ord[o].st)}
  OBVIOUS
<1>4. \A o \in S : Book[o].st = "open" /\ Entry(o)' = Ledger!Becomes(o, "shut", Book[o].filled)
  <2>1. TAKE o \in S
  <2>2. o \in Orders /\ Settles(o) /\ Kind(ord'[o].st) # Kind(ord[o].st)
    BY <1>3, AnswersSettle
  <2>3. Kind(ord[o].st) = "open" /\ Kind(ord'[o].st) = "shut" /\ ord'[o].filled = Book[o].filled
    BY <2>2, EntryFields DEF Settles
  <2>4. QED
    BY <2>2, <2>3, NewEntry, EntryFields DEF Settles
<1>5. \A o \in Orders \ S : Entry(o)' = Book[o]
  <2>1. TAKE o \in Orders \ S
  <2>2. Settles(o) /\ Kind(ord'[o].st) = Kind(ord[o].st)
    BY <1>3, AnswersSettle
  <2>3. QED
    BY <2>2, SameEntry, EntryFields DEF Settles
<1>6. Book' = [o \in Orders |-> IF o \in S THEN Ledger!Becomes(o, "shut", Book[o].filled)
                               ELSE Book[o]]
  BY <1>4, <1>5 DEF Book
<1>7. Ledger!Shut(S)
  BY <1>2, <1>4, <1>6, Shutting
<1>8. CASE Book' # Book
  BY <1>7, <1>8, LedgerStep
<1>9. QED
  BY <1>2, <1>8

-----------------------------------------------------------------------------
\* Every step is one of the ledger, or leaves it alone.
LEMMA Simulates ==
  ASSUME OrderAssumption, IInv, [Next]_vars
  PROVE  Ledger!Next \/ (Book' = Book /\ Held' = Held)
<1>1. ASSUME NEW l \in Lots, NEW s \in Sides, NEW q \in 1 .. MaxQty, Submit(l, s, q)
      PROVE  Ledger!Next
  BY <1>1, SubmitPlaces
<1>2. CASE Answers
  BY <1>2, AnswersShut
<1>3. ASSUME NEW e \in batch, PollApply(e)
      PROVE  Ledger!Next \/ (Book' = Book /\ Held' = Held)
  <2>1. e \in ExecRec /\ RealOn(e, today) /\ ApplyExecution(e, today)
    BY <1>3 DEF IInv, TypeOK, RecsOK, PollApply
  <2>2. PICK d \in Nat : d = today
    BY DEF IInv, TypeOK
  <2>3. QED
    BY <2>1, <2>2, ExecutionPosts
<1>4. ASSUME NEW e \in exp.recs, RecoverApply(e)
      PROVE  Ledger!Next \/ (Book' = Book /\ Held' = Held)
  <2>1. e \in ExecRec /\ RealOn(e, exp.day) /\ ApplyExecution(e, exp.day)
    BY <1>4 DEF IInv, TypeOK, RecsOK, RecoverApply
  <2>2. PICK d \in Nat : d = exp.day
    BY DEF IInv, TypeOK
  <2>3. QED
    BY <2>1, <2>2, ExecutionPosts
<1>5. CASE UNCHANGED <<ord, pos>>
  <2>1. \A o \in Orders : Entry(o)' = Entry(o)
    BY <1>5, SameEntry
  <2>2. QED
    BY <1>5, <2>1, SameLedger
<1>6. \/ (\E o \in Orders : Accept(o) \/ RefuseOrLose(o) \/ List(o) \/ Execute(o) \/ Cancel(o))
      \/ BrokerCancels \/ NextDay \/ CancelFails \/ PollFetch \/ PollFails
      \/ ResolverRead \/ ResolverFetch \/ ResolverFails
      \/ OpenSession \/ RecoverFetch \/ RecoverFails \/ Crash \/ UNCHANGED vars
      => UNCHANGED <<ord, pos>>
  BY DEF Accept, RefuseOrLose, List, Execute, Cancel, BrokerCancels, NextDay, CancelFails,
         PollFetch, PollFails, ResolverRead, ResolverFetch, ResolverFails, OpenSession,
         RecoverFetch, RecoverFails, Crash, vars
<1>7. QED
  BY <1>1, <1>2, <1>3, <1>4, <1>5, <1>6
     DEF Answers, Next, MainTask, Broker, Poller, Resolver, Expiry

\* The first ledger is empty.
LEMMA Begins == ASSUME OrderAssumption, Init PROVE Ledger!Init
<1>1. \A o \in Orders : Entry(o) = [st |-> "none", lot |-> NoOrder.lot, side |-> "BUY",
                                   qty |-> 0, filled |-> 0]
  BY DEF Init, Entry, Kind, NoOrder
<1>2. NoOrder.lot \in Lots /\ 0 \in 0 .. MaxQty
  BY NoOrderType DEF Rows, OrderAssumption
<1>3. Book \in [Orders -> Ledger!Entries]
  BY <1>1, <1>2 DEF Book, Ledger!Entries
<1>4. \A o \in Orders : Book[o].st = "none" /\ Book[o].filled = 0
  BY <1>1 DEF Book
<1>5. Held = [l \in Lots |-> 0]
  BY DEF Held, Init
<1>6. QED
  BY Zenon, <1>3, <1>4, <1>5 DEF Ledger!Init, Book, Held

\* The orders and positions tables implement the ledger, for any number of orders, lots,
\* days and crashes: a fill goes to its order and its lot at once and never beyond the
\* order's quantity, whatever is lost, late, repeated or cut short.
THEOREM Implements == ASSUME OrderAssumption PROVE Spec => ImplementsLedger
<1>1. Init => Ledger!Init
  BY Begins
<1>2. IInv /\ [Next]_vars => [Ledger!Next]_(Ledger!ledger)
  BY Simulates DEF Ledger!ledger, Book, Held
<1>3. QED
  BY <1>1, <1>2, Invariance, PTL DEF Spec, ImplementsLedger, Ledger!Spec
-----------------------------------------------------------------------------
(***************************************************************************)
(* The positions table is the sum of the recorded fills.  A sale's fill is *)
(* clipped at zero when the lot holds less than it: what may still be      *)
(* recorded of the lot's sales is never more than the lot holds, because   *)
(* only one of them has anything left to record.                           *)
(***************************************************************************)

\* What may still be recorded of an order.
Recordable(o) ==
  IF ord[o].st \in {"none", "FILLED", "EXPIRED", "REJECTED"} THEN 0
  ELSE IF brk[o].at \in {"flight", "live"} THEN ord[o].qty - ord[o].filled
  ELSE brk[o].exec - ord[o].filled

AllAlone(l) == \A o \in Orders : ord[o].st # "none" /\ ord[o].lot = l => Alone(o)
Sale(o, l)  == ord[o].st # "none" /\ ord[o].lot = l /\ ord[o].side = "SELL"

CancelledOK == \A o \in Orders : ord[o].st = "CANCELLED" => ord[o].no # 0
SaleOK(l)   == \A o \in Orders : Sale(o, l) =>
                 /\ Recordable(o) <= pos[l].qty
                 /\ \A p \in Orders \ {o} : Sale(p, l) => Recordable(o) = 0 \/ Recordable(p) = 0
SumOK(l)    == pos[l].qty + Recorded(l, "SELL") = Recorded(l, "BUY")

PInv == CancelledOK /\ \A l \in Lots : AllAlone(l) => SaleOK(l) /\ SumOK(l)

\* A lot's cancelled sales of earlier days have their executions recorded, and a new
\* sale waits for that.
EarlierRecorded(l) ==
  \A o \in Orders : Sale(o, l) /\ ord[o].st = "CANCELLED" /\ ord[o].day < today
                      => ord[o].filled >= brk[o].exec
SalesWait == \A l \in Lots, q \in 1 .. MaxQty : Submit(l, "SELL", q) => EarlierRecorded(l)

\* The quantities of an order without a twin are in order.
LEMMA Quantities ==
  ASSUME IInv, NEW o \in Orders, Alone(o)
  PROVE  /\ ord[o].filled \in Nat /\ brk[o].exec \in Nat /\ ord[o].qty \in Nat
         /\ ord[o].filled <= brk[o].exec /\ brk[o].exec <= ord[o].qty
         /\ Recordable(o) \in Nat
<1>1. /\ ord[o].filled \in Nat /\ brk[o].exec \in Nat /\ ord[o].qty \in Nat
  BY Fields DEF IInv, Shares
<1>2. ord[o].filled <= brk[o].exec /\ brk[o].exec <= ord[o].qty
  BY DEF IInv, FillsAreReal, RowsOK, RowOK
<1>3. ord[o].qty - ord[o].filled \in Nat /\ brk[o].exec - ord[o].filled \in Nat
  BY <1>1, <1>2
<1>4. Recordable(o) \in Nat
  BY <1>3 DEF Recordable
<1> QED BY <1>1, <1>2, <1>4

\* Every step is a new order, an answer, a fill, or leaves both tables alone.
LEMMA StepKinds ==
  ASSUME [Next]_vars
  PROVE  \/ \E l \in Lots, s \in Sides, q \in 1 .. MaxQty : Submit(l, s, q)
         \/ Answers
         \/ (\E e \in batch : PollApply(e)) \/ (\E e \in exp.recs : RecoverApply(e))
         \/ UNCHANGED <<ord, pos>>
<1>1. \/ (\E o \in Orders : Accept(o) \/ RefuseOrLose(o) \/ List(o) \/ Execute(o) \/ Cancel(o))
      \/ BrokerCancels \/ NextDay \/ CancelFails \/ PollFetch \/ PollFails
      \/ ResolverRead \/ ResolverFetch \/ ResolverFails
      \/ OpenSession \/ RecoverFetch \/ RecoverFails \/ Crash \/ UNCHANGED vars
      => UNCHANGED <<ord, pos>>
  BY ZenonT(60) DEF Accept, RefuseOrLose, List, Execute, Cancel, BrokerCancels, NextDay, CancelFails,
         PollFetch, PollFails, ResolverRead, ResolverFetch, ResolverFails, OpenSession,
         RecoverFetch, RecoverFails, Crash, vars
<1> QED BY <1>1 DEF Answers, Next, MainTask, Broker, Poller, Resolver, Expiry

\* Only the answer to a cancellation cancels an order.
LEMMA CancelledBy ==
  ASSUME OrderAssumption, IInv, [Next]_vars, NEW o \in Orders,
         ord'[o].st = "CANCELLED", ord[o].st # "CANCELLED"
  PROVE  RecordCancel /\ o = main.o
<1>0. TypeOK /\ RecsOK /\ MainOK /\ ord[o] \in Rows /\ ord \in [Orders -> Rows]
  BY Fields DEF IInv, TypeOK
<1>1. ord'[o] # ord[o]
  OBVIOUS
<1>2. ASSUME NEW l \in Lots, NEW s \in Sides, NEW q \in 1 .. MaxQty, Submit(l, s, q) PROVE FALSE
  <2>1. PICK r : r = [NoOrder EXCEPT !.st = "PENDING_NEW", !.day = today,
                                     !.lot = l, !.side = s, !.qty = q]
    OBVIOUS
  <2>2. r.st = "PENDING_NEW"
    BY <2>1 DEF NoOrder
  <2>3. PICK n : ord' = [ord EXCEPT ![n] = r]
    BY <1>2, <2>1 DEF Submit
  <2> QED BY <1>0, <1>1, <2>2, <2>3
<1>3. CASE AckArrives \/ RefusalArrives \/ SubmitTimesOut
  <2>1. o = main.o
    BY <1>0, <1>1, <1>3 DEF AckArrives, RefusalArrives, SubmitTimesOut
  <2>2. ord[o].st = "PENDING_NEW"
    BY <1>0, <1>3, <2>1 DEF AckArrives, RefusalArrives, SubmitTimesOut, MainOK
  <2> QED BY <1>0, <1>3, <2>1, <2>2 DEF AckArrives, RefusalArrives, SubmitTimesOut, Rows
<1>4. CASE RecordCancel
  <2>1. o = main.o
    BY <1>0, <1>1, <1>4 DEF RecordCancel
  <2> QED BY <1>4, <2>1
<1>5. ASSUME NEW e \in ExecRec, NEW d, ApplyExecution(e, d) PROVE FALSE
  <2>1. ord'[o] = [ord[o] EXCEPT !.filled = e.qty, !.st = FilledTo(o, e.qty)]
    BY <1>0, <1>1, <1>5, FillRow, Zenon
  <2>2. ord'[o].st = FilledTo(o, e.qty)
    BY <1>0, <2>1 DEF Rows
  <2> QED BY <2>2 DEF FilledTo
<1>6. CASE (\E e \in batch : PollApply(e)) \/ (\E e \in exp.recs : RecoverApply(e))
  BY <1>0, <1>5, <1>6 DEF PollApply, RecoverApply, TypeOK
<1>7. CASE ResolverApply
  <2>1. \/ \E n : ord'[o] = [ord[o] EXCEPT !.st = "NEW", !.no = n]
        \/ ord'[o] = [ord[o] EXCEPT !.st = "REJECTED", !.presumed = TRUE]
    BY <1>0, <1>1, <1>7, ResolverRow, Zenon
  <2>2. ASSUME NEW n, ord'[o] = [ord[o] EXCEPT !.st = "NEW", !.no = n] PROVE FALSE
    BY <1>0, <2>2 DEF Rows
  <2>3. ASSUME ord'[o] = [ord[o] EXCEPT !.st = "REJECTED", !.presumed = TRUE] PROVE FALSE
    BY <1>0, <2>3 DEF Rows
  <2> QED BY <2>1, <2>2, <2>3, Zenon
<1>8. CASE Start \/ ExpireStale
  <2>1. \/ ord'[o] = [ord[o] EXCEPT !.st = "UNKNOWN"]
        \/ ord'[o] = [ord[o] EXCEPT !.st = "EXPIRED"]
    BY <1>1, <1>8 DEF Start, ExpireStale
  <2> QED BY <1>0, <2>1 DEF Rows
<1>9. CASE UNCHANGED <<ord, pos>>
  BY <1>1, <1>9
<1> QED BY <1>2, <1>3, <1>4, <1>6, <1>7, <1>8, <1>9, StepKinds DEF Answers

\* A cancelled order has a number.
LEMMA CancelledOKStep ==
  ASSUME OrderAssumption, IInv, LInv, CancelledOK, [Next]_vars
  PROVE  CancelledOK'
<1> SUFFICES ASSUME NEW o \in Orders, ord'[o].st = "CANCELLED" PROVE ord'[o].no # 0
  BY DEF CancelledOK
<1>1. ord[o].no # 0
  <2>1. CASE ord[o].st = "CANCELLED"
    BY <2>1 DEF CancelledOK
  <2>2. CASE ord[o].st # "CANCELLED"
    BY <2>2, CancelledBy DEF RecordCancel, LInv, CancelOK
  <2> QED BY <2>1, <2>2
<1> QED BY <1>1, LawfulStep DEF Lawful

\* A lot whose orders have no twins had none before, and its orders were its own.
LEMMA AloneBefore ==
  ASSUME OrderAssumption, IInv, [Next]_vars, NEW l
  PROVE  /\ AllAlone(l)' => AllAlone(l)
         /\ \A o \in Orders : ord[o].st # "none" => /\ Sale(o, l)' <=> Sale(o, l)
                                                  /\ ord'[o].lot = ord[o].lot
                                                  /\ ord'[o].side = ord[o].side
                                                  /\ ord'[o].st # "none"
<1>1. ASSUME NEW o \in Orders, ord[o].st # "none"
      PROVE  /\ ord'[o].st # "none" /\ ord'[o].lot = ord[o].lot /\ ord'[o].side = ord[o].side
             /\ Sale(o, l)' <=> Sale(o, l)
  BY <1>1, LawfulStep DEF Lawful, Sale
<1>2. ASSUME AllAlone(l)', NEW o \in Orders, ord[o].st # "none", ord[o].lot = l PROVE Alone(o)
  <2>1. Alone(o)'
    BY <1>1, <1>2 DEF AllAlone
  <2> QED BY <1>2, <2>1, TwinStep
<1> QED BY <1>1, <1>2 DEF AllAlone

\* A rejected order without a twin is not adopted: its request was not accepted, or
\* another order would carry its number.
LEMMA RejectedStays ==
  ASSUME IInv, LInv, NEW o \in Orders, Alone(o), ord[o].st = "REJECTED", ResolverApply,
         o \in res.unknowns
  PROVE  ~Adopts(o)
<1> SUFFICES ASSUME Adopts(o) PROVE FALSE
  OBVIOUS
<1>1. PICK p \in res.recs : Sig(p) = Sig(o)
  BY DEF Adopts, Found
<1>2. res.at = "fetched" /\ p \in Orders
  <2>1. res.recs \in SUBSET Orders
    BY DEF IInv, TypeOK
  <2>2. res.at = "fetched"
    BY Zenon DEF ResolverApply
  <2> QED BY <2>1, <2>2
<1>3. Accepted(p) /\ ord[p].st # "none" /\ ord[p].day = today /\ ord[o].day = today
  BY <1>1, <1>2 DEF IInv, ResOK
<1>4. p = o
  BY <1>1, <1>2, <1>3 DEF Alone, Twins
<1>5. ~Claimed(o)
  <2> SUFFICES ASSUME NEW w \in Orders, ord[w].day = ord[o].day, ord[w].no = brk[o].no PROVE FALSE
    BY DEF Claimed
  <2>1. Twins(o, w)
    BY <1>3, <1>4, CarrierIsTwin
  <2>2. ord[o].no = 0 /\ brk[o].no # 0
    BY <1>3, <1>4 DEF IInv, RowsOK, RowOK, Accepted
  <2> QED BY <2>1, <2>2 DEF Alone
<1>6. Awaiting(o)
  BY <1>3, <1>4, <1>5 DEF IInv, RowsOK, RowOK, Accepted, Awaiting
<1>7. TwinsOfLot(o)
  BY DEF Alone, TwinsOfLot
<1> QED BY <1>6, <1>7 DEF LInv, AwaitingOK

\* Without a fill, no more than before may be recorded of an order without a twin.
LEMMA RecordableFalls ==
  ASSUME OrderAssumption, ~ListingLag, IInv, LInv, [Next]_vars, NEW o \in Orders,
         ord[o].st # "none", Alone(o)', ord'[o].filled = ord[o].filled
  PROVE  Recordable(o)' <= Recordable(o)
<1>0. /\ Alone(o) /\ Lawful(o) /\ RowOK(o) /\ RowOK(o)' /\ BrkMoves(o) /\ StMoves(o)
      /\ ord[o].day \in Nat /\ today \in Nat
  BY TwinStep, LawfulStep, BrkRow, StRow DEF RowsOK, LInv
<1>1. /\ ord[o].filled \in Nat /\ brk[o].exec \in Nat /\ ord[o].qty \in Nat
      /\ ord[o].filled <= brk[o].exec /\ Recordable(o) \in Nat
  BY <1>0, Quantities
<1>2. /\ ord'[o].qty = ord[o].qty /\ brk'[o].exec \in Nat
      /\ brk[o].exec <= brk'[o].exec /\ brk'[o].exec <= ord[o].qty
      /\ brk'[o].exec # brk[o].exec => brk[o].at = "live"
  <2>1. brk'[o].exec \in Shares
    BY LawfulStep DEF TypeOK, BrkRows
  <2>2. brk'[o].exec \in Nat
    BY <2>1 DEF Shares
  <2> QED BY <1>0, <1>1, <2>2 DEF Lawful, RowOK
<1> DEFINE Done == {"none", "FILLED", "EXPIRED", "REJECTED"}
<1>3. CASE ord'[o].st \in Done
  <2>1. Recordable(o)' = 0
    BY <1>3 DEF Recordable
  <2> QED BY <1>1, <2>1
<1>4. ASSUME ord'[o].st \notin Done, brk'[o].at \notin {"flight", "live"}, brk'[o].exec <= ord[o].filled
      PROVE  Recordable(o)' = 0
  <2>1. Recordable(o)' = brk'[o].exec - ord[o].filled
    BY <1>4 DEF Recordable
  <2> QED BY <1>1, <1>2, <1>4, <2>1
<1>5. CASE ord'[o].st \notin Done /\ ord[o].st \notin Done
  <2>1. Recordable(o) = IF brk[o].at \in {"flight", "live"} THEN ord[o].qty - ord[o].filled
                        ELSE brk[o].exec - ord[o].filled
    BY <1>5 DEF Recordable
  <2>2. Recordable(o)' = IF brk'[o].at \in {"flight", "live"} THEN ord[o].qty - ord[o].filled
                         ELSE brk'[o].exec - ord[o].filled
    BY <1>2, <1>5 DEF Recordable
  <2>3. brk'[o].at \in {"flight", "live"} => brk[o].at \in {"flight", "live"}
    BY <1>0 DEF BrkMoves
  <2>4. brk[o].at \notin {"flight", "live"} => brk'[o].exec = brk[o].exec
    BY <1>2
  <2>5. brk'[o].exec - ord[o].filled <= ord[o].qty - ord[o].filled
    BY <1>1, <1>2
  <2>6. \A a \in Nat : a - ord[o].filled <= a - ord[o].filled
    BY <1>1
  <2> QED BY <1>1, <1>2, <2>1, <2>2, <2>3, <2>4, <2>5, <2>6
<1>6. CASE ord'[o].st \notin Done /\ ord[o].st = "FILLED"
  <2>1. ord[o].filled = ord[o].qty /\ brk'[o].exec = ord[o].qty
    BY <1>0, <1>1, <1>2, <1>6 DEF RowOK
  <2>2. Recordable(o)' = ord[o].qty - ord[o].qty
    BY <1>2, <1>6, <2>1 DEF Recordable
  <2> QED BY <1>1, <2>2
<1>7. ASSUME brk[o].at = "refused" PROVE brk'[o].at \notin {"flight", "live"} /\ brk'[o].exec <= ord[o].filled
  <2>1. brk[o].exec = 0 /\ brk'[o].exec = brk[o].exec
    BY <1>0, <1>1, <1>2, <1>7 DEF RowOK
  <2>2. brk'[o].at \notin {"flight", "live"}
    BY <1>0, <1>7 DEF BrkMoves
  <2> QED BY <1>1, <2>1, <2>2
<1>8. CASE ord'[o].st \notin Done /\ ord[o].st = "EXPIRED"
  <2>1. brk[o].at \notin {"flight", "live"}
    BY <1>0, <1>8 DEF RowOK
  <2>2. brk'[o].at \notin {"flight", "live"} /\ brk'[o].exec = brk[o].exec
    BY <1>0, <1>2, <2>1 DEF BrkMoves
  <2>3. CASE ord[o].no # 0
    <3>1. ord[o].filled = brk[o].exec
      BY <1>0, <1>8, <2>3 DEF IInv, ExpiredIsComplete
    <3>2. Recordable(o)' = 0
      BY <1>1, <1>4, <1>8, <2>2, <3>1
    <3> QED BY <1>1, <3>2
  <2>4. CASE ord[o].no = 0
    <3>1. brk[o].at = "refused"
      BY <1>0, <1>8, <2>4 DEF StMoves, Adopts, Presumes, Stale, Open
    <3>2. Recordable(o)' = 0
      BY <1>4, <1>7, <1>8, <3>1
    <3> QED BY <1>1, <3>2
  <2> QED BY <2>3, <2>4
<1>9. CASE ord'[o].st \notin Done /\ ord[o].st = "REJECTED"
  <2>1. ord[o].no = 0
    BY <1>0, <1>9 DEF RowOK
  <2>2. ResolverApply /\ o \in res.unknowns => ~Adopts(o)
    BY <1>0, <1>9, RejectedStays
  <2>3. brk[o].at = "refused"
    BY <1>0, <1>9, <2>1, <2>2 DEF StMoves, Presumes, Stale, Open
  <2>4. Recordable(o)' = 0
    BY <1>4, <1>7, <1>9, <2>3
  <2> QED BY <1>1, <2>4
<1> QED BY <1>3, <1>5, <1>6, <1>8, <1>9

-----------------------------------------------------------------------------
(* A fill.                                                                 *)

\* A fill brings no more than may still be recorded, and leaves the less to record.
LEMMA FillWithin ==
  ASSUME IInv, NEW e \in ExecRec, NEW d, RealOn(e, d), NEW o \in Orders, Alone(o), Takes(o, e, d),
         NEW n, n = e.qty - ord[o].filled
  PROVE  /\ n \in Nat \ {0} /\ ord[o].filled + n = e.qty /\ n <= Recordable(o)
         /\ ord'[o].filled = e.qty /\ ord'[o].st = FilledTo(o, e.qty) /\ ord'[o].qty = ord[o].qty
            /\ brk' = brk
            => Recordable(o)' <= Recordable(o) - n
<1>1. /\ e.qty <= brk[o].exec /\ e.qty > ord[o].filled /\ ord[o].no = e.no /\ e.no # 0
  BY OwnExecution DEF Takes, Named, RealOn
<1>2. /\ ord[o].filled \in Nat /\ brk[o].exec \in Nat /\ ord[o].qty \in Nat
      /\ ord[o].filled <= brk[o].exec /\ brk[o].exec <= ord[o].qty
      /\ Recordable(o) \in Nat
  BY Quantities
<1>3. e.qty \in Nat
  BY DEF ExecRec, Shares
<1>4. n \in Nat \ {0} /\ ord[o].filled + n = e.qty
  BY <1>1, <1>2, <1>3
<1>5. RowOK(o)
  BY DEF IInv, RowsOK
<1>6. ord[o].st \notin {"none", "FILLED", "EXPIRED", "REJECTED"}
  <2>1. ord[o].st \notin {"none", "REJECTED"}
    BY <1>1, <1>5 DEF RowOK
  <2>2. ord[o].st # "FILLED"
    BY <1>1, <1>2, <1>3, <1>5 DEF RowOK
  <2>3. ord[o].st # "EXPIRED"
    <3>1. ord[o].filled # brk[o].exec
      BY <1>1, <1>2, <1>3
    <3> QED BY <1>1, <3>1 DEF IInv, ExpiredIsComplete
  <2> QED BY <2>1, <2>2, <2>3
<1> DEFINE top == IF brk[o].at \in {"flight", "live"} THEN ord[o].qty ELSE brk[o].exec
<1>7. Recordable(o) = top - ord[o].filled
  BY <1>6 DEF Recordable
<1>8. top \in Nat /\ e.qty <= top
  BY <1>1, <1>2, <1>3
<1>9. ASSUME ord'[o].filled = e.qty, ord'[o].st = FilledTo(o, e.qty), ord'[o].qty = ord[o].qty, brk' = brk
      PROVE  Recordable(o)' = 0 \/ Recordable(o)' = top - e.qty
  BY <1>9 DEF Recordable
<1> HIDE DEF top
<1>10. n <= Recordable(o) /\ Recordable(o) - n = top - e.qty /\ 0 <= top - e.qty
  BY <1>2, <1>3, <1>4, <1>7, <1>8
<1>11. top - e.qty \in Int
  BY <1>3, <1>8
<1> QED BY <1>4, <1>9, <1>10, <1>11
\* What is recorded of each order of a lot and side.
Amount(l, s) == [o \in Orders |-> IF ord[o].lot = l /\ ord[o].side = s THEN ord[o].filled ELSE 0]

\* A step that changes no amount changes no sum; one that adds to an order adds as much.
LEMMA RecordedSums ==
  ASSUME OrderAssumption, TypeOK, NEW l, NEW s
  PROVE  /\ Recorded(l, s) \in Nat
         /\ Amount(l, s)' = Amount(l, s) => Recorded(l, s)' = Recorded(l, s)
         /\ \A o \in Orders, n \in Nat : Amount(l, s)' = [Amount(l, s) EXCEPT ![o] = @ + n]
                                          => Recorded(l, s)' = Recorded(l, s) + n
<1>1. IsFiniteSet(Orders)
  BY FS_Interval DEF Orders, OrderAssumption
<1>2. /\ Recorded(l, s) = SumFunctionOnSet(Amount(l, s), Orders)
      /\ Recorded(l, s)' = SumFunctionOnSet(Amount(l, s)', Orders)
  BY Zenon DEF Recorded, Amount
<1> DEFINE f == Amount(l, s)
<1>3. f \in [Orders -> Nat]
  BY Fields DEF Amount, Shares
<1> HIDE DEF f
<1>4. SumFunctionOnSet(f, Orders) \in Nat
  BY <1>1, <1>3, SumIsNat
<1>5. ASSUME NEW o \in Orders, NEW n \in Nat
      PROVE  SumFunctionOnSet([f EXCEPT ![o] = @ + n], Orders) = SumFunctionOnSet(f, Orders) + n
  <2> DEFINE g == [f EXCEPT ![o] = @ + n]
  <2>1. g[o] = f[o] + n /\ f[o] \in Nat /\ \A x \in Orders \ {o} : g[x] = f[x]
    BY <1>3
  <2>2. \A x \in Orders : f[x] \in Int /\ g[x] \in Int
    BY <1>3
  <2> HIDE DEF g
  <2>3. SumFunctionOnSet(g, Orders) = SumFunctionOnSet(f, Orders) + (g[o] - f[o])
    BY <1>1, <2>1, <2>2, SumChange
  <2>4. g[o] - f[o] = n
    BY <2>1
  <2> QED BY <2>3, <2>4 DEF g
<1> QED BY <1>2, <1>4, <1>5, Zenon DEF f

\* A fill keeps the sum and the bound on the sales: it takes no more than the lot holds.
LEMMA FillKeeps ==
  ASSUME OrderAssumption, IInv, PInv, [Next]_vars, NEW e \in ExecRec, NEW d, RealOn(e, d),
         NEW o \in Orders, Takes(o, e, d), HandleFill(o, e.qty - ord[o].filled), brk' = brk,
         NEW l \in Lots, AllAlone(l)'
  PROVE  SaleOK(l)' /\ SumOK(l)'
<1>0. /\ TypeOK /\ AllAlone(l) /\ SaleOK(l) /\ SumOK(l) /\ ord[o] \in Rows
      /\ ord[o].no # 0 /\ ord[o].st # "none"
  <2>1. ord[o].no # 0 /\ RowOK(o)
    BY DEF Takes, Named, RealOn, IInv, RowsOK
  <2>2. AllAlone(l)
    BY AloneBefore
  <2> QED BY <2>1, <2>2, Fields DEF IInv, PInv, RowOK
<1>1. PICK n : n = e.qty - ord[o].filled
  OBVIOUS
<1>2. ord[o].filled \in Nat /\ e.qty \in Nat /\ n \in Nat \ {0} /\ ord[o].filled + n = e.qty
  BY <1>0, <1>1, Fields DEF Takes, ExecRec, Shares
<1>3. /\ ord'[o].filled = e.qty /\ ord'[o].st = FilledTo(o, e.qty)
      /\ ord'[o].lot = ord[o].lot /\ ord'[o].side = ord[o].side /\ ord'[o].qty = ord[o].qty
      /\ \A p \in Orders : p # o => ord'[p] = ord[p]
  BY <1>0, <1>1, <1>2 DEF HandleFill, TypeOK, Rows
<1>4. pos' = [pos EXCEPT ![ord[o].lot] = Projected(o, n)]
  BY <1>1 DEF HandleFill
<1>5. ASSUME NEW s PROVE Amount(l, s)' = IF ord[o].lot = l /\ ord[o].side = s
                                         THEN [Amount(l, s) EXCEPT ![o] = @ + n] ELSE Amount(l, s)
  <2>1. \A p \in Orders : p # o => Amount(l, s)'[p] = Amount(l, s)[p]
    BY <1>3 DEF Amount
  <2>2. Amount(l, s)'[o] = IF ord[o].lot = l /\ ord[o].side = s THEN Amount(l, s)[o] + n
                           ELSE Amount(l, s)[o]
    BY <1>2, <1>3 DEF Amount
  <2> QED BY <2>1, <2>2 DEF Amount
<1>6. ASSUME NEW p \in Orders, p # o PROVE Recordable(p)' = Recordable(p) /\ (Sale(p, l)' <=> Sale(p, l))
  BY <1>3, <1>6 DEF Recordable, Sale
<1>7. CASE ord[o].lot # l
  <2>1. pos'[l] = pos[l]
    BY <1>4, <1>7 DEF TypeOK
  <2>2. \A s : Recorded(l, s)' = Recorded(l, s)
    BY <1>0, <1>5, <1>7, RecordedSums
  <2>3. ~Sale(o, l)'
    BY <1>3, <1>7 DEF Sale
  <2> QED BY <1>0, <1>6, <2>1, <2>2, <2>3 DEF SaleOK, SumOK
<1>8. CASE ord[o].lot = l
  <2>1. Alone(o) /\ n <= Recordable(o) /\ Recordable(o) \in Nat
    BY <1>0, <1>1, <1>8, FillWithin, Quantities DEF AllAlone
  <2>2. Recordable(o)' <= Recordable(o) - n
    BY <1>1, <1>3, <2>1, FillWithin
  <2>3. pos[l] \in [qty : Nat, st : {"WATCHING", "HOLDING", "CLOSED"}] /\ pos'[l] = Projected(o, n)
    BY <1>0, <1>4, <1>8 DEF TypeOK
  <2>4. /\ Recorded(l, "BUY") \in Nat /\ Recorded(l, "SELL") \in Nat /\ pos[l].qty \in Nat
        /\ pos[l].qty + Recorded(l, "SELL") = Recorded(l, "BUY")
    BY <1>0, <2>3, RecordedSums DEF SumOK
  <2>5. \A p \in Orders : Sale(p, l) => Recordable(p) \in Nat
    BY <1>0, Quantities DEF AllAlone, Sale
  <2>6. CASE ord[o].side = "BUY"
    <3>1. pos'[l].qty = pos[l].qty + n
      BY <1>8, <2>3, <2>6 DEF Projected
    <3>2. Recorded(l, "BUY")' = Recorded(l, "BUY") + n /\ Recorded(l, "SELL")' = Recorded(l, "SELL")
      BY <1>0, <1>2, <1>5, <1>8, <2>6, RecordedSums
    <3>3. SumOK(l)'
      BY <1>2, <2>4, <3>1, <3>2 DEF SumOK
    <3>4. ~Sale(o, l)'
      BY <1>3, <2>6 DEF Sale
    <3>5. SaleOK(l)'
      BY <1>0, <1>2, <1>6, <2>4, <2>5, <3>1, <3>4 DEF SaleOK
    <3> QED BY <3>3, <3>5
  <2>7. CASE ord[o].side # "BUY"
    <3>0. ord[o].side = "SELL" /\ Sale(o, l)
      BY <1>0, <1>8, <2>7, Fields DEF Sides, Sale
    <3>1. Recordable(o) <= pos[l].qty
      BY <1>0, <3>0 DEF SaleOK
    <3>2. n <= pos[l].qty
      BY <1>2, <2>1, <2>4, <3>1
    <3>3. pos'[l].qty = pos[l].qty - n
      BY <1>2, <1>8, <2>3, <2>4, <2>7, <3>2 DEF Projected
    <3>4. Recorded(l, "SELL")' = Recorded(l, "SELL") + n /\ Recorded(l, "BUY")' = Recorded(l, "BUY")
      BY <1>0, <1>2, <1>5, <1>8, <3>0, RecordedSums
    <3>5. SumOK(l)'
      BY <1>2, <2>4, <3>3, <3>4 DEF SumOK
    <3>6. ASSUME NEW p \in Orders \ {o}, Sale(p, l)' PROVE Recordable(p)' = 0
      <4>1. Recordable(o) # 0
        BY <1>2, <2>1
      <4>2. Sale(p, l) /\ Recordable(p)' = Recordable(p)
        BY <1>6, <3>6
      <4> QED BY <1>0, <3>0, <4>1, <4>2 DEF SaleOK
    <3>7. Recordable(o)' <= pos'[l].qty /\ 0 <= pos'[l].qty
      <4>1. pos[l].qty \in Nat /\ n \in Nat /\ Recordable(o) \in Nat
        BY <1>2, <2>1, <2>4
      <4>2. Recordable(o) - n <= pos[l].qty - n /\ 0 <= pos[l].qty - n
        BY <3>1, <3>2, <4>1
      <4>3. ord'[o].qty \in Nat /\ ord'[o].filled \in Nat /\ brk[o].exec \in Nat
        BY <1>0, <1>2, <1>3, Fields DEF Shares
      <4>4. Recordable(o)' \in Int
        BY <4>3 DEF Recordable
      <4> QED BY <2>2, <3>3, <4>1, <4>2, <4>4
    <3>8. SaleOK(l)'
      BY <3>6, <3>7 DEF SaleOK
    <3> QED BY <3>5, <3>8
  <2> QED BY <2>6, <2>7
<1> QED BY <1>7, <1>8

-----------------------------------------------------------------------------
(* The other steps.                                                        *)

\* A step without a fill keeps the sum.
LEMMA NoFillKeepsSum ==
  ASSUME OrderAssumption, IInv, [Next]_vars, pos' = pos, NEW l \in Lots, SumOK(l),
         \A o \in Orders : ord'[o].filled = ord[o].filled
  PROVE  SumOK(l)'
<1>1. ASSUME NEW s PROVE Amount(l, s)' = Amount(l, s)
  <2>1. ASSUME NEW o \in Orders PROVE Amount(l, s)'[o] = Amount(l, s)[o]
    <3>1. CASE ord[o].st = "none"
      BY <3>1 DEF Amount, IInv, RowsOK, RowOK
    <3>2. CASE ord[o].st # "none"
      BY <3>2, LawfulStep DEF Lawful, Amount
    <3> QED BY <3>1, <3>2
  <2> QED BY <2>1 DEF Amount
<1>2. \A s : Recorded(l, s)' = Recorded(l, s)
  BY <1>1, RecordedSums DEF IInv
<1> QED BY <1>2 DEF SumOK

\* ... and the bound on the sales that were there.
LEMMA NoFillKeepsSales ==
  ASSUME OrderAssumption, ~ListingLag, IInv, LInv, [Next]_vars, pos' = pos, NEW l \in Lots,
         AllAlone(l)', SaleOK(l), \A o \in Orders : ord'[o].filled = ord[o].filled
  PROVE  \A o \in Orders : ord[o].st # "none" /\ Sale(o, l)' =>
           /\ Recordable(o)' <= pos'[l].qty
           /\ \A p \in Orders \ {o} : ord[p].st # "none" /\ Sale(p, l)'
                                        => Recordable(o)' = 0 \/ Recordable(p)' = 0
<1>1. ASSUME NEW o \in Orders, ord[o].st # "none", Sale(o, l)'
      PROVE  /\ Sale(o, l) /\ Recordable(o)' \in Nat /\ Recordable(o) \in Nat
             /\ Recordable(o)' <= Recordable(o)
  <2>1. Sale(o, l) /\ AllAlone(l)
    BY <1>1, AloneBefore
  <2>2. Alone(o)' /\ Alone(o)
    BY <1>1, <2>1 DEF AllAlone, Sale
  <2>3. Recordable(o)' <= Recordable(o) /\ Recordable(o) \in Nat
    BY <1>1, <2>2, RecordableFalls, Quantities
  <2>4. IInv'
    BY StepInv
  <2>5. /\ ord'[o].filled \in Nat /\ brk'[o].exec \in Nat /\ ord'[o].qty \in Nat
        /\ ord'[o].filled <= brk'[o].exec /\ brk'[o].exec <= ord'[o].qty
    <3>1. ord'[o] \in Rows /\ brk'[o] \in BrkRows /\ RowOK(o)'
      BY <2>4 DEF IInv, TypeOK, RowsOK
    <3>2. ord'[o].filled <= brk'[o].exec
      BY <2>2, <2>4 DEF IInv, FillsAreReal
    <3> QED BY <3>1, <3>2 DEF Rows, BrkRows, Shares, RowOK
  <2>6. ord'[o].qty - ord'[o].filled \in Nat /\ brk'[o].exec - ord'[o].filled \in Nat
    BY <2>5
  <2>7. Recordable(o)' \in Nat
    BY <2>6 DEF Recordable
  <2> QED BY <2>1, <2>3, <2>7
<1>2. pos[l].qty \in Nat
  BY DEF IInv, TypeOK
<1>3. ASSUME NEW o \in Orders, ord[o].st # "none", Sale(o, l)'
      PROVE  Recordable(o)' <= pos'[l].qty
  <2>1. Recordable(o) <= pos[l].qty
    BY <1>1, <1>3 DEF SaleOK
  <2> QED BY <1>1, <1>2, <1>3, <2>1
<1>4. ASSUME NEW o \in Orders, ord[o].st # "none", Sale(o, l)',
             NEW p \in Orders \ {o}, ord[p].st # "none", Sale(p, l)'
      PROVE  Recordable(o)' = 0 \/ Recordable(p)' = 0
  <2>1. Recordable(o) = 0 \/ Recordable(p) = 0
    BY <1>1, <1>4 DEF SaleOK
  <2> QED BY <1>1, <1>4, <2>1
<1> QED BY <1>3, <1>4

\* When a new sale is submitted nothing is left to record of the lot's other sales.
LEMMA SalesAreOver ==
  ASSUME OrderAssumption, IInv, LInv, CancelledOK, NEW l \in Lots, NEW q \in 1 .. MaxQty,
         Submit(l, "SELL", q), EarlierRecorded(l), AllAlone(l), NEW o \in Orders, Sale(o, l)
  PROVE  Recordable(o) = 0
<1>1. ord[o].st # "none" /\ ord[o].lot = l /\ ord[o].side = "SELL" /\ Alone(o)
  BY DEF Sale, AllAlone
<1>2. ord[o].st \notin Open /\ SalesRecorded(l)
  BY <1>1 DEF Submit
<1>3. CASE ord[o].st # "CANCELLED"
  <2>1. ord[o].st \in {"FILLED", "EXPIRED", "REJECTED"}
    BY <1>1, <1>2, <1>3, Fields DEF IInv, States, Closed
  <2> QED BY <2>1 DEF Recordable
<1>4. CASE ord[o].st = "CANCELLED"
  <2>1. ord[o].no # 0 /\ RowOK(o) /\ TypeOK
    BY <1>4 DEF CancelledOK, IInv, RowsOK
  <2>2. Accepted(o) /\ brk[o].no = ord[o].no
    BY <1>1, <2>1 DEF IInv, NumberOfTwin, Alone
  <2>3. brk[o].at = "gone"
    <3>1. brk[o].at # "live"
      BY <1>2, <2>2 DEF LInv, CarrierOK
    <3> QED BY <2>1, <2>2, <3>1 DEF RowOK, Accepted
  <2>4. /\ ord[o].filled \in Nat /\ brk[o].exec \in Nat /\ ord[o].filled <= brk[o].exec
        /\ ord[o].day \in Nat /\ today \in Nat
    BY <1>1, <2>1, Quantities, Fields DEF TypeOK
  <2>5. CASE ord[o].day < today
    <3>1. ord[o].filled >= brk[o].exec
      BY <1>4, <2>5 DEF EarlierRecorded
    <3>2. Recordable(o) = brk[o].exec - ord[o].filled
      BY <1>4, <2>3 DEF Recordable
    <3> QED BY <2>4, <3>1, <3>2
  <2>6. CASE ord[o].day = today
    <3> DEFINE e == [no |-> brk[o].no, qty |-> brk[o].exec]
    <3>1. ~(brk[o].exec > ord[o].filled)
      <4> SUFFICES ASSUME brk[o].exec > ord[o].filled PROVE FALSE
        OBVIOUS
      <4>1. brk[o].exec > 0
        BY <2>4
      <4>2. e \in Executions(today)
        BY <2>6, <4>1 DEF Executions
      <4>3. RealOn(e, today)
        BY <2>2, <2>4, <2>6 DEF RealOn, Accepted
      <4>4. o \in Named(e.no, today)
        BY <2>2, <2>6 DEF Named
      <4>5. e.no = brk[o].no /\ e.qty = brk[o].exec
        OBVIOUS
      <4> HIDE DEF e
      <4>6. \A p \in Named(e.no, today) : p = o
        BY <1>1, <4>3, <4>4, OwnExecution
      <4>7. Takes(o, e, today)
        <5>1. \A p \in Named(e.no, today) : p <= o
          BY <4>6 DEF Orders
        <5> QED BY <4>4, <4>5, <5>1 DEF Takes
      <4> QED BY <1>1, <1>2, <1>4, <4>2, <4>7 DEF SalesRecorded
    <3>2. Recordable(o) = brk[o].exec - ord[o].filled
      BY <1>4, <2>3 DEF Recordable
    <3> QED BY <2>4, <3>1, <3>2
  <2> QED BY <2>1, <2>4, <2>5, <2>6, <1>1 DEF RowOK
<1> QED BY <1>3, <1>4
\* A step without a fill and without a new order keeps both.
LEMMA QuietKeeps ==
  ASSUME OrderAssumption, ~ListingLag, IInv, LInv, PInv, [Next]_vars, pos' = pos,
         \A o \in Orders : /\ ord'[o].filled = ord[o].filled
                           /\ ord[o].st = "none" => ord'[o].st = "none",
         NEW l \in Lots, AllAlone(l)'
  PROVE  SaleOK(l)' /\ SumOK(l)'
<1>1. SaleOK(l) /\ SumOK(l)
  BY AloneBefore DEF PInv
<1>2. \A o \in Orders : Sale(o, l)' => ord[o].st # "none"
  BY DEF Sale
<1>3. SumOK(l)'
  BY <1>1, NoFillKeepsSum
<1>4. SaleOK(l)'
  BY <1>1, <1>2, NoFillKeepsSales DEF SaleOK
<1> QED BY <1>3, <1>4

\* A new order keeps both: a new sale is of no more than the lot holds.
LEMMA SubmitKeeps ==
  ASSUME OrderAssumption, ~ListingLag, IInv, LInv, PInv, [Next]_vars,
         NEW k \in Lots, NEW s \in Sides, NEW q \in 1 .. MaxQty, Submit(k, s, q),
         s = "SELL" => EarlierRecorded(k), NEW l \in Lots, AllAlone(l)'
  PROVE  SaleOK(l)' /\ SumOK(l)'
<1>0. /\ AllAlone(l) /\ SaleOK(l) /\ SumOK(l) /\ CancelledOK /\ RowsOK
      /\ ord \in [Orders -> Rows] /\ brk \in [Orders -> BrkRows] /\ pos' = pos /\ pos[l].qty \in Nat
      /\ q \in Nat
  BY AloneBefore DEF PInv, IInv, TypeOK, Submit, OrderAssumption
<1>1. PICK r : r = [NoOrder EXCEPT !.st = "PENDING_NEW", !.day = today,
                                   !.lot = k, !.side = s, !.qty = q]
  OBVIOUS
<1>2. r.st = "PENDING_NEW" /\ r.lot = k /\ r.side = s /\ r.qty = q /\ r.filled = 0
  BY <1>1 DEF NoOrder
<1>3. PICK n \in Orders : /\ ord[n].st = "none" /\ ord' = [ord EXCEPT ![n] = r]
                          /\ brk' = [brk EXCEPT ![n].at = "flight"]
  BY <1>1 DEF Submit
<1>4. /\ ord'[n] = r /\ brk'[n].at = "flight" /\ ord[n].filled = 0
      /\ \A o \in Orders \ {n} : ord'[o] = ord[o] /\ brk'[o] = brk[o]
  BY <1>0, <1>3 DEF BrkRows, RowsOK, RowOK
<1>5. \A o \in Orders : ord'[o].filled = ord[o].filled
  BY <1>2, <1>4
<1>6. SumOK(l)'
  BY <1>0, <1>5, NoFillKeepsSum
<1>7. CASE ~(k = l /\ s = "SELL")
  <2>1. \A o \in Orders : Sale(o, l)' => ord[o].st # "none"
    BY <1>2, <1>4, <1>7 DEF Sale
  <2> QED BY <1>0, <1>5, <1>6, <2>1, NoFillKeepsSales DEF SaleOK
<1>8. CASE k = l /\ s = "SELL"
  <2>1. q <= pos[l].qty /\ Submit(l, "SELL", q) /\ EarlierRecorded(l)
    BY <1>8 DEF Submit
  <2>2. Recordable(n)' <= pos'[l].qty
    <3>1. Recordable(n)' = q - 0
      BY <1>2, <1>4 DEF Recordable
    <3> QED BY <1>0, <2>1, <3>1
  <2>3. ASSUME NEW o \in Orders \ {n}, Sale(o, l)' PROVE Recordable(o)' = 0
    <3>1. Sale(o, l) /\ Recordable(o)' = Recordable(o)
      BY <1>4, <2>3 DEF Sale, Recordable
    <3> QED BY <1>0, <2>1, <3>1, SalesAreOver
  <2>4. SaleOK(l)'
    BY <1>0, <2>2, <2>3 DEF SaleOK
  <2> QED BY <1>6, <2>4
<1> QED BY <1>7, <1>8

\* Every step keeps the sums and what they rest on, if sales wait.
LEMMA PositionStep ==
  ASSUME OrderAssumption, ~ListingLag, IInv, LInv, PInv, [Next]_vars, [SalesWait]_vars
  PROVE  PInv'
<1>0. TypeOK /\ RecsOK /\ CancelledOK'
  BY CancelledOKStep DEF IInv, PInv
<1> SUFFICES ASSUME NEW l \in Lots, AllAlone(l)' PROVE SaleOK(l)' /\ SumOK(l)'
  BY <1>0 DEF PInv
<1>1. CASE UNCHANGED <<ord, pos>>
  BY <1>1, QuietKeeps
<1>2. ASSUME NEW k \in Lots, NEW s \in Sides, NEW q \in 1 .. MaxQty, Submit(k, s, q)
      PROVE  SaleOK(l)' /\ SumOK(l)'
  <2>1. CASE UNCHANGED vars
    BY <1>1, <2>1 DEF vars
  <2>2. CASE SalesWait
    BY <1>2, <2>2, SubmitKeeps DEF SalesWait
  <2> QED BY <2>1, <2>2
<1>3. CASE Answers
  <2>1. pos' = pos
    BY <1>3, ZenonT(60) DEF Answers, AckArrives, RefusalArrives, SubmitTimesOut, RecordCancel,
                            ResolverApply, Start, ExpireStale
  <2>2. ASSUME NEW o \in Orders
        PROVE  ord'[o].filled = ord[o].filled /\ (ord[o].st = "none" => ord'[o].st = "none")
    BY <1>3, AnswersSettle DEF Settles, Kind
  <2> QED BY <2>1, <2>2, QuietKeeps
<1>4. ASSUME NEW e \in ExecRec, NEW d, RealOn(e, d), ApplyExecution(e, d), brk' = brk
      PROVE  SaleOK(l)' /\ SumOK(l)'
  <2>1. CASE UNCHANGED table
    BY <1>1, <2>1
  <2>2. ASSUME NEW o \in Orders, Takes(o, e, d), HandleFill(o, e.qty - ord[o].filled)
        PROVE  SaleOK(l)' /\ SumOK(l)'
    BY <1>4, <2>2, FillKeeps
  <2> QED BY <1>4, <2>1, <2>2 DEF ApplyExecution
<1>5. CASE (\E e \in batch : PollApply(e)) \/ (\E e \in exp.recs : RecoverApply(e))
  BY <1>0, <1>4, <1>5 DEF PollApply, RecoverApply, TypeOK, RecsOK
<1> QED BY <1>1, <1>2, <1>3, <1>5, StepKinds

\* Before the first order there is nothing to sum up.
LEMMA InitSums == ASSUME OrderAssumption, Init PROVE PInv
<1>1. /\ \A o \in Orders : ord[o] = NoOrder /\ ord[o].st = "none" /\ ord[o].filled = 0
      /\ \A l \in Lots : pos[l].qty = 0
  BY DEF Init, NoOrder
<1>2. ASSUME NEW l, NEW s PROVE Recorded(l, s) = 0
  <2> DEFINE f == Amount(l, s)
  <2>1. \A o \in Orders : f[o] \in {0}
    BY <1>1 DEF Amount
  <2>2. IsFiniteSet(Orders)
    BY FS_Interval DEF Orders, OrderAssumption
  <2>3. 0 \in {0} /\ \A a, b \in {0} : a + b \in {0}
    OBVIOUS
  <2>4. Recorded(l, s) = SumFunctionOnSet(f, Orders)
    BY Zenon DEF Recorded, Amount
  <2> HIDE DEF f
  <2>5. SumFunctionOnSet(f, Orders) \in {0}
    BY <2>1, <2>2, <2>3, SumIn
  <2> QED BY <2>4, <2>5
<1> QED BY <1>1, <1>2 DEF PInv, CancelledOK, SaleOK, SumOK, Sale

\* The positions table is the sum of the recorded fills, and no fill of a sale was ever
\* clipped at zero, for every lot whose orders have no twins: if a sale also waits for
\* what the lot's cancelled sales of earlier days still have to record.
THEOREM PositionsAddUp ==
  ASSUME OrderAssumption, ~ListingLag
  PROVE  Spec /\ [][SalesWait]_vars => []PositionIsSumOfFills
<1>1. Init => LInv
  BY InitLocks
<1>2. IInv /\ LInv /\ [Next]_vars => LInv'
  BY LocksStep
<1>3. Init => PInv
  BY InitSums
<1>4. IInv /\ LInv /\ PInv /\ [Next]_vars /\ [SalesWait]_vars => PInv'
  BY PositionStep
<1>5. PInv => PositionIsSumOfFills
  BY DEF PInv, AllAlone, SumOK, PositionIsSumOfFills
<1> QED BY <1>1, <1>2, <1>3, <1>4, <1>5, Invariance, PTL DEF Spec
=============================================================================
