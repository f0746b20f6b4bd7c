------------------------- MODULE Experiment_proofs -------------------------
(***************************************************************************)
(* Proofs about the offline experiment.  The properties of the snapshot    *)
(* rest on an inductive invariant of `fetch`, SnapInv; those of what is    *)
(* scored and judged on one of the predictions, ForeInv, which needs       *)
(* nothing of a snapshot but that no fetch runs beside a prediction.       *)
(*                                                                         *)
(* At, the rows of a file at some places, is a recursive function; what it *)
(* returns is proved with a least counterexample (Least).                  *)
(***************************************************************************)
EXTENDS Experiment, FiniteSetTheorems, WellFoundedInduction, TLAPS

-----------------------------------------------------------------------------
(* Sequences.                                                              *)

\* A set of natural numbers has a least one: induction, without a predicate.
LEMMA Least ==
  ASSUME NEW T, T \subseteq Nat, T # {}
  PROVE  \E n \in T : \A m \in T : n <= m
<1> DEFINE R == {ss \in Nat \X Nat : ss[1] < ss[2]}
<1>1. IsWellFoundedOn(R, Nat)
  BY NatLessThanWellFounded DEF OpToRel
<1>2. \A x, y \in Nat : y < x => <<y, x>> \in R
  OBVIOUS
<1> HIDE DEF R
<1>3. PICK x \in T : \A y \in T : ~(<<y, x>> \in R)
  BY <1>1, WFMin, Zenon
<1>4. ASSUME NEW y \in T
      PROVE  x <= y
  <2>1. x \in Nat /\ y \in Nat
    OBVIOUS
  <2>2. ~(y < x)
    BY <1>2, <1>3, <2>1, Zenon
  <2> QED BY <2>1, <2>2
<1> QED BY <1>3, <1>4

\* The function At is made of: the places seen so far, to the rows kept of them.
Step(rows, keep, f, n) ==
  IF n = 0 THEN <<>> ELSE IF n \in keep THEN Append(f[n - 1], rows[n]) ELSE f[n - 1]

LEMMA AtFunction ==
  ASSUME NEW rows, NEW keep, NEW len \in Nat
  PROVE  \E f : f = [n \in 0 .. len |-> Step(rows, keep, f, n)]
<1> DEFINE Is(f, m) == f = [n \in 0 .. m |-> Step(rows, keep, f, n)]
           T == {m \in Nat : ~ \E f : Is(f, m)}
<1> SUFFICES ASSUME T # {}
             PROVE  FALSE
  BY Zenon
<1>1. PICK m \in T : \A k \in T : m <= k
  <2>1. T \subseteq Nat
    OBVIOUS
  <2> HIDE DEF T
  <2> QED BY <2>1, Least
<1>2. m # 0
  <2>1. Is([n \in 0 .. 0 |-> <<>>], 0)
    BY DEF Step
  <2> QED BY <2>1, <1>1
<1>3. PICK g : Is(g, m - 1)
  <2>1. m - 1 \in Nat /\ m - 1 < m
    BY <1>1, <1>2
  <2>2. m - 1 \notin T
    BY <1>1, <2>1
  <2> QED BY <2>1, <2>2
<1>4. DEFINE h == [n \in 0 .. m |-> IF n = m THEN Step(rows, keep, g, m) ELSE g[n]]
<1>5. ASSUME NEW n \in 0 .. m
      PROVE  h[n] = Step(rows, keep, h, n)
  <2>1. CASE n = m
    <3>1. h[n - 1] = g[n - 1]
      BY <1>2, <2>1
    <3> QED BY <2>1, <3>1 DEF Step
  <2>2. CASE n # m
    <3>1. n \in 0 .. (m - 1) /\ h[n] = g[n]
      BY <2>2
    <3>2. g[n] = Step(rows, keep, g, n)
      BY <1>3, <3>1, Zenon
    <3>3. n # 0 => h[n - 1] = g[n - 1]
      BY <2>2
    <3> QED BY <3>1, <3>2, <3>3 DEF Step
  <2> QED BY <2>1, <2>2
<1>6. h = [n \in 0 .. m |-> h[n]]
  OBVIOUS
<1>7. Is(h, m)
  <2> HIDE DEF h
  <2> QED BY <1>5, <1>6, Zenon
<1> QED BY <1>1, <1>7

\* So At is the last value of it.
LEMMA AtIs ==
  ASSUME NEW rows, NEW keep, Len(rows) \in Nat
  PROVE  \E f : /\ f = [n \in 0 .. Len(rows) |-> Step(rows, keep, f, n)]
                /\ At(rows, keep) = f[Len(rows)]
<1> DEFINE F == CHOOSE f : f = [n \in 0 .. Len(rows) |-> Step(rows, keep, f, n)]
<1>1. F = [n \in 0 .. Len(rows) |-> Step(rows, keep, F, n)]
  BY AtFunction, Zenon
<1>2. At(rows, keep) = F[Len(rows)]
  BY DEF At, Step
<1> QED BY <1>1, <1>2, Zenon

\* The rows At keeps are rows at these places.
LEMMA AtKeeps ==
  ASSUME NEW rows, NEW R, rows \in Seq(R), NEW keep, keep \subseteq DOMAIN rows
  PROVE  At(rows, keep) \in Seq({rows[i] : i \in keep})
<1> DEFINE S == {rows[i] : i \in keep}
<1>1. Len(rows) \in Nat
  OBVIOUS
<1>2. PICK f : /\ f = [n \in 0 .. Len(rows) |-> Step(rows, keep, f, n)]
               /\ At(rows, keep) = f[Len(rows)]
  BY <1>1, AtIs, Zenon
<1> DEFINE T == {n \in 0 .. Len(rows) : f[n] \notin Seq(S)}
<1> SUFFICES ASSUME T # {}
             PROVE  FALSE
  <2>1. Len(rows) \in 0 .. Len(rows)
    BY <1>1
  <2> HIDE DEF S
  <2> QED BY <1>2, <2>1 DEF S
<1> HIDE DEF S
<1>3. PICK n \in T : \A k \in T : n <= k
  <2>1. T \subseteq Nat
    OBVIOUS
  <2> HIDE DEF T
  <2> QED BY <2>1, Least
<1>4. n \in 0 .. Len(rows) /\ f[n] = Step(rows, keep, f, n)
  BY <1>2, <1>3, Zenon
<1>5. CASE n = 0
  <2>1. f[n] = <<>>
    BY <1>4, <1>5 DEF Step
  <2>2. <<>> \in Seq(S)
    OBVIOUS
  <2> QED BY <1>3, <2>1, <2>2, Zenon
<1>6. CASE n # 0
  <2>1. n - 1 \in 0 .. Len(rows) /\ n - 1 < n
    BY <1>4, <1>6
  <2>2. f[n - 1] \in Seq(S)
    BY <1>3, <2>1
  <2>3. n \in keep => rows[n] \in S
    BY DEF S
  <2>4. Step(rows, keep, f, n) \in Seq(S)
    <3> HIDE DEF T
    <3>1. CASE n \in keep
      <4>1. Append(f[n - 1], rows[n]) \in Seq(S)
        BY <2>2, <2>3, <3>1
      <4> QED BY <1>6, <3>1, <4>1, Zenon DEF Step
    <3>2. CASE n \notin keep
      BY <1>6, <2>2, <3>2, Zenon DEF Step
    <3> QED BY <3>1, <3>2
  <2> QED BY <1>3, <1>4, <2>4, Zenon
<1> QED BY <1>5, <1>6

\* All of them kept, they are as they were.
LEMMA AtAll ==
  ASSUME NEW rows, NEW R, rows \in Seq(R)
  PROVE  At(rows, DOMAIN rows) = rows
<1>1. Len(rows) \in Nat
  OBVIOUS
<1>2. PICK f : /\ f = [n \in 0 .. Len(rows) |-> Step(rows, DOMAIN rows, f, n)]
               /\ At(rows, DOMAIN rows) = f[Len(rows)]
  BY <1>1, AtIs, Zenon
<1> DEFINE T == {n \in 0 .. Len(rows) : f[n] # SubSeq(rows, 1, n)}
<1>3. SubSeq(rows, 1, Len(rows)) = rows
  OBVIOUS
<1> SUFFICES ASSUME T # {}
             PROVE  FALSE
  <2>1. Len(rows) \in 0 .. Len(rows)
    BY <1>1
  <2>2. T = {} => f[Len(rows)] = SubSeq(rows, 1, Len(rows))
    BY <2>1, Zenon
  <2> QED BY <1>2, <1>3, <2>2, Zenon
<1>4. PICK n \in T : \A k \in T : n <= k
  <2>1. T \subseteq Nat
    OBVIOUS
  <2> HIDE DEF T
  <2> QED BY <2>1, Least
<1>5. n \in 0 .. Len(rows) /\ f[n] = Step(rows, DOMAIN rows, f, n)
  BY <1>2, <1>4, Zenon
<1>6. CASE n = 0
  <2>1. SubSeq(rows, 1, 0) = <<>>
    OBVIOUS
  <2> QED BY <1>4, <1>5, <1>6, <2>1 DEF Step
<1>7. CASE n # 0
  <2>1. n - 1 \in 0 .. Len(rows) /\ n - 1 < n /\ n \in DOMAIN rows
    BY <1>5, <1>7
  <2>2. f[n - 1] = SubSeq(rows, 1, n - 1)
    BY <1>4, <2>1
  <2>3. Append(SubSeq(rows, 1, n - 1), rows[n]) = SubSeq(rows, 1, n)
    BY <2>1
  <2> QED BY <1>4, <1>5, <1>7, <2>1, <2>2, <2>3 DEF Step
<1> QED BY <1>6, <1>7

\* A finite set as a sequence: every element, once.
LEMMA Listing ==
  ASSUME NEW S, IsFiniteSet(S)
  PROVE  /\ Cardinality(S) \in Nat /\ SetToSeq(S) \in [1 .. Cardinality(S) -> S]
         /\ IsInjective(SetToSeq(S)) /\ Range(SetToSeq(S)) = S
<1>1. Cardinality(S) \in Nat
  BY FS_CardinalityType
<1>2. PICK f : f \in Bijection(1 .. Cardinality(S), S)
  BY <1>1, FS_NatBijection, FS_CardinalityType DEF ExistsBijection
<1>3. f \in [1 .. Cardinality(S) -> S] /\ IsInjective(f)
  BY <1>2 DEF Bijection, Injection
<1> DEFINE g == SetToSeq(S)
<1>4. g \in [1 .. Cardinality(S) -> S] /\ IsInjective(g)
  BY <1>3, Zenon DEF SetToSeq
<1> HIDE DEF g
<1>5. Range(g) \subseteq S
  BY <1>4 DEF Range
<1>6. Cardinality(Range(g)) = Cardinality(S)
  <2>1. g \in Bijection(1 .. Cardinality(S), Range(g))
    BY <1>4 DEF Bijection, Injection, Surjection, Range
  <2>2. IsFiniteSet(1 .. Cardinality(S)) /\ Cardinality(1 .. Cardinality(S)) = Cardinality(S)
    BY <1>1, FS_Interval
  <2> QED BY <2>1, <2>2, FS_Bijection DEF ExistsBijection
<1>7. Range(g) = S
  BY <1>5, <1>6, FS_Subset
<1> QED BY <1>1, <1>4, <1>7 DEF g

-----------------------------------------------------------------------------
(* The snapshot: the inductive invariant.                                  *)

\* The variables of `fetch` have their types.
SnapTypeOK ==
  /\ disk \in [complete : BOOLEAN, scope : SUBSET Options, top : Companies \cup {NoCode},
               former : SUBSET Companies, listed : BOOLEAN, gone : SUBSET Companies,
               kept : SUBSET Companies, once : SUBSET Companies, missing : SUBSET Companies,
               stale : BOOLEAN]
  /\ bars \in [Codes -> [run : Nat, parts : SUBSET Parts]]
  /\ fetch \in [at : {"idle", "list", "bars", "save", "finish"}, args : SUBSET Options,
                prior : SUBSET Companies, mandatory : SUBSET Companies, todo : Seq(Codes),
                failed : SUBSET Codes, got : SUBSET Parts]
  /\ past \in [runs : Nat, fails : [Codes -> 0 .. 2], used : SUBSET Companies]

Asked     == "delisted" \in fetch.args
Anew      == "refresh" \in fetch.args
Queue     == Range(fetch.todo)
Loading   == fetch.at \in {"bars", "save"}
Distinct(s) == \A i, j \in DOMAIN s : s[i] = s[j] => i = j

\* A running fetch: what it says on disk of itself, what it protects, what it has to do.
FetchShape ==
  /\ disk.top \notin disk.gone /\ disk.kept \subseteq disk.gone /\ disk.missing \subseteq disk.gone
  /\ fetch.at # "idle" => /\ ~disk.complete /\ disk.scope = fetch.args \ {"refresh"}
                          /\ fetch.prior = disk.kept /\ ("universe" \in fetch.args => Anew)
  /\ fetch.at = "list" =>
       /\ fetch.failed = {}
       /\ fetch.mandatory = {c \in ({disk.top} \cup disk.former) \ {NoCode} : Has(c)}
  /\ fetch.at \in {"bars", "save", "finish"} => disk.top # NoCode
  /\ fetch.at = "save" => fetch.todo # <<>> /\ fetch.got # {} /\ (Anew \/ ~Has(Code))
  /\ Loading => /\ Distinct(fetch.todo) /\ fetch.failed \cap Queue = {}
                /\ Asked \/ Queue \subseteq {Index, disk.top}

\* The index and the first company are of one run whenever no fetch is under way or was
\* broken off: a fetch that keeps any bars found them so, one that is told to fetch anew
\* has to do each of the two, has failed to, or has it of this run.
Same     == Has(Index) /\ Has(disk.top) /\ bars[Index].run = bars[disk.top].run
Clean    == IF disk.top = NoCode THEN \A c \in Codes : ~Has(c) ELSE Same
Fresh(c) == Has(c) /\ bars[c].run = past.runs
WholeRun ==
  /\ disk.complete => Clean
  /\ fetch.at = "list" => Anew \/ Clean
  /\ Loading => \/ Same /\ ~Anew
                \/ \A c \in {Index, disk.top} :
                     (c \in Queue /\ (Anew \/ ~Has(c))) \/ c \in fetch.failed \/ Fresh(c)
  /\ fetch.at = "finish" => \/ Same /\ ~Anew
                            \/ \A c \in {Index, disk.top} : c \in fetch.failed \/ Fresh(c)

\* What was once used has bars and is not missing, and is one of those a fetch protects:
\* kept of an earlier snapshot, or first in the ranking, now or before.
UsedKept ==
  /\ \A c \in past.used : /\ Has(c) /\ c \notin disk.missing
                          /\ c \in disk.kept \cup {disk.top} \cup disk.former
  /\ past.used \cap disk.gone \subseteq disk.kept
  /\ fetch.at = "finish" /\ Asked => disk.missing = {c \in disk.gone : ~Has(c)}

\* The mark of a first failure is one; with a failure of this run it is the second; and
\* a delisted company that is missing has failed in every run that asked for it.
FailsCounted ==
  /\ \A c \in disk.once : past.fails[c] >= 1
  /\ fetch.at \in {"bars", "save", "finish"} =>
       \A c \in fetch.failed \cap disk.gone :
          past.fails[c] >= 1 /\ (c \in disk.once => past.fails[c] >= 2)
  /\ Loading /\ Asked => \A c \in disk.gone : c \in Queue \/ Has(c) \/ c \in fetch.failed
  /\ fetch.at = "finish" /\ Asked => disk.missing \subseteq fetch.failed
  /\ disk.complete \/ "delisted" \notin disk.scope => \A c \in disk.missing : past.fails[c] >= 2

SnapInv == SnapTypeOK /\ FetchShape /\ WholeRun /\ UsedKept /\ FailsCounted

-----------------------------------------------------------------------------
(* The queue of a fetch.                                                   *)

USE SnapshotAssumption DEF Codes, Options, Parts

LEMMA QueueHead ==
  ASSUME NEW s, s \in Seq(Codes), s # <<>>
  PROVE  /\ Head(s) \in Codes /\ Tail(s) \in Seq(Codes) /\ Head(s) \in Range(s)
         /\ Range(s) = {Head(s)} \cup Range(Tail(s))
         /\ Distinct(s) => Distinct(Tail(s)) /\ Head(s) \notin Range(Tail(s))
<1>1. /\ Len(s) \in Nat \ {0} /\ DOMAIN s = 1 .. Len(s) /\ Head(s) = s[1] /\ Tail(s) \in Seq(Codes)
      /\ Len(Tail(s)) = Len(s) - 1 /\ DOMAIN Tail(s) = 1 .. (Len(s) - 1)
      /\ \A i \in 1 .. (Len(s) - 1) : Tail(s)[i] = s[i + 1]
  OBVIOUS
<1>2. Head(s) \in Codes /\ Head(s) \in Range(s)
  BY <1>1 DEF Range
<1>3. Range(s) \subseteq {Head(s)} \cup Range(Tail(s))
  <2> SUFFICES ASSUME NEW i \in 1 .. Len(s)
               PROVE  s[i] \in {Head(s)} \cup Range(Tail(s))
    BY <1>1 DEF Range
  <2>1. CASE i = 1
    BY <1>1, <2>1
  <2>2. CASE i # 1
    <3>1. i - 1 \in 1 .. (Len(s) - 1) /\ (i - 1) + 1 = i
      BY <1>1, <2>2
    <3>2. s[i] = Tail(s)[i - 1]
      BY <1>1, <3>1
    <3> QED BY <1>1, <3>1, <3>2, Zenon DEF Range
  <2> QED BY <2>1, <2>2
<1>4. \A i \in 1 .. (Len(s) - 1) : i + 1 \in 1 .. Len(s) /\ Tail(s)[i] = s[i + 1]
  BY <1>1
<1>5. Range(Tail(s)) \subseteq Range(s)
  BY <1>1, <1>4 DEF Range
<1>6. ASSUME Distinct(s)
      PROVE  Distinct(Tail(s)) /\ Head(s) \notin Range(Tail(s))
  <2>1. \A i, j \in 1 .. (Len(s) - 1) : Tail(s)[i] = Tail(s)[j] => i = j
    <3> TAKE i, j \in 1 .. (Len(s) - 1)
    <3>1. i + 1 \in DOMAIN s /\ j + 1 \in DOMAIN s /\ Tail(s)[i] = s[i + 1] /\ Tail(s)[j] = s[j + 1]
      BY <1>1, <1>4
    <3>2. s[i + 1] = s[j + 1] => i + 1 = j + 1
      BY <1>6, <3>1 DEF Distinct
    <3> QED BY <3>1, <3>2
  <2>2. \A i \in 1 .. (Len(s) - 1) : Tail(s)[i] # s[1]
    <3> TAKE i \in 1 .. (Len(s) - 1)
    <3>1. 1 \in DOMAIN s /\ i + 1 \in DOMAIN s /\ Tail(s)[i] = s[i + 1] /\ i + 1 # 1
      BY <1>1, <1>4
    <3> QED BY <1>6, <3>1 DEF Distinct
  <2> QED BY <1>1, <2>1, <2>2 DEF Distinct, Range
<1> QED BY <1>1, <1>2, <1>3, <1>5, <1>6

\* The queue List makes: the index, the first company, and the delisted if they are asked for.
LEMMA QueueMade ==
  ASSUME NEW top \in Companies, NEW S \in SUBSET Companies, top \notin S
  PROVE  LET s == <<Index, top>> \o SetToSeq(S)
         IN s \in Seq(Codes) /\ Distinct(s) /\ Range(s) = {Index, top} \cup S
<1> DEFINE t == SetToSeq(S)
           s == <<Index, top>> \o t
           n == Cardinality(S)
<1>1. IsFiniteSet(S)
  BY FS_Subset
<1>2. n \in Nat /\ t \in [1 .. n -> S] /\ IsInjective(t) /\ Range(t) = S
  BY <1>1, Listing
<1> HIDE DEF t, n
<1>3. t \in Seq(S) /\ Len(t) = n /\ DOMAIN t = 1 .. n
  BY <1>2
<1>4. /\ s \in Seq(Codes) /\ Len(s) = n + 2 /\ DOMAIN s = 1 .. (n + 2)
      /\ s[1] = Index /\ s[2] = top /\ \A i \in 3 .. (n + 2) : s[i] = t[i - 2]
  BY <1>2, <1>3
<1> HIDE DEF s
<1>5. \A i \in 3 .. (n + 2) : i - 2 \in 1 .. n /\ s[i] = t[i - 2] /\ s[i] \in S
  <2> TAKE i \in 3 .. (n + 2)
  <2>1. i - 2 \in 1 .. n
    BY <1>2
  <2> QED BY <1>2, <1>4, <2>1
<1>6. Distinct(s)
  <2> SUFFICES ASSUME NEW i \in 1 .. (n + 2), NEW j \in 1 .. (n + 2), s[i] = s[j]
               PROVE  i = j
    BY <1>4 DEF Distinct
  <2>1. Index \notin S /\ Index # top
    OBVIOUS
  <2>2. i \in {1, 2} \/ i \in 3 .. (n + 2)
    BY <1>2
  <2>3. j \in {1, 2} \/ j \in 3 .. (n + 2)
    BY <1>2
  <2>4. CASE i \in 3 .. (n + 2) /\ j \in 3 .. (n + 2)
    <3>1. t[i - 2] = t[j - 2] /\ i - 2 \in DOMAIN t /\ j - 2 \in DOMAIN t
      BY <1>3, <1>5, <2>4
    <3>2. i - 2 = j - 2
      BY <1>2, <3>1 DEF IsInjective
    <3> QED BY <3>2
  <2>5. CASE i \in {1, 2} /\ j \in {1, 2}
    BY <1>4, <2>1, <2>5
  <2>6. CASE i \in {1, 2} /\ j \in 3 .. (n + 2)
    BY <1>4, <1>5, <2>1, <2>6
  <2>7. CASE i \in 3 .. (n + 2) /\ j \in {1, 2}
    BY <1>4, <1>5, <2>1, <2>7
  <2> QED BY <2>2, <2>3, <2>4, <2>5, <2>6, <2>7
<1>7. Range(s) \subseteq {Index, top} \cup S
  <2> SUFFICES ASSUME NEW i \in 1 .. (n + 2)
               PROVE  s[i] \in {Index, top} \cup S
    BY <1>4 DEF Range
  <2>1. i \in {1, 2} \/ i \in 3 .. (n + 2)
    BY <1>2
  <2> QED BY <1>4, <1>5, <2>1
<1>8. {Index, top} \cup S \subseteq Range(s)
  <2>1. Index \in Range(s) /\ top \in Range(s)
    BY <1>2, <1>4 DEF Range
  <2>2. ASSUME NEW c \in S
        PROVE  c \in Range(s)
    <3>1. PICK k \in 1 .. n : t[k] = c
      BY <1>2, <1>3 DEF Range
    <3>2. k + 2 \in 3 .. (n + 2) /\ (k + 2) - 2 = k
      BY <1>2
    <3>3. s[k + 2] = c /\ k + 2 \in DOMAIN s
      BY <1>2, <1>4, <3>1, <3>2
    <3> QED BY <3>3 DEF Range
  <2> QED BY <2>1, <2>2
<1> QED BY <1>4, <1>6, <1>7, <1>8 DEF s, t

LEMMA OneMore ==
  ASSUME NEW n \in 0 .. 2
  PROVE  Min({n + 1, 2}) \in 1 .. 2 /\ (n >= 1 => Min({n + 1, 2}) = 2)
<1>1. \E m \in {n + 1, 2} : /\ \A k \in {n + 1, 2} : m <= k
                            /\ m \in 1 .. 2 /\ (n >= 1 => m = 2)
  <2>1. CASE n = 0
    BY <2>1
  <2>2. CASE n # 0
    BY <2>2
  <2> QED BY <2>1, <2>2
<1>2. \A m \in {n + 1, 2} : \A k \in {n + 1, 2} : m <= k /\ k <= m => m = k
  OBVIOUS
<1>3. \A m \in {n + 1, 2} : (\A k \in {n + 1, 2} : m <= k) => m \in 1 .. 2 /\ (n >= 1 => m = 2)
  BY <1>1, <1>2
<1>4. Min({n + 1, 2}) \in {n + 1, 2} /\ \A k \in {n + 1, 2} : Min({n + 1, 2}) <= k
  BY <1>1, Zenon DEF Min
<1> QED BY <1>3, <1>4, Zenon

-----------------------------------------------------------------------------
(* The snapshot: the steps.                                                *)

LEMMA SnapInitially ==
  ASSUME SnapInit
  PROVE  SnapInv
<1>1. SnapTypeOK
  BY DEF SnapInit, SnapTypeOK, NewUniverse, NoFetch, NoBars
<1> QED BY <1>1 DEF SnapInit, SnapInv, FetchShape, WholeRun, UsedKept, FailsCounted,
           NewUniverse, NoFetch, NoBars, Clean, Has, Asked, Loading

LEMMA BeginKeeps ==
  ASSUME SnapInv, NEW asked \in SUBSET Options, Begin(asked)
  PROVE  SnapInv'
<1> DEFINE args == asked \cup IF "universe" \in asked THEN {"refresh"} ELSE {}
           must == {c \in {disk.top} \cup disk.former : c # NoCode /\ Has(c)}
<1>1. args \in SUBSET Options /\ must \in SUBSET Companies
  BY DEF SnapInv, SnapTypeOK
<1>2. /\ fetch' = [NoFetch EXCEPT !.at = "list", !.args = args, !.prior = disk.kept,
                     !.mandatory = must]
      /\ disk' = [disk EXCEPT !.complete = FALSE, !.scope = args \ {"refresh"}]
      /\ past' = [past EXCEPT !.runs = @ + 1] /\ bars' = bars /\ Resumes(args)
      /\ "universe" \in args => "refresh" \in args
  BY DEF Begin
<1> HIDE DEF args
<1>3. SnapTypeOK'
  <2>1. disk' \in [complete : BOOLEAN, scope : SUBSET Options, top : Companies \cup {NoCode},
               former : SUBSET Companies, listed : BOOLEAN, gone : SUBSET Companies,
               kept : SUBSET Companies, once : SUBSET Companies, missing : SUBSET Companies,
               stale : BOOLEAN]
    BY <1>1, <1>2 DEF SnapInv, SnapTypeOK
  <2>2. fetch' \in [at : {"idle", "list", "bars", "save", "finish"}, args : SUBSET Options,
                prior : SUBSET Companies, mandatory : SUBSET Companies, todo : Seq(Codes),
                failed : SUBSET Codes, got : SUBSET Parts]
    <3> HIDE DEF must
    <3>1. fetch' = [at |-> "list", args |-> args, prior |-> disk.kept, mandatory |-> must,
                    todo |-> <<>>, failed |-> {}, got |-> {}]
      BY <1>2, Zenon DEF NoFetch
    <3>2. <<>> \in Seq(Codes) /\ disk.kept \in SUBSET Companies
      BY DEF SnapInv, SnapTypeOK
    <3> QED BY <1>1, <3>1, <3>2
  <2>3. past' \in [runs : Nat, fails : [Codes -> 0 .. 2], used : SUBSET Companies]
    BY <1>2 DEF SnapInv, SnapTypeOK
  <2> QED BY <1>2, <2>1, <2>2, <2>3 DEF SnapInv, SnapTypeOK
<1>4. FetchShape'
  BY <1>1, <1>2 DEF SnapInv, SnapTypeOK, FetchShape, Asked, Anew, Loading, Has, NoFetch
<1>5. WholeRun'
  BY <1>1, <1>2 DEF SnapInv, SnapTypeOK, WholeRun, Resumes, Clean, Same, Anew, Loading, Has, NoFetch
<1>6. UsedKept'
  BY <1>1, <1>2 DEF SnapInv, SnapTypeOK, UsedKept, Has, NoFetch
<1>7. FailsCounted'
  BY <1>1, <1>2 DEF SnapInv, SnapTypeOK, FailsCounted, Resumes, Loading, NoFetch
<1> QED BY <1>3, <1>4, <1>5, <1>6, <1>7 DEF SnapInv

\* What List says of the new state: who is delisted, who of them must not be lost.
LEMMA ListKeeps ==
  ASSUME SnapInv, ~Transfers, List
  PROVE  SnapInv'
<1>1. PICK top \in RankFirst, gone \in Listed :
       /\ top \notin gone
       /\ disk' = [disk EXCEPT !.top = top, !.gone = gone, !.listed = @ \/ Relists,
                     !.former = @ \cup (fetch.mandatory \cap ({disk.top} \ {top})),
                     !.stale = StaleAfter(disk.listed \/ Relists),
                     !.kept = IF Moved(gone) = {} THEN @ ELSE fetch.prior \cup Moved(gone)]
       /\ fetch' = [fetch EXCEPT !.at = "bars", !.prior = @ \cup Moved(gone),
                      !.todo = <<Index, top>> \o SetToSeq(IF "delisted" \in fetch.args
                                                         THEN gone \ {top} ELSE {})]
  BY DEF List
<1> DEFINE rest == IF "delisted" \in fetch.args THEN gone \ {top} ELSE {}
           todo == <<Index, top>> \o SetToSeq(rest)
<1>2. /\ top \in Companies /\ gone \in SUBSET Companies /\ disk.gone \subseteq gone
      /\ rest \in SUBSET Companies /\ top \notin rest /\ top \notin gone
      /\ ~Anew => disk.top = NoCode \/ top = disk.top
  BY <1>1 DEF List, SnapInv, SnapTypeOK, FetchShape, RankFirst, Listed, Anew
<1>3. todo \in Seq(Codes) /\ Distinct(todo) /\ Range(todo) = {Index, top} \cup rest
  BY <1>2, QueueMade
<1>4. Moved(gone) \in SUBSET (Companies \cap gone) /\ Relists \in BOOLEAN
      /\ StaleAfter(disk.listed \/ Relists) \in BOOLEAN
  BY DEF SnapInv, SnapTypeOK, Moved, Relists, StaleAfter
<1>5. /\ fetch.at = "list" /\ fetch.prior = disk.kept /\ fetch.failed = {}
      /\ bars' = bars /\ past' = past
  BY DEF List, SnapInv, FetchShape
<1>6. /\ disk'.top = top /\ disk'.gone = gone /\ disk'.kept = disk.kept \cup Moved(gone)
      /\ disk'.former = disk.former \cup (fetch.mandatory \cap ({disk.top} \ {top}))
      /\ disk'.complete = disk.complete /\ disk'.scope = disk.scope
      /\ disk'.once = disk.once /\ disk'.missing = disk.missing
  <2>1. disk'.kept = IF Moved(gone) = {} THEN disk.kept ELSE fetch.prior \cup Moved(gone)
    BY <1>1 DEF SnapInv, SnapTypeOK
  <2>2. disk'.kept = disk.kept \cup Moved(gone)
    BY <1>5, <2>1
  <2> QED BY <1>1, <2>2 DEF SnapInv, SnapTypeOK
<1>7. /\ fetch'.at = "bars" /\ fetch'.args = fetch.args /\ fetch'.todo = todo /\ fetch'.failed = {}
      /\ fetch'.prior = fetch.prior \cup Moved(gone)
  BY <1>1, <1>5 DEF SnapInv, SnapTypeOK
<1>8. SnapTypeOK'
  <2> DEFINE former == disk.former \cup (fetch.mandatory \cap ({disk.top} \ {top}))
             kept   == IF Moved(gone) = {} THEN disk.kept ELSE fetch.prior \cup Moved(gone)
  <2>1. former \in SUBSET Companies /\ kept \in SUBSET Companies
    BY <1>4 DEF SnapInv, SnapTypeOK
  <2>2. disk' \in [complete : BOOLEAN, scope : SUBSET Options, top : Companies \cup {NoCode},
               former : SUBSET Companies, listed : BOOLEAN, gone : SUBSET Companies,
               kept : SUBSET Companies, once : SUBSET Companies, missing : SUBSET Companies,
               stale : BOOLEAN]
    <3>1. disk' = [disk EXCEPT !.top = top, !.gone = gone, !.listed = @ \/ Relists,
                     !.former = former, !.stale = StaleAfter(disk.listed \/ Relists), !.kept = kept]
      BY <1>1
    <3> HIDE DEF former, kept
    <3> QED BY <1>2, <1>4, <2>1, <3>1 DEF SnapInv, SnapTypeOK
  <2>3. fetch' \in [at : {"idle", "list", "bars", "save", "finish"}, args : SUBSET Options,
                prior : SUBSET Companies, mandatory : SUBSET Companies, todo : Seq(Codes),
                failed : SUBSET Codes, got : SUBSET Parts]
    <3>1. fetch' = [fetch EXCEPT !.at = "bars", !.prior = @ \cup Moved(gone), !.todo = todo]
      BY <1>1
    <3> HIDE DEF todo
    <3> QED BY <1>3, <1>4, <3>1 DEF SnapInv, SnapTypeOK
  <2> QED BY <1>5, <2>2, <2>3 DEF SnapInv, SnapTypeOK
<1> HIDE DEF todo
<1>9. Loading' /\ Asked' = Asked /\ Anew' = Anew /\ Queue' = {Index, top} \cup rest
      /\ \A c : Has(c)' = Has(c)
  BY <1>3, <1>5, <1>7 DEF Loading, Asked, Anew, Queue, Has
<1>10. FetchShape'
  <2>1. Asked \/ Queue' \subseteq {Index, disk'.top}
    BY <1>6, <1>9 DEF Asked
  <2>2. /\ disk'.kept \subseteq disk'.gone /\ disk'.missing \subseteq disk'.gone
        /\ disk'.top \notin disk'.gone /\ disk'.top # NoCode
    BY <1>2, <1>4, <1>6 DEF SnapInv, FetchShape
  <2>3. /\ ~disk'.complete /\ disk'.scope = fetch'.args \ {"refresh"}
        /\ fetch'.prior = disk'.kept /\ ("universe" \in fetch'.args => Anew')
    BY <1>5, <1>6, <1>7, <1>9 DEF SnapInv, FetchShape
  <2>4. Distinct(fetch'.todo) /\ fetch'.failed \cap Queue' = {}
    BY <1>3, <1>7, Zenon
  <2> QED BY <1>7, <1>9, <2>1, <2>2, <2>3, <2>4 DEF FetchShape
<1>11. WholeRun'
  BY <1>2, <1>5, <1>6, <1>7, <1>9 DEF SnapInv, SnapTypeOK, FetchShape, WholeRun, Clean, Same, Has
<1>12. UsedKept'
  <2>1. fetch.mandatory = {c \in ({disk.top} \cup disk.former) \ {NoCode} : Has(c)}
    BY <1>5 DEF SnapInv, FetchShape
  <2>2. ASSUME NEW c \in past.used
        PROVE  /\ Has(c) /\ c \notin disk.missing
               /\ c \in disk.kept \cup {disk.top} \cup disk.former
               /\ c \in disk.kept \/ c \in fetch.mandatory
    BY <2>1 DEF SnapInv, SnapTypeOK, UsedKept
  <2>3. ASSUME NEW c \in past.used
        PROVE  /\ c \in disk'.kept \cup {top} \cup disk'.former
               /\ c \in gone => c \in disk'.kept
    BY <1>6, <2>2 DEF Moved
  <2> QED BY <1>5, <1>6, <1>7, <1>9, <2>2, <2>3 DEF UsedKept
<1>13. FailsCounted'
  <2>1. Asked => rest = gone
    BY <1>2 DEF Asked
  <2> QED BY <1>2, <1>5, <1>6, <1>7, <1>9, <2>1 DEF SnapInv, FailsCounted
<1> QED BY <1>8, <1>10, <1>11, <1>12, <1>13 DEF SnapInv

\* One code is done: it leaves the queue, in which it was once.
LEMMA DoneWith ==
  ASSUME SnapTypeOK, FetchShape, Loading, fetch.todo # <<>>, NEW failed \in BOOLEAN, Done(failed)
  PROVE  /\ fetch' \in [at : {"bars"}, args : {fetch.args}, prior : {fetch.prior},
                        mandatory : {fetch.mandatory}, todo : Seq(Codes),
                        failed : {fetch.failed \cup IF failed THEN {Code} ELSE {}}, got : {{}}]
         /\ fetch'.failed \in SUBSET Codes
         /\ Code \in Codes /\ Code \in Queue /\ Queue = {Code} \cup Queue' /\ Code \notin Queue'
         /\ Distinct(fetch'.todo) /\ Code \notin fetch.failed
<1>1. fetch' = [fetch EXCEPT !.at = "bars", !.got = {}, !.todo = Tail(fetch.todo),
                  !.failed = fetch.failed \cup IF failed THEN {Code} ELSE {}]
  BY DEF Done
<1>2. fetch.todo \in Seq(Codes) /\ Distinct(fetch.todo)
  BY DEF SnapTypeOK, FetchShape
<1>3. fetch'.todo = Tail(fetch.todo)
  BY <1>1 DEF SnapTypeOK
<1>4. /\ Code \in Codes /\ Tail(fetch.todo) \in Seq(Codes) /\ Code \in Queue
      /\ Queue = {Code} \cup Queue' /\ Code \notin Queue' /\ Distinct(fetch'.todo)
  BY <1>2, <1>3, QueueHead DEF Code, Queue
<1>5. Code \notin fetch.failed
  BY <1>4 DEF FetchShape
<1> HIDE DEF Code
<1> QED BY <1>1, <1>4, <1>5 DEF SnapTypeOK

LEMMA SkipKeeps ==
  ASSUME SnapInv, Skip
  PROVE  SnapInv'
<1>1. /\ Fetching /\ Loading /\ ~Asks /\ Done(FALSE) /\ fetch.todo # <<>> /\ fetch.at = "bars"
      /\ disk' = disk /\ bars' = bars /\ past' = past
      /\ Has(Code) /\ ~Anew
  BY DEF Skip, Fetching, Asks, Loading, Anew
<1>2. /\ fetch' \in [at : {"bars"}, args : {fetch.args}, prior : {fetch.prior},
                     mandatory : {fetch.mandatory}, todo : Seq(Codes),
                     failed : {fetch.failed}, got : {{}}]
      /\ Code \in Codes /\ Code \in Queue /\ Queue = {Code} \cup Queue' /\ Code \notin Queue'
      /\ Distinct(fetch'.todo) /\ Code \notin fetch.failed
  BY <1>1, DoneWith DEF SnapInv
<1>3. /\ Asked' = Asked /\ Anew' = Anew /\ Loading' /\ \A c : Has(c)' = Has(c) /\ Fresh(c)' = Fresh(c)
      /\ Same' = Same
  BY <1>1, <1>2 DEF Asked, Anew, Loading, Has, Fresh, Same
<1> HIDE DEF Code
<1>4. SnapTypeOK'
  BY <1>1, <1>2 DEF SnapInv, SnapTypeOK
<1>5. FetchShape'
  BY <1>1, <1>2, <1>3 DEF SnapInv, FetchShape
<1>6. WholeRun'
  BY <1>1, <1>2, <1>3 DEF SnapInv, FetchShape, WholeRun, Clean
<1>7. UsedKept'
  BY <1>1, <1>2, <1>3 DEF SnapInv, UsedKept
<1>8. FailsCounted'
  BY <1>1, <1>2, <1>3 DEF SnapInv, FailsCounted
<1> QED BY <1>4, <1>5, <1>6, <1>7, <1>8 DEF SnapInv

\* An answer that is refused: the code has failed, and its bars are what they were or, if
\* it was never used, gone.
LEMMA FailedKeeps ==
  ASSUME SnapInv, Asks, Done(TRUE), Refused, disk' = disk,
         bars' = bars \/ (bars' = [bars EXCEPT ![Code] = NoBars] /\ Code \notin past.used)
  PROVE  SnapInv'
<1>1. Loading /\ fetch.todo # <<>> /\ fetch.at = "bars" /\ (~Has(Code) \/ Anew)
  BY DEF Asks, Fetching, Loading, Anew
<1>2. /\ fetch' \in [at : {"bars"}, args : {fetch.args}, prior : {fetch.prior},
                     mandatory : {fetch.mandatory}, todo : Seq(Codes),
                     failed : {fetch.failed \cup {Code}}, got : {{}}]
      /\ fetch'.failed \in SUBSET Codes
      /\ Code \in Codes /\ Code \in Queue /\ Queue = {Code} \cup Queue' /\ Code \notin Queue'
      /\ Distinct(fetch'.todo) /\ Code \notin fetch.failed
  BY <1>1, DoneWith DEF SnapInv
<1> DEFINE n == IF Code \in Delisted THEN Min({past.fails[Code] + 1, 2}) ELSE past.fails[Code]
<1>3. /\ past' = [past EXCEPT !.fails[Code] = n]
      /\ past.fails \in [Codes -> 0 .. 2]
  BY <1>2 DEF Refused, SnapInv, SnapTypeOK
<1>4. /\ n \in 0 .. 2 /\ n >= past.fails[Code]
      /\ Code \in disk.gone => n >= 1 /\ (past.fails[Code] >= 1 => n >= 2)
  <2>1. past.fails[Code] \in 0 .. 2
    BY <1>2, <1>3
  <2>2. Min({past.fails[Code] + 1, 2}) \in 1 .. 2 /\ (past.fails[Code] >= 1 => Min({past.fails[Code] + 1, 2}) = 2)
    BY <2>1, OneMore
  <2>3. Code \in disk.gone => Code \in Delisted
    BY DEF SnapInv, FetchShape, Delisted
  <2> HIDE DEF Code
  <2> QED BY <2>1, <2>2, <2>3
<1> HIDE DEF n, Code
<1>5. /\ past'.runs = past.runs /\ past'.used = past.used
      /\ past'.fails = [past.fails EXCEPT ![Code] = n]
  BY <1>3 DEF SnapInv, SnapTypeOK
<1>6. /\ Asked' = Asked /\ Anew' = Anew /\ Loading'
      /\ \A c \in Codes \ {Code} : Has(c)' = Has(c) /\ Fresh(c)' = Fresh(c) /\ bars'[c] = bars[c]
      /\ \A c \in past.used : Has(c)' = Has(c)
  <2>1. \A c \in Codes \ {Code} : bars'[c] = bars[c]
    BY DEF SnapInv, SnapTypeOK
  <2>2. \A c \in past.used : bars'[c] = bars[c]
    BY <2>1 DEF SnapInv, SnapTypeOK
  <2> QED BY <1>2, <1>5, <2>1, <2>2 DEF Asked, Anew, Loading, Has, Fresh
<1>7. SnapTypeOK'
  <2>1. bars' \in [Codes -> [run : Nat, parts : SUBSET Parts]]
    <3>1. NoBars \in [run : Nat, parts : SUBSET Parts]
      BY DEF NoBars
    <3>2. bars \in [Codes -> [run : Nat, parts : SUBSET Parts]]
      BY DEF SnapInv, SnapTypeOK
    <3> QED BY <3>1, <3>2
  <2>2. past' \in [runs : Nat, fails : [Codes -> 0 .. 2], used : SUBSET Companies]
    BY <1>3, <1>4 DEF SnapInv, SnapTypeOK
  <2> QED BY <1>2, <2>1, <2>2 DEF SnapInv, SnapTypeOK
<1>8. FetchShape'
  BY <1>1, <1>2, <1>6 DEF SnapInv, FetchShape
<1>9. WholeRun'
  <2>1. ~disk.complete
    BY <1>1 DEF SnapInv, FetchShape
  <2>2. CASE Same /\ ~Anew
    <3>1. Code # Index /\ Code # disk.top
      BY <1>1, <2>2 DEF Same
    <3>2. disk.top \in Codes
      BY <1>1 DEF Loading, SnapInv, SnapTypeOK, FetchShape
    <3>3. Same'
      BY <1>6, <2>2, <3>1, <3>2 DEF Same
    <3> QED BY <1>2, <1>6, <2>1, <2>2, <3>3 DEF WholeRun
  <2>3. CASE ~(Same /\ ~Anew)
    <3>1. ASSUME NEW c \in {Index, disk.top}
          PROVE  (c \in Queue' /\ (Anew' \/ ~Has(c)')) \/ c \in fetch'.failed \/ Fresh(c)'
      <4>1. (c \in Queue /\ (Anew \/ ~Has(c))) \/ c \in fetch.failed \/ Fresh(c)
        BY <1>1, <2>3 DEF SnapInv, WholeRun
      <4>2. c \in Codes
        BY <1>1 DEF Loading, SnapInv, SnapTypeOK, FetchShape
      <4> QED BY <1>2, <1>6, <4>1, <4>2
    <3> QED BY <1>2, <2>1, <3>1 DEF WholeRun
  <2> QED BY <2>2, <2>3
<1>10. UsedKept'
  BY <1>2, <1>5, <1>6 DEF SnapInv, UsedKept
<1>11. FailsCounted'
  <2>1. \A c \in Codes \ {Code} : past'.fails[c] = past.fails[c]
    BY <1>5 DEF SnapInv, SnapTypeOK
  <2>2. past'.fails[Code] = n /\ \A c \in Codes : past.fails[c] \in 0 .. 2
    BY <1>2, <1>3, <1>5
  <2>3. \A c \in disk.once : past'.fails[c] >= 1
    <3> TAKE c \in disk.once
    <3>1. c \in Codes /\ past.fails[c] >= 1
      BY DEF SnapInv, SnapTypeOK, FailsCounted
    <3> QED BY <1>4, <2>1, <2>2, <3>1
  <2>4. \A c \in fetch'.failed \cap disk.gone :
          past'.fails[c] >= 1 /\ (c \in disk.once => past'.fails[c] >= 2)
    <3> TAKE c \in fetch'.failed \cap disk.gone
    <3>1. CASE c = Code
      BY <1>4, <2>2, <3>1 DEF SnapInv, FailsCounted
    <3>2. CASE c # Code
      BY <1>1, <1>2, <2>1, <3>2 DEF SnapInv, SnapTypeOK, FailsCounted
    <3> QED BY <3>1, <3>2
  <2>5. Asked => \A c \in disk.gone : c \in Queue' \/ Has(c)' \/ c \in fetch'.failed
    BY <1>1, <1>2, <1>6 DEF SnapInv, SnapTypeOK, FailsCounted
  <2>6. ~disk.complete /\ ("delisted" \notin disk.scope => Code \notin disk.missing)
    BY <1>1, <1>2 DEF SnapInv, SnapTypeOK, FetchShape, Asked
  <2>7. "delisted" \notin disk.scope => \A c \in disk.missing : past'.fails[c] >= 2
    <3> SUFFICES ASSUME "delisted" \notin disk.scope, NEW c \in disk.missing
                 PROVE  past'.fails[c] >= 2
      OBVIOUS
    <3>1. c \in Codes /\ c # Code /\ past.fails[c] >= 2
      BY <2>6 DEF SnapInv, SnapTypeOK, FailsCounted
    <3> QED BY <2>1, <3>1
  <2> QED BY <1>2, <1>6, <2>3, <2>4, <2>5, <2>6, <2>7 DEF FailsCounted
<1> QED BY <1>7, <1>8, <1>9, <1>10, <1>11 DEF SnapInv

\* Bars that are not protected were never used.
LEMMA UnprotectedUnused ==
  ASSUME SnapInv, Asks, NEW parts \in SUBSET Parts, Bad(parts), ~Keeps(parts)
  PROVE  Code \notin past.used
<1> SUFFICES ASSUME Code \in past.used
             PROVE  FALSE
  OBVIOUS
<1>1. Has(Code) /\ (Code \in disk.gone => Code \in disk.kept)
  BY DEF SnapInv, UsedKept
<1>2. fetch.prior = disk.kept
  BY DEF Asks, Fetching, SnapInv, FetchShape
<1>3. Protected
  BY <1>1, <1>2 DEF Protected, Delisted
<1> QED BY <1>1, <1>3 DEF Keeps

\* An answer that is whole is still to be saved.
LEMMA ReceivedKeeps ==
  ASSUME SnapInv, Asks, NEW parts \in SUBSET Parts, ~Bad(parts),
         fetch' = [fetch EXCEPT !.at = "save", !.got = parts], disk' = disk, bars' = bars, past' = past
  PROVE  SnapInv'
<1>1. Loading /\ fetch.at = "bars" /\ fetch.todo # <<>> /\ (~Has(Code) \/ Anew) /\ parts # {}
  BY DEF Asks, Fetching, Loading, Anew, Bad
<1>2. /\ fetch'.at = "save" /\ fetch'.got = parts /\ fetch'.args = fetch.args
      /\ fetch'.todo = fetch.todo /\ fetch'.failed = fetch.failed /\ fetch'.prior = fetch.prior
  BY DEF SnapInv, SnapTypeOK
<1>3. /\ Asked' = Asked /\ Anew' = Anew /\ Loading' /\ Queue' = Queue /\ Code' = Code
      /\ \A c : Has(c)' = Has(c) /\ Fresh(c)' = Fresh(c)
      /\ Same' = Same
  BY <1>2 DEF Asked, Anew, Loading, Queue, Code, Has, Fresh, Same
<1>4. SnapTypeOK'
  BY DEF SnapInv, SnapTypeOK
<1> HIDE DEF Code
<1>5. FetchShape'
  <2>1. Has(Code)' = Has(Code)
    BY <1>3 DEF Has
  <2> QED BY <1>1, <1>2, <1>3, <2>1 DEF SnapInv, FetchShape
<1>6. WholeRun'
  BY <1>1, <1>2, <1>3 DEF SnapInv, FetchShape, WholeRun
<1>7. UsedKept'
  BY <1>1, <1>2, <1>3 DEF SnapInv, UsedKept
<1>8. FailsCounted'
  BY <1>1, <1>2, <1>3 DEF SnapInv, FailsCounted
<1> QED BY <1>4, <1>5, <1>6, <1>7, <1>8 DEF SnapInv

LEMMA AnswerKeeps ==
  ASSUME SnapInv, NEW parts \in SUBSET Parts, Answered(parts)
  PROVE  SnapInv'
<1>1. CASE Keeps(parts) /\ Done(TRUE) /\ Refused /\ UNCHANGED <<disk, bars>>
  BY <1>1, FailedKeeps DEF Answered
<1>2. CASE /\ ~Keeps(parts) /\ Bad(parts)
           /\ bars' = [bars EXCEPT ![Code] = NoBars]
           /\ Done(TRUE) /\ Refused /\ UNCHANGED disk
  <2>1. Asks
    BY DEF Answered
  <2>2. Code \notin past.used
    BY <1>2, <2>1, UnprotectedUnused
  <2> QED BY <1>2, <2>1, <2>2, FailedKeeps
<1>3. CASE /\ ~Keeps(parts) /\ ~Bad(parts)
           /\ fetch' = [fetch EXCEPT !.at = "save", !.got = parts]
           /\ UNCHANGED <<disk, bars, past>>
  BY <1>3, ReceivedKeeps DEF Answered
<1> QED BY <1>1, <1>2, <1>3 DEF Answered

LEMMA UnmarkKeeps ==
  ASSUME SnapInv, Unmark
  PROVE  SnapInv'
<1>1. /\ fetch' = fetch /\ bars' = bars /\ past' = past
      /\ disk' = [disk EXCEPT !.once = disk.once \ {Code}]
  BY DEF Unmark
<1>2. SnapTypeOK'
  BY <1>1 DEF SnapInv, SnapTypeOK
<1> HIDE DEF Code
<1>3. /\ disk'.top = disk.top /\ disk'.gone = disk.gone /\ disk'.kept = disk.kept
      /\ disk'.missing = disk.missing /\ disk'.complete = disk.complete
      /\ disk'.scope = disk.scope /\ disk'.former = disk.former
      /\ disk'.once \subseteq disk.once
  BY <1>1 DEF SnapInv, SnapTypeOK
<1>4. FetchShape'
  BY <1>1, <1>3 DEF SnapInv, FetchShape, Asked, Anew, Loading, Queue, Has, Code
<1>5. WholeRun'
  BY <1>1, <1>3 DEF SnapInv, WholeRun, Clean, Same, Anew, Loading, Queue, Has, Fresh
<1>6. UsedKept'
  BY <1>1, <1>3 DEF SnapInv, UsedKept, Has, Asked
<1>7. FailsCounted'
  BY <1>1, <1>3 DEF SnapInv, FailsCounted, Asked, Loading, Queue, Has
<1> QED BY <1>2, <1>4, <1>5, <1>6, <1>7 DEF SnapInv

\* The bars are written when no mark is left of the code.
LEMMA SaveKeeps ==
  ASSUME SnapInv, Save
  PROVE  SnapInv'
<1>1. /\ fetch.at = "save" /\ Loading /\ fetch.todo # <<>> /\ fetch.got # {} /\ (Anew \/ ~Has(Code))
      /\ Code \notin disk.once /\ disk' = disk /\ Done(FALSE)
      /\ bars' = [bars EXCEPT ![Code] = [run |-> past.runs, parts |-> fetch.got]]
      /\ past' = [past EXCEPT !.fails[Code] = 0]
  BY DEF Save, Unmarked, Received, SnapInv, FetchShape, Loading
<1>2. /\ fetch' \in [at : {"bars"}, args : {fetch.args}, prior : {fetch.prior},
                     mandatory : {fetch.mandatory}, todo : Seq(Codes),
                     failed : {fetch.failed}, got : {{}}]
      /\ Code \in Codes /\ Code \in Queue /\ Queue = {Code} \cup Queue' /\ Code \notin Queue'
      /\ Distinct(fetch'.todo) /\ Code \notin fetch.failed
  BY <1>1, DoneWith DEF SnapInv
<1> HIDE DEF Code
<1>3. /\ past'.runs = past.runs /\ past'.used = past.used
      /\ past'.fails = [past.fails EXCEPT ![Code] = 0]
  BY <1>1 DEF SnapInv, SnapTypeOK
<1>4. /\ bars'[Code].run = past.runs /\ bars'[Code] # NoBars
      /\ \A c \in Codes \ {Code} : bars'[c] = bars[c]
  BY <1>1, <1>2 DEF SnapInv, SnapTypeOK, NoBars
<1>5. /\ Asked' = Asked /\ Anew' = Anew /\ Loading'
      /\ \A c \in Codes : c = Code => Has(c)' /\ Fresh(c)'
      /\ \A c \in Codes \ {Code} : Has(c)' = Has(c) /\ Fresh(c)' = Fresh(c) /\ bars'[c] = bars[c]
  <2>1. Asked' = Asked /\ Anew' = Anew /\ Loading'
    BY <1>2 DEF Asked, Anew, Loading
  <2>2. \A c \in Codes : c = Code => Has(c)' /\ Fresh(c)'
    BY <1>3, <1>4 DEF Has, Fresh
  <2>3. \A c \in Codes \ {Code} : Has(c)' = Has(c) /\ Fresh(c)' = Fresh(c) /\ bars'[c] = bars[c]
    BY <1>3, <1>4 DEF Has, Fresh
  <2> QED BY <2>1, <2>2, <2>3
<1>6. SnapTypeOK'
  <2>1. bars' \in [Codes -> [run : Nat, parts : SUBSET Parts]]
    <3>1. [run |-> past.runs, parts |-> fetch.got] \in [run : Nat, parts : SUBSET Parts]
      BY DEF SnapInv, SnapTypeOK
    <3> QED BY <1>1, <3>1 DEF SnapInv, SnapTypeOK
  <2>2. past' \in [runs : Nat, fails : [Codes -> 0 .. 2], used : SUBSET Companies]
    <3>1. past' = [past EXCEPT !.fails = [past.fails EXCEPT ![Code] = 0]]
      BY <1>1 DEF SnapInv, SnapTypeOK
    <3>2. 0 \in 0 .. 2 /\ past.fails \in [Codes -> 0 .. 2]
      BY DEF SnapInv, SnapTypeOK
    <3>3. [past.fails EXCEPT ![Code] = 0] \in [Codes -> 0 .. 2]
      BY <3>2, Zenon
    <3> QED BY <3>1, <3>3 DEF SnapInv, SnapTypeOK
  <2> QED BY <1>1, <1>2, <2>1, <2>2 DEF SnapInv, SnapTypeOK
<1>7. FetchShape'
  BY <1>1, <1>2, <1>5 DEF SnapInv, FetchShape
<1>8. WholeRun'
  <2>1. ~disk.complete
    BY <1>1 DEF SnapInv, FetchShape
  <2>2. CASE Same /\ ~Anew
    <3>1. Code # Index /\ Code # disk.top
      BY <1>1, <2>2 DEF Same
    <3>2. disk.top \in Codes
      BY <1>1 DEF Loading, SnapInv, SnapTypeOK, FetchShape
    <3>3. Same'
      BY <1>1, <1>5, <2>2, <3>1, <3>2 DEF Same
    <3> QED BY <1>1, <1>2, <1>5, <2>1, <2>2, <3>3 DEF WholeRun
  <2>3. CASE ~(Same /\ ~Anew)
    <3>1. ASSUME NEW c \in {Index, disk.top}
          PROVE  (c \in Queue' /\ (Anew' \/ ~Has(c)')) \/ c \in fetch'.failed \/ Fresh(c)'
      <4>1. (c \in Queue /\ (Anew \/ ~Has(c))) \/ c \in fetch.failed \/ Fresh(c)
        BY <1>1, <2>3 DEF SnapInv, WholeRun
      <4>2. c \in Codes
        BY <1>1 DEF Loading, SnapInv, SnapTypeOK, FetchShape
      <4>3. CASE c = Code
        BY <1>5, <4>2, <4>3
      <4>4. CASE c # Code
        BY <1>2, <1>5, <4>1, <4>2, <4>4
      <4> QED BY <4>3, <4>4
    <3> QED BY <1>1, <1>2, <2>1, <3>1 DEF WholeRun
  <2> QED BY <2>2, <2>3
<1>9. UsedKept'
  <2>1. \A c \in past.used : Has(c)'
    <3> TAKE c \in past.used
    <3>1. c \in Codes /\ Has(c)
      BY DEF SnapInv, SnapTypeOK, UsedKept
    <3> QED BY <1>5, <3>1
  <2> QED BY <1>1, <1>2, <1>3, <2>1 DEF SnapInv, UsedKept
<1>10. FailsCounted'
  <2>1. \A c \in Codes : c # Code => past'.fails[c] = past.fails[c]
    BY <1>3 DEF SnapInv, SnapTypeOK
  <2>2. \A c \in disk.once : past'.fails[c] >= 1
    BY <1>1, <2>1 DEF SnapInv, SnapTypeOK, FailsCounted
  <2>3. \A c \in fetch'.failed \cap disk.gone :
          past'.fails[c] >= 1 /\ (c \in disk.once => past'.fails[c] >= 2)
    BY <1>1, <1>2, <2>1 DEF SnapInv, SnapTypeOK, FailsCounted
  <2>4. Asked => \A c \in disk.gone : c \in Queue' \/ Has(c)' \/ c \in fetch'.failed
    <3> SUFFICES ASSUME Asked, NEW c \in disk.gone
                 PROVE  c \in Queue' \/ Has(c)' \/ c \in fetch'.failed
      OBVIOUS
    <3>1. c \in Codes /\ (c \in Queue \/ Has(c) \/ c \in fetch.failed)
      BY <1>1 DEF SnapInv, SnapTypeOK, FailsCounted
    <3> QED BY <1>2, <1>5, <3>1
  <2>5. ~disk.complete /\ ("delisted" \notin disk.scope => Code \notin disk.missing)
    BY <1>1, <1>2 DEF SnapInv, SnapTypeOK, FetchShape, Asked
  <2>6. "delisted" \notin disk.scope => \A c \in disk.missing : past'.fails[c] >= 2
    <3> SUFFICES ASSUME "delisted" \notin disk.scope, NEW c \in disk.missing
                 PROVE  past'.fails[c] >= 2
      OBVIOUS
    <3>1. c \in Codes /\ c # Code /\ past.fails[c] >= 2
      BY <2>5 DEF SnapInv, SnapTypeOK, FailsCounted
    <3> QED BY <2>1, <3>1
  <2> QED BY <1>1, <1>2, <1>5, <2>2, <2>3, <2>4, <2>5, <2>6 DEF FailsCounted
<1> QED BY <1>6, <1>7, <1>8, <1>9, <1>10 DEF SnapInv

\* What is looked for at the end is the index and the first company; what is missing is
\* what has no bars.
LEMMA TallyKeeps ==
  ASSUME SnapInv, Tally
  PROVE  SnapInv'
<1> DEFINE late == Lagging \cup Late
           gap  == IF "delisted" \in fetch.args THEN {c \in disk.gone : ~Has(c)} ELSE disk.missing
<1>1. /\ fetch.at = "bars" /\ Loading /\ fetch.todo = <<>> /\ bars' = bars /\ past' = past
      /\ disk' = [disk EXCEPT !.missing = gap]
      /\ fetch' = [fetch EXCEPT !.at = "finish", !.failed = @ \cup Lagging \cup Late]
  BY DEF Tally, Loading, SnapInv, SnapTypeOK
<1>2. late \subseteq {Index, disk.top} /\ late \subseteq Codes
  BY <1>1 DEF Lagging, Late, SnapInv, SnapTypeOK
<1>3. gap \subseteq Companies /\ gap \subseteq disk.gone
  BY DEF SnapInv, SnapTypeOK, FetchShape
<1> HIDE DEF gap
<1>4. fetch'.failed = fetch.failed \cup late
  BY <1>1 DEF SnapInv, SnapTypeOK
<1> HIDE DEF late
<1>5. /\ fetch'.at = "finish" /\ fetch'.args = fetch.args /\ fetch'.prior = fetch.prior
      /\ fetch'.todo = fetch.todo
      /\ disk'.missing = gap /\ disk'.top = disk.top /\ disk'.gone = disk.gone
      /\ disk'.kept = disk.kept /\ disk'.once = disk.once /\ disk'.former = disk.former
      /\ disk'.complete = disk.complete /\ disk'.scope = disk.scope
  BY <1>1 DEF SnapInv, SnapTypeOK
<1>6. /\ Asked' = Asked /\ Anew' = Anew /\ ~Loading' /\ Queue = {} /\ Same' = Same
      /\ \A c : Has(c)' = Has(c) /\ Fresh(c)' = Fresh(c)
  BY <1>1, <1>5 DEF Asked, Anew, Loading, Queue, Range, Has, Fresh, Same
<1>7. SnapTypeOK'
  <2>1. disk' \in [complete : BOOLEAN, scope : SUBSET Options, top : Companies \cup {NoCode},
               former : SUBSET Companies, listed : BOOLEAN, gone : SUBSET Companies,
               kept : SUBSET Companies, once : SUBSET Companies, missing : SUBSET Companies,
               stale : BOOLEAN]
    BY <1>1, <1>3 DEF SnapInv, SnapTypeOK
  <2>2. fetch' \in [at : {"idle", "list", "bars", "save", "finish"}, args : SUBSET Options,
                prior : SUBSET Companies, mandatory : SUBSET Companies, todo : Seq(Codes),
                failed : SUBSET Codes, got : SUBSET Parts]
    <3>1. Lagging \cup Late \subseteq Codes
      BY <1>2 DEF late
    <3> QED BY <1>1, <3>1 DEF SnapInv, SnapTypeOK
  <2> QED BY <1>1, <2>1, <2>2 DEF SnapInv, SnapTypeOK
<1>8. FetchShape'
  BY <1>1, <1>3, <1>5, <1>6 DEF SnapInv, FetchShape
<1>9. WholeRun'
  BY <1>1, <1>4, <1>5, <1>6 DEF SnapInv, FetchShape, WholeRun
<1>10. UsedKept'
  BY <1>1, <1>5, <1>6 DEF SnapInv, UsedKept, gap, Asked
<1>11. FailsCounted'
  <2>1. late \cap disk.gone = {}
    BY <1>2 DEF SnapInv, SnapTypeOK, FetchShape
  <2>2. Asked => gap \subseteq fetch.failed
    BY <1>1, <1>6 DEF SnapInv, FailsCounted, gap, Asked
  <2>3. "delisted" \notin disk.scope => gap = disk.missing
    BY <1>1 DEF SnapInv, FetchShape, gap
  <2>4. ~disk.complete
    BY <1>1 DEF SnapInv, FetchShape
  <2> QED BY <1>1, <1>4, <1>5, <1>6, <2>1, <2>2, <2>3, <2>4 DEF SnapInv, FailsCounted
<1> QED BY <1>7, <1>8, <1>9, <1>10, <1>11 DEF SnapInv

\* A fetch that is complete: nothing that it required has failed.
LEMMA FinishKeeps ==
  ASSUME SnapInv, Finish
  PROVE  SnapInv'
<1> DEFINE once     == IF Asked THEN disk.once \cap fetch.failed ELSE disk.once
           required == {c \in fetch.failed : c \notin disk.gone \/ c \in fetch.prior \/ (Asked /\ c \notin once)}
           complete == required = {}
           marks    == IF Asked THEN once \cup (fetch.failed \cap disk.gone) ELSE disk.once
           kept     == IF complete /\ Asked THEN Usable ELSE disk.kept
           used     == IF complete THEN past.used \cup {disk.top} \cup IF Asked THEN Usable ELSE {}
                       ELSE past.used
<1>1. /\ fetch.at = "finish" /\ fetch.prior = disk.kept /\ bars' = bars /\ fetch' = NoFetch
      /\ disk.top \in Companies /\ disk.top \notin disk.gone
  BY DEF Finish, SnapInv, SnapTypeOK, FetchShape
<1>2. disk' = [disk EXCEPT !.complete = complete, !.once = marks, !.kept = kept]
  <2>1. disk' = [disk EXCEPT !.complete = complete, !.once = marks,
                   !.kept = IF complete /\ Asked THEN Usable
                            ELSE IF fetch.prior # {} THEN fetch.prior ELSE disk.kept]
    BY DEF Finish, Asked
  <2>2. kept = IF complete /\ Asked THEN Usable
               ELSE IF fetch.prior # {} THEN fetch.prior ELSE disk.kept
    BY <1>1, Zenon
  <2> QED BY <2>1, <2>2
<1>3. past' = [past EXCEPT !.used = used]
  BY DEF Finish, Asked, SnapInv, SnapTypeOK
<1>4. complete \in BOOLEAN /\ marks \in SUBSET Companies /\ kept \in SUBSET Companies /\ used \in SUBSET Companies
  BY <1>1 DEF SnapInv, SnapTypeOK, Usable
<1>5. /\ complete => fetch.failed \subseteq disk.gone
      /\ complete /\ Asked => fetch.failed \subseteq disk.once
  OBVIOUS
<1>6. /\ Asked => marks \subseteq fetch.failed /\ (marks \subseteq disk.once \cup (fetch.failed \cap disk.gone))
      /\ ~Asked => marks = disk.once
  OBVIOUS
<1> HIDE DEF once, required, complete, marks
<1>7. SnapTypeOK'
  <2>1. disk' \in [complete : BOOLEAN, scope : SUBSET Options, top : Companies \cup {NoCode},
               former : SUBSET Companies, listed : BOOLEAN, gone : SUBSET Companies,
               kept : SUBSET Companies, once : SUBSET Companies, missing : SUBSET Companies,
               stale : BOOLEAN]
    <3> HIDE DEF kept
    <3> QED BY <1>2, <1>4 DEF SnapInv, SnapTypeOK
  <2>2. fetch' \in [at : {"idle", "list", "bars", "save", "finish"}, args : SUBSET Options,
                prior : SUBSET Companies, mandatory : SUBSET Companies, todo : Seq(Codes),
                failed : SUBSET Codes, got : SUBSET Parts]
    BY <1>1 DEF NoFetch
  <2>3. past' \in [runs : Nat, fails : [Codes -> 0 .. 2], used : SUBSET Companies]
    <3> HIDE DEF used
    <3> QED BY <1>3, <1>4 DEF SnapInv, SnapTypeOK
  <2> QED BY <1>1, <2>1, <2>2, <2>3 DEF SnapInv, SnapTypeOK
<1>8. /\ disk'.complete = complete /\ disk'.once = marks /\ disk'.kept = kept
      /\ disk'.top = disk.top /\ disk'.gone = disk.gone /\ disk'.missing = disk.missing
      /\ disk'.scope = disk.scope /\ disk'.former = disk.former
  <2> HIDE DEF kept
  <2> QED BY <1>2 DEF SnapInv, SnapTypeOK
<1>9. past'.used = used /\ past'.runs = past.runs /\ past'.fails = past.fails
  <2> HIDE DEF used
  <2> QED BY <1>3 DEF SnapInv, SnapTypeOK
<1>10. fetch'.at = "idle" /\ \A c : Has(c)' = Has(c)
  BY <1>1 DEF NoFetch, Has
<1>11. disk.kept \subseteq disk.gone
  BY DEF SnapInv, FetchShape
<1>12. FetchShape'
  BY <1>1, <1>8, <1>10, <1>11 DEF SnapInv, FetchShape, Loading, Usable
<1>13. complete => Same
  <2>1. Index \notin disk.gone /\ Index \in Codes
    BY DEF SnapInv, SnapTypeOK
  <2>2. complete => Index \notin fetch.failed /\ disk.top \notin fetch.failed
    BY <1>1, <1>5, <2>1
  <2> QED BY <1>1, <2>2 DEF SnapInv, WholeRun, Same, Fresh
<1>14. WholeRun'
  BY <1>1, <1>8, <1>10, <1>13 DEF WholeRun, Clean, Same, Loading, Has
<1>15. UsedKept'
  <2>1. Asked => disk.missing = {c \in disk.gone : ~Has(c)}
    BY <1>1 DEF SnapInv, UsedKept
  <2>2. ASSUME NEW c \in used
        PROVE  /\ Has(c) /\ c \notin disk.missing
               /\ c \in kept \cup {disk.top} \cup disk.former
               /\ c \in disk.gone => c \in kept
    <3>1. CASE c \in past.used
      BY <1>1, <1>11, <2>1, <3>1 DEF SnapInv, UsedKept, Usable
    <3>2. CASE complete /\ c = disk.top
      BY <1>1, <1>13, <3>2 DEF SnapInv, FetchShape, Same
    <3>3. CASE complete /\ Asked /\ c \in Usable
      BY <2>1, <3>3 DEF Usable
    <3> QED BY <3>1, <3>2, <3>3
  <2> QED BY <1>8, <1>9, <1>10, <2>2 DEF UsedKept
<1>16. FailsCounted'
  <2>1. \A c \in marks : past.fails[c] >= 1
    BY <1>1, <1>6 DEF SnapInv, FailsCounted
  <2>2. complete \/ "delisted" \notin disk.scope => \A c \in disk.missing : past.fails[c] >= 2
    <3>1. CASE Asked
      <4>1. "delisted" \in disk.scope
        BY <1>1, <3>1 DEF SnapInv, FetchShape, Asked
      <4>2. complete => \A c \in disk.missing : c \in fetch.failed \cap disk.gone /\ c \in disk.once
        BY <1>1, <1>5, <3>1 DEF SnapInv, FetchShape, FailsCounted
      <4> QED BY <1>1, <4>1, <4>2 DEF SnapInv, FailsCounted
    <3>2. CASE ~Asked
      <4>1. "delisted" \notin disk.scope
        BY <1>1, <3>2 DEF SnapInv, FetchShape, Asked
      <4> QED BY <4>1 DEF SnapInv, FailsCounted
    <3> QED BY <3>1, <3>2
  <2> QED BY <1>8, <1>9, <1>10, <2>1, <2>2 DEF FailsCounted, Loading
<1> QED BY <1>7, <1>12, <1>14, <1>15, <1>16 DEF SnapInv

LEMMA DieKeeps ==
  ASSUME SnapInv, Die
  PROVE  SnapInv'
<1>1. disk' = disk /\ bars' = bars /\ past' = past /\ fetch' = NoFetch /\ ~disk.complete
  BY DEF Die, SnapInv, FetchShape
<1>2. SnapTypeOK'
  BY <1>1 DEF SnapInv, SnapTypeOK, NoFetch
<1>3. FetchShape' /\ WholeRun' /\ UsedKept' /\ FailsCounted'
  BY <1>1 DEF SnapInv, FetchShape, WholeRun, UsedKept, FailsCounted, Clean, Same, Loading, Has, NoFetch
<1> QED BY <1>2, <1>3 DEF SnapInv

LEMMA StillKeeps ==
  ASSUME SnapInv, UNCHANGED snapVars
  PROVE  SnapInv'
BY DEF snapVars, SnapInv, SnapTypeOK, FetchShape, WholeRun, UsedKept, FailsCounted, Clean, Same,
       Fresh, Loading, Queue, Has, Code, Asked, Anew

\* Whatever the study, the snapshot is changed by a step of a fetch or not at all.
LEMMA SnapKeeps ==
  ASSUME ~Transfers, SnapInv, [Next]_vars
  PROVE  SnapInv'
<1>1. \/ \E asked \in SUBSET Options : Begin(asked)
      \/ FetchStep
      \/ UNCHANGED snapVars
  <2>1. {"refresh"} \cup (IF "B" \in Universes THEN {"delisted"} ELSE {}) \in SUBSET Options
    OBVIOUS
  <2> QED BY <2>1, Zenon DEF Next, Changes, vars, snapVars
<1>2. ASSUME FetchStep
      PROVE  SnapInv'
  BY <1>2, BeginKeeps, ListKeeps, SkipKeeps, AnswerKeeps, UnmarkKeeps, SaveKeeps, TallyKeeps,
     FinishKeeps, DieKeeps, Zenon DEF FetchStep
<1> QED BY <1>1, <1>2, BeginKeeps, StillKeeps

\* The invariant of `fetch`.  Companies that are ranked are not delisted (~Transfers):
\* of others none of the three properties is true.
LEMMA SnapshotInvariant ==
  ASSUME ~Transfers
  PROVE  Spec => []SnapInv
<1>1. Init => SnapInv
  BY SnapInitially DEF Init
<1>2. SnapInv /\ [Next]_vars => SnapInv'
  BY SnapKeeps
<1> QED BY <1>1, <1>2, PTL DEF Spec

\* OneSnapshot, for any companies and any number of fetches, whatever is cut off.
THEOREM SnapshotIsOne ==
  ASSUME ~Transfers
  PROVE  Spec => []OneSnapshot
<1>1. SnapInv => OneSnapshot
  BY DEF SnapInv, WholeRun, Clean, Same, OneSnapshot, Accepts
<1> QED BY <1>1, SnapshotInvariant, PTL

\* KeepsItsDead: what was used once is not lost from universe B.
THEOREM DeadAreKept ==
  ASSUME ~Transfers
  PROVE  Spec => []KeepsItsDead
<1>1. SnapInv => KeepsItsDead
  BY DEF SnapInv, UsedKept, KeepsItsDead, Usable
<1> QED BY <1>1, SnapshotInvariant, PTL

\* TwoFailures: a company is given up after two failures in a row.
THEOREM GivenUpAfterTwo ==
  ASSUME ~Transfers
  PROVE  Spec => []TwoFailures
<1>1. SnapInv => TwoFailures
  BY DEF SnapInv, FailsCounted, TwoFailures, Accepts, Usable
<1> QED BY <1>1, SnapshotInvariant, PTL

-----------------------------------------------------------------------------
(* The predictions: the inductive invariant.  It needs nothing of a fetch  *)
(* but who can be in a universe.                                           *)

DiskShape ==
  /\ disk = [complete |-> disk.complete, scope |-> disk.scope, top |-> disk.top, former |-> disk.former,
             listed |-> disk.listed, gone |-> disk.gone, kept |-> disk.kept, once |-> disk.once,
             missing |-> disk.missing, stale |-> disk.stale]
  /\ disk.top \in Companies \cup {NoCode} /\ disk.gone \in SUBSET Companies

\* What a fingerprint says of the predictions under it: their companies, their queries,
\* the samples they are made of.
Own(fp)        == DOMAIN fp[2] \ {Index}
PlanOf(fp)     == Own(fp) \X Blocks \X Days
MadeOf(fp)     == [c \in Own(fp) |-> [own |-> fp[2][c], ks |-> fp[2][Index]]]
Rows(fp, run)  == [key : PlanOf(fp), torn : BOOLEAN, run : {run}, from : {MadeOf(fp)}]
Marks(fp, run) == [complete : BOOLEAN, rows : Nat, run : {run, NoPath}, sha256 : Seq(Rows(fp, run))]
Kinds(fp, run) == [exists : BOOLEAN, csv : Seq(Rows(fp, run)), run : {run}, marker : Marks(fp, run)]
Untorn(csv)    == \A i \in DOMAIN csv : ~csv[i].torn

\* A file is of one path, and of the bars of its fingerprint; a mark that says it is
\* complete was made of rows that were every query of the plan, none torn.
GoodFile(fp, f) ==
  \E run \in Paths : /\ f \in Kinds(fp, run)
                     /\ ~f.exists => f.csv = <<>>
                     /\ f.marker.complete => /\ f.marker.run = run /\ Untorn(f.marker.sha256)
                                             /\ KeysOf(f.marker.sha256) = PlanOf(fp)

FilesGood ==
  /\ files = [fp \in DOMAIN files |-> files[fp]]
  /\ \A fp \in DOMAIN files : GoodFile(fp, files[fp])

\* A running prediction: the snapshot is still the one it was started with, its file is
\* on its path, its samples are of the bars as they are, and what it adds rows to is whole.
PredictShape ==
  /\ predict \in [at : {"idle", "samples", "unmark", "rewrite", "blocks"}, v : {"A", "B"},
                  run : Paths \cup {NoPath}]
  /\ predict.at # "idle" => /\ study = "predict" /\ predict.run \in Paths /\ disk.top \in Companies
  /\ predict.at \in {"unmark", "rewrite", "blocks"} =>
       /\ Fingerprint(predict.v) \in DOMAIN files /\ file.run = predict.run
       /\ \A c \in Tickers(predict.v) : CacheFresh(c)
  /\ predict.at = "blocks" => Untorn(file.csv)

ForeInv == DiskShape /\ FilesGood /\ PredictShape

USE ForecastsAssumption DEF Blocks, Days

LEMMA ForeInitially ==
  ASSUME Init
  PROVE  ForeInv
<1>1. DiskShape
  BY DEF Init, SnapInit, NewUniverse, DiskShape
<1>2. FilesGood
  BY DEF Init, ForeInit, FilesGood
<1>3. PredictShape
  BY DEF Init, ForeInit, NoPredict, PredictShape
<1> QED BY <1>1, <1>2, <1>3 DEF ForeInv

\* A fetch leaves the predictions alone, and none is running.
LEMMA FetchShapeOfDisk ==
  ASSUME DiskShape, FetchStep
  PROVE  DiskShape'
<1>1. CASE disk' = disk
  BY <1>1 DEF DiskShape
<1>2. ASSUME NEW asked \in SUBSET Options, Begin(asked)
      PROVE  DiskShape'
  BY <1>2 DEF Begin, DiskShape
<1>3. CASE List
  <2>1. PICK top \in RankFirst, gone \in Listed :
       disk' = [disk EXCEPT !.top = top, !.gone = gone, !.listed = @ \/ Relists,
                     !.former = @ \cup (fetch.mandatory \cap ({disk.top} \ {top})),
                     !.stale = StaleAfter(disk.listed \/ Relists),
                     !.kept = IF Moved(gone) = {} THEN @ ELSE fetch.prior \cup Moved(gone)]
    BY <1>3 DEF List
  <2>2. top \in Companies \cup {NoCode} /\ gone \in SUBSET Companies
    BY DEF RankFirst, Listed, DiskShape
  <2> QED BY <2>1, <2>2 DEF DiskShape
<1>4. CASE Unmark
  BY <1>4 DEF Unmark, DiskShape
<1>5. CASE Tally
  BY <1>5 DEF Tally, DiskShape
<1>6. CASE Finish
  BY <1>6 DEF Finish, DiskShape
<1>7. Skip \/ Save \/ Die \/ (\E parts \in SUBSET Parts : Answered(parts)) => disk' = disk
  BY DEF Skip, Save, Die, Answered
<1> QED BY <1>1, <1>2, <1>3, <1>4, <1>5, <1>6, <1>7 DEF FetchStep

LEMMA FetchLeavesPredictions ==
  ASSUME ForeInv, FetchStep \/ UNCHANGED snapVars, UNCHANGED <<foreVars, study>>,
         study = "fetch" \/ predict.at = "idle"
  PROVE  ForeInv'
<1>1. DiskShape'
  BY FetchShapeOfDisk DEF ForeInv, snapVars, DiskShape
<1>2. FilesGood' /\ PredictShape'
  BY DEF ForeInv, FilesGood, PredictShape, GoodFile, foreVars
<1> QED BY <1>1, <1>2 DEF ForeInv

-----------------------------------------------------------------------------
(* The predictions: the steps.                                             *)

\* The universe that is predicted, by its fingerprint.
LEMMA OfFingerprint ==
  ASSUME DiskShape, NEW v \in {"A", "B"}, disk.top \in Companies
  PROVE  /\ Tickers(v) \in SUBSET Companies
         /\ Own(Fingerprint(v)) = Tickers(v) /\ PlanOf(Fingerprint(v)) = Plan(v)
         /\ MadeOf(Fingerprint(v)) = [c \in Tickers(v) |-> MadeNow(c)]
<1>1. Tickers(v) \in SUBSET Companies
  BY DEF DiskShape, Tickers, Usable
<1> DEFINE h == [c \in {Index} \cup Tickers(v) |-> bars[c]]
<1>2. Fingerprint(v)[2] = h
  BY DEF Fingerprint
<1>3. Own(Fingerprint(v)) = Tickers(v)
  BY <1>1, <1>2 DEF Own
<1>4. Plan(v) = Tickers(v) \X Blocks \X Days
  BY DEF Plan, Keys
<1>5. MadeOf(Fingerprint(v)) = [c \in Tickers(v) |-> MadeNow(c)]
  BY <1>2, <1>3 DEF MadeOf, MadeNow
<1> QED BY <1>1, <1>3, <1>4, <1>5 DEF PlanOf

\* A file is put under the fingerprint of the running prediction.
LEMMA PutKeeps ==
  ASSUME FilesGood, NEW f, GoodFile(Fingerprint(predict.v), f), Put(f)
  PROVE  /\ FilesGood' /\ Fingerprint(predict.v) \in DOMAIN files'
         /\ files'[Fingerprint(predict.v)] = f
<1> DEFINE p == Fingerprint(predict.v)
<1>1. files' = [fp \in DOMAIN files \cup {p} |-> IF fp = p THEN f ELSE files[fp]]
  BY DEF Put
<1> HIDE DEF p
<1>2. DOMAIN files' = DOMAIN files \cup {p} /\ files'[p] = f
      /\ \A fp \in DOMAIN files \ {p} : files'[fp] = files[fp]
  BY <1>1
<1>3. \A fp \in DOMAIN files' : GoodFile(fp, files'[fp])
  BY <1>2 DEF FilesGood, p
<1>4. files' = [fp \in DOMAIN files' |-> files'[fp]]
  BY <1>1
<1> QED BY <1>2, <1>3, <1>4 DEF FilesGood, GoodFile, p

\* The snapshot as it was, so is what is said of it.
LEMMA Steady ==
  ASSUME UNCHANGED snapVars, NEW v
  PROVE  Fingerprint(v)' = Fingerprint(v) /\ Tickers(v)' = Tickers(v)
BY DEF snapVars, Fingerprint, Tickers, Usable

\* The file of a running prediction that has claimed it.
LEMMA ThisFile ==
  ASSUME ForeInv, predict.at \in {"unmark", "rewrite", "blocks"}
  PROVE  /\ file \in Kinds(Fingerprint(predict.v), predict.run)
         /\ predict.run \in Paths /\ GoodFile(Fingerprint(predict.v), file)
         /\ ~file.exists => file.csv = <<>>
         /\ file.marker.complete =>
              /\ file.marker.run = predict.run /\ Untorn(file.marker.sha256)
              /\ KeysOf(file.marker.sha256) = PlanOf(Fingerprint(predict.v))
<1> DEFINE p == Fingerprint(predict.v)
<1>1. p \in DOMAIN files /\ file.run = predict.run /\ predict.run \in Paths
  BY DEF ForeInv, PredictShape
<1>2. file = files[p]
  BY <1>1 DEF file, FileOf
<1> HIDE DEF p
<1>3. GoodFile(p, file)
  BY <1>1, <1>2 DEF ForeInv, FilesGood
<1>4. PICK run \in Paths :
        /\ file \in Kinds(p, run)
        /\ ~file.exists => file.csv = <<>>
        /\ file.marker.complete => /\ file.marker.run = run /\ Untorn(file.marker.sha256)
                                   /\ KeysOf(file.marker.sha256) = PlanOf(p)
  BY <1>3, Zenon DEF GoodFile
<1>5. run = predict.run
  BY <1>1, <1>4 DEF Kinds
<1> QED BY <1>1, <1>3, <1>4, <1>5 DEF p

\* A file with some of its parts replaced.
LEMMA Replaced ==
  ASSUME NEW S, NEW P, NEW M, NEW g \in [exists : BOOLEAN, csv : S, run : P, marker : M], NEW f
  PROVE  /\ \A Q : \A r \in Q : f = [g EXCEPT !.run = r] =>
              /\ f \in [exists : BOOLEAN, csv : S, run : Q, marker : M]
              /\ f.exists = g.exists /\ f.csv = g.csv /\ f.run = r /\ f.marker = g.marker
         /\ \A m \in M : f = [g EXCEPT !.marker = m] =>
              /\ f \in [exists : BOOLEAN, csv : S, run : P, marker : M]
              /\ f.exists = g.exists /\ f.csv = g.csv /\ f.run = g.run /\ f.marker = m
         /\ \A c \in S : f = [g EXCEPT !.csv = c] =>
              /\ f \in [exists : BOOLEAN, csv : S, run : P, marker : M]
              /\ f.exists = g.exists /\ f.csv = c /\ f.run = g.run /\ f.marker = g.marker
         /\ \A c \in S : f = [g EXCEPT !.exists = TRUE, !.csv = c] =>
              /\ f \in [exists : BOOLEAN, csv : S, run : P, marker : M]
              /\ f.exists /\ f.csv = c /\ f.run = g.run /\ f.marker = g.marker
         /\ \A m \in M : f = [g EXCEPT !.exists = TRUE, !.marker = m] =>
              /\ f \in [exists : BOOLEAN, csv : S, run : P, marker : M]
              /\ f.exists /\ f.csv = g.csv /\ f.run = g.run /\ f.marker = m
<1>1. ASSUME NEW Q, NEW r \in Q, f = [g EXCEPT !.run = r]
      PROVE  /\ f \in [exists : BOOLEAN, csv : S, run : Q, marker : M]
             /\ f.exists = g.exists /\ f.csv = g.csv /\ f.run = r /\ f.marker = g.marker
  BY <1>1
<1>2. ASSUME NEW m \in M, f = [g EXCEPT !.marker = m]
      PROVE  /\ f \in [exists : BOOLEAN, csv : S, run : P, marker : M]
             /\ f.exists = g.exists /\ f.csv = g.csv /\ f.run = g.run /\ f.marker = m
  BY <1>2
<1>3. ASSUME NEW c \in S, f = [g EXCEPT !.csv = c]
      PROVE  /\ f \in [exists : BOOLEAN, csv : S, run : P, marker : M]
             /\ f.exists = g.exists /\ f.csv = c /\ f.run = g.run /\ f.marker = g.marker
  BY <1>3
<1>4. ASSUME NEW c \in S, f = [g EXCEPT !.exists = TRUE, !.csv = c]
      PROVE  /\ f \in [exists : BOOLEAN, csv : S, run : P, marker : M]
             /\ f.exists /\ f.csv = c /\ f.run = g.run /\ f.marker = g.marker
  BY <1>4
<1>5. ASSUME NEW m \in M, f = [g EXCEPT !.exists = TRUE, !.marker = m]
      PROVE  /\ f \in [exists : BOOLEAN, csv : S, run : P, marker : M]
             /\ f.exists /\ f.csv = g.csv /\ f.run = g.run /\ f.marker = m
  BY <1>5
<1> QED BY <1>1, <1>2, <1>3, <1>4, <1>5, Zenon

\* A step of a prediction that puts a file and goes on, or is at its end.
LEMMA PutStep ==
  ASSUME ForeInv, UNCHANGED snapVars, UNCHANGED <<samples, study>>, predict.at # "idle",
         NEW f, GoodFile(Fingerprint(predict.v), f), Put(f), f.run = predict.run,
         \/ predict' = NoPredict
         \/ \E at \in {"unmark", "rewrite", "blocks"} :
              /\ Goto(at) /\ (at = "blocks" => Untorn(f.csv))
              /\ \A c \in Tickers(predict.v) : CacheFresh(c)
  PROVE  ForeInv'
<1>1. FilesGood' /\ Fingerprint(predict.v) \in DOMAIN files'
      /\ files'[Fingerprint(predict.v)] = f
  BY PutKeeps DEF ForeInv
<1>2. DiskShape'
  BY DEF ForeInv, DiskShape, snapVars
<1>3. CASE predict' = NoPredict
  BY <1>1, <1>2, <1>3 DEF ForeInv, PredictShape, NoPredict
<1>4. ASSUME NEW at \in {"unmark", "rewrite", "blocks"}, Goto(at), at = "blocks" => Untorn(f.csv),
             \A c \in Tickers(predict.v) : CacheFresh(c)
      PROVE  ForeInv'
  <2>1. predict \in [at : {"idle", "samples", "unmark", "rewrite", "blocks"}, v : {"A", "B"},
                     run : Paths \cup {NoPath}]
        /\ study = "predict" /\ predict.run \in Paths /\ disk.top \in Companies
    BY DEF ForeInv, PredictShape
  <2>2. predict' \in [at : {"idle", "samples", "unmark", "rewrite", "blocks"}, v : {"A", "B"},
                      run : Paths \cup {NoPath}]
        /\ predict'.v = predict.v /\ predict'.run = predict.run /\ predict'.at = at
    BY <1>4, <2>1 DEF Goto
  <2>3. Fingerprint(predict.v)' = Fingerprint(predict.v) /\ Tickers(predict.v)' = Tickers(predict.v)
    <3>1. disk' = disk /\ bars' = bars /\ predict'.v = predict.v
      BY <2>2 DEF snapVars
    <3>2. Tickers(predict.v)' = Tickers(predict.v)
      BY <3>1 DEF Tickers, Usable
    <3> QED BY <3>1, <3>2 DEF Fingerprint
  <2>4. file' = f
    BY <1>1, <2>3 DEF file, FileOf
  <2>5. \A c \in Tickers(predict.v)' : CacheFresh(c)'
    BY <1>4, <2>3 DEF CacheFresh, MadeNow, snapVars
  <2>6. disk'.top = disk.top /\ study' = study
    BY DEF snapVars
  <2>7. PredictShape'
    BY <1>1, <1>4, <2>1, <2>2, <2>3, <2>4, <2>5, <2>6 DEF PredictShape
  <2> QED BY <1>1, <1>2, <2>7 DEF ForeInv
<1> QED BY <1>3, <1>4

\* A step that leaves the files alone and ends the prediction, or runs none.
LEMMA IdleStep ==
  ASSUME ForeInv, UNCHANGED snapVars, UNCHANGED files, predict' = NoPredict
  PROVE  ForeInv'
BY DEF ForeInv, DiskShape, FilesGood, GoodFile, PredictShape, NoPredict, snapVars

LEMMA StartKeeps ==
  ASSUME ForeInv, UNCHANGED <<snapVars, study>>, study = "predict",
         NEW v \in Universes, NEW run \in Paths, Start(v, run)
  PROVE  ForeInv'
<1>1. disk.top \in Companies
  BY DEF Start, Accepts, ForeInv, DiskShape
<1>2. PredictShape'
  BY <1>1 DEF PredictShape, Start, snapVars
<1>3. DiskShape' /\ FilesGood'
  BY DEF ForeInv, DiskShape, FilesGood, GoodFile, Start, snapVars
<1> QED BY <1>2, <1>3 DEF ForeInv

LEMMA BuildKeeps ==
  ASSUME ForeInv, UNCHANGED <<snapVars, study>>, NEW c \in Companies, BuildOne(c)
  PROVE  ForeInv'
<1>1. PredictShape'
  BY DEF ForeInv, PredictShape, BuildOne, snapVars
<1>2. DiskShape' /\ FilesGood'
  BY DEF ForeInv, DiskShape, FilesGood, GoodFile, BuildOne, snapVars
<1> QED BY <1>1, <1>2 DEF ForeInv

\* What a file with other rows or another mark has to show to be good.
LEMMA StillGood ==
  ASSUME NEW fp, NEW f, NEW run \in Paths, f \in Kinds(fp, run), ~f.exists => f.csv = <<>>,
         f.marker.complete => /\ f.marker.run = run /\ Untorn(f.marker.sha256)
                              /\ KeysOf(f.marker.sha256) = PlanOf(fp)
  PROVE  GoodFile(fp, f) /\ f.run = run
BY DEF GoodFile, Kinds

LEMMA ClaimKeeps ==
  ASSUME ForeInv, UNCHANGED <<snapVars, study>>, Claim
  PROVE  ForeInv'
<1> DEFINE p == Fingerprint(predict.v)
<1>1. predict.run \in Paths /\ predict.at = "samples"
  BY DEF ForeInv, PredictShape, Claim
<1>2. CASE Claims(file)
  <2>1. PICK f : f = [file EXCEPT !.run = predict.run]
    BY Zenon
  <2>2. Put(f) /\ Goto("unmark") /\ (\A c \in Tickers(predict.v) : CacheFresh(c))
        /\ UNCHANGED <<samples, study>> /\ UNCHANGED snapVars
    BY <1>2, <2>1, Zenon DEF Claim
  <2>3. GoodFile(p, f) /\ f.run = predict.run
    <3>1. CASE p \in DOMAIN files
      <4>1. file = files[p]
        BY <3>1 DEF file, FileOf
      <4> HIDE DEF p
      <4>2. GoodFile(p, file)
        BY <3>1, <4>1 DEF ForeInv, FilesGood
      <4>3. PICK run \in Paths : 
               /\ file \in Kinds(p, run) /\ (~file.exists => file.csv = <<>>)
               /\ file.marker.complete => /\ file.marker.run = run /\ Untorn(file.marker.sha256)
                                          /\ KeysOf(file.marker.sha256) = PlanOf(p)
        BY <4>2, Zenon DEF GoodFile
      <4>4. file.run = run /\ run = predict.run
        BY <1>2, <4>3 DEF Claims, Kinds
      <4>5. /\ f \in Kinds(p, run) /\ f.run = run
            /\ f.exists = file.exists /\ f.csv = file.csv /\ f.marker = file.marker
        <5>1. run \in {run}
          OBVIOUS
        <5> QED BY <2>1, <4>3, <4>4, <5>1, Replaced, Zenon DEF Kinds
      <4> QED BY <4>3, <4>4, <4>5, StillGood
    <3>2. CASE p \notin DOMAIN files
      <4>1. file = NoFile
        BY <3>2 DEF file, FileOf
      <4> HIDE DEF p
      <4>2. file \in [exists : BOOLEAN, csv : Seq(Rows(p, predict.run)), run : {NoPath},
                      marker : Marks(p, predict.run)]
        BY <4>1 DEF NoFile, NoMarker, Marks
      <4>3. predict.run \in {predict.run}
        OBVIOUS
      <4>4. f \in Kinds(p, predict.run) /\ f.csv = file.csv /\ f.marker = file.marker
        BY <2>1, <4>2, <4>3, Replaced, Zenon DEF Kinds
      <4>5. f.csv = <<>> /\ ~f.marker.complete
        BY <4>1, <4>4 DEF NoFile, NoMarker
      <4> QED BY <1>1, <4>4, <4>5, StillGood
    <3> QED BY <3>1, <3>2
  <2> HIDE DEF p
  <2>4. GoodFile(Fingerprint(predict.v), f)
    BY <2>3 DEF p
  <2> QED BY <1>1, <2>2, <2>3, <2>4, PutStep
<1>3. CASE ~Claims(file)
  BY <1>3, IdleStep DEF Claim
<1> QED BY <1>2, <1>3

LEMMA WithdrawKeeps ==
  ASSUME ForeInv, UNCHANGED <<snapVars, study>>, Withdraw
  PROVE  ForeInv'
<1> DEFINE p == Fingerprint(predict.v)
<1>1. PICK f : f = [file EXCEPT !.marker = NoMarker]
  BY Zenon
<1>2. Put(f) /\ predict.at = "unmark" /\ Goto("rewrite") /\ UNCHANGED <<samples, study>> /\ UNCHANGED snapVars
  BY <1>1, Zenon DEF Withdraw
<1>3. file \in Kinds(p, predict.run) /\ predict.run \in Paths /\ (~file.exists => file.csv = <<>>)
  BY <1>2, ThisFile
<1>4. \A c \in Tickers(predict.v) : CacheFresh(c)
  BY <1>2 DEF ForeInv, PredictShape
<1> HIDE DEF p
<1>5. NoMarker \in Marks(p, predict.run) /\ ~NoMarker.complete
  BY DEF Marks, NoMarker
<1>6. f \in Kinds(p, predict.run) /\ f.exists = file.exists /\ f.csv = file.csv /\ f.marker = NoMarker
  BY <1>1, <1>3, <1>5, Replaced, Zenon DEF Kinds
<1>7. GoodFile(p, f) /\ f.run = predict.run
  BY <1>3, <1>5, <1>6, StillGood
<1>8. GoodFile(Fingerprint(predict.v), f)
  BY <1>7 DEF p
<1> QED BY <1>2, <1>4, <1>7, <1>8, PutStep

-----------------------------------------------------------------------------
(* The predictions: the rows.                                              *)

LEMMA SeqOfMore ==
  ASSUME NEW S, NEW T, S \subseteq T, NEW s \in Seq(S)
  PROVE  s \in Seq(T)
OBVIOUS

\* What is read is whole, and what is whole is read as it is.
LEMMA ReadIsWhole ==
  ASSUME NEW R, NEW csv \in Seq(R)
  PROVE  Read(csv) \in Seq({r \in R : ~r.torn})
<1> DEFINE keep == {i \in DOMAIN csv : ~csv[i].torn}
<1>1. keep \subseteq DOMAIN csv /\ {csv[i] : i \in keep} \subseteq {r \in R : ~r.torn}
  OBVIOUS
<1>2. Read(csv) = At(csv, keep)
  BY DEF Read
<1> HIDE DEF keep
<1>3. At(csv, keep) \in Seq({csv[i] : i \in keep})
  BY <1>1, AtKeeps
<1> QED BY <1>1, <1>2, <1>3, SeqOfMore, Zenon

LEMMA KeptIsWhole ==
  ASSUME NEW R, NEW csv \in Seq(R), NEW v
  PROVE  Kept(csv, v) \in Seq({r \in R : ~r.torn})
<1> DEFINE W == {r \in R : ~r.torn}
           rows == Read(csv)
           keep == {i \in DOMAIN rows : rows[i].key[2] \in CompleteBlocks(rows, v)}
<1>1. rows \in Seq(W)
  BY ReadIsWhole
<1>2. Kept(csv, v) = At(rows, keep)
  BY DEF Kept
<1>3. keep \subseteq DOMAIN rows
  OBVIOUS
<1> HIDE DEF W, rows, keep
<1>4. {rows[i] : i \in keep} \subseteq W
  BY <1>1, <1>3
<1>5. At(rows, keep) \in Seq({rows[i] : i \in keep})
  BY <1>1, <1>3, AtKeeps
<1> QED BY <1>2, <1>4, <1>5, SeqOfMore, Zenon DEF W

LEMMA WholeIsRead ==
  ASSUME NEW R, NEW csv \in Seq(R), Untorn(csv)
  PROVE  Read(csv) = csv
<1>1. {i \in DOMAIN csv : ~csv[i].torn} = DOMAIN csv
  BY DEF Untorn
<1> QED BY <1>1, AtAll DEF Read

\* The rows of a block.
LEMMA KeysFinite ==
  ASSUME DiskShape, NEW v \in {"A", "B"}, disk.top \in Companies, NEW b
  PROVE  IsFiniteSet(Keys(v, b))
<1>1. IsFiniteSet(Tickers(v))
  BY OfFingerprint, FS_Subset, SnapshotAssumption
<1>2. IsFiniteSet(Days)
  <2>1. \A n \in Nat : IsFiniteSet(1 .. n)
    BY FS_Interval
  <2>2. 2 \in Nat
    OBVIOUS
  <2> QED BY <2>1, <2>2, Zenon DEF Days
<1> DEFINE T == Tickers(v)
           D == Days
           K == T \X {b} \X D
           g == [p \in T \X D |-> <<p[1], b, p[2]>>]
<1>3. IsFiniteSet(T \X D)
  <2> HIDE DEF T, D
  <2> QED BY <1>1, <1>2, FS_Product DEF T, D
<1>4. g \in Surjection(T \X D, K)
  <2> HIDE DEF T, D
  <2>1. g \in [T \X D -> K]
    OBVIOUS
  <2>2. \A k \in K : <<k[1], k[3]>> \in T \X D /\ g[<<k[1], k[3]>>] = k
    OBVIOUS
  <2> HIDE DEF g, K
  <2> QED BY <2>1, <2>2 DEF Surjection
<1>5. K = Keys(v, b)
  BY DEF Keys
<1> HIDE DEF T, D, K, g
<1> QED BY <1>3, <1>4, <1>5, FS_Surjection

LEMMA RowsWhole ==
  ASSUME ForeInv, predict.at = "blocks", NEW b \in Blocks
  PROVE  RowsOf(b) \in Seq(Rows(Fingerprint(predict.v), predict.run)) /\ Untorn(RowsOf(b))
<1> DEFINE p == Fingerprint(predict.v)
           keys == SetToSeq(Keys(predict.v, b))
<1>1. DiskShape /\ predict.v \in {"A", "B"} /\ disk.top \in Companies
      /\ \A c \in Tickers(predict.v) : CacheFresh(c)
  BY DEF ForeInv, PredictShape
<1>2. IsFiniteSet(Keys(predict.v, b))
  BY <1>1, KeysFinite
<1>3. PICK n \in Nat : keys \in [1 .. n -> Keys(predict.v, b)]
  BY <1>2, Listing
<1>4. Keys(predict.v, b) \subseteq PlanOf(p)
  <2>1. PlanOf(p) = Plan(predict.v)
    BY <1>1, OfFingerprint
  <2> QED BY <2>1 DEF Plan
<1>5. MadeOf(p) = [c \in Tickers(predict.v) |-> samples[c]]
  <2>1. MadeOf(p) = [c \in Tickers(predict.v) |-> MadeNow(c)]
    BY <1>1, OfFingerprint
  <2> QED BY <1>1, <2>1 DEF CacheFresh
<1> HIDE DEF p, keys
<1>6. \A k \in PlanOf(p) : Row(k, FALSE) \in Rows(p, predict.run) /\ ~Row(k, FALSE).torn
  BY <1>5 DEF Row, Rows
<1>7. RowsOf(b) = [i \in 1 .. n |-> Row(keys[i], FALSE)]
  BY <1>3 DEF RowsOf, keys
<1>8. \A i \in 1 .. n : keys[i] \in PlanOf(p)
  BY <1>3, <1>4
<1>9. /\ RowsOf(b) \in [1 .. n -> Rows(p, predict.run)]
      /\ \A i \in 1 .. n : ~RowsOf(b)[i].torn
  BY <1>6, <1>7, <1>8
<1>10. RowsOf(b) \in Seq(Rows(p, predict.run)) /\ DOMAIN RowsOf(b) = 1 .. n
  BY <1>9
<1> QED BY <1>9, <1>10 DEF p, Untorn

\* There is a first block to do.
LEMMA FirstTodo ==
  ASSUME Todo # {}
  PROVE  Min(Todo) \in Blocks
<1>1. Todo \subseteq Nat /\ Todo \subseteq Blocks
  BY DEF Todo
<1>2. \E n \in Todo : \A m \in Todo : n <= m
  BY <1>1, Least
<1>3. Min(Todo) \in Todo
  BY <1>2, Zenon DEF Min
<1> QED BY <1>1, <1>3

-----------------------------------------------------------------------------
(* The predictions: the steps that write rows and marks.                   *)

LEMMA RewriteKeeps ==
  ASSUME ForeInv, UNCHANGED <<snapVars, study>>, Rewrite
  PROVE  ForeInv'
<1> DEFINE p == Fingerprint(predict.v)
           R == Rows(p, predict.run)
<1>1. /\ predict.at = "rewrite" /\ Goto("blocks")
      /\ UNCHANGED <<samples, study>> /\ UNCHANGED snapVars
  BY DEF Rewrite
<1>2. /\ file \in Kinds(p, predict.run) /\ predict.run \in Paths /\ GoodFile(p, file)
      /\ ~file.exists => file.csv = <<>>
      /\ file.marker.complete =>
           /\ file.marker.run = predict.run /\ Untorn(file.marker.sha256)
           /\ KeysOf(file.marker.sha256) = PlanOf(p)
  BY <1>1, ThisFile
<1>3. \A c \in Tickers(predict.v) : CacheFresh(c)
  BY <1>1 DEF ForeInv, PredictShape
<1>4. CASE file.exists
  <2>1. PICK f : f = [file EXCEPT !.csv = Kept(file.csv, predict.v)]
    BY Zenon
  <2>2. Put(f)
    BY <1>4, <2>1, Zenon DEF Rewrite
  <2>3. file.csv \in Seq(R)
    BY <1>2 DEF Kinds
  <2> HIDE DEF R, p
  <2>4. Kept(file.csv, predict.v) \in Seq({r \in R : ~r.torn})
    BY <2>3, KeptIsWhole
  <2>5. Kept(file.csv, predict.v) \in Seq(R) /\ Untorn(Kept(file.csv, predict.v))
    <3>1. {r \in R : ~r.torn} \subseteq R
      OBVIOUS
    <3>2. Kept(file.csv, predict.v) \in Seq(R)
      BY <2>4, <3>1, SeqOfMore, Zenon
    <3> QED BY <2>4, <3>2 DEF Untorn
  <2>6. /\ f \in Kinds(p, predict.run) /\ f.exists = file.exists
        /\ f.csv = Kept(file.csv, predict.v) /\ f.marker = file.marker
    BY <1>2, <2>1, <2>5, Replaced, Zenon DEF Kinds, R
  <2>7. GoodFile(p, f) /\ f.run = predict.run
    BY <1>2, <1>4, <2>6, StillGood
  <2>8. GoodFile(Fingerprint(predict.v), f)
    BY <2>7 DEF p
  <2>9. Untorn(f.csv)
    BY <2>5, <2>6
  <2> QED BY <1>1, <1>3, <2>2, <2>7, <2>8, <2>9, PutStep
<1>5. CASE ~file.exists
  <2>1. p \in DOMAIN files /\ file.run = predict.run /\ files = [fp \in DOMAIN files |-> files[fp]]
    BY <1>1 DEF ForeInv, PredictShape, FilesGood
  <2>2. file = files[p]
    BY <2>1 DEF file, FileOf
  <2>3. files' = files
    BY <1>5 DEF Rewrite
  <2>4. Untorn(file.csv)
    BY <1>2, <1>5 DEF Untorn
  <2> HIDE DEF p
  <2>5. files = [fp \in DOMAIN files \cup {p} |-> IF fp = p THEN file ELSE files[fp]]
    BY <2>1, <2>2
  <2>6. Put(file)
    BY <2>3, <2>5, Zenon DEF Put, p
  <2>7. GoodFile(Fingerprint(predict.v), file)
    BY <1>2 DEF p
  <2> QED BY <1>1, <1>3, <2>1, <2>4, <2>6, <2>7, PutStep
<1> QED BY <1>4, <1>5

\* Rows are added to a file, whole or not: what it was good for it is.
LEMMA MoreRows ==
  ASSUME ForeInv, predict.at = "blocks",
         NEW csv \in Seq(Rows(Fingerprint(predict.v), predict.run))
  PROVE  \A f : f = [file EXCEPT !.exists = TRUE, !.csv = file.csv \o csv] =>
           /\ GoodFile(Fingerprint(predict.v), f) /\ f.run = predict.run
           /\ Untorn(csv) => Untorn(f.csv)
<1> DEFINE p == Fingerprint(predict.v)
           R == Rows(p, predict.run)
<1>1. /\ file \in Kinds(p, predict.run) /\ predict.run \in Paths
      /\ file.marker.complete =>
           /\ file.marker.run = predict.run /\ Untorn(file.marker.sha256)
           /\ KeysOf(file.marker.sha256) = PlanOf(p)
  BY ThisFile
<1>2. file.csv \in Seq(R) /\ Untorn(file.csv)
  BY <1>1 DEF Kinds, ForeInv, PredictShape
<1> HIDE DEF p, R
<1>3. csv \in Seq(R)
  BY DEF p, R
<1>4. file.csv \o csv \in Seq(R) /\ (Untorn(csv) => Untorn(file.csv \o csv))
  BY <1>2, <1>3 DEF Untorn
<1>5. ASSUME NEW f, f = [file EXCEPT !.exists = TRUE, !.csv = file.csv \o csv]
      PROVE  /\ GoodFile(p, f) /\ f.run = predict.run
             /\ Untorn(csv) => Untorn(f.csv)
  <2>1. f \in Kinds(p, predict.run) /\ f.exists /\ f.csv = file.csv \o csv /\ f.marker = file.marker
    BY <1>1, <1>4, <1>5, Replaced, Zenon DEF Kinds, R
  <2>2. GoodFile(p, f) /\ f.run = predict.run
    BY <1>1, <2>1, StillGood
  <2> QED BY <1>4, <2>1, <2>2
<1> QED BY <1>5, Zenon DEF p

LEMMA AppendKeeps ==
  ASSUME ForeInv, UNCHANGED <<snapVars, study>>, AppendBlock
  PROVE  ForeInv'
<1> DEFINE csv == RowsOf(Min(Todo))
<1>1. /\ predict.at = "blocks" /\ predict' = predict /\ Min(Todo) \in Blocks
      /\ UNCHANGED <<samples, study>> /\ UNCHANGED snapVars
  BY FirstTodo DEF AppendBlock
<1>2. csv \in Seq(Rows(Fingerprint(predict.v), predict.run)) /\ Untorn(csv)
  BY <1>1, RowsWhole
<1>3. PICK f : f = [file EXCEPT !.exists = TRUE, !.csv = file.csv \o csv]
  BY Zenon
<1>4. Put(f)
  BY <1>3, Zenon DEF AppendBlock
<1> HIDE DEF csv
<1>5. GoodFile(Fingerprint(predict.v), f) /\ f.run = predict.run /\ Untorn(f.csv)
  BY ZenonT(60), <1>1, <1>2, <1>3, MoreRows
<1>6. Goto("blocks") /\ \A c \in Tickers(predict.v) : CacheFresh(c)
  BY <1>1 DEF ForeInv, PredictShape, Goto
<1> QED BY <1>1, <1>4, <1>5, <1>6, PutStep

LEMMA CutOffKeeps ==
  ASSUME ForeInv, UNCHANGED <<snapVars, study>>, CutOff
  PROVE  ForeInv'
<1> DEFINE rows == RowsOf(Min(Todo))
           R == Rows(Fingerprint(predict.v), predict.run)
<1>1. /\ predict.at = "blocks" /\ predict' = NoPredict /\ Min(Todo) \in Blocks
      /\ UNCHANGED <<samples, study>> /\ UNCHANGED snapVars
  BY FirstTodo DEF CutOff
<1>2. rows \in Seq(R)
  BY <1>1, RowsWhole
<1>3. PICK n \in DOMAIN rows, torn \in BOOLEAN :
        Put([file EXCEPT !.exists = TRUE, !.csv = file.csv \o [SubSeq(rows, 1, n) EXCEPT ![n].torn = torn]])
  BY DEF CutOff
<1> DEFINE csv == [SubSeq(rows, 1, n) EXCEPT ![n].torn = torn]
<1>4. PICK f : f = [file EXCEPT !.exists = TRUE, !.csv = file.csv \o csv]
  BY Zenon
<1>5. Put(f)
  BY <1>3, <1>4, Zenon
<1>6. csv \in Seq(R)
  <2>1. n \in 1 .. Len(rows) /\ SubSeq(rows, 1, n) \in Seq(R) /\ Len(SubSeq(rows, 1, n)) = n
    BY <1>2, <1>3
  <2>2. \A r \in R : [r EXCEPT !.torn = torn] \in R
    BY <1>3 DEF Rows
  <2> HIDE DEF R, rows
  <2>3. PICK s : s = SubSeq(rows, 1, n)
    BY Zenon
  <2>4. s \in Seq(R) /\ n \in 1 .. Len(s) /\ s[n] \in R
    BY <2>1, <2>3
  <2>5. [s EXCEPT ![n].torn = torn] \in Seq(R)
    <3>1. PICK r : r = [s[n] EXCEPT !.torn = torn]
      BY Zenon
    <3>2. r \in R
      BY <2>2, <2>4, <3>1, Zenon
    <3>3. [s EXCEPT ![n] = r] \in Seq(R)
      BY <2>4, <3>2
    <3> QED BY <3>1, <3>3, Zenon
  <2> QED BY <2>3, <2>5, Zenon
<1> HIDE DEF csv
<1>7. GoodFile(Fingerprint(predict.v), f) /\ f.run = predict.run
  BY <1>1, <1>4, <1>6, MoreRows
<1> QED BY <1>1, <1>5, <1>7, PutStep

\* A mark that says "complete": the rows are every query, and were whole when they were read.
LEMMA MarkKeeps ==
  ASSUME ForeInv, UNCHANGED <<snapVars, study>>, Mark
  PROVE  ForeInv'
<1> DEFINE p == Fingerprint(predict.v)
           rows == Read(file.csv)
           complete == CompleteBlocks(rows, predict.v) = Blocks /\ KeysOf(rows) \subseteq Plan(predict.v)
           m == [complete |-> complete, rows |-> Len(rows), run |-> predict.run, sha256 |-> file.csv]
<1>1. /\ predict.at = "blocks" /\ predict' = NoPredict
      /\ UNCHANGED <<samples, study>> /\ UNCHANGED snapVars
      /\ Put([file EXCEPT !.exists = TRUE, !.marker = m])
  BY DEF Mark
<1>2. /\ file \in Kinds(p, predict.run) /\ predict.run \in Paths
  BY <1>1, ThisFile
<1>3. file.csv \in Seq(Rows(p, predict.run)) /\ Untorn(file.csv)
  BY <1>1, <1>2 DEF Kinds, ForeInv, PredictShape
<1>4. rows = file.csv
  BY <1>3, WholeIsRead
<1>5. complete => KeysOf(file.csv) = PlanOf(p)
  <2>1. PlanOf(p) = Plan(predict.v)
    BY <1>1, OfFingerprint DEF ForeInv, PredictShape
  <2>2. ASSUME NEW b \in CompleteBlocks(rows, predict.v)
        PROVE  Keys(predict.v, b) \subseteq KeysOf(rows)
    BY DEF CompleteBlocks, KeysOf
  <2>3. CompleteBlocks(rows, predict.v) = Blocks => Plan(predict.v) \subseteq KeysOf(rows)
    <3> HIDE DEF rows
    <3> QED BY <2>2, Zenon DEF Plan
  <2> HIDE DEF p, rows
  <2> QED BY <1>4, <2>1, <2>3
<1>6. Len(rows) \in Nat
  BY <1>3, <1>4
<1> HIDE DEF p, rows, complete
<1>7. complete \in BOOLEAN
  BY DEF complete
<1>8. m \in Marks(p, predict.run) /\ m.complete = complete /\ m.run = predict.run /\ m.sha256 = file.csv
  BY <1>3, <1>6, <1>7 DEF Marks
<1> HIDE DEF m
<1>9. PICK f : f = [file EXCEPT !.exists = TRUE, !.marker = m]
  BY Zenon
<1>10. Put(f)
  BY <1>1, <1>9, Zenon
<1>11. f \in Kinds(p, predict.run) /\ f.exists /\ f.marker = m
  BY <1>2, <1>8, <1>9, Replaced, Zenon DEF Kinds
<1>12. GoodFile(p, f) /\ f.run = predict.run
  BY <1>2, <1>3, <1>5, <1>8, <1>11, StillGood
<1>13. GoodFile(Fingerprint(predict.v), f)
  BY <1>12 DEF p
<1> QED BY <1>1, <1>10, <1>12, <1>13, PutStep

\* The end of a file is lost, not what its mark says of it.
LEMMA LoseKeeps ==
  ASSUME ForeInv, UNCHANGED <<snapVars, study>>, Lose
  PROVE  ForeInv'
<1>1. PICK fp \in DOMAIN files :
        files[fp].csv # <<>> /\ files' = [files EXCEPT ![fp].csv = Front(files[fp].csv)]
  BY DEF Lose
<1>2. GoodFile(fp, files[fp])
  BY DEF ForeInv, FilesGood
<1>3. PICK run \in Paths :
        /\ files[fp] \in Kinds(fp, run)
        /\ ~files[fp].exists => files[fp].csv = <<>>
        /\ files[fp].marker.complete =>
             /\ files[fp].marker.run = run /\ Untorn(files[fp].marker.sha256)
             /\ KeysOf(files[fp].marker.sha256) = PlanOf(fp)
  BY <1>2, Zenon DEF GoodFile
<1>4. Front(files[fp].csv) \in Seq(Rows(fp, run))
  <2>1. PICK s : s = files[fp].csv
    BY Zenon
  <2>2. s \in Seq(Rows(fp, run)) /\ s # <<>>
    BY <1>1, <1>3, <2>1 DEF Kinds
  <2>3. Front(s) \in Seq(Rows(fp, run))
    BY <2>2 DEF Front
  <2> QED BY <2>1, <2>3
<1>5. PICK f : f = [files[fp] EXCEPT !.csv = Front(files[fp].csv)]
  BY Zenon
<1>6. f \in Kinds(fp, run) /\ f.exists = files[fp].exists /\ f.marker = files[fp].marker
  BY <1>3, <1>4, <1>5, Replaced, Zenon DEF Kinds
<1>7. GoodFile(fp, f)
  BY <1>1, <1>3, <1>6, StillGood
<1>8. files = [q \in DOMAIN files |-> files[q]]
  BY DEF ForeInv, FilesGood
<1>9. files' = [files EXCEPT ![fp] = f]
  BY <1>1, <1>5, Zenon
<1>10. FilesGood'
  <2>1. \A q \in DOMAIN files : GoodFile(q, files[q])
    BY DEF ForeInv, FilesGood
  <2>2. /\ DOMAIN files' = DOMAIN files /\ files' = [q \in DOMAIN files' |-> files'[q]]
        /\ \A q \in DOMAIN files : files'[q] = IF q = fp THEN f ELSE files[q]
    BY <1>8, <1>9
  <2>3. \A q \in DOMAIN files' : GoodFile(q, files'[q])
    BY <1>7, <2>1, <2>2
  <2> QED BY <2>2, <2>3 DEF FilesGood, GoodFile
<1>11. predict' = NoPredict
  BY DEF Lose
<1> QED BY <1>10, <1>11 DEF ForeInv, DiskShape, PredictShape, NoPredict, snapVars

-----------------------------------------------------------------------------
(* The predictions: what is scored and what is judged.                     *)

\* What the invariant is about is not changed by a measure, nor by a step of nothing.
LEMMA ForeStands ==
  ASSUME ForeInv, UNCHANGED <<snapVars, samples, files, predict, study>>
  PROVE  ForeInv'
<1>1. UNCHANGED <<disk, bars, samples, files, predict, study>>
  BY DEF snapVars
<1>2. DiskShape'
  BY <1>1 DEF ForeInv, DiskShape
<1>3. FilesGood'
  BY <1>1 DEF ForeInv, FilesGood, GoodFile
<1>4. PredictShape'
  <2>1. \A v : Fingerprint(v)' = Fingerprint(v) /\ Tickers(v)' = Tickers(v)
    BY <1>1 DEF Fingerprint, Tickers, Usable
  <2>2. \A c : CacheFresh(c)' = CacheFresh(c)
    BY <1>1 DEF CacheFresh, MadeNow
  <2>3. file' = file
    BY <1>1, <2>1 DEF file, FileOf
  <2> QED BY <1>1, <2>1, <2>2, <2>3 DEF ForeInv, PredictShape
<1> QED BY <1>2, <1>3, <1>4 DEF ForeInv

\* The commands are run one at a time: the snapshot changes while nothing is predicted.
LEMMA ForeKeeps ==
  ASSUME ForeInv, [Next]_vars
  PROVE  ForeInv'
<1>1. CASE study = "fetch" /\ FetchStep /\ UNCHANGED <<foreVars, study>>
  BY <1>1, FetchLeavesPredictions
<1>2. CASE Changes /\ UNCHANGED <<foreVars, study>>
  <2>1. FetchStep
    <3>1. {"refresh"} \cup (IF "B" \in Universes THEN {"delisted"} ELSE {}) \in SUBSET Options
      OBVIOUS
    <3> QED BY <1>2, <3>1, Zenon DEF Changes, FetchStep
  <2>2. predict.at = "idle"
    BY <1>2 DEF Changes
  <2> QED BY <1>2, <2>1, <2>2, FetchLeavesPredictions
<1>3. CASE study = "predict" /\ PredictStep /\ UNCHANGED <<snapVars, study>>
  <2>1. ASSUME Stop
        PROVE  ForeInv'
    BY <1>3, <2>1, IdleStep DEF Stop
  <2>2. ASSUME NEW run \in Paths, Measure(run)
        PROVE  ForeInv'
    <3>1. UNCHANGED <<snapVars, samples, files, predict, study>>
      BY <1>3, <2>2 DEF Measure
    <3> QED BY <3>1, ForeStands
  <2> QED BY <1>3, <2>1, <2>2, StartKeeps, BuildKeeps, ClaimKeeps, WithdrawKeeps, RewriteKeeps,
             AppendKeeps, CutOffKeeps, MarkKeeps, LoseKeeps DEF PredictStep
<1>4. CASE UNCHANGED vars
  <2>1. UNCHANGED <<snapVars, samples, files, predict, study>>
    BY <1>4 DEF vars, foreVars
  <2> QED BY <2>1, ForeStands
<1> QED BY <1>1, <1>2, <1>3, <1>4 DEF Next

\* The invariant of the predictions, whatever ranks first or is delisted.
LEMMA ForeInvariant == Spec => []ForeInv
<1>1. Init => ForeInv
  BY ForeInitially
<1>2. ForeInv /\ [Next]_vars => ForeInv'
  BY ForeKeeps
<1> QED BY <1>1, <1>2, PTL DEF Spec

\* A file that is taken for complete is as it was when its mark was made.
LEMMA ScoredFile ==
  ASSUME ForeInv, NEW v \in {"A", "B"}, Scored(v)
  PROVE  LET f == FileOf(v) fp == Fingerprint(v)
         IN  \E run \in Paths :
               /\ f.csv \in Seq(Rows(fp, run)) /\ Untorn(f.csv) /\ KeysOf(f.csv) = PlanOf(fp)
               /\ f.marker.run = run /\ Len(f.csv) = Cardinality(KeysOf(f.csv))
<1> DEFINE f == FileOf(v)
           fp == Fingerprint(v)
<1>1. f.exists /\ f.marker.complete /\ Verified(f)
  BY DEF Scored
<1>2. fp \in DOMAIN files /\ f = files[fp]
  BY <1>1 DEF FileOf, NoFile
<1> HIDE DEF f, fp
<1>3. GoodFile(fp, f)
  BY <1>2 DEF ForeInv, FilesGood
<1>4. PICK run \in Paths :
        /\ f \in Kinds(fp, run)
        /\ f.marker.run = run /\ Untorn(f.marker.sha256) /\ KeysOf(f.marker.sha256) = PlanOf(fp)
  BY <1>1, <1>3, Zenon DEF GoodFile
<1>5. f.csv \in Seq(Rows(fp, run)) /\ f.csv = f.marker.sha256
  BY <1>1, <1>4 DEF Kinds, Verified
<1>6. Read(f.csv) = f.csv
  BY <1>4, <1>5, WholeIsRead
<1>7. Len(f.csv) = Cardinality(KeysOf(f.csv))
  BY <1>1, <1>6 DEF Verified
<1> QED BY <1>4, <1>5, <1>7 DEF f, fp

\* ScoredIsWhole, for any companies, whatever was cut off, lost or fetched anew.
THEOREM OnlyWholeIsScored == Spec => []ScoredIsWhole
<1>1. ASSUME ForeInv
      PROVE  ScoredIsWhole
  <2> SUFFICES ASSUME NEW v \in Universes, Scored(v)
               PROVE  LET csv == FileOf(v).csv
                      IN /\ KeysOf(csv) = Plan(v) /\ Len(csv) = Cardinality(Plan(v))
                         /\ \A i \in DOMAIN csv : ~csv[i].torn /\ \A c \in Tickers(v) : csv[i].from[c] = MadeNow(c)
    BY Zenon DEF ScoredIsWhole
  <2> DEFINE csv == FileOf(v).csv
             fp == Fingerprint(v)
  <2>1. PICK run \in Paths : /\ csv \in Seq(Rows(fp, run)) /\ Untorn(csv) /\ KeysOf(csv) = PlanOf(fp)
                             /\ Len(csv) = Cardinality(KeysOf(csv))
    BY <1>1, ScoredFile
  <2>2. disk.top \in Companies
    BY <1>1 DEF Scored, Accepts, ForeInv, DiskShape
  <2>3. PlanOf(fp) = Plan(v) /\ MadeOf(fp) = [c \in Tickers(v) |-> MadeNow(c)]
    BY <1>1, <2>2, OfFingerprint DEF ForeInv
  <2> HIDE DEF csv, fp
  <2>4. ASSUME NEW i \in DOMAIN csv
        PROVE  ~csv[i].torn /\ \A c \in Tickers(v) : csv[i].from[c] = MadeNow(c)
    <3>1. csv[i] \in Rows(fp, run)
      BY <2>1
    <3>2. csv[i].from = MadeOf(fp)
      BY <3>1 DEF Rows
    <3> QED BY <2>1, <2>3, <3>2 DEF Untorn
  <2> QED BY <2>1, <2>3, <2>4 DEF csv
<1> QED BY <1>1, ForeInvariant, PTL

\* JudgedOnOnePath, for any devices and code paths.
THEOREM OnePathIsJudged == Spec => []JudgedOnOnePath
<1>1. ASSUME ForeInv
      PROVE  JudgedOnOnePath
  <2>1. ASSUME NEW v \in Universes, Scored(v)
        PROVE  OnPath(v, FileOf(v).marker.run)
    <3> DEFINE csv == FileOf(v).csv
               fp == Fingerprint(v)
    <3>1. PICK run \in Paths : csv \in Seq(Rows(fp, run)) /\ FileOf(v).marker.run = run
      BY <1>1, <2>1, ScoredFile
    <3> HIDE DEF csv, fp
    <3>2. ASSUME NEW i \in DOMAIN csv
          PROVE  csv[i].run = run
      <4>1. csv[i] \in Rows(fp, run)
        BY <3>1
      <4> QED BY <4>1 DEF Rows
    <3> QED BY <3>1, <3>2 DEF OnPath, csv
  <2>2. ASSUME Judged
        PROVE  OnPath("A", latency)
    <3> DEFINE f == FileOf("A")
               fp == Fingerprint("A")
    <3>1. latency # NoPath /\ f.marker.run = latency
      BY <2>2 DEF Judged, DelayMatches
    <3>2. fp \in DOMAIN files /\ f = files[fp]
      BY <3>1 DEF FileOf, NoFile, NoMarker
    <3> HIDE DEF f, fp
    <3>3. PICK run \in Paths : f \in Kinds(fp, run)
      BY <1>1, <3>2, Zenon DEF ForeInv, FilesGood, GoodFile
    <3>4. f.csv \in Seq(Rows(fp, run)) /\ f.marker.run \in {run, NoPath}
      BY <3>3 DEF Kinds, Marks
    <3>5. ASSUME NEW i \in DOMAIN f.csv
          PROVE  f.csv[i].run = latency
      <4>1. f.csv[i] \in Rows(fp, run)
        BY <3>4
      <4> QED BY <3>1, <3>4, <4>1 DEF Rows
    <3> QED BY <3>5 DEF OnPath, f
  <2> QED BY <2>1, <2>2 DEF JudgedOnOnePath
<1> QED BY <1>1, ForeInvariant, PTL

=============================================================================
