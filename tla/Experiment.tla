----------------------------- MODULE Experiment -----------------------------
(***************************************************************************)
(* The offline experiment: the snapshot that `fetch` keeps, and the        *)
(* predictions that are made of it and judged.  The commands are run by    *)
(* hand, one at a time, each may be cut off, in any order.                 *)
(*                                                                         *)
(* `study`, chosen at the start, bounds what is looked at: the histories   *)
(* of "fetch" alone, with all its options and MaxRuns runs of it, or those *)
(* of "predict", with few changes of the snapshot under the predictions.   *)
(***************************************************************************)
EXTENDS Forecasts

CONSTANT MaxChanges  \* a bound: fetches of the study of predictions

VARIABLE study

vars == <<snapVars, foreVars, study>>

Init == SnapInit /\ ForeInit /\ study \in {"fetch", "predict"}

\* A snapshot for the study of predictions: a whole fetch of the index and a company,
\* and of the delisted if they are predicted, anew, and no answer short.  The company is always the same one: before List they are
\* interchangeable.
Changes ==
  /\ study = "predict" /\ predict.at = "idle"
  /\ \/ past.runs < MaxChanges /\ Begin({"refresh"} \cup IF "B" \in Universes THEN {"delisted"} ELSE {})
     \/ fetch.at # "idle" /\ FetchStep /\ fetch'.failed = {} /\ (fetch' = NoFetch => fetch.at = "finish")
        /\ disk'.top \in {NoCode, CHOOSE c \in Companies : TRUE}

Next ==
  \/ study = "fetch" /\ FetchStep /\ UNCHANGED <<foreVars, study>>
  \/ Changes /\ UNCHANGED <<foreVars, study>>
  \/ study = "predict" /\ fetch.at = "idle" /\ PredictStep /\ UNCHANGED <<snapVars, study>>

Spec == Init /\ [][Next]_vars

-----------------------------------------------------------------------------
(* What a snapshot that is accepted is worth.                              *)

\* The index and the company that ranks first were fetched by one run: a later one that
\* is resumed where an earlier one stopped mixes two days (check_fetch_resume).
OneSnapshot == Accepts("A") => bars[disk.top].run = bars[Index].run

\* Universe B never shrinks in silence: a company that was once used, in A or in B, and
\* is delisted is in B (available_baseline, finish_fetch).
KeepsItsDead == Accepts("B") => past.used \cap disk.gone \subseteq Usable

\* A delisted company is left out of B only after two runs in a row that asked for it in
\* vain (finish_fetch, and the order of the two writes of cmd_fetch).
TwoFailures == Accepts("B") => \A c \in disk.gone \ Usable : past.fails[c] >= 2

-----------------------------------------------------------------------------
(* What a verdict is made of.                                              *)

\* Predictions that are taken for complete are every query of the plan, once each, no
\* row torn, all of samples made from the bars as they are, whatever was cut off, lost
\* or changed before (complete_blocks, _cache_fresh, verify_preds).
ScoredIsWhole ==
  \A v \in Universes : Scored(v) =>
    LET csv == FileOf(v).csv
    IN /\ KeysOf(csv) = Plan(v) /\ Len(csv) = Cardinality(Plan(v))
       /\ \A i \in DOMAIN csv : ~csv[i].torn /\ \A c \in Tickers(v) : csv[i].from[c] = MadeNow(c)

\* Predictions that are scored were all computed on the path of their mark; and a verdict
\* is of predictions of universe A that were all computed on the path whose delay was
\* measured (claim_run, latency_matches; the delay is not compared with B's path).
OnPath(v, run)  == \A i \in DOMAIN FileOf(v).csv : FileOf(v).csv[i].run = run
JudgedOnOnePath ==
  /\ \A v \in Universes : Scored(v) => OnPath(v, FileOf(v).marker.run)
  /\ Judged => OnPath("A", latency)

=============================================================================
