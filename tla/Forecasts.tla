----------------------------- MODULE Forecasts -----------------------------
(***************************************************************************)
(* `predict`, `latency` and `evaluate` of mitra_filter_experiment.py, on   *)
(* the snapshot that `fetch` keeps.  One file of predictions stands for    *)
(* each universe and each state of the bars it is made of (the fingerprint *)
(* has the digest of every CSV); besides it lie the path it was computed   *)
(* on and, when it is done, a mark with its digest.  A run adds a block of *)
(* rows at a time, may be cut off in the middle of a row, and is resumed.  *)
(* One horizon and one template; what the model computes is not modelled,  *)
(* but from which samples and on which path it did.                        *)
(***************************************************************************)
EXTENDS Snapshot

CONSTANTS Universes,  \* of {"A", "B"}: those that are predicted
          Paths,      \* devices and code paths a prediction can be computed on
          NoPath,
          MaxLosses   \* a bound: files that a power failure cut

ASSUME ForecastsAssumption ==
  /\ Universes \subseteq {"A", "B"} /\ NoPath \notin Paths /\ MaxLosses \in Nat

VARIABLES
  samples,  \* the cached samples of each company, as digests of what they were made of
  files,    \* the predictions of each fingerprint
  predict,  \* the running prediction
  latency,  \* latency.json: the path it was measured on
  losses

foreVars == <<samples, files, predict, latency, losses>>

Blocks    == 1..2
Days      == 1..2    \* days with a query in each block
NoSample  == [own |-> NoBars, ks |-> NoBars]
NoMarker  == [complete |-> FALSE, rows |-> 0, run |-> NoPath, sha256 |-> <<>>]
NoFile    == [exists |-> FALSE, csv |-> <<>>, run |-> NoPath, marker |-> NoMarker]
NoPredict == [at |-> "idle", v |-> "A", run |-> NoPath]

ForeInit ==
  /\ samples = [c \in Companies |-> NoSample] /\ files = <<>>
  /\ predict = NoPredict /\ latency = NoPath /\ losses = 0

Fingerprint(v) == <<v, [c \in {Index} \cup Tickers(v) |-> bars[c]]>>
FileOf(v)      == IF Fingerprint(v) \in DOMAIN files THEN files[Fingerprint(v)] ELSE NoFile
file           == FileOf(predict.v)
Put(f)         == files' = [fp \in DOMAIN files \cup {Fingerprint(predict.v)} |->
                              IF fp = Fingerprint(predict.v) THEN f ELSE files[fp]]

\* plan_blocks and expected_keys: the queries of a block.
Keys(v, b) == Tickers(v) \X {b} \X Days
Plan(v)    == UNION {Keys(v, b) : b \in Blocks}

KeysOf(rows) == {rows[i].key : i \in DOMAIN rows}

\* The rows at the places in keep, in order.
At(rows, keep) ==
  LET f[n \in 0 .. Len(rows)] == IF n = 0 THEN <<>>
                                 ELSE IF n \in keep THEN Append(f[n - 1], rows[n]) ELSE f[n - 1]
  IN f[Len(rows)]

\* read_preds: rows that are whole.  (Mutant: a last row without its end counts.)
WithTorn(csv) == csv
Read(csv)     == At(csv, {i \in DOMAIN csv : ~csv[i].torn})

\* Exactly the block's keys, each once.
CompleteBlocks(rows, v) ==
  {b \in Blocks : LET own == {i \in DOMAIN rows : rows[i].key[2] = b}
                  IN /\ {rows[i].key : i \in own} = Keys(v, b)
                     /\ Cardinality(own) = Cardinality(Keys(v, b))}

-----------------------------------------------------------------------------
(* load_samples.                                                           *)

MadeNow(c) == [own |-> bars[c], ks |-> bars[Index]]

CacheFresh(c) == samples[c] = MadeNow(c)

Start(v, run) ==
  /\ predict.at = "idle" /\ Accepts(v)
  /\ predict' = [at |-> "samples", v |-> v, run |-> run]
  /\ UNCHANGED <<samples, files, latency, losses>>

BuildOne(c) ==
  /\ predict.at = "samples" /\ c \in Tickers(predict.v) /\ ~CacheFresh(c)
  /\ samples' = [samples EXCEPT ![c] = MadeNow(c)]
  /\ UNCHANGED <<files, predict, latency, losses>>

-----------------------------------------------------------------------------
(* The predictions.                                                        *)

Goto(at) == predict' = [predict EXCEPT !.at = at]

\* claim_run: a file is of one path.  (Mutant: of the last one that asked.)
Overrides(f) == TRUE
Claims(f)    == f.run \in {NoPath, predict.run} /\ (f.run = NoPath => ~f.exists)

Claim ==
  /\ predict.at = "samples" /\ \A c \in Tickers(predict.v) : CacheFresh(c)
  /\ IF Claims(file)
     THEN Put([file EXCEPT !.run = predict.run]) /\ Goto("unmark")
     ELSE predict' = NoPredict /\ UNCHANGED files
  /\ UNCHANGED <<samples, latency, losses>>

Withdraw ==
  /\ predict.at = "unmark"
  /\ Put([file EXCEPT !.marker = NoMarker]) /\ Goto("rewrite")
  /\ UNCHANGED <<samples, latency, losses>>

\* Blocks that are not complete are thrown away, and torn rows with them.
Kept(csv, v) ==
  LET rows == Read(csv)
  IN At(rows, {i \in DOMAIN rows : rows[i].key[2] \in CompleteBlocks(rows, v)})

Rewrite ==
  /\ predict.at = "rewrite"
  /\ IF file.exists THEN Put([file EXCEPT !.csv = Kept(@, predict.v)]) ELSE UNCHANGED files
  /\ Goto("blocks")
  /\ UNCHANGED <<samples, latency, losses>>

Row(key, torn) == [key |-> key, torn |-> torn, run |-> predict.run,
                   from |-> [c \in Tickers(predict.v) |-> samples[c]]]
RowsOf(b) == LET keys == SetToSeq(Keys(predict.v, b)) IN [i \in DOMAIN keys |-> Row(keys[i], FALSE)]

Todo == Blocks \ CompleteBlocks(Read(file.csv), predict.v)

AppendBlock ==
  /\ predict.at = "blocks" /\ Todo # {}
  /\ Put([file EXCEPT !.exists = TRUE, !.csv = @ \o RowsOf(Min(Todo))])
  /\ UNCHANGED <<samples, predict, latency, losses>>

\* The run is cut off while it writes: some rows are there, the last one perhaps in part.
CutOff ==
  /\ predict.at = "blocks" /\ Todo # {}
  /\ \E n \in DOMAIN RowsOf(Min(Todo)), torn \in BOOLEAN :
       Put([file EXCEPT !.exists = TRUE,
              !.csv = @ \o [SubSeq(RowsOf(Min(Todo)), 1, n) EXCEPT ![n].torn = torn]])
  /\ predict' = NoPredict
  /\ UNCHANGED <<samples, latency, losses>>

Mark ==
  LET rows == Read(file.csv)
      complete == CompleteBlocks(rows, predict.v) = Blocks /\ KeysOf(rows) \subseteq Plan(predict.v)
  IN /\ predict.at = "blocks" /\ Todo = {}
     /\ Put([file EXCEPT !.exists = TRUE,
               !.marker = [complete |-> complete, rows |-> Len(rows), run |-> predict.run, sha256 |-> file.csv]])
     /\ predict' = NoPredict
     /\ UNCHANGED <<samples, latency, losses>>

Stop == predict.at # "idle" /\ predict' = NoPredict /\ UNCHANGED <<samples, files, latency, losses>>

\* A power failure takes the end of a file that was written, not its mark.
Lose ==
  /\ losses < MaxLosses /\ losses' = losses + 1 /\ predict' = NoPredict
  /\ \E fp \in DOMAIN files :
       /\ files[fp].csv # <<>>
       /\ files' = [files EXCEPT ![fp].csv = Front(@)]
  /\ UNCHANGED <<samples, latency>>

\* cmd_latency: three loads and one answer, timed.
Measure(run) == predict.at = "idle" /\ latency' = run /\ UNCHANGED <<samples, files, predict, losses>>

PredictStep ==
  \/ \E v \in Universes, run \in Paths : Start(v, run)
  \/ \E c \in Companies : BuildOne(c)
  \/ Claim \/ Withdraw \/ Rewrite \/ AppendBlock \/ CutOff \/ Mark \/ Stop \/ Lose
  \/ \E run \in Paths : Measure(run)

-----------------------------------------------------------------------------
(* evaluate.  It writes only its report, and what the report may say is a  *)
(* function of the rest.                                                   *)

\* verify_preds.
Verified(f) ==
  /\ f.csv = f.marker.sha256
  /\ Len(Read(f.csv)) = f.marker.rows
  /\ Cardinality(KeysOf(Read(f.csv))) = f.marker.rows

\* load_complete_preds: the predictions are taken for complete.
Scored(v) == Accepts(v) /\ FileOf(v).exists /\ FileOf(v).marker.complete /\ Verified(FileOf(v))

\* g0_section: predictions of every universe, or it cannot be judged.
G0Ready == \A v \in Universes : Scored(v)

\* latency_matches.
DelayMatches == latency # NoPath /\ latency = FileOf("A").marker.run

\* final_verdict: adopted or rejected, and not "cannot be judged".
Judged == G0Ready /\ DelayMatches

=============================================================================
