------------------------------ MODULE Snapshot ------------------------------
(***************************************************************************)
(* The data of the offline experiment: `fetch` of                          *)
(* mitra_filter_experiment.py, a script that is run by hand, can be cut    *)
(* off at any point and is run again.  On disk it keeps universe.json and  *)
(* a CSV of daily bars for each code; each is replaced atomically, and a   *)
(* write is one step.                                                      *)
(*                                                                         *)
(* The universe: the index KS11, the companies that rank first (here one;  *)
(* the three fixed ones of the evaluation are fetched like it, and left    *)
(* out), and, for universe B, the companies that were delisted.  A history *)
(* is the parts of it that an answer covered, and the run that fetched it: *)
(* the day it ends on.  universe.json is of the present schema.            *)
(***************************************************************************)
EXTENDS Naturals, Sequences, SequencesExt

CONSTANTS Index,        \* KS11
          Companies,    \* who may rank first, or be delisted
          NoCode,
          Transfers,    \* may a company that ranks first be on the delisted list
          MinDelisted,  \* MIN_DELISTED
          MaxRuns       \* a bound: fetches

ASSUME SnapshotAssumption ==
  /\ IsFiniteSet(Companies) /\ Index \notin Companies /\ NoCode \notin Companies
  /\ Transfers \in BOOLEAN /\ MinDelisted \in Nat /\ MaxRuns \in Nat

VARIABLES
  disk,   \* universe.json; what a run holds of it in memory it has always just written
  bars,   \* the CSV of each code
  fetch,  \* the running fetch: its options, and the rest of what it holds in memory
  past    \* for the properties: fetches so far, failures in a row of the delisted, codes once used

snapVars == <<disk, bars, fetch, past>>

Codes   == {Index} \cup Companies
Options == {"refresh", "delisted", "universe"}
Parts   == {"head", "tail"}  \* the first years, the last days
NoBars  == [run |-> 0, parts |-> {}]
Has(c)  == bars[c] # NoBars  \* _has_bars

NewUniverse == [complete |-> TRUE, scope |-> {}, top |-> NoCode, former |-> {},
                listed |-> FALSE, gone |-> {}, kept |-> {}, once |-> {}, missing |-> {}, stale |-> FALSE]
NoFetch == [at |-> "idle", args |-> {}, prior |-> {}, mandatory |-> {},
            todo |-> <<>>, failed |-> {}, got |-> {}]

SnapInit ==
  /\ disk = NewUniverse /\ bars = [c \in Codes |-> NoBars] /\ fetch = NoFetch
  /\ past = [runs |-> 0, fails |-> [c \in Codes |-> 0], used |-> {}]

-----------------------------------------------------------------------------
(* What the other commands take for a snapshot: universe_tickers.          *)

Delisted == disk.gone \ {disk.top}     \* delisted_codes
Usable   == disk.gone \ disk.missing
Tickers(v) == {disk.top} \cup IF v = "B" THEN Usable ELSE {}

\* late_start_codes and lagging_codes; listing dates are known.  Two histories that
\* both reach their last days may be as far apart as the runs that fetched them, and
\* if that is five days no check sees it.
Late    == {c \in {Index, disk.top} \ {NoCode} : Has(c) /\ "head" \notin bars[c].parts}
Lagging == {c \in {disk.top} \ {NoCode} : Has(c) /\ "tail" \in bars[Index].parts \ bars[c].parts}
Ahead   == {c \in {disk.top} \ {NoCode} : "tail" \in bars[c].parts
              /\ ("tail" \notin bars[Index].parts \/ bars[c].run > bars[Index].run)}

Accepts(v) ==
  /\ disk.complete /\ disk.top # NoCode
  /\ v = "B" => disk.listed /\ ~disk.stale /\ Cardinality(Usable) >= MinDelisted
  /\ \A c \in {Index} \cup Tickers(v) : Has(c)
  /\ Late \cup Lagging \cup Ahead = {}

-----------------------------------------------------------------------------
(* cmd_fetch, to its first write.                                          *)

\* check_fetch_resume: what was left incomplete is done again, as widely and anew.
\* (Mutant: files that were fetched before the break are kept.)
ResumesWhereItStopped(args) == disk.complete \/ disk.scope \subseteq args
Resumes(args)               == disk.complete \/ (disk.scope \subseteq args /\ "refresh" \in args)

\* The universe refreshed, the bars are.  The mark that the fetch is not complete
\* goes to disk before anything changes.
Begin(asked) ==
  LET args == asked \cup IF "universe" \in asked THEN {"refresh"} ELSE {}
  IN /\ fetch.at = "idle" /\ past.runs < MaxRuns
     /\ Resumes(args)
     /\ disk' = [disk EXCEPT !.complete = FALSE, !.scope = args \ {"refresh"}]
     /\ fetch' = [NoFetch EXCEPT !.at = "list", !.args = args, !.prior = disk.kept,
                    !.mandatory = {c \in {disk.top} \cup disk.former : c # NoCode /\ Has(c)}]
     /\ past' = [past EXCEPT !.runs = @ + 1]
     /\ UNCHANGED bars

-----------------------------------------------------------------------------
(* The lists, to the second write.                                         *)

\* b_stale_after: whether B mixes two days after this fetch.
StaleAfter(listed) ==
  listed /\ IF "refresh" \in fetch.args THEN "delisted" \notin fetch.args ELSE disk.stale

\* Who ranked first, was fetched, and is delisted now was received before: losing it
\* is a failure.  (Mutant: it is taken for any delisted company.)
Unprotected(gone) == {}
Moved(gone)       == fetch.mandatory \cap gone

\* top_by_marcap: any company, when a ranking is asked for.
RankFirst == IF disk.top = NoCode \/ "universe" \in fetch.args THEN Companies ELSE {disk.top}

\* parse_delisted and check_delisted_list: the delisted are only ever more, and enough.
\* (A list that is short, malformed or not answered ends the run: Die.)
Relists == "delisted" \in fetch.args /\ (~disk.listed \/ "refresh" \in fetch.args)
Listed  == IF Relists THEN {gone \in SUBSET Companies : disk.gone \subseteq gone /\ Cardinality(gone) >= MinDelisted}
           ELSE {disk.gone}

List ==
  /\ fetch.at = "list"
  /\ \E top \in RankFirst, gone \in Listed :
       /\ Transfers \/ top \notin gone
       /\ disk' = [disk EXCEPT !.top = top, !.gone = gone, !.listed = @ \/ Relists,
                     !.former = @ \cup (fetch.mandatory \cap ({disk.top} \ {top})),
                     !.stale = StaleAfter(disk.listed \/ Relists),
                     !.kept = IF Moved(gone) = {} THEN @ ELSE fetch.prior \cup Moved(gone)]
       /\ fetch' = [fetch EXCEPT !.at = "bars", !.prior = @ \cup Moved(gone),
                      !.todo = <<Index, top>> \o SetToSeq(IF "delisted" \in fetch.args
                                                         THEN gone \ {top} ELSE {})]
  /\ UNCHANGED <<bars, past>>

-----------------------------------------------------------------------------
(* The bars of one code.                                                   *)

Code == Head(fetch.todo)

\* The run goes on, with this code among the failed or not.
Done(failed) == fetch' = [fetch EXCEPT !.at = "bars", !.got = {}, !.todo = Tail(@),
                            !.failed = @ \cup (IF failed THEN {Code} ELSE {})]
Received == past' = [past EXCEPT !.fails[Code] = 0]
Refused  == past' = [past EXCEPT !.fails[Code] = IF Code \in Delisted THEN Min({@ + 1, 2}) ELSE @]

Fetching == fetch.at = "bars" /\ fetch.todo # <<>>
Asks     == Fetching /\ (~Has(Code) \/ "refresh" \in fetch.args)

Skip == Fetching /\ ~Asks /\ Done(FALSE) /\ UNCHANGED <<disk, bars, past>>

\* A delisted company's answer must reach from its listing to its end
\* (delisted_response_truncated); what was received before may not shrink
\* (coverage_shrunk), and if it does the old bars stay, to measure the next one by.
Bad(parts)  == parts = {} \/ (Code \in Delisted /\ parts # Parts)
Protected   == Code \notin Delisted \/ Code \in fetch.prior
Keeps(parts) == Protected /\ Has(Code) /\ (Bad(parts) \/ ~(bars[Code].parts \subseteq parts))

Answered(parts) ==
  /\ Asks
  /\ \/ /\ Keeps(parts) /\ Done(TRUE) /\ Refused /\ UNCHANGED <<disk, bars>>
     \/ /\ ~Keeps(parts) /\ Bad(parts)
        /\ bars' = [bars EXCEPT ![Code] = NoBars]
        /\ Done(TRUE) /\ Refused /\ UNCHANGED disk
     \/ /\ ~Keeps(parts) /\ ~Bad(parts)
        /\ fetch' = [fetch EXCEPT !.at = "save", !.got = parts]
        /\ UNCHANGED <<disk, bars, past>>

\* (Mutant: the mark of a first failure is left to the end of the run.)
MarkedOrNot == TRUE

\* It goes, to disk, before the bars are written: cut off between the two, the next
\* failure is a first one.
Unmarked    == Code \notin disk.once

Unmark ==
  /\ fetch.at = "save" /\ ~Unmarked
  /\ disk' = [disk EXCEPT !.once = @ \ {Code}]
  /\ UNCHANGED <<bars, fetch, past>>

Save ==
  /\ fetch.at = "save" /\ Unmarked
  /\ bars' = [bars EXCEPT ![Code] = [run |-> past.runs, parts |-> fetch.got]]
  /\ Done(FALSE) /\ Received /\ UNCHANGED disk

-----------------------------------------------------------------------------
(* The end.                                                                *)

\* The delisted that cannot be had are counted by a run that asked for them.
Tally ==
  /\ fetch.at = "bars" /\ fetch.todo = <<>>
  /\ disk' = [disk EXCEPT !.missing = IF "delisted" \in fetch.args
                                      THEN {c \in disk.gone : ~Has(c)} ELSE @]
  /\ fetch' = [fetch EXCEPT !.at = "finish", !.failed = @ \cup Lagging \cup Late]
  /\ UNCHANGED <<bars, past>>

\* finish_fetch: a delisted company is given up when it fails a second time in a row.
Finish ==
  LET asked == "delisted" \in fetch.args
      once  == IF asked THEN disk.once \cap fetch.failed ELSE disk.once
      required == {c \in fetch.failed : c \notin disk.gone \/ c \in fetch.prior \/ (asked /\ c \notin once)}
      complete == required = {}
  IN /\ fetch.at = "finish"
     /\ disk' = [disk EXCEPT !.complete = complete,
                   !.once = IF asked THEN once \cup (fetch.failed \cap disk.gone) ELSE @,
                   !.kept = IF complete /\ asked THEN Usable
                            ELSE IF fetch.prior # {} THEN fetch.prior ELSE @]
     /\ fetch' = NoFetch
     /\ past' = IF complete
                THEN [past EXCEPT !.used = @ \cup {disk.top} \cup IF asked THEN Usable ELSE {}] ELSE past
     /\ UNCHANGED bars

\* The run is cut off, or ends itself.
Die == fetch.at # "idle" /\ fetch' = NoFetch /\ UNCHANGED <<disk, bars, past>>

FetchStep ==
  \/ \E asked \in SUBSET Options : Begin(asked)
  \/ List \/ Skip \/ Unmark \/ Save \/ Tally \/ Finish \/ Die
  \/ \E parts \in SUBSET Parts : Answered(parts)

=============================================================================
