----------------------------- MODULE MCOrderFlow -----------------------------
(* Model-checking instances of OrderFlow.                                  *)
EXTENDS OrderFlow, TLC

CONSTANTS l1, l2, l3

\* Two strategies on one ticker, and a third lot on another.
OneTicker  == [l \in {l1} |-> "A"]
TwoTickers == [l \in {l1, l2} |-> "A"] @@ (l3 :> "B")
=============================================================================
