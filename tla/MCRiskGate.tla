----------------------------- MODULE MCRiskGate -----------------------------
(* A model-checking instance of RiskGate: the tickers are interchangeable.  *)
EXTENDS RiskGate, TLC
CONSTANTS t1, t2
MCTickers == {t1, t2}
Symmetry  == Permutations(MCTickers)
=============================================================================
