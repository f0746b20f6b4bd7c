SPECIFICATION Spec
CONSTANTS
  Index = Index
  Companies = {c1, c2, c3}
  NoCode = NoCode
  Transfers = FALSE
  MinDelisted = 1
  MaxRuns = 3
  Universes = {"A"}
  Paths = {p1, p2}
  NoPath = NoPath
  MaxLosses = 1
  MaxChanges = 2
INVARIANTS
  OneSnapshot
  KeepsItsDead
  TwoFailures
  ScoredIsWhole
  
CHECK_DEADLOCK FALSE
