SPECIFICATION GuardrailSpec
CONSTANTS
  Malformed = Malformed
  Finite <- MCFinite
  Inf <- MCInf
  One <- MCOne
  NanosPerSecond <- MCNanosPerSecond
  Round <- MCRound
  Trees <- MCTrees
  Thresholds <- MCThresholds
INVARIANTS
  DirectLayoutWins
  VerdictIsRight
CHECK_DEADLOCK FALSE
