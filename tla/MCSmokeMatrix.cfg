SPECIFICATION Spec
CONSTANTS
  Blank = Blank
  Unparsable = Unparsable
  Err = Err
  thresholds <- MCThresholds
  ClaimsFiles <- MCClaimsFiles
  Patterns = {"request", "panic"}
  Prints <- MCPrints
  Endings <- MCEndings
  MaxLines = 1
  Selections <- MCSelections
INVARIANTS
  SmokeTypeOK
  PassIsClean
  PassIsEarned
  MatrixPassIsHonest
PROPERTY MatrixEnds
CHECK_DEADLOCK FALSE
