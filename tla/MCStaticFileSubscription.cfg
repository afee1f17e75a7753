SPECIFICATION StaticFileSpec
CONSTANTS
  Missing = Missing
  NotAList = NotAList
  MalformedAuthorities = {}
  Callers = {c1, c2}
  FileContents <- MCFileContents
  Topics <- MCTopics
  MaxEdits = 2
  MaxClears = 1
SYMMETRY CallerSymmetry
INVARIANTS
  StaticFileTypeOK
  AnswersMatchTheFile
  AnswersAgreeBetweenClears
  AnswersAreFresh
  StaleOnlyFromLoadsInProgress
