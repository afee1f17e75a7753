SPECIFICATION StartupSpec
CONSTANTS
  Missing = Missing
  zenoh = zenoh
  mqtt = mqtt
  someip = someip
  MalformedAuthorities = {}
  Responses <- MCResponses
  MaxSnapshots = 3
  MaxAttempts = 5
  Endpoints <- MCEndpoints
  Routes = {}
  Senders = {}
  Configs <- MCConfigs
INVARIANTS
  HealthSummarisesAttempts
  HealthMatchesDirectory
  ReadyMeansWired
  OnlySoundConfigsStart
  SoundConfigsStart
PROPERTY StartupEnds
CHECK_DEADLOCK FALSE
