SPECIFICATION LiveSpec
CONSTANTS
  Missing = Missing
  NoListener = NoListener
  t1 = t1
  t2 = t2
  t3 = t3
  l1 = l1
  l2 = l2
  l3 = l3
  Endpoints <- MCEndpoints
  Routes <- TwoRoutes
  MalformedAuthorities = {}
  Responses <- MCResponses
  MaxSnapshots = 2
  Senders = {s}
  ListenerIds = {l1, l2}
  FailingCalls = {"register", "unregister"}
  MaxStranded = 1
INVARIANTS
  TypeOK
  CacheIsCoherent
  BoundRoutesListenExactly
PROPERTY CallsReturn
