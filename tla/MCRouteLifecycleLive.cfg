SPECIFICATION LiveLifecycleSpec
CONSTANTS
  Missing = Missing
  NoListener = NoListener
  t1 = t1
  t2 = t2
  t3 = t3
  l1 = l1
  l2 = l2
  l3 = l3
  c1 = c1
  c2 = c2
  c3 = c3
  Endpoints <- MCEndpoints
  Routes <- SharedWorkerRoutes
  MalformedAuthorities = {}
  Responses <- MCResponses
  MaxSnapshots = 0
  Senders = {c1, c2}
  ListenerIds = {l1, l2}
  FailingCalls = {"register"}
  MaxStranded = 0
PROPERTIES
  ImplementsContract
  DetachedWorkersStop
