SPECIFICATION LifecycleSpec
CONSTANTS
  Missing = Missing
  NoListener = NoListener
  t1 = t1
  t2 = t2
  t3 = t3
  l1 = l1
  l2 = l2
  l3 = l3
  c1 = c1
  c2 = c2
  c3 = c3
  Endpoints <- MCEndpoints
  Routes <- MCRoutes
  MalformedAuthorities = {}
  Responses <- MCResponses
  MaxSnapshots = 1
  Senders = {c1, c2, c3}
  ListenerIds = {l1, l2, l3}
  FailingCalls = {"register"}
  MaxStranded = 0
SYMMETRY AddressSymmetry
INVARIANTS
  LifecycleTypeOK
  PoolMatchesRoutes
  RegistryMatchesRoutes
  SendersHaveALoop
  RoutesForwardToTheirTransport
  NoForwardingWithoutRoute
PROPERTY
  NewBindingsUseCurrentSnapshot
