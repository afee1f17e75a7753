SPECIFICATION Spec
CONSTANTS
  Missing = Missing
  NoListener = NoListener
  t1 = t1
  t2 = t2
  t3 = t3
  l1 = l1
  l2 = l2
  l3 = l3
  Endpoints <- MCEndpoints
  Routes <- MCRoutes
  MalformedAuthorities = {}
  Responses <- MCResponses
  MaxSnapshots = 1
  Senders = {s}
  ListenerIds = {l1, l2, l3}
  FailingCalls = {"register", "unregister"}
  MaxStranded = 1
SYMMETRY ListenerSymmetry
INVARIANTS
  RefCountsMatchHolders
  BindingsAreServed
  NoStrayListener
