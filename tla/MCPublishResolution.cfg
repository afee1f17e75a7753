SPECIFICATION ResolutionSpec
CONSTANTS
  Missing = Missing
  MalformedAuthorities = {"bad host"}
  RowUniverse <- MCRowUniverse
  RouteAuthorities <- MCRouteAuthorities
INVARIANT FiltersAreExact
CHECK_DEADLOCK FALSE
