-------------------------- MODULE MCRouteLifecycle ---------------------------
(* RouteLifecycle with three authorities: A on transport t1, B and C both on  *)
(* transport t2.  The routes from A share a worker; the route back to A has   *)
(* another.  OtherEgress adds a second endpoint of B's, on t3.                *)
EXTENDS RouteLifecycle, TLC

CONSTANTS t1, t2, t3, l1, l2, l3, c1, c2, c3

endpoint(a, t) == [authority |-> a, transport |-> t]

A  == endpoint("A", t1)
B  == endpoint("B", t2)
C  == endpoint("C", t2)
B3 == endpoint("B", t3)

MCEndpoints == {A, B, C}
MCRoutes == {RouteKey(A, B), RouteKey(A, C), RouteKey(B, A)}
SharedWorkerRoutes == {RouteKey(A, B), RouteKey(A, C)}

OtherEgressEndpoints == {A, B, B3}
OtherEgressRoutes == {RouteKey(A, B), RouteKey(A, B3)}

uri(a, res) ==
  [authority_name |-> a, ue_id |-> 1, ue_version_major |-> 1, resource_id |-> res]

MCResponses ==
  { {[topic |-> uri("A", 32769), subscriber |-> uri("B", 0)]},
    {[topic |-> uri("A", 32769), subscriber |-> Missing]} }

\* Addresses are interchangeable.
AddressSymmetry == Permutations(ListenerIds) \cup Permutations(Senders)

=============================================================================
