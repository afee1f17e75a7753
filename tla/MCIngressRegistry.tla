-------------------------- MODULE MCIngressRegistry --------------------------
(* IngressRegistry with three routes out of authority A, all on transport t1: *)
(* two to authority B through different egress transports, which share a     *)
(* binding, and one to authority C, which has a binding of its own but the   *)
(* same publish filter.                                                      *)
EXTENDS IngressRegistry, TLC

CONSTANTS t1, t2, t3, l1, l2, l3

endpoint(a, t) == [authority |-> a, transport |-> t]

MCEndpoints ==
  {endpoint("A", t1), endpoint("B", t2), endpoint("B", t3), endpoint("C", t2)}

MCRoutes == {RouteKey(endpoint("A", t1), out) : out \in MCEndpoints \ {endpoint("A", t1)}}

uri(a, res) ==
  [authority_name |-> a, ue_id |-> 1, ue_version_major |-> 1, resource_id |-> res]

row(topic, a) == [topic |-> topic, subscriber |-> uri(a, 0)]

\* Two topics of A's, one for subscribers anywhere, and a response that drops
\* one of them; the row without topic makes a response that is refused.
MCResponses ==
  { {row(uri("A", 32769), "*"), row(uri("*", 32770), "B")},
    {row(uri("A", 32769), "B")},
    {row(Missing, "B")} }

ListenerSymmetry == Permutations(ListenerIds)

=============================================================================
