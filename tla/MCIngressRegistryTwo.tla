------------------------ MODULE MCIngressRegistryTwo -------------------------
(* The two routes that share a binding, alone: room for two refreshes and for *)
(* liveness, with an unregister call that the transport refuses.              *)
EXTENDS MCIngressRegistry

TwoRoutes == {r \in MCRoutes : r.egress_authority = "B"}

=============================================================================
