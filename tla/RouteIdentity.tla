---------------------------- MODULE RouteIdentity ----------------------------
(***************************************************************************)
(* Endpoints and the two identities that up-streamer derives from them:    *)
(* the key of a route in the control plane's table, and the coarser key    *)
(* under which the data plane shares one set of ingress listeners.         *)
(*                                                                         *)
(* A transport is compared by the address of its Arc, so it is an opaque   *)
(* value here.  An endpoint's display name is part of neither identity and *)
(* is left out.                                                            *)
(***************************************************************************)
EXTENDS Naturals, FiniteSets

CONSTANTS
  Endpoints,     \* the endpoints an application configures
  Routes,        \* the keys of the routes it asks for
  Senders        \* broadcast channels, which their senders and receiver name

Authorities == {e.authority : e \in Endpoints}

Transports == {e.transport : e \in Endpoints}

\* RouteKey::from_endpoints
RouteKey(in, out) ==
  [ ingress_authority |-> in.authority,
    egress_authority  |-> out.authority,
    ingress_transport |-> in.transport,
    egress_transport  |-> out.transport ]

\* IngressRouteBindingKey::new: the egress transport is not part of it.
BindingKey(r) ==
  [ transport         |-> r.ingress_transport,
    ingress_authority |-> r.ingress_authority,
    egress_authority  |-> r.egress_authority ]

BindingKeys == {BindingKey(r) : r \in Routes}

\* A route joins two endpoints of different authorities: the control plane
\* refuses any other before it looks at a key.
ASSUME RoutesAssumption ==
  /\ Authorities \subseteq STRING
  /\ IsFiniteSet(Routes)
  /\ \A r \in Routes : \E in, out \in Endpoints :
       r = RouteKey(in, out) /\ in.authority # out.authority

=============================================================================
