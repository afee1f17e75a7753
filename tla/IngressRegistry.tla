--------------------------- MODULE IngressRegistry ---------------------------
(***************************************************************************)
(* IngressRouteRegistry: the refcounted owner of the listeners that feed   *)
(* routes from their ingress transports.                                   *)
(*                                                                         *)
(* register_route and unregister_route take &self and release the bindings *)
(* lock around every call to the transport, so calls for different routes  *)
(* may interleave at each await; the registry has to be right on its own   *)
(* and this module lets them.  (Inside UStreamer they come one at a time:  *)
(* module RouteLifecycle.)  One step is what happens between two awaits.   *)
(*                                                                         *)
(* A call is made on behalf of a route, which the route table lets in only *)
(* once, so calls[r] holds the local variables of the call made for r, or  *)
(* records that r is registered ("in") or not ("out").  Lists of filters   *)
(* are sets: they hold no filter twice and their order is a HashMap's.     *)
(***************************************************************************)
EXTENDS RouteIdentity, SubscriptionDirectory

CONSTANTS
  ListenerIds,    \* addresses of listener objects, reused once free
  NoListener,
  FailingCalls,   \* which transport calls may return Err
  MaxStranded     \* bound on the failed unregister calls in one behaviour

ASSUME RegistryAssumption ==
  /\ FailingCalls \subseteq {"register", "unregister"}
  /\ MaxStranded \in Nat
  /\ NoListener \notin [id : ListenerIds, sender : Senders]

VARIABLES
  bindings,              \* HashMap<IngressRouteBindingKey, IngressRouteBinding>
  publish_filter_cache,  \* HashMap<PublishSourceFilterCacheKey, SourceFilterLookup>
  listeners,             \* what is registered with the transports
  calls,                 \* per route, the call in progress and its outcome
  stranded               \* history: registrations whose unregister call failed

registryVars == <<bindings, publish_filter_cache, listeners, calls, stranded>>
vars == <<bindings, publish_filter_cache, listeners, calls, stranded,
          snapshot, next_version, applied>>

-----------------------------------------------------------------------------
\* An IngressRouteListener: one allocation that holds one sender.
Listener == [id : ListenerIds, sender : Senders]

\* ListenerFilter = (UUri, Option<UUri>)
RequestFilter(r) ==
  [ source |-> AuthorityToWildcardFilter(r.ingress_authority),
    sink   |-> AuthorityToWildcardFilter(r.egress_authority) ]

PublishFilter(source_uri) == [source |-> source_uri, sink |-> Missing]

PublishFilters(r, subscribers) ==
  {PublishFilter(u) : u \in DeriveSourceFilters(r.ingress_authority, subscribers)}

\* Variant: cached filters are kept per pair of authorities only.
CacheKeyUnversioned(r, version) ==
  [ ingress_authority |-> r.ingress_authority,
    egress_authority  |-> r.egress_authority,
    snapshot_version  |-> 0 ]

\* PublishSourceFilterCacheKey::new
CacheKey(r, version) ==
  [ ingress_authority |-> r.ingress_authority,
    egress_authority  |-> r.egress_authority,
    snapshot_version  |-> version ]

\* What a transport holds for one register_listener call.
Registration(r, filter, listener) ==
  [transport |-> r.ingress_transport, filter |-> filter, listener |-> listener]

Nothing == [version |-> 0, subscribers |-> {}]

Resting(pc) ==
  [pc |-> pc, listener |-> NoListener, found |-> Nothing, pending |-> {}, held |-> {}]

\* pc of a call: the transport call, lock or load it awaits next.
Registering   == {"request", "lookup", "cache_get", "cache_insert", "publish"}
Unregistering == {"rollback", "discard", "unregister"}

Busy(r) == calls[r].pc \in Registering \cup Unregistering

LiveListeners ==
  {bindings[k].listener : k \in DOMAIN bindings}
    \cup {e.listener : e \in listeners}
    \cup {calls[r].listener : r \in {x \in Routes : Busy(x)}}

Fresh(listener) == \A l \in LiveListeners : l.id # listener.id

-----------------------------------------------------------------------------
RegistryInit ==
  /\ bindings = << >>
  /\ publish_filter_cache = << >>
  /\ listeners = {}
  /\ calls = [r \in Routes |-> Resting("out")]
  /\ stranded = {}

Init == RegistryInit /\ DirectoryInit

AddReference(k) == bindings' = [bindings EXCEPT ![k].ref_count = @ + 1]

\* register_route, first look under the lock: the binding exists.
ShareBinding(r) ==
  /\ calls[r].pc = "out"
  /\ BindingKey(r) \in DOMAIN bindings
  /\ AddReference(BindingKey(r))
  /\ calls' = [calls EXCEPT ![r] = Resting("in")]
  /\ UNCHANGED <<publish_filter_cache, listeners, stranded>>

\* register_route, first look: no binding, so a listener is built and the
\* request filter noted for rollback before it is registered.
StartRegister(r, listener) ==
  /\ calls[r].pc = "out"
  /\ BindingKey(r) \notin DOMAIN bindings
  /\ calls' = [calls EXCEPT ![r] =
                 [ pc |-> "request", listener |-> listener, found |-> Nothing,
                   pending |-> {}, held |-> {RequestFilter(r)} ]]
  /\ UNCHANGED <<bindings, publish_filter_cache, listeners, stranded>>

\* The request filter is registered, or the call fails and rollback begins.
RegisterRequestListener(r) ==
  /\ calls[r].pc = "request"
  /\ \/ /\ listeners' =
             listeners \cup {Registration(r, RequestFilter(r), calls[r].listener)}
        /\ calls' = [calls EXCEPT ![r].pc = "lookup"]
     \/ /\ "register" \in FailingCalls
        /\ calls' = [calls EXCEPT ![r].pc = "rollback"]
        /\ UNCHANGED listeners
  /\ UNCHANGED <<bindings, publish_filter_cache, stranded>>

\* derive_publish_filters_cached: version and subscribers of one snapshot.
LookupSubscribers(r) ==
  /\ calls[r].pc = "lookup"
  /\ calls' = [calls EXCEPT
       ![r].pc = "cache_get",
       ![r].found = [ version |-> snapshot.version,
                      subscribers |->
                        LookupRouteSubscribers(snapshot.rows, r.egress_authority) ]]
  /\ UNCHANGED <<bindings, publish_filter_cache, listeners, stranded>>

\* publish_filter_cache.lock().get(&cache_key), a hit or a miss.
ReadFilterCache(r) ==
  LET key == CacheKey(r, calls[r].found.version)
  IN  /\ calls[r].pc = "cache_get"
      /\ calls' = [calls EXCEPT ![r] =
           IF key \in DOMAIN publish_filter_cache
             THEN [@ EXCEPT !.pc = "publish", !.found = Nothing,
                            !.pending = publish_filter_cache[key]]
             ELSE [@ EXCEPT !.pc = "cache_insert"]]
      /\ UNCHANGED <<bindings, publish_filter_cache, listeners, stranded>>

\* publish_filter_cache.lock().entry(cache_key).or_insert_with(derived).clone()
FillFilterCache(r) ==
  LET key     == CacheKey(r, calls[r].found.version)
      derived == PublishFilters(r, calls[r].found.subscribers)
      cache   == [k \in DOMAIN publish_filter_cache \cup {key} |->
                    IF k \in DOMAIN publish_filter_cache
                      THEN publish_filter_cache[k] ELSE derived]
  IN  /\ calls[r].pc = "cache_insert"
      /\ publish_filter_cache' = cache
      /\ calls' = [calls EXCEPT ![r].pc = "publish", ![r].found = Nothing,
                                ![r].pending = cache[key]]
      /\ UNCHANGED <<bindings, listeners, stranded>>

\* Variant: an Err is taken for success.
RegisterPublishListenerIgnoresErr(r, filter) ==
  /\ calls[r].pc = "publish"
  /\ filter \in calls[r].pending
  /\ \/ listeners' = listeners \cup {Registration(r, filter, calls[r].listener)}
     \/ "register" \in FailingCalls /\ UNCHANGED listeners
  /\ calls' = [calls EXCEPT ![r].pending = @ \ {filter}, ![r].held = @ \cup {filter}]
  /\ UNCHANGED <<bindings, publish_filter_cache, stranded>>

\* Variant: the filter is registered but not noted.
RegisterPublishListenerUnnoted(r, filter) ==
  /\ calls[r].pc = "publish"
  /\ filter \in calls[r].pending
  /\ \/ /\ listeners' = listeners \cup {Registration(r, filter, calls[r].listener)}
        /\ calls' = [calls EXCEPT ![r].pending = @ \ {filter}]
     \/ /\ "register" \in FailingCalls
        /\ calls' = [calls EXCEPT ![r].pc = "rollback", ![r].pending = {}]
        /\ UNCHANGED listeners
  /\ UNCHANGED <<bindings, publish_filter_cache, stranded>>

\* Variant: after an Err the filters are derived and registered again.
RegisterPublishListenerRetries(r, filter) ==
  /\ calls[r].pc = "publish"
  /\ filter \in calls[r].pending
  /\ \/ /\ listeners' = listeners \cup {Registration(r, filter, calls[r].listener)}
        /\ calls' = [calls EXCEPT ![r].pending = @ \ {filter},
                                  ![r].held = @ \cup {filter}]
     \/ /\ "register" \in FailingCalls
        /\ calls' = [calls EXCEPT ![r].pc = "lookup", ![r].pending = {}]
        /\ UNCHANGED listeners
  /\ UNCHANGED <<bindings, publish_filter_cache, stranded>>

\* One turn of the publish loop: the filter is registered and noted for
\* rollback, or the call fails and what was registered so far is rolled back.
RegisterPublishListener(r, filter) ==
  /\ calls[r].pc = "publish"
  /\ filter \in calls[r].pending
  /\ \/ /\ listeners' = listeners \cup {Registration(r, filter, calls[r].listener)}
        /\ calls' = [calls EXCEPT ![r].pending = @ \ {filter},
                                  ![r].held = @ \cup {filter}]
     \/ /\ "register" \in FailingCalls
        /\ calls' = [calls EXCEPT ![r].pc = "rollback", ![r].pending = {}]
        /\ UNCHANGED listeners
  /\ UNCHANGED <<bindings, publish_filter_cache, stranded>>

\* Variant: the second look shares the binding without counting.
CommitSharedUncounted(r) ==
  /\ calls[r].pc = "publish"
  /\ calls[r].pending = {}
  /\ BindingKey(r) \in DOMAIN bindings
  /\ calls' = [calls EXCEPT ![r].pc = "discard"]
  /\ UNCHANGED <<bindings, publish_filter_cache, listeners, stranded>>

\* register_route, second look under the lock: another call bound this key in
\* the meantime, so its binding is shared and this call's listener discarded.
CommitShared(r) ==
  /\ calls[r].pc = "publish"
  /\ calls[r].pending = {}
  /\ BindingKey(r) \in DOMAIN bindings
  /\ AddReference(BindingKey(r))
  /\ calls' = [calls EXCEPT ![r].pc = "discard"]
  /\ UNCHANGED <<publish_filter_cache, listeners, stranded>>

NewBinding(r) ==
  [k \in DOMAIN bindings \cup {BindingKey(r)} |->
     IF k = BindingKey(r)
       THEN [ ref_count |-> 1, listener |-> calls[r].listener,
              registered_filters |-> calls[r].held ]
       ELSE bindings[k]]

\* Variant: there is no second look, and a binding made meanwhile is replaced.
CommitBindingBlindly(r) ==
  /\ calls[r].pc = "publish"
  /\ calls[r].pending = {}
  /\ bindings' = NewBinding(r)
  /\ calls' = [calls EXCEPT ![r] = Resting("in")]
  /\ UNCHANGED <<publish_filter_cache, listeners, stranded>>

\* register_route, second look: the binding is this call's.
CommitBinding(r) ==
  /\ calls[r].pc = "publish"
  /\ calls[r].pending = {}
  /\ BindingKey(r) \notin DOMAIN bindings
  /\ bindings' = NewBinding(r)
  /\ calls' = [calls EXCEPT ![r] = Resting("in")]
  /\ UNCHANGED <<publish_filter_cache, listeners, stranded>>

\* Variant: the last reference is counted down like any other.
ReleaseSharedAtOne(r) ==
  /\ calls[r].pc = "in"
  /\ BindingKey(r) \in DOMAIN bindings
  /\ bindings[BindingKey(r)].ref_count >= 1
  /\ bindings' = [bindings EXCEPT ![BindingKey(r)].ref_count = @ - 1]
  /\ calls' = [calls EXCEPT ![r] = Resting("out")]
  /\ UNCHANGED <<publish_filter_cache, listeners, stranded>>

\* unregister_route gives up one reference of several.
ReleaseShared(r) ==
  /\ calls[r].pc = "in"
  /\ BindingKey(r) \in DOMAIN bindings
  /\ bindings[BindingKey(r)].ref_count > 1
  /\ bindings' = [bindings EXCEPT ![BindingKey(r)].ref_count = @ - 1]
  /\ calls' = [calls EXCEPT ![r] = Resting("out")]
  /\ UNCHANGED <<publish_filter_cache, listeners, stranded>>

\* Variant: the binding is removed and its listener left to the transport.
ReleaseLastForgets(r) ==
  /\ calls[r].pc = "in"
  /\ BindingKey(r) \in DOMAIN bindings
  /\ bindings[BindingKey(r)].ref_count = 1
  /\ bindings' = Restrict(bindings, DOMAIN bindings \ {BindingKey(r)})
  /\ calls' = [calls EXCEPT ![r] = Resting("out")]
  /\ UNCHANGED <<publish_filter_cache, listeners, stranded>>

\* unregister_route gives up the last reference: the binding is removed and its
\* filters are unregistered outside the lock.
ReleaseLast(r) ==
  LET binding == bindings[BindingKey(r)]
  IN  /\ calls[r].pc = "in"
      /\ BindingKey(r) \in DOMAIN bindings
      /\ binding.ref_count = 1
      /\ bindings' = Restrict(bindings, DOMAIN bindings \ {BindingKey(r)})
      /\ calls' = [calls EXCEPT ![r] =
                     [ pc |-> "unregister", listener |-> binding.listener,
                       found |-> Nothing, pending |-> {},
                       held |-> binding.registered_filters ]]
      /\ UNCHANGED <<publish_filter_cache, listeners, stranded>>

\* Where a call comes to rest once its last filter is unregistered.
Outcome(pc) == IF pc = "discard" THEN "in" ELSE "out"

\* One turn of rollback_registered_filters or of unregister_route's loop.  An Err
\* from the transport is logged and the loop goes on; unregistering a filter
\* that was never registered changes nothing.
UnregisterListener(r, filter) ==
  LET registration == Registration(r, filter, calls[r].listener)
      held         == calls[r].held \ {filter}
  IN  /\ calls[r].pc \in Unregistering
      /\ filter \in calls[r].held
      /\ \/ /\ listeners' = listeners \ {registration}
            /\ UNCHANGED stranded
         \/ /\ "unregister" \in FailingCalls
            /\ registration \in listeners
            /\ Cardinality(stranded) < MaxStranded
            /\ stranded' = stranded \cup {registration}
            /\ UNCHANGED listeners
      /\ calls' = [calls EXCEPT ![r] =
                     IF held = {} THEN Resting(Outcome(@.pc)) ELSE [@ EXCEPT !.held = held]]
      /\ UNCHANGED <<bindings, publish_filter_cache>>

\* One step of the call in progress for r.
CallStep(r) ==
  \/ RegisterRequestListener(r)
  \/ LookupSubscribers(r)
  \/ ReadFilterCache(r)
  \/ FillFilterCache(r)
  \/ \E filter \in calls[r].pending : RegisterPublishListener(r, filter)
  \/ CommitShared(r)
  \/ CommitBinding(r)
  \/ \E filter \in calls[r].held : UnregisterListener(r, filter)

RegisterRoute(r) ==
  \/ ShareBinding(r)
  \/ \E listener \in Listener : Fresh(listener) /\ StartRegister(r, listener)

UnregisterRoute(r) == ReleaseShared(r) \/ ReleaseLast(r)

Next ==
  \/ \E r \in Routes : /\ RegisterRoute(r) \/ CallStep(r) \/ UnregisterRoute(r)
                       /\ UNCHANGED directoryVars
  \/ \E rows \in Responses : ApplySnapshot(rows) /\ UNCHANGED registryVars

Spec == Init /\ [][Next]_vars

\* A call that has begun is polled by its runtime, and transport calls return.
Fairness == \A r \in Routes : WF_vars(CallStep(r) /\ UNCHANGED directoryVars)

LiveSpec == Spec /\ Fairness

-----------------------------------------------------------------------------
Filter == [source : UUri, sink : UUri \cup {Missing}]

Call == [ pc       : {"in", "out"} \cup Registering \cup Unregistering,
          listener : Listener \cup {NoListener},
          found    : [version : Nat, subscribers : SUBSET CompleteRow],
          pending  : SUBSET Filter,
          held     : SUBSET Filter ]

Registrations == [transport : Transports, filter : Filter, listener : Listener]

Binding == [ref_count : Nat \ {0}, listener : Listener, registered_filters : SUBSET Filter]

BindingsTypeOK ==
  /\ DOMAIN bindings \subseteq BindingKeys
  /\ bindings \in [DOMAIN bindings -> Binding]

CacheTypeOK == publish_filter_cache \in [DOMAIN publish_filter_cache -> SUBSET Filter]

CallsTypeOK ==
  /\ calls \in [Routes -> Call]
  /\ \A r \in Routes : Busy(r) => calls[r].listener # NoListener

TypeOK ==
  /\ BindingsTypeOK
  /\ CacheTypeOK
  /\ listeners \subseteq Registrations
  /\ stranded \subseteq Registrations
  /\ CallsTypeOK
  /\ DirectoryTypeOK

\* The routes that hold a reference to the binding of k: those registered, and
\* those whose call has taken a reference and is still discarding its listener.
Holders(k) == {r \in Routes : BindingKey(r) = k /\ calls[r].pc \in {"in", "discard"}}

\* ref_count counts the routes behind a binding, however their calls interleave:
\* a binding is removed by exactly the last of them, and unregister_route never
\* meets a missing binding (its "missing_transport_binding" branches are dead).
RefCountsMatchHolders ==
  /\ \A k \in BindingKeys : k \in DOMAIN bindings <=> Holders(k) # {}
  /\ \A k \in DOMAIN bindings : bindings[k].ref_count = Cardinality(Holders(k))

\* A binding is served: each of its filters is registered with the ingress
\* transport for the binding's own listener, as long as the binding exists.
BindingsAreServed ==
  \A k \in DOMAIN bindings : \A filter \in bindings[k].registered_filters :
    [transport |-> k.transport, filter |-> filter, listener |-> bindings[k].listener]
      \in listeners

OwnedByBinding(e) ==
  \E k \in DOMAIN bindings :
    /\ e.transport = k.transport
    /\ e.listener = bindings[k].listener
    /\ e.filter \in bindings[k].registered_filters

OwnedByCall(e) ==
  \E r \in Routes : /\ Busy(r)
                    /\ e.transport = r.ingress_transport
                    /\ e.listener = calls[r].listener
                    /\ e.filter \in calls[r].held

\* Rollback and unregister are complete: whatever is registered with a transport
\* belongs to a binding or to a call still at work, unless the transport refused
\* to unregister it.  No failure of register_listener leaves a listener behind.
NoStrayListener ==
  \A e \in listeners : OwnedByBinding(e) \/ OwnedByCall(e) \/ e \in stranded

\* The filters cached under a version are those of the snapshot that had this
\* version, however refreshes interleave with the cache's get and insert.
CacheIsCoherent ==
  \A r \in Routes : \A v \in DOMAIN applied :
    CacheKey(r, v) \in DOMAIN publish_filter_cache =>
      publish_filter_cache[CacheKey(r, v)] =
        PublishFilters(r, LookupRouteSubscribers(applied[v], r.egress_authority))

\* What a transport holds for the listener of a binding is one registration for the
\* route's requests and one for each topic that the subscriptions of one snapshot
\* name for it, never a mixture of two: through the directory, the caches, the loop
\* and the registrations, whatever rollbacks, discards and unregister calls take away.
BoundRoutesListenExactly ==
  \A r \in Routes : BindingKey(r) \in DOMAIN bindings =>
    LET listener  == bindings[BindingKey(r)].listener
        topics(v) == SubscribedFilters(applied[v], r.ingress_authority, r.egress_authority)
    IN  \E v \in DOMAIN applied :
          {e \in listeners : e.listener = listener} =
            {Registration(r, RequestFilter(r), listener)} \cup
              {Registration(r, PublishFilter(u), listener) : u \in topics(v)}

\* Every call returns, whatever the transport answers.
CallsReturn == \A r \in Routes : Busy(r) ~> ~Busy(r)

=============================================================================
