------------------------ MODULE IngressRegistryProofs ------------------------
(***************************************************************************)
(* Proofs about IngressRegistry, for any set of routes, any subscription   *)
(* responses and any failures of the transports.                           *)
(***************************************************************************)
EXTENDS IngressRegistry, PublishResolutionProofs, FiniteSetTheorems, TLAPS

-----------------------------------------------------------------------------
(* What the operators of the routing layer return.                          *)

\* Truncating the version and resource of a URI gives a URI.
LEMMA IdentityKeyType ==
  ASSUME NEW u \in UUri
  PROVE  UriIdentityKey(u) \in UUri
BY DEF UriIdentityKey, UUri, MajorVersion, ResourceId

\* The subscribers found for an egress authority are complete identity keys.
LEMMA LookupType ==
  ASSUME NEW rows \in SUBSET CompleteRow, NEW out
  PROVE  LookupRouteSubscribers(rows, out) \in SUBSET CompleteRow
<1>1. \A row \in rows : SubscriptionIdentityKey(row) \in CompleteRow
  BY IdentityKeyType DEF SubscriptionIdentityKey, CompleteRow
<1>2. QED
  BY <1>1, LookupIsOfRows

\* The publish filters of a route are filters.
LEMMA PublishFiltersType ==
  ASSUME NEW r \in Routes, r.ingress_authority \in STRING,
         NEW subscribers \in SUBSET CompleteRow
  PROVE  PublishFilters(r, subscribers) \subseteq Filter
<1>1. \A s \in subscribers : SourceFilterUri(r.ingress_authority, s.topic) \in UUri
  BY DEF SourceFilterUri, UUri, CompleteRow, MajorVersion, ResourceId
<1>2. DeriveSourceFilters(r.ingress_authority, subscribers) \subseteq UUri
  BY <1>1 DEF DeriveSourceFilters
<1>3. QED
  BY <1>2 DEF PublishFilters, PublishFilter, Filter

\* The parts of a route's identity have the types of the endpoints they are from.
LEMMA RouteType ==
  ASSUME NEW r \in Routes
  PROVE  /\ r.ingress_authority \in STRING
         /\ r.egress_authority \in STRING
         /\ r.ingress_transport \in Transports
         /\ BindingKey(r) \in BindingKeys
BY RoutesAssumption DEF Authorities, Transports, RouteKey, BindingKeys

\* The request filter of a route is a filter.
LEMMA RequestFilterType ==
  ASSUME NEW r \in Routes
  PROVE  RequestFilter(r) \in Filter
BY RouteType DEF RequestFilter, AuthorityToWildcardFilter, WildcardUeId, Filter, UUri

-----------------------------------------------------------------------------
(* Type correctness.                                                        *)

\* A step of a call from one await to the next keeps the types of the calls.
LEMMA CallsTypeNext ==
  ASSUME TypeOK, NEW r \in Routes,
         RegisterRoute(r) \/ CallStep(r) \/ UnregisterRoute(r)
  PROVE  CallsTypeOK'
<1> USE DEF TypeOK, CallsTypeOK, Busy, Registering, Unregistering
<1>0. /\ Resting("in") \in Call
      /\ Resting("out") \in Call
  BY DEF Resting, Nothing, Call
<1>1. CASE ShareBinding(r)
  BY <1>1, <1>0 DEF ShareBinding, Resting
<1>2. ASSUME NEW listener \in Listener, StartRegister(r, listener)
      PROVE  CallsTypeOK'
  BY <1>2, RequestFilterType, RegistryAssumption
     DEF StartRegister, Call, Nothing, Listener
<1>3. CASE RegisterRequestListener(r)
  BY <1>3 DEF RegisterRequestListener, Call
<1>4. CASE LookupSubscribers(r)
  <2>1. LookupRouteSubscribers(snapshot.rows, r.egress_authority) \in SUBSET CompleteRow
    BY LookupType DEF DirectoryTypeOK
  <2>2. snapshot.version \in Nat
    BY DEF DirectoryTypeOK
  <2>3. QED
    <3> DEFINE found == [ version |-> snapshot.version,
                          subscribers |->
                            LookupRouteSubscribers(snapshot.rows, r.egress_authority) ]
    <3>1. found \in [version : Nat, subscribers : SUBSET CompleteRow]
      BY <2>1, <2>2
    <3>2. /\ calls[r].pc = "lookup"
          /\ calls' = [calls EXCEPT ![r] = [@ EXCEPT !.pc = "cache_get", !.found = found]]
      BY <1>4 DEF LookupSubscribers
    <3> HIDE DEF found
    <3>3. [calls[r] EXCEPT !.pc = "cache_get", !.found = found] \in Call
      BY <3>1 DEF Call
    <3>4. QED
      BY <3>2, <3>3 DEF Call
<1>5. CASE ReadFilterCache(r)
  <2>1. CASE CacheKey(r, calls[r].found.version) \in DOMAIN publish_filter_cache
    <3> DEFINE cached == publish_filter_cache[CacheKey(r, calls[r].found.version)]
    <3>1. cached \in SUBSET Filter
      BY <2>1 DEF CacheTypeOK
    <3>2. /\ calls[r].pc = "cache_get"
          /\ calls' = [calls EXCEPT ![r] = [@ EXCEPT !.pc = "publish", !.found = Nothing,
                                                     !.pending = cached]]
      BY <1>5, <2>1 DEF ReadFilterCache
    <3> HIDE DEF cached
    <3>3. [calls[r] EXCEPT !.pc = "publish", !.found = Nothing, !.pending = cached] \in Call
      BY <3>1 DEF Call, Nothing
    <3>4. QED
      BY <3>2, <3>3 DEF Call
  <2>2. CASE CacheKey(r, calls[r].found.version) \notin DOMAIN publish_filter_cache
    BY <1>5, <2>2 DEF ReadFilterCache, Call
  <2>3. QED
    BY <2>1, <2>2
<1>6. CASE FillFilterCache(r)
  <2>1. PublishFilters(r, calls[r].found.subscribers) \subseteq Filter
    BY PublishFiltersType, RouteType DEF Call
  <2>2. PICK cached \in SUBSET Filter :
          calls' = [calls EXCEPT ![r] = [@ EXCEPT !.pc = "publish", !.found = Nothing,
                                                  !.pending = cached]]
    BY <1>6, <2>1 DEF FillFilterCache, CacheTypeOK
  <2>3. calls[r].pc = "cache_insert"
    BY <1>6 DEF FillFilterCache
  <2>4. [calls[r] EXCEPT !.pc = "publish", !.found = Nothing, !.pending = cached] \in Call
    BY DEF Call, Nothing
  <2>5. QED
    BY <2>2, <2>3, <2>4 DEF Call
<1>7. ASSUME NEW filter \in calls[r].pending, RegisterPublishListener(r, filter)
      PROVE  CallsTypeOK'
  <2>1. CASE calls' = [calls EXCEPT ![r].pending = @ \ {filter},
                                    ![r].held = @ \cup {filter}]
    <3>1. [calls[r] EXCEPT !.pending = @ \ {filter}, !.held = @ \cup {filter}] \in Call
      BY DEF Call
    <3>2. QED
      BY <2>1, <3>1 DEF Call
  <2>2. CASE calls' = [calls EXCEPT ![r].pc = "rollback", ![r].pending = {}]
    <3>1. [calls[r] EXCEPT !.pc = "rollback", !.pending = {}] \in Call
      BY DEF Call
    <3>2. QED
      BY <1>7, <2>2, <3>1 DEF RegisterPublishListener, Call
  <2>3. QED
    BY <1>7, <2>1, <2>2 DEF RegisterPublishListener
<1>8. CASE CommitShared(r)
  BY <1>8 DEF CommitShared, Call
<1>9. CASE CommitBinding(r)
  BY <1>9, <1>0 DEF CommitBinding, NewBinding, Resting
<1>10. ASSUME NEW filter \in calls[r].held, UnregisterListener(r, filter)
       PROVE  CallsTypeOK'
  <2>1. CASE calls[r].held \ {filter} = {}
    BY <1>10, <2>1, <1>0 DEF UnregisterListener, Resting, Outcome
  <2>2. CASE calls[r].held \ {filter} # {}
    BY <1>10, <2>2 DEF UnregisterListener, Call
  <2>3. QED
    BY <2>1, <2>2
<1>11. CASE ReleaseShared(r)
  BY <1>11, <1>0 DEF ReleaseShared, Resting
<1>12. CASE ReleaseLast(r)
  BY <1>12, RegistryAssumption DEF ReleaseLast, BindingsTypeOK, Binding, Call, Nothing, Listener
<1>13. QED
  BY <1>1, <1>2, <1>3, <1>4, <1>5, <1>6, <1>7, <1>8, <1>9, <1>10, <1>11, <1>12
     DEF RegisterRoute, CallStep, UnregisterRoute

\* Such a step keeps the types of everything else.
LEMMA RegistryTypeNext ==
  ASSUME TypeOK, NEW r \in Routes,
         RegisterRoute(r) \/ CallStep(r) \/ UnregisterRoute(r)
  PROVE  /\ BindingsTypeOK'
         /\ CacheTypeOK'
         /\ listeners' \subseteq Registrations
         /\ stranded' \subseteq Registrations
<1> DEFINE Goal == /\ BindingsTypeOK'
                   /\ CacheTypeOK'
                   /\ listeners' \subseteq Registrations
                   /\ stranded' \subseteq Registrations
<1> USE DEF TypeOK, BindingsTypeOK, CacheTypeOK
<1>0. ASSUME Busy(r), NEW filter \in Filter
      PROVE  Registration(r, filter, calls[r].listener) \in Registrations
  BY <1>0, RouteType DEF CallsTypeOK, Call, Registration, Registrations
<1>1. CASE ShareBinding(r)
  BY <1>1, RouteType DEF ShareBinding, AddReference, Binding
<1>2. ASSUME NEW listener \in Listener, StartRegister(r, listener)
      PROVE  Goal
  BY <1>2 DEF StartRegister
<1>3. CASE RegisterRequestListener(r)
  <2>1. Busy(r)
    BY <1>3 DEF RegisterRequestListener, Busy, Registering
  <2>2. QED
    BY <1>0, <1>3, <2>1, RequestFilterType DEF RegisterRequestListener
<1>4. CASE LookupSubscribers(r)
  BY <1>4 DEF LookupSubscribers
<1>5. CASE ReadFilterCache(r)
  BY <1>5 DEF ReadFilterCache
<1>6. CASE FillFilterCache(r)
  <2>1. PublishFilters(r, calls[r].found.subscribers) \subseteq Filter
    BY PublishFiltersType, RouteType DEF CallsTypeOK, Call
  <2>2. QED
    BY <1>6, <2>1 DEF FillFilterCache
<1>7. ASSUME NEW filter \in calls[r].pending, RegisterPublishListener(r, filter)
      PROVE  Goal
  <2>1. Busy(r) /\ filter \in Filter
    BY <1>7 DEF RegisterPublishListener, Busy, Registering, CallsTypeOK, Call
  <2>2. QED
    BY <1>0, <1>7, <2>1 DEF RegisterPublishListener
<1>8. CASE CommitShared(r)
  BY <1>8, RouteType DEF CommitShared, AddReference, Binding
<1>9. CASE CommitBinding(r)
  <2>1. [ ref_count |-> 1, listener |-> calls[r].listener,
          registered_filters |-> calls[r].held ] \in Binding
    BY <1>9 DEF CommitBinding, NewBinding, Binding, CallsTypeOK, Call, Busy, Registering
  <2>2. QED
    BY <1>9, <2>1, RouteType DEF CommitBinding, NewBinding
<1>10. ASSUME NEW filter \in calls[r].held, UnregisterListener(r, filter)
       PROVE  Goal
  <2>1. Busy(r) /\ filter \in Filter
    BY <1>10 DEF UnregisterListener, Busy, CallsTypeOK, Call
  <2>2. QED
    BY <1>0, <1>10, <2>1 DEF UnregisterListener
<1>11. CASE ReleaseShared(r)
  BY <1>11, RouteType DEF ReleaseShared, Binding
<1>12. CASE ReleaseLast(r)
  BY <1>12 DEF ReleaseLast, Restrict
<1>13. QED
  BY <1>1, <1>2, <1>3, <1>4, <1>5, <1>6, <1>7, <1>8, <1>9, <1>10, <1>11, <1>12
     DEF RegisterRoute, CallStep, UnregisterRoute

\* A refresh hands out the next version and keeps the rows of the others.
LEMMA ApplySnapshotType ==
  ASSUME DirectoryTypeOK, NEW rows \in Responses, ApplySnapshot(rows)
  PROVE  DirectoryTypeOK'
<1>1. rows \subseteq CompleteRow
  BY ResponsesAssumption DEF ApplySnapshot, RowsAreComplete, Row, CompleteRow
<1>2. DOMAIN applied' = 0..next_version
  BY DEF ApplySnapshot, DirectoryTypeOK
<1>3. QED
  BY <1>1, <1>2 DEF ApplySnapshot, DirectoryTypeOK

\* The variables of registry and directory always have their types; above all,
\* a reference count is never zero while its binding is in the map.
THEOREM RegistryTypeCorrect == Spec => []TypeOK
<1>1. Init => TypeOK
  <2> SUFFICES ASSUME Init
               PROVE  TypeOK
    OBVIOUS
  <2>1. DirectoryTypeOK
    BY DEF Init, DirectoryInit, DirectoryTypeOK
  <2>2. CallsTypeOK
    BY DEF Init, RegistryInit, CallsTypeOK, Call, Resting, Nothing, Busy, Registering,
           Unregistering
  <2>3. QED
    BY <2>1, <2>2 DEF Init, RegistryInit, TypeOK, BindingsTypeOK, CacheTypeOK
<1>2. TypeOK /\ [Next]_vars => TypeOK'
  <2> SUFFICES ASSUME TypeOK, [Next]_vars
               PROVE  TypeOK'
    OBVIOUS
  <2>1. ASSUME NEW r \in Routes, RegisterRoute(r) \/ CallStep(r) \/ UnregisterRoute(r),
               UNCHANGED directoryVars
        PROVE  TypeOK'
    <3>1. DirectoryTypeOK'
      BY <2>1 DEF TypeOK, DirectoryTypeOK, directoryVars
    <3>2. QED
      BY <2>1, <3>1, CallsTypeNext, RegistryTypeNext DEF TypeOK
  <2>2. ASSUME NEW rows \in Responses, ApplySnapshot(rows), UNCHANGED registryVars
        PROVE  TypeOK'
    BY <2>2, ApplySnapshotType
       DEF TypeOK, registryVars, BindingsTypeOK, CacheTypeOK, CallsTypeOK, Busy
  <2>3. CASE UNCHANGED vars
    BY <2>3 DEF vars, TypeOK, BindingsTypeOK, CacheTypeOK, CallsTypeOK, Busy, DirectoryTypeOK
  <2>4. QED
    BY <2>1, <2>2, <2>3 DEF Next
<1>3. QED
  BY <1>1, <1>2, PTL DEF Spec

-----------------------------------------------------------------------------
(* Reference counts.                                                        *)

Holding == {"in", "discard"}

\* The holders of a binding are finitely many, whatever the state.
LEMMA HoldersFinite ==
  ASSUME NEW k
  PROVE  IsFiniteSet(Holders(k))
BY RoutesAssumption, FS_Subset DEF Holders

\* A step of r's call that leaves r holding, or not holding, as it was changes
\* no set of holders.
LEMMA HoldersSame ==
  ASSUME TypeOK, TypeOK', NEW r \in Routes,
         \A x \in Routes \ {r} : calls'[x] = calls[x],
         calls'[r].pc \in Holding <=> calls[r].pc \in Holding,
         NEW k
  PROVE  Holders(k)' = Holders(k)
BY DEF Holders, Holding, TypeOK, CallsTypeOK

\* A step that makes r hold its binding adds one holder.
LEMMA HoldersGain ==
  ASSUME TypeOK, TypeOK', NEW r \in Routes,
         \A x \in Routes \ {r} : calls'[x] = calls[x],
         calls'[r].pc \in Holding, calls[r].pc \notin Holding
  PROVE  /\ \A k \in BindingKeys \ {BindingKey(r)} : Holders(k)' = Holders(k)
         /\ Holders(BindingKey(r))' = Holders(BindingKey(r)) \cup {r}
         /\ Cardinality(Holders(BindingKey(r))') = Cardinality(Holders(BindingKey(r))) + 1
<1>1. /\ \A k \in BindingKeys \ {BindingKey(r)} : Holders(k)' = Holders(k)
      /\ Holders(BindingKey(r))' = Holders(BindingKey(r)) \cup {r}
      /\ r \notin Holders(BindingKey(r))
  BY DEF Holders, Holding, TypeOK, CallsTypeOK
<1>2. QED
  BY <1>1, HoldersFinite, FS_AddElement

\* A step that makes r give its binding up removes one.
LEMMA HoldersLose ==
  ASSUME TypeOK, TypeOK', NEW r \in Routes,
         \A x \in Routes \ {r} : calls'[x] = calls[x],
         calls'[r].pc \notin Holding, calls[r].pc \in Holding
  PROVE  /\ \A k \in BindingKeys \ {BindingKey(r)} : Holders(k)' = Holders(k)
         /\ Holders(BindingKey(r))' = Holders(BindingKey(r)) \ {r}
         /\ Cardinality(Holders(BindingKey(r))') = Cardinality(Holders(BindingKey(r))) - 1
<1>1. /\ \A k \in BindingKeys \ {BindingKey(r)} : Holders(k)' = Holders(k)
      /\ Holders(BindingKey(r))' = Holders(BindingKey(r)) \ {r}
      /\ r \in Holders(BindingKey(r))
  BY DEF Holders, Holding, TypeOK, CallsTypeOK
<1>2. QED
  BY <1>1, HoldersFinite, FS_RemoveElement

\* Every step of a call keeps the counts right: each branch of register_route and
\* unregister_route changes the count together with the holders.
LEMMA RefCountsNext ==
  ASSUME TypeOK, TypeOK', RefCountsMatchHolders, NEW r \in Routes,
         RegisterRoute(r) \/ CallStep(r) \/ UnregisterRoute(r)
  PROVE  RefCountsMatchHolders'
<1> DEFINE K == BindingKey(r)
<1>0. /\ K \in BindingKeys
      /\ DOMAIN bindings \subseteq BindingKeys
      /\ DOMAIN bindings' \subseteq BindingKeys
  BY RouteType DEF TypeOK, BindingsTypeOK
<1>a. ASSUME bindings' = bindings,
             \A x \in Routes \ {r} : calls'[x] = calls[x],
             calls'[r].pc \in Holding <=> calls[r].pc \in Holding
      PROVE  RefCountsMatchHolders'
  <2>1. \A k : Holders(k)' = Holders(k)
    BY <1>a, HoldersSame
  <2>2. QED
    BY <1>a, <2>1 DEF RefCountsMatchHolders
<1>b. ASSUME K \in DOMAIN bindings,
             AddReference(K),
             \A x \in Routes \ {r} : calls'[x] = calls[x],
             calls'[r].pc \in Holding, calls[r].pc \notin Holding
      PROVE  RefCountsMatchHolders'
  <2>1. /\ DOMAIN bindings' = DOMAIN bindings
        /\ \A k \in DOMAIN bindings \ {K} : bindings'[k] = bindings[k]
        /\ bindings'[K].ref_count = bindings[K].ref_count + 1
    BY <1>b DEF AddReference, TypeOK, BindingsTypeOK, Binding
  <2>2. /\ \A k \in BindingKeys \ {K} : Holders(k)' = Holders(k)
        /\ Holders(K)' # {}
        /\ Cardinality(Holders(K)') = Cardinality(Holders(K)) + 1
    BY <1>b, HoldersGain
  <2>3. QED
    BY <1>0, <1>b, <2>1, <2>2 DEF RefCountsMatchHolders
<1> USE DEF TypeOK, CallsTypeOK, Holding
<1>1. CASE ShareBinding(r)
  BY <1>1, <1>b DEF ShareBinding, Resting
<1>2. ASSUME NEW listener \in Listener, StartRegister(r, listener)
      PROVE  RefCountsMatchHolders'
  BY <1>2, <1>a DEF StartRegister
<1>3. CASE RegisterRequestListener(r)
  BY <1>3, <1>a DEF RegisterRequestListener, Call
<1>4. CASE LookupSubscribers(r)
  BY <1>4, <1>a DEF LookupSubscribers, Call
<1>5. CASE ReadFilterCache(r)
  BY <1>5, <1>a DEF ReadFilterCache, Call
<1>6. CASE FillFilterCache(r)
  BY <1>6, <1>a DEF FillFilterCache, Call
<1>7. ASSUME NEW filter \in calls[r].pending, RegisterPublishListener(r, filter)
      PROVE  RefCountsMatchHolders'
  BY <1>7, <1>a DEF RegisterPublishListener, Call
<1>8. CASE CommitShared(r)
  BY <1>8, <1>b DEF CommitShared, Call
<1>9. CASE CommitBinding(r)
  <2>1. /\ DOMAIN bindings' = DOMAIN bindings \cup {K}
        /\ \A k \in DOMAIN bindings : bindings'[k] = bindings[k]
        /\ K \notin DOMAIN bindings
        /\ bindings'[K].ref_count = 1
    BY <1>9 DEF CommitBinding, NewBinding
  <2>2. /\ \A k \in BindingKeys \ {K} : Holders(k)' = Holders(k)
        /\ Holders(K)' # {}
        /\ Cardinality(Holders(K)') = Cardinality(Holders(K)) + 1
    BY <1>9, HoldersGain DEF CommitBinding, NewBinding, Resting
  <2>3. Cardinality(Holders(K)) = 0
    BY <1>0, <2>1, FS_EmptySet DEF RefCountsMatchHolders
  <2>4. QED
    BY <1>0, <2>1, <2>2, <2>3 DEF RefCountsMatchHolders
<1>10. ASSUME NEW filter \in calls[r].held, UnregisterListener(r, filter)
       PROVE  RefCountsMatchHolders'
  <2>1. \A x \in Routes \ {r} : calls'[x] = calls[x]
    BY <1>10 DEF UnregisterListener
  <2>2. calls'[r].pc \in Holding <=> calls[r].pc \in Holding
    <3>1. CASE calls[r].held \ {filter} = {}
      BY <1>10, <3>1 DEF UnregisterListener, Resting, Outcome, Unregistering
    <3>2. CASE calls[r].held \ {filter} # {}
      BY <1>10, <3>2 DEF UnregisterListener, Call
    <3>3. QED
      BY <3>1, <3>2
  <2>3. QED
    BY <1>10, <1>a, <2>1, <2>2 DEF UnregisterListener
<1>11. CASE ReleaseShared(r)
  <2>1. /\ DOMAIN bindings' = DOMAIN bindings
        /\ \A k \in DOMAIN bindings \ {K} : bindings'[k] = bindings[k]
        /\ K \in DOMAIN bindings
        /\ bindings[K].ref_count \in Nat
        /\ bindings[K].ref_count > 1
        /\ bindings'[K].ref_count = bindings[K].ref_count - 1
    BY <1>11 DEF ReleaseShared, BindingsTypeOK, Binding
  <2>2. /\ \A k \in BindingKeys \ {K} : Holders(k)' = Holders(k)
        /\ Cardinality(Holders(K)') = Cardinality(Holders(K)) - 1
    BY <1>11, HoldersLose DEF ReleaseShared, Resting
  <2>3. Cardinality(Holders(K)') # 0
    BY <2>1, <2>2 DEF RefCountsMatchHolders
  <2>4. Holders(K)' # {}
    BY <2>3, FS_EmptySet
  <2>5. QED
    BY <1>0, <2>1, <2>2, <2>4 DEF RefCountsMatchHolders
<1>12. CASE ReleaseLast(r)
  <2>1. /\ DOMAIN bindings' = DOMAIN bindings \ {K}
        /\ \A k \in DOMAIN bindings \ {K} : bindings'[k] = bindings[k]
        /\ K \in DOMAIN bindings
        /\ bindings[K].ref_count = 1
    BY <1>12 DEF ReleaseLast, Restrict
  <2>2. /\ \A k \in BindingKeys \ {K} : Holders(k)' = Holders(k)
        /\ Holders(K)' = Holders(K) \ {r}
        /\ Cardinality(Holders(K)') = Cardinality(Holders(K)) - 1
    BY <1>12, HoldersLose DEF ReleaseLast
  <2>3. Cardinality(Holders(K)') = 0
    BY <2>1, <2>2 DEF RefCountsMatchHolders
  <2>4. IsFiniteSet(Holders(K)')
    BY <2>2, HoldersFinite, FS_RemoveElement
  <2>5. Holders(K)' = {}
    BY <2>3, <2>4, FS_EmptySet
  <2>6. QED
    BY <1>0, <2>1, <2>2, <2>5 DEF RefCountsMatchHolders
<1>13. QED
  BY <1>1, <1>2, <1>3, <1>4, <1>5, <1>6, <1>7, <1>8, <1>9, <1>10, <1>11, <1>12
     DEF RegisterRoute, CallStep, UnregisterRoute

\* Whatever the interleaving of calls and the failures of the transports, the
\* count of a binding is the number of routes that hold it, and unregister_route
\* finds the binding of every registered route.
THEOREM RefCountsCorrect == Spec => []RefCountsMatchHolders
<1>1. Init => RefCountsMatchHolders
  BY DEF Init, RegistryInit, RefCountsMatchHolders, Holders, Resting
<1>2. TypeOK /\ TypeOK' /\ RefCountsMatchHolders /\ [Next]_vars => RefCountsMatchHolders'
  <2> SUFFICES ASSUME TypeOK, TypeOK', RefCountsMatchHolders, [Next]_vars
               PROVE  RefCountsMatchHolders'
    OBVIOUS
  <2>1. ASSUME NEW r \in Routes, RegisterRoute(r) \/ CallStep(r) \/ UnregisterRoute(r)
        PROVE  RefCountsMatchHolders'
    BY <2>1, RefCountsNext
  <2>2. CASE UNCHANGED <<bindings, calls>>
    BY <2>2 DEF RefCountsMatchHolders, Holders
  <2>3. QED
    BY <2>1, <2>2 DEF Next, registryVars, vars
<1>3. QED
  BY <1>1, <1>2, RegistryTypeCorrect, PTL DEF Spec

-----------------------------------------------------------------------------
(* Ownership of listeners.                                                  *)

\* No two owners share a listener, so that none can unregister what another needs.
DistinctListeners ==
  /\ \A k1, k2 \in DOMAIN bindings :
       bindings[k1].listener = bindings[k2].listener => k1 = k2
  /\ \A r1, r2 \in Routes :
       Busy(r1) /\ Busy(r2) /\ calls[r1].listener = calls[r2].listener => r1 = r2
  /\ \A r \in Routes, k \in DOMAIN bindings :
       Busy(r) => calls[r].listener # bindings[k].listener

\* Past its request filter, a registering call has registered all it holds.
CallsAreServed ==
  \A r \in Routes : calls[r].pc \in Registering \ {"request"} =>
    \A filter \in calls[r].held : Registration(r, filter, calls[r].listener) \in listeners

\* Before the publish loop a call holds its request filter alone.
RequestHeldFirst ==
  \A r \in Routes :
    calls[r].pc \in Registering \ {"publish"} => calls[r].held = {RequestFilter(r)}

OwnershipInv ==
  /\ DistinctListeners
  /\ RequestHeldFirst
  /\ CallsAreServed
  /\ BindingsAreServed
  /\ NoStrayListener

\* What the steps of r's call leave alone, and what they are in terms of owners:
\* a fresh listener is nobody else's.
LEMMA FreshIsUnused ==
  ASSUME TypeOK, NEW listener \in Listener, Fresh(listener)
  PROVE  /\ \A k \in DOMAIN bindings : bindings[k].listener # listener
         /\ \A x \in Routes : Busy(x) => calls[x].listener # listener
         /\ \A e \in listeners : e.listener # listener
BY DEF Fresh, LiveListeners

\* Every step of a call keeps the owners of listeners apart.
LEMMA DistinctNext ==
  ASSUME TypeOK, TypeOK', OwnershipInv, NEW r \in Routes,
         RegisterRoute(r) \/ CallStep(r) \/ UnregisterRoute(r)
  PROVE  DistinctListeners'
<1> USE DEF OwnershipInv, DistinctListeners, Busy, Registering, Unregistering
<1>a. ASSUME \A x \in Routes \ {r} : calls'[x] = calls[x],
             DOMAIN bindings' = DOMAIN bindings,
             \A k \in DOMAIN bindings : bindings'[k].listener = bindings[k].listener,
             ~Busy(r)' \/ (Busy(r) /\ calls'[r].listener = calls[r].listener)
      PROVE  DistinctListeners'
  BY <1>a
<1>b. ASSUME NEW k \in DOMAIN bindings, NEW n,
             bindings' = [bindings EXCEPT ![k].ref_count = n]
      PROVE  /\ DOMAIN bindings' = DOMAIN bindings
             /\ \A x \in DOMAIN bindings : bindings'[x].listener = bindings[x].listener
  BY <1>b DEF TypeOK, BindingsTypeOK, Binding
<1>c. ASSUME bindings' = bindings,
             \A x \in Routes \ {r} : calls'[x] = calls[x],
             Busy(r), ~Busy(r)' \/ calls'[r].listener = calls[r].listener
      PROVE  DistinctListeners'
  BY <1>a, <1>c
<1> USE DEF TypeOK, CallsTypeOK
<1>1. CASE ShareBinding(r)
  BY <1>1, <1>a, <1>b DEF ShareBinding, AddReference, Resting
<1>2. ASSUME NEW listener \in Listener, Fresh(listener), StartRegister(r, listener)
      PROVE  DistinctListeners'
  BY <1>2, FreshIsUnused DEF StartRegister
<1>3. CASE RegisterRequestListener(r)
  BY <1>3, <1>c DEF RegisterRequestListener, Call
<1>4. CASE LookupSubscribers(r)
  BY <1>4, <1>c DEF LookupSubscribers, Call
<1>5. CASE ReadFilterCache(r)
  BY <1>5, <1>c DEF ReadFilterCache, Call
<1>6. CASE FillFilterCache(r)
  BY <1>6, <1>c DEF FillFilterCache, Call
<1>7. ASSUME NEW filter \in calls[r].pending, RegisterPublishListener(r, filter)
      PROVE  DistinctListeners'
  BY <1>7, <1>c DEF RegisterPublishListener, Call
<1>8. CASE CommitShared(r)
  BY <1>8, <1>a, <1>b DEF CommitShared, AddReference, Call
<1>9. CASE CommitBinding(r)
  BY <1>9 DEF CommitBinding, NewBinding, Resting
<1>10. ASSUME NEW filter \in calls[r].held, UnregisterListener(r, filter)
       PROVE  DistinctListeners'
  <2>1. CASE calls[r].held \ {filter} = {}
    BY <1>10, <2>1, <1>c DEF UnregisterListener, Resting, Outcome
  <2>2. CASE calls[r].held \ {filter} # {}
    BY <1>10, <2>2, <1>c DEF UnregisterListener, Call
  <2>3. QED
    BY <2>1, <2>2
<1>11. CASE ReleaseShared(r)
  BY <1>11, <1>a, <1>b DEF ReleaseShared, Resting
<1>12. CASE ReleaseLast(r)
  BY <1>12 DEF ReleaseLast, Restrict
<1>13. QED
  BY <1>1, <1>2, <1>3, <1>4, <1>5, <1>6, <1>7, <1>8, <1>9, <1>10, <1>11, <1>12
     DEF RegisterRoute, CallStep, UnregisterRoute

\* The request filter is noted for rollback first, and nothing else before the
\* publish loop.
LEMMA RequestHeldNext ==
  ASSUME TypeOK, TypeOK', RequestHeldFirst, NEW r \in Routes,
         RegisterRoute(r) \/ CallStep(r) \/ UnregisterRoute(r)
  PROVE  RequestHeldFirst'
<1> USE DEF RequestHeldFirst, TypeOK, CallsTypeOK, Registering
<1>1. CASE ShareBinding(r)
  BY <1>1 DEF ShareBinding, Resting
<1>2. ASSUME NEW listener \in Listener, StartRegister(r, listener)
      PROVE  RequestHeldFirst'
  BY <1>2 DEF StartRegister
<1>3. CASE RegisterRequestListener(r)
  <2>1. /\ calls[r].pc = "request"
        /\ \/ calls' = [calls EXCEPT ![r].pc = "lookup"]
           \/ calls' = [calls EXCEPT ![r].pc = "rollback"]
    BY <1>3 DEF RegisterRequestListener
  <2>2. /\ calls'[r].held = calls[r].held
        /\ \A x \in Routes \ {r} : calls'[x] = calls[x]
    BY <2>1 DEF Call
  <2>3. calls[r].held = {RequestFilter(r)}
    BY <2>1
  <2>4. QED
    BY <2>2, <2>3
<1>4. CASE LookupSubscribers(r)
  BY <1>4 DEF LookupSubscribers, Call
<1>5. CASE ReadFilterCache(r)
  BY <1>5 DEF ReadFilterCache, Call
<1>6. CASE FillFilterCache(r)
  BY <1>6 DEF FillFilterCache, Call
<1>7. ASSUME NEW filter \in calls[r].pending, RegisterPublishListener(r, filter)
      PROVE  RequestHeldFirst'
  BY <1>7 DEF RegisterPublishListener, Call
<1>8. CASE CommitShared(r)
  BY <1>8 DEF CommitShared, Call
<1>9. CASE CommitBinding(r)
  BY <1>9 DEF CommitBinding, NewBinding, Resting
<1>10. ASSUME NEW filter \in calls[r].held, UnregisterListener(r, filter)
       PROVE  RequestHeldFirst'
  <2>1. CASE calls[r].held \ {filter} = {}
    BY <1>10, <2>1 DEF UnregisterListener, Resting, Outcome
  <2>2. CASE calls[r].held \ {filter} # {}
    BY <1>10, <2>2 DEF UnregisterListener, Unregistering, Call
  <2>3. QED
    BY <2>1, <2>2
<1>11. CASE ReleaseShared(r)
  BY <1>11 DEF ReleaseShared, Resting
<1>12. CASE ReleaseLast(r)
  BY <1>12 DEF ReleaseLast
<1>13. QED
  BY <1>1, <1>2, <1>3, <1>4, <1>5, <1>6, <1>7, <1>8, <1>9, <1>10, <1>11, <1>12
     DEF RegisterRoute, CallStep, UnregisterRoute

\* Every step of a call leaves registered what bindings and registering calls
\* need: only UnregisterListener removes a registration, and only one of r's own
\* listener.
LEMMA ServedNext ==
  ASSUME TypeOK, TypeOK', OwnershipInv, NEW r \in Routes,
         RegisterRoute(r) \/ CallStep(r) \/ UnregisterRoute(r)
  PROVE  BindingsAreServed' /\ CallsAreServed'
<1> DEFINE Goal == BindingsAreServed' /\ CallsAreServed'
<1> USE DEF OwnershipInv, BindingsAreServed, CallsAreServed, Registration
<1>a. ASSUME \A x \in Routes \ {r} : calls'[x] = calls[x],
             listeners \subseteq listeners',
             DOMAIN bindings' \subseteq DOMAIN bindings,
             \A k \in DOMAIN bindings' :
               /\ bindings'[k].listener = bindings[k].listener
               /\ bindings'[k].registered_filters = bindings[k].registered_filters,
             calls'[r].pc \in Registering \ {"request"} =>
               \A filter \in calls'[r].held :
                 Registration(r, filter, calls'[r].listener) \in listeners'
      PROVE  Goal
  BY <1>a
<1>b. ASSUME NEW k \in DOMAIN bindings, NEW n,
             bindings' = [bindings EXCEPT ![k].ref_count = n]
      PROVE  /\ DOMAIN bindings' \subseteq DOMAIN bindings
             /\ \A x \in DOMAIN bindings' :
                  /\ bindings'[x].listener = bindings[x].listener
                  /\ bindings'[x].registered_filters = bindings[x].registered_filters
  BY <1>b DEF TypeOK, BindingsTypeOK, Binding
<1>c. ASSUME bindings' = bindings, listeners' = listeners,
             \A x \in Routes \ {r} : calls'[x] = calls[x],
             \/ calls'[r].pc \notin Registering \ {"request"}
             \/ /\ calls[r].pc \in Registering \ {"request"}
                /\ calls'[r].held = calls[r].held
                /\ calls'[r].listener = calls[r].listener
      PROVE  Goal
  BY <1>c
<1> USE DEF TypeOK, CallsTypeOK, Registering
<1>1. CASE ShareBinding(r)
  BY <1>1, <1>a, <1>b DEF ShareBinding, AddReference, Resting
<1>2. ASSUME NEW listener \in Listener, StartRegister(r, listener)
      PROVE  Goal
  BY <1>2, <1>c DEF StartRegister
<1>3. CASE RegisterRequestListener(r)
  BY <1>3 DEF RegisterRequestListener, RequestHeldFirst, Call
<1>4. CASE LookupSubscribers(r)
  BY <1>4, <1>c DEF LookupSubscribers, Call
<1>5. CASE ReadFilterCache(r)
  BY <1>5, <1>c DEF ReadFilterCache, Call
<1>6. CASE FillFilterCache(r)
  BY <1>6, <1>c DEF FillFilterCache, Call
<1>7. ASSUME NEW filter \in calls[r].pending, RegisterPublishListener(r, filter)
      PROVE  Goal
  BY <1>7, <1>a DEF RegisterPublishListener, Call
<1>8. CASE CommitShared(r)
  BY <1>8, <1>a, <1>b DEF CommitShared, AddReference, Call
<1>9. CASE CommitBinding(r)
  <2>1. CallsAreServed'
    BY <1>9 DEF CommitBinding, NewBinding, Resting
  <2>2. \A filter \in calls[r].held :
          [ transport |-> BindingKey(r).transport, filter |-> filter,
            listener |-> calls[r].listener ] \in listeners
    BY <1>9 DEF CommitBinding, NewBinding, BindingKey
  <2>3. BindingsAreServed'
    BY <1>9, <2>2 DEF CommitBinding, NewBinding
  <2>4. QED
    BY <2>1, <2>3
<1>10. ASSUME NEW filter \in calls[r].held, UnregisterListener(r, filter)
       PROVE  Goal
  <2>1. /\ bindings' = bindings
        /\ \A x \in Routes \ {r} : calls'[x] = calls[x]
        /\ \A e \in listeners : e.listener # calls[r].listener => e \in listeners'
        /\ Busy(r)
    BY <1>10 DEF UnregisterListener, Busy
  <2>2. calls'[r].pc \notin Registering
    <3>1. CASE calls[r].held \ {filter} = {}
      BY <1>10, <3>1 DEF UnregisterListener, Resting, Outcome
    <3>2. CASE calls[r].held \ {filter} # {}
      BY <1>10, <3>2 DEF UnregisterListener, Unregistering, Call
    <3>3. QED
      BY <3>1, <3>2
  <2>3. BindingsAreServed'
    BY <2>1 DEF DistinctListeners
  <2>4. CallsAreServed'
    BY <2>1, <2>2 DEF DistinctListeners, Busy
  <2>5. QED
    BY <2>3, <2>4
<1>11. CASE ReleaseShared(r)
  BY <1>11, <1>a, <1>b DEF ReleaseShared, Resting
<1>12. CASE ReleaseLast(r)
  BY <1>12, <1>a DEF ReleaseLast, Restrict
<1>13. QED
  BY <1>1, <1>2, <1>3, <1>4, <1>5, <1>6, <1>7, <1>8, <1>9, <1>10, <1>11, <1>12
     DEF RegisterRoute, CallStep, UnregisterRoute

\* Every step of a call accounts for what it registers, and hands ownership over
\* between call and binding without losing a filter.
LEMMA NoStrayNext ==
  ASSUME TypeOK, TypeOK', OwnershipInv, NEW r \in Routes,
         RegisterRoute(r) \/ CallStep(r) \/ UnregisterRoute(r)
  PROVE  NoStrayListener'
<1> DEFINE OwnedByR(e) == /\ Busy(r)
                          /\ e.transport = r.ingress_transport
                          /\ e.listener = calls[r].listener
                          /\ e.filter \in calls[r].held
<1> USE DEF OwnershipInv, NoStrayListener, OwnedByBinding, OwnedByCall
\* It is enough to find an owner for what is new and for what r itself owned.
<1>a. ASSUME \A x \in Routes \ {r} : calls'[x] = calls[x],
             DOMAIN bindings' = DOMAIN bindings,
             \A k \in DOMAIN bindings :
               /\ bindings'[k].listener = bindings[k].listener
               /\ bindings'[k].registered_filters = bindings[k].registered_filters,
             stranded \subseteq stranded',
             \A e \in listeners' :
               e \notin listeners \/ OwnedByR(e) => OwnedByR(e)' \/ e \in stranded'
      PROVE  NoStrayListener'
  <2> SUFFICES ASSUME NEW e \in listeners'
               PROVE  OwnedByBinding(e)' \/ OwnedByCall(e)' \/ e \in stranded'
    OBVIOUS
  <2>1. CASE e \notin listeners \/ OwnedByR(e)
    BY <1>a, <2>1
  <2>2. CASE e \in listeners /\ ~OwnedByR(e)
    BY <1>a, <2>2 DEF Busy
  <2>3. QED
    BY <2>1, <2>2
<1>b. ASSUME NEW k \in DOMAIN bindings, NEW n,
             bindings' = [bindings EXCEPT ![k].ref_count = n]
      PROVE  /\ DOMAIN bindings' = DOMAIN bindings
             /\ \A x \in DOMAIN bindings :
                  /\ bindings'[x].listener = bindings[x].listener
                  /\ bindings'[x].registered_filters = bindings[x].registered_filters
  BY <1>b DEF TypeOK, BindingsTypeOK, Binding
<1>c. ASSUME bindings' = bindings, listeners' = listeners, stranded' = stranded,
             \A x \in Routes \ {r} : calls'[x] = calls[x],
             Busy(r) => /\ Busy(r)'
                        /\ calls'[r].held = calls[r].held
                        /\ calls'[r].listener = calls[r].listener
      PROVE  NoStrayListener'
  BY <1>a, <1>c
<1>d. ASSUME NEW filter, Busy(r), Busy(r)',
             listeners' = listeners \cup {Registration(r, filter, calls[r].listener)},
             bindings' = bindings, stranded' = stranded,
             \A x \in Routes \ {r} : calls'[x] = calls[x],
             calls'[r].listener = calls[r].listener,
             calls[r].held \cup {filter} \subseteq calls'[r].held
      PROVE  NoStrayListener'
  BY <1>d, <1>a DEF Registration
<1> USE DEF TypeOK, CallsTypeOK, Busy, Registering, Unregistering
<1>1. CASE ShareBinding(r)
  BY <1>1, <1>a, <1>b DEF ShareBinding, AddReference, Resting
<1>2. ASSUME NEW listener \in Listener, StartRegister(r, listener)
      PROVE  NoStrayListener'
  BY <1>2, <1>c DEF StartRegister
<1>3. CASE RegisterRequestListener(r)
  <2>1. /\ calls'[r].held = calls[r].held
        /\ calls'[r].listener = calls[r].listener
        /\ calls'[r].pc \in {"lookup", "rollback"}
        /\ calls[r].pc = "request"
        /\ \A x \in Routes \ {r} : calls'[x] = calls[x]
    BY <1>3 DEF RegisterRequestListener, Call
  <2>2. RequestFilter(r) \in calls[r].held
    BY <2>1 DEF RequestHeldFirst
  <2>3. CASE listeners' = listeners
    BY <1>3, <2>1, <2>3, <1>c DEF RegisterRequestListener
  <2>4. CASE listeners' = listeners \cup {Registration(r, RequestFilter(r), calls[r].listener)}
    BY <1>3, <2>1, <2>2, <2>4, <1>d DEF RegisterRequestListener
  <2>5. QED
    BY <1>3, <2>3, <2>4 DEF RegisterRequestListener
<1>4. CASE LookupSubscribers(r)
  <2>1. /\ calls'[r].pc = "cache_get"
        /\ calls'[r].held = calls[r].held
        /\ calls'[r].listener = calls[r].listener
        /\ \A x \in Routes \ {r} : calls'[x] = calls[x]
    BY <1>4 DEF LookupSubscribers, Call
  <2>2. QED
    BY <1>4, <2>1, <1>c DEF LookupSubscribers
<1>5. CASE ReadFilterCache(r)
  <2> DEFINE key == CacheKey(r, calls[r].found.version)
             hit == key \in DOMAIN publish_filter_cache
             next == IF hit THEN [calls[r] EXCEPT !.pc = "publish", !.found = Nothing,
                                                  !.pending = publish_filter_cache[key]]
                            ELSE [calls[r] EXCEPT !.pc = "cache_insert"]
  <2>1. /\ calls'[r] = next
        /\ \A x \in Routes \ {r} : calls'[x] = calls[x]
    BY <1>5 DEF ReadFilterCache
  <2>2. calls[r] \in Call
    OBVIOUS
  <2>3. /\ next.pc \in {"publish", "cache_insert"}
        /\ next.held = calls[r].held
        /\ next.listener = calls[r].listener
    BY <2>2 DEF Call
  <2> HIDE DEF next
  <2>4. QED
    BY <1>5, <2>1, <2>3, <1>c DEF ReadFilterCache
<1>6. CASE FillFilterCache(r)
  <2>1. PICK pending : calls' = [calls EXCEPT ![r].pc = "publish", ![r].found = Nothing,
                                              ![r].pending = pending]
    BY <1>6 DEF FillFilterCache
  <2>2. /\ calls'[r].pc = "publish"
        /\ calls'[r].held = calls[r].held
        /\ calls'[r].listener = calls[r].listener
        /\ \A x \in Routes \ {r} : calls'[x] = calls[x]
    BY <2>1 DEF Call
  <2>3. QED
    BY <1>6, <2>2, <1>c DEF FillFilterCache
<1>7. ASSUME NEW filter \in calls[r].pending, RegisterPublishListener(r, filter)
      PROVE  NoStrayListener'
  <2>1. /\ calls[r].pc = "publish"
        /\ bindings' = bindings
        /\ stranded' = stranded
        /\ \A x \in Routes \ {r} : calls'[x] = calls[x]
        /\ calls'[r].listener = calls[r].listener
    BY <1>7 DEF RegisterPublishListener, Call
  <2>2. CASE /\ listeners' = listeners \cup {Registration(r, filter, calls[r].listener)}
             /\ calls' = [calls EXCEPT ![r].pending = @ \ {filter},
                                       ![r].held = @ \cup {filter}]
    <3>1. /\ calls'[r].pc = "publish"
          /\ calls'[r].held = calls[r].held \cup {filter}
      BY <2>1, <2>2 DEF Call
    <3>2. QED
      BY <2>1, <2>2, <3>1, <1>d
  <2>3. CASE /\ listeners' = listeners
             /\ calls' = [calls EXCEPT ![r].pc = "rollback", ![r].pending = {}]
    <3>1. calls'[r].pc = "rollback" /\ calls'[r].held = calls[r].held
      BY <2>3 DEF Call
    <3>2. QED
      BY <2>1, <2>3, <3>1, <1>c
  <2>4. QED
    BY <1>7, <2>2, <2>3 DEF RegisterPublishListener
<1>8. CASE CommitShared(r)
  BY <1>8, <1>a, <1>b DEF CommitShared, AddReference, Call
<1>9. CASE CommitBinding(r)
  <2> SUFFICES ASSUME NEW e \in listeners'
               PROVE  OwnedByBinding(e)' \/ OwnedByCall(e)' \/ e \in stranded'
    OBVIOUS
  <2>1. CASE OwnedByR(e)
    <3>1. /\ BindingKey(r) \in DOMAIN bindings'
          /\ bindings'[BindingKey(r)].listener = calls[r].listener
          /\ bindings'[BindingKey(r)].registered_filters = calls[r].held
          /\ BindingKey(r).transport = r.ingress_transport
      BY <1>9 DEF CommitBinding, NewBinding, BindingKey
    <3>2. QED
      BY <2>1, <3>1
  <2>2. CASE ~OwnedByR(e)
    <3>1. /\ \A k \in DOMAIN bindings : k \in DOMAIN bindings' /\ bindings'[k] = bindings[k]
          /\ \A x \in Routes \ {r} : calls'[x] = calls[x]
          /\ listeners' = listeners /\ stranded' = stranded
      BY <1>9 DEF CommitBinding, NewBinding
    <3>2. QED
      BY <2>2, <3>1
  <2>3. QED
    BY <2>1, <2>2
<1>10. ASSUME NEW filter \in calls[r].held, UnregisterListener(r, filter)
       PROVE  NoStrayListener'
  <2> DEFINE gone == Registration(r, filter, calls[r].listener)
  <2>1. /\ bindings' = bindings
        /\ \A x \in Routes \ {r} : calls'[x] = calls[x]
        /\ Busy(r)
        /\ stranded \subseteq stranded'
        /\ listeners' \subseteq listeners
        /\ gone \in listeners' => gone \in stranded'
    BY <1>10 DEF UnregisterListener
  <2>2. ASSUME NEW e \in listeners', OwnedByR(e)
        PROVE  OwnedByR(e)' \/ e \in stranded'
    <3>1. CASE e.filter = filter
      <4>1. e = gone
        BY <2>1, <2>2, <3>1 DEF Registration, Registrations
      <4>2. QED
        BY <2>1, <2>2, <4>1
    <3>2. CASE e.filter # filter
      <4>1. e.filter \in calls[r].held \ {filter}
        BY <2>2, <3>2
      <4>2. calls' = [calls EXCEPT ![r] = [@ EXCEPT !.held = calls[r].held \ {filter}]]
        BY <1>10, <4>1 DEF UnregisterListener
      <4>3. /\ calls'[r].pc = calls[r].pc
            /\ calls'[r].listener = calls[r].listener
            /\ calls'[r].held = calls[r].held \ {filter}
        BY <4>2 DEF Call
      <4>4. QED
        BY <2>2, <4>1, <4>3
    <3>3. QED
      BY <3>1, <3>2
  <2>3. QED
    BY <1>a, <2>1, <2>2
<1>11. CASE ReleaseShared(r)
  BY <1>11, <1>a, <1>b DEF ReleaseShared, Resting
<1>12. CASE ReleaseLast(r)
  <2> SUFFICES ASSUME NEW e \in listeners'
               PROVE  OwnedByBinding(e)' \/ OwnedByCall(e)' \/ e \in stranded'
    OBVIOUS
  <2>1. /\ \A k \in DOMAIN bindings \ {BindingKey(r)} :
             k \in DOMAIN bindings' /\ bindings'[k] = bindings[k]
        /\ \A x \in Routes \ {r} : calls'[x] = calls[x]
        /\ listeners' = listeners /\ stranded' = stranded
        /\ calls[r].pc = "in"
        /\ calls'[r].pc = "unregister"
        /\ calls'[r].listener = bindings[BindingKey(r)].listener
        /\ calls'[r].held = bindings[BindingKey(r)].registered_filters
        /\ BindingKey(r).transport = r.ingress_transport
    BY <1>12 DEF ReleaseLast, Restrict, BindingKey
  <2>2. QED
    BY <2>1
<1>13. QED
  BY <1>1, <1>2, <1>3, <1>4, <1>5, <1>6, <1>7, <1>8, <1>9, <1>10, <1>11, <1>12
     DEF RegisterRoute, CallStep, UnregisterRoute

\* The ownership invariant holds of every reachable state.
THEOREM OwnershipCorrect == Spec => []OwnershipInv
<1>1. Init => OwnershipInv
  BY DEF Init, RegistryInit, OwnershipInv, DistinctListeners, RequestHeldFirst,
         CallsAreServed, BindingsAreServed, NoStrayListener, Busy, Resting, Registering,
         Unregistering
<1>2. TypeOK /\ TypeOK' /\ OwnershipInv /\ [Next]_vars => OwnershipInv'
  <2> SUFFICES ASSUME TypeOK, TypeOK', OwnershipInv, [Next]_vars
               PROVE  OwnershipInv'
    OBVIOUS
  <2>1. ASSUME NEW r \in Routes, RegisterRoute(r) \/ CallStep(r) \/ UnregisterRoute(r)
        PROVE  OwnershipInv'
    BY <2>1, DistinctNext, RequestHeldNext, ServedNext, NoStrayNext DEF OwnershipInv
  <2>2. CASE UNCHANGED registryVars
    BY <2>2 DEF registryVars, OwnershipInv, DistinctListeners, RequestHeldFirst,
                CallsAreServed, BindingsAreServed, NoStrayListener, OwnedByBinding,
                OwnedByCall, Busy
  <2>3. QED
    BY <2>1, <2>2 DEF Next, registryVars, vars
<1>3. QED
  BY <1>1, <1>2, RegistryTypeCorrect, PTL DEF Spec

\* While a binding exists, each of its filters is registered with the ingress
\* transport for the binding's own listener.
THEOREM BindingsStayServed == Spec => []BindingsAreServed
<1>1. OwnershipInv => BindingsAreServed
  BY DEF OwnershipInv
<1>2. QED
  BY <1>1, OwnershipCorrect, PTL

\* Nothing stays registered without an owner, whatever registrations fail and
\* wherever in a call they do, except what a transport refused to unregister.
THEOREM NoListenerIsLeftBehind == Spec => []NoStrayListener
<1>1. OwnershipInv => NoStrayListener
  BY DEF OwnershipInv
<1>2. QED
  BY <1>1, OwnershipCorrect, PTL

-----------------------------------------------------------------------------
(* The publish filters of IngressRegistry: which snapshot the cached filters *)
(* and the filters of a binding come from, however refreshes and calls       *)
(* interleave.                                                               *)

(* What the routes, calls and cache entries take from which snapshot.       *)

\* The publish filters of a route under a version.
FiltersOf(r, v) == PublishFilters(r, LookupRouteSubscribers(applied[v], r.egress_authority))

\* All filters of a route under a version.
AllFiltersOf(r, v) == {RequestFilter(r)} \cup FiltersOf(r, v)

\* The cache holds no entry of a version still to come.
CacheVersionsApplied ==
  \A key \in DOMAIN publish_filter_cache : key.snapshot_version \in DOMAIN applied

CachedFiltersRight ==
  \A r \in Routes : \A v \in DOMAIN applied :
    CacheKey(r, v) \in DOMAIN publish_filter_cache =>
      publish_filter_cache[CacheKey(r, v)] = FiltersOf(r, v)

\* What a call has read from the directory is still the lookup in the snapshot
\* of that version, though the snapshot may have been replaced since.
FoundIsApplied(r) ==
  calls[r].pc \in {"cache_get", "cache_insert"} =>
    /\ calls[r].found.version \in DOMAIN applied
    /\ calls[r].found.subscribers =
         LookupRouteSubscribers(applied[calls[r].found.version], r.egress_authority)

\* Until its publish filters are known a call holds the request filter alone.
RequestHeldAlone(r) ==
  calls[r].pc \in {"request", "lookup", "cache_get", "cache_insert"} =>
    calls[r].held = {RequestFilter(r)}

\* What a publish loop has registered and what it has still to register are
\* together the filters of one version.
LoopHasOneVersion(r) ==
  calls[r].pc = "publish" =>
    \E v \in DOMAIN applied : calls[r].held \cup calls[r].pending = AllFiltersOf(r, v)

CallRight(r) == FoundIsApplied(r) /\ RequestHeldAlone(r) /\ LoopHasOneVersion(r)

BindingRight(r) ==
  BindingKey(r) \in DOMAIN bindings =>
    \E v \in DOMAIN applied :
      bindings[BindingKey(r)].registered_filters = AllFiltersOf(r, v)

SnapshotInv ==
  /\ CacheVersionsApplied
  /\ CachedFiltersRight
  /\ \A r \in Routes : CallRight(r)
  /\ \A r \in Routes : BindingRight(r)

-----------------------------------------------------------------------------
\* Routes that share a cache entry or a binding have the same filters.
LEMMA SameAuthoritiesSameFilters ==
  ASSUME NEW r \in Routes, NEW x \in Routes, NEW v,
         r.ingress_authority = x.ingress_authority,
         r.egress_authority = x.egress_authority
  PROVE  FiltersOf(r, v) = FiltersOf(x, v) /\ AllFiltersOf(r, v) = AllFiltersOf(x, v)
BY DEF FiltersOf, AllFiltersOf, PublishFilters, RequestFilter

\* A call's step leaves every version's rows alone, so the filters of every
\* version stay what they are.
LEMMA FiltersStay ==
  ASSUME UNCHANGED applied, NEW r, NEW v
  PROVE  FiltersOf(r, v)' = FiltersOf(r, v) /\ AllFiltersOf(r, v)' = AllFiltersOf(r, v)
BY DEF FiltersOf, AllFiltersOf

\* A refresh adds a version and leaves the filters of the others alone.
LEMMA FiltersOfOldVersionsStay ==
  ASSUME DirectoryTypeOK, NEW rows \in Responses, ApplySnapshot(rows)
  PROVE  /\ DOMAIN applied \subseteq DOMAIN applied'
         /\ next_version \notin DOMAIN applied
         /\ DOMAIN applied' = DOMAIN applied \cup {next_version}
         /\ \A v \in DOMAIN applied : applied'[v] = applied[v]
BY DEF DirectoryTypeOK, ApplySnapshot

\* A step that changes only r's call leaves what other calls have right.
LEMMA OtherCallsStayRight ==
  ASSUME NEW r \in Routes, NEW x \in Routes \ {r},
         calls'[x] = calls[x], UNCHANGED applied, CallRight(x)
  PROVE  CallRight(x)'
BY FiltersStay DEF CallRight, FoundIsApplied, RequestHeldAlone, LoopHasOneVersion

\* So do the cache and the bindings while neither is written.
LEMMA UnwrittenStaysRight ==
  ASSUME SnapshotInv, UNCHANGED applied
  PROVE  /\ UNCHANGED publish_filter_cache => (CacheVersionsApplied /\ CachedFiltersRight)'
         /\ UNCHANGED bindings => \A x \in Routes : BindingRight(x)'
<1>1. ASSUME UNCHANGED publish_filter_cache
      PROVE  (CacheVersionsApplied /\ CachedFiltersRight)'
  BY <1>1, FiltersStay DEF SnapshotInv, CacheVersionsApplied, CachedFiltersRight
<1>2. ASSUME UNCHANGED bindings, NEW x \in Routes
      PROVE  BindingRight(x)'
  BY <1>2, FiltersStay DEF SnapshotInv, BindingRight
<1>3. QED
  BY <1>1, <1>2

\* A call's own step keeps what it has read and registered right.
LEMMA CallStaysRight ==
  ASSUME TypeOK, SnapshotInv, UNCHANGED directoryVars, NEW r \in Routes,
         RegisterRoute(r) \/ CallStep(r) \/ UnregisterRoute(r)
  PROVE  CallRight(r)'
<1> USE DEF CallRight, FoundIsApplied, RequestHeldAlone, LoopHasOneVersion
<1>0. /\ CallRight(r)
      /\ UNCHANGED applied
      /\ calls \in [Routes -> Call]
  BY DEF SnapshotInv, directoryVars, TypeOK, CallsTypeOK
<1>1. CASE calls'[r].pc \notin Registering
  BY <1>1 DEF Registering
<1>2. ASSUME NEW listener \in Listener, StartRegister(r, listener)
      PROVE  CallRight(r)'
  BY <1>0, <1>2 DEF StartRegister
<1>3. CASE RegisterRequestListener(r)
  <2>1. /\ calls[r].pc = "request"
        /\ calls'[r].pc \in {"lookup", "rollback"}
        /\ calls'[r].held = calls[r].held
    BY <1>0, <1>3 DEF RegisterRequestListener, Call
  <2>2. QED
    BY <1>0, <2>1
<1>4. CASE LookupSubscribers(r)
  <2>1. /\ calls[r].pc = "lookup"
        /\ calls'[r].pc = "cache_get"
        /\ calls'[r].held = calls[r].held
        /\ calls'[r].found.version = snapshot.version
        /\ calls'[r].found.subscribers =
             LookupRouteSubscribers(snapshot.rows, r.egress_authority)
    BY <1>0, <1>4 DEF LookupSubscribers, Call
  <2>2. snapshot.version \in DOMAIN applied /\ snapshot.rows = applied[snapshot.version]
    BY DEF TypeOK, DirectoryTypeOK
  <2>3. QED
    BY <1>0, <2>1, <2>2
<1>5. CASE ReadFilterCache(r)
  <2> DEFINE v == calls[r].found.version
  <2>1. /\ calls[r].pc = "cache_get"
        /\ v \in DOMAIN applied
        /\ calls[r].held = {RequestFilter(r)}
    BY <1>0, <1>5 DEF ReadFilterCache
  <2>2. CASE CacheKey(r, v) \in DOMAIN publish_filter_cache
    <3>1. publish_filter_cache[CacheKey(r, v)] = FiltersOf(r, v)
      BY <2>1, <2>2 DEF SnapshotInv, CachedFiltersRight
    <3>2. /\ calls'[r].pc = "publish"
          /\ calls'[r].held = calls[r].held
          /\ calls'[r].pending = publish_filter_cache[CacheKey(r, v)]
      BY <1>0, <1>5, <2>2 DEF ReadFilterCache, Call
    <3>3. calls'[r].held \cup calls'[r].pending = AllFiltersOf(r, v)
      BY <2>1, <3>1, <3>2 DEF AllFiltersOf
    <3>4. QED
      BY <1>0, <2>1, <3>2, <3>3, FiltersStay
  <2>3. CASE CacheKey(r, v) \notin DOMAIN publish_filter_cache
    <3>1. /\ calls'[r].pc = "cache_insert"
          /\ calls'[r].held = calls[r].held
          /\ calls'[r].found = calls[r].found
      BY <1>0, <1>5, <2>3 DEF ReadFilterCache, Call
    <3>2. QED
      BY <1>0, <2>1, <3>1
  <2>4. QED
    BY <2>2, <2>3
<1>6. CASE FillFilterCache(r)
  <2> DEFINE v == calls[r].found.version
  <2>1. /\ calls[r].pc = "cache_insert"
        /\ v \in DOMAIN applied
        /\ calls[r].held = {RequestFilter(r)}
        /\ PublishFilters(r, calls[r].found.subscribers) = FiltersOf(r, v)
    BY <1>0, <1>6 DEF FillFilterCache, FiltersOf
  <2>2. CacheKey(r, v) \in DOMAIN publish_filter_cache =>
          publish_filter_cache[CacheKey(r, v)] = FiltersOf(r, v)
    BY <2>1 DEF SnapshotInv, CachedFiltersRight
  <2>3. /\ calls'[r].pc = "publish"
        /\ calls'[r].held = calls[r].held
        /\ calls'[r].pending = FiltersOf(r, v)
    BY <1>0, <1>6, <2>1, <2>2 DEF FillFilterCache, Call
  <2>4. calls'[r].held \cup calls'[r].pending = AllFiltersOf(r, v)
    BY <2>1, <2>3 DEF AllFiltersOf
  <2>5. QED
    BY <1>0, <2>1, <2>3, <2>4, FiltersStay
<1>7. ASSUME NEW filter \in calls[r].pending, RegisterPublishListener(r, filter)
      PROVE  CallRight(r)'
  <2>1. CASE calls' = [calls EXCEPT ![r].pending = @ \ {filter},
                                    ![r].held = @ \cup {filter}]
    <3>1. /\ calls'[r].pc = "publish"
          /\ calls'[r].held = calls[r].held \cup {filter}
          /\ calls'[r].pending = calls[r].pending \ {filter}
      BY <1>0, <1>7, <2>1 DEF RegisterPublishListener, Call
    <3>2. calls'[r].held \cup calls'[r].pending = calls[r].held \cup calls[r].pending
      BY <3>1
    <3>3. PICK v \in DOMAIN applied :
            calls[r].held \cup calls[r].pending = AllFiltersOf(r, v)
      BY <1>0, <1>7 DEF RegisterPublishListener
    <3>4. QED
      BY <1>0, <3>1, <3>2, <3>3, FiltersStay
  <2>2. CASE calls' = [calls EXCEPT ![r].pc = "rollback", ![r].pending = {}]
    BY <1>0, <2>2 DEF Call
  <2>3. QED
    BY <1>7, <2>1, <2>2 DEF RegisterPublishListener
<1>8. CASE ShareBinding(r) \/ CommitShared(r) \/ CommitBinding(r) \/ UnregisterRoute(r)
  <2>1. calls'[r].pc \notin Registering
    BY <1>0, <1>8 DEF ShareBinding, CommitShared, CommitBinding, UnregisterRoute,
                      ReleaseShared, ReleaseLast, Resting, Registering, Call
  <2>2. QED
    BY <1>1, <2>1
<1>9. ASSUME NEW filter \in calls[r].held, UnregisterListener(r, filter)
      PROVE  CallRight(r)'
  <2>1. calls'[r].pc \notin Registering
    BY <1>0, <1>9 DEF UnregisterListener, Unregistering, Registering, Resting, Outcome, Call
  <2>2. QED
    BY <1>1, <2>1
<1>10. QED
  BY <1>2, <1>3, <1>4, <1>5, <1>6, <1>7, <1>8, <1>9 DEF RegisterRoute, CallStep

\* FillFilterCache is the only step that writes the cache, and it writes the
\* filters of the version it writes them under.
LEMMA CacheStaysRight ==
  ASSUME TypeOK, SnapshotInv, UNCHANGED directoryVars, NEW r \in Routes,
         RegisterRoute(r) \/ CallStep(r) \/ UnregisterRoute(r)
  PROVE  (CacheVersionsApplied /\ CachedFiltersRight)'
<1>0. UNCHANGED applied
  BY DEF directoryVars
<1>1. CASE FillFilterCache(r)
  <2> DEFINE v   == calls[r].found.version
             key == CacheKey(r, v)
  <2>1. /\ v \in DOMAIN applied
        /\ PublishFilters(r, calls[r].found.subscribers) = FiltersOf(r, v)
    BY <1>1 DEF FillFilterCache, FiltersOf, SnapshotInv, CallRight, FoundIsApplied
  <2>2. /\ DOMAIN publish_filter_cache' = DOMAIN publish_filter_cache \cup {key}
        /\ \A k \in DOMAIN publish_filter_cache :
             publish_filter_cache'[k] = publish_filter_cache[k]
        /\ key \notin DOMAIN publish_filter_cache =>
             publish_filter_cache'[key] = FiltersOf(r, v)
    BY <1>1, <2>1 DEF FillFilterCache
  <2>3. key.snapshot_version = v
    BY DEF CacheKey
  <2>4. ASSUME NEW x \in Routes, NEW w \in DOMAIN applied,
               CacheKey(x, w) \in DOMAIN publish_filter_cache'
        PROVE  publish_filter_cache'[CacheKey(x, w)] = FiltersOf(x, w)
    <3>1. CASE CacheKey(x, w) \in DOMAIN publish_filter_cache
      BY <2>2, <3>1 DEF SnapshotInv, CachedFiltersRight
    <3>2. CASE CacheKey(x, w) \notin DOMAIN publish_filter_cache
      <4>1. CacheKey(x, w) = key
        BY <2>2, <2>4, <3>2
      <4>2. w = v /\ x.ingress_authority = r.ingress_authority
                  /\ x.egress_authority = r.egress_authority
        BY <4>1 DEF CacheKey
      <4>3. FiltersOf(x, w) = FiltersOf(r, v)
        BY <4>2, SameAuthoritiesSameFilters
      <4>4. QED
        BY <2>2, <3>2, <4>1, <4>3
    <3>3. QED
      BY <3>1, <3>2
  <2>5. CacheVersionsApplied'
    BY <1>0, <2>1, <2>2, <2>3 DEF SnapshotInv, CacheVersionsApplied
  <2>6. CachedFiltersRight'
    BY <1>0, <2>4, FiltersStay DEF CachedFiltersRight
  <2>7. QED
    BY <2>5, <2>6
<1>2. CASE UNCHANGED publish_filter_cache
  BY <1>0, <1>2, UnwrittenStaysRight
<1>3. QED
  BY <1>1, <1>2
     DEF RegisterRoute, CallStep, UnregisterRoute, ShareBinding, StartRegister,
         RegisterRequestListener, LookupSubscribers, ReadFilterCache,
         RegisterPublishListener, CommitShared, CommitBinding, UnregisterListener,
         ReleaseShared, ReleaseLast

\* CommitBinding is the only step that makes a binding, and it gives it what its
\* publish loop has registered.
LEMMA BindingsStayRight ==
  ASSUME TypeOK, TypeOK', SnapshotInv, UNCHANGED directoryVars, NEW r \in Routes,
         RegisterRoute(r) \/ CallStep(r) \/ UnregisterRoute(r), NEW x \in Routes
  PROVE  BindingRight(x)'
<1> DEFINE Same(k) == bindings'[k].registered_filters = bindings[k].registered_filters
<1>0. /\ UNCHANGED applied
      /\ BindingRight(x)
      /\ bindings \in [DOMAIN bindings -> Binding]
  BY DEF directoryVars, SnapshotInv, TypeOK, BindingsTypeOK
<1>1. CASE CommitBinding(r)
  <2>1. CASE BindingKey(x) = BindingKey(r)
    <3>1. PICK v \in DOMAIN applied : calls[r].held \cup calls[r].pending = AllFiltersOf(r, v)
      BY <1>1 DEF CommitBinding, SnapshotInv, CallRight, LoopHasOneVersion
    <3>2. bindings'[BindingKey(x)].registered_filters = AllFiltersOf(r, v)
      BY <1>1, <2>1, <3>1 DEF CommitBinding, NewBinding
    <3>3. AllFiltersOf(r, v) = AllFiltersOf(x, v)
      BY <2>1, SameAuthoritiesSameFilters DEF BindingKey
    <3>4. QED
      BY <1>0, <3>2, <3>3, FiltersStay DEF BindingRight
  <2>2. CASE BindingKey(x) # BindingKey(r)
    <3>1. BindingKey(x) \in DOMAIN bindings' =>
            BindingKey(x) \in DOMAIN bindings /\ Same(BindingKey(x))
      BY <1>1, <2>2 DEF CommitBinding, NewBinding
    <3>2. QED
      BY <1>0, <3>1, FiltersStay DEF BindingRight
  <2>3. QED
    BY <2>1, <2>2
<1>2. ASSUME \A k \in DOMAIN bindings' : k \in DOMAIN bindings /\ Same(k)
      PROVE  BindingRight(x)'
  BY <1>0, <1>2, FiltersStay DEF BindingRight
<1>3. CASE UNCHANGED bindings
  BY <1>2, <1>3
<1>4. CASE ShareBinding(r) \/ CommitShared(r) \/ ReleaseShared(r)
  <2>1. \A k \in DOMAIN bindings' : k \in DOMAIN bindings /\ Same(k)
    BY <1>0, <1>4 DEF ShareBinding, CommitShared, ReleaseShared, AddReference, Binding
  <2>2. QED
    BY <1>2, <2>1
<1>5. CASE ReleaseLast(r)
  BY <1>2, <1>5 DEF ReleaseLast, Restrict
<1>6. QED
  BY <1>1, <1>3, <1>4, <1>5
     DEF RegisterRoute, CallStep, UnregisterRoute, StartRegister, RegisterRequestListener,
         LookupSubscribers, ReadFilterCache, FillFilterCache, RegisterPublishListener,
         UnregisterListener

\* A refresh disturbs nothing: its version is new to the cache.
LEMMA RefreshKeepsSnapshotInv ==
  ASSUME TypeOK, SnapshotInv, NEW rows \in Responses, ApplySnapshot(rows),
         UNCHANGED registryVars
  PROVE  SnapshotInv'
<1>0. /\ DOMAIN applied \subseteq DOMAIN applied'
      /\ next_version \notin DOMAIN applied
      /\ DOMAIN applied' = DOMAIN applied \cup {next_version}
      /\ \A v \in DOMAIN applied : applied'[v] = applied[v]
      /\ UNCHANGED <<bindings, publish_filter_cache, calls>>
  BY FiltersOfOldVersionsStay DEF TypeOK, registryVars
<1>1. \A r \in Routes : \A v \in DOMAIN applied :
        FiltersOf(r, v)' = FiltersOf(r, v) /\ AllFiltersOf(r, v)' = AllFiltersOf(r, v)
  BY <1>0 DEF FiltersOf, AllFiltersOf
<1>2. CacheVersionsApplied'
  BY <1>0 DEF SnapshotInv, CacheVersionsApplied
<1>3. CachedFiltersRight'
  <2>1. \A r \in Routes : CacheKey(r, next_version) \notin DOMAIN publish_filter_cache
    BY <1>0 DEF SnapshotInv, CacheVersionsApplied, CacheKey
  <2>2. QED
    BY <1>0, <1>1, <2>1 DEF SnapshotInv, CachedFiltersRight
<1>4. ASSUME NEW r \in Routes
      PROVE  CallRight(r)'
  BY <1>0, <1>1 DEF SnapshotInv, CallRight, FoundIsApplied, RequestHeldAlone, LoopHasOneVersion
<1>5. ASSUME NEW r \in Routes
      PROVE  BindingRight(r)'
  BY <1>0, <1>1 DEF SnapshotInv, BindingRight
<1>6. QED
  BY <1>2, <1>3, <1>4, <1>5 DEF SnapshotInv

\* The step of a call leaves the calls for other routes alone.
LEMMA OtherCallsUntouched ==
  ASSUME TypeOK, NEW r \in Routes,
         RegisterRoute(r) \/ CallStep(r) \/ UnregisterRoute(r), NEW x \in Routes \ {r}
  PROVE  calls'[x] = calls[x]
BY DEF TypeOK, CallsTypeOK, RegisterRoute, CallStep, UnregisterRoute, ShareBinding,
       StartRegister, RegisterRequestListener, LookupSubscribers, ReadFilterCache,
       FillFilterCache, RegisterPublishListener, CommitShared, CommitBinding,
       UnregisterListener, ReleaseShared, ReleaseLast

LEMMA SnapshotInvHolds == Spec => []SnapshotInv
<1>1. Init => SnapshotInv
  BY DEF Init, RegistryInit, DirectoryInit, SnapshotInv, CacheVersionsApplied,
         CachedFiltersRight, CallRight, FoundIsApplied, RequestHeldAlone,
         LoopHasOneVersion, BindingRight, Resting
<1>2. TypeOK /\ TypeOK' /\ SnapshotInv /\ [Next]_vars => SnapshotInv'
  <2> SUFFICES ASSUME TypeOK, TypeOK', SnapshotInv, [Next]_vars
               PROVE  SnapshotInv'
    OBVIOUS
  <2>1. ASSUME NEW r \in Routes, RegisterRoute(r) \/ CallStep(r) \/ UnregisterRoute(r),
               UNCHANGED directoryVars
        PROVE  SnapshotInv'
    <3>1. UNCHANGED applied
      BY <2>1 DEF directoryVars
    <3>2. \A x \in Routes \ {r} : CallRight(x)'
      BY <2>1, <3>1, OtherCallsUntouched, OtherCallsStayRight DEF SnapshotInv
    <3>3. CallRight(r)'
      BY <2>1, CallStaysRight
    <3>4. (CacheVersionsApplied /\ CachedFiltersRight)'
      BY <2>1, CacheStaysRight
    <3>5. \A x \in Routes : BindingRight(x)'
      BY <2>1, BindingsStayRight
    <3>6. QED
      BY <3>2, <3>3, <3>4, <3>5 DEF SnapshotInv
  <2>2. ASSUME NEW rows \in Responses, ApplySnapshot(rows), UNCHANGED registryVars
        PROVE  SnapshotInv'
    BY <2>2, RefreshKeepsSnapshotInv
  <2>3. CASE UNCHANGED vars
    BY <2>3 DEF vars, SnapshotInv, CacheVersionsApplied, CachedFiltersRight, CallRight,
                FoundIsApplied, RequestHeldAlone, LoopHasOneVersion, BindingRight,
                FiltersOf, AllFiltersOf
  <2>4. QED
    BY <2>1, <2>2, <2>3 DEF Next
<1>3. QED
  BY <1>1, <1>2, RegistryTypeCorrect, PTL DEF Spec

-----------------------------------------------------------------------------
\* The filters cached under a version are those of the snapshot that had this
\* version: get and insert may have refreshes and other calls between them, but
\* the version that was read with the subscribers is the key for both.
THEOREM CacheStaysCoherent == Spec => []CacheIsCoherent
<1>1. SnapshotInv => CacheIsCoherent
  BY DEF SnapshotInv, CachedFiltersRight, CacheIsCoherent, FiltersOf
<1>2. QED
  BY <1>1, SnapshotInvHolds, PTL

\* A binding's publish filters are those of one applied snapshot, never a mixture
\* of two, and its request filter is among its registered filters.
BindingFiltersFromOneSnapshot ==
  \A r \in Routes : BindingKey(r) \in DOMAIN bindings =>
    \E v \in DOMAIN applied :
      bindings[BindingKey(r)].registered_filters =
        {RequestFilter(r)} \cup
          PublishFilters(r, LookupRouteSubscribers(applied[v], r.egress_authority))

\* A binding's registered filters are the request filter and the publish filters of
\* one applied snapshot: register_route reads the directory once, and what its
\* loop has registered and what is left are together that reading's filters.
THEOREM BindingsHaveOneSnapshot == Spec => []BindingFiltersFromOneSnapshot
<1>1. SnapshotInv => BindingFiltersFromOneSnapshot
  BY DEF SnapshotInv, BindingRight, BindingFiltersFromOneSnapshot, AllFiltersOf, FiltersOf
<1>2. QED
  BY <1>1, SnapshotInvHolds, PTL

-----------------------------------------------------------------------------
(* What a binding listens for.                                              *)

\* A registration that its transport refused to remove belongs to nobody any more:
\* its listener is neither a binding's nor a registering call's, and the call
\* that met the refusal will not come back to it.
ForgottenBy(r, e) ==
  calls[r].listener = e.listener =>
    /\ calls[r].pc \notin Registering
    /\ calls[r].pc \in Unregistering => e.filter \notin calls[r].held

StrandedInv ==
  \A e \in stranded :
    /\ e \in listeners
    /\ \A k \in DOMAIN bindings : bindings[k].listener # e.listener
    /\ \A r \in Routes : ForgottenBy(r, e)

\* Every step of a call leaves stranded registrations alone, and strands only what it
\* alone has.
LEMMA StrandedNext ==
  ASSUME TypeOK, TypeOK', OwnershipInv, StrandedInv, NEW r \in Routes,
         RegisterRoute(r) \/ CallStep(r) \/ UnregisterRoute(r)
  PROVE  StrandedInv'
<1> USE DEF StrandedInv, ForgottenBy
<1>a. ASSUME stranded' = stranded, listeners \subseteq listeners',
             \A x \in Routes \ {r} : calls'[x] = calls[x],
             \A e \in stranded : ForgottenBy(r, e)',
             \A e \in stranded : \A k \in DOMAIN bindings' :
               bindings'[k].listener # e.listener
      PROVE  StrandedInv'
  BY <1>a
<1>b. ASSUME \A k \in DOMAIN bindings' :
               k \in DOMAIN bindings /\ bindings'[k].listener = bindings[k].listener
      PROVE  \A e \in stranded : \A k \in DOMAIN bindings' :
               bindings'[k].listener # e.listener
  BY <1>b
<1>c. ASSUME NEW k \in DOMAIN bindings, NEW n,
             bindings' = [bindings EXCEPT ![k].ref_count = n]
      PROVE  \A x \in DOMAIN bindings' :
               x \in DOMAIN bindings /\ bindings'[x].listener = bindings[x].listener
  BY <1>c DEF TypeOK, BindingsTypeOK, Binding
\* A call that was registering stays clear of them, whatever it does with its listener.
<1>d. ASSUME calls[r].pc \in Registering, calls'[r].listener = calls[r].listener
      PROVE  \A e \in stranded : ForgottenBy(r, e)'
  BY <1>d
<1>e. ASSUME calls'[r].pc \notin Registering \cup Unregistering
      PROVE  \A e \in stranded : ForgottenBy(r, e)'
  BY <1>e
<1> USE DEF TypeOK, CallsTypeOK
<1> USE DEF Registering, Unregistering
<1>1. CASE ShareBinding(r)
  BY <1>1, <1>a, <1>b, <1>c, <1>e DEF ShareBinding, AddReference, Resting
<1>2. ASSUME NEW listener \in Listener, Fresh(listener), StartRegister(r, listener)
      PROVE  StrandedInv'
  <2>1. \A e \in stranded : ForgottenBy(r, e)'
    BY <1>2, FreshIsUnused DEF StartRegister
  <2>2. QED
    BY <1>2, <1>a, <2>1 DEF StartRegister
<1>3. CASE RegisterRequestListener(r)
  BY <1>3, <1>a, <1>b, <1>d DEF RegisterRequestListener, Call
<1>4. CASE LookupSubscribers(r)
  BY <1>4, <1>a, <1>b, <1>d DEF LookupSubscribers, Call
<1>5. CASE ReadFilterCache(r)
  BY <1>5, <1>a, <1>b, <1>d DEF ReadFilterCache, Call
<1>6. CASE FillFilterCache(r)
  BY <1>6, <1>a, <1>b, <1>d DEF FillFilterCache, Call
<1>7. ASSUME NEW filter \in calls[r].pending, RegisterPublishListener(r, filter)
      PROVE  StrandedInv'
  BY <1>7, <1>a, <1>b, <1>d DEF RegisterPublishListener, Call
<1>8. CASE CommitShared(r)
  BY <1>8, <1>a, <1>b, <1>c, <1>d DEF CommitShared, AddReference, Call
<1>9. CASE CommitBinding(r)
  <2>1. \A e \in stranded : calls[r].listener # e.listener
    BY <1>9 DEF CommitBinding
  <2>2. QED
    BY <1>9, <1>a, <1>e, <2>1 DEF CommitBinding, NewBinding, Resting
<1>10. ASSUME NEW filter \in calls[r].held, UnregisterListener(r, filter)
       PROVE  StrandedInv'
  <2> DEFINE gone == Registration(r, filter, calls[r].listener)
  <2>1. /\ bindings' = bindings
        /\ \A x \in Routes \ {r} : calls'[x] = calls[x]
        /\ Busy(r) /\ calls[r].pc \in Unregistering
        /\ gone.filter = filter /\ gone.listener = calls[r].listener
        /\ \/ listeners' = listeners \ {gone} /\ stranded' = stranded
           \/ gone \in listeners /\ listeners' = listeners /\ stranded' = stranded \cup {gone}
    BY <1>10 DEF UnregisterListener, Busy, Registration
  <2>2. gone \notin stranded
    BY <2>1
  <2>3. \/ calls'[r].pc \notin Registering \cup Unregistering
        \/ /\ calls'[r].pc = calls[r].pc /\ calls'[r].listener = calls[r].listener
           /\ calls'[r].held = calls[r].held \ {filter}
    <3>1. CASE calls[r].held \ {filter} = {}
      BY <1>10, <3>1 DEF UnregisterListener, Resting, Outcome
    <3>2. CASE calls[r].held \ {filter} # {}
      BY <1>10, <3>2 DEF UnregisterListener, Call
    <3>3. QED
      BY <3>1, <3>2
  <2>4. ASSUME NEW e \in stranded
        PROVE  ForgottenBy(r, e)'
    BY <2>1, <2>3
  <2>5. /\ \A k \in DOMAIN bindings : bindings[k].listener # gone.listener
        /\ \A x \in Routes \ {r} : Busy(x) => calls[x].listener # gone.listener
        /\ ForgottenBy(r, gone)'
    BY <2>1, <2>3 DEF OwnershipInv, DistinctListeners
  <2>6. QED
    BY <2>1, <2>2, <2>4, <2>5 DEF Busy
<1>11. CASE ReleaseShared(r)
  BY <1>11, <1>a, <1>b, <1>c, <1>e DEF ReleaseShared, Resting
<1>12. CASE ReleaseLast(r)
  <2>1. /\ DOMAIN bindings' \subseteq DOMAIN bindings
        /\ \A k \in DOMAIN bindings' : bindings'[k] = bindings[k]
        /\ calls'[r].listener = bindings[BindingKey(r)].listener
        /\ BindingKey(r) \in DOMAIN bindings
    BY <1>12 DEF ReleaseLast, Restrict
  <2>2. /\ \A e \in stranded : ForgottenBy(r, e)'
        /\ \A e \in stranded : \A k \in DOMAIN bindings' : bindings'[k].listener # e.listener
    BY <2>1
  <2>3. /\ stranded' = stranded /\ listeners' = listeners
        /\ \A x \in Routes \ {r} : calls'[x] = calls[x]
    BY <1>12 DEF ReleaseLast
  <2>4. QED
    BY <1>a, <2>2, <2>3
<1>13. QED
  BY <1>1, <1>2, <1>3, <1>4, <1>5, <1>6, <1>7, <1>8, <1>9, <1>10, <1>11, <1>12
     DEF RegisterRoute, CallStep, UnregisterRoute

LEMMA StrandedHolds == Spec => []StrandedInv
<1>1. Init => StrandedInv
  BY DEF Init, RegistryInit, StrandedInv
<1>2. TypeOK /\ TypeOK' /\ OwnershipInv /\ StrandedInv /\ [Next]_vars => StrandedInv'
  <2>1. ASSUME StrandedInv, UNCHANGED registryVars
        PROVE  StrandedInv'
    BY <2>1 DEF registryVars, StrandedInv, ForgottenBy
  <2>2. QED
    BY <2>1, StrandedNext DEF Next, registryVars, vars
<1>3. QED
  BY <1>1, <1>2, RegistryTypeCorrect, OwnershipCorrect, PTL DEF Spec

\* What is registered for a binding's listener is what the binding has noted.
LEMMA BindingRegistrations ==
  ASSUME TypeOK, OwnershipInv, StrandedInv, NEW k \in DOMAIN bindings
  PROVE  {e \in listeners : e.listener = bindings[k].listener} =
           {[transport |-> k.transport, filter |-> filter, listener |-> bindings[k].listener] :
              filter \in bindings[k].registered_filters}
<1> DEFINE registration(filter) ==
             [transport |-> k.transport, filter |-> filter, listener |-> bindings[k].listener]
<1>1. ASSUME NEW filter \in bindings[k].registered_filters
      PROVE  registration(filter) \in listeners
  BY <1>1 DEF OwnershipInv, BindingsAreServed
<1>2. ASSUME NEW e \in listeners, e.listener = bindings[k].listener
      PROVE  e.filter \in bindings[k].registered_filters /\ e = registration(e.filter)
  <2>1. ~OwnedByCall(e) /\ e \notin stranded
    BY <1>2 DEF OwnershipInv, DistinctListeners, OwnedByCall, StrandedInv
  <2>2. OwnedByBinding(e)
    BY <2>1 DEF OwnershipInv, NoStrayListener
  <2>3. e.transport = k.transport /\ e.filter \in bindings[k].registered_filters
    BY <1>2, <2>2 DEF OwnershipInv, DistinctListeners, OwnedByBinding
  <2>4. e \in Registrations
    BY DEF TypeOK
  <2>5. QED
    BY <1>2, <2>3, <2>4 DEF Registrations
<1>3. QED
  BY <1>1, <1>2

\* Between the rows of a subscription response and the transport nothing is lost and
\* nothing added: neither by the directory, the two maps, the derivation, the
\* filter cache and the publish loop, nor by whatever calls for other routes do.
THEOREM ListenersMatchSubscriptions == Spec => []BoundRoutesListenExactly
<1>1. TypeOK /\ OwnershipInv /\ StrandedInv /\ SnapshotInv => BoundRoutesListenExactly
  <2> SUFFICES ASSUME TypeOK, OwnershipInv, StrandedInv, SnapshotInv,
                      NEW r \in Routes, BindingKey(r) \in DOMAIN bindings
               PROVE  LET listener  == bindings[BindingKey(r)].listener
                          topics(v) == SubscribedFilters(applied[v], r.ingress_authority,
                                                         r.egress_authority)
                      IN  \E v \in DOMAIN applied :
                            {e \in listeners : e.listener = listener} =
                              {Registration(r, RequestFilter(r), listener)} \cup
                                {Registration(r, PublishFilter(u), listener) : u \in topics(v)}
    BY DEF BoundRoutesListenExactly
  <2> DEFINE listener  == bindings[BindingKey(r)].listener
             topics(v) == SubscribedFilters(applied[v], r.ingress_authority,
                                            r.egress_authority)
  <2>1. PICK v \in DOMAIN applied :
          bindings[BindingKey(r)].registered_filters = AllFiltersOf(r, v)
    BY DEF SnapshotInv, BindingRight
  <2>2. applied[v] \in SUBSET CompleteRow
    BY <2>1 DEF TypeOK, DirectoryTypeOK
  <2>3. AllFiltersOf(r, v) = {RequestFilter(r)} \cup {PublishFilter(u) : u \in topics(v)}
    BY <2>2, FiltersOfRows DEF AllFiltersOf, FiltersOf, PublishFilters
  <2>4. {e \in listeners : e.listener = listener} =
          {Registration(r, filter, listener) :
             filter \in bindings[BindingKey(r)].registered_filters}
    <3>1. BindingKey(r).transport = r.ingress_transport
      BY DEF BindingKey
    <3>2. QED
      BY <3>1, BindingRegistrations DEF Registration
  <2> HIDE DEF listener, topics
  <2>5. {e \in listeners : e.listener = listener} =
          {Registration(r, RequestFilter(r), listener)} \cup
            {Registration(r, PublishFilter(u), listener) : u \in topics(v)}
    BY <2>1, <2>3, <2>4
  <2>6. QED
    BY <2>1, <2>5 DEF listener, topics
<1>2. QED
  BY <1>1, RegistryTypeCorrect, OwnershipCorrect, StrandedHolds, SnapshotInvHolds, PTL

=============================================================================
