------------------------ MODULE RouteLifecycleProofs ------------------------
(***************************************************************************)
(* Proofs about RouteLifecycle, for any endpoints and routes, any requests *)
(* and any failures of the transports.                                     *)
(***************************************************************************)
EXTENDS RouteLifecycle, IngressRegistryProofs

-----------------------------------------------------------------------------
(* Requests, table and pool have their types.                               *)

Worker == [ref_count : Nat \ {0}, sender : Senders]

PoolTypeOK ==
  /\ DOMAIN workers \subseteq Transports
  /\ workers \in [DOMAIN workers -> Worker]
  /\ DOMAIN loops \subseteq Senders
  /\ loops \in [DOMAIN loops -> Transports]

PCs == {"idle", "start", "attach", "register", "registering", "rollback", "detach",
        "unregister", "unregistering"}

\* Past its checks a request is about a route.
ControlTypeOK ==
  /\ routes \subseteq Routes
  /\ pc \in PCs
  /\ request \in Requests \cup {NoRequest}
  /\ pc = "idle" <=> request = NoRequest
  /\ pc \notin {"idle", "start"} => Route \in Routes
  /\ out_sender \subseteq Senders

\* A request is not the absence of one.
LEMMA RequestType ==
  ASSUME NEW q \in Requests
  PROVE  q # NoRequest
BY DEF Requests, NoRequest

\* A request that passes the checks at its start is about a route.
LEMMA AcceptedIsRoute ==
  ASSUME ControlTypeOK, NEW op, Accepted(op)
  PROVE  Route \in Routes
BY DEF ControlTypeOK, Accepted, Requests, Route

\* Worker and loop of a transport come with its first route and the worker goes
\* with its last.
LEMMA PoolTypeNext ==
  ASSUME PoolTypeOK, ControlTypeOK, LifecycleNext
  PROVE  PoolTypeOK'
<1> USE DEF PoolTypeOK
<1>1. CASE UNCHANGED poolVars
  BY <1>1 DEF poolVars
<1>2. CASE AttachRoute
  <2>1. Route.egress_transport \in Transports
    BY <1>2, RoutesAssumption DEF AttachRoute, ControlTypeOK, Transports, RouteKey
  <2>2. CASE ReuseWorker(Route.egress_transport)
    BY <2>2 DEF ReuseWorker, Worker
  <2>3. ASSUME NEW c \in Senders, CreateWorker(Route.egress_transport, c)
        PROVE  PoolTypeOK'
    BY <2>1, <2>3 DEF CreateWorker, SpawnLoop, Worker
  <2>4. QED
    BY <1>2, <2>2, <2>3 DEF AttachRoute
<1>3. ASSUME NEW t, DetachRoute(t)
      PROVE  PoolTypeOK'
  BY <1>3 DEF DetachRoute, Restrict, Worker
<1>4. ASSUME NEW c, EndLoop(c)
      PROVE  PoolTypeOK'
  BY <1>4 DEF EndLoop, StopLoop, Restrict
<1>5. QED
  BY <1>1, <1>2, <1>3, <1>4
     DEF LifecycleNext, Submit, Serve, Refuse, InsertRoute, BeginRegister, ContinueCall,
         FinishAdd, RollbackInsert, RollbackAttach, RemoveRoute, DetachEgress,
         BeginUnregister, FinishDelete, Refresh, BeginReceive, EndReceive, poolVars

\* Every step of a request keeps its type and stays with its route.
LEMMA ControlTypeNext ==
  ASSUME PoolTypeOK, ControlTypeOK, LifecycleNext
  PROVE  ControlTypeOK'
<1> USE DEF ControlTypeOK, PCs
<1>1. CASE UNCHANGED controlVars
  BY <1>1 DEF controlVars, Route
<1>2. ASSUME NEW q \in Requests, Submit(q)
      PROVE  ControlTypeOK'
  BY <1>2, RequestType DEF Submit
<1>3. CASE Refuse \/ FinishAdd \/ RollbackAttach \/ FinishDelete
  BY <1>3 DEF Refuse, FinishAdd, RollbackAttach, FinishDelete, Answer
<1>4. CASE InsertRoute \/ RemoveRoute
  <2>1. Route \in Routes
    BY <1>4, AcceptedIsRoute DEF InsertRoute, RemoveRoute
  <2>2. QED
    BY <1>4, <2>1 DEF InsertRoute, RemoveRoute, Accepted, Route
<1>5. CASE AttachRoute
  BY <1>5 DEF AttachRoute, ReuseWorker, PoolTypeOK, Worker, Route
<1>6. CASE BeginRegister \/ RollbackInsert \/ DetachEgress \/ BeginUnregister
  BY <1>6 DEF BeginRegister, RollbackInsert, DetachEgress, BeginUnregister, Route
<1>7. QED
  BY <1>1, <1>2, <1>3, <1>4, <1>5, <1>6
     DEF LifecycleNext, Serve, ContinueCall, Refresh, BeginReceive, EndReceive, EndLoop,
         controlVars

LEMMA ControlTypeCorrect == LifecycleSpec => [](PoolTypeOK /\ ControlTypeOK)
<1>1. LifecycleInit => PoolTypeOK /\ ControlTypeOK
  BY DEF LifecycleInit, PoolInit, PoolTypeOK, ControlTypeOK, PCs
<1>2. PoolTypeOK /\ ControlTypeOK /\ [LifecycleNext]_lifecycleVars
        => (PoolTypeOK /\ ControlTypeOK)'
  <2>1. CASE UNCHANGED lifecycleVars
    BY <2>1 DEF lifecycleVars, poolVars, controlVars, PoolTypeOK, ControlTypeOK, Route
  <2>2. QED
    BY <2>1, PoolTypeNext, ControlTypeNext
<1>3. QED
  BY <1>1, <1>2, PTL DEF LifecycleSpec

-----------------------------------------------------------------------------
(* The registry inside the streamer.                                        *)

\* What a step of the streamer is to the registry: a step of the call for the
\* request's route, a refresh, or nothing.
LEMMA StepsOfRegistry ==
  ASSUME PoolTypeOK, ControlTypeOK, LifecycleNext
  PROVE  \/ /\ Route \in Routes
            /\ RegisterRoute(Route) \/ CallStep(Route) \/ UnregisterRoute(Route)
            /\ UNCHANGED directoryVars
         \/ \E rows \in Responses : ApplySnapshot(rows) /\ UNCHANGED registryVars
         \/ UNCHANGED vars
<1>1. CASE BeginRegister /\ UNCHANGED directoryVars
  <2>1. Route \in Routes
    BY <1>1 DEF BeginRegister, ControlTypeOK
  <2>2. \A listener \in [id : ListenerIds, sender : out_sender] : listener \in Listener
    BY DEF Listener, ControlTypeOK
  <2>3. QED
    BY <1>1, <2>1, <2>2 DEF BeginRegister, RegisterRoute
<1>2. CASE ContinueCall /\ UNCHANGED directoryVars
  BY <1>2 DEF ContinueCall, ControlTypeOK
<1>3. CASE BeginUnregister /\ UNCHANGED directoryVars
  BY <1>3 DEF BeginUnregister, ControlTypeOK
<1>4. ASSUME NEW rows \in Responses, Refresh(rows)
      PROVE  ApplySnapshot(rows) /\ UNCHANGED registryVars
  BY <1>4 DEF Refresh
<1>5. CASE UNCHANGED <<registryVars, directoryVars>>
  BY <1>5 DEF registryVars, directoryVars, vars
<1>6. CASE UNCHANGED vars
  BY <1>6
<1>7. QED
  BY <1>1, <1>2, <1>3, <1>4, <1>5, <1>6
     DEF LifecycleNext, Submit, Serve, Refuse, InsertRoute, AttachRoute, FinishAdd,
         RollbackInsert, RollbackAttach, RemoveRoute, DetachEgress, FinishDelete,
         BeginReceive, EndReceive, EndLoop

\* The streamer drives the registry within its specification: whatever is proved
\* of the registry with concurrent callers holds inside UStreamer, which calls it
\* for one request at a time.
THEOREM StreamerDrivesRegistry == LifecycleSpec => Spec
<1>1. LifecycleInit => Init
  BY DEF LifecycleInit
<1>2. PoolTypeOK /\ ControlTypeOK /\ [LifecycleNext]_lifecycleVars => [Next]_vars
  <2>1. CASE UNCHANGED lifecycleVars
    BY <2>1 DEF lifecycleVars
  <2>2. QED
    BY <2>1, StepsOfRegistry DEF Next
<1>3. QED
  BY <1>1, <1>2, ControlTypeCorrect, PTL DEF LifecycleSpec, Spec

\* The registry's types therefore hold inside the streamer.
LEMMA RegistryTypeInside == LifecycleSpec => []TypeOK
BY StreamerDrivesRegistry, RegistryTypeCorrect, PTL

Types == TypeOK /\ PoolTypeOK /\ ControlTypeOK

LEMMA TypesHold == LifecycleSpec => []Types
BY RegistryTypeInside, ControlTypeCorrect, PTL DEF Types

-----------------------------------------------------------------------------
(* Table and registry.                                                      *)

\* How far the request at work is with its route, in the table and in the registry.
StageInv ==
  /\ pc \in {"attach", "register", "registering"} => Route \in routes
  /\ pc \in {"rollback", "detach", "unregister", "unregistering"} => Route \notin routes
  /\ pc \in {"attach", "register", "rollback"} => calls[Route].pc = "out"
  /\ pc \in {"detach", "unregister"} => calls[Route].pc = "in"
  /\ pc = "registering" =>
       calls[Route].pc \in {"in", "out", "rollback", "discard"} \cup Registering
  /\ pc = "unregistering" => calls[Route].pc \in {"out", "unregister"}

\* One step of a call changes no other call, begins none, and ends none in a way it
\* should not.
LEMMA CallStepStages ==
  ASSUME TypeOK, NEW r \in Routes, CallStep(r)
  PROVE  /\ \A x \in Routes \ {r} : calls'[x] = calls[x]
         /\ calls[r].pc \notin {"in", "out"}
         /\ calls[r].pc \in {"rollback", "discard"} \cup Registering =>
              calls'[r].pc \in {"in", "out", "rollback", "discard"} \cup Registering
         /\ calls[r].pc = "unregister" => calls'[r].pc \in {"out", "unregister"}
<1> DEFINE Goal ==
       /\ \A x \in Routes \ {r} : calls'[x] = calls[x]
       /\ calls[r].pc \notin {"in", "out"}
       /\ calls[r].pc \in {"rollback", "discard"} \cup Registering =>
            calls'[r].pc \in {"in", "out", "rollback", "discard"} \cup Registering
       /\ calls[r].pc = "unregister" => calls'[r].pc \in {"out", "unregister"}
<1> USE DEF TypeOK, CallsTypeOK, Registering
<1>1. CASE RegisterRequestListener(r)
  BY <1>1 DEF RegisterRequestListener, Call
<1>2. CASE LookupSubscribers(r)
  BY <1>2 DEF LookupSubscribers, Call
<1>3. CASE ReadFilterCache(r)
  BY <1>3 DEF ReadFilterCache, Call
<1>4. CASE FillFilterCache(r)
  BY <1>4 DEF FillFilterCache, Call
<1>5. ASSUME NEW filter \in calls[r].pending, RegisterPublishListener(r, filter)
      PROVE  Goal
  BY <1>5 DEF RegisterPublishListener, Call
<1>6. CASE CommitShared(r)
  BY <1>6 DEF CommitShared, Call
<1>7. CASE CommitBinding(r)
  BY <1>7 DEF CommitBinding, Resting
<1>8. ASSUME NEW filter \in calls[r].held, UnregisterListener(r, filter)
      PROVE  Goal
  <2>1. CASE calls[r].held \ {filter} = {}
    BY <1>8, <2>1 DEF UnregisterListener, Unregistering, Resting, Outcome
  <2>2. CASE calls[r].held \ {filter} # {}
    BY <1>8, <2>2 DEF UnregisterListener, Unregistering, Call
  <2>3. QED
    BY <2>1, <2>2
<1>9. QED
  BY <1>1, <1>2, <1>3, <1>4, <1>5, <1>6, <1>7, <1>8 DEF CallStep

\* Each step of a request moves its route in the table and in the registry together
\* with the request's own place, and touches no other route.
LEMMA StagesNext ==
  ASSUME TypeOK, ControlTypeOK, ControlTypeOK', StageInv, RegistryMatchesRoutes, LifecycleNext
  PROVE  StageInv' /\ RegistryMatchesRoutes'
<1> USE DEF StageInv, RegistryMatchesRoutes, AtWork
<1>1. CASE UNCHANGED <<routes, request, pc, calls>>
  BY <1>1 DEF Route
<1>2. ASSUME NEW q \in Requests, Submit(q)
      PROVE  StageInv' /\ RegistryMatchesRoutes'
  BY <1>2 DEF Submit, registryVars
<1>3. CASE Refuse
  BY <1>3 DEF Refuse, Answer, registryVars
<1>4. CASE InsertRoute \/ RemoveRoute
  <2>1. /\ Route \in Routes
        /\ Route' = Route
        /\ UNCHANGED calls
        /\ pc = "start"
    BY <1>4, AcceptedIsRoute DEF InsertRoute, RemoveRoute, Accepted, Route, registryVars
  <2>2. CASE InsertRoute
    BY <2>1, <2>2 DEF InsertRoute
  <2>3. CASE RemoveRoute
    BY <2>1, <2>3 DEF RemoveRoute
  <2>4. QED
    BY <1>4, <2>2, <2>3
<1>5. CASE AttachRoute \/ RollbackInsert \/ DetachEgress
  BY <1>5 DEF AttachRoute, RollbackInsert, DetachEgress, Route, registryVars
<1>6. CASE FinishAdd \/ RollbackAttach \/ FinishDelete
  BY <1>6 DEF FinishAdd, RollbackAttach, FinishDelete, Answer, Route, registryVars
<1>7. CASE BeginRegister
  <2>1. /\ Route \in Routes
        /\ Route' = Route
        /\ pc = "register"
        /\ pc' = "registering"
        /\ UNCHANGED routes
    BY <1>7 DEF BeginRegister, ControlTypeOK, Route
  <2>2. /\ \A x \in Routes \ {Route} : calls'[x] = calls[x]
        /\ calls'[Route].pc \in {"in", "request"}
    BY <1>7, <2>1 DEF BeginRegister, ShareBinding, StartRegister, Resting, TypeOK, CallsTypeOK
  <2>3. QED
    BY <2>1, <2>2 DEF Registering
<1>8. CASE BeginUnregister
  <2>1. /\ Route \in Routes
        /\ Route' = Route
        /\ pc = "unregister"
        /\ pc' = "unregistering"
        /\ UNCHANGED routes
    BY <1>8 DEF BeginUnregister, ControlTypeOK, Route
  <2>2. /\ \A x \in Routes \ {Route} : calls'[x] = calls[x]
        /\ calls'[Route].pc \in {"out", "unregister"}
    BY <1>8, <2>1 DEF BeginUnregister, UnregisterRoute, ReleaseShared, ReleaseLast, Resting,
                      TypeOK, CallsTypeOK
  <2>3. QED
    BY <2>1, <2>2
<1>9. CASE ContinueCall
  <2>1. /\ Route \in Routes
        /\ Route' = Route
        /\ UNCHANGED <<routes, request, pc>>
        /\ pc \in {"registering", "unregistering"}
        /\ CallStep(Route)
    BY <1>9 DEF ContinueCall, ControlTypeOK, Route, controlVars
  <2>2. /\ \A x \in Routes \ {Route} : calls'[x] = calls[x]
        /\ calls[Route].pc \notin {"in", "out"}
        /\ calls[Route].pc \in {"rollback", "discard"} \cup Registering =>
             calls'[Route].pc \in {"in", "out", "rollback", "discard"} \cup Registering
        /\ calls[Route].pc = "unregister" => calls'[Route].pc \in {"out", "unregister"}
    BY <2>1, CallStepStages
  <2>3. RegistryMatchesRoutes'
    BY <2>1, <2>2
  <2>4. StageInv'
    <3>1. CASE pc = "registering"
      <4>1. calls'[Route].pc \in {"in", "out", "rollback", "discard"} \cup Registering
        BY <2>2, <3>1
      <4>2. QED
        BY <2>1, <3>1, <4>1
    <3>2. CASE pc = "unregistering"
      <4>1. calls'[Route].pc \in {"out", "unregister"}
        BY <2>2, <3>2
      <4>2. QED
        BY <2>1, <3>2, <4>1
    <3>3. QED
      BY <2>1, <3>1, <3>2
  <2>5. QED
    BY <2>3, <2>4
<1>10. QED
  BY <1>1, <1>2, <1>3, <1>4, <1>5, <1>6, <1>7, <1>8, <1>9
     DEF LifecycleNext, Serve, Refresh, BeginReceive, EndReceive, EndLoop,
         controlVars, registryVars, vars

LEMMA StagesHold == LifecycleSpec => [](StageInv /\ RegistryMatchesRoutes)
<1>1. LifecycleInit => StageInv /\ RegistryMatchesRoutes
  BY DEF LifecycleInit, Init, RegistryInit, Resting, StageInv, RegistryMatchesRoutes, AtWork
<1>2. Types /\ Types' /\ (StageInv /\ RegistryMatchesRoutes) /\ [LifecycleNext]_lifecycleVars
        => (StageInv /\ RegistryMatchesRoutes)'
  <2> SUFFICES ASSUME Types, Types', StageInv, RegistryMatchesRoutes,
                      [LifecycleNext]_lifecycleVars
               PROVE  StageInv' /\ RegistryMatchesRoutes'
    OBVIOUS
  <2>1. CASE UNCHANGED lifecycleVars
    <3>1. UNCHANGED <<routes, request, pc, calls>>
      BY <2>1 DEF lifecycleVars, controlVars, vars
    <3>2. QED
      BY <3>1 DEF StageInv, RegistryMatchesRoutes, AtWork, Route
  <2>2. QED
    BY <2>1, StagesNext DEF Types
<1>3. QED
  BY <1>1, <1>2, TypesHold, PTL DEF LifecycleSpec

\* Between requests the registry serves exactly the routes of the table: insert and
\* register, their rollback, and remove and unregister each leave the two agreed.
THEOREM TableAndRegistryAgree == LifecycleSpec => []RegistryMatchesRoutes
BY StagesHold, PTL

-----------------------------------------------------------------------------
(* Table and pool.                                                          *)

\* The routes that hold a reference to the worker of a transport.
Users(t) == {r \in Routes : r.egress_transport = t /\ Attached(r)}

\* PoolMatchesRoutes with its count named.
PoolCounts ==
  /\ \A t \in Transports : t \in DOMAIN workers <=> Users(t) # {}
  /\ \A t \in DOMAIN workers : workers[t].ref_count = Cardinality(Users(t))

LEMMA UsersFinite ==
  ASSUME NEW t
  PROVE  IsFiniteSet(Users(t))
BY RoutesAssumption, FS_Subset DEF Users

LEMMA EgressTransportType ==
  ASSUME NEW r \in Routes
  PROVE  r.egress_transport \in Transports
BY RoutesAssumption DEF Transports, RouteKey

\* A request only attaches or detaches its own route, and only in the steps that
\* call attach_route and detach_route.
LEMMA AttachedNext ==
  ASSUME Types, Types', StageInv, LifecycleNext
  PROVE  \/ /\ \A r \in Routes : Attached(r)' <=> Attached(r)
            /\ UNCHANGED workers
         \/ \E route \in Routes :
              /\ AttachRoute /\ route = Route
              /\ \A r \in Routes \ {route} : Attached(r)' <=> Attached(r)
              /\ ~Attached(route) /\ Attached(route)'
         \/ \E route \in Routes :
              /\ DetachRoute(route.egress_transport)
              /\ \A r \in Routes \ {route} : Attached(r)' <=> Attached(r)
              /\ Attached(route) /\ ~(Attached(route)')
<1> DEFINE Same == (\A r \in Routes : Attached(r)' <=> Attached(r)) /\ UNCHANGED workers
<1> USE DEF Attached, AtWork
<1>1. CASE UNCHANGED <<routes, request, pc, workers>>
  BY <1>1 DEF Route
<1>2. ASSUME NEW q \in Requests, Submit(q)
      PROVE  Same
  BY <1>2 DEF Submit, poolVars
<1>3. CASE Refuse
  BY <1>3 DEF Refuse, Answer, poolVars
<1>4. CASE InsertRoute
  BY <1>4 DEF InsertRoute, Accepted, Route, poolVars
<1>5. CASE RemoveRoute
  BY <1>5 DEF RemoveRoute, Accepted, Route, poolVars
<1>6. CASE AttachRoute
  <2>1. PICK route \in Routes : route = Route
    BY <1>6 DEF AttachRoute, Types, ControlTypeOK
  <2>2. route = Route'
    BY <1>6, <2>1 DEF AttachRoute, Route
  <2>3. /\ \A r \in Routes \ {route} : Attached(r)' <=> Attached(r)
        /\ ~Attached(route) /\ Attached(route)'
    BY <1>6, <2>1, <2>2 DEF AttachRoute
  <2>4. QED
    BY <1>6, <2>1, <2>3
<1>7. CASE BeginRegister \/ BeginUnregister
  BY <1>7 DEF BeginRegister, BeginUnregister, Route, poolVars
<1>8. CASE FinishAdd \/ FinishDelete
  BY <1>8 DEF FinishAdd, FinishDelete, Answer, StageInv, poolVars
<1>9. CASE RollbackInsert
  BY <1>9 DEF RollbackInsert, Route, poolVars
<1>10. CASE RollbackAttach
  <2>1. PICK route \in Routes : route = Route
    BY <1>10 DEF RollbackAttach, Types, ControlTypeOK
  <2>2. /\ pc = "rollback" /\ pc' = "idle"
        /\ UNCHANGED routes
        /\ DetachRoute(route.egress_transport)
    BY <1>10, <2>1 DEF RollbackAttach, Answer
  <2>3. /\ \A r \in Routes \ {route} : Attached(r)' <=> Attached(r)
        /\ Attached(route) /\ ~(Attached(route)')
    BY <2>1, <2>2 DEF StageInv
  <2>4. QED
    BY <2>2, <2>3
<1>11. CASE DetachEgress
  <2>1. PICK route \in Routes : route = Route
    BY <1>11 DEF DetachEgress, Types, ControlTypeOK
  <2>2. /\ pc = "detach" /\ pc' = "unregister"
        /\ UNCHANGED routes
        /\ route = Route'
        /\ DetachRoute(route.egress_transport)
    BY <1>11, <2>1 DEF DetachEgress, Route
  <2>3. /\ \A r \in Routes \ {route} : Attached(r)' <=> Attached(r)
        /\ Attached(route) /\ ~(Attached(route)')
    BY <2>1, <2>2
  <2>4. QED
    BY <2>2, <2>3
<1>12. QED
  BY <1>1, <1>2, <1>3, <1>4, <1>5, <1>6, <1>7, <1>8, <1>9, <1>10, <1>11
     DEF LifecycleNext, Serve, ContinueCall, Refresh, BeginReceive, EndReceive, EndLoop,
         StopLoop, controlVars, poolVars

\* The pool's counts move with the routes attached.
LEMMA PoolCountsNext ==
  ASSUME Types, Types', StageInv, PoolCounts, LifecycleNext
  PROVE  PoolCounts'
<1> USE DEF Types
<1>1. CASE (\A r \in Routes : Attached(r)' <=> Attached(r)) /\ UNCHANGED workers
  <2>1. \A t : Users(t)' = Users(t)
    BY <1>1 DEF Users
  <2>2. QED
    BY <1>1, <2>1 DEF PoolCounts
<1>2. ASSUME NEW route \in Routes, NEW T, T = route.egress_transport,
             AttachRoute, route = Route,
             \A r \in Routes \ {route} : Attached(r)' <=> Attached(r),
             ~Attached(route), Attached(route)'
      PROVE  PoolCounts'
  <2>0. T \in Transports
    BY <1>2, EgressTransportType
  <2>1. /\ \A t \in Transports \ {T} : Users(t)' = Users(t)
        /\ Users(T)' = Users(T) \cup {route}
        /\ route \notin Users(T)
    BY <1>2, <2>0 DEF Users
  <2>2. /\ Cardinality(Users(T)') = Cardinality(Users(T)) + 1
        /\ Users(T)' # {}
    BY <2>1, UsersFinite, FS_AddElement
  <2>3. CASE ReuseWorker(T)
    <3>1. /\ T \in DOMAIN workers
          /\ DOMAIN workers' = DOMAIN workers
          /\ \A t \in DOMAIN workers \ {T} : workers'[t] = workers[t]
          /\ workers'[T].ref_count = workers[T].ref_count + 1
      BY <2>3 DEF ReuseWorker, PoolTypeOK, Worker
    <3>2. QED
      BY <2>0, <2>1, <2>2, <3>1 DEF PoolCounts, PoolTypeOK
  <2>4. ASSUME NEW c, CreateWorker(T, c)
        PROVE  PoolCounts'
    <3>1. /\ T \notin DOMAIN workers
          /\ DOMAIN workers' = DOMAIN workers \cup {T}
          /\ \A t \in DOMAIN workers : workers'[t] = workers[t]
          /\ workers'[T].ref_count = 1
      BY <2>4 DEF CreateWorker
    <3>2. Cardinality(Users(T)) = 0
      BY <2>0, <3>1, FS_EmptySet DEF PoolCounts
    <3>3. workers'[T].ref_count = Cardinality(Users(T)')
      BY <2>2, <3>1, <3>2
    <3>4. \A t \in DOMAIN workers : workers'[t].ref_count = Cardinality(Users(t)')
      <4>1. ASSUME NEW t \in DOMAIN workers
            PROVE  workers'[t].ref_count = Cardinality(Users(t)')
        <5>1. t # T /\ t \in Transports
          BY <3>1 DEF PoolTypeOK
        <5>2. QED
          BY <2>1, <3>1, <5>1 DEF PoolCounts
      <4>2. QED
        BY <4>1
    <3>5. \A t \in Transports : t \in DOMAIN workers' <=> Users(t)' # {}
      BY <2>1, <2>2, <3>1 DEF PoolCounts
    <3>6. QED
      BY <3>1, <3>3, <3>4, <3>5 DEF PoolCounts
  <2>5. QED
    BY <1>2, <2>3, <2>4 DEF AttachRoute
<1>3. ASSUME NEW route \in Routes, NEW T, T = route.egress_transport,
             DetachRoute(T),
             \A r \in Routes \ {route} : Attached(r)' <=> Attached(r),
             Attached(route), ~(Attached(route)')
      PROVE  PoolCounts'
  <2>0. T \in Transports /\ T \in DOMAIN workers
    BY <1>3, EgressTransportType DEF DetachRoute
  <2>1. /\ \A t \in Transports \ {T} : Users(t)' = Users(t)
        /\ Users(T)' = Users(T) \ {route}
        /\ route \in Users(T)
    BY <1>3, <2>0 DEF Users
  <2>2. /\ Cardinality(Users(T)') = Cardinality(Users(T)) - 1
        /\ IsFiniteSet(Users(T)')
    BY <2>1, UsersFinite, FS_RemoveElement
  <2>3. workers[T].ref_count = Cardinality(Users(T))
    BY <2>0 DEF PoolCounts
  <2>4. CASE workers[T].ref_count = 1
    <3>1. /\ DOMAIN workers' = DOMAIN workers \ {T}
          /\ \A t \in DOMAIN workers \ {T} : workers'[t] = workers[t]
      BY <1>3, <2>4 DEF DetachRoute, Restrict
    <3>2. Users(T)' = {}
      BY <2>2, <2>3, <2>4, FS_EmptySet
    <3>3. QED
      BY <2>0, <2>1, <3>1, <3>2 DEF PoolCounts, PoolTypeOK
  <2>5. CASE workers[T].ref_count # 1
    <3>1. /\ DOMAIN workers' = DOMAIN workers
          /\ \A t \in DOMAIN workers \ {T} : workers'[t] = workers[t]
          /\ workers'[T].ref_count = workers[T].ref_count - 1
          /\ workers[T].ref_count \in Nat
      BY <1>3, <2>0, <2>5 DEF DetachRoute, PoolTypeOK, Worker
    <3>2. Cardinality(Users(T)') # 0
      BY <2>2, <2>3, <2>5, <3>1
    <3>3. Users(T)' # {}
      BY <3>2, FS_EmptySet
    <3>4. QED
      BY <2>0, <2>1, <2>2, <2>3, <3>1, <3>3 DEF PoolCounts, PoolTypeOK
  <2>6. QED
    BY <2>4, <2>5
<1>4. QED
  BY <1>1, <1>2, <1>3, AttachedNext

\* Whatever adds fail and whatever they roll back, the pool keeps one worker for each
\* transport that some attached route sends to and counts those routes; a
\* detach_route always finds its worker.
THEOREM PoolCountsItsRoutes == LifecycleSpec => []PoolMatchesRoutes
<1>1. LifecycleInit => PoolCounts
  BY DEF LifecycleInit, PoolInit, PoolCounts, Users, Attached, AtWork
<1>2. Types /\ Types' /\ StageInv /\ PoolCounts /\ [LifecycleNext]_lifecycleVars => PoolCounts'
  <2> SUFFICES ASSUME Types, Types', StageInv, PoolCounts, [LifecycleNext]_lifecycleVars
               PROVE  PoolCounts'
    OBVIOUS
  <2>1. CASE UNCHANGED lifecycleVars
    <3>1. UNCHANGED <<routes, request, pc, workers>>
      BY <2>1 DEF lifecycleVars, controlVars, poolVars
    <3>2. QED
      BY <3>1 DEF PoolCounts, Users, Attached, AtWork, Route
  <2>2. QED
    BY <2>1, PoolCountsNext
<1>3. PoolCounts => PoolMatchesRoutes
  BY DEF PoolCounts, PoolMatchesRoutes, Users
<1>4. QED
  BY <1>1, <1>2, <1>3, TypesHold, StagesHold, PTL DEF LifecycleSpec

-----------------------------------------------------------------------------
(* Senders and dispatch loops.                                              *)

SendersOK == delivering \subseteq Listener /\ SendersHaveALoop

\* Only a step that begins a call brings a listener into the registry; the others
\* hand a listener on between call, transport and binding, or let it go.
LEMMA LiveListenersNext ==
  ASSUME TypeOK, NEW r \in Routes,
         CallStep(r) \/ UnregisterRoute(r) \/ ShareBinding(r)
  PROVE  LiveListeners' \subseteq LiveListeners
<1> USE DEF LiveListeners, Busy, Registering, Unregistering, TypeOK, CallsTypeOK, BindingsTypeOK
<1>a. ASSUME calls[r].pc \in Registering \cup Unregistering,
             \A x \in Routes \ {r} : calls'[x] = calls[x],
             calls'[r].listener = calls[r].listener \/ ~Busy(r)',
             \A k \in DOMAIN bindings' :
               bindings'[k].listener \in
                 {bindings[x].listener : x \in DOMAIN bindings} \cup {calls[r].listener},
             \A e \in listeners' : e \in listeners \/ e.listener = calls[r].listener
      PROVE  LiveListeners' \subseteq LiveListeners
  BY <1>a
<1>1. CASE ShareBinding(r)
  BY <1>1 DEF ShareBinding, AddReference, Resting, Binding
<1>2. CASE RegisterRequestListener(r)
  BY <1>2, <1>a DEF RegisterRequestListener, Registration, Call
<1>3. CASE LookupSubscribers(r)
  BY <1>3, <1>a DEF LookupSubscribers, Call
<1>4. CASE ReadFilterCache(r)
  BY <1>4, <1>a DEF ReadFilterCache, Call
<1>5. CASE FillFilterCache(r)
  BY <1>5, <1>a DEF FillFilterCache, Call
<1>6. ASSUME NEW filter \in calls[r].pending, RegisterPublishListener(r, filter)
      PROVE  LiveListeners' \subseteq LiveListeners
  BY <1>6, <1>a DEF RegisterPublishListener, Registration, Call
<1>7. CASE CommitShared(r)
  BY <1>7, <1>a DEF CommitShared, AddReference, Call, Binding
<1>8. CASE CommitBinding(r)
  BY <1>8, <1>a DEF CommitBinding, NewBinding, Resting
<1>9. ASSUME NEW filter \in calls[r].held, UnregisterListener(r, filter)
      PROVE  LiveListeners' \subseteq LiveListeners
  <2>1. /\ calls[r].pc \in Registering \cup Unregistering
        /\ \A x \in Routes \ {r} : calls'[x] = calls[x]
        /\ UNCHANGED bindings
        /\ listeners' \subseteq listeners
    BY <1>9 DEF UnregisterListener
  <2>2. calls'[r].listener = calls[r].listener \/ ~Busy(r)'
    BY <1>9 DEF UnregisterListener, Resting, Outcome, Call
  <2>3. QED
    BY <1>a, <2>1, <2>2
<1>10. CASE ReleaseShared(r)
  BY <1>10 DEF ReleaseShared, Resting, Binding
<1>11. CASE ReleaseLast(r)
  BY <1>11 DEF ReleaseLast, Restrict
<1>12. QED
  BY <1>1, <1>2, <1>3, <1>4, <1>5, <1>6, <1>7, <1>8, <1>9, <1>10, <1>11
     DEF CallStep, UnregisterRoute

\* A sender is only made together with its loop or by cloning another, and a loop
\* only ends when its last sender is gone.
LEMMA SendersNext ==
  ASSUME Types, Types', SendersOK, LifecycleNext
  PROVE  SendersOK'
<1> USE DEF Types, SendersOK
<1>a. ASSUME UNCHANGED loops,
             OpenSenders' \subseteq OpenSenders,
             \A t \in DOMAIN workers' :
               t \in DOMAIN workers /\ workers'[t].sender = workers[t].sender
      PROVE  SendersHaveALoop'
  BY <1>a DEF SendersHaveALoop
<1>b. ASSUME UNCHANGED <<workers, loops>>,
             \A l \in (LiveListeners \cup delivering)' : l.sender \in OpenSenders,
             out_sender' \subseteq out_sender
      PROVE  SendersHaveALoop'
  <2>1. OpenSenders' \subseteq OpenSenders
    BY <1>b DEF OpenSenders
  <2>2. QED
    BY <1>a, <1>b, <2>1
<1>c. \A l \in LiveListeners \cup delivering : l.sender \in OpenSenders
  BY DEF OpenSenders
<1>d. UNCHANGED registryVars => UNCHANGED LiveListeners
  BY DEF registryVars, LiveListeners, Busy
<1>1. CASE UNCHANGED <<registryVars, poolVars, out_sender, delivering>>
  BY <1>1, <1>b, <1>c, <1>d DEF poolVars
<1>2. CASE AttachRoute /\ UNCHANGED delivering
  <2>1. UNCHANGED <<LiveListeners, delivering>>
    BY <1>2, <1>d DEF AttachRoute
  <2>2. ASSUME NEW T, ReuseWorker(T), out_sender' = {workers[T].sender}
        PROVE  SendersHaveALoop'
    <3>1. /\ DOMAIN workers' = DOMAIN workers
          /\ \A t \in DOMAIN workers : workers'[t].sender = workers[t].sender
          /\ T \in DOMAIN workers
          /\ UNCHANGED loops
      BY <2>2 DEF ReuseWorker, PoolTypeOK, Worker
    <3>2. OpenSenders' \subseteq OpenSenders
      BY <2>1, <2>2, <3>1 DEF OpenSenders
    <3>3. QED
      BY <1>a, <3>1, <3>2
  <2>3. ASSUME NEW T, NEW c \in Senders \ (OpenSenders \cup DOMAIN loops),
               CreateWorker(T, c), out_sender' = {c}
        PROVE  SendersHaveALoop'
    <3>1. /\ DOMAIN workers' = DOMAIN workers \cup {T}
          /\ T \notin DOMAIN workers
          /\ \A t \in DOMAIN workers : workers'[t] = workers[t]
          /\ workers'[T].sender = c
          /\ DOMAIN loops' = DOMAIN loops \cup {c}
          /\ \A x \in DOMAIN loops : loops'[x] = loops[x]
          /\ loops'[c] = T
      BY <2>3 DEF CreateWorker, SpawnLoop
    <3>2. OpenSenders' \subseteq OpenSenders \cup {c}
      BY <2>1, <2>3, <3>1 DEF OpenSenders
    <3>3. \A t \in DOMAIN workers :
            workers[t].sender \in DOMAIN loops /\ loops[workers[t].sender] = t
      BY DEF SendersHaveALoop, OpenSenders
    <3>4. QED
      BY <3>1, <3>2, <3>3 DEF SendersHaveALoop
  <2>4. QED
    BY <1>2, <2>2, <2>3 DEF AttachRoute
<1>3. CASE BeginRegister /\ UNCHANGED delivering
  <2>0. UNCHANGED <<workers, loops>> /\ out_sender' = {}
    BY <1>3 DEF BeginRegister, poolVars
  <2>1. CASE ShareBinding(Route)
    <3>1. LiveListeners' \subseteq LiveListeners
      BY <1>3, <2>1, LiveListenersNext DEF BeginRegister, ControlTypeOK
    <3>2. QED
      BY <1>3, <1>b, <1>c, <2>0, <3>1
  <2>2. ASSUME NEW listener \in [id : ListenerIds, sender : out_sender],
               StartRegister(Route, listener)
        PROVE  SendersHaveALoop'
    <3>1. /\ UNCHANGED <<bindings, listeners>>
          /\ \A x \in Routes \ {Route} : calls'[x] = calls[x]
          /\ Route \in Routes
          /\ calls'[Route].listener = listener
      BY <1>3, <2>2 DEF BeginRegister, StartRegister, ControlTypeOK, TypeOK, CallsTypeOK
    <3>2. LiveListeners' \subseteq LiveListeners \cup {listener}
      BY <3>1 DEF LiveListeners, Busy
    <3>3. listener.sender \in OpenSenders
      BY DEF OpenSenders
    <3>4. QED
      BY <1>3, <1>b, <1>c, <2>0, <3>2, <3>3
  <2>3. QED
    BY <1>3, <2>1, <2>2 DEF BeginRegister
<1>4. CASE (ContinueCall \/ BeginUnregister) /\ UNCHANGED delivering
  <2>1. LiveListeners' \subseteq LiveListeners
    BY <1>4, LiveListenersNext DEF ContinueCall, BeginUnregister, ControlTypeOK
  <2>2. QED
    BY <1>4, <1>b, <1>c, <2>1 DEF ContinueCall, BeginUnregister, controlVars, poolVars
<1>5. CASE (RollbackAttach \/ DetachEgress) /\ UNCHANGED delivering
  <2>1. /\ UNCHANGED <<LiveListeners, delivering, out_sender, loops>>
        /\ \E t : DetachRoute(t)
    BY <1>5, <1>d DEF RollbackAttach, DetachEgress, DetachRoute
  <2>2. \A t \in DOMAIN workers' :
          t \in DOMAIN workers /\ workers'[t].sender = workers[t].sender
    BY <2>1 DEF DetachRoute, Restrict, PoolTypeOK, Worker
  <2>3. OpenSenders' \subseteq OpenSenders
    BY <2>1, <2>2 DEF OpenSenders
  <2>4. QED
    BY <1>a, <2>1, <2>2, <2>3
<1>6. ASSUME NEW e \in listeners, BeginReceive(e)
      PROVE  SendersOK'
  <2>1. /\ UNCHANGED <<registryVars, workers, loops, out_sender>>
        /\ delivering' = delivering \cup {e.listener}
    BY <1>6 DEF BeginReceive, vars, registryVars, poolVars, controlVars
  <2>2. e.listener \in LiveListeners
    BY DEF LiveListeners
  <2>3. SendersHaveALoop'
    BY <1>b, <1>c, <1>d, <2>1, <2>2
  <2>4. e.listener \in Listener
    BY DEF TypeOK, Registrations
  <2>5. QED
    BY <2>1, <2>3, <2>4
<1>7. ASSUME NEW l \in delivering, EndReceive(l)
      PROVE  SendersOK'
  <2>1. /\ UNCHANGED <<registryVars, workers, loops, out_sender>>
        /\ delivering' = delivering \ {l}
    BY <1>7 DEF EndReceive, vars, registryVars, poolVars, controlVars
  <2>2. QED
    BY <1>b, <1>c, <1>d, <2>1
<1>8. ASSUME NEW c \in DOMAIN loops, EndLoop(c)
      PROVE  SendersOK'
  <2>1. /\ UNCHANGED <<registryVars, workers, out_sender, delivering>>
        /\ c \notin OpenSenders
        /\ DOMAIN loops' = DOMAIN loops \ {c}
        /\ \A x \in DOMAIN loops \ {c} : loops'[x] = loops[x]
    BY <1>8 DEF EndLoop, StopLoop, Restrict, vars, registryVars, controlVars
  <2>2. OpenSenders' = OpenSenders
    BY <1>d, <2>1 DEF OpenSenders
  <2>3. \A t \in DOMAIN workers : workers[t].sender \in OpenSenders
    BY DEF OpenSenders
  <2>4. QED
    BY <2>1, <2>2, <2>3 DEF SendersHaveALoop
<1>9. QED
  BY <1>1, <1>2, <1>3, <1>4, <1>5, <1>6, <1>7, <1>8
     DEF LifecycleNext, Submit, Serve, Refuse, InsertRoute, FinishAdd, RollbackInsert,
         RemoveRoute, FinishDelete, Refresh, controlVars

LEMMA SendersHold == LifecycleSpec => []SendersOK
<1>1. LifecycleInit => SendersOK
  <2> SUFFICES ASSUME LifecycleInit
               PROVE  SendersOK
    OBVIOUS
  <2>1. LiveListeners = {}
    BY DEF LifecycleInit, Init, RegistryInit, LiveListeners, Busy, Resting, Registering,
           Unregistering
  <2>2. OpenSenders = {}
    BY <2>1 DEF LifecycleInit, PoolInit, OpenSenders
  <2>3. QED
    BY <2>2 DEF LifecycleInit, PoolInit, SendersOK, SendersHaveALoop
<1>2. Types /\ Types' /\ SendersOK /\ [LifecycleNext]_lifecycleVars => SendersOK'
  <2> SUFFICES ASSUME Types, Types', SendersOK, [LifecycleNext]_lifecycleVars
               PROVE  SendersOK'
    OBVIOUS
  <2>1. CASE UNCHANGED lifecycleVars
    <3>1. UNCHANGED <<bindings, listeners, calls, workers, loops, out_sender, delivering>>
      BY <2>1 DEF lifecycleVars, vars, poolVars, controlVars
    <3>2. QED
      BY <3>1 DEF SendersOK, SendersHaveALoop, OpenSenders, LiveListeners, Busy
  <2>2. QED
    BY <2>1, SendersNext
<1>3. QED
  BY <1>1, <1>2, TypesHold, PTL DEF LifecycleSpec

\* No send is made into a channel whose loop has ended, be it the pool's sender, a
\* registered listener's or that of a callback that outlives its registration.
THEOREM EverySenderHasItsLoop == LifecycleSpec => []SendersHaveALoop
<1>1. SendersOK => SendersHaveALoop
  BY DEF SendersOK
<1>2. QED
  BY <1>1, SendersHold, PTL

\* The variables of the streamer always have their types; above all, detach_route
\* never leaves a worker with no reference in the pool.
THEOREM LifecycleTypeCorrect == LifecycleSpec => []LifecycleTypeOK
<1>1. Types /\ SendersOK => LifecycleTypeOK
  BY DEF Types, PoolTypeOK, Worker, ControlTypeOK, SendersOK, LifecycleTypeOK
<1>2. QED
  BY <1>1, TypesHold, SendersHold, PTL

-----------------------------------------------------------------------------
(* Forwarding.                                                              *)

\* No two routes differ in their egress transport only, so a binding has one route.
OneEgressPerBinding == \A r, x \in Routes : BindingKey(r) = BindingKey(x) => r = x

\* The sender of the pool's worker for r's egress transport.
PoolSender(r) == workers[r.egress_transport].sender

\* From attach_route on, the sender the pool gave is what add_route holds, then what
\* its listener holds, and then what the route's binding holds.
Forwards(r) ==
  /\ calls[r].pc \in Holding /\ Attached(r) =>
       bindings[BindingKey(r)].listener.sender = PoolSender(r)
  /\ AtWork(r) /\ pc = "register" => out_sender = {PoolSender(r)}
  /\ AtWork(r) /\ pc = "registering" /\ calls[r].pc \in Registering =>
       calls[r].listener.sender = PoolSender(r)

ForwardInv == \A r \in Routes : Forwards(r)

\* A binding keeps its listener for as long as it exists.
LEMMA BindingListenersStay ==
  ASSUME TypeOK, NEW r \in Routes,
         RegisterRoute(r) \/ CallStep(r) \/ UnregisterRoute(r),
         NEW k \in DOMAIN bindings, k \in DOMAIN bindings'
  PROVE  bindings'[k].listener = bindings[k].listener
<1>0. bindings \in [DOMAIN bindings -> Binding]
  BY DEF TypeOK, BindingsTypeOK
<1>1. CASE UNCHANGED bindings
  BY <1>1
<1>2. CASE ShareBinding(r) \/ CommitShared(r) \/ ReleaseShared(r)
  BY <1>0, <1>2 DEF ShareBinding, CommitShared, ReleaseShared, AddReference, Binding
<1>3. CASE CommitBinding(r)
  BY <1>3 DEF CommitBinding, NewBinding
<1>4. CASE ReleaseLast(r)
  BY <1>4 DEF ReleaseLast, Restrict
<1>5. QED
  BY <1>1, <1>2, <1>3, <1>4
     DEF RegisterRoute, CallStep, UnregisterRoute, StartRegister, RegisterRequestListener,
         LookupSubscribers, ReadFilterCache, FillFilterCache, RegisterPublishListener,
         UnregisterListener

\* A worker keeps its channel while a route stays attached to it.
LEMMA PoolSenderStays ==
  ASSUME Types, Types', StageInv, PoolCounts, PoolCounts', LifecycleNext,
         NEW r \in Routes, Attached(r), Attached(r)'
  PROVE  PoolSender(r)' = PoolSender(r)
<1> DEFINE T == r.egress_transport
<1>1. T \in Transports
  BY EgressTransportType
<1>2. T \in DOMAIN workers /\ T \in DOMAIN workers'
  BY <1>1 DEF PoolCounts, Users
<1>3. CASE UNCHANGED workers
  BY <1>3 DEF PoolSender
<1>4. CASE AttachRoute
  BY <1>2, <1>4 DEF AttachRoute, ReuseWorker, CreateWorker, PoolSender, Types, PoolTypeOK, Worker
<1>5. ASSUME NEW t, DetachRoute(t)
      PROVE  PoolSender(r)' = PoolSender(r)
  BY <1>2, <1>5 DEF DetachRoute, Restrict, PoolSender, Types, PoolTypeOK, Worker
<1>6. QED
  BY <1>3, <1>4, <1>5, AttachedNext

\* A step of a call that goes on registering keeps its listener, and a call that comes
\* to hold a binding of its own has made it with that listener.
LEMMA CallStepListener ==
  ASSUME TypeOK, RefCountsMatchHolders, OneEgressPerBinding, NEW r \in Routes, CallStep(r)
  PROVE  /\ calls'[r].pc \in Registering =>
              calls[r].pc \in Registering /\ calls'[r].listener = calls[r].listener
         /\ calls'[r].pc \in Holding /\ calls[r].pc \notin Holding =>
              /\ calls[r].pc \in Registering
              /\ bindings'[BindingKey(r)].listener = calls[r].listener
<1> DEFINE Goal ==
       /\ calls'[r].pc \in Registering =>
            calls[r].pc \in Registering /\ calls'[r].listener = calls[r].listener
       /\ calls'[r].pc \in Holding /\ calls[r].pc \notin Holding =>
            /\ calls[r].pc \in Registering
            /\ bindings'[BindingKey(r)].listener = calls[r].listener
<1> USE DEF TypeOK, CallsTypeOK, Registering, Holding
<1>1. CASE RegisterRequestListener(r)
  BY <1>1 DEF RegisterRequestListener, Call
<1>2. CASE LookupSubscribers(r)
  BY <1>2 DEF LookupSubscribers, Call
<1>3. CASE ReadFilterCache(r)
  BY <1>3 DEF ReadFilterCache, Call
<1>4. CASE FillFilterCache(r)
  BY <1>4 DEF FillFilterCache, Call
<1>5. ASSUME NEW filter \in calls[r].pending, RegisterPublishListener(r, filter)
      PROVE  Goal
  BY <1>5 DEF RegisterPublishListener, Call
<1>6. ~CommitShared(r)
  <2> SUFFICES ASSUME CommitShared(r)
               PROVE  FALSE
    OBVIOUS
  <2>1. Holders(BindingKey(r)) # {}
    BY RouteType DEF CommitShared, RefCountsMatchHolders
  <2>2. QED
    BY <2>1 DEF CommitShared, Holders, OneEgressPerBinding
<1>7. CASE CommitBinding(r)
  BY <1>7 DEF CommitBinding, NewBinding, Resting
<1>8. ASSUME NEW filter \in calls[r].held, UnregisterListener(r, filter)
      PROVE  Goal
  <2>1. CASE calls[r].held \ {filter} = {}
    BY <1>8, <2>1 DEF UnregisterListener, Unregistering, Resting, Outcome
  <2>2. CASE calls[r].held \ {filter} # {}
    BY <1>8, <2>2 DEF UnregisterListener, Unregistering, Call
  <2>3. QED
    BY <2>1, <2>2
<1>9. QED
  BY <1>1, <1>2, <1>3, <1>4, <1>5, <1>6, <1>7, <1>8 DEF CallStep

\* A step that is neither attach_route nor part of register_route or unregister_route
\* changes no sender in use.
LEMMA QuietStep ==
  ASSUME Types, Types', StageInv, PoolCounts, PoolCounts', ForwardInv, LifecycleNext,
         ~AttachRoute,
         UNCHANGED <<bindings, calls>>,
         pc' = "register" => UNCHANGED <<request, pc, out_sender>>,
         pc' = "registering" => UNCHANGED <<request, pc>>
  PROVE  ForwardInv'
<1> SUFFICES ASSUME NEW r \in Routes
             PROVE  Forwards(r)'
  BY DEF ForwardInv
<1>0. Forwards(r)
  BY DEF ForwardInv
<1>1. Attached(r)' => Attached(r)
  BY AttachedNext
<1>2. Attached(r) /\ Attached(r)' => PoolSender(r)' = PoolSender(r)
  BY PoolSenderStays
<1>3. ASSUME calls'[r].pc \in Holding, Attached(r)'
      PROVE  bindings'[BindingKey(r)].listener.sender = PoolSender(r)'
  BY <1>0, <1>1, <1>2, <1>3 DEF Forwards
<1>4. ASSUME AtWork(r)', pc' = "register"
      PROVE  out_sender' = {PoolSender(r)'}
  <2>1. UNCHANGED <<request, pc, out_sender>> /\ AtWork(r)
    BY <1>4 DEF AtWork, Route
  <2>2. Attached(r) /\ Attached(r)'
    BY <1>4, <2>1 DEF Attached
  <2>3. QED
    BY <1>0, <1>2, <1>4, <2>1, <2>2 DEF Forwards
<1>5. ASSUME AtWork(r)', pc' = "registering", calls'[r].pc \in Registering
      PROVE  calls'[r].listener.sender = PoolSender(r)'
  <2>1. UNCHANGED <<request, pc>> /\ AtWork(r)
    BY <1>5 DEF AtWork, Route
  <2>2. Attached(r) /\ Attached(r)'
    BY <1>5, <2>1 DEF Attached
  <2>3. QED
    BY <1>0, <1>2, <1>5, <2>1, <2>2 DEF Forwards
<1>6. QED
  BY <1>3, <1>4, <1>5 DEF Forwards

\* A step of the call for the request's route keeps every route forwarding to its own
\* transport.
LEMMA CallForwards ==
  ASSUME Types, Types', StageInv, PoolCounts, PoolCounts', RefCountsMatchHolders,
         RefCountsMatchHolders', OneEgressPerBinding, ForwardInv, LifecycleNext,
         UNCHANGED <<routes, request, workers>>,
         NEW route \in Routes, route = Route, AtWork(route), AtWork(route)',
         \/ /\ pc = "register" /\ pc' = "registering"
            /\ \/ ShareBinding(route)
               \/ \E listener \in Listener :
                    listener.sender \in out_sender /\ StartRegister(route, listener)
         \/ /\ pc' = pc /\ pc \in {"registering", "unregistering"}
            /\ CallStep(route)
         \/ /\ pc = "unregister" /\ pc' = "unregistering"
            /\ UnregisterRoute(route)
  PROVE  ForwardInv'
<1> USE DEF Types
<1>0. /\ calls \in [Routes -> Call]
      /\ RegisterRoute(route) \/ CallStep(route) \/ UnregisterRoute(route) \/
           (\E listener \in Listener : StartRegister(route, listener))
      /\ Route' = route
      /\ \A r \in Routes : Attached(r)' <=> Attached(r)
      /\ \A r \in Routes : PoolSender(r)' = PoolSender(r)
  BY DEF TypeOK, CallsTypeOK, RegisterRoute, Attached, AtWork, Route, PoolSender
<1>1. \A k \in DOMAIN bindings : k \in DOMAIN bindings' =>
        bindings'[k].listener = bindings[k].listener
  <2>1. CASE \E listener \in Listener : StartRegister(route, listener)
    BY <2>1 DEF StartRegister
  <2>2. CASE RegisterRoute(route) \/ CallStep(route) \/ UnregisterRoute(route)
    BY <2>2, BindingListenersStay
  <2>3. QED
    BY <1>0, <2>1, <2>2
<1>2. \A r \in Routes : calls[r].pc \in Holding => BindingKey(r) \in DOMAIN bindings
  BY RouteType DEF RefCountsMatchHolders, Holders, Holding
<1>3. \A r \in Routes : calls'[r].pc \in Holding => BindingKey(r) \in DOMAIN bindings'
  BY RouteType DEF RefCountsMatchHolders, Holders, Holding
<1>4. \A r \in Routes \ {route} : calls'[r] = calls[r]
  <2>1. CASE ShareBinding(route) \/ (\E listener \in Listener : StartRegister(route, listener))
    BY <1>0, <2>1 DEF ShareBinding, StartRegister
  <2>2. CASE CallStep(route)
    BY <2>2, CallStepStages
  <2>3. CASE UnregisterRoute(route)
    BY <1>0, <2>3 DEF UnregisterRoute, ReleaseShared, ReleaseLast
  <2>4. QED
    BY <2>1, <2>2, <2>3
<1>5. ASSUME NEW r \in Routes \ {route}
      PROVE  Forwards(r)'
  <2>1. Forwards(r) /\ ~AtWork(r) /\ ~AtWork(r)'
    BY <1>0, <1>5 DEF ForwardInv, AtWork
  <2>2. QED
    BY <1>0, <1>1, <1>2, <1>3, <1>4, <2>1 DEF Forwards
<1>6. Forwards(route)'
  <2>0. Forwards(route)
    BY DEF ForwardInv
  <2>1. CASE pc = "register"
    <3>1. ~ShareBinding(route)
      <4> SUFFICES ASSUME ShareBinding(route)
                   PROVE  FALSE
        OBVIOUS
      <4>1. Holders(BindingKey(route)) # {}
        BY RouteType DEF ShareBinding, RefCountsMatchHolders
      <4>2. QED
        BY <4>1 DEF ShareBinding, Holders, OneEgressPerBinding
    <3>2. PICK listener \in Listener :
            listener.sender \in out_sender /\ StartRegister(route, listener)
      BY <2>1, <3>1
    <3>3. listener.sender = PoolSender(route)
      BY <2>0, <2>1, <3>2 DEF Forwards
    <3>4. calls'[route].pc = "request" /\ calls'[route].listener = listener
      BY <1>0, <3>2 DEF StartRegister
    <3>5. pc' = "registering"
      BY <2>1
    <3>6. QED
      BY <1>0, <3>3, <3>4, <3>5 DEF Forwards, Holding
  <2>2. CASE pc = "registering"
    <3>1. /\ pc' = "registering" /\ CallStep(route) /\ Attached(route)
      BY <2>2 DEF Attached
    <3>2. /\ calls'[route].pc \in Registering =>
               calls[route].pc \in Registering
               /\ calls'[route].listener = calls[route].listener
          /\ calls'[route].pc \in Holding /\ calls[route].pc \notin Holding =>
               /\ calls[route].pc \in Registering
               /\ bindings'[BindingKey(route)].listener = calls[route].listener
      BY <3>1, CallStepListener
    <3>3. calls'[route].pc \in Holding =>
            bindings'[BindingKey(route)].listener.sender = PoolSender(route)
      BY <1>1, <1>2, <1>3, <2>0, <2>2, <3>1, <3>2 DEF Forwards
    <3>4. calls'[route].pc \in Registering =>
            calls'[route].listener.sender = PoolSender(route)
      BY <2>0, <2>2, <3>2 DEF Forwards
    <3>5. QED
      BY <1>0, <3>1, <3>3, <3>4 DEF Forwards
  <2>3. CASE pc \in {"unregister", "unregistering"}
    BY <1>0, <2>3 DEF Forwards, Attached
  <2>4. QED
    BY <2>1, <2>2, <2>3
<1>7. QED
  BY <1>5, <1>6 DEF ForwardInv

\* attach_route returns the sender of the worker it leaves in the pool.
LEMMA AttachForwards ==
  ASSUME Types, Types', StageInv, PoolCounts, PoolCounts', ForwardInv, LifecycleNext,
         AttachRoute, UNCHANGED <<bindings, calls>>
  PROVE  ForwardInv'
<1>1. PICK route \in Routes : route = Route
  BY DEF AttachRoute, Types, ControlTypeOK
<1>2. /\ route = Route' /\ pc = "attach" /\ pc' = "register"
      /\ UNCHANGED routes
      /\ calls[route].pc = "out"
  BY <1>1 DEF AttachRoute, Route, StageInv
<1>3. out_sender' = {PoolSender(route)'}
  BY <1>1 DEF AttachRoute, ReuseWorker, CreateWorker, PoolSender, Types, PoolTypeOK, Worker
<1>4. ASSUME NEW r \in Routes \ {route}
      PROVE  Forwards(r)'
  <2>1. Forwards(r) /\ ~AtWork(r)' /\ (Attached(r)' <=> Attached(r))
    BY <1>1, <1>2, <1>4 DEF ForwardInv, AtWork, Attached
  <2>2. Attached(r) /\ Attached(r)' => PoolSender(r)' = PoolSender(r)
    BY PoolSenderStays
  <2>3. QED
    BY <2>1, <2>2 DEF Forwards
<1>5. Forwards(route)'
  BY <1>2, <1>3 DEF Forwards, Holding
<1>6. QED
  BY <1>4, <1>5 DEF ForwardInv

LEMMA ForwardsNext ==
  ASSUME Types, Types', StageInv, PoolCounts, PoolCounts', RefCountsMatchHolders,
         RefCountsMatchHolders', OneEgressPerBinding, ForwardInv, LifecycleNext
  PROVE  ForwardInv'
<1> DEFINE Quiet == /\ ~AttachRoute
                    /\ UNCHANGED <<bindings, calls>>
                    /\ pc' = "register" => UNCHANGED <<request, pc, out_sender>>
                    /\ pc' = "registering" => UNCHANGED <<request, pc>>
<1>0. Quiet => ForwardInv'
  BY QuietStep
<1> HIDE DEF Quiet
<1>1. ASSUME NEW q \in Requests, Submit(q)
      PROVE  Quiet
  BY <1>1 DEF Quiet, Submit, AttachRoute, registryVars
<1>2. CASE Refuse \/ FinishAdd \/ FinishDelete \/ RollbackAttach
  <2>1. Quiet
    BY <1>2 DEF Quiet, Refuse, FinishAdd, FinishDelete, RollbackAttach, Answer, AttachRoute,
                registryVars
  <2>2. QED
    BY <1>0, <2>1
<1>3. CASE InsertRoute \/ RollbackInsert \/ RemoveRoute \/ DetachEgress
  <2>1. Quiet
    BY <1>3 DEF Quiet, InsertRoute, RollbackInsert, RemoveRoute, DetachEgress, Accepted,
                AttachRoute, registryVars
  <2>2. QED
    BY <1>0, <2>1
<1>4. CASE UNCHANGED <<bindings, calls, controlVars>>
  <2>1. Quiet
    BY <1>4 DEF Quiet, AttachRoute, controlVars
  <2>2. QED
    BY <1>0, <2>1
<1>5. CASE AttachRoute
  BY <1>5, AttachForwards DEF AttachRoute, registryVars
<1>6. CASE BeginRegister
  <2>1. PICK route \in Routes : route = Route
    BY <1>6 DEF BeginRegister, Types, ControlTypeOK
  <2>2. /\ route = Route' /\ pc = "register" /\ pc' = "registering"
        /\ UNCHANGED <<routes, request, workers>>
        /\ AtWork(route) /\ AtWork(route)'
    BY <1>6, <2>1 DEF BeginRegister, Route, AtWork, poolVars
  <2>3. \/ ShareBinding(route)
        \/ \E listener \in Listener :
             listener.sender \in out_sender /\ StartRegister(route, listener)
    BY <1>6, <2>1 DEF BeginRegister, Listener, Types, ControlTypeOK
  <2>4. QED
    BY <2>1, <2>2, <2>3, CallForwards
<1>7. CASE ContinueCall \/ BeginUnregister
  <2>1. PICK route \in Routes : route = Route
    BY <1>7 DEF ContinueCall, BeginUnregister, Types, ControlTypeOK
  <2>2. /\ route = Route'
        /\ UNCHANGED <<routes, request, workers>>
        /\ AtWork(route) /\ AtWork(route)'
    BY <1>7, <2>1 DEF ContinueCall, BeginUnregister, Route, AtWork, controlVars, poolVars
  <2>3. \/ /\ pc' = pc /\ pc \in {"registering", "unregistering"}
           /\ CallStep(route)
        \/ /\ pc = "unregister" /\ pc' = "unregistering"
           /\ UnregisterRoute(route)
    BY <1>7, <2>1 DEF ContinueCall, BeginUnregister, controlVars
  <2>4. QED
    BY <2>1, <2>2, <2>3, CallForwards
<1>8. QED
  BY <1>0, <1>1, <1>2, <1>3, <1>4, <1>5, <1>6, <1>7
     DEF LifecycleNext, Serve, Refresh, BeginReceive, EndReceive, EndLoop,
         registryVars, vars

\* The streamer's counts, table and registry, as proved so far.
Settled == Types /\ StageInv /\ RegistryMatchesRoutes /\ PoolCounts /\ RefCountsMatchHolders

LEMMA PoolCountsHold == LifecycleSpec => []PoolCounts
<1>1. PoolMatchesRoutes => PoolCounts
  BY DEF PoolCounts, PoolMatchesRoutes, Users
<1>2. QED
  BY <1>1, PoolCountsItsRoutes, PTL

LEMMA SettledHolds == LifecycleSpec => []Settled
BY TypesHold, StagesHold, PoolCountsHold, StreamerDrivesRegistry, RefCountsCorrect, PTL
   DEF Settled

LEMMA ForwardsHold ==
  ASSUME OneEgressPerBinding
  PROVE  LifecycleSpec => []ForwardInv
<1>1. LifecycleInit => ForwardInv
  BY DEF LifecycleInit, Init, RegistryInit, Resting, ForwardInv, Forwards, Attached, AtWork,
         Holding
<1>2. Settled /\ Settled' /\ ForwardInv /\ [LifecycleNext]_lifecycleVars => ForwardInv'
  <2> SUFFICES ASSUME Settled, Settled', ForwardInv, [LifecycleNext]_lifecycleVars
               PROVE  ForwardInv'
    OBVIOUS
  <2>1. CASE UNCHANGED lifecycleVars
    <3>1. UNCHANGED <<bindings, calls, workers, routes, request, pc, out_sender>>
      BY <2>1 DEF lifecycleVars, vars, poolVars, controlVars
    <3>2. QED
      BY <3>1 DEF ForwardInv, Forwards, PoolSender, Attached, AtWork, Route
  <2>2. QED
    BY <2>1, ForwardsNext DEF Settled
<1>3. QED
  BY <1>1, <1>2, SettledHolds, PTL DEF LifecycleSpec

\* While no two routes differ in their egress transport only, each route of the table
\* forwards to its own egress transport: through failed adds, deletes and reused
\* workers its binding's listener sends to the worker the pool keeps for it.
THEOREM RoutesForward ==
  ASSUME OneEgressPerBinding
  PROVE  LifecycleSpec => []RoutesForwardToTheirTransport
<1>1. Settled /\ ForwardInv => RoutesForwardToTheirTransport
  <2> SUFFICES ASSUME Settled, ForwardInv, pc = "idle", NEW r \in routes
               PROVE  /\ BindingKey(r) \in DOMAIN bindings
                      /\ r.egress_transport \in DOMAIN workers
                      /\ bindings[BindingKey(r)].listener.sender =
                           workers[r.egress_transport].sender
    BY DEF RoutesForwardToTheirTransport
  <2>1. r \in Routes /\ calls[r].pc = "in" /\ Attached(r)
    BY DEF Settled, Types, ControlTypeOK, RegistryMatchesRoutes, AtWork, Attached
  <2>2. BindingKey(r) \in DOMAIN bindings
    BY <2>1, RouteType DEF Settled, RefCountsMatchHolders, Holders
  <2>3. r.egress_transport \in DOMAIN workers
    BY <2>1, EgressTransportType DEF Settled, PoolCounts, Users
  <2>4. QED
    BY <2>1, <2>2, <2>3 DEF ForwardInv, Forwards, Holding, PoolSender
<1>2. QED
  BY <1>1, SettledHolds, ForwardsHold, PTL

\* Under the same assumption nothing is forwarded without a route: between requests
\* whatever is registered belongs to the binding of a route of the table, listens
\* for that route's ingress authority and sends to its egress transport.
THEOREM OnlyRoutesForward ==
  ASSUME OneEgressPerBinding
  PROVE  LifecycleSpec => []NoForwardingWithoutRoute
<1> DEFINE Inv == /\ Settled /\ ForwardInv /\ SendersHaveALoop
                  /\ NoStrayListener /\ BindingFiltersFromOneSnapshot
<1>1. Inv => NoForwardingWithoutRoute
  <2> SUFFICES ASSUME Inv, pc = "idle", NEW e \in listeners \ stranded
               PROVE  \E r \in routes :
                        /\ e.transport = r.ingress_transport
                        /\ e.filter.source.authority_name = r.ingress_authority
                        /\ loops[e.listener.sender] = r.egress_transport
    BY DEF NoForwardingWithoutRoute
  <2>1. \A r \in Routes : calls[r].pc = IF r \in routes THEN "in" ELSE "out"
    BY DEF Settled, RegistryMatchesRoutes, AtWork
  <2>2. ~OwnedByCall(e)
    BY <2>1 DEF OwnedByCall, Busy, Registering, Unregistering
  <2>3. PICK k \in DOMAIN bindings :
          /\ e.transport = k.transport
          /\ e.listener = bindings[k].listener
          /\ e.filter \in bindings[k].registered_filters
    BY <2>2 DEF NoStrayListener, OwnedByBinding
  <2>4. PICK r \in Routes : r \in Holders(k)
    BY DEF Settled, RefCountsMatchHolders, Types, TypeOK, BindingsTypeOK, Holders
  <2>5. k = BindingKey(r) /\ r \in routes /\ Attached(r) /\ calls[r].pc = "in"
    BY <2>1, <2>4 DEF Holders, Attached, AtWork
  <2>6. e.transport = r.ingress_transport
    BY <2>3, <2>5 DEF BindingKey
  <2>7. e.filter.source.authority_name = r.ingress_authority
    <3>1. PICK v \in DOMAIN applied :
            bindings[k].registered_filters = {RequestFilter(r)} \cup
              PublishFilters(r, LookupRouteSubscribers(applied[v], r.egress_authority))
      BY <2>5 DEF BindingFiltersFromOneSnapshot
    <3>2. RequestFilter(r).source.authority_name = r.ingress_authority
      BY DEF RequestFilter, AuthorityToWildcardFilter
    <3>3. ASSUME NEW subscribers, NEW filter \in PublishFilters(r, subscribers)
          PROVE  filter.source.authority_name = r.ingress_authority
      BY <3>3 DEF PublishFilters, PublishFilter, DeriveSourceFilters, SourceFilterUri
    <3>4. QED
      BY <2>3, <3>1, <3>2, <3>3
  <2>8. loops[e.listener.sender] = r.egress_transport
    <3>1. e.listener.sender = PoolSender(r)
      BY <2>3, <2>5 DEF ForwardInv, Forwards, Holding
    <3>2. r.egress_transport \in DOMAIN workers
      BY <2>5, EgressTransportType DEF Settled, PoolCounts, Users
    <3>3. QED
      BY <3>1, <3>2 DEF SendersHaveALoop, PoolSender
  <2>9. QED
    BY <2>5, <2>6, <2>7, <2>8
<1>2. QED
  BY <1>1, SettledHolds, ForwardsHold, EverySenderHasItsLoop, StreamerDrivesRegistry,
     NoListenerIsLeftBehind, BindingsHaveOneSnapshot, PTL

-----------------------------------------------------------------------------
(* Snapshots.                                                               *)

\* Inside the streamer no refresh comes between the directory read of a call and the
\* end of it, so what the call has found is of the snapshot in force.
CurrentFilters(r) ==
  /\ calls[r].pc \in {"cache_get", "cache_insert"} =>
       calls[r].found.version = snapshot.version
  /\ calls[r].pc = "publish" =>
       calls[r].held \cup calls[r].pending = AllFiltersOf(r, snapshot.version)

CurrentInv == \A r \in Routes : CurrentFilters(r)

\* The step of a call between directory read and commit stays with the snapshot.
LEMMA CallStaysCurrent ==
  ASSUME TypeOK, SnapshotInv, UNCHANGED directoryVars, NEW r \in Routes, CurrentFilters(r),
         RegisterRoute(r) \/ CallStep(r) \/ UnregisterRoute(r)
  PROVE  CurrentFilters(r)'
<1> DEFINE v == snapshot.version
<1> USE DEF CurrentFilters
<1>0. /\ calls \in [Routes -> Call]
      /\ CallRight(r)
      /\ UNCHANGED <<applied, snapshot>>
      /\ v \in DOMAIN applied
  BY DEF SnapshotInv, directoryVars, TypeOK, CallsTypeOK, DirectoryTypeOK
<1>1. CASE calls'[r].pc \notin {"cache_get", "cache_insert", "publish"}
  BY <1>1
<1>2. CASE LookupSubscribers(r)
  BY <1>0, <1>2 DEF LookupSubscribers, Call
<1>3. CASE ReadFilterCache(r)
  <2>1. /\ calls[r].pc = "cache_get"
        /\ calls[r].found.version = v
        /\ calls[r].held = {RequestFilter(r)}
    BY <1>0, <1>3 DEF ReadFilterCache, CallRight, RequestHeldAlone
  <2>2. CASE CacheKey(r, v) \in DOMAIN publish_filter_cache
    <3>1. publish_filter_cache[CacheKey(r, v)] = FiltersOf(r, v)
      BY <1>0, <2>2 DEF SnapshotInv, CachedFiltersRight
    <3>2. /\ calls'[r].pc = "publish"
          /\ calls'[r].held = calls[r].held
          /\ calls'[r].pending = publish_filter_cache[CacheKey(r, v)]
      BY <1>0, <1>3, <2>1, <2>2 DEF ReadFilterCache, Call
    <3>3. calls'[r].held \cup calls'[r].pending = AllFiltersOf(r, v)
      BY <2>1, <3>1, <3>2 DEF AllFiltersOf
    <3>4. QED
      BY <1>0, <3>2, <3>3 DEF AllFiltersOf, FiltersOf
  <2>3. CASE CacheKey(r, v) \notin DOMAIN publish_filter_cache
    BY <1>0, <1>3, <2>1, <2>3 DEF ReadFilterCache, Call
  <2>4. QED
    BY <2>2, <2>3
<1>4. CASE FillFilterCache(r)
  <2>1. /\ calls[r].found.version = v
        /\ calls[r].held = {RequestFilter(r)}
        /\ PublishFilters(r, calls[r].found.subscribers) = FiltersOf(r, v)
    BY <1>0, <1>4 DEF FillFilterCache, FiltersOf, CallRight, RequestHeldAlone, FoundIsApplied
  <2>2. CacheKey(r, v) \in DOMAIN publish_filter_cache =>
          publish_filter_cache[CacheKey(r, v)] = FiltersOf(r, v)
    BY <1>0 DEF SnapshotInv, CachedFiltersRight
  <2>3. /\ calls'[r].pc = "publish"
        /\ calls'[r].held = calls[r].held
        /\ calls'[r].pending = FiltersOf(r, v)
    BY <1>0, <1>4, <2>1, <2>2 DEF FillFilterCache, Call
  <2>4. calls'[r].held \cup calls'[r].pending = AllFiltersOf(r, v)
    BY <2>1, <2>3 DEF AllFiltersOf
  <2>5. QED
    BY <1>0, <2>3, <2>4 DEF AllFiltersOf, FiltersOf
<1>5. ASSUME NEW filter \in calls[r].pending, RegisterPublishListener(r, filter)
      PROVE  CurrentFilters(r)'
  <2>1. CASE calls' = [calls EXCEPT ![r].pending = @ \ {filter},
                                    ![r].held = @ \cup {filter}]
    <3>1. /\ calls[r].pc = "publish"
          /\ calls'[r].pc = "publish"
          /\ calls'[r].held = calls[r].held \cup {filter}
          /\ calls'[r].pending = calls[r].pending \ {filter}
      BY <1>0, <1>5, <2>1 DEF RegisterPublishListener, Call
    <3>2. calls'[r].held \cup calls'[r].pending = calls[r].held \cup calls[r].pending
      BY <3>1
    <3>3. QED
      BY <1>0, <3>1, <3>2 DEF AllFiltersOf, FiltersOf
  <2>2. CASE calls' = [calls EXCEPT ![r].pc = "rollback", ![r].pending = {}]
    BY <1>0, <2>2 DEF Call
  <2>3. QED
    BY <1>5, <2>1, <2>2 DEF RegisterPublishListener
<1>6. CASE \/ ShareBinding(r) \/ CommitShared(r) \/ CommitBinding(r) \/ UnregisterRoute(r)
           \/ RegisterRequestListener(r)
           \/ \E listener \in Listener : StartRegister(r, listener)
  <2>1. calls'[r].pc \notin {"cache_get", "cache_insert", "publish"}
    BY <1>0, <1>6 DEF ShareBinding, CommitShared, CommitBinding, UnregisterRoute, ReleaseShared,
                      ReleaseLast, RegisterRequestListener, StartRegister, Resting, Call
  <2>2. QED
    BY <1>1, <2>1
<1>7. ASSUME NEW filter \in calls[r].held, UnregisterListener(r, filter)
      PROVE  CurrentFilters(r)'
  <2>1. calls'[r].pc \notin {"cache_get", "cache_insert", "publish"}
    BY <1>0, <1>7 DEF UnregisterListener, Unregistering, Resting, Outcome, Call
  <2>2. QED
    BY <1>1, <2>1
<1>8. QED
  BY <1>2, <1>3, <1>4, <1>5, <1>6, <1>7 DEF RegisterRoute, CallStep

LEMMA CurrentNext ==
  ASSUME Types, RegistryMatchesRoutes, SnapshotInv, CurrentInv, LifecycleNext
  PROVE  CurrentInv'
<1> USE DEF Types
<1>1. ASSUME NEW r \in Routes, RegisterRoute(r) \/ CallStep(r) \/ UnregisterRoute(r),
             UNCHANGED directoryVars
      PROVE  CurrentInv'
  <2>1. CurrentFilters(r)'
    BY <1>1, CallStaysCurrent DEF CurrentInv
  <2>2. ASSUME NEW x \in Routes \ {r}
        PROVE  CurrentFilters(x)'
    <3>1. calls'[x] = calls[x] /\ UNCHANGED <<snapshot, applied>>
      BY <1>1, OtherCallsUntouched DEF directoryVars
    <3>2. QED
      BY <3>1 DEF CurrentInv, CurrentFilters, AllFiltersOf, FiltersOf
  <2>3. QED
    BY <2>1, <2>2 DEF CurrentInv
<1>2. ASSUME NEW rows \in Responses, Refresh(rows)
      PROVE  CurrentInv'
  <2>1. pc = "idle" /\ UNCHANGED calls
    BY <1>2 DEF Refresh, registryVars
  <2>2. \A r \in Routes : calls[r].pc \in {"in", "out"}
    BY <2>1 DEF RegistryMatchesRoutes, AtWork
  <2>3. QED
    BY <2>1, <2>2 DEF CurrentInv, CurrentFilters
<1>3. CASE UNCHANGED <<calls, snapshot, applied>>
  BY <1>3 DEF CurrentInv, CurrentFilters, AllFiltersOf, FiltersOf
<1>4. \/ \E rows \in Responses : Refresh(rows)
      \/ UNCHANGED <<calls, snapshot, applied>>
      \/ /\ Route \in Routes
         /\ RegisterRoute(Route) \/ CallStep(Route) \/ UnregisterRoute(Route)
         /\ UNCHANGED directoryVars
  <2>1. CASE \E rows \in Responses : Refresh(rows)
    BY <2>1
  <2>2. CASE UNCHANGED vars
    BY <2>2 DEF vars
  <2>3. CASE ~\E rows \in Responses : Refresh(rows)
    <3>1. UNCHANGED <<snapshot, applied>>
      BY <2>3 DEF LifecycleNext, Serve, Submit, BeginReceive, EndReceive, EndLoop,
                  directoryVars, vars
    <3>2. ASSUME UNCHANGED registryVars
          PROVE  UNCHANGED calls
      BY <3>2 DEF registryVars
    <3>3. QED
      BY <2>2, <3>1, <3>2, StepsOfRegistry
  <2>4. QED
    BY <2>1, <2>3
<1>5. QED
  BY <1>1, <1>2, <1>3, <1>4

LEMMA SnapshotInvInside == LifecycleSpec => []SnapshotInv
BY StreamerDrivesRegistry, SnapshotInvHolds, PTL

LEMMA CurrentHolds == LifecycleSpec => []CurrentInv
<1>1. LifecycleInit => CurrentInv
  BY DEF LifecycleInit, Init, RegistryInit, Resting, CurrentInv, CurrentFilters
<1>2. Settled /\ SnapshotInv /\ CurrentInv /\ [LifecycleNext]_lifecycleVars => CurrentInv'
  <2> SUFFICES ASSUME Settled, SnapshotInv, CurrentInv, [LifecycleNext]_lifecycleVars
               PROVE  CurrentInv'
    OBVIOUS
  <2>1. CASE UNCHANGED lifecycleVars
    <3>1. UNCHANGED <<calls, snapshot, applied>>
      BY <2>1 DEF lifecycleVars, vars
    <3>2. QED
      BY <3>1 DEF CurrentInv, CurrentFilters, AllFiltersOf, FiltersOf
  <2>2. QED
    BY <2>1, CurrentNext DEF Settled
<1>3. QED
  BY <1>1, <1>2, SettledHolds, SnapshotInvInside, PTL DEF LifecycleSpec

\* A binding made inside the streamer has the filters of the snapshot in force when it
\* is made, also when they come from the cache: a refresh is never in between.
THEOREM BindingsAreMadeCurrent == LifecycleSpec => NewBindingsUseCurrentSnapshot
<1> DEFINE MadeCurrent ==
      \A r \in Routes :
        BindingKey(r) \in DOMAIN bindings' \ DOMAIN bindings =>
          bindings'[BindingKey(r)].registered_filters =
            {RequestFilter(r)} \cup
              PublishFilters(r, LookupRouteSubscribers(snapshot.rows, r.egress_authority))
<1>1. Settled /\ CurrentInv /\ [LifecycleNext]_lifecycleVars => [MadeCurrent]_lifecycleVars
  <2> SUFFICES ASSUME Settled, CurrentInv, LifecycleNext, NEW r \in Routes,
                      BindingKey(r) \in DOMAIN bindings' \ DOMAIN bindings
               PROVE  bindings'[BindingKey(r)].registered_filters =
                        {RequestFilter(r)} \cup
                          PublishFilters(r, LookupRouteSubscribers(snapshot.rows,
                                                                   r.egress_authority))
    OBVIOUS
  <2>1. Route \in Routes /\ CommitBinding(Route)
    <3>1. bindings' # bindings
      OBVIOUS
    <3>2. PICK route \in Routes :
            /\ route = Route
            /\ RegisterRoute(route) \/ CallStep(route) \/ UnregisterRoute(route)
      BY <3>1, StepsOfRegistry DEF Settled, Types, registryVars, vars
    <3>3. CommitBinding(route)
      BY <3>2 DEF RegisterRoute, CallStep, UnregisterRoute, ShareBinding, StartRegister,
                  RegisterRequestListener, LookupSubscribers, ReadFilterCache, FillFilterCache,
                  RegisterPublishListener, CommitShared, UnregisterListener, ReleaseShared,
                  ReleaseLast, AddReference, Restrict
    <3>4. QED
      BY <3>2, <3>3
  <2>2. BindingKey(r) = BindingKey(Route)
    BY <2>1 DEF CommitBinding, NewBinding
  <2>3. bindings'[BindingKey(r)].registered_filters = AllFiltersOf(Route, snapshot.version)
    BY <2>1, <2>2 DEF CommitBinding, NewBinding, CurrentInv, CurrentFilters
  <2>4. AllFiltersOf(Route, snapshot.version) = AllFiltersOf(r, snapshot.version)
    BY <2>1, <2>2, SameAuthoritiesSameFilters DEF BindingKey
  <2>5. applied[snapshot.version] = snapshot.rows
    BY DEF Settled, Types, TypeOK, DirectoryTypeOK
  <2>6. QED
    BY <2>3, <2>4, <2>5 DEF AllFiltersOf, FiltersOf
<1>2. QED
  BY <1>1, SettledHolds, CurrentHolds, PTL DEF LifecycleSpec, NewBindingsUseCurrentSnapshot


\* Between requests the routes of the table have bindings, and whatever is registered
\* is registered for the listener of one of them.
OnlyRoutesListen ==
  pc = "idle" =>
    /\ \A r \in routes : BindingKey(r) \in DOMAIN bindings
    /\ \A e \in listeners \ stranded :
         \E r \in routes : e.listener = bindings[BindingKey(r)].listener

\* An idle streamer holds with its transports, for each route of its table, exactly the
\* route's requests and the topics that one applied subscription response names for
\* it, and apart from refused unregister calls nothing else: after any sequence
\* of adds, failed adds, deletes and refreshes, and whatever is running meanwhile.
THEOREM StreamerListensExactly ==
  LifecycleSpec => [](OnlyRoutesListen /\ BoundRoutesListenExactly)
<1>1. Settled /\ NoStrayListener => OnlyRoutesListen
  <2> SUFFICES ASSUME Settled, NoStrayListener, pc = "idle"
               PROVE  /\ \A r \in routes : BindingKey(r) \in DOMAIN bindings
                      /\ \A e \in listeners \ stranded :
                           \E r \in routes : e.listener = bindings[BindingKey(r)].listener
    BY DEF OnlyRoutesListen
  <2>1. \A r \in Routes : calls[r].pc = IF r \in routes THEN "in" ELSE "out"
    BY DEF Settled, RegistryMatchesRoutes, AtWork
  <2>2. ASSUME NEW r \in routes
        PROVE  BindingKey(r) \in DOMAIN bindings
    <3>1. r \in Routes /\ r \in Holders(BindingKey(r))
      BY <2>1 DEF Settled, Types, ControlTypeOK, Holders
    <3>2. QED
      BY <3>1, RouteType DEF Settled, RefCountsMatchHolders
  <2>3. ASSUME NEW e \in listeners \ stranded
        PROVE  \E r \in routes : e.listener = bindings[BindingKey(r)].listener
    <3>1. ~OwnedByCall(e)
      BY <2>1 DEF OwnedByCall, Busy, Registering, Unregistering
    <3>2. PICK k \in DOMAIN bindings : e.listener = bindings[k].listener
      BY <3>1 DEF NoStrayListener, OwnedByBinding
    <3>3. PICK r \in Routes : r \in Holders(k)
      BY DEF Settled, RefCountsMatchHolders, Types, TypeOK, BindingsTypeOK, Holders
    <3>4. k = BindingKey(r) /\ r \in routes
      BY <2>1, <3>3 DEF Holders
    <3>5. QED
      BY <3>2, <3>4
  <2>4. QED
    BY <2>2, <2>3
<1>2. QED
  BY <1>1, SettledHolds, StreamerDrivesRegistry, NoListenerIsLeftBehind,
     ListenersMatchSubscriptions, PTL

-----------------------------------------------------------------------------
(* The contract with the caller.                                            *)

\* The request at work is of the kind its place belongs to, and a call is rolled
\* back only because a transport refused a listener.
RequestInv ==
  /\ pc \in {"attach", "register", "registering", "rollback"} => request.op = "add"
  /\ pc \in {"detach", "unregister", "unregistering"} => request.op = "delete"
  /\ pc = "rollback" => "register" \in FailingCalls
  /\ (pc = "registering" /\ calls[Route].pc \in {"rollback", "out"})
       => "register" \in FailingCalls

\* A call that registers gives up only when a transport call fails.
LEMMA CallStepFails ==
  ASSUME TypeOK, NEW r \in Routes, CallStep(r), calls'[r].pc \in {"rollback", "out"}
  PROVE  calls[r].pc \in {"rollback", "unregister"} \/ "register" \in FailingCalls
<1> USE DEF TypeOK, CallsTypeOK
<1>1. CASE RegisterRequestListener(r)
  BY <1>1 DEF RegisterRequestListener, Call
<1>2. CASE LookupSubscribers(r) \/ ReadFilterCache(r) \/ FillFilterCache(r)
  <2>1. CASE LookupSubscribers(r)
    BY <2>1 DEF LookupSubscribers, Call
  <2>2. CASE ReadFilterCache(r)
    BY <2>2 DEF ReadFilterCache, Call
  <2>3. CASE FillFilterCache(r)
    BY <2>3 DEF FillFilterCache, Call
  <2>4. QED
    BY <1>2, <2>1, <2>2, <2>3
<1>3. ASSUME NEW filter \in calls[r].pending, RegisterPublishListener(r, filter)
      PROVE  "register" \in FailingCalls
  BY <1>3 DEF RegisterPublishListener, Call
<1>4. CASE CommitShared(r) \/ CommitBinding(r)
  BY <1>4 DEF CommitShared, CommitBinding, Resting, Call
<1>5. ASSUME NEW filter \in calls[r].held, UnregisterListener(r, filter)
      PROVE  calls[r].pc \in {"rollback", "unregister"}
  <2>1. CASE calls[r].held \ {filter} = {}
    BY <1>5, <2>1 DEF UnregisterListener, Unregistering, Resting, Outcome
  <2>2. CASE calls[r].held \ {filter} # {}
    BY <1>5, <2>2 DEF UnregisterListener, Unregistering, Call
  <2>3. QED
    BY <2>1, <2>2
<1>6. QED
  BY <1>1, <1>2, <1>3, <1>4, <1>5 DEF CallStep

\* Each step of a request keeps it of its kind.
LEMMA RequestInvNext ==
  ASSUME Types, StageInv, RequestInv, LifecycleNext
  PROVE  RequestInv'
<1> USE DEF RequestInv
<1>1. CASE UNCHANGED <<request, pc, calls>>
  BY <1>1 DEF Route
<1>2. ASSUME NEW q \in Requests, Submit(q)
      PROVE  RequestInv'
  BY <1>2 DEF Submit
<1>3. CASE Refuse \/ FinishAdd \/ RollbackAttach \/ FinishDelete
  BY <1>3 DEF Refuse, FinishAdd, RollbackAttach, FinishDelete, Answer
<1>4. CASE InsertRoute \/ RemoveRoute
  BY <1>4 DEF InsertRoute, RemoveRoute, Accepted
<1>5. CASE AttachRoute \/ RollbackInsert \/ DetachEgress
  BY <1>5 DEF AttachRoute, RollbackInsert, DetachEgress
<1>6. CASE BeginRegister
  <2>1. /\ Route \in Routes
        /\ UNCHANGED <<request, Route>>
        /\ pc = "register" /\ pc' = "registering"
    BY <1>6 DEF BeginRegister, Types, ControlTypeOK, Route
  <2>2. calls'[Route].pc \in {"in", "request"}
    BY <1>6, <2>1 DEF BeginRegister, ShareBinding, StartRegister, Resting,
                      Types, TypeOK, CallsTypeOK
  <2>3. QED
    BY <2>1, <2>2
<1>7. CASE BeginUnregister
  BY <1>7 DEF BeginUnregister
<1>8. CASE ContinueCall
  <2>1. /\ Route \in Routes
        /\ UNCHANGED <<request, Route, pc>>
        /\ CallStep(Route)
    BY <1>8 DEF ContinueCall, Types, ControlTypeOK, controlVars, Route
  <2>2. CASE pc = "registering" /\ calls'[Route].pc \in {"rollback", "out"}
    <3>1. calls[Route].pc \in {"rollback", "unregister"} \/ "register" \in FailingCalls
      BY <2>1, <2>2, CallStepFails DEF Types
    <3>2. calls[Route].pc # "unregister"
      BY <2>2 DEF StageInv, Registering
    <3>3. QED
      BY <2>1, <2>2, <3>1, <3>2
  <2>3. QED
    BY <2>1, <2>2
<1>9. QED
  BY <1>1, <1>2, <1>3, <1>4, <1>5, <1>6, <1>7, <1>8
     DEF LifecycleNext, Serve, Refresh, BeginReceive, EndReceive, EndLoop,
         controlVars, registryVars, vars

LEMMA RequestInvHolds == LifecycleSpec => []RequestInv
<1>1. LifecycleInit => RequestInv
  BY DEF LifecycleInit, RequestInv
<1>2. Types /\ StageInv /\ RequestInv /\ [LifecycleNext]_lifecycleVars => RequestInv'
  <2> SUFFICES ASSUME Types, StageInv, RequestInv, [LifecycleNext]_lifecycleVars
               PROVE  RequestInv'
    OBVIOUS
  <2>1. CASE UNCHANGED lifecycleVars
    BY <2>1 DEF lifecycleVars, controlVars, vars, RequestInv, Route
  <2>2. QED
    BY <2>1, RequestInvNext
<1>3. QED
  BY <1>1, <1>2, TypesHold, StagesHold, PTL DEF LifecycleSpec

\* A route of the application joins two authorities.
LEMMA AuthoritiesOfRoute ==
  ASSUME Route \in Routes
  PROVE  request.in.authority # request.out.authority
BY RoutesAssumption DEF Route, RouteKey

\* Every step of the streamer is, to its caller, the submission of a request, its
\* answer together with its effect, or nothing.
LEMMA StepIsContractStep ==
  ASSUME Types, StageInv, RequestInv, LifecycleNext
  PROVE  [Contract!Next]_<<Active, request, reply>>
<1> DEFINE Same == UNCHANGED <<Active, request, reply>>
<1> USE DEF Types, ControlTypeOK
<1>1. CASE UNCHANGED controlVars
  BY <1>1 DEF controlVars, Active, Route
<1>2. ASSUME NEW q \in Requests, Submit(q)
      PROVE  Contract!Next
  <2>1. q \in Contract!Request
    BY DEF Requests, Contract!Request
  <2>2. Active' = Active
    BY <1>2 DEF Submit, Active
  <2>3. Contract!Submit(q)
    BY <1>2, <2>2 DEF Submit, Contract!Submit, Contract!NoRequest, NoRequest
  <2>4. QED
    BY <2>1, <2>3 DEF Contract!Next
<1>3. CASE Refuse
  <2>1. /\ pc = "start"
        /\ Active = routes /\ Active' = routes
        /\ Answer(reply')
    BY <1>3 DEF Refuse, Answer, Active
  <2>2. /\ request # Contract!NoRequest
        /\ request.op \in {"add", "delete"}
    BY <2>1 DEF Contract!NoRequest, NoRequest, Requests
  <2>3. Contract!Answer(reply')
    BY <2>1 DEF Answer, Contract!Answer, Contract!NoRequest, NoRequest
  <2>4. CASE request.in.authority = request.out.authority
    <3>1. reply' = "INVALID_ARGUMENT"
      BY <1>3, <2>4 DEF Refuse, Answer
    <3>2. Contract!Add \/ Contract!Delete
      BY <2>1, <2>2, <2>3, <2>4, <3>1 DEF Contract!Add, Contract!Delete
    <3>3. QED
      BY <3>2 DEF Contract!Next
  <2>5. CASE request.in.authority # request.out.authority /\ request.op = "add"
    <3>1. Route \in routes /\ reply' = "ALREADY_EXISTS"
      BY <1>3, <2>5 DEF Refuse, Answer
    <3>2. Contract!Add
      BY <2>1, <2>2, <2>3, <2>5, <3>1 DEF Contract!Add, Route
    <3>3. QED
      BY <3>2 DEF Contract!Next
  <2>6. CASE request.in.authority # request.out.authority /\ request.op = "delete"
    <3>1. Route \notin routes /\ reply' = "NOT_FOUND"
      BY <1>3, <2>6 DEF Refuse, Answer
    <3>2. Contract!Delete
      BY <2>1, <2>2, <2>3, <2>6, <3>1 DEF Contract!Delete, Route
    <3>3. QED
      BY <3>2 DEF Contract!Next
  <2>7. QED
    BY <2>2, <2>4, <2>5, <2>6
\* Inserting the route and removing it have no effect the caller is told of yet.
<1>4. CASE InsertRoute
  BY <1>4 DEF InsertRoute, Accepted, Active, Route
<1>5. CASE RemoveRoute
  BY <1>5 DEF RemoveRoute, Accepted, Active, Route
<1>6. CASE AttachRoute \/ BeginRegister \/ DetachEgress \/ BeginUnregister
  BY <1>6 DEF AttachRoute, BeginRegister, DetachEgress, BeginUnregister, Active, Route
<1>7. CASE RollbackInsert
  BY <1>7 DEF RollbackInsert, Active, Route
<1>8. CASE FinishAdd \/ RollbackAttach
  <2>1. /\ Route \in Routes
        /\ request.op = "add"
        /\ request # Contract!NoRequest
        /\ Answer(reply')
    BY <1>8 DEF FinishAdd, RollbackAttach, Answer, RequestInv, Contract!NoRequest, NoRequest
  <2>2. request.in.authority # request.out.authority
    BY <2>1, AuthoritiesOfRoute
  <2>3. Contract!Answer(reply')
    BY <2>1 DEF Answer, Contract!Answer, Contract!NoRequest, NoRequest
  <2>4. CASE FinishAdd
    <3>1. /\ reply' = "OK"
          /\ Active = routes \ {Route} /\ Active' = routes
          /\ Route \in routes
      BY <2>4 DEF FinishAdd, Answer, Active, StageInv
    <3>2. Contract!Add
      BY <2>1, <2>2, <2>3, <3>1 DEF Contract!Add, Route
    <3>3. QED
      BY <3>2 DEF Contract!Next
  <2>5. CASE RollbackAttach
    <3>1. /\ reply' = "INVALID_ARGUMENT"
          /\ Active = routes /\ Active' = routes
          /\ Route \notin routes
          /\ "register" \in FailingCalls
      BY <2>5 DEF RollbackAttach, Answer, Active, StageInv, RequestInv
    <3>2. Contract!Add
      BY <2>1, <2>2, <2>3, <3>1 DEF Contract!Add, Route
    <3>3. QED
      BY <3>2 DEF Contract!Next
  <2>6. QED
    BY <1>8, <2>4, <2>5
<1>9. CASE FinishDelete
  <2>1. /\ Route \in Routes
        /\ request.op = "delete"
        /\ request # Contract!NoRequest
        /\ Answer(reply')
        /\ reply' = "OK"
    BY <1>9 DEF FinishDelete, Answer, RequestInv, Contract!NoRequest, NoRequest
  <2>2. request.in.authority # request.out.authority
    BY <2>1, AuthoritiesOfRoute
  <2>3. Contract!Answer(reply')
    BY <2>1 DEF Answer, Contract!Answer, Contract!NoRequest, NoRequest
  <2>4. /\ Active = routes \cup {Route} /\ Active' = routes
        /\ Route \notin routes
    BY <1>9 DEF FinishDelete, Answer, Active, StageInv
  <2>5. Contract!Delete
    BY <2>1, <2>2, <2>3, <2>4 DEF Contract!Delete, Route
  <2>6. QED
    BY <2>5 DEF Contract!Next
<1>10. QED
  BY <1>1, <1>2, <1>3, <1>4, <1>5, <1>6, <1>7, <1>8, <1>9
     DEF LifecycleNext, Serve, ContinueCall, Refresh, BeginReceive, EndReceive, EndLoop,
         controlVars

\* add_route and delete_route look atomic to their caller, whatever transports refuse
\* and whatever runs beside them: a request changes the set of active routes by its
\* own route at most, exactly when it is answered OK, and an add_route that fails
\* half-way has had no effect.
THEOREM ImplementsContractSafety == LifecycleSpec => Contract!Safety
<1>1. LifecycleInit => Contract!Init
  BY DEF LifecycleInit, Contract!Init, Contract!NoRequest, NoRequest, Active
<1>2. Types /\ StageInv /\ RequestInv /\ [LifecycleNext]_lifecycleVars
        => [Contract!Next]_<<Active, request, reply>>
  <2> SUFFICES ASSUME Types, StageInv, RequestInv, [LifecycleNext]_lifecycleVars
               PROVE  [Contract!Next]_<<Active, request, reply>>
    OBVIOUS
  <2>1. CASE UNCHANGED lifecycleVars
    BY <2>1 DEF lifecycleVars, controlVars, Active, Route
  <2>2. QED
    BY <2>1, StepIsContractStep
<1>3. QED
  BY <1>1, <1>2, TypesHold, StagesHold, RequestInvHolds, PTL DEF LifecycleSpec, Contract!Safety

=============================================================================
