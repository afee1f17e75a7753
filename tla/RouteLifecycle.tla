--------------------------- MODULE RouteLifecycle ---------------------------
(***************************************************************************)
(* The streamer as its caller and its transports see it: UStreamer's       *)
(* add_route, delete_route and refresh_subscriptions, RouteLifecycle's     *)
(* orchestration of route table, egress pool and ingress registry, and     *)
(* what runs beside them: transports calling on_receive, and dispatch      *)
(* loops that end when the last sender of their channel goes.              *)
(*                                                                         *)
(* UStreamer's methods borrow it exclusively, so one request is served at  *)
(* a time and a refresh only runs between requests; pc is the await the    *)
(* request has reached.                                                    *)
(***************************************************************************)
EXTENDS IngressRegistry, EgressPool

VARIABLES
  routes,       \* RouteTable: HashSet<RouteKey>
  request,      \* the request being served
  pc,           \* where RouteLifecycle::add_route or remove_route stands
  out_sender,   \* the sender attach_route returned, until register_route takes it
  reply,        \* the code of the last answer
  delivering    \* listeners whose on_receive a transport is running

controlVars == <<routes, request, pc, out_sender, reply>>
lifecycleVars == <<vars, poolVars, controlVars, delivering>>

NoRequest == [op |-> "none"]

\* The requests of the application: its routes, and pairs within one authority.
Requests ==
  {q \in [op : {"add", "delete"}, in : Endpoints, out : Endpoints] :
     q.in.authority = q.out.authority \/ RouteKey(q.in, q.out) \in Routes}

Route == RouteKey(request.in, request.out)

LifecycleInit ==
  /\ Init
  /\ PoolInit
  /\ routes = {}
  /\ request = NoRequest
  /\ pc = "idle"
  /\ out_sender = {}
  /\ reply = "none"
  /\ delivering = {}

\* Channels that some Sender still points to: the pool's, those of listeners that
\* a binding, a transport, a call or a running callback keeps alive, and the one
\* add_route holds.
OpenSenders ==
  {workers[t].sender : t \in DOMAIN workers}
    \cup {l.sender : l \in LiveListeners \cup delivering}
    \cup out_sender

-----------------------------------------------------------------------------
Submit(q) ==
  /\ pc = "idle"
  /\ request' = q
  /\ pc' = "start"
  /\ reply' = "none"
  /\ UNCHANGED <<routes, out_sender, registryVars, poolVars>>

Answer(code) ==
  /\ request' = NoRequest
  /\ pc' = "idle"
  /\ reply' = code

\* UStreamer::add_route_ref and delete_route_ref turn these refusals into codes;
\* nothing has been touched.
Refuse ==
  /\ pc = "start"
  /\ \/ /\ request.in.authority = request.out.authority
        /\ Answer("INVALID_ARGUMENT")
     \/ /\ request.in.authority # request.out.authority
        /\ request.op = "add" /\ Route \in routes
        /\ Answer("ALREADY_EXISTS")
     \/ /\ request.in.authority # request.out.authority
        /\ request.op = "delete" /\ Route \notin routes
        /\ Answer("NOT_FOUND")
  /\ UNCHANGED <<routes, out_sender, registryVars, poolVars>>

Accepted(op) ==
  /\ pc = "start"
  /\ request.op = op
  /\ request.in.authority # request.out.authority

\* add_route: RouteTable::insert_route returns true.
InsertRoute ==
  /\ Accepted("add")
  /\ Route \notin routes
  /\ routes' = routes \cup {Route}
  /\ pc' = "attach"
  /\ UNCHANGED <<request, out_sender, reply, registryVars, poolVars>>

\* add_route: EgressRoutePool::attach_route.
AttachRoute ==
  /\ pc = "attach"
  /\ \/ /\ ReuseWorker(Route.egress_transport)
        /\ out_sender' = {workers[Route.egress_transport].sender}
     \/ \E c \in Senders \ (OpenSenders \cup DOMAIN loops) :
          /\ CreateWorker(Route.egress_transport, c)
          /\ out_sender' = {c}
  /\ pc' = "register"
  /\ UNCHANGED <<routes, request, reply, registryVars>>

\* add_route: IngressRouteRegistry::register_route begins and takes the sender.
BeginRegister ==
  /\ pc = "register"
  /\ \/ ShareBinding(Route)
     \/ \E listener \in [id : ListenerIds, sender : out_sender] :
          /\ Fresh(listener)
          /\ \A l \in delivering : l.id # listener.id
          /\ StartRegister(Route, listener)
  /\ pc' = "registering"
  /\ out_sender' = {}
  /\ UNCHANGED <<routes, request, reply, poolVars>>

\* register_route or unregister_route goes on by one step.
ContinueCall ==
  /\ pc \in {"registering", "unregistering"}
  /\ CallStep(Route)
  /\ UNCHANGED <<controlVars, poolVars>>

\* add_route: register_route returned Ok.
FinishAdd ==
  /\ pc = "registering"
  /\ calls[Route].pc = "in"
  /\ Answer("OK")
  /\ UNCHANGED <<routes, out_sender, registryVars, poolVars>>

\* Variant: the route stays in the table.
RollbackInsertKeepsRoute ==
  /\ pc = "registering"
  /\ calls[Route].pc = "out"
  /\ pc' = "rollback"
  /\ UNCHANGED <<routes, request, out_sender, reply, registryVars, poolVars>>

\* add_route: register_route returned Err, and the route leaves the table.
RollbackInsert ==
  /\ pc = "registering"
  /\ calls[Route].pc = "out"
  /\ routes' = routes \ {Route}
  /\ pc' = "rollback"
  /\ UNCHANGED <<request, out_sender, reply, registryVars, poolVars>>

\* Variant: the worker's reference is forgotten.
RollbackAttachForgets ==
  /\ pc = "rollback"
  /\ Answer("INVALID_ARGUMENT")
  /\ UNCHANGED <<routes, out_sender, registryVars, poolVars>>

\* add_route: the egress worker is detached and the Err answered.
RollbackAttach ==
  /\ pc = "rollback"
  /\ DetachRoute(Route.egress_transport)
  /\ Answer("INVALID_ARGUMENT")
  /\ UNCHANGED <<routes, out_sender, registryVars>>

\* remove_route: RouteTable::remove_route returns true.
RemoveRoute ==
  /\ Accepted("delete")
  /\ Route \in routes
  /\ routes' = routes \ {Route}
  /\ pc' = "detach"
  /\ UNCHANGED <<request, out_sender, reply, registryVars, poolVars>>

\* remove_route: EgressRoutePool::detach_route, before the listeners go.
DetachEgress ==
  /\ pc = "detach"
  /\ DetachRoute(Route.egress_transport)
  /\ pc' = "unregister"
  /\ UNCHANGED <<routes, request, out_sender, reply, registryVars>>

\* remove_route: IngressRouteRegistry::unregister_route begins.
BeginUnregister ==
  /\ pc = "unregister"
  /\ UnregisterRoute(Route)
  /\ pc' = "unregistering"
  /\ UNCHANGED <<routes, request, out_sender, reply, poolVars>>

FinishDelete ==
  /\ pc = "unregistering"
  /\ calls[Route].pc = "out"
  /\ Answer("OK")
  /\ UNCHANGED <<routes, out_sender, registryVars, poolVars>>

\* One step of the request being served.
Serve ==
  /\ \/ Refuse
     \/ InsertRoute \/ AttachRoute \/ BeginRegister \/ FinishAdd
     \/ RollbackInsert \/ RollbackAttach
     \/ RemoveRoute \/ DetachEgress \/ BeginUnregister \/ FinishDelete
     \/ ContinueCall
  /\ UNCHANGED <<directoryVars, delivering>>

\* refresh_subscriptions, between requests.
Refresh(rows) ==
  /\ pc = "idle"
  /\ ApplySnapshot(rows)
  /\ UNCHANGED <<registryVars, poolVars, controlVars, delivering>>

\* A transport calls on_receive of a registered listener.
BeginReceive(e) ==
  /\ e.listener \notin delivering
  /\ delivering' = delivering \cup {e.listener}
  /\ UNCHANGED <<vars, poolVars, controlVars>>

\* on_receive has sent to its channel and returns.
EndReceive(listener) ==
  /\ delivering' = delivering \ {listener}
  /\ UNCHANGED <<vars, poolVars, controlVars>>

\* Variant: a dispatch loop ends with its place in the pool.
EndLoopWithPool(c) ==
  /\ \A t \in DOMAIN workers : workers[t].sender # c
  /\ StopLoop(c)
  /\ UNCHANGED <<vars, controlVars, delivering>>

\* A dispatch loop whose channel has no sender left ends.
EndLoop(c) ==
  /\ c \notin OpenSenders
  /\ StopLoop(c)
  /\ UNCHANGED <<vars, controlVars, delivering>>

LifecycleNext ==
  \/ \E q \in Requests : Submit(q) /\ UNCHANGED <<directoryVars, delivering>>
  \/ Serve
  \/ \E rows \in Responses : Refresh(rows)
  \/ \E e \in listeners : BeginReceive(e)
  \/ \E listener \in delivering : EndReceive(listener)
  \/ \E c \in DOMAIN loops : EndLoop(c)

LifecycleSpec == LifecycleInit /\ [][LifecycleNext]_lifecycleVars

\* The caller polls the request it has submitted, transports return from their
\* calls, and the runtime polls each callback and each dispatch loop.
LifecycleFairness ==
  /\ WF_lifecycleVars(Serve)
  /\ \A l \in Listener : WF_lifecycleVars(l \in delivering /\ EndReceive(l))
  /\ \A c \in Senders : WF_lifecycleVars(EndLoop(c))

LiveLifecycleSpec == LifecycleSpec /\ LifecycleFairness

-----------------------------------------------------------------------------
\* The route a request works on, if it has passed the checks at its start.
AtWork(r) == pc \notin {"idle", "start"} /\ r = Route

LifecycleTypeOK ==
  /\ TypeOK
  /\ DOMAIN workers \subseteq Transports
  /\ \A t \in DOMAIN workers : workers[t] \in [ref_count : Nat \ {0}, sender : Senders]
  /\ DOMAIN loops \subseteq Senders
  /\ \A c \in DOMAIN loops : loops[c] \in Transports
  /\ routes \subseteq Routes
  /\ request \in Requests \cup {NoRequest}
  /\ (pc = "idle") <=> (request = NoRequest)
  /\ out_sender \subseteq Senders
  /\ delivering \subseteq Listener

\* Whether r holds a reference to the worker of its egress transport: the routes
\* of the table do, except that the request at work attaches after it inserts
\* and detaches after it removes.
Attached(r) ==
  IF AtWork(r) THEN pc \in {"register", "registering", "rollback", "detach"}
               ELSE r \in routes

\* The pool's ref_count counts the attached routes: the worker of a transport
\* exists exactly while some route uses it, through failed adds, their rollback
\* and deletes, and detach_route never meets a missing worker.
PoolMatchesRoutes ==
  LET Users(t) == {r \in Routes : r.egress_transport = t /\ Attached(r)}
  IN  /\ \A t \in Transports : t \in DOMAIN workers <=> Users(t) # {}
      /\ \A t \in DOMAIN workers : workers[t].ref_count = Cardinality(Users(t))

\* Table and registry agree on every route that no request is working on, so
\* between requests the registry serves exactly the routes of the table.
RegistryMatchesRoutes ==
  \A r \in Routes :
    ~AtWork(r) => calls[r].pc = IF r \in routes THEN "in" ELSE "out"

\* A sender is never left without its loop: on_receive's send, also that of a
\* callback still running after its listener is unregistered, finds the receiver
\* it was made for, and the worker in the pool is running.
SendersHaveALoop ==
  /\ OpenSenders \subseteq DOMAIN loops
  /\ \A t \in DOMAIN workers : loops[workers[t].sender] = t

\* A new binding is made from the snapshot in force when its add_route returns,
\* whether its filters were derived or came from the cache of an earlier call.
NewBindingsUseCurrentSnapshot ==
  [][ \A r \in Routes :
        BindingKey(r) \in DOMAIN bindings' \ DOMAIN bindings =>
          bindings'[BindingKey(r)].registered_filters =
            {RequestFilter(r)} \cup
              PublishFilters(r, LookupRouteSubscribers(snapshot.rows, r.egress_authority))
    ]_lifecycleVars

\* A route of the table forwards to its own egress transport: the listeners of
\* its binding send to the channel of the worker that the pool keeps for it.
\* route_table.rs promises it for "routes that share authorities but are backed
\* by different transport instances" too.
RoutesForwardToTheirTransport ==
  pc = "idle" => \A r \in routes :
    /\ BindingKey(r) \in DOMAIN bindings
    /\ r.egress_transport \in DOMAIN workers
    /\ bindings[BindingKey(r)].listener.sender = workers[r.egress_transport].sender

\* Nothing is forwarded without a route: a listener still registered between
\* requests feeds the egress transport of some route of the table, unless a
\* transport refused to unregister it.
NoForwardingWithoutRoute ==
  pc = "idle" => \A e \in listeners \ stranded : \E r \in routes :
    /\ e.transport = r.ingress_transport
    /\ e.filter.source.authority_name = r.ingress_authority
    /\ loops[e.listener.sender] = r.egress_transport

\* A worker that has left the pool stops: data_plane/mod.rs says that deleting
\* routes "drops ingress listeners and egress workers".
DetachedWorkersStop ==
  \A c \in Senders :
    (c \in DOMAIN loops /\ \A t \in DOMAIN workers : workers[t].sender # c)
      ~> c \notin DOMAIN loops

\* A request takes effect when it is answered: a route being added is not active
\* yet, one being deleted still is.
Active ==
  IF pc \in {"attach", "register", "registering"}
    THEN routes \ {Route}
    ELSE IF pc \in {"detach", "unregister", "unregistering"}
      THEN routes \cup {Route}
      ELSE routes

\* UStreamer keeps RouteContract's promise.
Contract ==
  INSTANCE RouteContract WITH
    Key        <- RouteKey,
    AddMayFail <- "register" \in FailingCalls,
    active     <- Active

\* Each request appears atomic to the caller and is eventually answered.
ImplementsContract == Contract!Spec

=============================================================================
