--------------------------- MODULE StreamerStartup ---------------------------
(***************************************************************************)
(* From a configuration to a running streamer: the configurable streamer,  *)
(* the zenoh_someip example, the Zenoh router plugin, and an application   *)
(* that embeds the crate and refreshes subscriptions as it likes.  They    *)
(* all read a configuration, create a UStreamer (which bootstraps its      *)
(* subscriptions), build transports, name their endpoints, add one route   *)
(* per forwarding rule in order, and give up at the first error.           *)
(*                                                                         *)
(* A configuration lists its endpoints with the names each forwards to.    *)
(* The two programs with fixed endpoints have configurations of a fixed    *)
(* shape.  UStreamer is composed from SubscriptionSync and, for routes,    *)
(* its contract.                                                           *)
(***************************************************************************)
EXTENDS SubscriptionSync, RouteIdentity

CONSTANT Configs

Programs == {"configurable", "zenoh_someip", "plugin", "embedder"}

EndpointConfig ==
  [name : STRING, authority : STRING, transport : Transports, forwarding : Seq(STRING)]

ASSUME ConfigsAssumption ==
  \A c \in Configs :
    /\ DOMAIN c = {"program", "mode", "message_queue_size", "endpoints"}
    /\ c.program \in Programs
    /\ c.mode \in {"static_file", "live_usubscription"}
    /\ c.message_queue_size \in Nat
    /\ c.endpoints \in Seq(EndpointConfig)

\* The contract of add_route, in which a transport may refuse a listener.
Endpoint(e) == [authority |-> e.authority, transport |-> e.transport]

VARIABLES
  config,      \* the configuration of this start
  phase,       \* how far it has come
  endpoints,   \* names of the endpoints built so far, with the endpoints
  at,          \* the endpoint of the configuration being registered or wired
  target,      \* which of its forwarding targets is being wired
  fault,       \* history: something outside the configuration went wrong
  active, request, reply   \* routes, as RouteContract has them

Contract == INSTANCE RouteContract WITH Key <- RouteKey, AddMayFail <- TRUE

contractVars == <<active, request, reply>>
wiringVars == <<endpoints, at, target>>
startupVars == <<syncVars, config, phase, wiringVars, fault, contractVars>>

StartupInit ==
  /\ SyncInit
  /\ config \in Configs
  /\ phase = "config"
  /\ endpoints = << >> /\ at = 1 /\ target = 1
  /\ fault = FALSE
  /\ Contract!Init

Current == config.endpoints[at]

\* An error leaves main, or the plugin's run, and takes the streamer with it.
GiveUp(byFault) ==
  /\ phase' = "failed"
  /\ fault' = byFault
  /\ active' = {} /\ request' = Contract!NoRequest /\ reply' = "none"
  /\ UNCHANGED <<syncVars, config, wiringVars>>

Reach(next) == phase' = next /\ UNCHANGED <<config, fault>>

-----------------------------------------------------------------------------
\* Only one of the two provider modes exists.
LoadConfig ==
  /\ phase = "config"
  /\ IF config.mode = "static_file"
       THEN Reach("bootstrap") /\ UNCHANGED <<syncVars, wiringVars, contractVars>>
       ELSE GiveUp(FALSE)

\* A file is missing or does not parse, or a transport cannot be built.
EnvironmentFails == phase \in {"config", "transports"} /\ GiveUp(TRUE)

\* Variant: UStreamer::new passes on the error of its first refresh.
BootstrapFatal ==
  /\ phase = "bootstrap"
  /\ \/ SyncNext /\ health'.last_attempt_succeeded /\ Reach("transports")
        /\ UNCHANGED <<wiringVars, contractVars>>
     \/ GiveUp(FALSE)

\* UStreamer::new: whatever the first refresh returns, the start goes on.
Bootstrap ==
  /\ phase = "bootstrap"
  /\ SyncNext
  /\ Reach("transports")
  /\ UNCHANGED <<wiringVars, contractVars>>

BuildTransports ==
  /\ phase = "transports"
  /\ Reach("endpoints")
  /\ UNCHANGED <<syncVars, wiringVars, contractVars>>

\* Variant: an endpoint of a name already taken replaces the earlier one.
RegisterEndpointReplacing ==
  /\ phase = "endpoints" /\ at <= Len(config.endpoints)
  /\ endpoints' = [n \in DOMAIN endpoints \cup {Current.name} |->
                     IF n = Current.name THEN Endpoint(Current) ELSE endpoints[n]]
  /\ at' = at + 1
  /\ UNCHANGED <<syncVars, config, phase, target, fault, contractVars>>

\* register_transport_endpoints, one turn of its loop.
RegisterEndpoint ==
  /\ phase = "endpoints" /\ at <= Len(config.endpoints)
  /\ \/ /\ Current.name \notin DOMAIN endpoints
        /\ endpoints' = [n \in DOMAIN endpoints \cup {Current.name} |->
                           IF n = Current.name THEN Endpoint(Current) ELSE endpoints[n]]
        /\ at' = at + 1
        /\ UNCHANGED <<syncVars, config, phase, target, fault, contractVars>>
     \/ Current.name \in DOMAIN endpoints /\ GiveUp(FALSE)

EndpointsRegistered ==
  /\ phase = "endpoints" /\ at > Len(config.endpoints)
  /\ at' = 1
  /\ Reach("wire")
  /\ UNCHANGED <<syncVars, endpoints, target, contractVars>>

-----------------------------------------------------------------------------
\* wire_forwarding_rules: its two loops, and the await in the inner one.
Idle == request = Contract!NoRequest /\ reply = "none"

NextEndpoint ==
  /\ phase = "wire" /\ at <= Len(config.endpoints)
  /\ Idle /\ target > Len(Current.forwarding)
  /\ at' = at + 1 /\ target' = 1
  /\ UNCHANGED <<syncVars, config, phase, endpoints, fault, contractVars>>

HasRule ==
  /\ phase = "wire" /\ at <= Len(config.endpoints)
  /\ target <= Len(Current.forwarding)

RuleTarget == Current.forwarding[target]

AddRoute ==
  /\ HasRule /\ Idle
  /\ RuleTarget \in DOMAIN endpoints
  /\ Contract!Submit([op |-> "add", in |-> endpoints[Current.name],
                      out |-> endpoints[RuleTarget]])
  /\ UNCHANGED <<syncVars, config, phase, wiringVars, fault>>

\* Variant: a rule with an unknown target is skipped, but not stepped over.
UnknownTargetSkipped ==
  /\ HasRule /\ Idle
  /\ RuleTarget \notin DOMAIN endpoints
  /\ UNCHANGED startupVars

UnknownTarget ==
  /\ HasRule /\ Idle
  /\ RuleTarget \notin DOMAIN endpoints
  /\ GiveUp(FALSE)

\* The worker of the first route is what allocates a channel, and a channel of
\* no capacity panics.
Panics ==
  /\ config.message_queue_size = 0
  /\ request.in.authority # request.out.authority

AddRouteReturns ==
  /\ phase = "wire" /\ request # Contract!NoRequest
  /\ ~Panics
  /\ Contract!Add
  /\ fault' = (fault \/ (reply' # "OK" /\ request.in.authority # request.out.authority
                         /\ RouteKey(request.in, request.out) \notin active))
  /\ UNCHANGED <<syncVars, config, phase, wiringVars>>

AddRoutePanics ==
  /\ phase = "wire" /\ request # Contract!NoRequest
  /\ Panics
  /\ GiveUp(fault)

NextTarget ==
  /\ target' = target + 1
  /\ reply' = "none"
  /\ UNCHANGED <<syncVars, config, phase, endpoints, at, fault, active, request>>

\* Variant: only the log tells of a refused route.
ReplyReceivedUnchecked == HasRule /\ reply # "none" /\ NextTarget

ReplyReceived ==
  /\ HasRule /\ reply # "none"
  /\ IF reply = "OK" THEN NextTarget ELSE GiveUp(fault)

\* "READY streamer_initialized"
Ready ==
  /\ phase = "wire" /\ at > Len(config.endpoints)
  /\ Reach("ready")
  /\ UNCHANGED <<syncVars, wiringVars, contractVars>>

-----------------------------------------------------------------------------
\* Of the programs, none calls refresh_subscriptions again.
Refresh ==
  /\ phase = "ready" /\ config.program = "embedder"
  /\ SyncNext
  /\ UNCHANGED <<config, phase, wiringVars, fault, contractVars>>

Stopped ==
  /\ phase' = "stopped"
  /\ active' = {} /\ request' = Contract!NoRequest /\ reply' = "none"
  /\ UNCHANGED <<syncVars, config, wiringVars, fault>>

\* The signal a started program waits for.
ShutdownSignal == phase = "ready" /\ Stopped

\* Dropping the RunningPlugin clears the flag its loop polls and shuts down the
\* runtime of its run, wherever that is.
DropPlugin == config.program = "plugin" /\ phase \notin {"failed", "stopped"} /\ Stopped

Progress ==
  \/ LoadConfig \/ Bootstrap \/ BuildTransports \/ RegisterEndpoint
  \/ EndpointsRegistered \/ NextEndpoint \/ AddRoute \/ UnknownTarget
  \/ AddRouteReturns \/ AddRoutePanics \/ ReplyReceived \/ Ready

StartupNext == Progress \/ EnvironmentFails \/ Refresh \/ ShutdownSignal \/ DropPlugin

\* A start does not stop of itself between two of its steps: the calls it
\* awaits come back.
StartupSpec == StartupInit /\ [][StartupNext]_startupVars /\ WF_startupVars(Progress)

-----------------------------------------------------------------------------
Names(c) == {c.endpoints[i].name : i \in DOMAIN c.endpoints}

\* A forwarding rule is a place in the configuration.
Rules(c) ==
  UNION {{<<i, j>> : j \in DOMAIN c.endpoints[i].forwarding} : i \in DOMAIN c.endpoints}

From(c, r) == Endpoint(c.endpoints[r[1]])

Targets(c, r) ==
  {Endpoint(c.endpoints[i]) :
     i \in {j \in DOMAIN c.endpoints :
              c.endpoints[j].name = c.endpoints[r[1]].forwarding[r[2]]}}

\* The routes a configuration asks for.
RoutesAskedFor(c) == UNION {{RouteKey(From(c, r), e) : e \in Targets(c, r)} : r \in Rules(c)}

NamesAreUnique(c) ==
  \A i, j \in DOMAIN c.endpoints : c.endpoints[i].name = c.endpoints[j].name => i = j

\* What CONFIG.json5 and the route contract ask of a configuration.
Sound(c) ==
  /\ c.mode = "static_file"
  /\ NamesAreUnique(c)
  /\ \A r \in Rules(c) :
       /\ Targets(c, r) # {}
       /\ \A e \in Targets(c, r) : e.authority # From(c, r).authority
       /\ c.message_queue_size > 0
  /\ \A r, s \in Rules(c) : \A e \in Targets(c, r), f \in Targets(c, s) :
       RouteKey(From(c, r), e) = RouteKey(From(c, s), f) => r = s

StartupTypeOK ==
  /\ SyncTypeOK
  /\ config \in Configs
  /\ phase \in {"config", "bootstrap", "transports", "endpoints", "wire", "ready",
                "failed", "stopped"}
  /\ DOMAIN endpoints \subseteq Names(config)
  /\ at \in Nat \ {0} /\ target \in Nat \ {0}
  /\ fault \in BOOLEAN

\* READY is said with every forwarding rule in force and no other route.
ReadyMeansWired == phase = "ready" => active = RoutesAskedFor(config)

\* A streamer becomes ready only on a configuration whose names are unique,
\* whose targets exist and whose rules are routes of their own
\* (CONFIG.json5: "or the streamer will not start").
OnlySoundConfigsStart == phase = "ready" => Sound(config)

\* A start of a sound configuration fails only through the environment: neither
\* the bootstrap's outcome nor the order of the rules can make it fail.
SoundConfigsStart == phase = "failed" /\ ~fault => ~Sound(config)

\* A start comes to an end, with the streamer ready or given up.
StartupEnds == <>(phase \in {"ready", "failed", "stopped"})

=============================================================================
