----------------------------- MODULE EgressPool -----------------------------
(***************************************************************************)
(* EgressRoutePool: one refcounted worker per egress transport.            *)
(*                                                                         *)
(* A worker is a broadcast channel and a dispatch loop that receives from  *)
(* it.  The pool keeps a sender and the loop's join handle; dropping the   *)
(* handle detaches the task, so a loop that has left the pool runs on      *)
(* until every other sender of its channel is dropped as well.             *)
(***************************************************************************)
EXTENDS RouteIdentity, Functions

VARIABLES
  workers,   \* HashMap<TransportIdentityKey, EgressRouteBinding>
  loops      \* channel of a running dispatch loop |-> transport it sends to

poolVars == <<workers, loops>>

PoolInit == workers = << >> /\ loops = << >>

\* attach_route finds a worker for the transport.
ReuseWorker(t) ==
  /\ t \in DOMAIN workers
  /\ workers' = [workers EXCEPT ![t].ref_count = @ + 1]
  /\ UNCHANGED loops

\* spawn_route_dispatch_loop: a task or a thread that no one joins.
SpawnLoop(t, c) ==
  loops' = [x \in DOMAIN loops \cup {c} |-> IF x = c THEN t ELSE loops[x]]

\* Variant: a worker is built whether or not the transport has one.
CreateWorkerAnew(t, c) ==
  /\ workers' = [x \in DOMAIN workers \cup {t} |->
                   IF x = t THEN [ref_count |-> 1, sender |-> c] ELSE workers[x]]
  /\ SpawnLoop(t, c)

\* attach_route builds the channel c and spawns its worker.
CreateWorker(t, c) ==
  /\ t \notin DOMAIN workers
  /\ workers' = [x \in DOMAIN workers \cup {t} |->
                   IF x = t THEN [ref_count |-> 1, sender |-> c] ELSE workers[x]]
  /\ SpawnLoop(t, c)

\* Variant: the worker stays in the pool when its last route leaves.
DetachRouteKeepsWorker(t) ==
  /\ t \in DOMAIN workers
  /\ workers' = [workers EXCEPT ![t].ref_count = @ - 1]
  /\ UNCHANGED loops

\* detach_route: the binding is dropped, and with it the pool's sender, when the
\* count reaches zero.
DetachRoute(t) ==
  /\ t \in DOMAIN workers
  /\ workers' = IF workers[t].ref_count = 1
                  THEN Restrict(workers, DOMAIN workers \ {t})
                  ELSE [workers EXCEPT ![t].ref_count = @ - 1]
  /\ UNCHANGED loops

\* route_dispatch_loop receives Closed: no sender of its channel is left.
StopLoop(c) ==
  /\ c \in DOMAIN loops
  /\ loops' = Restrict(loops, DOMAIN loops \ {c})
  /\ UNCHANGED workers

=============================================================================
