--------------------------- MODULE EgressDispatch ---------------------------
(***************************************************************************)
(* The message path of one egress worker: on_receive callbacks of the      *)
(* listeners that feed it, its tokio broadcast channel, and its dispatch   *)
(* loop, from the worker's creation by attach_route to the loop's end.     *)
(*                                                                         *)
(* The channel is tokio's (external): a ring of the next power of two      *)
(* slots, shared by all senders, that overwrites its oldest message when   *)
(* full; the one receiver keeps a position and learns of overwritten       *)
(* messages through Lagged.  Here the log of all accepted messages stands  *)
(* for the ring, whose content is the log's end.                           *)
(*                                                                         *)
(* Several listeners share the worker and come and go with their routes;   *)
(* the pool's own sender goes first when the last route is deleted.        *)
(***************************************************************************)
EXTENDS Naturals, Sequences, FiniteSets

CONSTANTS
  Listeners,          \* listeners that may be made for this worker
  Messages,           \* messages the ingress transports receive, one arrival each
  ShmMessages,        \* those with a shared-memory payload
  MessageQueueSize    \* UStreamer::new's message_queue_size

\* message_queue_size is a u16; broadcast::channel panics on zero.
ASSUME DispatchAssumption ==
  /\ MessageQueueSize \in 1..65535
  /\ ShmMessages \subseteq Messages

VARIABLES
  pooled,       \* whether the pool still holds the worker's binding
  unmade,       \* listeners not made yet
  registered,   \* listeners registered with their transports
  callbacks,    \* on_receive calls running: [listener, msg]
  arrived,      \* messages that have been received
  accepted,     \* the log of messages sent into the channel
  position,     \* the receiver's position in the log
  worker,       \* the dispatch loop: "receiving", "sending" or "stopped"
  forwarded,    \* messages handed to out_transport.send
  refused       \* messages whose sender.send returned Err

vars == <<pooled, unmade, registered, callbacks, arrived, accepted, position,
          worker, forwarded, refused>>

PowersOfTwo == {1, 2, 4, 8, 16, 32, 64, 128, 256, 512, 1024, 2048, 4096, 8192,
                16384, 32768, 65536}

\* tokio rounds the requested capacity up to a power of two.
Capacity == CHOOSE c \in PowersOfTwo : c >= MessageQueueSize /\ c < 2 * MessageQueueSize

LogEnd == Len(accepted)

\* The position of the oldest message the ring still holds.
Oldest == IF LogEnd > Capacity THEN LogEnd - Capacity ELSE 0

\* Whether any Sender is alive: the pool's, or that of a listener which a
\* transport or a running callback keeps.
Open == pooled \/ registered # {} \/ callbacks # {}

Init ==
  /\ pooled = TRUE
  /\ unmade = Listeners
  /\ registered = {}
  /\ callbacks = {}
  /\ arrived = {}
  /\ accepted = << >>
  /\ position = 0
  /\ worker = "receiving"
  /\ forwarded = << >>
  /\ refused = {}

-----------------------------------------------------------------------------
\* register_route makes a listener around the worker's sender and registers it;
\* its route is attached, so the pool holds the worker.
RegisterListener(l) ==
  /\ pooled
  /\ l \in unmade
  /\ unmade' = unmade \ {l}
  /\ registered' = registered \cup {l}
  /\ UNCHANGED <<pooled, callbacks, arrived, accepted, position, worker, forwarded, refused>>

\* The transport drops its registration; running callbacks keep the listener.
UnregisterListener(l) ==
  /\ l \in registered
  /\ registered' = registered \ {l}
  /\ UNCHANGED <<pooled, unmade, callbacks, arrived, accepted, position, worker,
                 forwarded, refused>>

\* detach_route drops the pool's binding.  Listeners may outlive it: remove_route
\* unregisters after it detaches, and a transport may refuse to unregister.
DetachWorker ==
  /\ pooled
  /\ pooled' = FALSE
  /\ UNCHANGED <<unmade, registered, callbacks, arrived, accepted, position, worker,
                 forwarded, refused>>

\* A transport invokes on_receive of a registered listener.
BeginReceive(l, m) ==
  /\ l \in registered
  /\ m \notin arrived
  /\ arrived' = arrived \cup {m}
  /\ callbacks' = callbacks \cup {[listener |-> l, msg |-> m]}
  /\ UNCHANGED <<pooled, unmade, registered, accepted, position, worker, forwarded, refused>>

\* Variant: a shared-memory payload is sent like any other.
FinishReceiveShm(cb) ==
  /\ callbacks' = callbacks \ {cb}
  /\ IF worker # "stopped"
       THEN accepted' = Append(accepted, cb.msg) /\ UNCHANGED refused
       ELSE refused' = refused \cup {cb.msg} /\ UNCHANGED accepted
  /\ UNCHANGED <<pooled, unmade, registered, arrived, position, worker, forwarded>>

\* on_receive: a shared-memory payload is dropped; anything else is sent into the
\* channel, which fails only when the channel has no receiver.
FinishReceive(cb) ==
  /\ callbacks' = callbacks \ {cb}
  /\ IF cb.msg \in ShmMessages
       THEN UNCHANGED <<accepted, refused>>
       ELSE IF worker # "stopped"
         THEN accepted' = Append(accepted, cb.msg) /\ UNCHANGED refused
         ELSE refused' = refused \cup {cb.msg} /\ UNCHANGED accepted
  /\ UNCHANGED <<pooled, unmade, registered, arrived, position, worker, forwarded>>

\* recv() is Ok(msg): the loop calls out_transport.send.
RecvMessage ==
  /\ worker = "receiving"
  /\ position >= Oldest
  /\ position < LogEnd
  /\ forwarded' = Append(forwarded, accepted[position + 1])
  /\ position' = position + 1
  /\ worker' = "sending"
  /\ UNCHANGED <<pooled, unmade, registered, callbacks, arrived, accepted, refused>>

\* out_transport.send returns; an Err is logged and otherwise ignored.
FinishSend ==
  /\ worker = "sending"
  /\ worker' = "receiving"
  /\ UNCHANGED <<pooled, unmade, registered, callbacks, arrived, accepted, position,
                 forwarded, refused>>

\* Variant: after a lag the receiver starts over at the newest message.
RecvLaggedSkipsAll ==
  /\ worker = "receiving"
  /\ position < Oldest
  /\ position' = LogEnd
  /\ UNCHANGED <<pooled, unmade, registered, callbacks, arrived, accepted, worker,
                 forwarded, refused>>

\* recv() is Err(Lagged): the position moves to the oldest message left, and the
\* loop goes on.
RecvLagged ==
  /\ worker = "receiving"
  /\ position < Oldest
  /\ position' = Oldest
  /\ UNCHANGED <<pooled, unmade, registered, callbacks, arrived, accepted, worker,
                 forwarded, refused>>

\* Variant: the loop ends with its pool binding, whatever other senders remain.
RecvClosedWithPool ==
  /\ worker = "receiving"
  /\ position = LogEnd
  /\ ~pooled
  /\ worker' = "stopped"
  /\ UNCHANGED <<pooled, unmade, registered, callbacks, arrived, accepted, position,
                 forwarded, refused>>

\* Variant: the loop ends when the senders are gone, with messages left.
RecvClosedEarly ==
  /\ worker = "receiving"
  /\ ~Open
  /\ worker' = "stopped"
  /\ UNCHANGED <<pooled, unmade, registered, callbacks, arrived, accepted, position,
                 forwarded, refused>>

\* Variant: the loop takes Closed for a passing error and goes on.
RecvClosedContinues ==
  /\ worker = "receiving"
  /\ position = LogEnd
  /\ ~Open
  /\ UNCHANGED vars

\* recv() is Err(Closed): nothing is left in the ring and no sender is alive.
RecvClosed ==
  /\ worker = "receiving"
  /\ position = LogEnd
  /\ ~Open
  /\ worker' = "stopped"
  /\ UNCHANGED <<pooled, unmade, registered, callbacks, arrived, accepted, position,
                 forwarded, refused>>

DispatchLoop == RecvMessage \/ FinishSend \/ RecvLagged \/ RecvClosed

Next ==
  \/ \E l \in Listeners : \/ RegisterListener(l) \/ UnregisterListener(l)
                          \/ \E m \in Messages : BeginReceive(l, m)
  \/ DetachWorker
  \/ \E cb \in callbacks : FinishReceive(cb)
  \/ DispatchLoop

Spec == Init /\ [][Next]_vars

\* The runtime polls the loop and every callback, and out_transport.send returns.
\* Nothing makes a route be deleted or a message arrive.
Fairness ==
  /\ WF_vars(DispatchLoop)
  /\ \A cb \in [listener : Listeners, msg : Messages] :
       WF_vars(cb \in callbacks /\ FinishReceive(cb))

LiveSpec == Spec /\ Fairness

-----------------------------------------------------------------------------
TypeOK ==
  /\ pooled \in BOOLEAN
  /\ unmade \subseteq Listeners
  /\ registered \subseteq Listeners \ unmade
  /\ callbacks \subseteq [listener : Listeners, msg : Messages]
  /\ arrived \subseteq Messages
  /\ accepted \in Seq(Messages \ ShmMessages)
  /\ position \in 0..LogEnd
  /\ worker \in {"receiving", "sending", "stopped"}
  /\ forwarded \in Seq(Messages \ ShmMessages)
  /\ refused \subseteq Messages

\* on_receive never reports "unable to send message to egress pool": while a
\* callback can still run, the loop that receives from its sender has not
\* stopped, although the pool has long dropped the worker.
NoSendIsRefused == refused = {}

\* A stopped loop leaves nothing behind: everything accepted was taken from the
\* channel, and no callback or listener can add to it any more.
StopsWithNothingLeft ==
  worker = "stopped" => /\ position = LogEnd
                        /\ ~Open

\* Where the receiver will read next, once it has learnt of a lag.
ReadFrom == IF position < Oldest THEN Oldest ELSE position

\* The loop's view of the channel as a bounded queue that gives up its oldest.
Queue ==
  INSTANCE DropOldestQueue WITH
    waiting <- SubSeq(accepted, ReadFrom + 1, LogEnd),
    state   <- IF worker = "stopped" THEN "stopped" ELSE "open"

\* The ring, its positions and Lagged implement that queue: messages are forwarded
\* in the order accepted, at most once, and are lost only when Capacity newer
\* ones have been accepted; what waits is eventually forwarded or displaced.
ImplementsQueue == Queue!Spec

\* Once the pool has let go of a worker and its listeners are unregistered, the
\* dispatch loop ends.
RetiredWorkerStops ==
  (~pooled /\ registered = {}) ~> worker = "stopped"

=============================================================================
