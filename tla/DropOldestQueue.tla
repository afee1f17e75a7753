--------------------------- MODULE DropOldestQueue ---------------------------
(***************************************************************************)
(* What a worker promises to the listeners that feed it: messages leave in *)
(* the order in which they were accepted, at most once each, and one is    *)
(* given up only to make room for a newer one in a full queue, oldest      *)
(* first.  Once its users are gone the worker forwards what is left and    *)
(* stops for good.                                                         *)
(***************************************************************************)
EXTENDS Naturals, Sequences

CONSTANTS Messages, Capacity

VARIABLES
  waiting,    \* accepted and neither forwarded nor given up
  forwarded,  \* handed to the egress transport, in order
  state       \* "open", or "stopped" for good

Init == waiting = << >> /\ forwarded = << >> /\ state = "open"

Accept(m) ==
  /\ state = "open"
  /\ waiting' = Append(IF Len(waiting) = Capacity THEN Tail(waiting) ELSE waiting, m)
  /\ UNCHANGED <<forwarded, state>>

Forward ==
  /\ waiting # << >>
  /\ forwarded' = Append(forwarded, Head(waiting))
  /\ waiting' = Tail(waiting)
  /\ UNCHANGED state

Stop ==
  /\ state = "open" /\ waiting = << >>
  /\ state' = "stopped"
  /\ UNCHANGED <<waiting, forwarded>>

Next == (\E m \in Messages : Accept(m)) \/ Forward \/ Stop

\* What the queue never does.
Safety == Init /\ [][Next]_<<waiting, forwarded, state>>

\* Whatever waits is forwarded, or displaced by newer messages.
Spec == Safety /\ WF_<<waiting, forwarded, state>>(Forward)

=============================================================================
