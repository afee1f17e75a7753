---------------------------- MODULE RouteContract ----------------------------
(***************************************************************************)
(* What UStreamer promises its caller about routes: every request is       *)
(* answered, takes effect at one instant, and changes the set of active    *)
(* routes exactly when the answer is OK.  add_route may also fail because  *)
(* a transport refuses a listener; then nothing has changed.               *)
(***************************************************************************)
CONSTANTS
  Endpoints,
  Key(_, _),       \* identity of the route between two endpoints
  AddMayFail       \* whether transports may refuse listeners

VARIABLES
  active,          \* routes in force
  request,         \* the request being served, or NoRequest
  reply            \* the answer to the last request

NoRequest == [op |-> "none"]

Request == [op : {"add", "delete"}, in : Endpoints, out : Endpoints]

Init == active = {} /\ request = NoRequest /\ reply = "none"

Submit(q) == request = NoRequest /\ request' = q /\ reply' = "none" /\ UNCHANGED active

Answer(code) == request' = NoRequest /\ reply' = code

Add ==
  LET r == Key(request.in, request.out)
  IN  /\ request # NoRequest /\ request.op = "add"
      /\ IF request.in.authority = request.out.authority
           THEN Answer("INVALID_ARGUMENT") /\ UNCHANGED active
           ELSE IF r \in active
             THEN Answer("ALREADY_EXISTS") /\ UNCHANGED active
             ELSE \/ Answer("OK") /\ active' = active \cup {r}
                  \/ AddMayFail /\ Answer("INVALID_ARGUMENT") /\ UNCHANGED active

Delete ==
  LET r == Key(request.in, request.out)
  IN  /\ request # NoRequest /\ request.op = "delete"
      /\ IF request.in.authority = request.out.authority
           THEN Answer("INVALID_ARGUMENT") /\ UNCHANGED active
           ELSE IF r \in active
             THEN Answer("OK") /\ active' = active \ {r}
             ELSE Answer("NOT_FOUND") /\ UNCHANGED active

Next == (\E q \in Request : Submit(q)) \/ Add \/ Delete

\* What the caller is never told or shown.
Safety == Init /\ [][Next]_<<active, request, reply>>

\* Every request is answered.
Spec == Safety /\ WF_<<active, request, reply>>(Add \/ Delete)

=============================================================================
