------------------------- MODULE MCStreamerStartup ---------------------------
(* StreamerStartup with the shipped configuration of three endpoints on two   *)
(* transports, with each way of getting it wrong, and the two fixed shapes.   *)
EXTENDS StreamerStartup

CONSTANTS zenoh, mqtt, someip

uri(a, res) ==
  [authority_name |-> a, ue_id |-> 1, ue_version_major |-> 1, resource_id |-> res]

row1 == [topic |-> uri("A", 32769), subscriber |-> uri("B", 0)]
row2 == [topic |-> uri("A", 32770), subscriber |-> uri("*", 0)]

MCResponses ==
  { {}, {row1}, {row1, row2},
    {[row1 EXCEPT !.topic = Missing]}, {row2, [row1 EXCEPT !.subscriber = Missing]} }

endpoint(name, a, t, forwarding) ==
  [name |-> name, authority |-> a, transport |-> t, forwarding |-> forwarding]

shipped(program) ==
  [ program |-> program, mode |-> "static_file", message_queue_size |-> 2,
    endpoints |-> << endpoint("z1", "B", zenoh, <<"m1", "z2">>),
                     endpoint("z2", "C", zenoh, <<"z1">>),
                     endpoint("m1", "A", mqtt, <<"z1">>) >> ]

fixed(program, first, second) ==
  [ program |-> program, mode |-> "static_file", message_queue_size |-> 2,
    endpoints |-> << endpoint("host", first, zenoh, <<"device">>),
                     endpoint("device", second, someip, <<"host">>) >> ]

wrong(c) ==
  { [c EXCEPT !.mode = "live_usubscription"],
    [c EXCEPT !.message_queue_size = 0],
    [c EXCEPT !.endpoints[3].name = "z1"],
    [c EXCEPT !.endpoints[2].forwarding = <<"m2">>],
    [c EXCEPT !.endpoints[3].forwarding = <<"z1", "z1">>],
    [c EXCEPT !.endpoints[2].authority = "B"] }

sameIdentity ==
  [shipped("configurable") EXCEPT
     !.endpoints = Append(@, endpoint("m3", "A", mqtt, <<"z1">>))]

sameName ==
  [shipped("configurable") EXCEPT
     !.endpoints = Append(@, endpoint("m1", "C", mqtt, << >>))]

MCConfigs ==
  {shipped("configurable"), shipped("embedder"), sameIdentity, sameName}
    \cup wrong(shipped("configurable"))
    \cup {fixed(p, "A", s) : p \in {"zenoh_someip", "plugin"}, s \in {"A", "B"}}

MCEndpoints ==
  {[authority |-> a, transport |-> t] : a \in {"A", "B", "C"}, t \in {zenoh, mqtt, someip}}

=============================================================================
