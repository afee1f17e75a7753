------------------------- MODULE MCPublishResolution -------------------------
(* PublishResolution on every subset of seven rows.  The rows make each      *)
(* branch meet each other: one topic under three authorities, two versions   *)
(* that differ only above the low eight bits, resources that differ only     *)
(* above the low sixteen, subscribers behind one authority, behind another   *)
(* and behind all of them.                                                   *)
EXTENDS PublishResolution

uri(a, v, res) ==
  [authority_name |-> a, ue_id |-> 1, ue_version_major |-> v, resource_id |-> res]

row(topic, a) == [topic |-> topic, subscriber |-> uri(a, 1, 0)]

MCRowUniverse ==
  { row(uri("A", 1, 32769), "B"),   row(uri("C", 1, 32769), "B"),
    row(uri("*", 257, 32769), "B"), row(uri("A", 257, 98305), "*"),
    row(uri("*", 2, 32769), "*"),   row(uri("A", 2, 32769), "C"),
    row(uri("bad host", 2, 32769), "B") }

MCRouteAuthorities == {"A", "B", "bad host"}

=============================================================================
