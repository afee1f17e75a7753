---------------------------- MODULE MCSmokeMatrix ----------------------------
(* The same MQTT scenario twice and an MQTT scenario before a SOME/IP one that *)
(* shares a binary with it, with one good claims file and three bad ones.      *)
EXTENDS SmokeMatrix

mqtt == scenario_ids[1]
someip == scenario_ids[5]

MCSelections == {<<mqtt, mqtt>>, <<mqtt, someip>>}

delivered ==
  [ claim_id |-> "delivered", kind |-> "must_match", file |-> "passive",
    pattern |-> "request", threshold |-> Selector("endpoint_communication") ]

noPanic ==
  [ claim_id |-> "no_panic", kind |-> "must_not_match", file |-> "passive",
    pattern |-> "panic", threshold |-> NoThreshold ]

claimsFile(s, claims) ==
  [readable |-> TRUE, schema_version |-> "1.0", scenario_id |-> s, claims |-> claims]

MCClaimsFiles ==
  { claimsFile(mqtt, <<delivered, noPanic>>),
    claimsFile(someip, <<noPanic, delivered>>),
    claimsFile(mqtt, <<delivered, delivered>>),
    claimsFile(mqtt, <<[noPanic EXCEPT !.threshold = Fixed(1)]>>) }

MCPrints == {<<"passive", "request">>, <<"passive", "panic">>}

\* Only the sender's exit code is ever asked for.
MCEndings ==
  {<<"active", "exit0">>, <<"active", "exit1">>, <<"active", "killed">>,
   <<"passive", "exit0">>, <<"streamer", "killed">>}

MCThresholds == [endpoint_communication |-> 1]

=============================================================================
