--------------------------- MODULE SmokeTemplates ----------------------------
(***************************************************************************)
(* The scenario table of the transport smoke suite: which three programs a *)
(* scenario starts and what it needs.  A program is named by its binary,   *)
(* which is also its signature in the stale-process check.  Arguments,     *)
(* environment, build commands and required paths are left out: preflight  *)
(* takes their checks as one that may fail.                                *)
(***************************************************************************)
EXTENDS Naturals, Sequences

Roles == {"streamer", "passive", "active"}

\* The order in which teardown ends the three programs.
TeardownOrder == <<"active", "passive", "streamer">>

\* A scenario over MQTT needs Docker for its broker.
MqttScenario(passive, active) ==
  [ family |-> "mqtt", requires_docker |-> TRUE, requires_vsomeip_runtime |-> FALSE,
    binary |-> [streamer |-> "configurable-streamer", passive |-> passive, active |-> active] ]

\* A scenario over SOME/IP needs the vsomeip library that the build left behind.
SomeipScenario(passive, active) ==
  [ family |-> "someip", requires_docker |-> FALSE, requires_vsomeip_runtime |-> TRUE,
    binary |-> [streamer |-> "zenoh_someip", passive |-> passive, active |-> active] ]

MqttRrZenohClientMqttService == MqttScenario("mqtt_service", "zenoh_client")
MqttRrMqttClientZenohService == MqttScenario("zenoh_service", "mqtt_client")
MqttPsZenohPublisherMqttSubscriber == MqttScenario("mqtt_subscriber", "zenoh_publisher")
MqttPsMqttPublisherZenohSubscriber == MqttScenario("zenoh_subscriber", "mqtt_publisher")
SomeipRrZenohClientSomeipService == SomeipScenario("someip_service", "zenoh_client")
SomeipRrSomeipClientZenohService == SomeipScenario("zenoh_service", "someip_client")
SomeipPsZenohPublisherSomeipSubscriber == SomeipScenario("someip_subscriber", "zenoh_publisher")
SomeipPsSomeipPublisherZenohSubscriber == SomeipScenario("zenoh_subscriber", "someip_publisher")

\* SCENARIO_IDS, the selection of a matrix run without --only.
scenario_ids ==
  << "mqtt-rr-zenoh-client-mqtt-service", "mqtt-rr-mqtt-client-zenoh-service",
     "mqtt-ps-zenoh-publisher-mqtt-subscriber", "mqtt-ps-mqtt-publisher-zenoh-subscriber",
     "someip-rr-zenoh-client-someip-service", "someip-rr-someip-client-zenoh-service",
     "someip-ps-zenoh-publisher-someip-subscriber", "someip-ps-someip-publisher-zenoh-subscriber" >>

Scenarios == {scenario_ids[i] : i \in 1..Len(scenario_ids)}

scenario_template(id) ==
  CASE id = scenario_ids[1] -> MqttRrZenohClientMqttService
    [] id = scenario_ids[2] -> MqttRrMqttClientZenohService
    [] id = scenario_ids[3] -> MqttPsZenohPublisherMqttSubscriber
    [] id = scenario_ids[4] -> MqttPsMqttPublisherZenohSubscriber
    [] id = scenario_ids[5] -> SomeipRrZenohClientSomeipService
    [] id = scenario_ids[6] -> SomeipRrSomeipClientZenohService
    [] id = scenario_ids[7] -> SomeipPsZenohPublisherSomeipSubscriber
    [] id = scenario_ids[8] -> SomeipPsSomeipPublisherZenohSubscriber

\* stale_process_signatures: in every template the binaries of its own programs.
Signatures(id) == {scenario_template(id).binary[role] : role \in Roles}

Binaries == UNION {Signatures(scenario) : scenario \in Scenarios}

=============================================================================
