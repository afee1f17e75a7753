---------------------- MODULE MCStaticFileSubscription -----------------------
(* StaticFileSubscription with a file whose topics differ in the resource     *)
(* only, one with malformed parts, an empty one, and no usable file.          *)
EXTENDS StaticFileSubscription, TLC

uri(a, res) ==
  [authority_name |-> a, ue_id |-> 1, ue_version_major |-> 1, resource_id |-> res]

entry(topic, subscribers) == [topic |-> topic, subscribers |-> subscribers]

twoResources ==
  { entry(uri("A", 32769), {uri("B", 0), uri("C", 0)}), entry(uri("A", 32770), {uri("D", 0)}),
    entry(uri("B", 32770), {uri("C", 0)}) }

partlyMalformed ==
  { entry(Missing, {uri("B", 0)}), entry(uri("A", 32769), NotAList),
    entry(uri("A", 32771), {Missing, uri("B", 0)}) }

MCFileContents == {twoResources, partlyMalformed, {}, Missing}

\* The version of the second request is over 8 bits.
MCTopics ==
  { Missing, [uri("A", 65535) EXCEPT !.ue_version_major = 257] }

CallerSymmetry == Permutations(Callers)

=============================================================================
