------------------------ MODULE MCCriterionGuardrail -------------------------
(* CriterionGuardrail with floats of five significant bits, of which a unit is *)
(* the 64th part of 1.0, and trees that differ in one file from one in which   *)
(* every benchmark keeps its time: beyond a threshold, at one that rounding    *)
(* misses, twice as slow, with an even number of samples, with the older       *)
(* layout alone or beside the direct one, missing, broken, not positive,       *)
(* infinite or no number.                                                      *)
EXTENDS CriterionGuardrail

MCOne == 64
MCMax == 31 * 512      \* 248.0
MCInf == 2 * MCMax
MCNanosPerSecond == 128 * MCOne

MCFinite == UNION {{s * 2^e, -(s * 2^e)} : s \in 0..31, e \in 0..9}

\* The nearest number of five bits, the even one of two.
MCRound(n, d) ==
  LET size == IF n < 0 THEN -n ELSE n
      whole == size \div d
      step == CHOOSE u \in {2^e : e \in 0..16} :
                whole < 32 * u /\ (u = 1 \/ whole >= 16 * u)
      down == whole \div step
      rest == size - down * step * d
      up == 2 * rest > step * d \/ (2 * rest = step * d /\ down % 2 = 1)
      nearest == (IF up THEN down + 1 ELSE down) * step
      result == IF nearest > MCMax THEN MCInf ELSE nearest
  IN  IF n < 0 THEN -result ELSE result

\* The rounding of this instance is one that VerdictIsRight may rest on.
ASSUME RoundingAssumption ==
  RoundsLikeF64({0, 1, -1, 2, 3, -7, 31, 33, 63, -64, 127, 6400, 7000, -7168,
                 MCMax, -MCMax, MCMax + 255, MCMax + 256, 40000})

\* Rows in units and in wholes.
sample(m, n) == [measured_value |-> m, iteration_count |-> n, nan |-> NaN]
once(time) == sample(time * One, One)

file(id, name, direct, samples) ==
  [id |-> id, name |-> name, direct |-> direct, samples |-> samples]

steady == << once(104), once(100), once(96) >>

base == {file(id, n, TRUE, steady) : id \in Required, n \in Names}

at(time) == << once(time), once(80), sample((time * One) \div 2, One \div 2) >>

\* Rows that are no numbers, on either end of the order.
strange(time) == << once(time), sample(0, Inf), sample(Inf, One) >>
noNumber(sign) == [sample(0, NaN) EXCEPT !.nan = sign]

\* The mean of the two in the middle is 108, and 120 is beyond a threshold.
even == << once(120), once(96) >>
four == << once(128), once(120), once(96), once(80) >>

unjudged ==
  {at(0), at(-1), << >>, Malformed, << sample(One, 0) >>, << sample(One, -Inf) >>,
   << sample(Inf, One) >>, << sample(Inf, Inf) >>, << sample(-Inf, One) >>, << sample(1, One) >>,
   << noNumber(NaN) >>, << once(100), noNumber(-NaN), sample(0, NaN) >>}

\* From 100 to 112 is 12 percent, and 12.5 as computed.
candidates ==
  unjudged \cup
  {at(104), at(112), at(120), at(200), even, four, strange(112),
   << once(100), noNumber(NaN), once(128) >>, << once(100), noNumber(-NaN), once(128) >>}

change(id, name, direct, samples) ==
  (base \ {file(id, name, TRUE, steady)}) \cup {file(id, name, direct, samples)}

latencyId == <<"routing_lookup", "exact_authority">>
allocId == <<"publish_resolution", "source_filter_derivation">>
throughputId == <<"egress_forwarding", "single_route_dispatch">>

MCTrees ==
  {change(id, "candidate", TRUE, s) : id \in {latencyId, allocId, throughputId}, s \in candidates}
    \cup {change(id, "baseline", TRUE, s) : id \in {latencyId, throughputId}, s \in unjudged}
    \cup {change(latencyId, "candidate", FALSE, s) : s \in {even, at(120)}}
    \cup {base \cup {file(latencyId, n, FALSE, at(200))} : n \in Names}
    \cup {base \ {file(throughputId, n, TRUE, steady)} : n \in Names}

\* Relative to the candidate, the delta of a doubled time would be within 60 percent.
MCThresholds == [throughput |-> 3 * MCOne, latency |-> 12 * MCOne, alloc_proxy |-> 60 * MCOne]

=============================================================================
