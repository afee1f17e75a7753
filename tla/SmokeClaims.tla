----------------------------- MODULE SmokeClaims -----------------------------
(***************************************************************************)
(* The claims of a smoke scenario: loaded from a JSON file, judged on the  *)
(* logs of the scenario's programs.  A log counts, per pattern, the lines  *)
(* that match it.  A name or pattern that is empty after trimming is       *)
(* Blank; a pattern that Regex::new refuses is Unparsable.                 *)
(***************************************************************************)
EXTENDS Naturals, Sequences

CONSTANTS
  Blank,          \* an empty string
  Unparsable,     \* a pattern that is no regular expression
  Err,            \* the result of a load that fails
  thresholds      \* the counts from the command line, by selector

NoThreshold == [by |-> "none"]
Fixed(n) == [by |-> "fixed", value |-> n]
Selector(key) == [by |-> "selector", key |-> key]

\* validate_claim_entry
ValidateClaimEntry(entry) ==
  entry.claim_id # Blank /\ entry.file # Blank /\ entry.pattern \notin {Blank, Unparsable}

\* The two errors of resolve_file_claim_threshold: a must_match claim has a
\* threshold and a must_not_match claim has none.
ThresholdIsLegal(entry) == entry.kind = "must_match" <=> entry.threshold # NoThreshold

ResolveThreshold(threshold) ==
  CASE threshold.by = "selector" -> thresholds[threshold.key]
    [] threshold.by = "fixed"    -> threshold.value
    [] OTHER                     -> 0

\* materialize_claim_specs_from_file; it keeps the order of the file.
MaterializeClaimSpecs(entries) ==
  [ i \in DOMAIN entries |->
      [ claim_id |-> entries[i].claim_id, kind |-> entries[i].kind,
        file |-> entries[i].file, pattern |-> entries[i].pattern,
        min_count |-> ResolveThreshold(entries[i].threshold) ] ]

\* load_claims_for_scenario: nothing is loaded unless the whole file is right.
\* A path that resolve_claims_file_path refuses, a file that cannot be read and
\* text that is not of the expected shape are all a file with readable = FALSE.
LoadClaims(file, scenario) ==
  IF /\ file.readable
     /\ file.schema_version # Blank
     /\ file.scenario_id = scenario
     /\ Len(file.claims) > 0
     /\ \A i \in DOMAIN file.claims :
          /\ ValidateClaimEntry(file.claims[i])
          /\ ThresholdIsLegal(file.claims[i])
          /\ \A j \in 1..(i - 1) : file.claims[j].claim_id # file.claims[i].claim_id
    THEN MaterializeClaimSpecs(file.claims)
    ELSE Err

\* evaluate_claim: a log that cannot be read fails the claim, of either kind.
EvaluateClaim(claim, logs) ==
  /\ claim.file \in DOMAIN logs
  /\ IF claim.kind = "must_match"
       THEN logs[claim.file][claim.pattern] >= claim.min_count
       ELSE logs[claim.file][claim.pattern] = 0

EvaluateClaims(claims, logs) ==
  [ i \in DOMAIN claims |-> [ kind |-> claims[i].kind, pass |-> EvaluateClaim(claims[i], logs) ] ]

\* The third result of split_claim_outcomes, whether there is a first failure.
SomeClaimFailed(outcomes) == \E i \in DOMAIN outcomes : ~outcomes[i].pass

=============================================================================
