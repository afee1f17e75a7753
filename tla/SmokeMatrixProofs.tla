-------------------------- MODULE SmokeMatrixProofs --------------------------
(***************************************************************************)
(* What a PASS of a smoke scenario is worth, for every list of scenarios,  *)
(* claims file and behaviour of the programs.  The inductive invariant     *)
(* follows a run that has not failed so far through its phases and says    *)
(* what each of them has established; a run that has failed only has to    *)
(* keep its failure.                                                       *)
(***************************************************************************)
EXTENDS SmokeMatrix, TLAPS

\* The phases of a run after a certain point, all with no failure so far.
Judged == {"Teardown", "StopBroker", "FinalizeReport"}
Sent == Judged \cup {"ValidateClaims"}
Listening == Sent \cup {"StartActive", "WaitActive"}
Streaming == Listening \cup {"StartPassive", "WaitPassiveReady"}
Spawning == Streaming \cup {"StartStreamer", "WaitStreamerReady"}
Checked == Spawning \cup {"StartInfra", "PollBroker"}

\* The supervisor's view of a program lags behind it and is never wrong.
HandlesLag ==
  \A role \in Roles :
    /\ handle[role] = "none" <=> child[role] = "none"
    /\ handle[role] \in Ended => child[role] = handle[role]

ClaimsAreSound ==
  /\ loaded_claims # Err /\ DOMAIN loaded_claims # {}
  /\ \A i \in DOMAIN loaded_claims :
       loaded_claims[i].pattern \in Patterns \cup {Blank, Unparsable}
         /\ loaded_claims[i].pattern \notin {Blank, Unparsable}
         /\ loaded_claims[i].min_count \in Nat

\* What a run without failure has established, phase by phase.
Established ==
  failure_reason = "none" =>
    /\ phase \in Checked => ClaimsAreSound /\ Signatures(scenario) \cap leftover = {}
    /\ phase \in Spawning /\ Template.requires_docker => mqtt_broker_started
    /\ phase \in Streaming \cup {"WaitStreamerReady"} => handle["streamer"] # "none"
    /\ phase \in Streaming => ready["streamer"] = 1
    /\ phase \in Listening \cup {"WaitPassiveReady"} => handle["passive"] # "none"
    /\ phase \in Listening => ready["passive"] = 1
    /\ phase \in Sent => handle["active"] = "exit0"
    /\ phase \in Judged => MustClaimsHold
    /\ phase = "Teardown" => \A i \in 1..(turn - 1) : handle[TeardownOrder[i]] \in Ended
    /\ phase \in {"StopBroker", "FinalizeReport"} => \A role \in Roles : handle[role] \in Ended
    /\ phase = "FinalizeReport" /\ Template.requires_docker => ~broker

\* The evidence of a passed run, with the patterns that keep it stable.
PassedStays ==
  Passed => PassIsClean /\ PassIsEarned /\ ClaimsAreSound

SmokeInv == SmokeTypeOK /\ HandlesLag /\ Established /\ PassedStays

LEMMA OrderFacts ==
  /\ Len(TeardownOrder) = 3
  /\ TeardownOrder[1] = "active" /\ TeardownOrder[2] = "passive" /\ TeardownOrder[3] = "streamer"
  /\ Roles = {"active", "passive", "streamer"}
  /\ \A i \in 1..3 : TeardownOrder[i] \in Roles
BY DEF TeardownOrder, Roles

LEMMA ScenarioFacts == scenario_ids[1] \in Scenarios
<1>1. Len(scenario_ids) = 8
  BY DEF scenario_ids
<1>2. 1 \in 1..Len(scenario_ids)
  BY <1>1
<1>. QED
  BY <1>2 DEF Scenarios

LEMMA SmokeInitInv == Init => SmokeInv
<1>. SUFFICES ASSUME Init PROVE SmokeInv
  OBVIOUS
<1>. USE DEF Init, ScenarioInit
<1>1. SmokeTypeOK
  <2>1. log \in [Roles -> [Patterns -> 0..MaxLines]] /\ ready \in [Roles -> 0..1]
    BY MaxLinesAssumption
  <2>2. report \in [Scenarios -> {"none", "PASS", "FAIL"}] /\ scenario \in Scenarios
    BY ScenarioFacts
  <2>3. turn \in 1..Len(TeardownOrder)
    BY OrderFacts
  <2>4. phase \in Phases
    BY DEF Phases
  <2>5. child \in [Roles -> {"none", "running"} \cup Ended]
    OBVIOUS
  <2>6. handle \in [Roles -> {"none", "running"} \cup Ended]
    OBVIOUS
  <2>. QED
    BY <2>1, <2>2, <2>3, <2>4, <2>5, <2>6 DEF SmokeTypeOK
<1>2. HandlesLag
  BY DEF HandlesLag, Ended, Exited
<1>3. Established
  BY DEF Established, Checked, Spawning, Streaming, Listening, Sent, Judged
<1>4. PassedStays
  BY DEF PassedStays, Passed
<1>. QED
  BY <1>1, <1>2, <1>3, <1>4 DEF SmokeInv

(***************************************************************************)
(* Steps of the programs: logs grow, programs end, nothing comes back.     *)
(***************************************************************************)
LEMMA PrintReadyInv ==
  ASSUME SmokeInv, NEW role \in Roles, PrintReady(role)
  PROVE  SmokeInv'
<1>. USE DEF SmokeInv, PrintReady, runVars, brokerVars, reportVars
<1>1. SmokeTypeOK'
  BY DEF SmokeTypeOK
<1>2. HandlesLag'
  BY DEF HandlesLag
<1>3. Established'
  BY DEF Established, SmokeTypeOK, MustClaimsHold, ClaimsAreSound, Template
<1>4. PassedStays'
  BY DEF PassedStays, Passed, PassIsClean, PassIsEarned, SmokeTypeOK, MustClaimsHold,
         ClaimsAreSound, Template
<1>. QED
  BY <1>1, <1>2, <1>3, <1>4

LEMMA EndInv ==
  ASSUME SmokeInv, NEW role \in Roles, NEW how \in Ended, End(role, how)
  PROVE  SmokeInv'
<1>. USE DEF SmokeInv, End, runVars, brokerVars, reportVars
<1>1. SmokeTypeOK'
  BY DEF SmokeTypeOK
<1>2. HandlesLag'
  BY DEF HandlesLag, SmokeTypeOK, Ended, Exited
<1>3. Established'
  BY DEF Established, SmokeTypeOK, MustClaimsHold, ClaimsAreSound, Template
<1>4. PassedStays'
  BY DEF PassedStays, Passed, PassIsClean, PassIsEarned, SmokeTypeOK, MustClaimsHold,
     ClaimsAreSound, Template, Ended, Exited
<1>. QED
  BY <1>1, <1>2, <1>3, <1>4

LEMMA LeftoverEndsInv ==
  ASSUME SmokeInv, NEW b \in Binaries, LeftoverEnds(b)
  PROVE  SmokeInv'
<1>. USE DEF SmokeInv, LeftoverEnds, runVars, brokerVars, reportVars
<1>1. SmokeTypeOK'
  BY DEF SmokeTypeOK
<1>2. HandlesLag'
  BY DEF HandlesLag
<1>3. Established'
  BY DEF Established, SmokeTypeOK, MustClaimsHold, ClaimsAreSound, Template
<1>4. PassedStays'
  BY DEF PassedStays, Passed, PassIsClean, PassIsEarned, MustClaimsHold, ClaimsAreSound, Template
<1>. QED
  BY <1>1, <1>2, <1>3, <1>4

(***************************************************************************)
(* Steps of the supervisor.                                                *)
(***************************************************************************)
LEMMA HardTimeoutInv ==
  ASSUME SmokeInv, HardTimeout
  PROVE  SmokeInv'
<1>. USE DEF SmokeInv, HardTimeout, Fail, runVars, programVars, brokerVars, reportVars
<1>1. SmokeTypeOK'
  BY DEF SmokeTypeOK, Phases, TimedPhases
<1>2. HandlesLag'
  BY DEF HandlesLag
<1>3. Established'
  BY DEF Established, Phases, TimedPhases, SmokeTypeOK
<1>4. PassedStays'
  BY DEF PassedStays, Passed
<1>. QED
  BY <1>1, <1>2, <1>3, <1>4

LEMMA PreflightFailsInv ==
  ASSUME SmokeInv, NEW file \in ClaimsFiles, PreflightFails(file)
  PROVE  SmokeInv'
<1>. USE DEF SmokeInv, PreflightFails, Fail, runVars, programVars, brokerVars, reportVars
<1>1. SmokeTypeOK'
  BY DEF SmokeTypeOK, Phases, TimedPhases
<1>2. HandlesLag'
  BY DEF HandlesLag
<1>3. Established'
  BY DEF Established
<1>4. PassedStays'
  BY DEF PassedStays, Passed
<1>. QED
  BY <1>1, <1>2, <1>3, <1>4

LEMMA ComposeUpFailsInv ==
  ASSUME SmokeInv, ComposeUpFails
  PROVE  SmokeInv'
<1>. USE DEF SmokeInv, ComposeUpFails, Fail, runVars, programVars, brokerVars, reportVars
<1>1. SmokeTypeOK'
  BY DEF SmokeTypeOK, Phases, TimedPhases
<1>2. HandlesLag'
  BY DEF HandlesLag
<1>3. Established'
  BY DEF Established
<1>4. PassedStays'
  BY DEF PassedStays, Passed
<1>. QED
  BY <1>1, <1>2, <1>3, <1>4

LEMMA BrokerNotReadyInv ==
  ASSUME SmokeInv, BrokerNotReady
  PROVE  SmokeInv'
<1>. USE DEF SmokeInv, BrokerNotReady, Fail, runVars, programVars, brokerVars, reportVars
<1>1. SmokeTypeOK'
  BY DEF SmokeTypeOK, Phases, TimedPhases
<1>2. HandlesLag'
  BY DEF HandlesLag
<1>3. Established'
  BY DEF Established
<1>4. PassedStays'
  BY DEF PassedStays, Passed
<1>. QED
  BY <1>1, <1>2, <1>3, <1>4

LEMMA SpawnFailsInv ==
  ASSUME SmokeInv, SpawnFails
  PROVE  SmokeInv'
<1>. USE DEF SmokeInv, SpawnFails, Fail, runVars, programVars, brokerVars, reportVars
<1>1. SmokeTypeOK'
  BY DEF SmokeTypeOK, Phases, TimedPhases
<1>2. HandlesLag'
  BY DEF HandlesLag
<1>3. Established'
  BY DEF Established
<1>4. PassedStays'
  BY DEF PassedStays, Passed
<1>. QED
  BY <1>1, <1>2, <1>3, <1>4

LEMMA ActiveTimeoutInv ==
  ASSUME SmokeInv, ActiveTimeout
  PROVE  SmokeInv'
<1>. USE DEF SmokeInv, ActiveTimeout, Fail, runVars, programVars, brokerVars, reportVars
<1>1. SmokeTypeOK'
  BY DEF SmokeTypeOK, Phases, TimedPhases
<1>2. HandlesLag'
  BY DEF HandlesLag
<1>3. Established'
  BY DEF Established
<1>4. PassedStays'
  BY DEF PassedStays, Passed
<1>. QED
  BY <1>1, <1>2, <1>3, <1>4

LEMMA ComposeUpInv ==
  ASSUME SmokeInv, ComposeUp
  PROVE  SmokeInv'
<1>. USE DEF SmokeInv, ComposeUp, Goto, runVars, programVars, brokerVars, reportVars
<1>1. SmokeTypeOK'
  BY DEF SmokeTypeOK, Phases, TimedPhases
<1>2. HandlesLag'
  BY DEF HandlesLag
<1>3. Established'
  BY DEF Established, Checked, Spawning, Streaming, Listening, Sent, Judged,
     MustClaimsHold, ClaimsAreSound, Template
<1>4. PassedStays'
  BY DEF PassedStays, Passed
<1>. QED
  BY <1>1, <1>2, <1>3, <1>4

LEMMA BrokerReadyInv ==
  ASSUME SmokeInv, BrokerReady
  PROVE  SmokeInv'
<1>. USE DEF SmokeInv, BrokerReady, Goto, runVars, programVars, brokerVars, reportVars
<1>1. SmokeTypeOK'
  BY DEF SmokeTypeOK, Phases, TimedPhases
<1>2. HandlesLag'
  BY DEF HandlesLag
<1>3. Established'
  BY DEF Established, Checked, Spawning, Streaming, Listening, Sent, Judged,
     MustClaimsHold, ClaimsAreSound, Template
<1>4. PassedStays'
  BY DEF PassedStays, Passed
<1>. QED
  BY <1>1, <1>2, <1>3, <1>4

LEMMA SkipBrokerInv ==
  ASSUME SmokeInv, SkipBroker
  PROVE  SmokeInv'
<1>. USE DEF SmokeInv, SkipBroker, Goto, runVars, programVars, brokerVars, reportVars
<1>1. SmokeTypeOK'
  BY DEF SmokeTypeOK, Phases, TimedPhases
<1>2. HandlesLag'
  BY DEF HandlesLag
<1>3. Established'
  BY DEF Established, Checked, Spawning, Streaming, Listening, Sent, Judged,
     MustClaimsHold, ClaimsAreSound, Template
<1>4. PassedStays'
  BY DEF PassedStays, Passed
<1>. QED
  BY <1>1, <1>2, <1>3, <1>4

LEMMA StartInv ==
  ASSUME SmokeInv, StartStreamer \/ StartPassive \/ StartActive
  PROVE  SmokeInv'
<1>. USE DEF SmokeInv, StartStreamer, StartPassive, StartActive, Spawn, Goto, runVars,
             programVars, brokerVars, reportVars
<1>1. SmokeTypeOK'
  BY DEF SmokeTypeOK, Phases, TimedPhases, Roles
<1>2. HandlesLag'
  BY DEF HandlesLag, SmokeTypeOK, Roles, Ended, Exited
<1>3. Established'
  BY DEF Established, Checked, Spawning, Streaming, Listening, Sent, Judged,
     MustClaimsHold, ClaimsAreSound, Template, SmokeTypeOK, Roles
<1>4. PassedStays'
  BY DEF PassedStays, Passed
<1>. QED
  BY <1>1, <1>2, <1>3, <1>4

LEMMA WaitReadyInv ==
  ASSUME SmokeInv, WaitStreamerReady \/ WaitPassiveReady
  PROVE  SmokeInv'
<1>. USE DEF SmokeInv, WaitStreamerReady, WaitPassiveReady, MarkerSeen, MarkerTimeout,
             Fail, Goto, runVars, programVars, brokerVars, reportVars
<1>1. SmokeTypeOK'
  BY DEF SmokeTypeOK, Phases, TimedPhases
<1>2. HandlesLag'
  BY DEF HandlesLag
<1>3. Established'
  <2>1. CASE failure_reason' # "none"
    BY <2>1 DEF Established
  <2>2. CASE failure_reason' = "none"
    <3>1. UNCHANGED failure_reason /\ phase' \in {"StartPassive", "StartActive"}
      BY <2>2 DEF SmokeTypeOK, Phases, TimedPhases
    <3>2. /\ phase' = "StartPassive" => phase = "WaitStreamerReady" /\ ready["streamer"] > 0
          /\ phase' = "StartActive" => phase = "WaitPassiveReady" /\ ready["passive"] > 0
      BY <3>1
    <3>3. QED
      BY <2>2, <3>1, <3>2 DEF Established, Checked, Spawning, Streaming, Listening, Sent, Judged,
           ClaimsAreSound, Template, SmokeTypeOK, Roles
  <2>. QED
    BY <2>1, <2>2
<1>4. PassedStays'
  BY DEF PassedStays, Passed
<1>. QED
  BY <1>1, <1>2, <1>3, <1>4

\* What is loaded is what a whole and correct file says.
LEMMA LoadClaimsFacts ==
  ASSUME NEW file \in ClaimsFiles, NEW id, LoadClaims(file, id) # Err
  PROVE  LET loaded == LoadClaims(file, id)
         IN  /\ DOMAIN loaded # {}
             /\ \A i \in DOMAIN loaded :
                  /\ loaded[i].pattern \in Patterns \cup {Blank, Unparsable}
                  /\ loaded[i].pattern \notin {Blank, Unparsable}
                  /\ loaded[i].min_count \in Nat
<1>. DEFINE claims == file.claims
<1>1. /\ LoadClaims(file, id) = MaterializeClaimSpecs(claims)
      /\ Len(claims) > 0
      /\ \A i \in DOMAIN claims : ValidateClaimEntry(claims[i])
  BY DEF LoadClaims
<1>2. /\ Len(claims) \in Nat /\ DOMAIN claims = 1..Len(claims)
      /\ \A i \in DOMAIN claims : /\ claims[i].pattern \in Patterns \cup {Blank, Unparsable}
                                  /\ ResolveThreshold(claims[i].threshold) \in Nat
  BY ClaimsFilesAssumption
<1>. HIDE DEF claims
<1>3. DOMAIN claims # {}
  BY <1>1, <1>2
<1>. QED
  BY <1>1, <1>2, <1>3 DEF MaterializeClaimSpecs, ValidateClaimEntry

LEMMA PreflightInv ==
  ASSUME SmokeInv, NEW file \in ClaimsFiles, Preflight(file)
  PROVE  SmokeInv'
<1>. USE DEF SmokeInv, Preflight, Goto, NoStaleProcesses, runVars, programVars,
             brokerVars, reportVars
<1>1. SmokeTypeOK'
  BY DEF SmokeTypeOK, Phases, TimedPhases
<1>2. HandlesLag'
  BY DEF HandlesLag
<1>3. Established'
  BY LoadClaimsFacts DEF Established, Checked, Spawning, Streaming, Listening, Sent,
     Judged, MustClaimsHold, ClaimsAreSound, Template
<1>4. PassedStays'
  BY DEF PassedStays, Passed
<1>. QED
  BY <1>1, <1>2, <1>3, <1>4

LEMMA WaitActiveInv ==
  ASSUME SmokeInv, WaitActive
  PROVE  SmokeInv'
<1>. USE DEF SmokeInv, WaitActive, Goto, Fail, ActiveSucceeded, runVars, programVars,
             brokerVars, reportVars
<1>1. SmokeTypeOK'
  <2>1. "active" \in Roles
    BY DEF Roles
  <2>2. handle' \in [Roles -> {"none", "running"} \cup Ended]
    BY <2>1 DEF SmokeTypeOK
  <2>. QED
    BY <2>2, OrderFacts DEF SmokeTypeOK, Phases, TimedPhases
<1>2. HandlesLag'
  BY DEF HandlesLag, SmokeTypeOK, Roles, Ended, Exited
<1>3. Established'
  BY DEF Established, Checked, Spawning, Streaming, Listening, Sent, Judged,
     MustClaimsHold, ClaimsAreSound, Template, SmokeTypeOK, Roles
<1>4. PassedStays'
  BY DEF PassedStays, Passed
<1>. QED
  BY <1>1, <1>2, <1>3, <1>4

LEMMA ValidateClaimsInv ==
  ASSUME SmokeInv, ValidateClaims
  PROVE  SmokeInv'
<1>. USE DEF SmokeInv, ValidateClaims, Fail, runVars, programVars, brokerVars, reportVars
<1>1. SmokeTypeOK'
  BY OrderFacts DEF SmokeTypeOK, Phases, TimedPhases
<1>2. HandlesLag'
  BY DEF HandlesLag
<1>3. Established'
  BY OrderFacts DEF Established, Checked, Spawning, Streaming, Listening, Sent, Judged,
     MustClaimsHold, ClaimsAreSound, Template, EvaluateClaims, EvaluateClaim,
       SomeClaimFailed, SmokeTypeOK
<1>4. PassedStays'
  BY DEF PassedStays, Passed
<1>. QED
  BY <1>1, <1>2, <1>3, <1>4

(***************************************************************************)
(* Teardown.  A handle only moves from running to how the program ended.   *)
(***************************************************************************)
HandleStep ==
  /\ handle' \in [Roles -> {"none", "running"} \cup Ended]
  /\ HandlesLag'
  /\ \A role \in Roles : handle[role] # "none" => handle'[role] # "none"
  /\ \A role \in Roles : handle[role] \in Ended => handle'[role] = handle[role]

LEMMA KeptHandles ==
  ASSUME SmokeInv, UNCHANGED <<handle, child>>
  PROVE  HandleStep
BY DEF SmokeInv, SmokeTypeOK, HandlesLag, HandleStep

LEMMA RefreshedHandles ==
  ASSUME SmokeInv, handle' = Refreshed, UNCHANGED child
  PROVE  HandleStep /\ (child[Current] # "running" => handle'[Current] = child[Current])
<1>1. Current \in Roles
  BY OrderFacts DEF SmokeInv, SmokeTypeOK, Current
<1>2. /\ handle \in [Roles -> {"none", "running"} \cup Ended]
      /\ child \in [Roles -> {"none", "running"} \cup Ended]
  BY DEF SmokeInv, SmokeTypeOK
<1>3. HandlesLag
  BY DEF SmokeInv
<1>4. handle' \in [Roles -> {"none", "running"} \cup Ended]
  BY <1>1, <1>2 DEF Refreshed
<1>. QED
  BY <1>1, <1>2, <1>3, <1>4 DEF HandlesLag, HandleStep, Refreshed, Ended, Exited

LEMMA TerminatedInv ==
  ASSUME SmokeInv, phase = "Teardown", Terminated, TeardownFrame, HandleStep,
         failure_reason = "none" => handle'[Current] \in Ended
  PROVE  SmokeInv'
<1>. USE DEF SmokeInv, Terminated, TeardownFrame, brokerVars, reportVars
<1>1. SmokeTypeOK'
  BY OrderFacts DEF SmokeTypeOK, HandleStep, Phases, TimedPhases
<1>2. HandlesLag'
  BY DEF HandleStep
<1>3. Established'
  <2>. SUFFICES ASSUME failure_reason = "none"
                PROVE  Established'
    BY DEF Established
  <2>1. /\ ClaimsAreSound' /\ (Signatures(scenario) \cap leftover = {})'
        /\ (Template.requires_docker => mqtt_broker_started)'
        /\ ready'["streamer"] = 1 /\ ready'["passive"] = 1
        /\ MustClaimsHold'
    BY DEF Established, Checked, Spawning, Streaming, Listening, Sent, Judged, ClaimsAreSound,
           MustClaimsHold, Template
  <2>2. /\ handle'["streamer"] # "none" /\ handle'["passive"] # "none"
        /\ handle'["active"] = "exit0"
    BY DEF Established, Streaming, Listening, Sent, Judged, HandleStep, Roles, Ended, Exited
  <2>3. \A i \in 1..turn : handle'[TeardownOrder[i]] \in Ended
    <3>. SUFFICES ASSUME NEW i \in 1..turn PROVE handle'[TeardownOrder[i]] \in Ended
      OBVIOUS
    <3>1. turn \in 1..3
      BY OrderFacts DEF SmokeTypeOK
    <3>2. CASE i = turn
      BY <3>2 DEF Current
    <3>3. CASE i \in 1..(turn - 1)
      <4>1. TeardownOrder[i] \in Roles
        BY <3>1, <3>3, OrderFacts
      <4>. QED
        BY <3>3, <4>1 DEF Established, HandleStep
    <3>. QED
      BY <3>1, <3>2, <3>3
  <2>4. CASE turn < Len(TeardownOrder)
    <3>1. phase' = "Teardown" /\ turn' - 1 = turn
      BY <2>4, OrderFacts DEF SmokeTypeOK
    <3>. QED
      BY <2>1, <2>2, <2>3, <3>1 DEF Established
  <2>5. CASE ~(turn < Len(TeardownOrder))
    <3>1. phase' = "StopBroker" /\ turn = 3
      BY <2>5, OrderFacts DEF SmokeTypeOK
    <3>2. \A role \in Roles : handle'[role] \in Ended
      BY <2>3, <3>1, OrderFacts
    <3>. QED
      BY <2>1, <2>2, <3>1, <3>2 DEF Established
  <2>. QED
    BY <2>4, <2>5
<1>4. PassedStays'
  BY DEF PassedStays, Passed
<1>. QED
  BY <1>1, <1>2, <1>3, <1>4

LEMMA StageInv ==
  ASSUME SmokeInv, phase = "Teardown", TeardownFrame, HandleStep,
         NEW next \in {"check", "sigint", "sigterm", "final"}, Stage(next)
  PROVE  SmokeInv'
<1>. USE DEF SmokeInv, Stage, TeardownFrame, brokerVars, reportVars
<1>1. SmokeTypeOK'
  BY DEF SmokeTypeOK, HandleStep
<1>2. HandlesLag'
  BY DEF HandleStep
<1>3. Established'
  <2>1. \A i \in 1..(turn - 1) : TeardownOrder[i] \in Roles
    BY OrderFacts DEF SmokeTypeOK
  <2>. QED
    BY <2>1 DEF Established, HandleStep, MustClaimsHold, ClaimsAreSound, Template, Roles, Ended,
                Exited
<1>4. PassedStays'
  BY DEF PassedStays, Passed
<1>. QED
  BY <1>1, <1>2, <1>3, <1>4

\* A failure reason other than none: nothing has to be established.
LEMMA TeardownFailsInv ==
  ASSUME SmokeInv, phase \in {"Teardown", "StopBroker"}, TeardownFails, HandleStep,
         UNCHANGED <<loaded_claims, child, log, ready, leftover, reportVars>>,
         broker' \in BOOLEAN, UNCHANGED mqtt_broker_started
  PROVE  SmokeInv'
<1>. USE DEF SmokeInv, TeardownFails, Goto, reportVars
<1>1. SmokeTypeOK'
  BY DEF SmokeTypeOK, HandleStep, Phases
<1>2. HandlesLag'
  BY DEF HandleStep
<1>3. Established'
  BY DEF Established
<1>4. PassedStays'
  BY DEF PassedStays, Passed
<1>. QED
  BY <1>1, <1>2, <1>3, <1>4

LEMMA TeardownInv ==
  ASSUME SmokeInv,
         \/ NothingToTerminate \/ Interrupt \/ SignalObeyed \/ GraceExpires \/ LastLook
         \/ TerminateErr
  PROVE  SmokeInv'
<1>0. Current \in Roles /\ turn \in 1..3
  BY OrderFacts DEF SmokeInv, SmokeTypeOK, Current
<1>b. broker \in BOOLEAN
  BY DEF SmokeInv, SmokeTypeOK
<1>1. CASE NothingToTerminate
  <2>1. failure_reason = "none" => handle[Current] # "none"
    BY <1>0, <1>1, OrderFacts
    DEF NothingToTerminate, AtStage, SmokeInv, Established, Streaming, Listening, Sent, Judged,
        Current
  <2>2. HandleStep
    BY <1>1, KeptHandles DEF NothingToTerminate, TeardownFrame
  <2>. QED
    BY <1>1, <2>1, <2>2, TerminatedInv DEF NothingToTerminate, AtStage
<1>2. CASE Interrupt
  <2>1. HandleStep
    BY <1>2, RefreshedHandles DEF Interrupt, TeardownFrame
  <2>2. CASE handle'[Current] \in Exited
    BY <1>2, <2>1, <2>2, TerminatedInv DEF Interrupt, AtStage, Ended
  <2>3. CASE handle'[Current] \notin Exited
    BY <1>2, <2>1, <2>3, StageInv DEF Interrupt, AtStage
  <2>. QED
    BY <2>2, <2>3
<1>3. CASE SignalObeyed
  <2>1. HandleStep /\ handle'[Current] = child[Current]
    BY <1>3, RefreshedHandles DEF SignalObeyed, TeardownFrame
  <2>2. failure_reason = "none" => handle'[Current] \in Ended
    <3>1. failure_reason = "none" => handle[Current] # "none"
      BY <1>0, <1>3, OrderFacts
      DEF SignalObeyed, SmokeInv, Established, Streaming, Listening, Sent, Judged, Current
    <3>2. child[Current] \in {"none"} \cup Ended
          /\ (handle[Current] # "none" => child[Current] # "none")
      BY <1>0, <1>3 DEF SignalObeyed, SmokeInv, SmokeTypeOK, HandlesLag
    <3>. QED
      BY <2>1, <3>1, <3>2
  <2>. QED
    BY <1>3, <2>1, <2>2, TerminatedInv DEF SignalObeyed
<1>4. CASE GraceExpires
  <2>1. HandleStep
    BY <1>4, KeptHandles DEF GraceExpires, TeardownFrame
  <2>. QED
    BY <1>4, <2>1, StageInv DEF GraceExpires
<1>5. CASE LastLook
  <2>1. HandleStep
    BY <1>5, RefreshedHandles DEF LastLook, TeardownFrame
  <2>2. CASE handle'[Current] \in Exited
    BY <1>5, <2>1, <2>2, TerminatedInv DEF LastLook, AtStage, Ended
  <2>3. CASE handle'[Current] \notin Exited
    BY <1>5, <1>b, <2>1, <2>3, TeardownFailsInv DEF LastLook, AtStage, TeardownFrame, brokerVars
  <2>. QED
    BY <2>2, <2>3
<1>6. CASE TerminateErr
  <2>1. HandleStep
    BY <1>6, KeptHandles DEF TerminateErr, TeardownFrame
  <2>. QED
    BY <1>6, <1>b, <2>1, TeardownFailsInv DEF TerminateErr, TeardownFrame, brokerVars
<1>. QED
  BY <1>1, <1>2, <1>3, <1>4, <1>5, <1>6

LEMMA StopBrokerInv ==
  ASSUME SmokeInv, StopBroker \/ ComposeDownFails
  PROVE  SmokeInv'
<1>. USE DEF StopBroker, ComposeDownFails, programVars, reportVars
<1>1. HandleStep
  BY KeptHandles
<1>2. broker' \in BOOLEAN
  BY DEF SmokeInv, SmokeTypeOK
<1>3. CASE TeardownFails
  BY <1>1, <1>2, <1>3, TeardownFailsInv
<1>4. CASE ~TeardownFails
  <2>. USE DEF SmokeInv, Goto
  <2>0. StopBroker /\ Goto("FinalizeReport") /\ UNCHANGED failure_reason
    BY <1>4
  <2>1. SmokeTypeOK'
    BY <1>2, <2>0 DEF SmokeTypeOK, Phases
  <2>2. HandlesLag'
    BY <1>1 DEF HandleStep
  <2>3. Established'
    BY <2>0 DEF Established, Checked, Spawning, Streaming, Listening, Sent, Judged, MustClaimsHold,
                ClaimsAreSound, Template
  <2>4. PassedStays'
    BY <2>0 DEF PassedStays, Passed
  <2>. QED
    BY <2>1, <2>2, <2>3, <2>4
<1>. QED
  BY <1>3, <1>4

\* The only step that leads to a pass.
LEMMA WriteReportInv ==
  ASSUME SmokeInv, WriteReport
  PROVE  SmokeInv'
<1>. USE DEF SmokeInv, WriteReport, Goto, programVars, brokerVars
<1>1. SmokeTypeOK'
  BY DEF SmokeTypeOK, Phases
<1>2. HandlesLag'
  BY DEF HandlesLag
<1>3. Established'
  BY DEF Established, Checked, Spawning, Streaming, Listening, Sent, Judged
<1>4. PassedStays'
  <2>. SUFFICES ASSUME Pass PROVE PassedStays'
    BY DEF PassedStays, Passed
  <2>1. failure_reason = "none" /\ phase = "FinalizeReport"
    BY DEF Pass
  <2>2. /\ ClaimsAreSound /\ MustClaimsHold /\ Signatures(scenario) \cap leftover = {}
        /\ ready["streamer"] = 1 /\ ready["passive"] = 1 /\ handle["active"] = "exit0"
        /\ \A role \in Roles : handle[role] \in Ended
        /\ Template.requires_docker => ~broker
    BY <2>1 DEF Established, Checked, Spawning, Streaming, Listening, Sent, Judged
  <2>3. \A role \in Roles : child[role] = handle[role]
    BY <2>2 DEF HandlesLag
  <2>4. child["active"] = "exit0"
    BY <2>2, <2>3 DEF Roles
  <2>. QED
    BY <2>2, <2>3, <2>4
    DEF PassedStays, PassIsClean, PassIsEarned, ClaimsAreSound, MustClaimsHold, Template
<1>. QED
  BY <1>1, <1>2, <1>3, <1>4

LEMMA EndWithErrorInv ==
  ASSUME SmokeInv, WriteReportFails \/ SupervisorDies
  PROVE  SmokeInv'
<1>. USE DEF SmokeInv, WriteReportFails, SupervisorDies, Goto, programVars, brokerVars
<1>1. SmokeTypeOK'
  BY DEF SmokeTypeOK, Phases
<1>2. HandlesLag'
  BY DEF HandlesLag
<1>3. Established'
  BY DEF Established, Checked, Spawning, Streaming, Listening, Sent, Judged
<1>4. PassedStays'
  BY DEF PassedStays, Passed
<1>. QED
  BY <1>1, <1>2, <1>3, <1>4

LEMMA BeginInv ==
  ASSUME SmokeInv, NEW s \in Scenarios, StartRun(s) \/ SetupFails(s)
  PROVE  SmokeInv'
<1>. USE DEF SmokeInv, StartRun, SetupFails, Begin
<1>1. SmokeTypeOK'
  <2>1. /\ log' \in [Roles -> [Patterns -> 0..MaxLines]]
        /\ ready' \in [Roles -> 0..1]
    BY MaxLinesAssumption
  <2>2. /\ child' \in [Roles -> {"none", "running"} \cup Ended]
        /\ handle' \in [Roles -> {"none", "running"} \cup Ended]
    OBVIOUS
  <2>3. leftover' \subseteq Binaries
    <3>1. Signatures(scenario) \subseteq Binaries
      BY DEF SmokeTypeOK, Binaries
    <3>2. {Template.binary[role] : role \in {r \in Roles : child[r] = "running"}}
            \subseteq Signatures(scenario)
      BY DEF Template, Signatures
    <3>. QED
      BY <3>1, <3>2 DEF SmokeTypeOK
  <2>4. turn' \in 1..Len(TeardownOrder) /\ phase' \in Phases
    BY OrderFacts DEF Phases, TimedPhases
  <2>5. /\ scenario' \in Scenarios /\ report' \in [Scenarios -> {"none", "PASS", "FAIL"}]
        /\ broker' \in BOOLEAN /\ exit_code' \in {"pass", "fail", "error", "none"}
    BY DEF SmokeTypeOK
  <2>. QED
    BY <2>1, <2>2, <2>3, <2>4, <2>5 DEF SmokeTypeOK
<1>2. HandlesLag'
  BY DEF HandlesLag, Ended, Exited
<1>3. Established'
  BY DEF Established, Checked, Spawning, Streaming, Listening, Sent, Judged
<1>4. PassedStays'
  BY DEF PassedStays, Passed
<1>. QED
  BY <1>1, <1>2, <1>3, <1>4

\* A log only grows, and what a must_match claim asks of it stays true.
LEMMA PrintLineInv ==
  ASSUME SmokeInv, NEW w \in Prints, PrintLine(w[1], w[2])
  PROVE  SmokeInv'
<1>. USE DEF SmokeInv, PrintLine, runVars, brokerVars, reportVars
<1>1. w[1] \in Roles /\ w[2] \in Patterns
  BY PrintsAssumption
<1>2. log' \in [Roles -> [Patterns -> 0..MaxLines]]
  <2>1. log[w[1]] \in [Patterns -> 0..MaxLines] /\ log[w[1]][w[2]] + 1 \in 0..MaxLines
    BY <1>1, MaxLinesAssumption DEF SmokeTypeOK
  <2>2. [log[w[1]] EXCEPT ![w[2]] = @ + 1] \in [Patterns -> 0..MaxLines]
    BY <2>1
  <2>. QED
    BY <1>1, <2>2 DEF SmokeTypeOK
<1>3. \A role \in Roles, p \in Patterns :
        log[role][p] \in Nat /\ log'[role][p] \in Nat /\ log'[role][p] >= log[role][p]
  BY <1>1, MaxLinesAssumption DEF SmokeTypeOK
<1>4. ClaimsAreSound /\ MustClaimsHold => MustClaimsHold'
  <2>. SUFFICES ASSUME ClaimsAreSound, MustClaimsHold, NEW i \in DOMAIN loaded_claims,
                       loaded_claims[i].kind = "must_match"
                PROVE  /\ loaded_claims[i].file \in Roles
                       /\ log'[loaded_claims[i].file][loaded_claims[i].pattern]
                            >= loaded_claims[i].min_count
    BY DEF MustClaimsHold
  <2>. DEFINE claim == loaded_claims[i]
  <2>1. claim.file \in Roles /\ log[claim.file][claim.pattern] >= claim.min_count
    BY DEF MustClaimsHold
  <2>2. claim.pattern \in Patterns /\ claim.min_count \in Nat
    BY DEF ClaimsAreSound
  <2>. HIDE DEF claim
  <2>3. /\ log[claim.file][claim.pattern] \in Nat /\ log'[claim.file][claim.pattern] \in Nat
        /\ log'[claim.file][claim.pattern] >= log[claim.file][claim.pattern]
    BY <1>3, <2>1, <2>2
  <2>4. log'[claim.file][claim.pattern] >= claim.min_count
    BY <2>1, <2>2, <2>3
  <2>. QED
    BY <2>1, <2>4 DEF claim
<1>5. ClaimsAreSound <=> ClaimsAreSound'
  BY DEF ClaimsAreSound
<1>6. SmokeTypeOK'
  BY <1>2 DEF SmokeTypeOK
<1>7. HandlesLag'
  BY DEF HandlesLag
<1>8. Established'
  <2>. SUFFICES ASSUME failure_reason = "none" PROVE Established'
    BY DEF Established
  <2>1. phase \in Judged => MustClaimsHold'
    BY <1>4 DEF Established, Checked, Spawning, Streaming, Listening, Sent
  <2>. QED
    BY <1>5, <2>1 DEF Established, Template
<1>9. PassedStays'
  BY <1>4, <1>5 DEF PassedStays, Passed, PassIsClean, PassIsEarned, Template
<1>. QED
  BY <1>6, <1>7, <1>8, <1>9

-----------------------------------------------------------------------------
\* The invariant names no variable of the matrix, so a step of the matrix that
\* starts no scenario leaves it alone, and so does stuttering.
LEMMA StutterInv ==
  ASSUME SmokeInv, UNCHANGED scenarioVars
  PROVE  SmokeInv'
BY DEF SmokeInv, SmokeTypeOK, HandlesLag, Established, PassedStays, Passed, PassIsClean,
       PassIsEarned, MustClaimsHold, ClaimsAreSound, Template, scenarioVars, runVars, programVars,
       brokerVars, reportVars

LEMMA SupervisorInv ==
  ASSUME SmokeInv, SupervisorNext
  PROVE  SmokeInv'
BY HardTimeoutInv, PreflightFailsInv, ComposeUpFailsInv, BrokerNotReadyInv, SpawnFailsInv,
   ActiveTimeoutInv, ComposeUpInv, BrokerReadyInv, SkipBrokerInv, StartInv, WaitReadyInv,
   PreflightInv, WaitActiveInv, ValidateClaimsInv, TeardownInv, StopBrokerInv, WriteReportInv,
   EndWithErrorInv
DEF SupervisorNext, SupervisorStep

LEMMA ProgramInv ==
  ASSUME SmokeInv, ProgramNext
  PROVE  SmokeInv'
<1>1. \A e \in Endings : e[1] \in Roles /\ e[2] \in Ended
  BY EndingsAssumption DEF Ended, Exited
<1>. QED
  BY <1>1, PrintReadyInv, PrintLineInv, EndInv, LeftoverEndsInv DEF ProgramNext

\* What the matrix has collected, one entry per scenario so far.
MatrixInv ==
  /\ summaries \in Seq(BOOLEAN) /\ codes \in Seq({"pass", "fail", "error", "none"})
  /\ Len(summaries) = Len(codes)
  /\ Len(selected) \in Nat /\ DOMAIN selected = 1..Len(selected)
  /\ \A i \in DOMAIN selected : selected[i] \in Scenarios
  /\ matrix \in {"start", "next", "running", "done"}
  /\ matrix = "start" => Len(summaries) = 0 /\ matrix_exit = "none"
  /\ matrix # "done" => matrix_exit = "none"
  /\ matrix \in {"next", "done"} => Len(summaries) <= Len(selected)
  /\ matrix = "running" => Len(summaries) < Len(selected)
  /\ MatrixPassIsHonest

LEMMA MatrixNextInv ==
  ASSUME SmokeInv, MatrixInv, MatrixNext
  PROVE  SmokeInv' /\ MatrixInv'
<1>. USE DEF MatrixInv
<1>1. CASE \E only \in Selections, claims_is_file \in BOOLEAN : StartMatrix(only, claims_is_file)
  <2>1. PICK only \in Selections, claims_is_file \in BOOLEAN : StartMatrix(only, claims_is_file)
    BY <1>1
  <2>2. SmokeInv'
    BY <2>1, StutterInv DEF StartMatrix
  <2>3. /\ Len(selected') \in Nat /\ DOMAIN selected' = 1..Len(selected')
        /\ \A i \in DOMAIN selected' : selected'[i] \in Scenarios
    BY <2>1, SelectionsAssumption DEF StartMatrix
  <2>4. /\ summaries' \in Seq(BOOLEAN) /\ codes' \in Seq({"pass", "fail", "error", "none"})
        /\ Len(summaries') = Len(codes') /\ Len(summaries') = 0
    BY <2>1 DEF StartMatrix
  <2>5. Len(summaries') <= Len(selected')
    BY <2>3, <2>4
  <2>6. matrix' = "next" /\ matrix_exit' = "none"
    BY <2>1 DEF StartMatrix
  <2>7. MatrixPassIsHonest'
    BY <2>1, <2>6 DEF StartMatrix, MatrixPassIsHonest
  <2>. QED
    BY <2>2, <2>3, <2>4, <2>5, <2>6, <2>7
<1>2. CASE MatrixFails
  <2>1. SmokeInv'
    BY <1>2, StutterInv DEF MatrixFails
  <2>2. MatrixPassIsHonest'
    BY <1>2 DEF MatrixFails, MatrixPassIsHonest
  <2>3. /\ summaries' \in Seq(BOOLEAN) /\ codes' \in Seq({"pass", "fail", "error", "none"})
        /\ Len(summaries') = Len(codes') /\ Len(summaries') = 0
    BY <1>2 DEF MatrixFails
  <2>4. Len(selected') \in Nat /\ DOMAIN selected' = 1..Len(selected')
        /\ \A i \in DOMAIN selected' : selected'[i] \in Scenarios
    BY <1>2 DEF MatrixFails
  <2>5. Len(summaries') <= Len(selected')
    BY <2>3, <2>4
  <2>6. matrix' = "done"
    BY <1>2 DEF MatrixFails
  <2>. QED
    BY <2>1, <2>2, <2>3, <2>4, <2>5, <2>6
<1>3. CASE RunSingleScenario
  <2>1. Len(summaries) + 1 \in DOMAIN selected
    BY <1>3 DEF RunSingleScenario, More
  <2>2. SmokeInv'
    BY <1>3, <2>1, BeginInv DEF RunSingleScenario
  <2>. QED
    BY <1>3, <2>1, <2>2 DEF RunSingleScenario, More, MatrixPassIsHonest
<1>4. ASSUME NEW pass \in BOOLEAN, NEW code \in {"pass", "fail", "error", "none"},
             Summarise(pass, code), pass => code = "pass",
             Len(summaries) < Len(selected), matrix \in {"next", "running"}
      PROVE  MatrixInv'
  <2>1. /\ summaries' \in Seq(BOOLEAN) /\ codes' \in Seq({"pass", "fail", "error", "none"})
        /\ Len(summaries') = Len(summaries) + 1 /\ Len(codes') = Len(codes) + 1
    BY <1>4 DEF Summarise
  <2>2. \A i \in 1..Len(summaries') : summaries'[i] => codes'[i] = "pass"
    BY <1>4 DEF Summarise, MatrixPassIsHonest
  <2>3. matrix_exit' = "none"
    BY <1>4 DEF Summarise
  <2>. QED
    BY <1>4, <2>1, <2>2, <2>3 DEF Summarise, MatrixPassIsHonest
<1>5. CASE BinaryMissing
  BY <1>4, <1>5, StutterInv DEF BinaryMissing, More
<1>6. CASE CollectScenario
  <2>1. exit_code \in {"pass", "fail", "error", "none"}
    BY DEF SmokeInv, SmokeTypeOK
  <2>2. SummaryOf \in BOOLEAN /\ (SummaryOf => exit_code = "pass")
    BY DEF SummaryOf
  <2>3. Summarise(SummaryOf, exit_code) /\ matrix = "running" /\ UNCHANGED scenarioVars
    BY <1>6 DEF CollectScenario
  <2>4. MatrixInv'
    BY <1>4, <2>1, <2>2, <2>3
  <2>. QED
    BY <2>3, <2>4, StutterInv
<1>7. CASE FinishMatrix
  BY <1>7, StutterInv DEF FinishMatrix, More, MatrixPassIsHonest
<1>. QED
  BY <1>1, <1>2, <1>3, <1>5, <1>6, <1>7 DEF MatrixNext

LEMMA NextInv ==
  ASSUME SmokeInv, MatrixInv, [Next]_vars
  PROVE  SmokeInv' /\ MatrixInv'
<1>1. UNCHANGED matrixVars => MatrixInv'
  BY DEF MatrixInv, MatrixPassIsHonest, matrixVars
<1>2. CASE SupervisorNext /\ UNCHANGED matrixVars
  BY <1>1, <1>2, SupervisorInv
<1>3. CASE MatrixNext
  BY <1>3, MatrixNextInv
<1>4. CASE SupervisorDies /\ UNCHANGED matrixVars
  BY <1>1, <1>4, EndWithErrorInv
<1>5. CASE ProgramNext /\ UNCHANGED matrixVars
  BY <1>1, <1>5, ProgramInv
<1>6. CASE UNCHANGED vars
  BY <1>1, <1>6, StutterInv DEF vars
<1>. QED
  BY <1>2, <1>3, <1>4, <1>5, <1>6 DEF Next, SuiteNext

LEMMA SuiteInvariant == Spec => [](SmokeInv /\ MatrixInv)
<1>1. Init => SmokeInv /\ MatrixInv
  BY SmokeInitInv DEF Init, MatrixInv, MatrixPassIsHonest
<1>2. SmokeInv /\ MatrixInv /\ [Next]_vars => (SmokeInv /\ MatrixInv)'
  BY NextInv
<1>. QED
  BY <1>1, <1>2, PTL DEF Spec

\* The state of a scenario run and its programs is well typed.
THEOREM SmokeTypeCorrect == Spec => []SmokeTypeOK
<1>1. SmokeInv => SmokeTypeOK
  BY DEF SmokeInv
<1>. QED
  BY <1>1, SuiteInvariant, PTL

\* A run that exits with 0 leaves no program and no broker behind, and no process
\* of an earlier run was beside it, whatever the programs did and whichever
\* supervisor died before.
THEOREM PassedRunsAreClean == Spec => []PassIsClean
<1>1. SmokeInv => PassIsClean
  BY DEF SmokeInv, PassedStays, PassIsClean
<1>. QED
  BY <1>1, SuiteInvariant, PTL

\* A run that exits with 0 has all its evidence in the logs it leaves.
THEOREM PassedRunsAreEarned == Spec => []PassIsEarned
<1>1. SmokeInv => PassIsEarned
  BY DEF SmokeInv, PassedStays, PassIsEarned
<1>. QED
  BY <1>1, SuiteInvariant, PTL

\* The matrix passes a scenario only on the word of the process it started.
THEOREM MatrixPassesAreHonest == Spec => []MatrixPassIsHonest
<1>1. MatrixInv => MatrixPassIsHonest
  BY DEF MatrixInv
<1>. QED
  BY <1>1, SuiteInvariant, PTL


=============================================================================
