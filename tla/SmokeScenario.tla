---------------------------- MODULE SmokeScenario ----------------------------
(***************************************************************************)
(* run_scenario of the transport smoke suite: a supervisor that starts a   *)
(* broker and three programs, waits for their readiness markers, lets the  *)
(* active one send, judges the logs, tears everything down and reports.    *)
(*                                                                         *)
(* The programs run beside the supervisor: they print, end by themselves,  *)
(* are ended by a signal or hang.  One step of the supervisor is what it   *)
(* does between two awaits on them.  A bounded wait ends with what it      *)
(* waits for or, while that has not happened, with its timeout; the hard   *)
(* timeout may be found expired at the start of every phase but Teardown.  *)
(* Every run has an artifact directory, and so logs, of its own.           *)
(***************************************************************************)
EXTENDS SmokeTemplates, SmokeClaims

CONSTANTS
  ClaimsFiles,    \* what may be found at the path of the claims file
  Patterns,       \* patterns that lines of the logs may match
  Prints,         \* which role may print a line that matches which pattern
  Endings,        \* which role's program may end in which way
  MaxLines        \* bound on the lines per pattern of one log

\* Claims name the patterns the logs are counted for, and count in numbers.
ASSUME ClaimsFilesAssumption ==
  \A f \in ClaimsFiles :
    /\ Len(f.claims) \in Nat /\ DOMAIN f.claims = 1..Len(f.claims)
    /\ \A i \in DOMAIN f.claims :
         /\ f.claims[i].pattern \in Patterns \cup {Blank, Unparsable}
         /\ ResolveThreshold(f.claims[i].threshold) \in Nat
ASSUME PrintsAssumption == Prints \subseteq Roles \X Patterns
ASSUME EndingsAssumption == Endings \subseteq Roles \X {"exit0", "exit1", "killed"}
ASSUME MaxLinesAssumption == MaxLines \in Nat

VARIABLES
  scenario,            \* id of the scenario that runs, or ran last
  phase,               \* where the supervisor is
  turn,                \* teardown: position in TeardownOrder
  step,                \* teardown: where terminate_gracefully is
  child,               \* the programs themselves
  handle,              \* ManagedProcess: the state the supervisor last saw
  log,                 \* log[role][p]: lines of the role's log that match p
  ready,               \* ready[role]: readiness markers in the role's log
  loaded_claims,       \* the claims, Err before they are loaded
  outcomes,            \* claim_outcomes and forbidden_claim_outcomes
  failure_reason,      \* the phase that failed first, or "none"
  broker,              \* whether the broker's container is up
  mqtt_broker_started,
  leftover,            \* binaries with a process that outlived its run
  exit_code,           \* of the scenario's binary: pass 0, fail 1, error 2
  report               \* the last report on disk, per scenario

runVars == <<scenario, phase, turn, step, loaded_claims, outcomes, failure_reason>>
programVars == <<child, handle, log, ready, leftover>>
brokerVars == <<broker, mqtt_broker_started>>
reportVars == <<exit_code, report>>
scenarioVars == <<runVars, programVars, brokerVars, reportVars>>

\* A program ends with code 0, with another code, or by a signal (no code).
Exited == {"exit0", "exit1"}
Ended == Exited \cup {"killed"}

\* Phases that begin with ensure_remaining_timeout.
TimedPhases ==
  {"Preflight", "StartInfra", "WaitStreamerReady", "StartPassive", "WaitPassiveReady",
   "StartActive", "ValidateClaims"}

Phases == TimedPhases \cup {"PollBroker", "StartStreamer", "WaitActive", "Teardown",
                            "StopBroker", "FinalizeReport", "ended"}

ScenarioInit ==
  /\ scenario = scenario_ids[1]
  /\ phase = "ended" /\ turn = 1 /\ step = "check"
  /\ child = [role \in Roles |-> "none"]
  /\ handle = [role \in Roles |-> "none"]
  /\ log = [role \in Roles |-> [p \in Patterns |-> 0]]
  /\ ready = [role \in Roles |-> 0]
  /\ loaded_claims = Err /\ outcomes = << >> /\ failure_reason = "none"
  /\ broker = FALSE /\ mqtt_broker_started = FALSE
  /\ leftover = {} /\ exit_code = "none"
  /\ report = [s \in Scenarios |-> "none"]

Template == scenario_template(scenario)

Goto(p) == phase' = p /\ UNCHANGED <<scenario, turn, step>>

\* A phase fails: the phases up to Teardown are skipped.
Fail ==
  /\ failure_reason' = phase
  /\ phase' = "Teardown" /\ turn' = 1 /\ step' = "check"
  /\ UNCHANGED scenario

-----------------------------------------------------------------------------
(* The programs.                                                           *)

PrintReady(role) ==
  /\ child[role] = "running" /\ role # "active" /\ ready[role] = 0
  /\ ready' = [ready EXCEPT ![role] = 1]
  /\ UNCHANGED <<runVars, child, handle, log, leftover, brokerVars, reportVars>>

PrintLine(role, p) ==
  /\ child[role] = "running" /\ log[role][p] < MaxLines
  /\ log' = [log EXCEPT ![role][p] = @ + 1]
  /\ UNCHANGED <<runVars, child, handle, ready, leftover, brokerVars, reportVars>>

End(role, how) ==
  /\ child[role] = "running"
  /\ child' = [child EXCEPT ![role] = how]
  /\ UNCHANGED <<runVars, handle, log, ready, leftover, brokerVars, reportVars>>

LeftoverEnds(b) ==
  /\ b \in leftover
  /\ leftover' = leftover \ {b}
  /\ UNCHANGED <<runVars, child, handle, log, ready, brokerVars, reportVars>>

ProgramNext ==
  \/ \E role \in Roles : PrintReady(role)
  \/ \E w \in Prints : PrintLine(w[1], w[2])
  \/ \E e \in Endings : End(e[1], e[2])
  \/ \E b \in Binaries : LeftoverEnds(b)

-----------------------------------------------------------------------------
(* The supervisor, from setup to the end of ValidateClaims.                *)

\* run_scenario up to its first phase.  Programs of an earlier run that still
\* run are nobody's children any more.
Begin(s) ==
  /\ phase = "ended"
  /\ scenario' = s
  /\ leftover' = leftover \cup
                   {Template.binary[role] : role \in {r \in Roles : child[r] = "running"}}
  /\ child' = [role \in Roles |-> "none"]
  /\ handle' = [role \in Roles |-> "none"]
  /\ log' = [role \in Roles |-> [p \in Patterns |-> 0]]
  /\ ready' = [role \in Roles |-> 0]
  /\ loaded_claims' = Err /\ outcomes' = << >> /\ failure_reason' = "none"
  /\ mqtt_broker_started' = FALSE
  /\ turn' = 1 /\ step' = "check"
  /\ UNCHANGED <<broker, report>>

StartRun(s) == Begin(s) /\ phase' = "Preflight" /\ exit_code' = "none"

\* The artifact directory cannot be created: the run ends with an error.
SetupFails(s) == Begin(s) /\ phase' = "ended" /\ exit_code' = "error"

\* ensure_remaining_timeout finds the hard timeout expired.
HardTimeout ==
  /\ phase \in TimedPhases
  /\ Fail
  /\ UNCHANGED <<loaded_claims, outcomes, programVars, brokerVars, reportVars>>

\* Variant: the check looks for the streamer only.
NoStaleProcessesStreamerOnly(s) == scenario_template(s).binary.streamer \notin leftover

\* ensure_no_stale_processes: pgrep finds none of the scenario's binaries.
NoStaleProcesses(s) == Signatures(s) \cap leftover = {}

\* Branch guard, required paths, Docker, vsomeip library and builds are one
\* check that may fail; claims and stale processes are checked between them.
Preflight(file) ==
  /\ phase = "Preflight"
  /\ LoadClaims(file, scenario) # Err
  /\ NoStaleProcesses(scenario)
  /\ loaded_claims' = LoadClaims(file, scenario)
  /\ Goto("StartInfra")
  /\ UNCHANGED <<outcomes, failure_reason, programVars, brokerVars, reportVars>>

\* Some check of preflight fails, before or after the claims are loaded.
PreflightFails(file) ==
  /\ phase = "Preflight"
  /\ loaded_claims' \in {Err, LoadClaims(file, scenario)}
  /\ Fail
  /\ UNCHANGED <<outcomes, programVars, brokerVars, reportVars>>

\* start_mqtt_broker: compose down, whose result is ignored, then compose up.
ComposeUp ==
  /\ phase = "StartInfra" /\ Template.requires_docker
  /\ broker' = TRUE
  /\ Goto("PollBroker")
  /\ UNCHANGED <<loaded_claims, outcomes, failure_reason, programVars,
                 mqtt_broker_started, reportVars>>

ComposeUpFails ==
  /\ phase = "StartInfra" /\ Template.requires_docker
  /\ broker' \in BOOLEAN
  /\ Fail
  /\ UNCHANGED <<loaded_claims, outcomes, programVars, mqtt_broker_started, reportVars>>

BrokerReady ==
  /\ phase = "PollBroker"
  /\ mqtt_broker_started' = TRUE
  /\ Goto("StartStreamer")
  /\ UNCHANGED <<loaded_claims, outcomes, failure_reason, programVars, broker, reportVars>>

\* The broker does not come up in time, or the poll command fails.
BrokerNotReady ==
  /\ phase = "PollBroker"
  /\ Fail
  /\ UNCHANGED <<loaded_claims, outcomes, programVars, brokerVars, reportVars>>

SkipBroker ==
  /\ phase = "StartInfra" /\ ~Template.requires_docker
  /\ Goto("StartStreamer")
  /\ UNCHANGED <<loaded_claims, outcomes, failure_reason, programVars, brokerVars, reportVars>>

\* spawn_template_process in the phase that starts the role.
Spawn(role, at, next) ==
  /\ phase = at
  /\ child' = [child EXCEPT ![role] = "running"]
  /\ handle' = [handle EXCEPT ![role] = "running"]
  /\ Goto(next)
  /\ UNCHANGED <<loaded_claims, outcomes, failure_reason, log, ready, leftover,
                 brokerVars, reportVars>>

StartStreamer == Spawn("streamer", "StartStreamer", "WaitStreamerReady")
StartPassive == Spawn("passive", "StartPassive", "WaitPassiveReady")
StartActive == Spawn("active", "StartActive", "WaitActive")

SpawnFails ==
  /\ phase \in {"StartStreamer", "StartPassive", "StartActive"}
  /\ Fail
  /\ UNCHANGED <<loaded_claims, outcomes, programVars, brokerVars, reportVars>>

\* wait_for_exact_marker looks at the log only, never at the process.
MarkerSeen(role, at, next) ==
  /\ phase = at /\ ready[role] > 0
  /\ Goto(next)
  /\ UNCHANGED <<loaded_claims, outcomes, failure_reason, programVars, brokerVars, reportVars>>

MarkerTimeout(role, at) ==
  /\ phase = at /\ ready[role] = 0
  /\ Fail
  /\ UNCHANGED <<loaded_claims, outcomes, programVars, brokerVars, reportVars>>

WaitStreamerReady ==
  \/ MarkerSeen("streamer", "WaitStreamerReady", "StartPassive")
  \/ MarkerTimeout("streamer", "WaitStreamerReady")

WaitPassiveReady ==
  \/ MarkerSeen("passive", "WaitPassiveReady", "StartActive")
  \/ MarkerTimeout("passive", "WaitPassiveReady")

\* Variant: a sender that a signal ended counts as done.
ActiveSucceededNoCode(how) == how # "exit1"

\* exit_status_code of the active program is Some(0).
ActiveSucceeded(how) == how = "exit0"

\* wait_with_timeout on the bounded sender.
WaitActive ==
  /\ phase = "WaitActive"
  /\ child.active # "running"
  /\ handle' = [handle EXCEPT !.active = child.active]
  /\ IF ActiveSucceeded(child.active)
       THEN Goto("ValidateClaims") /\ UNCHANGED failure_reason
       ELSE Fail
  /\ UNCHANGED <<loaded_claims, outcomes, child, log, ready, leftover, brokerVars, reportVars>>

ActiveTimeout ==
  /\ phase = "WaitActive" /\ child.active = "running"
  /\ Fail
  /\ UNCHANGED <<loaded_claims, outcomes, programVars, brokerVars, reportVars>>

\* The outcomes are kept for the report whether or not the phase succeeds.
ValidateClaims ==
  /\ phase = "ValidateClaims"
  /\ outcomes' = EvaluateClaims(loaded_claims, log)
  /\ IF ready.streamer = 1 /\ ready.passive = 1 /\ ~SomeClaimFailed(outcomes')
       THEN /\ phase' = "Teardown" /\ turn' = 1 /\ step' = "check"
            /\ UNCHANGED <<scenario, failure_reason>>
       ELSE Fail
  /\ UNCHANGED <<loaded_claims, programVars, brokerVars, reportVars>>

-----------------------------------------------------------------------------
(* Teardown and report.                                                    *)

\* A `?` of the teardown phase: what comes after it is skipped.  The error is
\* recorded unless an earlier phase has failed.
TeardownFails ==
  /\ failure_reason' = IF failure_reason = "none" THEN "Teardown" ELSE failure_reason
  /\ Goto("FinalizeReport")

\* Variant: goes on past the last program.
TerminatedOneMore ==
  /\ step' = "check"
  /\ IF turn <= Len(TeardownOrder)
       THEN turn' = turn + 1 /\ UNCHANGED phase
       ELSE phase' = "StopBroker" /\ UNCHANGED turn
  /\ UNCHANGED <<scenario, failure_reason>>

\* terminate_gracefully returns Ok: on to the next program.
Terminated ==
  /\ step' = "check"
  /\ IF turn < Len(TeardownOrder)
       THEN turn' = turn + 1 /\ UNCHANGED phase
       ELSE phase' = "StopBroker" /\ UNCHANGED turn
  /\ UNCHANGED <<scenario, failure_reason>>

Stage(next) == step' = next /\ UNCHANGED <<scenario, phase, turn, failure_reason>>

AtStage(stage) == phase = "Teardown" /\ step = stage

Current == TeardownOrder[turn]

\* refresh_exit_status of the program whose turn it is.
Refreshed ==
  IF handle[Current] \in Exited \/ child[Current] = "running"
    THEN handle
    ELSE [handle EXCEPT ![Current] = child[Current]]

TeardownFrame ==
  UNCHANGED <<loaded_claims, outcomes, child, log, ready, leftover, brokerVars, reportVars>>

\* A program that was never started has no handle.
NothingToTerminate ==
  /\ AtStage("check") /\ handle[Current] = "none"
  /\ Terminated /\ UNCHANGED handle /\ TeardownFrame

\* A program with an exit code is done with; one that a signal ended has none
\* and is signalled again, which kill answers with ESRCH.
Interrupt ==
  /\ AtStage("check") /\ handle[Current] # "none"
  /\ handle' = Refreshed
  /\ IF handle'[Current] \in Exited THEN Terminated ELSE Stage("sigint")
  /\ TeardownFrame

\* wait_with_timeout after SIGINT or SIGTERM sees the program end.
SignalObeyed ==
  /\ phase = "Teardown" /\ step \in {"sigint", "sigterm"}
  /\ child[Current] # "running"
  /\ handle' = Refreshed
  /\ Terminated /\ TeardownFrame

\* Variant: the wait after SIGTERM has no bound.
GraceExpiresOnce ==
  /\ AtStage("sigint") /\ child[Current] = "running"
  /\ Stage("sigterm")
  /\ UNCHANGED handle /\ TeardownFrame

GraceExpires ==
  /\ phase = "Teardown" /\ step \in {"sigint", "sigterm"}
  /\ child[Current] = "running"
  /\ Stage(IF step = "sigint" THEN "sigterm" ELSE "final")
  /\ UNCHANGED handle /\ TeardownFrame

\* The last look asks for an exit code: a program that SIGTERM ended after its
\* grace window has none and counts as still there.
LastLook ==
  /\ AtStage("final")
  /\ handle' = Refreshed
  /\ IF handle'[Current] \in Exited THEN Terminated ELSE TeardownFails
  /\ TeardownFrame

\* kill or waitpid fails.
TerminateErr ==
  /\ phase = "Teardown" /\ handle[Current] # "none"
  /\ TeardownFails
  /\ UNCHANGED handle /\ TeardownFrame

\* stop_mqtt_broker, if this run saw its broker ready, then the three
\* ensure_process_exited.
StopBroker ==
  /\ phase = "StopBroker"
  /\ broker' = (broker /\ ~(Template.requires_docker /\ mqtt_broker_started))
  /\ IF \A role \in Roles : handle[role] # "running"
       THEN Goto("FinalizeReport") /\ UNCHANGED failure_reason
       ELSE TeardownFails
  /\ UNCHANGED <<loaded_claims, outcomes, programVars, mqtt_broker_started, reportVars>>

ComposeDownFails ==
  /\ phase = "StopBroker" /\ Template.requires_docker /\ mqtt_broker_started
  /\ broker' \in {broker, FALSE}
  /\ TeardownFails
  /\ UNCHANGED <<loaded_claims, outcomes, programVars, mqtt_broker_started, reportVars>>

Pass == failure_reason = "none" /\ ~SomeClaimFailed(outcomes)

WriteReport ==
  /\ phase = "FinalizeReport"
  /\ report' = [report EXCEPT ![scenario] = IF Pass THEN "PASS" ELSE "FAIL"]
  /\ exit_code' = IF Pass THEN "pass" ELSE "fail"
  /\ Goto("ended")
  /\ UNCHANGED <<loaded_claims, outcomes, failure_reason, programVars, brokerVars>>

\* The report cannot be written, or its JSON half is written and its text half
\* is not: the run ends with an error and names no report.
WriteReportFails ==
  /\ phase = "FinalizeReport"
  /\ \/ UNCHANGED report
     \/ report' = [report EXCEPT ![scenario] = IF Pass THEN "PASS" ELSE "FAIL"]
  /\ exit_code' = "error"
  /\ Goto("ended")
  /\ UNCHANGED <<loaded_claims, outcomes, failure_reason, programVars, brokerVars>>

\* The supervisor itself is ended from outside.  Its children are in process
\* groups of their own and live on.
SupervisorDies ==
  /\ phase # "ended"
  /\ exit_code' = "error"
  /\ Goto("ended")
  /\ UNCHANGED <<loaded_claims, outcomes, failure_reason, programVars, brokerVars, report>>

\* Where a wait is bounded, its timeout is one of these steps.
SupervisorStep ==
  \/ HardTimeout
  \/ \E file \in ClaimsFiles : Preflight(file) \/ PreflightFails(file)
  \/ ComposeUp \/ ComposeUpFails \/ BrokerReady \/ BrokerNotReady \/ SkipBroker
  \/ StartStreamer \/ StartPassive \/ StartActive \/ SpawnFails
  \/ WaitStreamerReady \/ WaitPassiveReady
  \/ WaitActive \/ ActiveTimeout \/ ValidateClaims
  \/ NothingToTerminate \/ Interrupt \/ SignalObeyed \/ GraceExpires \/ LastLook
  \/ StopBroker \/ ComposeDownFails \/ WriteReport \/ WriteReportFails

SupervisorNext == SupervisorStep \/ TerminateErr

-----------------------------------------------------------------------------
SmokeTypeOK ==
  /\ scenario \in Scenarios /\ phase \in Phases
  /\ turn \in 1..Len(TeardownOrder) /\ step \in {"check", "sigint", "sigterm", "final"}
  /\ child \in [Roles -> {"none", "running"} \cup Ended]
  /\ handle \in [Roles -> {"none", "running"} \cup Ended]
  /\ log \in [Roles -> [Patterns -> 0..MaxLines]] /\ ready \in [Roles -> 0..1]
  /\ failure_reason \in Phases \cup {"none"}
  /\ broker \in BOOLEAN /\ mqtt_broker_started \in BOOLEAN
  /\ leftover \subseteq Binaries
  /\ exit_code \in {"pass", "fail", "error", "none"}
  /\ report \in [Scenarios -> {"none", "PASS", "FAIL"}]

Passed == phase = "ended" /\ exit_code = "pass"

\* A run that exits with 0 leaves nothing behind and had nothing beside it: its
\* programs have ended, its broker is down, and no process of an earlier run has
\* one of its binaries.  Teardown may fail at any of its steps and skip the rest
\* (scenario.rs:984), and a supervisor may die with its programs running.
PassIsClean ==
  Passed =>
    /\ \A role \in Roles : child[role] \in Ended
    /\ Template.requires_docker => ~broker
    /\ Signatures(scenario) \cap leftover = {}

MustClaimsHold ==
  \A i \in DOMAIN loaded_claims :
    LET claim == loaded_claims[i]
    IN  claim.kind = "must_match" => /\ claim.file \in Roles
                                     /\ log[claim.file][claim.pattern] >= claim.min_count

\* A run that exits with 0 has its evidence: the sender ended with code 0,
\* streamer and listener were ready exactly once, and a claims file asked for
\* something and its must_match claims hold on the logs that are left.
PassIsEarned ==
  Passed =>
    /\ child.active = "exit0"
    /\ ready.streamer = 1 /\ ready.passive = 1
    /\ loaded_claims # Err /\ DOMAIN loaded_claims # {}
    /\ MustClaimsHold

=============================================================================
