----------------------------- MODULE SmokeMatrix -----------------------------
(***************************************************************************)
(* transport-smoke-matrix: runs the selected scenarios one after the other,*)
(* each as a process of its own (SmokeScenario), and decides from its exit *)
(* status and its report on disk whether it passed.                        *)
(***************************************************************************)
EXTENDS SmokeScenario

CONSTANT Selections     \* the lists of scenarios a caller may ask for

ASSUME SelectionsAssumption ==
  \A only \in Selections :
    /\ Len(only) \in Nat /\ DOMAIN only = 1..Len(only)
    /\ \A i \in DOMAIN only : only[i] \in Scenarios

VARIABLES
  selected,      \* the scenarios of this matrix run
  matrix,        \* "start", "next", "running", "done"
  summaries,     \* MatrixScenarioSummary: TRUE for PASS
  codes,         \* history: what the scenarios' processes exited with
  matrix_exit    \* exit code of the matrix, as exit_code

matrixVars == <<selected, matrix, summaries, codes, matrix_exit>>
vars == <<scenarioVars, matrixVars>>

Init ==
  /\ ScenarioInit
  /\ selected = << >> /\ matrix = "start" /\ summaries = << >> /\ codes = << >>
  /\ matrix_exit = "none"

\* Branch guard, selection, the claims path and the build, up to the loop.  A
\* claims path that is a file is for one scenario only.
StartMatrix(only, claims_is_file) ==
  /\ matrix = "start"
  /\ ~(claims_is_file /\ Len(only) > 1)
  /\ selected' = only /\ matrix' = "next"
  /\ UNCHANGED <<scenarioVars, summaries, codes, matrix_exit>>

MatrixFails ==
  /\ matrix = "start"
  /\ matrix' = "done" /\ matrix_exit' = "error"
  /\ UNCHANGED <<scenarioVars, selected, summaries, codes>>

More == Len(summaries) < Len(selected)

\* run_single_scenario starts the scenario's binary.
RunSingleScenario ==
  /\ matrix = "next" /\ More
  /\ LET s == selected[Len(summaries) + 1] IN StartRun(s) \/ SetupFails(s)
  /\ matrix' = "running"
  /\ UNCHANGED <<selected, summaries, codes, matrix_exit>>

Summarise(pass, code) ==
  /\ summaries' = Append(summaries, pass)
  /\ codes' = Append(codes, code)
  /\ matrix' = "next"
  /\ UNCHANGED <<selected, matrix_exit>>

BinaryMissing ==
  /\ matrix = "next" /\ More
  /\ Summarise(FALSE, "none")
  /\ UNCHANGED scenarioVars

\* Variant: the exit status is not looked at.
SummaryOfReportOnly == report[scenario] = "PASS"

\* The report is the one the process named or, when it named none, the latest
\* on disk, which may be an earlier run's.  No report is an error, and so is a
\* report that says PASS beside a status that does not.
SummaryOf == report[scenario] = "PASS" /\ exit_code = "pass"

CollectScenario ==
  /\ matrix = "running" /\ phase = "ended"
  /\ Summarise(SummaryOf, exit_code)
  /\ UNCHANGED scenarioVars

FinishMatrix ==
  /\ matrix = "next" /\ ~More
  /\ matrix' = "done"
  /\ \/ matrix_exit' = IF \A i \in 1..Len(summaries) : summaries[i] THEN "pass" ELSE "fail"
     \/ matrix_exit' = "error"        \* write_matrix_summary fails
  /\ UNCHANGED <<scenarioVars, selected, summaries, codes>>

MatrixNext ==
  \/ \E only \in Selections, claims_is_file \in BOOLEAN : StartMatrix(only, claims_is_file)
  \/ MatrixFails
  \/ RunSingleScenario \/ BinaryMissing \/ CollectScenario \/ FinishMatrix

SuiteNext == (SupervisorNext /\ UNCHANGED matrixVars) \/ MatrixNext

SuiteStep == (SupervisorStep /\ UNCHANGED matrixVars) \/ MatrixNext

Next ==
  \/ SuiteNext
  \/ (SupervisorDies /\ UNCHANGED matrixVars)
  \/ (ProgramNext /\ UNCHANGED matrixVars)

\* Fairness: supervisor and matrix go on while they can.  A bounded wait always
\* can, for its timeout needs no help from the program; nothing is asked of the
\* programs, which may hang for ever, and kill need not fail to end a teardown.  A
\* shell command is taken to return.
Spec == Init /\ [][Next]_vars /\ WF_vars(SuiteStep)

-----------------------------------------------------------------------------
\* A scenario counts as passed only if the process started for it in this matrix
\* run exited with 0, although the report may be one that an earlier run left
\* (find_latest_scenario_report), and the matrix exits with 0 only if all did.
MatrixPassIsHonest ==
  /\ \A i \in 1..Len(summaries) : summaries[i] => codes[i] = "pass"
  /\ matrix_exit = "pass" =>
       Len(codes) = Len(selected) /\ \A i \in 1..Len(codes) : codes[i] = "pass"

\* The matrix comes to an end whatever the programs of its scenarios do.
MatrixEnds == <>(matrix = "done")

=============================================================================
