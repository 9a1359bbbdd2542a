----------------------------- MODULE Execution -----------------------------
(***************************************************************************)
(* What a grading run executes of one compiled submission: its policy asks *)
(* for a multi-process scenario or, if it does not, for test cases         *)
(* (runGradingPipeline, HasMultiProcess).                                  *)
(***************************************************************************)
EXTENDS Scenario

NoScenario ==
    /\ executables = <<>> /\ sandboxed = FALSE /\ stage = "done" /\ host = "off"
    /\ proc = <<>> /\ pipe = <<>> /\ outcomes = <<>> /\ launches = <<>>
    /\ outer = "live" /\ processes = <<>> /\ allPassed = FALSE

NoCases ==
    /\ plan = <<>> /\ compile = "ok" /\ at = "done" /\ produced = "absent"
    /\ run = NoRun /\ result = NewExecuteResult(FALSE, FALSE) /\ cases = <<>>
    /\ summary = [passed |-> 0, failed |-> 0, compileFailed |-> 0, missing |-> 0]

ExecutionInit == (Init /\ NoScenario) \/ (NoCases /\ ScenarioInit)

Case1 == Next /\ UNCHANGED scenarioVars
Scenario1 == ScenarioNext /\ UNCHANGED vars
ExecutionNext == Case1 \/ Scenario1

ExecutionSpec == ExecutionInit /\ [][ExecutionNext]_<<vars, scenarioVars>>

(* No program is obliged to end, nor a host; deadlines pass, and SIGKILL   *)
(* works.                                                                  *)
ExecutionFairSpec ==
    /\ ExecutionSpec
    /\ WF_vars(ExecutorStep /\ UNCHANGED scenarioVars)
    /\ WF_vars(Deadline /\ UNCHANGED scenarioVars)
    /\ WF_vars(Kill /\ run.expired /\ UNCHANGED scenarioVars)
    /\ WF_scenarioVars((EngineStep \/ EndHost) /\ UNCHANGED vars)
    /\ WF_scenarioVars(StopScenario /\ UNCHANGED vars)
    /\ WF_scenarioVars(KillHost /\ Stopped /\ UNCHANGED vars)
    /\ WF_scenarioVars(/\ ~sandboxed /\ UNCHANGED vars
                       /\ \E e \in DOMAIN executables : HostStep(e) \/ CancelProcess(e))

(***************************************************************************)
(* Properties.                                                             *)
(***************************************************************************)
\* The test cases of a submission end, and so does a scenario ("returns one
\* buffered result per scenario", README.md), though a program never does, the
\* host hangs or dies, or its pipe is cut (Execute's deadline, ExecuteMultiProcess).
ExecutionEnds == <>(at = "done" /\ stage = "done")
=============================================================================
