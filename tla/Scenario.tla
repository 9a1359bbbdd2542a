------------------------------ MODULE Scenario ------------------------------
(***************************************************************************)
(* One multi-process scenario of a submission: executeMultiProcess-        *)
(* WithOverrides in internal/engine/executor.go and the scenario host of   *)
(* scenario.go, which runs every process inside one sandbox and writes an  *)
(* outcome to the engine, through a pipe, as each process ends.            *)
(*                                                                         *)
(* An executable is a record: ref is the expected output the scenario has  *)
(* for it, built whether its program and its Memcheck log are there,       *)
(* delayed whether the scenario starts it later than the others (without a *)
(* program or a log it gets a verdict and no process).  Outcomes are       *)
(* keyed by position in the spec, which leaves out what cannot be run;     *)
(* verdicts by name, here the position in the policy.  A program is one    *)
(* step: nobody looks at it between its start and its end.                 *)
(***************************************************************************)
EXTENDS TestCases, Functions, SequencesExt

CONSTANT Scenarios    \* sequences of executables, run.multi_process with one scenario

Executable == [ref : {"none", "absent", "present"}, built : BOOLEAN, delayed : BOOLEAN]

ASSUME ScenarioAssumption == Scenarios \subseteq Seq(Executable)

VARIABLES
    executables, sandboxed,
    stage,      \* planning, running, collecting, done
    host,       \* the process of executeScenario: off, up, ended, failed
    proc,       \* what each executable's process did
    pipe,       \* outcomes written and not read yet
    outcomes,   \* outcomes read, at positions in launches
    launches,   \* positions in executables, in the order of the spec
    outer,      \* the context of the scenario: live, expired or cancelled
    processes,  \* verdicts
    allPassed

scenarioVars == <<executables, sandboxed, stage, host, proc, pipe, outcomes, launches, outer,
                  processes, allPassed>>

NoProcess == [pc |-> "none", ending |-> "none", expired |-> FALSE, stdout |-> "other", log |-> <<>>]
NoVerdict == [stdout |-> "other", timedOut |-> FALSE, killed |-> FALSE, crash |-> FALSE,
              passed |-> FALSE, match |-> "none", valgrind |-> "none"]
NoOutcome == [index |-> 0]

Position(e) == CHOOSE n \in DOMAIN launches : launches[n] = e
Stopped == outer # "live"

(* The one sequence that lists a set of positions in the policy's order.   *)
InOrder(S) == {s \in [1 .. Cardinality(S) -> S] : \A m, n \in DOMAIN s : m < n => s[m] < s[n]}

-----------------------------------------------------------------------------
(* The spec: a process for each executable that can be run, none when      *)
(* staging failed (failedStage).                                           *)
PlanScenario ==
    /\ stage = "planning"
    /\ \E failedStage \in BOOLEAN :
          launches' \in IF failedStage THEN {<<>>}
                        ELSE InOrder({e \in DOMAIN executables : executables[e].built})
    /\ outcomes' = [n \in DOMAIN launches' |-> NoOutcome]
    /\ stage' = IF launches' = <<>> THEN "collecting" ELSE "running"
    /\ UNCHANGED <<executables, sandboxed, host, proc, pipe, outer, processes, allPassed>>

(* cmd.Start, and the host's own start inside bwrap, can fail; without a   *)
(* sandbox the engine starts the processes itself.                         *)
StartHost ==
    /\ stage = "running" /\ host = "off"
    /\ \/ /\ host' = "up"
          /\ proc' = [e \in DOMAIN proc |->
                        IF e \in Range(launches) THEN [proc[e] EXCEPT !.pc = "delayed"] ELSE proc[e]]
       \/ /\ sandboxed /\ host' = "failed"
          /\ UNCHANGED proc
    /\ UNCHANGED <<executables, sandboxed, stage, pipe, outcomes, launches, outer, processes, allPassed>>

(* runScenarioProcess after its delay; the host's context is never done.   *)
StartProcess(e) ==
    /\ host = "up" /\ proc[e].pc = "delayed"
    /\ \/ proc' = [proc EXCEPT ![e].pc = "running"]
       \/ proc' = [proc EXCEPT ![e].pc = "ended", ![e].ending = "unstarted"]
    /\ UNCHANGED <<executables, sandboxed, stage, host, pipe, outcomes, launches, outer, processes,
                   allPassed>>

(* Without a sandbox a delay ends with the context.                        *)
EndDelay(e) ==
    /\ host = "up" /\ proc[e].pc = "delayed" /\ executables[e].delayed
    /\ ~sandboxed /\ Stopped
    /\ proc' = [proc EXCEPT ![e].pc = "ended", ![e].ending = "undelayed"]
    /\ UNCHANGED <<executables, sandboxed, stage, host, pipe, outcomes, launches, outer, processes,
                   allPassed>>

(* The program ends, or is killed; "held" is an exit with 0 that left its  *)
(* output open for longer than scenarioWaitDelay, an error of cmd.Run.     *)
(* The processes it forked reported to its log.  Only an exit can pass, so *)
(* only of an exit the log is looked at.                                   *)
EndProcess(e, ending) ==
    /\ host = "up" /\ proc[e].pc = "running"
    /\ \E text \in Texts, log \in SeqOf(Reports, MaxReports) :
          /\ ending # "exit" => log = <<>>
          /\ proc' = [proc EXCEPT ![e].pc = "ended", ![e].ending = ending,
                                  ![e].stdout = text, ![e].log = log]
    /\ UNCHANGED <<executables, sandboxed, stage, host, pipe, outcomes, launches, outer, processes,
                   allPassed>>

(* Its ten seconds are over; cmd.Cancel then kills what still runs.        *)
ProcessDeadline(e) ==
    /\ host = "up" /\ proc[e].pc \in {"running", "ended"} /\ ~proc[e].expired
    /\ proc[e].ending # "undelayed"
    /\ proc' = [proc EXCEPT ![e].expired = TRUE]
    /\ UNCHANGED <<executables, sandboxed, stage, host, pipe, outcomes, launches, outer, processes,
                   allPassed>>

(* The contexts of runScenarioProcess: its own, under the scenario's when  *)
(* the engine runs it.                                                     *)
OutcomeOf(e) ==
    LET p == proc[e]
        above == ~sandboxed /\ Stopped
        late == p.expired \/ (~sandboxed /\ outer = "expired") IN
    [index   |-> Position(e),
     started |-> p.ending # "undelayed",
     killed  |-> p.expired \/ above,
     timedOut |-> p.ending # "undelayed" /\ late,
     crash   |-> CrashReason(p.ending, late),
     startFailed |-> p.ending \in {"unstarted", "held"},
     stdout  |-> p.stdout]

Emit(e) ==
    /\ host = "up" /\ proc[e].pc = "ended"
    /\ proc' = [proc EXCEPT ![e].pc = "emitted"]
    /\ IF sandboxed
       THEN pipe' = Append(pipe, OutcomeOf(e)) /\ UNCHANGED outcomes
       ELSE outcomes' = [outcomes EXCEPT ![Position(e)] = OutcomeOf(e)] /\ UNCHANGED pipe
    /\ UNCHANGED <<executables, sandboxed, stage, host, launches, outer, processes, allPassed>>

(* The host returns once every process has been waited for.                *)
EndHost ==
    /\ host = "up" /\ \A e \in Range(launches) : proc[e].pc = "emitted"
    /\ host' = "ended"
    /\ UNCHANGED <<executables, sandboxed, stage, proc, pipe, outcomes, launches, outer, processes,
                   allPassed>>

(* The sandbox dies, and its processes with it: killed by the context or   *)
(* for the memory it used.                                                 *)
KillHost ==
    /\ host = "up" /\ sandboxed
    /\ host' = "failed"
    /\ proc' = [e \in DOMAIN proc |-> IF proc[e].pc \in {"delayed", "running", "ended"}
                                      THEN [proc[e] EXCEPT !.pc = "lost"] ELSE proc[e]]
    /\ UNCHANGED <<executables, sandboxed, stage, pipe, outcomes, launches, outer, processes, allPassed>>

ReadOutcome ==
    /\ stage = "running" /\ pipe # <<>>
    /\ outcomes' = [outcomes EXCEPT ![Head(pipe).index] = Head(pipe)]
    /\ pipe' = Tail(pipe)
    /\ UNCHANGED <<executables, sandboxed, stage, host, proc, launches, outer, processes, allPassed>>

(* Variant with a bug: reads until it has an outcome of every process.     *)
CloseScenarioWhenAll ==
    /\ stage = "running" /\ host \in {"ended", "failed"} /\ pipe = <<>>
    /\ \A n \in DOMAIN outcomes : outcomes[n].index # 0
    /\ stage' = "collecting"
    /\ UNCHANGED <<executables, sandboxed, host, proc, pipe, outcomes, launches, outer, processes,
                   allPassed>>

(* The decoder reaches the end of the pipe, and cmd.Wait returns.          *)
CloseScenario ==
    /\ stage = "running" /\ host \in {"ended", "failed"} /\ pipe = <<>>
    /\ stage' = "collecting"
    /\ UNCHANGED <<executables, sandboxed, host, proc, pipe, outcomes, launches, outer, processes,
                   allPassed>>

(* The scenario's time, or the job's, is over; or the job is cancelled.    *)
StopScenario ==
    /\ stage = "running" /\ outer = "live"
    /\ outer' \in {"expired", "cancelled"}
    /\ UNCHANGED <<executables, sandboxed, stage, host, proc, pipe, outcomes, launches, processes,
                   allPassed>>

-----------------------------------------------------------------------------
(* Verdicts *)

(* Variant with a bug: no expected output is as good as none asked for.    *)
ApplyOutcomeMissingPasses(e, o) ==
    LET ref == executables[e].ref
        match == CASE ref = "none" -> "none" [] ref = "absent" -> "missing"
                   [] ref = "present" -> Match(o.stdout)
        valgrind == IF o.started THEN ParseValgrindLog(proc[e].log) ELSE "none" IN
    [stdout |-> o.stdout, timedOut |-> o.timedOut, killed |-> o.killed, crash |-> o.crash,
     match |-> match, valgrind |-> valgrind,
     passed |-> /\ ~o.startFailed /\ ~o.killed /\ ~o.crash
                /\ match # "fail" /\ ~Fails(valgrind)]

(* A missing expected output fails the process, unlike a test case.        *)
ApplyOutcome(e, o) ==
    LET ref == executables[e].ref
        match == CASE ref = "none" -> "none" [] ref = "absent" -> "missing"
                   [] ref = "present" -> Match(o.stdout)
        valgrind == IF o.started THEN ParseValgrindLog(proc[e].log) ELSE "none" IN
    [stdout |-> o.stdout, timedOut |-> o.timedOut, killed |-> o.killed, crash |-> o.crash,
     match |-> match, valgrind |-> valgrind,
     passed |-> /\ ~o.startFailed /\ ~o.killed /\ ~o.crash
                /\ match \notin {"fail", "missing"} /\ ~Fails(valgrind)]

(* A process with no outcome is killed, and late if the scenario was.      *)
Unanswered == [NoVerdict EXCEPT !.killed = TRUE, !.timedOut = (outer = "expired")]

(* Variant with a bug: outcomes are looked up by position in the policy.   *)
VerdictByPolicy(e) ==
    IF e \notin Range(launches) THEN NoVerdict
    ELSE IF e \notin DOMAIN outcomes THEN Unanswered
    ELSE IF outcomes[e].index = 0 THEN Unanswered
    ELSE ApplyOutcome(e, outcomes[e])

Verdict(e) ==
    IF e \notin Range(launches) THEN NoVerdict
    ELSE IF outcomes[Position(e)].index = 0 THEN Unanswered
    ELSE ApplyOutcome(e, outcomes[Position(e)])

(* computeMultiProcessStatus. *)
CollectScenario ==
    /\ stage = "collecting" /\ stage' = "done"
    /\ processes' = [e \in DOMAIN executables |-> Verdict(e)]
    /\ allPassed' = \A e \in DOMAIN executables : processes'[e].passed /\ ~processes'[e].killed
    /\ UNCHANGED <<executables, sandboxed, host, proc, pipe, outcomes, launches, outer>>

ScenarioInit ==
    /\ executables \in Scenarios /\ sandboxed \in BOOLEAN
    /\ stage = "planning" /\ host = "off"
    /\ proc = [e \in DOMAIN executables |-> NoProcess]
    /\ pipe = <<>> /\ outcomes = <<>> /\ launches = <<>> /\ outer = "live"
    /\ processes = [e \in DOMAIN executables |-> NoVerdict] /\ allPassed = FALSE

ProcessEnds(e) == \E ending \in {"exit", "held", "fatal", "killed"} : EndProcess(e, ending)

(* cmd.Cancel of the process: on its deadline, or on the scenario's stop.  *)
CancelProcess(e) ==
    (proc[e].expired \/ (~sandboxed /\ Stopped)) /\ EndProcess(e, "killed")

HostStep(e) == StartProcess(e) \/ EndDelay(e) \/ Emit(e)
EngineStep == PlanScenario \/ StartHost \/ ReadOutcome \/ CloseScenario \/ CollectScenario
ScenarioNext ==
    \/ EngineStep \/ EndHost \/ KillHost \/ StopScenario
    \/ \E e \in DOMAIN executables : HostStep(e) \/ ProcessEnds(e) \/ ProcessDeadline(e)

-----------------------------------------------------------------------------
(* When every process passed, each was launched, came to its own end in    *)
(* time, without a signal and without holding its output open, its log     *)
(* vouches for it as far as a log does, and it wrote what was expected     *)
(* wherever something was (applyOutcome, computeMultiProcessStatus).       *)
AllPassedEarned ==
    stage = "done" /\ allPassed =>
        \A e \in DOMAIN executables :
            /\ proc[e].pc = "emitted" /\ proc[e].ending = "exit" /\ ~proc[e].expired
            /\ Vouched(proc[e].log)
            /\ executables[e].ref = "present" => proc[e].stdout = "expected"
            /\ executables[e].ref # "absent"

(* Each verdict tells of its own process, whatever was left out of the     *)
(* spec, the order outcomes come in and how much of the scenario was cut   *)
(* short: what was reported before a kill counts, what was not is killed,  *)
(* and time is blamed only when it ran out (executeScenario).              *)
VerdictIsOwn ==
    stage = "done" =>
        \A e \in DOMAIN executables :
            LET v == processes[e] p == proc[e] IN
            CASE p.pc = "emitted" ->
                    /\ v.stdout = p.stdout
                    /\ p.expired => v.killed
                    /\ v.killed => p.expired \/ Stopped
                    /\ v.timedOut => p.expired \/ outer = "expired"
                    /\ v.crash => p.ending \in {"fatal", "killed"}
                    /\ p.ending = "fatal" => v.crash
              [] p.pc # "emitted" /\ e \in Range(launches) ->
                    /\ v.killed /\ ~v.passed
                    /\ v.timedOut => outer = "expired"
              [] OTHER -> ~v.killed /\ ~v.passed /\ ~v.timedOut

=============================================================================
