----------------------------- MODULE TestCases -----------------------------
(***************************************************************************)
(* The single-process test cases of one submission: runTestCases in        *)
(* cmd/autoscan-server/grade.go, Execute and ExecuteTestCase in            *)
(* internal/engine/executor.go, and the verdicts of pkg/domain/execute.go  *)
(* and valgrind.go.  The cases run one after another in the submission's   *)
(* directory, so what one leaves there the next one finds.                 *)
(*                                                                         *)
(* A case is a record: ref tells whether an ExpectedOutputFile is          *)
(* configured and exists, file whether it is compared with the case's      *)
(* ProducedFile or with stdout.  All cases share one produced file.  A     *)
(* text is what was expected or something else; no output is something     *)
(* else.  The processes a program forks report to one log, in the order    *)
(* they end and each at once (two that end together may in fact mix their  *)
(* lines).  A report has an ERROR SUMMARY and a FILE DESCRIPTORS line,     *)
(* each an issue or not, and a LEAK SUMMARY unless everything was freed:   *)
(* of leaks, or empty, of zero bytes, when what is left has no size.  The  *)
(* program runs under bwrap: no process outlives it to hold its stdout     *)
(* open.                                                                   *)
(***************************************************************************)
EXTENDS Integers, Sequences, FiniteSets

CONSTANTS
    Plans,       \* sequences of cases, the policy's Run.TestCases
    Reports,     \* what Memcheck may say of one process
    MaxReports   \* bound: processes of one run that report

Report == [issues : SUBSET {"errors", "fds"}, heap : {"freed", "empty", "leaks"}]
Case == [ref : {"none", "absent", "present"}, file : BOOLEAN]
Texts == {"expected", "other"}

ASSUME TestCasesAssumption ==
    /\ Plans \subseteq Seq(Case)
    /\ Reports \subseteq Report
    /\ MaxReports \in Nat

VARIABLES
    plan, compile,
    at,        \* the step of runTestCases and of the calls under it
    produced,  \* content of the produced file in the submission's directory
    run,       \* what the program of the current case did
    result,    \* the ExecuteResult
    cases,     \* TestSummary.Cases
    summary    \* its counters

vars == <<plan, compile, at, produced, run, result, cases, summary>>

NoRun == [ending |-> "none", expired |-> FALSE, stdout |-> "other",
          wrote |-> "nothing", log |-> <<>>]

(* The case being executed, and the one executed last. *)
Current == plan[Len(cases) + 1]
Latest == plan[Len(cases)]

-----------------------------------------------------------------------------
(* Verdicts *)

NewExecuteResult(ok, timedOut) ==
    [ok |-> ok, timedOut |-> timedOut, passed |-> ok /\ ~timedOut,
     crash |-> FALSE, valgrind |-> "none", match |-> "none"]

(* Variant: the leaks, too, are read from the first report only. *)
ParseFirstReport(log) ==
    IF log = <<>> THEN "unreported"
    ELSE IF Head(log).issues # {} \/ Head(log).heap = "leaks" THEN "issues" ELSE "clean"

(* Each leak line assigns its kind: the last LEAK SUMMARY is what is left. *)
LeaksLeft(log) ==
    \E k \in DOMAIN log : /\ log[k].heap = "leaks"
                          /\ \A j \in k + 1 .. Len(log) : log[j].heap # "empty"

(* The first ERROR SUMMARY and the first FILE DESCRIPTORS line are read,   *)
(* and the last LEAK SUMMARY.  A log without a report fails to parse.      *)
ParseValgrindLog(log) ==
    CASE log = <<>> -> "unreported"
      [] log # <<>> /\ (Head(log).issues # {} \/ LeaksLeft(log)) -> "issues"
      [] OTHER -> "clean"

(* ValgrindResult.Fails: an unreported run has Status fail, but no counts. *)
Fails(valgrind) == valgrind \in {"missing", "issues"}

WithValgrind(r, valgrind) ==
    [r EXCEPT !.valgrind = valgrind, !.passed = @ /\ ~Fails(valgrind)]

WithCrash(r, crash) == [r EXCEPT !.crash = crash, !.passed = @ /\ ~crash]

(* SIGKILL is the deadline's, or else the memory limit's. *)
CrashReason(ending, timedOut) ==
    ending = "fatal" \/ (ending = "killed" /\ ~timedOut)

(* Variant: a crash is looked for before the deadline. *)
TestCaseStatusCrashFirst(r) ==
    CASE r.crash -> "crashed"
      [] ~r.crash /\ r.timedOut -> "timeout"
      [] ~r.crash /\ ~r.timedOut /\ (~r.passed \/ r.match = "fail") -> "fail"
      [] OTHER -> "pass"

TestCaseStatus(r) ==
    CASE r.timedOut -> "timeout"
      [] ~r.timedOut /\ r.crash -> "crashed"
      [] ~r.timedOut /\ ~r.crash /\ (~r.passed \/ r.match = "fail" \/ Fails(r.valgrind)) -> "fail"
      [] OTHER -> "pass"

Match(text) == IF text = "expected" THEN "pass" ELSE "fail"

(* ExecuteTestCase after the run. *)
OutputMatch(case, content, stdout) ==
    CASE case.ref = "none" -> "none"
      [] case.ref = "absent" \/ (case.ref = "present" /\ case.file /\ content = "absent") -> "missing"
      [] case.ref = "present" /\ case.file /\ content # "absent" -> Match(content)
      [] case.ref = "present" /\ ~case.file -> Match(stdout)

Counted(s, status, match) ==
    [s EXCEPT !.passed = @ + (IF status = "pass" THEN 1 ELSE 0),
              !.compileFailed = @ + (IF status = "compile_failed" THEN 1 ELSE 0),
              !.failed = @ + (IF status \in {"pass", "compile_failed"} THEN 0 ELSE 1),
              !.missing = @ + (IF match = "missing" THEN 1 ELSE 0)]

-----------------------------------------------------------------------------
Init ==
    /\ plan \in Plans /\ compile \in {"ok", "failed", "timeout"}
    /\ at = "next" /\ produced = "absent"
    /\ run = NoRun /\ result = NewExecuteResult(FALSE, FALSE)
    /\ cases = <<>>
    /\ summary = [passed |-> 0, failed |-> 0, compileFailed |-> 0, missing |-> 0]

(* Without a program every case is compile_failed. *)
FailUncompiled ==
    /\ at = "next" /\ Len(cases) < Len(plan) /\ compile # "ok"
    /\ cases' = Append(cases, [status |-> "compile_failed", match |-> "none"])
    /\ summary' = Counted(summary, "compile_failed", "none")
    /\ UNCHANGED <<plan, compile, at, produced, run, result>>

(* Variant: what an earlier case produced stays. *)
BeginCaseKeepsFile ==
    /\ at = "next" /\ Len(cases) < Len(plan) /\ compile = "ok"
    /\ at' = "staging" /\ run' = NoRun
    /\ UNCHANGED <<plan, compile, produced, result, cases, summary>>

(* ExecuteTestCase removes a file an earlier case left. *)
BeginCase ==
    /\ at = "next" /\ Len(cases) < Len(plan) /\ compile = "ok"
    /\ produced' = IF Current.file THEN "absent" ELSE produced
    /\ at' = "staging" /\ run' = NoRun
    /\ UNCHANGED <<plan, compile, result, cases, summary>>

(* stageTestFiles, and the way back when a file is missing. *)
StageTestFiles ==
    /\ at = "staging"
    /\ \/ at' = "preflight" /\ UNCHANGED result
       \/ at' = "comparing" /\ result' = NewExecuteResult(FALSE, FALSE)
    /\ UNCHANGED <<plan, compile, produced, run, cases, summary>>

(* executionCommand: no valgrind, or no log file for it, and no run. *)
Preflight ==
    /\ at = "preflight"
    /\ \/ at' = "starting" /\ UNCHANGED result
       \/ /\ at' = "comparing"
          /\ \E v \in {"missing", "unreported"} :
                result' = WithValgrind(NewExecuteResult(FALSE, FALSE), v)
    /\ UNCHANGED <<plan, compile, produced, run, cases, summary>>

StartProgram ==
    /\ at = "starting"
    /\ \/ at' = "running" /\ UNCHANGED run
       \/ at' = "ended" /\ run' = [run EXCEPT !.ending = "unstarted"]
    /\ UNCHANGED <<plan, compile, produced, result, cases, summary>>

(* The program's own steps: its last word on stdout and in the file. *)
WriteStdout ==
    /\ at = "running"
    /\ \E t \in Texts : run' = [run EXCEPT !.stdout = t]
    /\ UNCHANGED <<plan, compile, at, produced, result, cases, summary>>

WriteFile ==
    /\ at = "running"
    /\ \E t \in Texts : produced' = t /\ run' = [run EXCEPT !.wrote = t]
    /\ UNCHANGED <<plan, compile, at, result, cases, summary>>

(* A process of the program ends and Memcheck reports on it. *)
ProcessReports ==
    /\ at = "running" /\ Len(run.log) < MaxReports
    /\ \E report \in Reports : run' = [run EXCEPT !.log = Append(@, report)]
    /\ UNCHANGED <<plan, compile, at, produced, result, cases, summary>>

(* An exit code, or a signal crashReasonFromExit has no name for, is exit. *)
ProgramEnds ==
    /\ at = "running" /\ at' = "ended"
    /\ \E e \in {"exit", "fatal"} : run' = [run EXCEPT !.ending = e]
    /\ UNCHANGED <<plan, compile, produced, result, cases, summary>>

(* The context of ten seconds expires, until Execute has looked at it. *)
Deadline ==
    /\ at \in {"starting", "running", "ended"} /\ ~run.expired
    /\ run' = [run EXCEPT !.expired = TRUE]
    /\ UNCHANGED <<plan, compile, at, produced, result, cases, summary>>

(* cmd.Cancel, or the memory limit. *)
Kill ==
    /\ at = "running" /\ at' = "ended"
    /\ run' = [run EXCEPT !.ending = "killed"]
    /\ UNCHANGED <<plan, compile, produced, result, cases, summary>>

(* Execute after cmd.Run: any end but a failure to run is OK. *)
Collect ==
    /\ at = "ended" /\ at' = "comparing"
    /\ result' = WithCrash(
                    WithValgrind(NewExecuteResult(run.ending # "unstarted", run.expired),
                                 ParseValgrindLog(run.log)),
                    CrashReason(run.ending, run.expired))
    /\ UNCHANGED <<plan, compile, produced, run, cases, summary>>

Compare ==
    /\ at = "comparing" /\ at' = "adding"
    /\ result' = [result EXCEPT !.match = OutputMatch(Current, produced, run.stdout)]
    /\ UNCHANGED <<plan, compile, produced, run, cases, summary>>

AddCase ==
    /\ at = "adding" /\ at' = "next"
    /\ cases' = Append(cases, [status |-> TestCaseStatus(result), match |-> result.match])
    /\ summary' = Counted(summary, TestCaseStatus(result), result.match)
    /\ UNCHANGED <<plan, compile, produced, run, result>>

Return ==
    /\ at = "next" /\ Len(cases) = Len(plan) /\ at' = "done"
    /\ UNCHANGED <<plan, compile, produced, run, result, cases, summary>>

ExecutorStep ==
    \/ FailUncompiled \/ BeginCase \/ StageTestFiles \/ Preflight
    \/ StartProgram \/ Collect \/ Compare \/ AddCase \/ Return
ProgramStep == WriteStdout \/ WriteFile \/ ProcessReports \/ ProgramEnds
Next == ExecutorStep \/ ProgramStep \/ Deadline \/ Kill

(* A program is not obliged to end; its deadline is, and SIGKILL works. *)
Spec == Init /\ [][Next]_vars
FairSpec == Spec /\ WF_vars(ExecutorStep) /\ WF_vars(Deadline)
                 /\ WF_vars(Kill /\ run.expired)

-----------------------------------------------------------------------------
(* Type correctness of the state of runTestCases. *)
TypeOK ==
    /\ plan \in Plans /\ compile \in {"ok", "failed", "timeout"}
    /\ at \in {"next", "staging", "preflight", "starting", "running", "ended",
               "comparing", "adding", "done"}
    /\ produced \in Texts \cup {"absent"}
    /\ run.ending \in {"none", "unstarted", "exit", "fatal", "killed"}
    /\ run.expired \in BOOLEAN /\ run.stdout \in Texts
    /\ run.wrote \in Texts \cup {"nothing"}
    /\ \A k \in DOMAIN run.log : run.log[k] \in Reports
    /\ result.valgrind \in {"none", "missing", "unreported", "issues", "clean"}
    /\ result.match \in {"none", "pass", "fail", "missing"}
    /\ Len(cases) <= Len(plan)
    /\ \A c \in DOMAIN summary : summary[c] \in 0 .. Len(plan)

(* How many cases have one of the statuses. *)
CountOf(statuses) ==
    Cardinality({k \in DOMAIN cases : cases[k].status \in statuses})

(* TestSummary agrees with its cases: every planned case of a submission   *)
(* that is done was counted once, whatever stopped it, and none passed or  *)
(* ran that could not be compiled (AddCase, runTestCases).                 *)
SummaryAddsUp ==
    /\ summary.passed = CountOf({"pass"})
    /\ summary.compileFailed = CountOf({"compile_failed"})
    /\ summary.failed = CountOf({"fail", "crashed", "timeout"})
    /\ summary.missing = Cardinality({k \in DOMAIN cases : cases[k].match = "missing"})
    /\ summary.compileFailed = IF compile = "ok" THEN 0 ELSE Len(cases)
    /\ at = "done" =>
         summary.passed + summary.failed + summary.compileFailed = Len(plan)

(* A file compared with the expected output was written by this case's     *)
(* program and not left by an earlier one's (ExecuteTestCase's Remove).    *)
FreshFileOnly ==
    at = "adding" /\ Current.file /\ result.match \in {"pass", "fail"} =>
        run.wrote # "nothing" /\ result.match = Match(run.wrote)

(* A case of a compiled submission that was just counted as passed. *)
JustPassed ==
    /\ at = "next" /\ compile = "ok" /\ cases # <<>>
    /\ cases[Len(cases)].status = "pass"

(* What the log of a program that passes is known to say: whoever reported *)
(* first had no errors and no descriptors open, and a process leaked only  *)
(* if one that reported after it had an empty LEAK SUMMARY.  So a process  *)
(* that reports alone is clean, and of a program that forks no more than   *)
(* this is known (ParseValgrindLog).                                       *)
Vouched(log) ==
    /\ log # <<>> => Head(log).issues = {}
    /\ \A k \in DOMAIN log : log[k].heap = "leaks" =>
          \E j \in k + 1 .. Len(log) : log[j].heap = "empty"

(* What a pass is worth, told from what the program did and not from what  *)
(* Execute made of it: the program ran, came to its own end in time and    *)
(* without a fatal signal, its log vouches for it as far as a log does,    *)
(* and what was compared was what was expected; a file that is expected    *)
(* and was never written is not compared (TestCaseResult, WithCrash,       *)
(* WithValgrind, ExecuteTestCase).                                         *)
PassIsEarned ==
    JustPassed =>
        /\ run.ending = "exit" /\ ~run.expired
        /\ Vouched(run.log)
        /\ Latest.ref = "present" =>
             IF Latest.file THEN produced # "other" ELSE run.stdout = "expected"

(* Each case is counted, and an executed one is never blamed for the       *)
(* deadline and the memory limit at once, nor a program that neither       *)
(* killed: a crashed case saw a fatal signal or a kill before its deadline *)
(* (crashReasonFromExit, TestCaseResult).                                  *)
BlameIsRight ==
    /\ SummaryAddsUp
    /\ at = "next" /\ compile = "ok" /\ cases # <<>> =>
          CASE cases[Len(cases)].status = "timeout" -> run.expired
            [] cases[Len(cases)].status = "crashed" ->
                  ~run.expired /\ run.ending \in {"fatal", "killed"}
            [] OTHER -> ~(run.expired \/ run.ending \in {"fatal", "killed"})

(* "Always-on Valgrind validation for leaks, reachable memory, memory      *)
(* errors, and open file descriptors" (README.md): in a case that passes,  *)
(* no process of the program had memory errors.                            *)
EveryProcessValidated ==
    JustPassed => \A k \in DOMAIN run.log : "errors" \notin run.log[k].issues

=============================================================================
