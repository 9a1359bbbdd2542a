--------------------------- MODULE GradePipeline ---------------------------
(***************************************************************************)
(* One grading run: runGradingPipeline in cmd/autoscan-server/grade.go,    *)
(* the runner, the compile workers of internal/engine/compiler.go with     *)
(* their shared library cache, the scan, the report and the progress bar.  *)
(*                                                                         *)
(* A submission is the sequence of what its distinct executables' sources  *)
(* are: one in a single-process assignment.  The workers are goroutines:   *)
(* the cache's fields are written and read one at a time, without a lock.  *)
(* A field caught between two of its words counts as not written yet.      *)
(* What ExecuteTestCase and ExecuteMultiProcess do is in TestCases and     *)
(* Scenario.                                                               *)
(***************************************************************************)
EXTENDS Integers, Sequences, FiniteSets, Functions

CONSTANTS
    N,          \* submissions
    Workers,    \* of the compile pool and, without multi-process, of the execution
    Programs    \* what a submission may be: sequences over Source

Subs == 1 .. N
Source == {"missing", "broken", "plain", "includes", "slow"}

\* Without executables in its policy, a submission is its one source.
ASSUME PipelineAssumption ==
    /\ N \in Nat /\ Workers # {} /\ IsFiniteSet(Workers)
    /\ Programs \subseteq Seq(Source) \ {<<>>}

VARIABLES
    program, libs,    \* of the class and the assignment, fixed
    kind,             \* what the policy has to run: cases, processes or none; fixed
    cancelled,                         \* the job's context
    phase,      \* compile, execute, done; off in a model without a grading
    next,       \* the next index of the channel
    worker,
    cache,      \* cachedLibFiles # nil, cachedLibDir # ""
    compiled, compiledCount,
    hits,       \* the scan found banned constructs
    results,    \* statuses, once the report is assembled
    tests, executedCount,
    bar

given == <<program, libs, kind>>
vars == <<given, cancelled, phase, next, worker, cache, compiled, compiledCount, hits, results,
          tests, executedCount, bar>>

Idle    == [pc |-> "idle", i |-> 0, at |-> 0, files |-> FALSE, dir |-> FALSE,
            ok |-> TRUE, timedOut |-> FALSE, ran |-> FALSE, share |-> 0]
Unbuilt == [ok |-> FALSE, timedOut |-> FALSE, ran |-> FALSE]    \* the zero CompileResult
Pc(w) == worker[w].pc
Goto(w, pc) == worker' = [worker EXCEPT ![w].pc = pc]
Program(w) == program[worker[w].i]

\* Variant with a bug: what comes last is what the bar shows.
ReportAsIs(fraction) == bar' = fraction

\* progressTracker.set; fractions are counted in submissions, compile before execution.
Report(fraction) == bar' = IF fraction > bar THEN fraction ELSE bar

(***************************************************************************)
(* CompileAll.                                                             *)
(***************************************************************************)
\* Variant with a bug: the channel is not closed, and the workers wait for more.
FetchUnclosed(w) ==
    /\ phase = "compile" /\ Pc(w) = "idle" /\ next <= N
    /\ worker' = [worker EXCEPT ![w] = [Idle EXCEPT !.pc = "resolve", !.i = next, !.at = 1]]
    /\ next' = next + 1
    /\ UNCHANGED <<given, cancelled, phase, cache, compiled, compiledCount, hits, results, tests,
                   executedCount, bar>>

Fetch(w) ==
    /\ phase = "compile" /\ Pc(w) = "idle"
    /\ \/ /\ next > N
          /\ Goto(w, "out")
          /\ UNCHANGED next
       \/ /\ next <= N
          /\ worker' = [worker EXCEPT ![w] = [Idle EXCEPT !.pc = "resolve", !.i = next, !.at = 1]]
          /\ next' = next + 1
    /\ UNCHANGED <<given, cancelled, phase, cache, compiled, compiledCount, hits, results, tests,
                   executedCount, bar>>

SourceMissing(w) == kind # "processes" /\ Program(w)[1] = "missing"

\* The submission's output directory cannot be made, or its one source is not there.
NotStarted(w) ==
    /\ Pc(w) = "resolve"
    /\ worker' = [worker EXCEPT ![w].pc = "store", ![w].ok = FALSE]
    /\ UNCHANGED <<given, cancelled, phase, next, cache, compiled, compiledCount, hits, results, tests,
                   executedCount, bar>>

\* resolveLibraryFiles: the cache is there when cachedLibFiles is not nil.
Resolve(w) ==
    /\ Pc(w) = "resolve" /\ ~SourceMissing(w)
    /\ \/ libs = "unset" /\ Goto(w, "build")
       \/ /\ libs # "unset" /\ cache.files
          /\ worker' = [worker EXCEPT ![w].pc = "reading", ![w].files = TRUE]
       \/ /\ libs # "unset" /\ ~cache.files
          /\ worker' = [worker EXCEPT ![w].pc = "filling", ![w].dir = TRUE,
                                      ![w].files = (libs = "usable")]
    /\ UNCHANGED <<given, cancelled, phase, next, cache, compiled, compiledCount, hits, results, tests,
                   executedCount, bar>>

ReadDir(w) ==
    /\ Pc(w) = "reading"
    /\ worker' = [worker EXCEPT ![w].pc = "build", ![w].dir = cache.dir]
    /\ UNCHANGED <<given, cancelled, phase, next, cache, compiled, compiledCount, hits, results, tests,
                   executedCount, bar>>

\* With no usable library the list stays nil, and every call looks again.
FillFiles(w) ==
    /\ Pc(w) = "filling"
    /\ cache' = [cache EXCEPT !.files = worker[w].files]
    /\ Goto(w, "fillingDir")
    /\ UNCHANGED <<given, cancelled, phase, next, compiled, compiledCount, hits, results, tests,
                   executedCount, bar>>

FillDir(w) ==
    /\ Pc(w) = "fillingDir"
    /\ cache' = [cache EXCEPT !.dir = TRUE]
    /\ Goto(w, "build")
    /\ UNCHANGED <<given, cancelled, phase, next, compiled, compiledCount, hits, results, tests,
                   executedCount, bar>>

\* gcc's end: a source that includes the library needs its files and its directory
\* (for -I, and to be bound in gcc's sandbox); a killed or late gcc may have timed
\* out, and one that ends at the deadline has built and timed out.
Gcc(source, files, dir) ==
    LET sound == source = "plain" \/ (source = "includes" /\ files /\ dir) IN
    IF cancelled THEN [ok : {FALSE}, timedOut : BOOLEAN, ran : {TRUE}]
    ELSE IF source = "slow" THEN [ok : BOOLEAN, timedOut : {TRUE}, ran : {TRUE}]
    ELSE {[ok |-> sound, timedOut |-> FALSE, ran |-> TRUE]}

\* Variant with a bug: the last executable decides.
BuildLastOnly(w) ==
    /\ Pc(w) = "build"
    /\ LET at == worker[w].at IN
       \E run \in Gcc(Program(w)[at], worker[w].files, worker[w].dir) :
          worker' = [worker EXCEPT ![w].ok = run.ok, ![w].timedOut = run.timedOut,
                                   ![w].ran = TRUE, ![w].at = at + 1,
                                   ![w].pc = IF at = Len(Program(w)) THEN "store" ELSE "build"]
    /\ UNCHANGED <<given, cancelled, phase, next, cache, compiled, compiledCount, hits, results, tests,
                   executedCount, bar>>

\* One executable; a missing source fails without gcc, and the others are still built.
Build(w) ==
    /\ Pc(w) = "build"
    /\ LET at == worker[w].at
           source == Program(w)[at] IN
       \E run \in IF source = "missing" THEN {Unbuilt}
                  ELSE Gcc(source, worker[w].files, worker[w].dir) :
          worker' = [worker EXCEPT ![w].ok = @ /\ run.ok, ![w].timedOut = @ \/ run.timedOut,
                                   ![w].ran = @ \/ run.ran,
                                   ![w].at = at + 1,
                                   ![w].pc = IF at = Len(Program(w)) THEN "store" ELSE "build"]
    /\ UNCHANGED <<given, cancelled, phase, next, cache, compiled, compiledCount, hits, results, tests,
                   executedCount, bar>>

Store(w) ==
    /\ Pc(w) = "store"
    /\ compiled' = [compiled EXCEPT ![worker[w].i] =
                       [ok |-> worker[w].ok, timedOut |-> worker[w].timedOut, ran |-> worker[w].ran]]
    /\ Goto(w, "count")
    /\ UNCHANGED <<given, cancelled, phase, next, cache, compiledCount, hits, results, tests,
                   executedCount, bar>>

\* OnCompileComplete: the count is atomic, the report comes after it.
CountCompiled(w) ==
    /\ Pc(w) = "count"
    /\ compiledCount' = compiledCount + 1
    /\ worker' = [worker EXCEPT ![w].pc = "report", ![w].share = compiledCount + 1]
    /\ UNCHANGED <<given, cancelled, phase, next, cache, compiled, hits, results, tests,
                   executedCount, bar>>

ReportCompiled(w) ==
    /\ Pc(w) = "report"
    /\ Report(worker[w].share)
    /\ worker' = [worker EXCEPT ![w] = Idle]
    /\ UNCHANGED <<given, cancelled, phase, next, cache, compiled, compiledCount, hits, results, tests,
                   executedCount>>

(***************************************************************************)
(* The report, after the workers and the scan.                             *)
(***************************************************************************)
Status(c, hit) ==
    CASE c.timedOut -> "timed_out"
      [] ~c.timedOut /\ ~c.ok -> "failed"
      [] ~c.timedOut /\ c.ok /\ hit -> "banned"
      [] OTHER -> "clean"

NewReport ==
    /\ hits' \in [Subs -> BOOLEAN]
    /\ results' = [i \in Subs |-> Status(compiled[i], hits'[i])]
    /\ phase' = IF kind = "none" THEN "done" ELSE "execute"
    /\ next' = 1
    /\ worker' = [w \in Workers |-> Idle]
    /\ UNCHANGED <<given, cancelled, cache, compiled, compiledCount, tests, executedCount, bar>>

\* Variant with a bug: the report does not wait for the workers.
AssembleEarly == phase = "compile" /\ next > N /\ NewReport

\* wg.Wait, ScanAll, NewSubmissionResult for each submission; then what is to be run.
Assemble == phase = "compile" /\ (\A w \in Workers : Pc(w) = "out") /\ NewReport

\* computeSummary.
Summary ==
    LET Count(S) == Cardinality({i \in Subs : S[i]}) IN
    [pass    |-> Count([i \in Subs |-> compiled[i].ok /\ ~compiled[i].timedOut]),
     fail    |-> Count([i \in Subs |-> ~compiled[i].ok /\ ~compiled[i].timedOut]),
     timeout |-> Count([i \in Subs |-> compiled[i].timedOut]),
     banned  |-> Count(hits),
     clean   |-> Count([i \in Subs |-> results[i] = "clean"])]

(***************************************************************************)
(* The execution: forEachSubmission's workers, or the multi-process loop.  *)
(***************************************************************************)
\* In the loop the goroutine takes a submission when it is done with the one before.
Hand(w) ==
    /\ phase = "execute" /\ Pc(w) = "idle"
    /\ kind = "processes" => \A v \in Workers : Pc(v) \notin {"execute", "executed"}
    /\ \/ /\ next > N
          /\ Goto(w, "out")
          /\ UNCHANGED next
       \/ /\ next <= N
          /\ worker' = [worker EXCEPT ![w] = [Idle EXCEPT !.pc = "execute", !.i = next]]
          /\ next' = next + 1
    /\ UNCHANGED <<given, cancelled, phase, cache, compiled, compiledCount, hits, results, tests,
                   executedCount, bar>>

\* runTestCases and runMultiProcess run nothing of a submission that did not compile.
Execute(w) ==
    /\ Pc(w) = "execute"
    /\ LET i == worker[w].i IN
       tests' = [tests EXCEPT ![i] = IF compiled[i].timedOut \/ ~compiled[i].ok
                                     THEN "not run" ELSE "run"]
    /\ Goto(w, "executed")
    /\ UNCHANGED <<given, cancelled, phase, next, cache, compiled, compiledCount, hits, results,
                   executedCount, bar>>

\* reportExecuted counts and reports under one lock.
ReportExecuted(w) ==
    /\ Pc(w) = "executed"
    /\ executedCount' = executedCount + 1
    /\ Report(N + executedCount + 1)
    /\ worker' = [worker EXCEPT ![w] = Idle]
    /\ UNCHANGED <<given, cancelled, phase, next, cache, compiled, compiledCount, hits, results, tests>>

Finish ==
    /\ phase = "execute" /\ \A w \in Workers : Pc(w) = "out"
    /\ phase' = "done"
    /\ UNCHANGED <<given, cancelled, next, worker, cache, compiled, compiledCount, hits, results, tests,
                   executedCount, bar>>

Cancel ==
    /\ ~cancelled /\ phase # "done"
    /\ cancelled' = TRUE
    /\ UNCHANGED <<given, phase, next, worker, cache, compiled, compiledCount, hits, results, tests,
                   executedCount, bar>>

Init ==
    /\ program \in [Subs -> Programs]
    /\ libs \in {"unset", "lost", "usable"} /\ kind \in {"cases", "processes", "none"}
    /\ kind # "processes" => \A i \in Subs : Len(program[i]) = 1
    /\ cancelled = FALSE
    /\ phase = "compile" /\ next = 1
    /\ worker = [w \in Workers |-> Idle]
    /\ cache = [files |-> FALSE, dir |-> FALSE]
    /\ compiled = [i \in Subs |-> Unbuilt] /\ compiledCount = 0
    /\ hits = [i \in Subs |-> FALSE] /\ results = [i \in Subs |-> "none"]
    /\ tests = [i \in Subs |-> "none"] /\ executedCount = 0
    /\ bar = 0

CompileStep(w) ==
    \/ Fetch(w) \/ NotStarted(w) \/ Resolve(w) \/ ReadDir(w) \/ FillFiles(w) \/ FillDir(w)
    \/ Build(w) \/ Store(w) \/ CountCompiled(w) \/ ReportCompiled(w)

ExecuteStep(w) == Hand(w) \/ Execute(w) \/ ReportExecuted(w)

Next ==
    \/ \E w \in Workers : CompileStep(w) \/ ExecuteStep(w)
    \/ Assemble \/ Finish \/ Cancel

Spec == Init /\ [][Next]_vars

\* Goroutines run, and gcc and the programs are bounded by their timeouts.
Fairness ==
    /\ \A w \in Workers : WF_vars(CompileStep(w) \/ ExecuteStep(w))
    /\ WF_vars(Assemble \/ Finish)

FairSpec == Spec /\ Fairness

(***************************************************************************)
(* Properties.                                                             *)
(***************************************************************************)
TypeOK ==
    /\ program \in [Subs -> Programs] /\ hits \in [Subs -> BOOLEAN]
    /\ libs \in {"unset", "lost", "usable"} /\ kind \in {"cases", "processes", "none"}
    /\ cancelled \in BOOLEAN
    /\ phase \in {"off", "compile", "execute", "done"}
    /\ next \in 1 .. N + 1
    /\ worker \in [Workers -> [pc : {"idle", "resolve", "reading", "filling", "fillingDir", "build",
                                     "store", "count", "report", "execute", "executed", "out"},
                               i : 0 .. N, at : Nat, files : BOOLEAN, dir : BOOLEAN, ok : BOOLEAN,
                               timedOut : BOOLEAN, ran : BOOLEAN, share : 0 .. N]]
    /\ cache \in [files : BOOLEAN, dir : BOOLEAN]
    /\ compiled \in [Subs -> [ok : BOOLEAN, timedOut : BOOLEAN, ran : BOOLEAN]] /\ compiledCount \in 0 .. N
    /\ results \in [Subs -> {"none", "timed_out", "failed", "banned", "clean"}]
    /\ tests \in [Subs -> {"none", "run", "not run"}] /\ executedCount \in 0 .. N
    /\ bar \in 0 .. 2 * N

\* progress.go:52: "Never move a bar backwards; parallel compile callbacks can land
\* out of order".
BarNeverBack == [][bar' >= bar]_vars

\* Whatever the order of workers, each submission of a finished run was compiled,
\* counted, judged and executed once, under its own index; the summary's counts
\* account for all of them and the bar has reached the end.
EachGradedOnce ==
    phase = "done" =>
        /\ compiledCount = N /\ executedCount = (IF kind = "none" THEN 0 ELSE N)
        /\ bar = compiledCount + executedCount
        /\ \A i \in Subs :
              /\ results[i] = Status(compiled[i], hits[i])
              /\ kind # "none" =>
                    tests[i] = IF results[i] \in {"clean", "banned"} THEN "run" ELSE "not run"
        /\ Summary.pass + Summary.fail + Summary.timeout = N
        /\ Summary.clean = Summary.pass - Cardinality({i \in Subs : results[i] = "banned"})

\* A submission that compiled has an executable for each of its sources: none was
\* missing or broken, and those that include a library were given one.
CompiledIsBuilt ==
    \A i \in Subs : compiled[i].ok =>
        \A n \in DOMAIN program[i] :
            /\ program[i][n] \notin {"missing", "broken"}
            /\ program[i][n] = "includes" => libs = "usable"

\* A grading run ends, whatever compiles, hangs or is cancelled, and however its
\* workers take turns (wg.Wait in CompileAll and forEachSubmission).
PipelineEnds == phase = "compile" ~> phase = "done"

\* compiler_test.go:195 "expected compile against library to succeed": sources that
\* compile, against libraries that are there, compile whenever gcc was run on them.
LibraryFound ==
    phase # "compile" /\ ~cancelled /\ libs = "usable" =>
        \A i \in Subs : compiled[i].ran /\ Range(program[i]) \subseteq {"plain", "includes"}
                        => compiled[i].ok
=============================================================================
