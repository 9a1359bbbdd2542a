# autoscan-engine in TLA+

autoscan-engine is a Go server that grades C submissions: it takes a zip from
R2, compiles and tests every submission in a sandbox, compares them for
similarity and AI-detection tells, and puts a result back. It also gives the
grader shells in a submission's workspace, and keeps saved results up to date
when the detector changes. The models here follow the code under `src/`; a
definition's lines are in `PROJECT.json` under `map`.

## Inventory

| Part | Source | State | Operations |
|---|---|---|---|
| Grading jobs | `cmd/autoscan-server/grade_async.go`, `grade.go`, `setup.go` | `server.jobs` (run id to cancel), one goroutine and one context per run | POST /grade, DELETE /grade/{id}, the stages of `executeGradeJob`, the deferred calls of `runGradeJob` |
| Grading slot | `main.go`, `sandbox_handler.go`, `ai_reanalysis.go` | `gradeSlot`, a channel of capacity one | taken by a grade job, by a sandbox analysis (try, then wait up to three minutes) and by the AI refresh, once per object |
| Progress tracker | `progress.go` | an entry per token: stage, fraction, state, detail, time of update | `set`, `finish`, `drop`, `get`; `set` sweeps entries older than 15 minutes |
| Callback | `internal/callback/callback.go` | none | `Notify`: a POST with bounded retries |
| Run directories | `runs.go` | `runs/<id>` on a volume | create, save `run.json`, remove on failure, prune the oldest when the disk is full |
| Activity and life | `idle.go`, `main.go` | `active`, `lastDone` | `begin`/`end` around requests, jobs, passes; idle exit, signals, shutdown, restart by Fly |
| AI refresh | `ai_reanalysis.go` | a status; method stamps in R2 | list, reanalyse, back up, put if unchanged, every five minutes |
| Terminal sessions | `internal/terminal/session.go`, `pane.go` | the table of sessions; per session the scratch, the sandbox, a pane count and three timers | `Join`, `create`, `attach`, `detach`, `teardown` |
| Pane host | `internal/terminal/panehost.go`, `protocol.go` | the shells of one sandbox | open a pane, hang up, kill all |
| Grading pipeline | `internal/engine/` (`runner`, `compiler`, `executor`, `parallel`, `scenario`) | worker pools, the library cache | compile, run, scan |
| Verdicts and analyses | `pkg/domain/`, `internal/engine/` | none | expected output, exit codes, valgrind, winnowing, tiling, AI tells |

How they interact: an HTTP handler of `gradeAsync` registers a job, counts it as
activity, writes its first progress entry and starts its goroutine. The goroutine
competes for the slot with sandbox requests and the refresh; the pipeline inside
it reports to the tracker, which callers poll and which the callback tells them
to read. A terminal reads the run directory that a job left and the prune may
take. `exitWhenIdle` watches the activity counter, and ends the process under all
of them.

What is hard: the interleaving of cancellation, deadline and slot; the order of
deferred calls; a failure at each of a dozen stages; entries and directories that
age while somebody still needs them; check-then-act on the idle time; sessions
that close while others join them; directories that are read, fetched into and
taken apart at once; writes to a bucket that fail and land later; a pool that fills
a cache without a lock; a host that dies with results on its pipe. `PROJECT.json` lists each as a hazard with its
line and the properties that cover it, or why none does yet.

What makes each part correct:

- jobs, slot, tracker: one user of the slot at a time and the slot always comes
  back; every accepted run settles; what is reported is true and stays; the
  callback comes after the outcome can be read; failed runs leave no directory.
- activity and life: a server with work is never told to stop; one without stops.
- sessions: panes are counted exactly, nothing outlives its table entry except
  under teardown, an empty session lingers and then goes, a session that is being
  made has a creator at work, every join returns.
- pane host: a shell ends with its connection, a connection with its shell, and
  somebody is there to end it as long as it runs.
- run directories: a terminal gets all of a run's files or is refused with reason;
  the prune spares the run just graded.
- refresh: no update is lost, no deleted result comes back, the status is honest
  and every stale result is refreshed in the end.
- pipeline: one result per submission, by index; progress is monotonic; what
  compiled has its programs; everything ends.
- tests and scenarios: a pass is earned as far as the log can tell, the right cause is blamed, each verdict
  tells of its own process, and deadlines end whatever does not end.
- similarity: a token is matched once, copies are matched fully, scores are shares.

## Modules

### Grading service

`GradeQueue` is the abstract specification: runs wait, are graded one at a time
and never beside another user of the machine, and settle once, as done only when
the result was published.

`GradeJobs` is the code: `pc[r]` is where a run's goroutine stands, `ctx[r]` its
context, `slot` the channel's length, `progress[r]` the tracker's entry, `dir[r]`
the directory, `results` the bucket. Each stage of `executeGradeJob` is an action
with its failing alternative; the deferred calls are `CleanupRun`, `ReleaseSlot`,
`SettleJob`, `NotifySettled`, `ForgetJob` and `EndJob`, in the order Go runs them.
`older[r]`, the directories older than a run's, stands for modification times. An
entry's age is one bit, `stale`. Fractions and stage names are left out, and so is
the server's end.

`RunStore` is the run directories of the volume. A directory is three pieces, its
`run.json`, its workspace and its config, each absent, in part or whole, and a
place in `byTime`, the order of modification times. One grade job at a time (which
`GradeJobs` establishes) fetches the config, extracts, saves and uploads, and then
prunes, or fails and removes its directory; `RemoveAll` takes pieces away in any
order. Terminal requests read run.json, look for the workspace, fetch a config
where there is none (`OpenStaging`, `Globals`, `Prefix`, `Activate`, with the
staging directory a prune may take from under them), and copy the files for a
shell. The process may die at any step; the next one prunes first. Only the request
that creates a session reads the directory, so those that join one are left out.

`GradeService` puts the two beside each other for a run of TLC; they share no
variable, and a behaviour moves only one of them. The same holds of `Server`,
`Terminals`, `Engine` and `Execution` below, where the parts have no state in
common, or meet in a step that each has as its own.

### Server

`ServerLife` puts `GradeQueue` in a process that starts, idles, is told to stop,
crashes and restarts. Its actions are those of `GradeQueue` (taken with INSTANCE),
requests, refresh passes and a clock that ticks with `exitWhenIdle`'s ticker. What
the process held in memory is gone at its end; a run accepted and not settled is
then `"lost"`. `Busy` is `activity.active > 0`; that the counter is exact is
`GradeJobs`' `ActivityCounted`.

`ResultStore` is what the refresh of saved AI reports promises of the bucket: a
result changes only by the application's hand or, once a copy of exactly what is
there has been kept, by a new method stamp; nothing brings a deleted one back.
`AIRefresh` is the worker that implements it: the pass and its listing, `Stat`,
`Get` with If-Match, the reanalysis, the backup with If-None-Match and the
replacement with If-Match, each of which may fail; a write that was given up is in
`late` and may reach the bucket at any later time, after a restart too. A result's
content is the application's version, its method and whether all its sources are
in it; two contents are equal when their ETags would be. `tally` is the status that
GET /ai-reanalysis shows. `Server` runs `ServerLife` and `AIRefresh`.

### Terminals

`TermSession` is the sessions: `stage[s]` says how far `create` and then
`teardown` of one `*Session` have come, `conn[c]` where a WebSocket stands in
`Join` and `ServePane`. A session object that is over and not referred to may
stand for a new one, so `Sessions` bounds what is alive at once and not how many
ever were.

`PaneHost` is the process inside a session's sandbox: `serve[p]` is the goroutine of
one control connection, `shell[p]` its bash with its process group, `procs` the
set that `killAll` copies. A shell's end is three steps: it exits; `cmd.Wait` reaps it
(`Reap`), from when on its process id is free; it leaves `procs` and `exited` is
closed (`CloseExited`). `HangUp` and `KillPane` are `hangupPane`'s two signals, the
second of which a select may send with `exited` closed. A shell may ignore SIGHUP, a
reply may fail, the connection or the host may end at any moment. `Terminals` runs
both.

### Engine

`TestCases` is the verdict on one submission: `runTestCases`, `Execute` and
`ExecuteTestCase` as steps, between them the steps of the program under test, and
the functions of `domain` that turn an end, a deadline, a log and a comparison into
a status. `run` is what the program really did, so that a property can compare it
with `result`, which is what `Execute` made of it. `run.log` is the Valgrind log: a
report of each process, as it ends, since what a program forks logs to its file. A
report names errors and descriptors or not, and its LEAK SUMMARY may be of leaks, of
zero bytes (blocks of no size), or not there since everything was freed.
`ParseValgrindLog` reads the first ERROR SUMMARY, the first FILE DESCRIPTORS line and,
by assigning each leak count anew, the last LEAK SUMMARY (`LeaksLeft`). `Vouched` is
what is left to say of a log that passes: its first report has no error and no
descriptor, and a leak stands only before a later, empty summary. Texts are the expected one or
another; an expected output is not empty. Several cases may produce files; the
model has one, which a case checks or not. bwrap is taken to end every process of a
case with its program.

`Scenario` is a multi-process test: `PlanScenario` leaves out what cannot be run,
the host starts each process after its delay, times it and writes its outcome on a
pipe, and `executeScenario` reads outcomes until the pipe ends, within the
scenario's own deadline and the job's context. Its programs run under the same
`valgrindCommand` as a test case's, may fork, and have their logs parsed the same way.
Without a sandbox the host is the engine itself. `proc` is what the processes did, `outcomes` what the engine read,
`processes` the verdicts. `Execution` is what one submission's policy asks for: a
scenario, or test cases.

`GradePipeline` is one grading run: the compile pool that takes indices off one
channel, the library cache its workers share, gcc with the sources and the
libraries it is given, the scan's outcome, the report by index, the pool of
executions and the progress bar, with a cancellation at any moment. The cache is
two fields, read and written one after the other as the code does.

`Similarity` is `greedyStringTiling` as a state machine that takes the longest runs
round by round, and its uses: each submission against the reference solution, whose
code is then set aside, the pairs, the patterns of the dictionary, and the links to
flagged submissions; with no readable submission it ends in an error (`NoFingerprints`).
`IsRun` is the definition a tile is checked against. `Engine`
runs `GradePipeline` and `Similarity`.

### Proofs and instances

A component's theorems are in a module named after it: `GradeJobsProofs`,
`AIRefreshProofs`, `RunStoreProofs`, `TermSessionProofs`, `GradePipelineProofs`,
`TestCasesProofs`, `ExecutionProofs` (scenarios, and the cases beside them) and
`EngineProofs` (similarity, and the pipeline beside it). Modules that start with `MC`
are what TLC runs. Definitions marked as variants carry one bug each, such as a
dropped guard or a misplaced reset; no action uses them. Substituted for the
definition they vary, they make the property named in `PROJECT.json` fail, which
shows that the property depends on that line of the code.

## Runs and bounds

| Run | Instance | Shows |
|---|---|---|
| `grade_service` | 2 runs (one with a callback, one exporting), 1 analysis, the refresh, 1 retry; on the volume 1 old run, 1 new run, 2 terminal requests, 2 boots | the invariants and action properties of the service, that it implements `GradeQueue`, that a shell has all its files and a refusal its reason |
| `grade_live` | 2 runs, 1 analysis, the refresh, 1 retry | every accepted run settles and ends; the slot always comes free |
| `queued_visible` | 2 runs | **violated**: a queued run's entry is swept (finding 1) |
| `just_graded` | as `grade_service`, with 1 run | **violated**: the prune takes the run just graded (finding 4) |
| `server` | 2 runs, 1 client, idle after 2 ticks, rescan after 3; 2 saved results, 1 of them rewritten once, 2 methods, 2 starts, 1 failing call, 1 late write | an unused server exits, accepted runs end; the refresh implements `ResultStore`, its status is honest, every stale result is refreshed |
| `refresh_keeps_awake` | rescan after 2 ticks, as deployed | **violated**: an unused server never exits (finding 2) |
| `idle_exit_race` | 1 run, no refresh | **violated**: an idle exit kills a job (finding 3) |
| `terminals` | 2 connections, 2 ids, 2 session objects, 1 session of 1 pane; 1 shell | counting, the limits, nothing stray, lingering, a goroutine at work for whatever waits or runs; every join returns, scratch directories go, panes let go, shells and connections end together |
| `execution` | 1 or 2 cases of each of six kinds, at most 2 reporting processes, each with errors, descriptors, leaks or an empty summary; or a scenario of 2 executables, or of 1 without its expected output, of as many processes, with and without a sandbox | a pass is earned as far as a log can vouch for it, the right cause is blamed and every case counted, each verdict is its own process's, everything ends |
| `every_process_validated` | the cases of `execution` | **violated**: a later process's errors are not read (finding 5) |
| `engine` | 2 submissions, 2 compile workers, programs of one or two sources, all kinds of libraries; 2 fingerprints of 4 or 5 tokens over two values, 3 solutions, 2 patterns, matches of 2 tokens | one result per submission, compiled means built, the bar never goes back, everything ends; tokens matched once, copies fully, scores are shares |
| `library_race` | 2 submissions that include a library | **violated**: a worker compiles without the include directory (finding 6) |

Why these are enough: two jobs and one guest give every pair that can compete for
the slot, and a third waiter behaves as the second does; the proofs below cover
any number. Two runs are needed for one's report to sweep the other's entry and
for one's prune to reach the other's directory. One retry separates the first,
a repeated and the last POST. On the volume an old run without a config and a new
one give a fetch beside a prune, two terminals the race of two fetches of one
config, and two boots a crash in the middle of each with the prune that follows.

For sessions, one connection creates while the other waits or finds the table or
the panes full; two objects are one dying and one new, and two ids one that takes
the place of the other. Shells share only `procs` and the host's end, and one meets
every race of its own. The clock counts no further than the idle time. Two saved
results are one that fails or changes and one that must not suffer for it; one late
write, one failure and two starts are enough for a write of the last process to
meet one of the next.

For test cases, two are one that leaves a file and one that finds it, and two
processes are a first report and a later one, or a leak and the summary that hides
it. A scenario's two executables are one that can be run or cannot and one started
later, which the first one's failure must not touch; one alone is enough for an
expected output that is missing.
Two workers on two submissions give every order of the cache's two fields; in
fingerprints of four tokens over two values runs overlap, repeat and cross
functions, and a shorter run can stand in a longer one's way.

Deadlock is not checked, since all of these may stop: run ids are used once, a
stopped server waits for a request, a connection is made once, and an execution
and a grading run end. That nothing stops that should not is what the liveness
properties say. Symmetry is not used.

### Fairness

`GradeJobs`: a job's goroutine runs and its calls return, its deadline fires,
analyses and passes end. Nothing obliges a caller to post, delete or wait, or the
refresh to begin. `EveryRunSettles` needs the deadline: a refresh may take the
slot each time it is free, and then only the deadline releases the job.

`RunStore` has no liveness property, and no fairness.

`ServerLife`: time passes, goroutines run and timers fire; jobs end, by
`EveryRunSettles`; the restart policy restarts a crashed machine, while a stopped
one is started only by a request. `EndPass` is strongly fair since a pass lists
finitely many objects, which the model does not count. Connections are not obliged
to close.

`AIRefresh`: the worker runs, a stop ends and a stopped server comes back. That the
bucket works in the end, and the last server stays up, is what the bounds on
failures and starts say. The application is not obliged to do anything.

`TermSession`: goroutines run, and each wait in them has a time-out (the ready
line 15 s, the reply of the pane host 10 s) or is for an AfterFunc timer; the
lifetime timer cannot be postponed; SIGKILL works in the end, though teardown does
not count on it. `GetOrCreate` is strongly fair because a mutex is all it waits
for: the pool of `Sessions` is the model's. `PaneHost`: its goroutines run and its
timers fire; a shell need not end, nor a connection close.

`TestCases` and `Scenario`: the executor and the host run, deadlines pass, and a
program killed dies. No program needs to end, and a host in a sandbox may hang.
`GradePipeline`: goroutines run, and gcc and the executions are bounded in time.

## Findings

1. A run that queues for more than 15 minutes is swept by another run's report,
   and GET /progress answers 404 for it until its turn
   (`progress.go:56`, against `CLOUD_SETUP.md:96-97`). It still runs and settles.
2. The refresh begins a pass every five minutes, each pass restarts the idle clock,
   and the idle time deployed is five minutes: a server with R2 configured need
   never exit (`ai_reanalysis.go:95`, against `CLOUD_SETUP.md:82-84`).
   `ExitsWhenUnused` holds in `server`, where rescans are further apart.
3. `exitWhenIdle` decides and the listener closes later; a run accepted in between
   is killed with the process (`idle.go:62`, against `fly.toml:17-18`).
4. The prune spares the directory touched last, and a terminal that fetches the
   config of an old run touches that run's: with the disk full, the run just graded
   may go (`runs.go:159`, against `runs.go:137`). `JustGradedKept`, which holds,
   speaks of the directories of `GradeJobs`, where no terminal fetches.
5. Of several processes' reports in one Valgrind log only the first one's errors
   and descriptors are read (`valgrind.go:67`, against `README.md:33`): a parent
   with errors passes when a clean child ends before it. Of the leaks the last
   summary is kept (`valgrind.go:78-85`): a process that leaks passes when another
   ends after it with a LEAK SUMMARY of zero bytes. The log of a process of a
   scenario is parsed in the same way (`executor.go:475`). So `PassIsEarned` and
   `AllPassedEarned`, which hold, say of a log what `Vouched` does and no more:
   a process that reports alone is clean, of several this is not known.
6. Compile workers share the library cache without a lock: one that finds the files
   and not yet the directory compiles without it, and a sound submission fails
   (`compiler.go:283`, against `tests/compiler_test.go:195`).

Met while modelling, without a text in the repository that says otherwise, or out of
the model's reach:

- `hangupPane` may send both its signals to a process id already reaped, and so free or
  another's, although `panehost.go:182` says that waiting on `exited` avoids it: the
  shell is reaped before `exited` is closed, and a select with several channels ready
  takes any, its own the timer and its caller's `connClosed`. Teardown of a session may
  do the same with the sandbox's. `killAll` misses a shell added after its copy, which
  then ends with the sandbox.
- Terminals and a crash can leave directories that no job made: a fetch for a run
  that a prune removes makes a directory with a config alone, and a crash in a
  `RemoveAll` leaves a run with its `run.json` and part of its files, which a
  terminal opens. `ShellWhole` excepts runs that a removal has begun with.
- The table forgets a session before its sandbox is killed, up to twelve seconds
  earlier, so more sandboxes than `maxSessions` may be alive.
- Between the reanalysis and the backup the application may delete a result; the
  backup is then of a deleted run. `ResultStore` allows it.
- A copy of solution code that a submission has twice is set aside once.
- A test case whose program never writes its `produced_file` counts as one whose
  expected output is missing. A Valgrind log without a report (the program replaced
  itself, or was killed) does not fail a case. Two processes that end at once may mix
  their lines in it, so that the first lines of each kind are of different reports, and
  what `Vouched` says is then of no single process; in the model a report is written at
  once.
  Outside a sandbox, `Execute` sets no
  WaitDelay, and a process that left the group and holds stdout delays its return.

## Proofs

Every safety property of the passing runs is proved for all values of the constants
that the named assumption of the module allows. Each theorem rests on an inductive
invariant; the property itself is seldom one, and what has to be added to it is the
reason why the code is right. An invariant is a conjunction of named parts, a step is
checked per action and part, and most parts speak of one run, session, worker or
process, so that what a step does to the others is one lemma.

### Grading service

`GradeJobsProofs`, for every finite or infinite set of runs and analyses, every number
of retries and every choice of callbacks and exports (`GradeJobsAssumption`, the types
of the constants):

- `TypeCorrect`, `Exclusion`, `NoOrphans`, `Honesty`, `Activity`, `Receiver`: the
  invariants `TypeOK`, `SlotExclusive`, `NoOrphanDir`, `OutcomeHonest`,
  `ActivityCounted`, `ReceiverSeesOutcome`
- `Finality`, `CancelHonesty`, `JustGraded`: the action properties
  `SettledIsFinal`, `CancelledByCaller`, `JustGradedKept`
- `Refinement`: `GradeJobs` implements `GradeQueue`

`IInv == TypeOK /\ SlotExclusive /\ \A r \in Runs : Shape(r)`. `SlotExclusive` is nearly
inductive: it already ties the channel's length to who is in the section. The others are
not. That a failed run has no directory depends on `verdict`, which has to be tied to
`pc` (`VerdictShape`, `DirShape`); that an entry is true needs that reports come only
before the job settles and that the entry is fresh while the callback is sent
(`EntryShape`); that a cancellation is a DELETE's needs that the job's own `cancel` comes
after it settled (`CtxShape`). A step is checked for the run that moves and, for the
others, for the two ways it can touch them: the sweep of their entries and the prune of
their directories. The counts have an invariant of their own, `Tally`: the runs and
analyses that are counted are finite in number, because each step adds or takes one, and
`active` is their number; the runs themselves may be infinite. `Receiver` combines the
two: the job that sends the callback is one of those counted.

`RunStoreProofs`, for any number of runs, terminals and boots, crashes, failed fetches
and prunes at any moment (`RunStoreAssumption`; what a boot finds on the volume,
`Legacy`, is finite): `Shells`, that a shell has its run's files and libraries whole, and
`Refusals`, that a terminal is refused only with reason. What a terminal saw may be
removed while it copies, so everything is said of a run that no `RemoveAll` has begun
with: its config is whole or absent, which needs that an actor activates only a staging
directory it has filled (`Staged`); a `run.json` that is whole says that the workspace
is, which needs that the job writes it last (`Job`, `Sound`). No step takes anything from
such a run (`Forward`), so what a terminal has found there is still true at its next step
(`Terminal`). `BehindService` says that `GradeService` behaves as `GradeJobs` does, so
that its theorems hold there too, and keeps these two invariants.

`AIRefreshProofs`, for every set of results, finite or not, and every number of methods,
versions, restarts, failures and late writes (`ResultStoreAssumption`,
`AIRefreshAssumption`: the bounds are naturals, `MaxBoots` and `MaxMethod` positive):

- `RefreshImplementsStore`: `AIRefresh` implements `ResultStore`. That every write
  keeps the promise depends on what the worker read several steps ago, so `IInv ==
  StoreTyped /\ Held /\ Awaited` says of what it holds (`Held`) and of each write given
  up (`Awaited`) that the result is gone or has only moved forward since, in version or
  in method, and that a copy of it is kept if it is still there. Each step of the bucket
  is shown once to move forward (`Forward`), and then to keep both. A content that is gone
  therefore never returns, which is what makes `If-Match` enough.
- `Status`: the invariant `StatusHonest`. `Books` says what the four counters add up to at
  each place of the worker; `Pass`, that in a pass without failures each result the
  application left alone is current, still listed or in the worker's hands. The second
  needs that no step of the bucket makes such a result less current (`Steady`).
- `BehindServer`: `StatusHonest` for `Server`, whose other side starts where `AIRefresh`
  does not (`AwayInv`), and `NeverDecidesBusy`, the action property of `ServerLife` that a
  server with work is never told to stop. The latter needs no invariant, and no run
  spends a check on it: `idleFor` looks at the count and the clock under one lock, and no
  other step decides. That the count is right is `Activity`; what happens between the
  decision and the exit is finding 3.

### Terminals

`TermSessionProofs`, for every set of ids, connections and session objects, finite or not,
and all limits (`TermSessionAssumption`: both are positive, and `None` is neither an id
nor a session): `Limits`, `Stray`, `Linger` and `Creators`, the invariants `LimitsKept`,
`NothingStray`, `LingerIffEmpty` and `CreatorAtWork`; for any number of panes,
`PaneHostShells`, the invariant `ShellsLookedAfter` of the pane host; and
`BehindTerminal`, all five for `Terminals`, where the last two are `Attended`. A session's
`panes` is the number of its attached connections, of which there are finitely many
(`Counted`); the table lists exactly the sessions that are created or open (`Table`), so a
stage says where a scratch or a sandbox may be (`Staged`). `LingerIffEmpty` is not
inductive: when a timer stops because a connection comes, that connection must be known to
be on its way (`Lingers`), and a connection's record must name its session (`Referring`).
`CreatorAtWork` is inductive beside the rest: a new session is a spare one, so nobody else
creates it, and only its creator's steps take it out of its making. A shell runs in the
stages of `serve` between its start and its kill (`Served`), in which `serve`'s goroutine
cannot end.

### Engine

`GradePipelineProofs`, for any number of submissions and workers, whatever the programs
are (`PipelineAssumption`: no program is empty, as a multi-process policy without
executables is compiled as one source, `compiler.go:128`): `Built`, `Forward` and
`Graded`, the properties `CompiledIsBuilt`, `BarNeverBack` and `EachGradedOnce`. The
invariant follows what was taken from the channel: it is counted once or held by one
worker (`Handed`, `Placed`), then executed or about to be (`Executed`). The bar is behind
the count only as long as the worker with the latest count has not reported (`Barred`),
and what a worker has linked so far has no source missing, with the library files it saw
in the cache (`Supplied`), whichever worker put them there.

`TestCasesProofs`, for all plans, reports and numbers of processes
(`TestCasesAssumption`, the types of the constants): `Earned`,
`FromThisCase` and `Blamed`, the invariants `PassIsEarned`, `FreshFileOnly` and
`BlameIsRight`. A verdict comes four steps after its program ended, from a result
rewritten on the way; the invariant says at each step what the result tells of the run
(`Located`, `Fresh`, `Collected`, `Judged`) and what the counters count (`Sums`). That a
log which does not fail vouches for its program is one lemma (`LogParsed`), for any
number of reports; it does not say that no process had errors or leaks (finding 5), and
a `produced_file` never written is not compared.

`ExecutionProofs`, for scenarios of any number of executables, cut short anywhere
(`ScenarioAssumption`): `ScenarioEarned` and `OwnVerdicts`, the invariants
`AllPassedEarned` and `VerdictIsOwn`, and `CasesJudged`, the three of `TestCases` for a run
that executes either; the limits of `Earned` are theirs too. A verdict reaches its
process by a position in a spec that leaves executables out, so positions stand for one
executable each (`Launched`); an outcome is true of the process at its position when it
is written, and stays so in the pipe and in the engine (`Delivered`, `Tells`), since a
process that has emitted does not move again.

`EngineProofs`, for any number of submissions of any length, every dictionary and every
`MinMatch` (`SimilarityAssumption`): `MatchedOnce`, `Shares` and `Copies`, the invariants
`TokensMatchedOnce`, `ScoresAreShares` and `CopiesMatchFully`, and `GradingKept`, the
properties of the pipeline in a run that does either. What is found is a common run
(`Common`), a tile overlaps no other on either side (`Apart`), and the marks are theirs
(`Marked`). A score counts the tokens of the tiles, with their multiplicity; as tiles are
apart, that is the number of positions marked on each side (`TilesCount`), which is where
the bounds come from. `AnalysisInv` and `GradingInv` each allow for the side that is off.

`Copies` says that of two equal files every stretch of `MinMatch` tokens or more is
matched, and that copies are linked when something is left of them beside the solution's
code and all of that is in such stretches. A greedy choice of runs loses nothing between
equal files for a reason the code does not state. A longest run that is left covers a whole stretch of tokens between boundaries, or
the diagonal would have a longer one; with it, the runs of the diagonal at its two ends
are longest too, and they come first in the order of the scan. So only whole stretches
are marked, the same on both sides (`Diagonal`), and at the end none is left (`AllTiled`).
That two copies are still equal when they are compared needs that what the solution takes
from a file depends on the file alone: each comparison with the solution is the one tiling
there is (`Leads`, `StepUnique`, `OneEnd`), although the comparisons of many submissions
come in between (`Separated`). `Paired` and `Linked` carry this to the links.

### Model-checked only

Liveness: the prover has neither fairness nor ENABLED. These are `EveryRunSettles`,
`SlotComesFree`, `ExitsWhenUnused`, `EveryRunEnds`, `EveryStaleRefreshed`,
`JoinsAnswered`, `ScratchReclaimed`, `PanesLetGo`, `PaneEnds`, `ExecutionEnds` and
`PipelineEnds`.

No proof uses induction over data. Where one would be expected, the least element of a
set of naturals is taken (`WFMin` with `NatLessThanWellFounded`), or a set is shown to
grow by one element at a time.

## Not modelled

- Policy and configuration, terminal tokens, tokenizing, tree walks and pattern
  matches, the line diff, and the AI heuristics (style, metrics, tells, score) are
  sequential functions of their input, with no state and no order to check.
- `TeardownAll` runs as the process ends, and the sandboxes end with it. A solution's
  workspace is built from a temporary directory that nobody shares.
- HTTP, archives, the R2 client's own retries, gcc's and bwrap's arguments and report
  trimming are I/O. Which process has the id of one that was reaped is the kernel's
  choice; `PaneHost` says only when an id is free.

## Plan

1. Proofs: that `ServerLife` behaves as `GradeQueue` does until its process ends, so that
   `GradeJobs`' refinement and the server's life meet in one theorem.
2. The line diff against a reference definition over bounded inputs.
3. `TeardownAll` beside a session that is being created.
