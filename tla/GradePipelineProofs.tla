------------------------ MODULE GradePipelineProofs ------------------------
(***************************************************************************)
(* The safety properties of GradePipeline, for any number of submissions   *)
(* and workers and whatever the submissions are: no source is missing from *)
(* an executable, no submission from the counts, and the bar does not move *)
(* back.                                                                   *)
(*                                                                         *)
(* The invariant says where what was taken from the channel is: counted    *)
(* once, or with one worker (Handed, Placed); that the bar lags behind the *)
(* count only until the latest count is reported (Barred); that a          *)
(* submission handed out is executed or about to be (Executed); and what a *)
(* worker has built so far, with the library files it saw (Supplied).      *)
(***************************************************************************)
EXTENDS GradePipeline, FiniteSetTheorems, TLAPS

Pcs == {"idle", "resolve", "reading", "filling", "fillingDir", "build",
        "store", "count", "report", "execute", "executed", "out"}

Worker == [pc : Pcs, i : 0 .. N, at : Nat, files : BOOLEAN, dir : BOOLEAN, ok : BOOLEAN,
           timedOut : BOOLEAN, ran : BOOLEAN, share : 0 .. N]

Preparing == {"resolve", "reading", "filling", "fillingDir", "build"}
Compiling == Preparing \cup {"store", "count"}
Executing == {"execute", "executed"}

\* The workers with a submission that is not counted yet.
Held == {w \in Workers : Pc(w) \in Compiling \cup Executing}

\* What was taken from the channel was counted or is held by a worker, and a worker
\* leaves only when the channel is empty.
Handed ==
    /\ phase = "compile" => compiledCount + Cardinality(Held) = next - 1 /\ executedCount = 0
    /\ phase = "execute" => executedCount + Cardinality(Held) = next - 1
    /\ \A w \in Workers : Pc(w) = "out" /\ phase # "done" => next = N + 1

\* Which steps a worker can be at in which phase.
Placed(w) ==
    /\ phase = "compile" => Pc(w) \notin Executing
    /\ phase = "execute" => Pc(w) \in Executing \cup {"idle", "out"}
    /\ phase = "done" => Pc(w) \in {"idle", "out"}
    /\ Pc(w) \in Compiling \cup Executing => worker[w].i \in Subs

\* The bar is behind the count only as long as the latest count is not reported.
Barred ==
    /\ phase = "compile" =>
          /\ bar <= compiledCount
          /\ \A w \in Workers : Pc(w) = "report" => worker[w].share <= compiledCount
          /\ bar = compiledCount \/ \E w \in Workers : Pc(w) = "report" /\ worker[w].share = compiledCount
    /\ phase # "compile" => compiledCount = N /\ bar = N + executedCount

Fate(i) == IF compiled[i].timedOut \/ ~compiled[i].ok THEN "not run" ELSE "run"

\* Every submission that was handed out is executed, or is about to be.
Executed ==
    /\ phase # "compile" => \A i \in Subs : results[i] = Status(compiled[i], hits[i])
    /\ phase = "execute" =>
          /\ kind # "none"
          /\ \A i \in Subs : i < next =>
                tests[i] = Fate(i) \/ \E w \in Workers : Pc(w) = "execute" /\ worker[w].i = i
    /\ phase = "done" =>
          /\ executedCount = IF kind = "none" THEN 0 ELSE N
          /\ kind # "none" => \A i \in Subs : tests[i] = Fate(i)

\* A source gcc can make an executable of.
Fits(source) ==
    /\ source \notin {"missing", "broken"}
    /\ source = "includes" => libs = "usable"

\* What a worker has built of its submission so far.
Sound(w) ==
    /\ worker[w].files => libs = "usable"
    /\ Pc(w) \in Preparing =>
          /\ worker[w].at \in 1 .. Len(Program(w))
          /\ worker[w].ok => \A n \in 1 .. worker[w].at - 1 : Fits(Program(w)[n])
    /\ Pc(w) = "store" /\ worker[w].ok => \A n \in 1 .. Len(Program(w)) : Fits(Program(w)[n])

Supplied ==
    /\ cache.files => libs = "usable"
    /\ \A w \in Workers : Sound(w)
    /\ \A i \in Subs : compiled[i].ok => \A n \in 1 .. Len(program[i]) : Fits(program[i][n])

IInv ==
    /\ TypeOK /\ phase # "off"
    /\ \A w \in Workers : Placed(w)
    /\ Handed /\ Barred /\ Executed /\ Supplied

\* What TypeOK says of each variable.
LEMMA Typed ==
  ASSUME TypeOK
  PROVE  /\ program \in [Subs -> Programs] /\ hits \in [Subs -> BOOLEAN]
         /\ libs \in {"unset", "lost", "usable"} /\ kind \in {"cases", "processes", "none"}
         /\ cancelled \in BOOLEAN /\ phase \in {"off", "compile", "execute", "done"}
         /\ next \in 1 .. N + 1 /\ worker \in [Workers -> Worker]
         /\ cache \in [files : BOOLEAN, dir : BOOLEAN]
         /\ compiled \in [Subs -> [ok : BOOLEAN, timedOut : BOOLEAN, ran : BOOLEAN]]
         /\ compiledCount \in 0 .. N
         /\ results \in [Subs -> {"none", "timed_out", "failed", "banned", "clean"}]
         /\ tests \in [Subs -> {"none", "run", "not run"}] /\ executedCount \in 0 .. N
         /\ bar \in 0 .. 2 * N
  BY Zenon DEF TypeOK, Worker, Pcs

LEMMA Numbers ==
  ASSUME TypeOK
  PROVE  /\ N \in Nat /\ next \in Nat /\ 1 <= next /\ next <= N + 1
         /\ compiledCount \in Nat /\ compiledCount <= N
         /\ executedCount \in Nat /\ executedCount <= N /\ bar \in Nat
<1>1. /\ N \in Nat /\ next \in 1 .. N + 1 /\ compiledCount \in 0 .. N /\ executedCount \in 0 .. N
      /\ bar \in 0 .. 2 * N
  BY Typed, PipelineAssumption
<1> QED BY <1>1

LEMMA ProgramsAre ==
  ASSUME TypeOK, NEW i \in Subs
  PROVE  /\ program[i] \in Seq(Source) /\ program[i] # <<>> /\ Len(program[i]) \in Nat \ {0}
         /\ DOMAIN program[i] = 1 .. Len(program[i])
<1>1. program[i] \in Seq(Source) /\ program[i] # <<>>
  BY PipelineAssumption DEF TypeOK
<1> QED BY <1>1

LEMMA HeldFinite == IsFiniteSet(Held) /\ Cardinality(Held) \in Nat
<1>1. Held \in SUBSET Workers
  BY DEF Held
<1> QED BY <1>1, FS_Subset, FS_CardinalityType, PipelineAssumption

LEMMA IdleIsWorker == Idle \in Worker
  BY PipelineAssumption DEF Idle, Worker, Pcs

LEMMA InvInit == Init => IInv
<1> SUFFICES ASSUME Init PROVE IInv
  OBVIOUS
<1>1. worker \in [Workers -> Worker]
  BY IdleIsWorker DEF Init
<1>2. /\ compiled \in [Subs -> [ok : BOOLEAN, timedOut : BOOLEAN, ran : BOOLEAN]]
      /\ cache \in [files : BOOLEAN, dir : BOOLEAN]
  BY DEF Init, Unbuilt
<1>3. /\ results \in [Subs -> {"none", "timed_out", "failed", "banned", "clean"}]
      /\ tests \in [Subs -> {"none", "run", "not run"}] /\ hits \in [Subs -> BOOLEAN]
  BY DEF Init
<1>4. TypeOK
  <2>1. /\ next \in 1 .. N + 1 /\ compiledCount \in 0 .. N /\ executedCount \in 0 .. N
        /\ bar \in 0 .. 2 * N
    BY PipelineAssumption DEF Init
  <2> QED BY <1>1, <1>2, <1>3, <2>1, Zenon DEF Init, TypeOK, Worker, Pcs
<1>5. Held = {}
  BY DEF Init, Held, Pc, Idle, Compiling, Executing, Preparing
<1>6. Cardinality(Held) = 0
  BY <1>5, FS_EmptySet
<1>7. Handed /\ Barred
  BY <1>6 DEF Init, Handed, Barred, Pc, Idle
<1>8. \A w \in Workers : Placed(w) /\ Sound(w)
  BY DEF Init, Placed, Sound, Pc, Idle, Compiling, Executing, Preparing
<1> QED BY <1>4, <1>7, <1>8 DEF Init, IInv, Executed, Supplied, Unbuilt

(***************************************************************************)
(* Types: a step of a worker changes its own record only.                  *)
(***************************************************************************)
Step(w) == CompileStep(w) \/ ExecuteStep(w)

LEMMA GotoTyped ==
  ASSUME TypeOK, NEW w \in Workers, NEW pc \in Pcs, Goto(w, pc)
  PROVE  worker' \in [Workers -> Worker]
<1>1. worker \in [Workers -> Worker]
  BY Typed
<1>2. [worker[w] EXCEPT !.pc = pc] \in Worker
  BY <1>1 DEF Worker
<1>3. worker' = [worker EXCEPT ![w] = [worker[w] EXCEPT !.pc = pc]]
  BY DEF Goto
<1> QED BY <1>1, <1>2, <1>3

\* A count is at most the number of submissions handed out.
LEMMA CountBelow ==
  ASSUME IInv, NEW w \in Workers, Pc(w) \in Compiling \cup Executing
  PROVE  /\ Cardinality(Held) \in Nat \ {0}
         /\ phase = "compile" => compiledCount + 1 \in 0 .. N
         /\ phase = "execute" => executedCount + 1 \in 0 .. N
<1>1. w \in Held
  BY DEF Held
<1>2. Cardinality(Held) \in Nat \ {0}
  BY <1>1, HeldFinite, FS_EmptySet
<1>3. /\ next \in 1 .. N + 1 /\ compiledCount \in 0 .. N /\ executedCount \in 0 .. N /\ Handed
  BY Typed DEF IInv
<1> QED BY <1>2, <1>3, PipelineAssumption DEF Handed

\* How gcc may end with the executable at hand, and what Build makes of that.
End == [ok : BOOLEAN, timedOut : BOOLEAN, ran : BOOLEAN]

Ends(w) ==
    LET source == Program(w)[worker[w].at] IN
    IF source = "missing" THEN {Unbuilt} ELSE Gcc(source, worker[w].files, worker[w].dir)

BuildsWith(w, gcc) ==
    worker' = [worker EXCEPT ![w].ok = @ /\ gcc.ok, ![w].timedOut = @ \/ gcc.timedOut,
                             ![w].ran = @ \/ gcc.ran, ![w].at = worker[w].at + 1,
                             ![w].pc = IF worker[w].at = Len(Program(w)) THEN "store" ELSE "build"]

LEMMA EndsTyped == \A w \in Workers : Ends(w) \subseteq End
<1> SUFFICES ASSUME NEW w \in Workers, NEW gcc \in Ends(w) PROVE gcc \in End
  OBVIOUS
<1> DEFINE source == Program(w)[worker[w].at]
           sound == source = "plain" \/ (source = "includes" /\ worker[w].files /\ worker[w].dir)
<1>1. CASE source = "missing"
  <2>1. gcc = Unbuilt
    BY <1>1, Zenon DEF Ends
  <2> QED BY <2>1 DEF Unbuilt, End
<1>2. CASE source # "missing" /\ (cancelled \/ source = "slow")
  <2>1. CASE cancelled
    <3>1. gcc \in [ok : {FALSE}, timedOut : BOOLEAN, ran : {TRUE}]
      BY <1>2, <2>1, Zenon DEF Ends, Gcc
    <3> QED BY <3>1 DEF End
  <2>2. CASE ~cancelled
    <3>1. gcc \in [ok : BOOLEAN, timedOut : {TRUE}, ran : {TRUE}]
      BY <1>2, <2>2, Zenon DEF Ends, Gcc
    <3> QED BY <3>1 DEF End
  <2> QED BY <2>1, <2>2
<1>3. CASE source # "missing" /\ ~cancelled /\ source # "slow"
  <2>1. gcc = [ok |-> sound, timedOut |-> FALSE, ran |-> TRUE]
    BY <1>3, Zenon DEF Ends, Gcc
  <2>2. sound \in BOOLEAN
    BY Zenon
  <2> HIDE DEF sound
  <2> QED BY <2>1, <2>2 DEF End
<1> QED BY <1>1, <1>2, <1>3

LEMMA WorkerTyped ==
  ASSUME IInv, NEW w \in Workers, Step(w)
  PROVE  worker' \in [Workers -> Worker]
<1>1. worker \in [Workers -> Worker] /\ TypeOK /\ cache.dir \in BOOLEAN
  BY Typed DEF IInv
<1>2. CASE Fetch(w)
  <2>1. CASE Goto(w, "out")
    BY <1>1, <2>1, GotoTyped DEF Pcs
  <2>2. CASE next <= N /\ worker' = [worker EXCEPT ![w] = [Idle EXCEPT !.pc = "resolve", !.i = next, !.at = 1]]
    <3>1. [Idle EXCEPT !.pc = "resolve", !.i = next, !.at = 1] \in Worker
      <4>1. next \in 1 .. N + 1 /\ N \in Nat
        BY <1>1, Typed, PipelineAssumption
      <4>2. next \in 0 .. N
        BY <2>2, <4>1
      <4>3. "resolve" \in Pcs
        BY DEF Pcs
      <4> QED BY <4>2, <4>3, IdleIsWorker DEF Worker
    <3> QED BY <1>1, <2>2, <3>1
  <2> QED BY <1>2, <2>1, <2>2 DEF Fetch
<1>3. CASE NotStarted(w)
  <2>1. [worker[w] EXCEPT !.pc = "store", !.ok = FALSE] \in Worker
    <3>1. worker[w] \in Worker /\ "store" \in Pcs
      BY <1>1 DEF Pcs
    <3> QED BY <3>1 DEF Worker
  <2>2. worker' = [worker EXCEPT ![w] = [worker[w] EXCEPT !.pc = "store", !.ok = FALSE]]
    BY <1>1, <1>3 DEF NotStarted
  <2> QED BY <1>1, <2>1, <2>2
<1>4. CASE Resolve(w)
  BY <1>1, <1>4 DEF Resolve, Goto, Worker, Pcs
<1>5. CASE ReadDir(w)
  <2>1. [worker[w] EXCEPT !.pc = "build", !.dir = cache.dir] \in Worker
    <3>1. worker[w] \in Worker /\ "build" \in Pcs
      BY <1>1 DEF Pcs
    <3> QED BY <1>1, <3>1 DEF Worker
  <2>2. worker' = [worker EXCEPT ![w] = [worker[w] EXCEPT !.pc = "build", !.dir = cache.dir]]
    BY <1>1, <1>5 DEF ReadDir
  <2> QED BY <1>1, <2>1, <2>2
<1>6. CASE FillFiles(w) \/ FillDir(w) \/ Store(w)
  BY <1>1, <1>6, GotoTyped DEF FillFiles, FillDir, Store, Pcs
<1>7. CASE Build(w)
  <2>1. PICK gcc \in Ends(w) : BuildsWith(w, gcc)
    BY <1>7, Zenon DEF Build, Ends, BuildsWith
  <2>2. gcc \in End
    BY <2>1, EndsTyped
  <2> DEFINE ok == worker[w].ok /\ gcc.ok
             late == worker[w].timedOut \/ gcc.timedOut
             ran == worker[w].ran \/ gcc.ran
             pc == IF worker[w].at = Len(Program(w)) THEN "store" ELSE "build"
             new == [worker[w] EXCEPT !.ok = ok, !.timedOut = late, !.ran = ran,
                                      !.at = worker[w].at + 1, !.pc = pc]
  <2>3. ok \in BOOLEAN /\ late \in BOOLEAN /\ ran \in BOOLEAN
    BY Zenon
  <2>4. pc \in Pcs /\ worker[w].at + 1 \in Nat
    BY <1>1 DEF Worker, Pcs
  <2>5. new \in Worker
    <3> HIDE DEF ok, late, ran, pc
    <3> QED BY <1>1, <2>3, <2>4 DEF Worker
  <2>6. worker' = [worker EXCEPT ![w] = new]
    <3>1. worker' = [worker EXCEPT ![w].ok = ok, ![w].timedOut = late, ![w].ran = ran,
                                   ![w].at = worker[w].at + 1, ![w].pc = pc]
      BY <2>1, Zenon DEF BuildsWith
    <3> HIDE DEF ok, late, ran, pc
    <3> QED BY <1>1, <3>1
  <2> QED BY <1>1, <2>5, <2>6
<1>8. CASE CountCompiled(w)
  <2>1. compiledCount + 1 \in 0 .. N
    <3>1. phase = "compile"
      BY <1>8, Typed DEF CountCompiled, IInv, Placed, Executing
    <3> QED BY <1>8, <3>1, CountBelow DEF CountCompiled, Compiling
  <2>2. [worker[w] EXCEPT !.pc = "report", !.share = compiledCount + 1] \in Worker
    <3>1. worker[w] \in Worker /\ "report" \in Pcs
      BY <1>1 DEF Pcs
    <3> QED BY <2>1, <3>1 DEF Worker
  <2>3. worker' = [worker EXCEPT ![w] = [worker[w] EXCEPT !.pc = "report", !.share = compiledCount + 1]]
    BY <1>1, <1>8 DEF CountCompiled
  <2> QED BY <1>1, <2>2, <2>3
<1>9. CASE ReportCompiled(w) \/ ReportExecuted(w)
  BY <1>1, <1>9, IdleIsWorker DEF ReportCompiled, ReportExecuted
<1>10. CASE Hand(w)
  <2>1. CASE Goto(w, "out")
    BY <1>1, <2>1, GotoTyped DEF Pcs
  <2>2. CASE next <= N /\ worker' = [worker EXCEPT ![w] = [Idle EXCEPT !.pc = "execute", !.i = next]]
    <3>1. [Idle EXCEPT !.pc = "execute", !.i = next] \in Worker
      <4>1. next \in 1 .. N + 1 /\ N \in Nat
        BY <1>1, Typed, PipelineAssumption
      <4>2. next \in 0 .. N
        BY <2>2, <4>1
      <4>3. "execute" \in Pcs
        BY DEF Pcs
      <4> QED BY <4>2, <4>3, IdleIsWorker DEF Worker
    <3> QED BY <1>1, <2>2, <3>1
  <2> QED BY <1>10, <2>1, <2>2 DEF Hand
<1>11. CASE Execute(w)
  BY <1>1, <1>11, GotoTyped DEF Execute, Pcs
<1> QED BY <1>2, <1>3, <1>4, <1>5, <1>6, <1>7, <1>8, <1>9, <1>10, <1>11
        DEF Step, CompileStep, ExecuteStep

LEMMA Alone ==
  ASSUME TypeOK, NEW w \in Workers, Step(w)
  PROVE  \A v \in Workers : v # w => worker'[v] = worker[v]
<1>1. worker \in [Workers -> Worker]
  BY Typed
<1> QED BY <1>1 DEF Step, CompileStep, ExecuteStep, Fetch, NotStarted, Resolve, ReadDir, FillFiles, FillDir,
         Build, Store, CountCompiled, ReportCompiled, Hand, Execute, ReportExecuted, Goto

LEMMA PhaseOf ==
  ASSUME IInv, NEW w \in Workers
  PROVE  /\ Pc(w) \in Compiling \cup {"report"} => phase = "compile"
         /\ Pc(w) \in Executing => phase = "execute"
  BY Typed DEF IInv, Placed, Compiling, Preparing, Executing

\* The counters and the bar.
LEMMA NumbersTyped ==
  ASSUME IInv, Next
  PROVE  /\ next' \in 1 .. N + 1 /\ compiledCount' \in 0 .. N /\ executedCount' \in 0 .. N
         /\ bar' \in 0 .. 2 * N
<1>1. /\ next \in 1 .. N + 1 /\ compiledCount \in 0 .. N /\ executedCount \in 0 .. N
      /\ bar \in 0 .. 2 * N /\ N \in Nat
  BY Typed, PipelineAssumption DEF IInv
<1>2. ASSUME NEW w \in Workers, Fetch(w) \/ Hand(w)
      PROVE  next' \in 1 .. N + 1 /\ UNCHANGED <<compiledCount, executedCount, bar>>
  BY <1>1, <1>2 DEF Fetch, Hand
<1>3. ASSUME NEW w \in Workers, CountCompiled(w)
      PROVE  compiledCount' \in 0 .. N /\ UNCHANGED <<next, executedCount, bar>>
  <2>1. Pc(w) \in Compiling
    BY <1>3 DEF CountCompiled, Compiling
  <2> QED BY <1>3, <2>1, CountBelow, PhaseOf DEF CountCompiled
<1>4. ASSUME NEW w \in Workers, ReportCompiled(w)
      PROVE  bar' \in 0 .. 2 * N /\ UNCHANGED <<next, compiledCount, executedCount>>
  <2>1. worker[w].share \in 0 .. N
    BY Typed DEF IInv, Worker
  <2> QED BY <1>1, <1>4, <2>1 DEF ReportCompiled, Report
<1>5. ASSUME NEW w \in Workers, ReportExecuted(w)
      PROVE  /\ bar' \in 0 .. 2 * N /\ executedCount' \in 0 .. N
             /\ UNCHANGED <<next, compiledCount>>
  <2>1. Pc(w) \in Executing
    BY <1>5 DEF ReportExecuted, Executing
  <2>2. executedCount + 1 \in 0 .. N
    BY <2>1, CountBelow, PhaseOf
  <2> QED BY <1>1, <1>5, <2>2 DEF ReportExecuted, Report
<1>6. ASSUME NEW w \in Workers,
             NotStarted(w) \/ Resolve(w) \/ ReadDir(w) \/ FillFiles(w) \/ FillDir(w) \/ Build(w) \/ Store(w)
               \/ Execute(w)
      PROVE  UNCHANGED <<next, compiledCount, executedCount, bar>>
  BY <1>6 DEF NotStarted, Resolve, ReadDir, FillFiles, FillDir, Build, Store, Execute
<1>7. ASSUME Assemble
      PROVE  next' \in 1 .. N + 1 /\ UNCHANGED <<compiledCount, executedCount, bar>>
  BY <1>1, <1>7 DEF Assemble, NewReport
<1>8. ASSUME Finish \/ Cancel PROVE UNCHANGED <<next, compiledCount, executedCount, bar>>
  BY <1>8 DEF Finish, Cancel
<1> QED BY <1>1, <1>2, <1>3, <1>4, <1>5, <1>6, <1>7, <1>8 DEF Next, CompileStep, ExecuteStep

\* What is kept of the submissions.
LEMMA ResultsTyped ==
  ASSUME IInv, Next
  PROVE  /\ compiled' \in [Subs -> End] /\ hits' \in [Subs -> BOOLEAN]
         /\ results' \in [Subs -> {"none", "timed_out", "failed", "banned", "clean"}]
         /\ tests' \in [Subs -> {"none", "run", "not run"}]
<1>1. /\ compiled \in [Subs -> End] /\ hits \in [Subs -> BOOLEAN]
      /\ results \in [Subs -> {"none", "timed_out", "failed", "banned", "clean"}]
      /\ tests \in [Subs -> {"none", "run", "not run"}] /\ worker \in [Workers -> Worker]
  BY Typed DEF IInv, End
<1>2. ASSUME NEW w \in Workers, Store(w)
      PROVE  compiled' \in [Subs -> End] /\ UNCHANGED <<hits, results, tests>>
  <2>1. [ok |-> worker[w].ok, timedOut |-> worker[w].timedOut, ran |-> worker[w].ran] \in End
    BY <1>1 DEF Worker, End
  <2> QED BY <1>1, <1>2, <2>1 DEF Store
<1>3. ASSUME NEW w \in Workers, Execute(w)
      PROVE  tests' \in [Subs -> {"none", "run", "not run"}] /\ UNCHANGED <<compiled, hits, results>>
  BY <1>1, <1>3 DEF Execute
<1>4. ASSUME NewReport
      PROVE  /\ hits' \in [Subs -> BOOLEAN]
             /\ results' \in [Subs -> {"none", "timed_out", "failed", "banned", "clean"}]
             /\ UNCHANGED <<compiled, tests>>
  BY <1>4 DEF NewReport, Status
<1>5. ASSUME NEW w \in Workers,
             Fetch(w) \/ NotStarted(w) \/ Resolve(w) \/ ReadDir(w) \/ FillFiles(w) \/ FillDir(w) \/ Build(w)
               \/ CountCompiled(w) \/ ReportCompiled(w) \/ Hand(w) \/ ReportExecuted(w)
      PROVE  UNCHANGED <<compiled, hits, results, tests>>
  BY <1>5 DEF Fetch, NotStarted, Resolve, ReadDir, FillFiles, FillDir, Build, CountCompiled,
              ReportCompiled, Hand, ReportExecuted
<1>6. ASSUME Finish \/ Cancel PROVE UNCHANGED <<compiled, hits, results, tests>>
  BY <1>6 DEF Finish, Cancel
<1> QED BY <1>1, <1>2, <1>3, <1>4, <1>5, <1>6 DEF Next, CompileStep, ExecuteStep, Assemble

LEMMA TypeStep == IInv /\ Next => TypeOK'
<1> SUFFICES ASSUME IInv, Next PROVE TypeOK'
  OBVIOUS
<1>1. TypeOK /\ worker \in [Workers -> Worker] /\ cache \in [files : BOOLEAN, dir : BOOLEAN]
  BY Typed DEF IInv
<1>2. worker' \in [Workers -> Worker]
  <2>1. ASSUME NewReport PROVE worker' \in [Workers -> Worker]
    BY <2>1, IdleIsWorker DEF NewReport
  <2> QED BY <1>1, <2>1, WorkerTyped DEF Next, Step, Assemble, Finish, Cancel
<1>3. cache' \in [files : BOOLEAN, dir : BOOLEAN]
  <2>1. ASSUME NEW w \in Workers, FillFiles(w) \/ FillDir(w) PROVE cache' \in [files : BOOLEAN, dir : BOOLEAN]
    BY <1>1, <2>1 DEF FillFiles, FillDir, Worker
  <2>2. ASSUME NEW w \in Workers,
               Fetch(w) \/ NotStarted(w) \/ Resolve(w) \/ ReadDir(w) \/ Build(w) \/ Store(w)
                 \/ CountCompiled(w) \/ ReportCompiled(w) \/ Hand(w) \/ Execute(w) \/ ReportExecuted(w)
        PROVE  UNCHANGED cache
    BY <2>2 DEF Fetch, NotStarted, Resolve, ReadDir, Build, Store, CountCompiled, ReportCompiled,
                Hand, Execute, ReportExecuted
  <2>3. ASSUME Assemble \/ Finish \/ Cancel PROVE UNCHANGED cache
    BY <2>3 DEF Assemble, NewReport, Finish, Cancel
  <2> QED BY <1>1, <2>1, <2>2, <2>3 DEF Next, CompileStep, ExecuteStep
<1>4. UNCHANGED given /\ cancelled' \in BOOLEAN /\ phase' \in {"off", "compile", "execute", "done"}
  <2>1. cancelled \in BOOLEAN /\ phase \in {"off", "compile", "execute", "done"}
    BY <1>1, Typed
  <2>2. ASSUME NEW w \in Workers, CompileStep(w) PROVE UNCHANGED <<given, cancelled, phase>>
    BY <2>2 DEF CompileStep, Fetch, NotStarted, Resolve, ReadDir, FillFiles, FillDir, Build, Store,
                CountCompiled, ReportCompiled
  <2>3. ASSUME NEW w \in Workers, ExecuteStep(w) PROVE UNCHANGED <<given, cancelled, phase>>
    BY <2>3 DEF ExecuteStep, Hand, Execute, ReportExecuted
  <2>4. CASE Assemble
    BY <2>1, <2>4 DEF Assemble, NewReport
  <2>5. CASE Finish \/ Cancel
    BY <2>1, <2>5 DEF Finish, Cancel
  <2> QED BY <2>1, <2>2, <2>3, <2>4, <2>5 DEF Next
<1>5. /\ program' \in [Subs -> Programs] /\ libs' \in {"unset", "lost", "usable"}
      /\ kind' \in {"cases", "processes", "none"}
  BY <1>1, <1>4, Typed DEF given
<1> QED BY <1>2, <1>3, <1>4, <1>5, NumbersTyped, ResultsTyped, Zenon DEF TypeOK, Worker, Pcs, End

(***************************************************************************)
(* Where the workers are, and what was handed out.                         *)
(***************************************************************************)
Plain(w) ==
    \/ NotStarted(w) \/ Resolve(w) \/ ReadDir(w) \/ FillFiles(w) \/ FillDir(w) \/ Build(w) \/ Store(w)
    \/ Execute(w)

\* A step of a worker with its submission: it stays with it.
LEMMA PlainMoves ==
  ASSUME TypeOK, NEW w \in Workers, Plain(w)
  PROVE  /\ worker'[w].i = worker[w].i
         /\ Pc(w) \in Compiling => Pc(w)' \in Compiling
         /\ Pc(w) \in Executing => Pc(w)' \in Executing
         /\ Pc(w) \in Compiling \cup Executing
         /\ UNCHANGED <<phase, next, compiledCount, executedCount, bar, kind, hits, results>>
<1>1. worker \in [Workers -> Worker]
  BY Typed
<1>2. UNCHANGED <<phase, next, compiledCount, executedCount, bar, kind, hits, results>>
  BY DEF Plain, NotStarted, Resolve, ReadDir, FillFiles, FillDir, Build, Store, Execute, given
<1>3. worker'[w].i = worker[w].i
  <2>1. CASE NotStarted(w) \/ Resolve(w) \/ ReadDir(w)
    BY <1>1, <2>1 DEF NotStarted, Resolve, ReadDir, Goto, Worker
  <2>2. CASE FillFiles(w) \/ FillDir(w) \/ Store(w) \/ Execute(w)
    <3>1. \E pc : worker' = [worker EXCEPT ![w].pc = pc]
      BY <2>2, Zenon DEF FillFiles, FillDir, Store, Execute, Goto
    <3> QED BY <1>1, <3>1 DEF Worker
  <2>3. CASE Build(w)
    BY <1>1, <2>3 DEF Build, Worker
  <2> QED BY <2>1, <2>2, <2>3 DEF Plain
<1>4. CASE NotStarted(w) \/ Resolve(w) \/ ReadDir(w) \/ FillFiles(w) \/ FillDir(w) \/ Store(w)
  <2>1. Pc(w) \in Compiling /\ Pc(w) \notin Executing
    BY <1>4 DEF NotStarted, Resolve, ReadDir, FillFiles, FillDir, Store, Compiling, Preparing, Executing
  <2>2. Pc(w)' \in Compiling
    BY <1>1, <1>4 DEF NotStarted, Resolve, ReadDir, FillFiles, FillDir, Store, Goto, Worker, Pc, Compiling,
       Preparing
  <2> QED BY <1>2, <1>3, <2>1, <2>2
<1>5. CASE Build(w)
  <2>1. Pc(w) = "build" /\ Pc(w)' \in {"store", "build"}
    BY <1>1, <1>5 DEF Build, Worker, Pc
  <2> QED BY <1>2, <1>3, <2>1 DEF Compiling, Preparing, Executing
<1>6. CASE Execute(w)
  BY <1>1, <1>2, <1>3, <1>6 DEF Execute, Goto, Worker, Pc, Compiling, Preparing, Executing
<1> QED BY <1>4, <1>5, <1>6 DEF Plain

LEMMA TakeMoves ==
  ASSUME TypeOK, NEW w \in Workers, Fetch(w) \/ Hand(w)
  PROVE  /\ Pc(w) = "idle" /\ phase \in {"compile", "execute"}
         /\ \/ next = N + 1 /\ Pc(w)' = "out" /\ next' = next
            \/ /\ next \in Subs /\ next' = next + 1 /\ worker'[w].i = next
               /\ phase = "compile" => Pc(w)' = "resolve"
               /\ phase = "execute" => Pc(w)' = "execute"
         /\ UNCHANGED <<phase, compiledCount, executedCount, bar, kind, hits, results, compiled, tests>>
<1>1. worker \in [Workers -> Worker] /\ Idle \in Worker /\ next \in 1 .. N + 1 /\ N \in Nat
  BY Typed, IdleIsWorker, PipelineAssumption
<1>2. /\ Pc(w) = "idle" /\ phase \in {"compile", "execute"}
      /\ UNCHANGED <<phase, compiledCount, executedCount, bar, kind, hits, results, compiled, tests>>
  BY DEF Fetch, Hand, given
<1>3. \/ next > N /\ Goto(w, "out") /\ UNCHANGED next
      \/ /\ next <= N /\ next' = next + 1
         /\ \/ phase = "compile" /\ worker' = [worker EXCEPT ![w] = [Idle EXCEPT !.pc = "resolve", !.i = next, !.at = 1]]
            \/ phase = "execute" /\ worker' = [worker EXCEPT ![w] = [Idle EXCEPT !.pc = "execute", !.i = next]]
  BY DEF Fetch, Hand
<1>4. CASE next > N /\ Goto(w, "out") /\ UNCHANGED next
  BY <1>1, <1>2, <1>4 DEF Goto, Worker, Pc
<1>5. CASE /\ next <= N /\ next' = next + 1
           /\ \/ phase = "compile" /\ worker' = [worker EXCEPT ![w] = [Idle EXCEPT !.pc = "resolve", !.i = next, !.at = 1]]
              \/ phase = "execute" /\ worker' = [worker EXCEPT ![w] = [Idle EXCEPT !.pc = "execute", !.i = next]]
  <2>1. next \in Subs
    BY <1>1, <1>5 DEF Subs
  <2>2. worker'[w].i = next /\ (phase = "compile" => worker'[w].pc = "resolve")
        /\ (phase = "execute" => worker'[w].pc = "execute")
    BY <1>1, <1>5 DEF Worker
  <2> QED BY <1>2, <1>5, <2>1, <2>2 DEF Pc
<1> QED BY <1>3, <1>4, <1>5

LEMMA LeaveMoves ==
  ASSUME TypeOK, NEW w \in Workers, CountCompiled(w) \/ ReportCompiled(w) \/ ReportExecuted(w)
  PROVE  /\ CountCompiled(w) => Pc(w) = "count" /\ Pc(w)' = "report"
         /\ ReportCompiled(w) => Pc(w) = "report" /\ Pc(w)' = "idle"
         /\ ReportExecuted(w) => Pc(w) = "executed" /\ Pc(w)' = "idle"
         /\ UNCHANGED <<phase, next, kind, hits, results, compiled, tests>>
<1>1. worker \in [Workers -> Worker]
  BY Typed
<1> QED BY <1>1 DEF CountCompiled, ReportCompiled, ReportExecuted, Worker, Pc, Idle, given

LEMMA StepIs ==
  ASSUME NEW w \in Workers, Step(w)
  PROVE  \/ Plain(w) \/ Fetch(w) \/ Hand(w)
         \/ CountCompiled(w) \/ ReportCompiled(w) \/ ReportExecuted(w)
  BY DEF Step, CompileStep, ExecuteStep, Plain

LEMMA PlacedStep ==
  ASSUME IInv, NEW w \in Workers, Step(w)
  PROVE  \A v \in Workers : Placed(v)'
<1>1. TypeOK /\ \A v \in Workers : Placed(v)
  BY DEF IInv
<1>2. phase' = phase
  BY <1>1, StepIs, PlainMoves, TakeMoves, LeaveMoves
<1>3. ASSUME NEW v \in Workers, v # w PROVE Placed(v)'
  <2>1. worker'[v] = worker[v]
    BY <1>1, <1>3, Alone
  <2> QED BY <1>1, <1>2, <2>1 DEF Placed, Pc
<1>4. Placed(w)'
  <2>1. CASE Plain(w)
    BY <1>1, <2>1, PlainMoves, PhaseOf DEF Placed, Compiling, Preparing, Executing, Pc
  <2>2. CASE Fetch(w) \/ Hand(w)
    BY <1>1, <2>2, TakeMoves DEF Placed, Compiling, Preparing, Executing, Pc
  <2>3. CASE CountCompiled(w) \/ ReportCompiled(w) \/ ReportExecuted(w)
    <3>1. CountCompiled(w) => phase = "compile"
      BY <1>1, <2>3, LeaveMoves, PhaseOf DEF Compiling
    <3> QED BY <1>1, <2>3, <3>1, LeaveMoves, PhaseOf DEF Placed, Compiling, Preparing, Executing, Pc
  <2> QED BY <2>1, <2>2, <2>3, StepIs
<1> QED BY <1>3, <1>4

LEMMA HeldAfter ==
  ASSUME NEW w \in Workers, \A v \in Workers : v # w => worker'[v] = worker[v]
  PROVE  /\ Cardinality(Held) \in Nat
         /\ w \in Held /\ w \in Held' => Cardinality(Held)' = Cardinality(Held)
         /\ w \notin Held /\ w \in Held' => Cardinality(Held)' = Cardinality(Held) + 1
         /\ w \in Held /\ w \notin Held' => Cardinality(Held)' = Cardinality(Held) - 1
         /\ w \notin Held /\ w \notin Held' => Cardinality(Held)' = Cardinality(Held)
<1>1. IsFiniteSet(Held) /\ Cardinality(Held) \in Nat
  BY HeldFinite
<1>2. Held' = IF w \in Held' THEN Held \cup {w} ELSE Held \ {w}
  BY DEF Held, Pc
<1>3. w \in Held => Held \cup {w} = Held
  OBVIOUS
<1>4. w \notin Held => Held \ {w} = Held
  OBVIOUS
<1>5. Cardinality(Held \cup {w}) = IF w \in Held THEN Cardinality(Held) ELSE Cardinality(Held) + 1
  BY <1>1, FS_AddElement
<1>6. Cardinality(Held \ {w}) = IF w \in Held THEN Cardinality(Held) - 1 ELSE Cardinality(Held)
  BY <1>1, FS_RemoveElement
<1> QED BY <1>1, <1>2, <1>3, <1>4, <1>5, <1>6

LEMMA HandedStep ==
  ASSUME IInv, NEW w \in Workers, Step(w)
  PROVE  Handed'
<1>1. TypeOK /\ Handed /\ next \in 1 .. N + 1 /\ N \in Nat
  BY Typed, PipelineAssumption DEF IInv
<1>2. \A v \in Workers : v # w => worker'[v] = worker[v] /\ Pc(v)' = Pc(v)
  BY <1>1, Alone DEF Pc
<1>3. w \in Held <=> Pc(w) \in Compiling \cup Executing
  BY DEF Held
<1>4. w \in Held' <=> Pc(w)' \in Compiling \cup Executing
  BY DEF Held
<1>5. Cardinality(Held) \in Nat
  BY HeldFinite
<1>6. CASE Plain(w)
  <2>1. Cardinality(Held)' = Cardinality(Held)
    BY <1>1, <1>2, <1>3, <1>4, <1>6, PlainMoves, HeldAfter
  <2>2. Pc(w)' # "out"
    BY <1>1, <1>6, PlainMoves DEF Compiling, Preparing, Executing
  <2> QED BY <1>1, <1>2, <1>6, <2>1, <2>2, PlainMoves DEF Handed
<1>7. CASE Fetch(w) \/ Hand(w)
  <2>1. CASE next = N + 1 /\ Pc(w)' = "out" /\ next' = next
    <3>1. Cardinality(Held)' = Cardinality(Held)
      BY <1>1, <1>2, <1>3, <1>4, <1>7, <2>1, TakeMoves, HeldAfter DEF Compiling, Preparing, Executing
    <3> QED BY <1>1, <1>2, <1>7, <2>1, <3>1, TakeMoves DEF Handed
  <2>2. CASE next \in Subs /\ next' = next + 1 /\ Pc(w)' \in {"resolve", "execute"}
    <3>1. Cardinality(Held)' = Cardinality(Held) + 1
      BY <1>1, <1>2, <1>3, <1>4, <1>7, <2>2, TakeMoves, HeldAfter DEF Compiling, Preparing, Executing
    <3>2. \A v \in Workers : phase # "done" => Pc(v)' # "out"
      BY <1>1, <1>2, <2>2 DEF Handed, Subs
    <3>3. compiledCount \in Nat /\ executedCount \in Nat
      BY <1>1, Numbers
    <3>4. UNCHANGED <<phase, compiledCount, executedCount>>
      BY <1>1, <1>7, TakeMoves
    <3> QED BY <1>1, <1>5, <2>2, <3>1, <3>2, <3>3, <3>4 DEF Handed
  <2> QED BY <1>1, <1>7, <2>1, <2>2, TakeMoves
<1>8. CASE CountCompiled(w) \/ ReportCompiled(w) \/ ReportExecuted(w)
  <2>1. Pc(w)' # "out" /\ next' = next /\ phase' = phase
    BY <1>1, <1>8, LeaveMoves
  <2>2. \A v \in Workers : Pc(v)' = "out" => Pc(v) = "out"
    BY <1>2, <2>1
  <2>3. CASE CountCompiled(w)
    <3>1. phase = "compile" /\ Cardinality(Held)' = Cardinality(Held) - 1
      BY <1>1, <1>2, <1>3, <1>4, <2>3, LeaveMoves, PhaseOf, HeldAfter DEF Compiling, Preparing, Executing
    <3>2. compiledCount' = compiledCount + 1 /\ executedCount' = executedCount /\ compiledCount \in 0 .. N
      BY <1>1, <2>3, Typed DEF CountCompiled
    <3> QED BY <1>1, <1>5, <2>1, <2>2, <3>1, <3>2 DEF Handed
  <2>4. CASE ReportCompiled(w)
    <3>1. Cardinality(Held)' = Cardinality(Held)
      BY <1>1, <1>2, <1>3, <1>4, <2>4, LeaveMoves, HeldAfter DEF Compiling, Preparing, Executing
    <3>2. compiledCount' = compiledCount /\ executedCount' = executedCount
      BY <2>4 DEF ReportCompiled
    <3> QED BY <1>1, <2>1, <2>2, <3>1, <3>2 DEF Handed
  <2>5. CASE ReportExecuted(w)
    <3>1. phase = "execute" /\ Cardinality(Held)' = Cardinality(Held) - 1
      BY <1>1, <1>2, <1>3, <1>4, <2>5, LeaveMoves, PhaseOf, HeldAfter DEF Compiling, Preparing, Executing
    <3>2. executedCount' = executedCount + 1 /\ executedCount \in 0 .. N
      BY <1>1, <2>5, Typed DEF ReportExecuted
    <3>3. phase' = "execute" /\ executedCount' + Cardinality(Held)' = next' - 1
      BY <1>1, <1>5, <2>1, <3>1, <3>2 DEF Handed
    <3>4. \A v \in Workers : Pc(v)' = "out" /\ phase' # "done" => next' = N + 1
      BY <1>1, <2>1, <2>2 DEF Handed
    <3>5. phase' # "compile" /\ phase' # "done"
      BY <3>3
    <3> QED BY <3>3, <3>4, <3>5, Zenon DEF Handed
  <2> QED BY <1>8, <2>3, <2>4, <2>5
<1> QED BY <1>6, <1>7, <1>8, StepIs

(***************************************************************************)
(* The bar.                                                                *)
(***************************************************************************)
LEMMA BarredStep ==
  ASSUME IInv, NEW w \in Workers, Step(w)
  PROVE  Barred'
<1>1. TypeOK /\ Barred /\ Handed /\ worker \in [Workers -> Worker]
  BY Typed DEF IInv
<1>2. \A v \in Workers : v # w => worker'[v] = worker[v] /\ Pc(v)' = Pc(v)
  BY <1>1, Alone DEF Pc
<1>3. CASE Plain(w)
  <2>1. Pc(w) # "report" /\ Pc(w)' # "report"
    BY <1>1, <1>3, PlainMoves DEF Compiling, Preparing, Executing
  <2> QED BY <1>1, <1>2, <1>3, <2>1, PlainMoves DEF Barred
<1>4. CASE Fetch(w) \/ Hand(w)
  <2>1. Pc(w) # "report" /\ Pc(w)' # "report"
    BY <1>1, <1>4, TakeMoves
  <2> QED BY <1>1, <1>2, <1>4, <2>1, TakeMoves DEF Barred
<1>5. CASE CountCompiled(w)
  <2>1. Pc(w)' = "report" /\ phase = "compile" /\ phase' = phase
    BY <1>1, <1>5, LeaveMoves, PhaseOf DEF Compiling
  <2>2. worker'[w].share = compiledCount + 1
    BY <1>1, <1>5 DEF CountCompiled, Worker
  <2>3. compiledCount' = compiledCount + 1 /\ bar' = bar
    BY <1>5 DEF CountCompiled
  <2>4. \A v \in Workers : worker[v].share \in 0 .. N
    BY <1>1 DEF Worker
  <2>5. bar <= compiledCount'
    BY <1>1, <2>1, <2>3, Numbers DEF Barred
  <2>6. \A v \in Workers : Pc(v)' = "report" => worker'[v].share <= compiledCount'
    BY <1>1, <1>2, <2>1, <2>2, <2>3, <2>4, Numbers DEF Barred
  <2> QED BY <2>1, <2>2, <2>3, <2>5, <2>6 DEF Barred
<1>6. CASE ReportCompiled(w)
  <2>1. Pc(w) = "report" /\ Pc(w)' # "report" /\ phase = "compile" /\ phase' = phase
    BY <1>1, <1>6, LeaveMoves, PhaseOf
  <2>2. compiledCount' = compiledCount /\ bar' = IF worker[w].share > bar THEN worker[w].share ELSE bar
    BY <1>6 DEF ReportCompiled, Report
  <2>3. \A v \in Workers : worker[v].share \in 0 .. N
    BY <1>1 DEF Worker
  <2>4. bar' <= compiledCount'
    BY <1>1, <2>1, <2>2, <2>3, Numbers DEF Barred
  <2>5. bar' = compiledCount' \/ \E v \in Workers : Pc(v)' = "report" /\ worker'[v].share = compiledCount'
    <3>1. CASE bar = compiledCount \/ worker[w].share = compiledCount
      BY <1>1, <2>1, <2>2, <2>3, <3>1, Numbers DEF Barred
    <3>2. CASE ~(bar = compiledCount \/ worker[w].share = compiledCount)
      <4>1. PICK v \in Workers : Pc(v) = "report" /\ worker[v].share = compiledCount
        BY <1>1, <2>1, <3>2 DEF Barred
      <4> QED BY <1>2, <2>2, <3>2, <4>1
    <3> QED BY <3>1, <3>2
  <2> QED BY <1>1, <1>2, <2>1, <2>2, <2>4, <2>5 DEF Barred
<1>7. CASE ReportExecuted(w)
  <2>1. phase = "execute" /\ phase' = phase
    BY <1>1, <1>7, LeaveMoves, PhaseOf DEF Executing
  <2>2. compiledCount = N /\ bar = N + executedCount
    BY <1>1, <2>1 DEF Barred
  <2>3. /\ compiledCount' = compiledCount /\ executedCount' = executedCount + 1
        /\ bar' = IF N + executedCount + 1 > bar THEN N + executedCount + 1 ELSE bar
    BY <1>7 DEF ReportExecuted, Report
  <2> QED BY <1>1, <2>1, <2>2, <2>3, Numbers DEF Barred
<1> QED BY <1>3, <1>4, <1>5, <1>6, <1>7, StepIs

(***************************************************************************)
(* What is executed.                                                       *)
(***************************************************************************)
LEMMA ExecutedStep ==
  ASSUME IInv, NEW w \in Workers, Step(w)
  PROVE  Executed'
<1>1. /\ TypeOK /\ Executed /\ worker \in [Workers -> Worker]
      /\ tests \in [Subs -> {"none", "run", "not run"}] /\ phase \in {"off", "compile", "execute", "done"}
  BY Typed DEF IInv
<1>2. \A v \in Workers : v # w => worker'[v] = worker[v] /\ Pc(v)' = Pc(v)
  BY <1>1, Alone DEF Pc
<1>3. phase' = phase /\ phase # "done"
  <2>1. Plain(w) \/ CountCompiled(w) \/ ReportCompiled(w) \/ ReportExecuted(w) => phase \in {"compile", "execute"}
    BY <1>1, PlainMoves, LeaveMoves, PhaseOf DEF Compiling, Executing
  <2> QED BY <1>1, <2>1, StepIs, PlainMoves, TakeMoves, LeaveMoves
<1>4. CASE phase = "compile"
  BY <1>3, <1>4 DEF Executed
<1>5. CASE phase = "execute"
  <2>1. Pc(w) \in Executing \cup {"idle", "out"}
    BY <1>5 DEF IInv, Placed
  <2>2. Execute(w) \/ Hand(w) \/ ReportExecuted(w)
    BY <1>5, <2>1 DEF Step, CompileStep, ExecuteStep, Fetch, NotStarted, Resolve, ReadDir, FillFiles,
       FillDir, Build, Store, CountCompiled, ReportCompiled, Executing
  <2>3. UNCHANGED <<compiled, results, hits, kind>>
    BY <2>2 DEF Execute, Hand, ReportExecuted, given
  <2>4. \A i \in Subs : Fate(i)' = Fate(i) /\ Status(compiled'[i], hits'[i]) = Status(compiled[i], hits[i])
    BY <2>3 DEF Fate
  <2>5. \A i \in Subs : i < next' =>
           tests'[i] = Fate(i) \/ \E v \in Workers : Pc(v)' = "execute" /\ worker'[v].i = i
    <3>1. CASE Execute(w)
      <4>1. worker[w].i \in Subs /\ tests' = [tests EXCEPT ![worker[w].i] = Fate(worker[w].i)]
        <5>1. worker[w].i \in Subs
          BY <3>1 DEF IInv, Placed, Execute, Executing
        <5> QED BY <3>1, <5>1, Zenon DEF Execute, Fate
      <4>2. next' = next
        BY <3>1 DEF Execute
      <4> QED BY <1>1, <1>2, <1>5, <4>1, <4>2 DEF Executed
    <3>2. CASE Hand(w)
      <4>1. tests' = tests /\ Pc(w) # "execute"
        BY <3>2 DEF Hand
      <4>2. \A i \in Subs : i < next =>
               tests'[i] = Fate(i) \/ \E v \in Workers : Pc(v)' = "execute" /\ worker'[v].i = i
        BY <1>1, <1>2, <1>5, <4>1 DEF Executed
      <4>3. CASE next' = next
        BY <4>2, <4>3
      <4>4. CASE next' = next + 1 /\ Pc(w)' = "execute" /\ worker'[w].i = next
        <5>1. \A i \in Subs : i < next' => i < next \/ i = next
          <6>1. next \in Nat
            BY <1>1, Numbers
          <6>2. \A i \in Int : i < next + 1 => i < next \/ i = next
            BY <6>1
          <6> QED BY <4>4, <6>2 DEF Subs
        <5> QED BY <4>2, <4>4, <5>1
      <4> QED BY <1>1, <1>5, <3>2, <4>3, <4>4, TakeMoves
    <3>3. CASE ReportExecuted(w)
      <4>1. tests' = tests /\ next' = next /\ Pc(w) # "execute"
        BY <3>3 DEF ReportExecuted
      <4> QED BY <1>1, <1>2, <1>5, <4>1 DEF Executed
    <3> QED BY <2>2, <3>1, <3>2, <3>3
  <2>6. \A i \in Subs : results[i] = Status(compiled[i], hits[i])
    BY <1>1, <1>5 DEF Executed
  <2>7. kind # "none"
    BY <1>1, <1>5 DEF Executed
  <2> QED BY <1>3, <1>5, <2>3, <2>4, <2>5, <2>6, <2>7 DEF Executed
<1> QED BY <1>1, <1>3, <1>4, <1>5 DEF IInv

(***************************************************************************)
(* What is built.                                                          *)
(***************************************************************************)
\* An executable gcc has built was of a source that fits.
LEMMA GccFits ==
  ASSUME NEW w \in Workers, worker[w].files => libs = "usable", NEW gcc \in Ends(w), gcc.ok
  PROVE  Fits(Program(w)[worker[w].at])
<1> DEFINE source == Program(w)[worker[w].at]
           sound == source = "plain" \/ (source = "includes" /\ worker[w].files /\ worker[w].dir)
<1>1. CASE source = "missing"
  <2>1. gcc = Unbuilt
    BY <1>1, Zenon DEF Ends
  <2> QED BY <2>1 DEF Unbuilt
<1>2. CASE source # "missing" /\ cancelled
  <2>1. gcc \in [ok : {FALSE}, timedOut : BOOLEAN, ran : {TRUE}]
    BY <1>2, Zenon DEF Ends, Gcc
  <2> QED BY <2>1
<1>3. CASE source = "slow"
  BY <1>3 DEF Fits
<1>4. CASE source # "missing" /\ ~cancelled /\ source # "slow"
  <2>1. gcc = [ok |-> sound, timedOut |-> FALSE, ran |-> TRUE]
    BY <1>4, Zenon DEF Ends, Gcc
  <2>2. sound
    <3> HIDE DEF sound
    <3> QED BY <2>1
  <2> QED BY <2>2 DEF Fits
<1> QED BY <1>1, <1>2, <1>3, <1>4

LEMMA SoundStep ==
  ASSUME IInv, NEW w \in Workers, Step(w)
  PROVE  Sound(w)'
<1>1. /\ TypeOK /\ Sound(w) /\ (cache.files => libs = "usable") /\ worker \in [Workers -> Worker]
      /\ cache \in [files : BOOLEAN, dir : BOOLEAN] /\ Placed(w)
  BY Typed DEF IInv, Supplied
<1>2. UNCHANGED <<program, libs>>
  BY DEF given, Step, CompileStep, ExecuteStep, Fetch, NotStarted, Resolve, ReadDir, FillFiles,
         FillDir, Build, Store, CountCompiled, ReportCompiled, Hand, Execute, ReportExecuted
<1>3. \A s : Fits(s)' <=> Fits(s)
  BY <1>2 DEF Fits
<1>4. ASSUME NEW pc, worker' = [worker EXCEPT ![w].pc = pc]
      PROVE  /\ worker'[w].i = worker[w].i /\ worker'[w].at = worker[w].at /\ worker'[w].pc = pc
             /\ worker'[w].ok = worker[w].ok /\ worker'[w].files = worker[w].files
  BY <1>1, <1>4 DEF Worker
<1>5. CASE Fetch(w)
  <2>1. CASE Goto(w, "out")
    BY <1>1, <1>2, <1>4, <2>1 DEF Goto, Sound, Pc, Preparing
  <2>2. CASE next <= N /\ worker' = [worker EXCEPT ![w] = [Idle EXCEPT !.pc = "resolve", !.i = next, !.at = 1]]
    <3>1. /\ worker'[w].pc = "resolve" /\ worker'[w].i = next /\ worker'[w].at = 1
          /\ worker'[w].files = FALSE
      <4>1. Idle.files = FALSE
        BY DEF Idle
      <4> QED BY <1>1, <2>2, <4>1, IdleIsWorker DEF Worker
    <3>2. next \in Subs
      <4>1. next \in Nat /\ 1 <= next /\ N \in Nat
        BY <1>1, Numbers
      <4> QED BY <2>2, <4>1 DEF Subs
    <3>3. Program(w)' = program[next] /\ Len(program[next]) \in Nat \ {0}
      BY <1>1, <1>2, <3>1, <3>2, ProgramsAre DEF Program
    <3>4. 1 \in 1 .. Len(program[next]) /\ 1 .. 1 - 1 = {}
      BY <3>3
    <3> QED BY <3>1, <3>3, <3>4 DEF Sound, Pc
  <2> QED BY <1>5, <2>1, <2>2 DEF Fetch
<1>6. CASE NotStarted(w)
  <2>1. worker'[w].pc = "store" /\ worker'[w].ok = FALSE /\ worker'[w].files = worker[w].files
    BY <1>1, <1>6 DEF NotStarted, Worker
  <2> QED BY <1>1, <1>2, <2>1 DEF Sound, Pc, Preparing
<1>7. CASE Resolve(w)
  <2>1. /\ Pc(w) = "resolve" /\ worker'[w].pc \in {"build", "reading", "filling"}
        /\ worker'[w].i = worker[w].i /\ worker'[w].at = worker[w].at /\ worker'[w].ok = worker[w].ok
    BY <1>1, <1>7 DEF Resolve, Goto, Worker
  <2>2. worker'[w].files => libs = "usable"
    BY <1>1, <1>7 DEF Resolve, Goto, Worker, Sound
  <2>3. Program(w)' = Program(w)
    BY <1>2, <2>1 DEF Program
  <2> QED BY <1>1, <1>2, <1>3, <2>1, <2>2, <2>3 DEF Sound, Pc, Preparing
<1>8. CASE ReadDir(w)
  <2>1. /\ Pc(w) = "reading" /\ worker'[w].pc = "build" /\ worker'[w].files = worker[w].files
        /\ worker'[w].i = worker[w].i /\ worker'[w].at = worker[w].at /\ worker'[w].ok = worker[w].ok
    BY <1>1, <1>8 DEF ReadDir, Worker
  <2>2. Program(w)' = Program(w)
    BY <1>2, <2>1 DEF Program
  <2> QED BY <1>1, <1>2, <1>3, <2>1, <2>2 DEF Sound, Pc, Preparing
<1>9. CASE FillFiles(w) \/ FillDir(w)
  <2>1. PICK pc \in {"fillingDir", "build"} : worker' = [worker EXCEPT ![w].pc = pc]
    BY <1>9 DEF FillFiles, FillDir, Goto
  <2>2. Pc(w) \in Preparing
    BY <1>9 DEF FillFiles, FillDir, Preparing
  <2>3. Program(w)' = Program(w)
    BY <1>2, <1>4, <2>1 DEF Program
  <2> QED BY <1>1, <1>2, <1>3, <1>4, <2>1, <2>2, <2>3 DEF Sound, Pc
<1>10. CASE Build(w)
  <2>1. PICK gcc \in Ends(w) : BuildsWith(w, gcc)
    BY <1>10, Zenon DEF Build, Ends, BuildsWith
  <2> DEFINE at == worker[w].at
             ok == worker[w].ok /\ gcc.ok
             last == at = Len(Program(w))
  <2>2. /\ worker'[w].i = worker[w].i /\ worker'[w].at = at + 1
        /\ worker'[w].files = worker[w].files /\ worker'[w].ok = ok
        /\ worker'[w].pc = IF last THEN "store" ELSE "build"
    <3> DEFINE late == worker[w].timedOut \/ gcc.timedOut
               ran == worker[w].ran \/ gcc.ran
    <3>1. worker' = [worker EXCEPT ![w].ok = ok, ![w].timedOut = late, ![w].ran = ran,
                                   ![w].at = at + 1, ![w].pc = IF last THEN "store" ELSE "build"]
      BY <2>1, Zenon DEF BuildsWith
    <3> HIDE DEF ok, late, ran, last, at
    <3> QED BY <1>1, <3>1 DEF Worker
  <2>3. /\ Program(w)' = Program(w) /\ Pc(w) = "build" /\ worker[w].i \in Subs
    BY <1>1, <1>2, <1>10, <2>2 DEF Program, Build, Placed, Compiling, Preparing
  <2>4. /\ at \in 1 .. Len(Program(w)) /\ Len(Program(w)) \in Nat
        /\ worker[w].ok => \A n \in 1 .. at - 1 : Fits(Program(w)[n])
    BY <1>1, <2>3, ProgramsAre DEF Sound, Preparing, Program
  <2>5. ok => \A n \in 1 .. at : Fits(Program(w)[n])
    <3>1. \A n \in 1 .. at : n \in 1 .. at - 1 \/ n = at
      BY <2>4
    <3>2. gcc.ok => Fits(Program(w)[at])
      BY <1>1, <2>1, GccFits DEF Sound
    <3> QED BY <2>4, <3>1, <3>2
  <2>6. (at + 1) - 1 = at /\ (~last => at + 1 \in 1 .. Len(Program(w)))
    BY <2>4
  <2>7. worker'[w].files => libs' = "usable"
    BY <1>1, <1>2, <2>2 DEF Sound
  <2>8. CASE last
    <3>1. worker'[w].pc = "store"
      BY <2>2, <2>8
    <3>2. worker'[w].ok => \A n \in 1 .. Len(Program(w)) : Fits(Program(w)[n])
      BY <2>2, <2>5, <2>8
    <3> HIDE DEF at, ok, last
    <3> QED BY <1>3, <2>3, <2>7, <3>1, <3>2 DEF Sound, Pc, Preparing
  <2>9. CASE ~last
    <3>1. worker'[w].pc = "build"
      BY <2>2, <2>9
    <3>2. worker'[w].at \in 1 .. Len(Program(w))
      BY <2>2, <2>6, <2>9
    <3>3. worker'[w].ok => \A n \in 1 .. worker'[w].at - 1 : Fits(Program(w)[n])
      BY <2>2, <2>5, <2>6
    <3> HIDE DEF at, ok, last
    <3> QED BY <1>3, <2>3, <2>7, <3>1, <3>2, <3>3 DEF Sound, Pc, Preparing
  <2> QED BY <2>8, <2>9
<1>11. CASE Store(w) \/ Execute(w)
  <2>1. PICK pc \in {"count", "executed"} : worker' = [worker EXCEPT ![w].pc = pc]
    BY <1>11 DEF Store, Execute, Goto
  <2> QED BY <1>1, <1>2, <1>4, <2>1 DEF Sound, Pc, Preparing
<1>12. CASE CountCompiled(w)
  <2>1. worker'[w].pc = "report" /\ worker'[w].files = worker[w].files
    BY <1>1, <1>12 DEF CountCompiled, Worker
  <2> QED BY <1>1, <1>2, <2>1 DEF Sound, Pc, Preparing
<1>13. CASE ReportCompiled(w) \/ ReportExecuted(w)
  <2>1. worker'[w] = Idle
    BY <1>1, <1>13 DEF ReportCompiled, ReportExecuted
  <2> QED BY <2>1 DEF Sound, Pc, Preparing, Idle
<1>14. CASE Hand(w)
  <2>1. CASE Goto(w, "out")
    BY <1>1, <1>2, <1>4, <2>1 DEF Goto, Sound, Pc, Preparing
  <2>2. CASE worker' = [worker EXCEPT ![w] = [Idle EXCEPT !.pc = "execute", !.i = next]]
    <3>1. worker'[w].pc = "execute" /\ worker'[w].files = FALSE
      <4>1. Idle.files = FALSE
        BY DEF Idle
      <4> QED BY <1>1, <2>2, <4>1, IdleIsWorker DEF Worker
    <3> QED BY <3>1 DEF Sound, Pc, Preparing
  <2> QED BY <1>14, <2>1, <2>2 DEF Hand
<1> QED BY <1>5, <1>6, <1>7, <1>8, <1>9, <1>10, <1>11, <1>12, <1>13, <1>14
        DEF Step, CompileStep, ExecuteStep

LEMMA SuppliedStep ==
  ASSUME IInv, NEW w \in Workers, Step(w)
  PROVE  Supplied'
<1>1. /\ TypeOK /\ Supplied /\ worker \in [Workers -> Worker] /\ Placed(w)
      /\ cache \in [files : BOOLEAN, dir : BOOLEAN] /\ compiled \in [Subs -> End]
  BY Typed DEF IInv, End
<1>2. UNCHANGED <<program, libs>>
  BY DEF given, Step, CompileStep, ExecuteStep, Fetch, NotStarted, Resolve, ReadDir, FillFiles,
         FillDir, Build, Store, CountCompiled, ReportCompiled, Hand, Execute, ReportExecuted
<1>3. \A s : Fits(s)' <=> Fits(s)
  BY <1>2 DEF Fits
<1>4. cache'.files => libs = "usable"
  <2>1. CASE FillFiles(w)
    BY <1>1, <2>1 DEF FillFiles, Supplied, Sound
  <2>2. CASE FillDir(w)
    BY <1>1, <2>2 DEF FillDir, Supplied
  <2>3. CASE ~FillFiles(w) /\ ~FillDir(w)
    <3>1. cache' = cache
      BY <2>3 DEF Step, CompileStep, ExecuteStep, Fetch, NotStarted, Resolve, ReadDir, Build, Store,
         CountCompiled, ReportCompiled, Hand, Execute, ReportExecuted
    <3> QED BY <1>1, <3>1 DEF Supplied
  <2> QED BY <2>1, <2>2, <2>3
<1>5. \A v \in Workers : Sound(v)'
  <2>1. ASSUME NEW v \in Workers, v # w PROVE Sound(v)'
    <3>1. worker'[v] = worker[v] /\ Program(v)' = Program(v)
      BY <1>1, <1>2, <2>1, Alone DEF Program
    <3> QED BY <1>1, <1>2, <1>3, <3>1 DEF Supplied, Sound, Pc
  <2> QED BY <2>1, SoundStep
<1>6. \A i \in Subs : compiled'[i].ok => \A n \in 1 .. Len(program[i]) : Fits(program[i][n])
  <2>1. CASE Store(w)
    <3>1. /\ worker[w].i \in Subs /\ Pc(w) = "store"
          /\ compiled' = [compiled EXCEPT ![worker[w].i] =
                [ok |-> worker[w].ok, timedOut |-> worker[w].timedOut, ran |-> worker[w].ran]]
      BY <1>1, <2>1 DEF Store, Placed, Compiling
    <3>2. worker[w].ok => \A n \in 1 .. Len(program[worker[w].i]) : Fits(program[worker[w].i][n])
      BY <1>1, <3>1 DEF Supplied, Sound, Program
    <3> QED BY <1>1, <3>1, <3>2 DEF Supplied
  <2>2. CASE ~Store(w)
    <3>1. compiled' = compiled
      BY <2>2 DEF Step, CompileStep, ExecuteStep, Fetch, NotStarted, Resolve, ReadDir, FillFiles, FillDir,
         Build, CountCompiled, ReportCompiled, Hand, Execute, ReportExecuted
    <3> QED BY <1>1, <3>1 DEF Supplied
  <2> QED BY <2>1, <2>2
<1> QED BY <1>2, <1>3, <1>4, <1>5, <1>6 DEF Supplied

(***************************************************************************)
(* The steps of the whole run.                                             *)
(***************************************************************************)
\* When every worker has left, all submissions are counted, and reported.
LEMMA AllCounted ==
  ASSUME IInv, \A w \in Workers : Pc(w) = "out", phase # "done"
  PROVE  /\ phase = "compile" => compiledCount = N /\ bar = N /\ executedCount = 0
         /\ phase = "execute" => executedCount = N /\ next = N + 1
<1>1. TypeOK /\ Handed /\ Barred
  BY DEF IInv
<1>2. Held = {}
  BY DEF Held, Compiling, Preparing, Executing
<1>3. Cardinality(Held) = 0
  BY <1>2, FS_EmptySet
<1>4. next = N + 1
  BY <1>1, PipelineAssumption DEF Handed
<1>5. phase = "compile" => compiledCount = N /\ executedCount = 0
  BY <1>1, <1>3, <1>4, Numbers DEF Handed
<1>6. phase = "compile" => bar = N
  BY <1>1, <1>5 DEF Barred
<1>7. phase = "execute" => executedCount = N
  BY <1>1, <1>3, <1>4, Numbers DEF Handed
<1> QED BY <1>4, <1>5, <1>6, <1>7

LEMMA AssembleStep ==
  ASSUME IInv, Assemble
  PROVE  /\ phase' # "off" /\ \A w \in Workers : Placed(w)'
         /\ Handed' /\ Barred' /\ Executed' /\ Supplied'
<1>1. TypeOK /\ Supplied /\ kind \in {"cases", "processes", "none"} /\ N \in Nat
  BY Typed, Numbers DEF IInv
<1>2. compiledCount = N /\ bar = N /\ executedCount = 0
  BY AllCounted DEF Assemble
<1>3. /\ next' = 1 /\ phase' = IF kind = "none" THEN "done" ELSE "execute"
      /\ worker' = [w \in Workers |-> Idle]
      /\ results' = [i \in Subs |-> Status(compiled[i], hits'[i])]
      /\ UNCHANGED <<program, libs, kind, cache, compiled, compiledCount, executedCount, bar>>
  BY DEF Assemble, NewReport, given
<1>4. \A w \in Workers : Pc(w)' = "idle" /\ worker'[w] = Idle
  BY <1>3 DEF Pc, Idle
<1>5. phase' # "off" /\ phase' # "compile" /\ (phase' = "done" <=> kind = "none")
  BY <1>3
<1>6. \A w \in Workers : Placed(w)'
  BY <1>4, <1>5 DEF Placed, Pc, Compiling, Preparing, Executing
<1>7. Handed'
  <2>1. (Held = {})'
    BY <1>4 DEF Held, Compiling, Preparing, Executing
  <2>2. Cardinality(Held)' = 0
    BY <2>1, FS_EmptySet
  <2> QED BY <1>2, <1>3, <1>4, <1>5, <2>2 DEF Handed
<1>8. Barred'
  BY <1>1, <1>2, <1>3, <1>5 DEF Barred
<1>9. Executed'
  <2>1. \A i \in Subs : results'[i] = Status(compiled'[i], hits'[i])
    BY <1>3
  <2>2. \A i \in Subs : ~(i < next')
    BY <1>3 DEF Subs
  <2> QED BY <1>2, <1>3, <1>5, <2>1, <2>2 DEF Executed
<1>10. Supplied'
  <2>1. \A s : Fits(s)' <=> Fits(s)
    BY <1>3 DEF Fits
  <2>2. \A w \in Workers : Sound(w)'
    BY <1>4 DEF Sound, Pc, Preparing, Idle
  <2> QED BY <1>1, <1>3, <2>1, <2>2 DEF Supplied
<1> QED BY <1>5, <1>6, <1>7, <1>8, <1>9, <1>10

LEMMA FinishStep ==
  ASSUME IInv, Finish
  PROVE  /\ phase' # "off" /\ \A w \in Workers : Placed(w)'
         /\ Handed' /\ Barred' /\ Executed' /\ Supplied'
<1>1. TypeOK /\ Supplied /\ Barred /\ Handed /\ Executed /\ N \in Nat
  BY Numbers DEF IInv
<1>2. phase = "execute" /\ executedCount = N /\ next = N + 1 /\ \A w \in Workers : Pc(w) = "out"
  BY AllCounted DEF Finish
<1>3. phase' = "done" /\ UNCHANGED <<given, next, worker, cache, compiled, compiledCount, hits, results,
                                    tests, executedCount, bar>>
  BY DEF Finish
<1>4. \A w \in Workers : Placed(w)'
  BY <1>2, <1>3 DEF Placed, Pc, Compiling, Preparing, Executing
<1>5. Handed' /\ Barred'
  BY <1>1, <1>2, <1>3 DEF Handed, Barred
<1>6. \A i \in Subs : tests[i] = Fate(i)
  <2>1. \A i \in Subs : i < next
    BY <1>1, <1>2 DEF Subs
  <2> QED BY <1>1, <1>2, <2>1 DEF Executed
<1>7. Executed'
  BY <1>1, <1>2, <1>3, <1>6 DEF Executed, Fate, given
<1>8. Supplied'
  BY <1>1, <1>3 DEF Supplied, Sound, Fits, Pc, Program, given
<1> QED BY <1>3, <1>4, <1>5, <1>7, <1>8

LEMMA InvNext == IInv /\ [Next]_vars => IInv'
<1> SUFFICES ASSUME IInv, [Next]_vars PROVE IInv'
  OBVIOUS
<1>1. ASSUME NEW w \in Workers, Step(w) PROVE IInv'
  <2>1. TypeOK'
    BY <1>1, TypeStep DEF Next, Step
  <2>2. phase' = phase
    BY <1>1, StepIs, PlainMoves, TakeMoves, LeaveMoves DEF IInv
  <2> QED BY <1>1, <2>1, <2>2, PlacedStep, HandedStep, BarredStep, ExecutedStep, SuppliedStep DEF IInv
<1>2. CASE Assemble
  BY <1>2, TypeStep, AssembleStep DEF Next, IInv
<1>3. CASE Finish
  BY <1>3, TypeStep, FinishStep DEF Next, IInv
<1>4. ASSUME UNCHANGED <<given, phase, next, worker, cache, compiled, compiledCount, hits, results,
                         tests, executedCount, bar>>, TypeOK'
      PROVE  IInv'
  <2>1. /\ \A w \in Workers : Placed(w)'
        /\ Handed' /\ Barred'
    BY <1>4 DEF IInv, Placed, Handed, Barred, Held, Pc
  <2>2. Executed'
    BY <1>4 DEF IInv, Executed, Fate, Pc, given
  <2>3. Supplied'
    BY <1>4 DEF IInv, Supplied, Sound, Fits, Pc, Program, given
  <2> QED BY <1>4, <2>1, <2>2, <2>3 DEF IInv
<1>5. CASE Cancel
  BY <1>4, <1>5, TypeStep DEF Next, Cancel
<1>6. CASE UNCHANGED vars
  <2>1. TypeOK'
    BY <1>6 DEF IInv, TypeOK, vars, given
  <2> QED BY <1>4, <1>6, <2>1 DEF vars
<1> QED BY <1>1, <1>2, <1>3, <1>5, <1>6 DEF Next, Step

LEMMA Invariant == Spec => []IInv
  BY InvInit, InvNext, PTL DEF Spec

(***************************************************************************)
(* What the invariant says of the properties.                              *)
(***************************************************************************)
LEMMA BuiltHolds == IInv => CompiledIsBuilt
  BY ProgramsAre DEF IInv, Supplied, CompiledIsBuilt, Fits

LEMMA BarStep ==
  ASSUME IInv, [Next]_vars
  PROVE  bar' >= bar
<1>1. bar \in Nat /\ worker \in [Workers -> Worker]
  BY Typed, Numbers DEF IInv
<1>2. ASSUME NEW fraction \in Int, Report(fraction) PROVE bar' >= bar
  BY <1>1, <1>2 DEF Report
<1>3. ASSUME NEW w \in Workers, ReportCompiled(w) PROVE bar' >= bar
  <2>1. worker[w].share \in Int
    BY <1>1 DEF Worker
  <2> QED BY <1>2, <1>3, <2>1 DEF ReportCompiled
<1>4. ASSUME NEW w \in Workers, ReportExecuted(w) PROVE bar' >= bar
  <2>1. N + executedCount + 1 \in Int
    BY Numbers DEF IInv
  <2> QED BY <1>2, <1>4, <2>1 DEF ReportExecuted
<1>5. ASSUME NEW w \in Workers, Step(w), ~ReportCompiled(w), ~ReportExecuted(w) PROVE bar' = bar
  BY <1>5 DEF Step, CompileStep, ExecuteStep, Fetch, NotStarted, Resolve, ReadDir, FillFiles, FillDir,
     Build, Store, CountCompiled, Hand, Execute
<1>6. Assemble \/ Finish \/ Cancel \/ UNCHANGED vars => bar' = bar
  BY DEF Assemble, NewReport, Finish, Cancel, vars
<1> QED BY <1>1, <1>3, <1>4, <1>5, <1>6 DEF Next, Step

LEMMA Parts ==
  ASSUME NEW A, NEW B, IsFiniteSet(A), IsFiniteSet(B), A \cap B = {}
  PROVE  /\ Cardinality(A \cup B) = Cardinality(A) + Cardinality(B) /\ IsFiniteSet(A \cup B)
         /\ Cardinality(A) \in Nat /\ Cardinality(B) \in Nat
<1>1. Cardinality(A \cap B) = 0
  BY FS_EmptySet
<1> QED BY <1>1, FS_Union, FS_CardinalityType

\* computeSummary counts every submission of the report once.
LEMMA SummaryCounts ==
  ASSUME TypeOK, \A i \in Subs : results[i] = Status(compiled[i], hits[i])
  PROVE  /\ Summary.pass + Summary.fail + Summary.timeout = N
         /\ Summary.clean = Summary.pass - Cardinality({i \in Subs : results[i] = "banned"})
<1> DEFINE P == {i \in Subs : compiled[i].ok /\ ~compiled[i].timedOut}
           F == {i \in Subs : ~compiled[i].ok /\ ~compiled[i].timedOut}
           T == {i \in Subs : compiled[i].timedOut}
           C == {i \in Subs : results[i] = "clean"}
           B == {i \in Subs : results[i] = "banned"}
<1>1. /\ Summary.pass = Cardinality(P) /\ Summary.fail = Cardinality(F)
      /\ Summary.timeout = Cardinality(T) /\ Summary.clean = Cardinality(C)
  <2>1. /\ {i \in Subs : [j \in Subs |-> compiled[j].ok /\ ~compiled[j].timedOut][i]} = P
        /\ {i \in Subs : [j \in Subs |-> ~compiled[j].ok /\ ~compiled[j].timedOut][i]} = F
        /\ {i \in Subs : [j \in Subs |-> compiled[j].timedOut][i]} = T
        /\ {i \in Subs : [j \in Subs |-> results[j] = "clean"][i]} = C
    BY Zenon
  <2> QED BY <2>1 DEF Summary
<1>2. IsFiniteSet(Subs) /\ Cardinality(Subs) = N
  BY FS_Interval, PipelineAssumption DEF Subs
<1>3. IsFiniteSet(P) /\ IsFiniteSet(F) /\ IsFiniteSet(T) /\ IsFiniteSet(C) /\ IsFiniteSet(B)
  BY <1>2, FS_Subset
<1>4. Cardinality(P) + Cardinality(F) + Cardinality(T) = N
  <2>1. P \cap F = {} /\ (P \cup F) \cap T = {} /\ (P \cup F) \cup T = Subs
    OBVIOUS
  <2> HIDE DEF P, F, T
  <2>2. Cardinality(P \cup F) = Cardinality(P) + Cardinality(F) /\ IsFiniteSet(P \cup F)
    BY <1>3, <2>1, Parts
  <2>3. Cardinality((P \cup F) \cup T) = Cardinality(P \cup F) + Cardinality(T)
    BY <1>3, <2>1, <2>2, Parts
  <2> QED BY <1>2, <2>1, <2>2, <2>3
<1>5. Cardinality(P) = Cardinality(C) + Cardinality(B) /\ Cardinality(C) \in Nat /\ Cardinality(B) \in Nat
  <2>1. C \cap B = {} /\ C \cup B = P
    BY DEF Status
  <2> HIDE DEF P, C, B
  <2> QED BY <1>3, <2>1, Parts
<1> HIDE DEF P, F, T, C, B
<1>6. Cardinality(C) = Cardinality(P) - Cardinality(B)
  BY <1>5
<1> QED BY <1>1, <1>4, <1>6 DEF B

LEMMA GradedHolds == IInv => EachGradedOnce
<1> SUFFICES ASSUME IInv, phase = "done" PROVE EachGradedOnce
  BY DEF EachGradedOnce
<1>1. TypeOK /\ Barred /\ Executed
  BY DEF IInv
<1>2. /\ compiledCount = N /\ bar = N + executedCount
      /\ executedCount = IF kind = "none" THEN 0 ELSE N
  BY <1>1 DEF Barred, Executed
<1>3. \A i \in Subs : results[i] = Status(compiled[i], hits[i])
  BY <1>1 DEF Executed
<1>4. ASSUME NEW i \in Subs, kind # "none"
      PROVE  tests[i] = IF results[i] \in {"clean", "banned"} THEN "run" ELSE "not run"
  <2>1. tests[i] = Fate(i)
    BY <1>1, <1>4 DEF Executed
  <2>2. results[i] \in {"clean", "banned"} <=> ~(compiled[i].timedOut \/ ~compiled[i].ok)
    BY <1>3 DEF Status
  <2> QED BY <2>1, <2>2 DEF Fate
<1> QED BY <1>1, <1>2, <1>3, <1>4, SummaryCounts DEF EachGradedOnce

(***************************************************************************)
(* The theorems.                                                           *)
(***************************************************************************)
\* A submission that compiled was built whole, with the library where it needs one,
\* whichever worker filled the cache and whatever the others saw of it.
THEOREM Built == Spec => []CompiledIsBuilt
  BY BuiltHolds, Invariant, PTL

\* The bar of progress.go never moves back, in whatever order counts are reported.
THEOREM Forward == Spec => BarNeverBack
<1>1. IInv /\ [Next]_vars => [bar' >= bar]_vars
  BY BarStep
<1> QED BY <1>1, Invariant, PTL DEF Spec, BarNeverBack

\* A finished run compiled, judged, counted and executed every submission once.
THEOREM Graded == Spec => []EachGradedOnce
  BY GradedHolds, Invariant, PTL
=============================================================================
