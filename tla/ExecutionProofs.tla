-------------------------- MODULE ExecutionProofs --------------------------
(***************************************************************************)
(* The safety properties of Execution: of test cases those of              *)
(* TestCasesProofs, and those of a multi-process scenario, for any number  *)
(* of executables.  A verdict is about a process, and reaches it through a *)
(* pipe, by a position in a spec that leaves executables out: Launched     *)
(* says that positions stand for one executable each, Delivered that an    *)
(* outcome written, in the pipe or read, is true of the process at its     *)
(* position, and that none is lost between the two.                        *)
(***************************************************************************)
EXTENDS Execution, TestCasesProofs

ProcessEndings == {"none", "unstarted", "undelayed", "exit", "held", "fatal", "killed"}
Over == {"unstarted", "undelayed", "exit", "held", "fatal", "killed"}
Process == [pc : {"none", "delayed", "running", "ended", "emitted", "lost"}, ending : ProcessEndings,
            expired : BOOLEAN, stdout : Texts, log : Seq(Reports)]
Outcome == [index : Nat \ {0}, started : BOOLEAN, killed : BOOLEAN, timedOut : BOOLEAN, crash : BOOLEAN,
            startFailed : BOOLEAN, stdout : Texts]

Positions == DOMAIN launches
Policy == DOMAIN executables

ScenarioTyped ==
    /\ executables \in Seq(Executable) /\ sandboxed \in BOOLEAN
    /\ stage \in {"planning", "running", "collecting", "done"}
    /\ host \in {"off", "up", "ended", "failed"} /\ outer \in {"live", "expired", "cancelled"}
    /\ proc \in [Policy -> Process]
    /\ launches \in Seq(Policy) /\ pipe \in Seq(Outcome)
    /\ outcomes \in [Positions -> {NoOutcome} \cup Outcome]

\* No executable is launched twice, nothing runs without a host, and a delay that
\* ended early ended with the context.
Launched ==
    /\ \A m, n \in Positions : launches[m] = launches[n] => m = n
    /\ stage = "planning" => launches = <<>> /\ host = "off" /\ pipe = <<>>
    /\ stage \in {"collecting", "done"} => host # "up" /\ pipe = <<>>
    /\ host = "up" => stage = "running"
    /\ host = "off" => \A e \in Policy : proc[e].pc = "none"
    /\ \A e \in Policy :
          /\ proc[e].pc # "none" => e \in Range(launches)
          /\ proc[e].pc \in {"ended", "emitted"} => proc[e].ending \in Over
          /\ proc[e].ending = "undelayed" => ~sandboxed /\ Stopped

\* An outcome at position n is true of the process launched there.
Tells(o, n) ==
    LET p == proc[launches[n]] IN
    /\ n \in Positions /\ p.pc = "emitted"
    /\ o.stdout = p.stdout
    /\ o.started <=> p.ending # "undelayed"
    /\ o.startFailed <=> p.ending \in {"unstarted", "held"}
    /\ p.expired \/ p.ending = "undelayed" => o.killed
    /\ o.killed => p.expired \/ Stopped
    /\ o.timedOut => p.expired \/ outer = "expired"
    /\ o.crash => p.ending \in {"fatal", "killed"}
    /\ p.ending = "fatal" => o.crash
    /\ p.ending = "killed" => o.killed \/ o.crash

\* Outcomes on their way are true, and none is lost of a process that emitted one.
Delivered ==
    /\ \A o \in Outcome :
          /\ (\E k \in DOMAIN pipe : pipe[k] = o) => Tells(o, o.index)
          /\ \A n \in Positions : outcomes[n] = o => o.index = n /\ Tells(o, n)
    /\ \A n \in Positions : proc[launches[n]].pc = "emitted" =>
          outcomes[n].index # 0 \/ \E k \in DOMAIN pipe : pipe[k].index = n

Concluded == AllPassedEarned /\ VerdictIsOwn

ScenarioInv == ScenarioTyped /\ Launched /\ Delivered /\ Concluded

-----------------------------------------------------------------------------
LEMMA ScenariosTyped == Scenarios \subseteq Seq(Executable)
  BY ScenarioAssumption

LEMMA ScenarioInvInit == ScenarioInit \/ NoScenario => ScenarioInv
<1> SUFFICES ASSUME ScenarioInit \/ NoScenario PROVE ScenarioInv
  OBVIOUS
<1>1. executables \in Seq(Executable)
  <2>1. ScenarioInit => executables \in Seq(Executable)
    BY ScenariosTyped DEF ScenarioInit
  <2>2. NoScenario => executables \in Seq(Executable)
    BY DEF NoScenario
  <2> QED BY <2>1, <2>2
<1>2. NoProcess \in Process
  BY DEF NoProcess, Process, ProcessEndings, Texts
<1>3. proc = [e \in Policy |-> NoProcess]
  <2>1. NoScenario => Policy = {} /\ proc = <<>>
    BY DEF NoScenario, Policy
  <2>2. <<>> = [e \in {} |-> NoProcess]
    OBVIOUS
  <2>3. ScenarioInit => proc = [e \in Policy |-> NoProcess]
    BY DEF ScenarioInit, Policy
  <2> QED BY <2>1, <2>2, <2>3
<1>4. /\ sandboxed \in BOOLEAN /\ stage \in {"planning", "done"} /\ host = "off" /\ outer = "live"
      /\ pipe = <<>> /\ outcomes = <<>> /\ launches = <<>> /\ allPassed = FALSE
      /\ stage = "done" => executables = <<>>
  BY DEF ScenarioInit, NoScenario
<1>5. Positions = {}
  BY <1>4 DEF Positions
<1>6. ScenarioTyped
  <2>1. launches \in Seq(Policy) /\ pipe \in Seq(Outcome)
    BY <1>4
  <2>2. outcomes \in [Positions -> {NoOutcome} \cup Outcome]
    BY <1>4, <1>5
  <2>3. proc \in [Policy -> Process]
    BY <1>2, <1>3
  <2> QED BY <1>1, <1>4, <2>1, <2>2, <2>3 DEF ScenarioTyped
<1>7. Launched
  BY <1>3, <1>4, <1>5 DEF Launched, NoProcess
<1>8. Delivered
  BY <1>4, <1>5 DEF Delivered
<1>9. Concluded
  BY <1>4 DEF Concluded, AllPassedEarned, VerdictIsOwn
<1> QED BY <1>6, <1>7, <1>8, <1>9 DEF ScenarioInv

\* Positions in the spec stand for the executables launched.
LEMMA PositionIs ==
  ASSUME ScenarioTyped, Launched, NEW e \in Range(launches)
  PROVE  /\ Position(e) \in Positions /\ launches[Position(e)] = e /\ e \in Policy
         /\ Position(e) \in Nat \ {0}
         /\ \A n \in Positions : launches[n] = e => n = Position(e)
<1>1. \E n \in DOMAIN launches : launches[n] = e
  BY DEF Range
<1>2. Position(e) \in DOMAIN launches /\ launches[Position(e)] = e
  BY <1>1 DEF Position
<1>3. launches \in Seq(Policy)
  BY DEF ScenarioTyped
<1> QED BY <1>2, <1>3 DEF Launched, Positions

(***************************************************************************)
(* The spec of a scenario.                                                 *)
(***************************************************************************)
LEMMA PlanStep == ScenarioInv /\ PlanScenario => ScenarioInv'
<1> SUFFICES ASSUME ScenarioInv, PlanScenario PROVE ScenarioInv'
  OBVIOUS
<1> DEFINE S == {e \in Policy : executables[e].built}
<1>1. ScenarioTyped /\ Launched
  BY DEF ScenarioInv
<1>2. /\ stage = "planning" /\ outcomes' = [n \in DOMAIN launches' |-> NoOutcome]
      /\ stage' = IF launches' = <<>> THEN "collecting" ELSE "running"
      /\ UNCHANGED <<executables, sandboxed, host, proc, pipe, outer, processes, allPassed>>
      /\ launches' = <<>> \/ launches' \in InOrder(S)
  BY DEF PlanScenario, Policy
<1>3. IsFiniteSet(S) /\ Cardinality(S) \in Nat /\ S \subseteq Nat /\ S \subseteq Policy
  <2>1. Policy = 1 .. Len(executables) /\ Len(executables) \in Nat
    BY <1>1 DEF ScenarioTyped, Policy
  <2>2. IsFiniteSet(Policy)
    BY <2>1, FS_Interval
  <2> QED BY <2>1, <2>2, FS_Subset, FS_CardinalityType
<1> HIDE DEF S
<1>4. /\ launches' \in Seq(Policy)
      /\ \A m, n \in Positions' : launches'[m] = launches'[n] => m = n
  <2>1. CASE launches' = <<>>
    BY <2>1 DEF Positions
  <2>2. CASE launches' \in InOrder(S)
    <3>1. /\ launches' \in [1 .. Cardinality(S) -> S]
          /\ \A m, n \in 1 .. Cardinality(S) : m < n => launches'[m] < launches'[n]
      BY <2>2 DEF InOrder
    <3>2. launches' \in Seq(Policy)
      <4>1. launches' \in [1 .. Cardinality(S) -> Policy]
        BY <1>3, <3>1
      <4> QED BY <1>3, <4>1
    <3>3. ASSUME NEW m \in 1 .. Cardinality(S), NEW n \in 1 .. Cardinality(S), launches'[m] = launches'[n]
          PROVE  m = n
      <4>1. launches'[m] \in Nat
        BY <1>3, <3>1
      <4>2. ~(m < n) /\ ~(n < m)
        BY <3>1, <3>3, <4>1
      <4> QED BY <1>3, <4>2
    <3> QED BY <3>1, <3>2, <3>3 DEF Positions
  <2> QED BY <1>2, <2>1, <2>2
<1>5. ScenarioTyped'
  BY <1>1, <1>2, <1>4 DEF ScenarioTyped, Policy, Positions
<1>6. host = "off" /\ pipe = <<>> /\ \A e \in Policy : proc[e].pc = "none"
  BY <1>1, <1>2 DEF Launched
<1>7. Launched'
  <2>1. \A e \in Policy : proc[e].ending = "undelayed" => ~sandboxed /\ Stopped
    BY <1>1 DEF Launched
  <2> QED BY <1>2, <1>4, <1>6, <2>1 DEF Launched, Policy, Stopped
<1>8. Delivered'
  <2>1. \A n \in Positions' : launches'[n] \in Policy
    BY <1>4 DEF Positions
  <2>2. \A n \in Positions' : outcomes'[n] \notin Outcome
    BY <1>2 DEF Positions, NoOutcome, Outcome
  <2> QED BY <1>2, <1>6, <2>1, <2>2 DEF Delivered
<1>9. Concluded'
  BY <1>2 DEF Concluded, AllPassedEarned, VerdictIsOwn
<1> QED BY <1>5, <1>7, <1>8, <1>9 DEF ScenarioInv

(***************************************************************************)
(* The processes.                                                          *)
(***************************************************************************)
\* While the scenario runs nothing is concluded.
LEMMA NotConcluded ==
  ASSUME stage' # "done"
  PROVE  Concluded'
  BY DEF Concluded, AllPassedEarned, VerdictIsOwn

\* A process that has emitted its outcome stays as it is, so what was told of it is
\* still true.
LEMMA StillTells ==
  ASSUME NEW o, NEW n, Tells(o, n), launches' = launches,
         proc'[launches[n]] = proc[launches[n]], outer' = outer \/ outer = "live"
  PROVE  Tells(o, n)'
  BY DEF Tells, Stopped, Positions

LEMMA StillDelivered ==
  ASSUME ScenarioTyped, Delivered, launches' = launches, pipe' = pipe, outcomes' = outcomes,
         outer' = outer \/ outer = "live",
         \A e \in Policy : proc[e].pc = "emitted" => proc'[e] = proc[e],
         \A e \in Policy : proc'[e].pc = "emitted" => proc[e].pc = "emitted"
  PROVE  Delivered'
<1>1. \A n \in Positions : launches[n] \in Policy
  BY DEF ScenarioTyped, Positions
<1>2. \A o, n : Tells(o, n) => Tells(o, n)'
  BY <1>1, StillTells DEF Tells
<1> QED BY <1>1, <1>2 DEF Delivered, Positions

LEMMA StartHostStep == ScenarioInv /\ StartHost => ScenarioInv'
<1> SUFFICES ASSUME ScenarioInv, StartHost PROVE ScenarioInv'
  OBVIOUS
<1>1. ScenarioTyped /\ Launched /\ Delivered
  BY DEF ScenarioInv
<1>2. /\ stage = "running" /\ host = "off" /\ host' \in {"up", "failed"}
      /\ UNCHANGED <<executables, sandboxed, stage, pipe, outcomes, launches, outer, processes, allPassed>>
  BY DEF StartHost
<1>3. /\ proc' \in [Policy -> Process]
      /\ \A e \in Policy : /\ proc'[e].pc \in {"none", "delayed"} /\ proc'[e].ending = proc[e].ending
                           /\ proc'[e].pc = "delayed" => e \in Range(launches)
  <2>0. /\ proc \in [Policy -> Process] /\ \A e \in Policy : proc[e].pc = "none"
    BY <1>1, <1>2 DEF ScenarioTyped, Launched
  <2>1. CASE proc' = proc
    BY <2>0, <2>1
  <2>2. CASE proc' = [e \in DOMAIN proc |->
                        IF e \in Range(launches) THEN [proc[e] EXCEPT !.pc = "delayed"] ELSE proc[e]]
    <3>1. \A e \in Policy : [proc[e] EXCEPT !.pc = "delayed"] \in Process
      BY <2>0 DEF Process
    <3> QED BY <2>0, <2>2, <3>1 DEF Process
  <2> QED BY <2>1, <2>2 DEF StartHost
<1>4. ScenarioTyped'
  BY <1>1, <1>2, <1>3 DEF ScenarioTyped, Policy, Positions
<1>5. Launched'
  BY <1>1, <1>2, <1>3 DEF Launched, Policy, Positions, Stopped
<1>6. Delivered'
  BY <1>1, <1>2, <1>3, StillDelivered DEF Launched
<1> QED BY <1>2, <1>4, <1>5, <1>6, NotConcluded DEF ScenarioInv

\* The steps of a process before its outcome.
ProcessStep(e) == StartProcess(e) \/ EndDelay(e) \/ ProcessEnds(e) \/ ProcessDeadline(e)

LEMMA ProcessStepIs ==
  ASSUME ScenarioTyped, NEW e \in Policy, ProcessStep(e)
  PROVE  \E p \in Process :
            /\ proc' = [proc EXCEPT ![e] = p]
            /\ proc[e].pc \in {"delayed", "running", "ended"} /\ p.pc \in {"running", "ended"}
            /\ p.pc = "ended" => p.ending \in Over \/ (proc[e].pc = "ended" /\ p.ending = proc[e].ending)
            /\ p.ending = "undelayed" => proc[e].ending = "undelayed" \/ (~sandboxed /\ Stopped)
<1>1. proc[e] \in Process /\ proc \in [Policy -> Process]
  BY DEF ScenarioTyped
<1>2. CASE StartProcess(e)
  <2>1. CASE proc' = [proc EXCEPT ![e].pc = "running"] /\ proc[e].pc = "delayed"
    <3> DEFINE p == [proc[e] EXCEPT !.pc = "running"]
    <3>1. p \in Process /\ p.pc = "running" /\ p.ending = proc[e].ending
      BY <1>1 DEF Process
    <3>2. proc' = [proc EXCEPT ![e] = p]
      BY <1>1, <2>1
    <3> HIDE DEF p
    <3> QED BY <2>1, <3>1, <3>2
  <2>2. CASE proc' = [proc EXCEPT ![e].pc = "ended", ![e].ending = "unstarted"] /\ proc[e].pc = "delayed"
    <3> DEFINE p == [proc[e] EXCEPT !.pc = "ended", !.ending = "unstarted"]
    <3>1. p \in Process /\ p.pc = "ended" /\ p.ending = "unstarted"
      BY <1>1 DEF Process, ProcessEndings
    <3>2. proc' = [proc EXCEPT ![e] = p]
      BY <1>1, <2>2
    <3> HIDE DEF p
    <3> QED BY <2>2, <3>1, <3>2 DEF Over
  <2> QED BY <1>2, <2>1, <2>2 DEF StartProcess
<1>3. CASE EndDelay(e)
  <2> DEFINE p == [proc[e] EXCEPT !.pc = "ended", !.ending = "undelayed"]
  <2>1. p \in Process /\ p.pc = "ended" /\ p.ending = "undelayed"
    BY <1>1 DEF Process, ProcessEndings
  <2>2. /\ proc' = [proc EXCEPT ![e] = p]
        /\ proc[e].pc = "delayed" /\ ~sandboxed /\ Stopped
    BY <1>1, <1>3 DEF EndDelay
  <2> HIDE DEF p
  <2> QED BY <2>1, <2>2 DEF Over
<1>4. CASE ProcessEnds(e)
  <2>1. PICK ending \in {"exit", "held", "fatal", "killed"} : EndProcess(e, ending)
    BY <1>4 DEF ProcessEnds
  <2>2. PICK text \in Texts, log \in Seq(Reports) :
           proc' = [proc EXCEPT ![e].pc = "ended", ![e].ending = ending, ![e].stdout = text, ![e].log = log]
    <3>1. SeqOf(Reports, MaxReports) \subseteq Seq(Reports)
      BY DEF SeqOf
    <3> QED BY <2>1, <3>1, Zenon DEF EndProcess
  <2> DEFINE p == [proc[e] EXCEPT !.pc = "ended", !.ending = ending, !.stdout = text, !.log = log]
  <2>3. p \in Process /\ p.pc = "ended" /\ p.ending = ending
    BY <1>1 DEF Process, ProcessEndings
  <2>4. proc' = [proc EXCEPT ![e] = p] /\ proc[e].pc = "running"
    BY <1>1, <2>1, <2>2 DEF EndProcess
  <2> HIDE DEF p
  <2> QED BY <2>3, <2>4 DEF Over
<1>5. CASE ProcessDeadline(e)
  <2> DEFINE p == [proc[e] EXCEPT !.expired = TRUE]
  <2>1. p \in Process /\ p.pc = proc[e].pc /\ p.ending = proc[e].ending
    BY <1>1 DEF Process
  <2>2. proc' = [proc EXCEPT ![e] = p] /\ proc[e].pc \in {"running", "ended"}
    BY <1>1, <1>5 DEF ProcessDeadline
  <2> HIDE DEF p
  <2> QED BY <2>1, <2>2
<1> QED BY <1>2, <1>3, <1>4, <1>5 DEF ProcessStep

LEMMA ProcessInv == ScenarioInv /\ (\E e \in Policy : ProcessStep(e)) => ScenarioInv'
<1> SUFFICES ASSUME ScenarioInv, NEW e \in Policy, ProcessStep(e) PROVE ScenarioInv'
  OBVIOUS
<1>1. ScenarioTyped /\ Launched /\ Delivered /\ proc \in [Policy -> Process]
  BY DEF ScenarioInv, ScenarioTyped
<1>2. /\ host = "up" /\ UNCHANGED <<executables, sandboxed, stage, host, pipe, outcomes, launches, outer,
                                    processes, allPassed>>
  BY DEF ProcessStep, StartProcess, EndDelay, ProcessEnds, EndProcess, ProcessDeadline
<1>3. PICK p \in Process :
         /\ proc' = [proc EXCEPT ![e] = p]
         /\ proc[e].pc \in {"delayed", "running", "ended"} /\ p.pc \in {"running", "ended"}
         /\ p.pc = "ended" => p.ending \in Over \/ (proc[e].pc = "ended" /\ p.ending = proc[e].ending)
         /\ p.ending = "undelayed" => proc[e].ending = "undelayed" \/ (~sandboxed /\ Stopped)
  BY <1>1, ProcessStepIs
<1>4. ScenarioTyped'
  <2>1. proc' \in [Policy -> Process]
    BY <1>1, <1>3
  <2> QED BY <1>1, <1>2, <2>1 DEF ScenarioTyped, Policy, Positions
<1>5. Launched'
  <2>1. /\ proc'[e].pc # "none" => e \in Range(launches)
        /\ proc'[e].pc \in {"ended", "emitted"} => proc'[e].ending \in Over
        /\ proc'[e].ending = "undelayed" => ~sandboxed /\ Stopped
    BY <1>1, <1>3 DEF Launched
  <2>2. \A f \in Policy : f # e => proc'[f] = proc[f]
    BY <1>1, <1>3
  <2>3. \A f \in Policy :
          /\ proc'[f].pc # "none" => f \in Range(launches)
          /\ proc'[f].pc \in {"ended", "emitted"} => proc'[f].ending \in Over
          /\ proc'[f].ending = "undelayed" => ~sandboxed /\ Stopped
    BY <1>1, <2>1, <2>2 DEF Launched
  <2> QED BY <1>1, <1>2, <2>3 DEF Launched, Policy, Positions, Stopped
<1>6. Delivered'
  <2>1. \A f \in Policy : proc[f].pc = "emitted" => proc'[f] = proc[f]
    BY <1>1, <1>3
  <2>2. \A f \in Policy : proc'[f].pc = "emitted" => proc[f].pc = "emitted"
    BY <1>1, <1>3
  <2> QED BY <1>1, <1>2, <2>1, <2>2, StillDelivered
<1>7. stage' # "done"
  BY <1>1, <1>2 DEF Launched
<1> QED BY <1>4, <1>5, <1>6, <1>7, NotConcluded DEF ScenarioInv

\* What the host tells of a process is what became of it.
LEMMA OutcomeIs ==
  ASSUME ScenarioTyped, Launched, NEW e \in Policy, proc[e].pc = "ended"
  PROVE  LET o == OutcomeOf(e) p == proc[e] IN
         /\ o \in Outcome /\ o.index = Position(e) /\ o.stdout = p.stdout
         /\ o.started <=> p.ending # "undelayed"
         /\ o.startFailed <=> p.ending \in {"unstarted", "held"}
         /\ p.expired \/ p.ending = "undelayed" => o.killed
         /\ o.killed => p.expired \/ Stopped
         /\ o.timedOut => p.expired \/ outer = "expired"
         /\ o.crash => p.ending \in {"fatal", "killed"}
         /\ p.ending = "fatal" => o.crash
         /\ p.ending = "killed" => o.killed \/ o.crash
<1> DEFINE p == proc[e]
           above == ~sandboxed /\ Stopped
           late == p.expired \/ (~sandboxed /\ outer = "expired")
           started == p.ending # "undelayed"
           killed == p.expired \/ above
           timedOut == p.ending # "undelayed" /\ late
           crash == CrashReason(p.ending, late)
           startFailed == p.ending \in {"unstarted", "held"}
<1>1. e \in Range(launches) /\ p \in Process /\ (p.ending = "undelayed" => above)
  BY DEF ScenarioTyped, Launched
<1>2. Position(e) \in Nat \ {0} /\ p.stdout \in Texts
  BY <1>1, PositionIs DEF Process
<1>3. /\ started \in BOOLEAN /\ killed \in BOOLEAN /\ timedOut \in BOOLEAN /\ crash \in BOOLEAN
      /\ startFailed \in BOOLEAN
  <2>1. crash \in BOOLEAN
    BY DEF CrashReason
  <2> QED BY <2>1
<1>4. OutcomeOf(e) = [index |-> Position(e), started |-> started, killed |-> killed, timedOut |-> timedOut,
                      crash |-> crash, startFailed |-> startFailed, stdout |-> p.stdout]
  BY Zenon DEF OutcomeOf
<1>5. /\ started <=> p.ending # "undelayed"
      /\ startFailed <=> p.ending \in {"unstarted", "held"}
      /\ p.expired \/ p.ending = "undelayed" => killed
      /\ killed => p.expired \/ Stopped
      /\ timedOut => p.expired \/ outer = "expired"
      /\ crash => p.ending \in {"fatal", "killed"}
      /\ p.ending = "fatal" => crash
      /\ p.ending = "killed" => killed \/ crash
  BY <1>1 DEF CrashReason, Stopped
<1> HIDE DEF started, killed, timedOut, crash, startFailed
<1>6. LET o == OutcomeOf(e) IN
      /\ o \in Outcome /\ o.index = Position(e) /\ o.stdout = p.stdout
      /\ o.started = started /\ o.killed = killed /\ o.timedOut = timedOut /\ o.crash = crash
      /\ o.startFailed = startFailed
  BY <1>2, <1>3, <1>4 DEF Outcome
<1> QED BY <1>5, <1>6

LEMMA EmitStep == ScenarioInv /\ (\E e \in Policy : Emit(e)) => ScenarioInv'
<1> SUFFICES ASSUME ScenarioInv, NEW e \in Policy, Emit(e) PROVE ScenarioInv'
  OBVIOUS
<1>1. ScenarioTyped /\ Launched /\ Delivered /\ proc \in [Policy -> Process] /\ pipe \in Seq(Outcome)
      /\ outcomes \in [Positions -> {NoOutcome} \cup Outcome]
  BY DEF ScenarioInv, ScenarioTyped
<1> DEFINE p == [proc[e] EXCEPT !.pc = "emitted"]
<1>2. /\ host = "up" /\ proc[e].pc = "ended" /\ proc' = [proc EXCEPT ![e].pc = "emitted"]
      /\ UNCHANGED <<executables, sandboxed, stage, host, launches, outer, processes, allPassed>>
      /\ \/ pipe' = Append(pipe, OutcomeOf(e)) /\ outcomes' = outcomes
         \/ pipe' = pipe /\ outcomes' = [outcomes EXCEPT ![Position(e)] = OutcomeOf(e)]
  BY DEF Emit
<1>3. PICK o \in Outcome :
      /\ o = OutcomeOf(e) /\ o.index = Position(e) /\ o.stdout = proc[e].stdout
      /\ o.started <=> proc[e].ending # "undelayed"
      /\ o.startFailed <=> proc[e].ending \in {"unstarted", "held"}
      /\ proc[e].expired \/ proc[e].ending = "undelayed" => o.killed
      /\ o.killed => proc[e].expired \/ Stopped
      /\ o.timedOut => proc[e].expired \/ outer = "expired"
      /\ o.crash => proc[e].ending \in {"fatal", "killed"}
      /\ proc[e].ending = "fatal" => o.crash
      /\ proc[e].ending = "killed" => o.killed \/ o.crash
  BY <1>1, <1>2, OutcomeIs
<1>4. e \in Range(launches)
  BY <1>1, <1>2 DEF Launched
<1>5. PICK i \in Positions :
      /\ i = Position(e) /\ launches[i] = e /\ i \in Nat \ {0}
      /\ \A n \in Positions : launches[n] = e => n = i
  BY <1>1, <1>4, PositionIs
<1>6. /\ o.index = i
      /\ \/ pipe' = Append(pipe, o) /\ outcomes' = outcomes
         \/ pipe' = pipe /\ outcomes' = [outcomes EXCEPT ![i] = o]
  BY <1>2, <1>3, <1>5
<1>7. /\ p \in Process /\ p.pc = "emitted" /\ p.ending = proc[e].ending /\ p.expired = proc[e].expired
      /\ p.stdout = proc[e].stdout /\ proc' = [proc EXCEPT ![e] = p]
  <2>1. /\ p \in Process /\ p.pc = "emitted" /\ p.ending = proc[e].ending /\ p.expired = proc[e].expired
        /\ p.stdout = proc[e].stdout
    BY <1>1 DEF Process
  <2>2. proc' = [proc EXCEPT ![e] = p]
    BY <1>1, <1>2
  <2> QED BY <2>1, <2>2
<1> HIDE DEF p
<1>8. proc'[e] = p /\ \A f \in Policy : f # e => proc'[f] = proc[f]
  BY <1>1, <1>7
<1>9. Positions' = Positions /\ Policy' = Policy /\ Stopped' = Stopped
  BY <1>2 DEF Positions, Policy, Stopped
<1>10. ScenarioTyped'
  <2>1. proc' \in [Policy -> Process]
    BY <1>1, <1>7
  <2>2. pipe' \in Seq(Outcome)
    BY <1>1, <1>6
  <2>3. outcomes' \in [Positions -> {NoOutcome} \cup Outcome]
    BY <1>1, <1>6
  <2> QED BY <1>1, <1>2, <1>9, <2>1, <2>2, <2>3 DEF ScenarioTyped
<1>11. stage = "running"
  BY <1>1, <1>2 DEF Launched
<1>12. Launched'
  <2>1. proc[e].ending \in Over
    BY <1>1, <1>2 DEF Launched
  <2>2. \A f \in Policy :
          /\ proc'[f].pc # "none" => f \in Range(launches)
          /\ proc'[f].pc \in {"ended", "emitted"} => proc'[f].ending \in Over
          /\ proc'[f].ending = "undelayed" => ~sandboxed /\ Stopped
    BY <1>1, <1>2, <1>4, <1>7, <1>8, <2>1 DEF Launched
  <2> QED BY <1>1, <1>2, <1>9, <1>11, <2>2 DEF Launched
<1>13. Tells(o, i)'
  BY <1>2, <1>3, <1>5, <1>7, <1>8, <1>9 DEF Tells
<1>14. \A q, n : Tells(q, n) => Tells(q, n)'
  <2> SUFFICES ASSUME NEW q, NEW n, Tells(q, n) PROVE Tells(q, n)'
    OBVIOUS
  <2>1. launches[n] \in Policy /\ launches[n] # e
    BY <1>1, <1>2 DEF Tells, ScenarioTyped, Positions
  <2> QED BY <1>2, <1>8, <2>1, StillTells
<1>15. Delivered'
  <2>1. ASSUME NEW q \in Outcome, NEW k \in DOMAIN pipe', pipe'[k] = q PROVE Tells(q, q.index)'
    <3>1. q = o \/ (k \in DOMAIN pipe /\ pipe[k] = q)
      BY <1>1, <1>6, <2>1
    <3>2. CASE q = o
      BY <1>13, <1>6, <3>2
    <3>3. CASE k \in DOMAIN pipe /\ pipe[k] = q
      BY <1>1, <1>14, <3>3 DEF Delivered
    <3> QED BY <3>1, <3>2, <3>3
  <2>2. ASSUME NEW q \in Outcome, NEW n \in Positions, outcomes'[n] = q
        PROVE  q.index = n /\ Tells(q, n)'
    <3>1. (n = i /\ q = o) \/ outcomes[n] = q
      BY <1>1, <1>6, <2>2
    <3>2. CASE n = i /\ q = o
      BY <1>13, <1>6, <3>2
    <3>3. CASE outcomes[n] = q
      BY <1>1, <1>14, <3>3 DEF Delivered
    <3> QED BY <3>1, <3>2, <3>3
  <2>3. ASSUME NEW n \in Positions, proc'[launches[n]].pc = "emitted"
        PROVE  outcomes'[n].index # 0 \/ \E k \in DOMAIN pipe' : pipe'[k].index = n
    <3>1. CASE n = i
      <4>1. CASE pipe' = Append(pipe, o)
        <5>1. Len(pipe) + 1 \in DOMAIN pipe' /\ pipe'[Len(pipe) + 1] = o
          BY <1>1, <1>3, <4>1
        <5> QED BY <1>6, <3>1, <5>1
      <4>2. CASE outcomes' = [outcomes EXCEPT ![i] = o]
        BY <1>1, <1>6, <1>5, <3>1, <4>2
      <4> QED BY <1>6, <4>1, <4>2
    <3>2. CASE n # i
      <4>1. launches[n] \in Policy /\ launches[n] # e
        BY <1>1, <1>5, <3>2 DEF ScenarioTyped, Positions
      <4>2. outcomes[n].index # 0 \/ \E k \in DOMAIN pipe : pipe[k].index = n
        BY <1>1, <1>8, <2>3, <4>1 DEF Delivered
      <4>3. outcomes'[n] = outcomes[n]
        BY <1>1, <1>6, <3>2
      <4>4. \A k \in DOMAIN pipe : k \in DOMAIN pipe' /\ pipe'[k] = pipe[k]
        BY <1>1, <1>6
      <4> QED BY <4>2, <4>3, <4>4
    <3> QED BY <3>1, <3>2
  <2>4. \A n \in Positions : launches'[n] = launches[n]
    BY <1>2
  <2> QED BY <1>9, <2>1, <2>2, <2>3, <2>4 DEF Delivered
<1> QED BY <1>2, <1>10, <1>11, <1>12, <1>15, NotConcluded DEF ScenarioInv

(***************************************************************************)
(* The end of the host, and what the engine makes of its outcomes.         *)
(***************************************************************************)
LEMMA EndHostStep == ScenarioInv /\ (EndHost \/ CloseScenario) => ScenarioInv'
<1> SUFFICES ASSUME ScenarioInv, EndHost \/ CloseScenario PROVE ScenarioInv'
  OBVIOUS
<1>1. ScenarioTyped /\ Launched /\ Delivered
  BY DEF ScenarioInv
<1>2. /\ stage = "running"
      /\ \/ host' = "ended" /\ stage' = stage /\ host = "up"
         \/ host \in {"ended", "failed"} /\ host' = host /\ pipe = <<>> /\ stage' = "collecting"
      /\ UNCHANGED <<executables, sandboxed, proc, pipe, outcomes, launches, outer, processes, allPassed>>
  BY <1>1 DEF EndHost, CloseScenario, Launched
<1>3. ScenarioTyped'
  BY <1>1, <1>2 DEF ScenarioTyped, Policy, Positions
<1>4. Launched'
  BY <1>1, <1>2 DEF Launched, Policy, Positions, Stopped
<1>5. Delivered'
  BY <1>1, <1>2, StillDelivered
<1> QED BY <1>2, <1>3, <1>4, <1>5, NotConcluded DEF ScenarioInv

LEMMA KillHostStep == ScenarioInv /\ KillHost => ScenarioInv'
<1> SUFFICES ASSUME ScenarioInv, KillHost PROVE ScenarioInv'
  OBVIOUS
<1>1. ScenarioTyped /\ Launched /\ Delivered /\ proc \in [Policy -> Process]
  BY DEF ScenarioInv, ScenarioTyped
<1>2. /\ host = "up" /\ host' = "failed"
      /\ proc' = [e \in DOMAIN proc |-> IF proc[e].pc \in {"delayed", "running", "ended"}
                                        THEN [proc[e] EXCEPT !.pc = "lost"] ELSE proc[e]]
      /\ UNCHANGED <<executables, sandboxed, stage, pipe, outcomes, launches, outer, processes, allPassed>>
  BY DEF KillHost
<1>3. /\ proc' \in [Policy -> Process]
      /\ \A e \in Policy :
            /\ proc'[e].ending = proc[e].ending
            /\ proc'[e] = proc[e] \/ (proc[e].pc \in {"delayed", "running", "ended"} /\ proc'[e].pc = "lost")
  <2>1. \A e \in Policy : LET p == [proc[e] EXCEPT !.pc = "lost"] IN
           p \in Process /\ p.pc = "lost" /\ p.ending = proc[e].ending
    BY <1>1 DEF Process
  <2> QED BY <1>1, <1>2, <2>1
<1>4. stage = "running"
  BY <1>1, <1>2 DEF Launched
<1>5. ScenarioTyped'
  BY <1>1, <1>2, <1>3 DEF ScenarioTyped, Policy, Positions
<1>6. Launched'
  <2>1. \A e \in Policy :
          /\ proc'[e].pc # "none" => e \in Range(launches)
          /\ proc'[e].pc \in {"ended", "emitted"} => proc'[e].ending \in Over
          /\ proc'[e].ending = "undelayed" => ~sandboxed /\ Stopped
    BY <1>1, <1>3 DEF Launched
  <2> QED BY <1>1, <1>2, <1>4, <2>1 DEF Launched, Policy, Positions, Stopped
<1>7. Delivered'
  <2>1. \A e \in Policy : proc[e].pc = "emitted" => proc'[e] = proc[e]
    BY <1>3
  <2>2. \A e \in Policy : proc'[e].pc = "emitted" => proc[e].pc = "emitted"
    BY <1>3
  <2> QED BY <1>1, <1>2, <2>1, <2>2, StillDelivered
<1> QED BY <1>2, <1>4, <1>5, <1>6, <1>7, NotConcluded DEF ScenarioInv

LEMMA StopScenarioStep == ScenarioInv /\ StopScenario => ScenarioInv'
<1> SUFFICES ASSUME ScenarioInv, StopScenario PROVE ScenarioInv'
  OBVIOUS
<1>1. ScenarioTyped /\ Launched /\ Delivered
  BY DEF ScenarioInv
<1>2. /\ stage = "running" /\ outer = "live" /\ outer' \in {"expired", "cancelled"}
      /\ UNCHANGED <<executables, sandboxed, stage, host, proc, pipe, outcomes, launches, processes,
                     allPassed>>
  BY DEF StopScenario
<1>3. ScenarioTyped'
  BY <1>1, <1>2 DEF ScenarioTyped, Policy, Positions
<1>4. Launched'
  BY <1>1, <1>2 DEF Launched, Policy, Positions, Stopped
<1>5. Delivered'
  BY <1>1, <1>2, StillDelivered
<1> QED BY <1>2, <1>3, <1>4, <1>5, NotConcluded DEF ScenarioInv

\* An outcome that is read goes where it was told to, and none before it is lost.
LEMMA ReadOutcomeStep == ScenarioInv /\ ReadOutcome => ScenarioInv'
<1> SUFFICES ASSUME ScenarioInv, ReadOutcome PROVE ScenarioInv'
  OBVIOUS
<1>1. ScenarioTyped /\ Launched /\ Delivered /\ pipe \in Seq(Outcome)
      /\ outcomes \in [Positions -> {NoOutcome} \cup Outcome]
  BY DEF ScenarioInv, ScenarioTyped
<1>2. /\ stage = "running" /\ pipe # <<>>
      /\ outcomes' = [outcomes EXCEPT ![Head(pipe).index] = Head(pipe)] /\ pipe' = Tail(pipe)
      /\ UNCHANGED <<executables, sandboxed, stage, host, proc, launches, outer, processes, allPassed>>
  BY DEF ReadOutcome
<1>3. PICK o \in Outcome : o = Head(pipe) /\ 1 \in DOMAIN pipe /\ pipe[1] = o
  BY <1>1, <1>2
<1>4. Tells(o, o.index) /\ o.index \in Positions /\ o.index # 0
  BY <1>1, <1>3 DEF Delivered, Tells, Outcome
<1>5. PICK i \in Positions : i = o.index /\ i # 0
  BY <1>4
<1>6. outcomes' = [outcomes EXCEPT ![i] = o]
  BY <1>2, <1>3, <1>5
<1>7. Positions' = Positions /\ Policy' = Policy /\ Stopped' = Stopped
  BY <1>2 DEF Positions, Policy, Stopped
<1>8. \A q, n : Tells(q, n) => Tells(q, n)'
  BY <1>2, <1>7 DEF Tells
<1>9. ScenarioTyped'
  <2>1. pipe' \in Seq(Outcome)
    BY <1>1, <1>2
  <2>2. outcomes' \in [Positions -> {NoOutcome} \cup Outcome]
    BY <1>1, <1>6
  <2> QED BY <1>1, <1>2, <1>7, <2>1, <2>2 DEF ScenarioTyped
<1>10. Launched'
  BY <1>1, <1>2, <1>7 DEF Launched
<1>11. Delivered'
  <2>1. ASSUME NEW q \in Outcome, NEW k \in DOMAIN pipe', pipe'[k] = q PROVE Tells(q, q.index)'
    <3>1. k + 1 \in DOMAIN pipe /\ pipe[k + 1] = q
      BY <1>1, <1>2, <2>1
    <3> QED BY <1>1, <1>8, <3>1 DEF Delivered
  <2>2. ASSUME NEW q \in Outcome, NEW n \in Positions, outcomes'[n] = q
        PROVE  q.index = n /\ Tells(q, n)'
    <3>1. (n = i /\ q = o) \/ outcomes[n] = q
      BY <1>1, <1>6, <2>2
    <3> QED BY <1>1, <1>4, <1>5, <1>8, <3>1 DEF Delivered
  <2>3. ASSUME NEW n \in Positions, proc[launches[n]].pc = "emitted"
        PROVE  outcomes'[n].index # 0 \/ \E k \in DOMAIN pipe' : pipe'[k].index = n
    <3>1. CASE n = i
      BY <1>1, <1>5, <1>6, <3>1
    <3>2. CASE n # i
      <4>1. outcomes'[n] = outcomes[n]
        BY <1>1, <1>6, <3>2
      <4>2. ASSUME NEW k \in DOMAIN pipe, pipe[k].index = n PROVE \E j \in DOMAIN pipe' : pipe'[j].index = n
        <5>1. k # 1
          BY <1>3, <1>5, <3>2, <4>2
        <5>2. k - 1 \in DOMAIN pipe' /\ pipe'[k - 1] = pipe[k]
          BY <1>1, <1>2, <5>1
        <5> QED BY <4>2, <5>2
      <4> QED BY <1>1, <2>3, <4>1, <4>2 DEF Delivered
    <3> QED BY <3>1, <3>2
  <2>4. launches' = launches /\ proc' = proc
    BY <1>2
  <2> QED BY <1>7, <2>1, <2>2, <2>3, <2>4 DEF Delivered
<1> QED BY <1>2, <1>9, <1>10, <1>11, NotConcluded DEF ScenarioInv

(***************************************************************************)
(* The verdicts.                                                           *)
(***************************************************************************)
\* What is made of an outcome that is true.
LEMMA Applied ==
  ASSUME ScenarioTyped, Launched, NEW i \in Positions, NEW o \in Outcome, Tells(o, i)
  PROVE  LET e == launches[i] v == ApplyOutcome(e, o) p == proc[e] IN
         /\ v.stdout = o.stdout /\ v.timedOut = o.timedOut /\ v.killed = o.killed /\ v.crash = o.crash
         /\ v.passed => /\ p.ending = "exit" /\ ~p.expired
                        /\ Vouched(p.log)
                        /\ executables[e].ref = "present" => p.stdout = "expected"
                        /\ executables[e].ref # "absent"
<1> DEFINE e == launches[i]
           ref == executables[e].ref
           match == CASE ref = "none" -> "none" [] ref = "absent" -> "missing"
                      [] ref = "present" -> Match(o.stdout)
           valgrind == IF o.started THEN ParseValgrindLog(proc[e].log) ELSE "none"
           passed == /\ ~o.startFailed /\ ~o.killed /\ ~o.crash
                     /\ match \notin {"fail", "missing"} /\ ~Fails(valgrind)
<1>1. e \in Policy /\ proc[e] \in Process /\ executables[e] \in Executable
  BY DEF ScenarioTyped, Positions, Policy
<1>2. ApplyOutcome(e, o) =
        [stdout |-> o.stdout, timedOut |-> o.timedOut, killed |-> o.killed, crash |-> o.crash,
         match |-> match, valgrind |-> valgrind, passed |-> passed]
  BY Zenon DEF ApplyOutcome
<1>3. ASSUME passed
      PROVE  /\ proc[e].ending = "exit" /\ ~proc[e].expired
             /\ Vouched(proc[e].log)
             /\ ref = "present" => proc[e].stdout = "expected"
             /\ ref # "absent"
  <2>1. proc[e].ending \in Over /\ proc[e].pc = "emitted"
    BY <1>1 DEF Launched, Tells
  <2>2. proc[e].ending = "exit" /\ ~proc[e].expired /\ o.started
    BY <1>3, <2>1 DEF Tells, Over
  <2>3. Vouched(proc[e].log)
    BY <1>1, <1>3, <2>2, LogParsed DEF Process
  <2>4. ref = "present" => proc[e].stdout = "expected"
    BY <1>3 DEF Tells, Match
  <2>5. ref # "absent"
    BY <1>3
  <2> QED BY <2>2, <2>3, <2>4, <2>5
<1> HIDE DEF match, valgrind, passed
<1>4. LET v == ApplyOutcome(e, o) IN
      /\ v.stdout = o.stdout /\ v.timedOut = o.timedOut /\ v.killed = o.killed /\ v.crash = o.crash
      /\ v.passed = passed
  BY <1>2
<1> QED BY <1>3, <1>4

\* The verdict of each executable, launched or not, answered or not.
LEMMA VerdictIs ==
  ASSUME ScenarioTyped, Launched, Delivered, stage = "collecting", NEW e \in Policy
  PROVE  LET v == Verdict(e) p == proc[e] IN
         /\ v.passed => /\ p.pc = "emitted" /\ p.ending = "exit" /\ ~p.expired
                        /\ Vouched(p.log)
                        /\ executables[e].ref = "present" => p.stdout = "expected"
                        /\ executables[e].ref # "absent"
         /\ CASE p.pc = "emitted" ->
                    /\ v.stdout = p.stdout
                    /\ p.expired => v.killed
                    /\ v.killed => p.expired \/ Stopped
                    /\ v.timedOut => p.expired \/ outer = "expired"
                    /\ v.crash => p.ending \in {"fatal", "killed"}
                    /\ p.ending = "fatal" => v.crash
              [] p.pc # "emitted" /\ e \in Range(launches) ->
                    /\ v.killed /\ ~v.passed
                    /\ v.timedOut => outer = "expired"
              [] OTHER -> ~v.killed /\ ~v.passed /\ ~v.timedOut
<1>1. pipe = <<>> /\ outcomes \in [Positions -> {NoOutcome} \cup Outcome]
  BY DEF Launched, ScenarioTyped
<1>2. CASE proc[e].pc = "emitted"
  <2>1. e \in Range(launches)
    BY <1>2 DEF Launched
  <2>2. PICK i \in Positions : i = Position(e) /\ launches[i] = e
    BY <2>1, PositionIs
  <2>3. outcomes[i].index # 0
    BY <1>1, <1>2, <2>2 DEF Delivered
  <2>4. PICK o \in Outcome : o = outcomes[i]
    BY <1>1, <2>3 DEF NoOutcome
  <2>5. Tells(o, i)
    BY <2>4 DEF Delivered
  <2>6. Verdict(e) = ApplyOutcome(launches[i], o)
    BY <2>1, <2>2, <2>3, <2>4 DEF Verdict
  <2> QED BY <1>2, <2>2, <2>5, <2>6, Applied DEF Tells
<1>3. CASE proc[e].pc # "emitted" /\ e \in Range(launches)
  <2>1. PICK i \in Positions : i = Position(e) /\ launches[i] = e
    BY <1>3, PositionIs
  <2>2. outcomes[i] \notin Outcome
    BY <1>3, <2>1 DEF Delivered, Tells
  <2>3. outcomes[i].index = 0
    BY <1>1, <2>2 DEF NoOutcome
  <2>4. Verdict(e) = Unanswered
    BY <1>3, <2>1, <2>3 DEF Verdict
  <2>5. Unanswered.killed /\ ~Unanswered.passed /\ (Unanswered.timedOut => outer = "expired")
    BY DEF Unanswered, NoVerdict
  <2> QED BY <1>3, <2>4, <2>5
<1>4. CASE proc[e].pc # "emitted" /\ e \notin Range(launches)
  BY <1>4 DEF Verdict, NoVerdict
<1> QED BY <1>2, <1>3, <1>4

LEMMA CollectScenarioStep == ScenarioInv /\ CollectScenario => ScenarioInv'
<1> SUFFICES ASSUME ScenarioInv, CollectScenario PROVE ScenarioInv'
  OBVIOUS
<1>1. ScenarioTyped /\ Launched /\ Delivered
  BY DEF ScenarioInv
<1>2. /\ stage = "collecting" /\ stage' = "done"
      /\ \A e \in Policy : processes'[e] = Verdict(e)
      /\ allPassed' => \A e \in Policy : processes'[e].passed
      /\ UNCHANGED <<executables, sandboxed, host, proc, pipe, outcomes, launches, outer>>
  BY DEF CollectScenario, Policy
<1>3. ScenarioTyped'
  BY <1>1, <1>2 DEF ScenarioTyped, Policy, Positions
<1>4. Launched'
  BY <1>1, <1>2 DEF Launched, Policy, Positions, Stopped
<1>5. Delivered'
  BY <1>1, <1>2, StillDelivered
<1>6. AllPassedEarned'
  <2> SUFFICES ASSUME allPassed', NEW e \in Policy
               PROVE  /\ proc[e].pc = "emitted" /\ proc[e].ending = "exit" /\ ~proc[e].expired
                      /\ Vouched(proc[e].log)
                      /\ executables[e].ref = "present" => proc[e].stdout = "expected"
                      /\ executables[e].ref # "absent"
    BY <1>2 DEF AllPassedEarned, Policy
  <2>1. Verdict(e).passed
    BY <1>2
  <2> QED BY <1>1, <1>2, <2>1, VerdictIs
<1>7. VerdictIsOwn'
  <2> SUFFICES ASSUME NEW e \in Policy
               PROVE  LET v == processes'[e] p == proc[e] IN
                      CASE p.pc = "emitted" ->
                              /\ v.stdout = p.stdout
                              /\ p.expired => v.killed
                              /\ v.killed => p.expired \/ Stopped
                              /\ v.timedOut => p.expired \/ outer = "expired"
                              /\ v.crash => p.ending \in {"fatal", "killed"}
                              /\ p.ending = "fatal" => v.crash
                        [] p.pc # "emitted" /\ e \in Range(launches) ->
                              /\ v.killed /\ ~v.passed
                              /\ v.timedOut => outer = "expired"
                        [] OTHER -> ~v.killed /\ ~v.passed /\ ~v.timedOut
    BY <1>2 DEF VerdictIsOwn, Policy, Stopped
  <2>1. processes'[e] = Verdict(e)
    BY <1>2
  <2> QED BY <1>1, <1>2, <2>1, VerdictIs
<1> QED BY <1>3, <1>4, <1>5, <1>6, <1>7 DEF ScenarioInv, Concluded

LEMMA ScenarioInvNext == ScenarioInv /\ [ScenarioNext]_scenarioVars => ScenarioInv'
<1> SUFFICES ASSUME ScenarioInv, [ScenarioNext]_scenarioVars PROVE ScenarioInv'
  OBVIOUS
<1>1. CASE UNCHANGED scenarioVars
  <2>1. /\ ScenarioTyped' /\ Launched' /\ Delivered'
    BY <1>1 DEF scenarioVars, ScenarioInv, ScenarioTyped, Launched, Delivered, Tells, Policy, Positions, Stopped
  <2>2. Concluded'
    BY <1>1 DEF scenarioVars, ScenarioInv, Concluded, AllPassedEarned, VerdictIsOwn, Stopped
  <2> QED BY <2>1, <2>2 DEF ScenarioInv
<1>2. CASE EngineStep
  BY <1>2, PlanStep, StartHostStep, ReadOutcomeStep, EndHostStep, CollectScenarioStep DEF EngineStep
<1>3. CASE EndHost \/ KillHost \/ StopScenario
  BY <1>3, EndHostStep, KillHostStep, StopScenarioStep
<1>4. CASE \E e \in Policy : HostStep(e) \/ ProcessEnds(e) \/ ProcessDeadline(e)
  BY <1>4, EmitStep, ProcessInv DEF HostStep, ProcessStep
<1> QED BY <1>1, <1>2, <1>3, <1>4 DEF ScenarioNext, Policy

(***************************************************************************)
(* Both kinds of execution.                                                *)
(***************************************************************************)
\* A submission with a scenario has no test cases to run.
LEMMA NoCasesInv == NoCases => IInv
<1> SUFFICES ASSUME NoCases PROVE IInv
  OBVIOUS
<1>1. /\ plan = <<>> /\ compile = "ok" /\ at = "done" /\ produced = "absent" /\ run = NoRun
      /\ result = NewExecuteResult(FALSE, FALSE) /\ cases = <<>>
      /\ summary = [passed |-> 0, failed |-> 0, compileFailed |-> 0, missing |-> 0]
  BY DEF NoCases
<1>2. result \in Result /\ summary \in Summary
  BY <1>1, NewResult DEF Summary
<1>3. Len(plan) = 0 /\ Len(cases) = 0 /\ DOMAIN cases = {}
  BY <1>1
<1>4. Typed
  <2>1. plan \in Seq(Case) /\ cases \in Seq(CaseResult)
    BY <1>1
  <2>2. run \in Run
    BY <1>1, NoRunTyped
  <2> QED BY <1>1, <1>2, <2>1, <2>2 DEF Typed
<1>5. Located /\ Fresh /\ Collected /\ Judged
  <2>1. at = "done" /\ at \notin Before \cup During \cup After
    BY <1>1, NextNotDuring
  <2>2. Located
    BY <1>1, <1>3, <2>1 DEF Located, Before, During
  <2> QED BY <2>1, <2>2 DEF Fresh, Collected, Judged
<1>6. Sums
  <2>1. ASSUME NEW statuses PROVE CountOf(statuses) = 0
    <3>1. {k \in DOMAIN cases : cases[k].status \in statuses} = {}
      BY <1>3
    <3> QED BY <3>1, FS_EmptySet DEF CountOf
  <2>2. {k \in DOMAIN cases : cases[k].match = "missing"} = {}
    BY <1>3
  <2> QED BY <1>1, <1>3, <2>1, <2>2, FS_EmptySet DEF Sums
<1> QED BY <1>4, <1>5, <1>6 DEF IInv

LEMMA ExecutionInv == ExecutionSpec => [](IInv /\ ScenarioInv)
<1>1. ExecutionInit => IInv /\ ScenarioInv
  BY InvInit, NoCasesInv, ScenarioInvInit DEF ExecutionInit
<1>2. IInv /\ ScenarioInv /\ [ExecutionNext]_<<vars, scenarioVars>> => (IInv /\ ScenarioInv)'
  BY InvNext, ScenarioInvNext DEF ExecutionNext, Case1, Scenario1
<1> QED BY <1>1, <1>2, PTL DEF ExecutionSpec

\* Every process of a scenario that passed came to its own end, with what was expected of
\* it and a log that vouches for it as far as what is read of a log does: no verdict
\* passes for a process that was not launched, was lost with its host, or of which the
\* outcome was another's (applyOutcome, computeMultiProcessStatus).
THEOREM ScenarioEarned == ExecutionSpec => []AllPassedEarned
<1>1. ScenarioInv => AllPassedEarned
  BY DEF ScenarioInv, Concluded
<1> QED BY <1>1, ExecutionInv, PTL

\* Each verdict of a scenario is of its own process, whatever order the outcomes come in
\* and wherever the host and the pipe are cut (executeScenario).
THEOREM OwnVerdicts == ExecutionSpec => []VerdictIsOwn
<1>1. ScenarioInv => VerdictIsOwn
  BY DEF ScenarioInv, Concluded
<1> QED BY <1>1, ExecutionInv, PTL

\* The verdicts of test cases hold of what a grading run executes, whichever of the two
\* its policy asks for (runTestCases, Execute).
THEOREM CasesJudged == ExecutionSpec => [](PassIsEarned /\ FreshFileOnly /\ BlameIsRight)
  BY ExecutionInv, PassHolds, FreshHolds, BlameHolds, PTL
=============================================================================
