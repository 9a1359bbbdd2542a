--------------------------- MODULE TestCasesProofs ---------------------------
(***************************************************************************)
(* The safety properties of TestCases, for all plans, reports and numbers  *)
(* of processes.  The verdict of a case is computed four steps after its   *)
(* program ended, from results rewritten on the way (NewExecuteResult,     *)
(* WithValgrind, WithCrash); the invariant says at each step what the      *)
(* result tells of the run itself: Located what has run, Fresh whose file  *)
(* is there, Collected what Execute made of the run, Judged what the last  *)
(* case says of it, Sums what the counters count.                          *)
(***************************************************************************)
EXTENDS TestCases, FiniteSetTheorems, TLAPS

Statuses == {"pass", "fail", "crashed", "timeout", "compile_failed"}
Matches == {"none", "pass", "fail", "missing"}
Valgrinds == {"none", "missing", "unreported", "issues", "clean"}
Endings == {"none", "unstarted", "exit", "fatal", "killed"}
Written == Texts \cup {"nothing"}

Run == [ending : Endings, expired : BOOLEAN, stdout : Texts, wrote : Written, log : Seq(Reports)]
Result == [ok : BOOLEAN, timedOut : BOOLEAN, passed : BOOLEAN, crash : BOOLEAN,
           valgrind : Valgrinds, match : Matches]
CaseResult == [status : Statuses, match : Matches]
Summary == [passed : Nat, failed : Nat, compileFailed : Nat, missing : Nat]

Typed ==
    /\ plan \in Seq(Case) /\ compile \in {"ok", "failed", "timeout"}
    /\ produced \in Texts \cup {"absent"}
    /\ run \in Run /\ result \in Result /\ cases \in Seq(CaseResult) /\ summary \in Summary

\* Which steps there are with a case at hand, and before and after its program.
Before == {"staging", "preflight"}
During == {"starting", "running", "ended"}
After == {"comparing", "adding"}

Located ==
    /\ at \in Before \cup During \cup After \cup {"next", "done"}
    /\ Len(cases) <= Len(plan)
    /\ at \in Before \cup During \cup After => compile = "ok" /\ Len(cases) < Len(plan)
    /\ at = "done" => Len(cases) = Len(plan)
    /\ at \in Before => run.ending = "none" /\ ~run.expired
    /\ at \in {"starting", "running"} => run.ending = "none"
    /\ at = "ended" => run.ending \in {"unstarted", "exit", "fatal", "killed"}

\* A produced file that is compared is of the program of the case at hand.
Fresh ==
    at \in Before \cup During \cup After /\ Current.file =>
        produced = IF run.wrote = "nothing" THEN "absent" ELSE run.wrote

Crashed == run.ending = "fatal" \/ (run.ending = "killed" /\ ~run.expired)

\* What Execute makes of a program is true of it.
Collected ==
    at \in After =>
        /\ result.timedOut <=> run.expired
        /\ result.crash <=> Crashed
        /\ result.passed => run.ending = "exit" /\ ~run.expired /\ Vouched(run.log)
        /\ at = "adding" => result.match = OutputMatch(Current, produced, run.stdout)

\* And so is what the summary has of it.
Judged ==
    at = "next" /\ compile = "ok" /\ cases # <<>> =>
        /\ CASE cases[Len(cases)].status = "timeout" -> run.expired
             [] cases[Len(cases)].status = "crashed" ->
                   ~run.expired /\ run.ending \in {"fatal", "killed"}
             [] OTHER -> ~(run.expired \/ run.ending \in {"fatal", "killed"})
        /\ PassIsEarned

\* The counters, and their sum.
Sums ==
    /\ summary.passed = CountOf({"pass"})
    /\ summary.compileFailed = CountOf({"compile_failed"})
    /\ summary.failed = CountOf({"fail", "crashed", "timeout"})
    /\ summary.missing = Cardinality({k \in DOMAIN cases : cases[k].match = "missing"})
    /\ summary.compileFailed = IF compile = "ok" THEN 0 ELSE Len(cases)
    /\ summary.passed + summary.failed + summary.compileFailed = Len(cases)

IInv == Typed /\ Located /\ Fresh /\ Collected /\ Judged /\ Sums

(***************************************************************************)
(* The results of one program.                                             *)
(***************************************************************************)
LEMMA NewResult ==
  ASSUME NEW ok \in BOOLEAN, NEW late \in BOOLEAN
  PROVE  LET r == NewExecuteResult(ok, late) IN
         /\ r \in Result /\ r.timedOut = late /\ r.crash = FALSE /\ (r.passed <=> ok /\ ~late)
<1> DEFINE passed == ok /\ ~late
<1>1. passed \in BOOLEAN
  OBVIOUS
<1>2. NewExecuteResult(ok, late) = [ok |-> ok, timedOut |-> late, passed |-> passed, crash |-> FALSE,
                                    valgrind |-> "none", match |-> "none"]
  BY DEF NewExecuteResult
<1> HIDE DEF passed
<1>3. LET r == NewExecuteResult(ok, late) IN
      r \in Result /\ r.timedOut = late /\ r.crash = FALSE /\ r.passed = passed
  BY <1>1, <1>2 DEF Result, Valgrinds, Matches
<1> QED BY <1>3 DEF passed

LEMMA ValgrindResult ==
  ASSUME NEW r \in Result, NEW v \in Valgrinds
  PROVE  LET s == WithValgrind(r, v) IN
         /\ s \in Result /\ s.timedOut = r.timedOut /\ s.crash = r.crash
         /\ s.passed <=> r.passed /\ ~Fails(v)
<1> DEFINE passed == r.passed /\ ~Fails(v)
<1>1. passed \in BOOLEAN
  BY Zenon
<1>2. WithValgrind(r, v) = [r EXCEPT !.valgrind = v, !.passed = passed]
  BY Zenon DEF WithValgrind
<1> HIDE DEF passed
<1>3. LET s == WithValgrind(r, v) IN
      s \in Result /\ s.timedOut = r.timedOut /\ s.crash = r.crash /\ s.passed = passed
  BY <1>1, <1>2 DEF Result
<1> QED BY <1>3 DEF passed

LEMMA CrashResult ==
  ASSUME NEW r \in Result, NEW crash \in BOOLEAN
  PROVE  LET s == WithCrash(r, crash) IN
         /\ s \in Result /\ s.timedOut = r.timedOut /\ s.crash = crash
         /\ s.passed <=> r.passed /\ ~crash
<1> DEFINE passed == r.passed /\ ~crash
<1>1. passed \in BOOLEAN
  BY Zenon
<1>2. WithCrash(r, crash) = [r EXCEPT !.crash = crash, !.passed = passed]
  BY Zenon DEF WithCrash
<1> HIDE DEF passed
<1>3. LET s == WithCrash(r, crash) IN
      s \in Result /\ s.timedOut = r.timedOut /\ s.crash = crash /\ s.passed = passed
  BY <1>1, <1>2 DEF Result
<1> QED BY <1>3 DEF passed

\* A log that does not fail vouches for its program: of the first report no line is
\* left unread, and of the leak lines none before the last LEAK SUMMARY counts.
LEMMA LogParsed ==
  ASSUME NEW log \in Seq(Reports)
  PROVE  /\ ParseValgrindLog(log) \in {"unreported", "issues", "clean"}
         /\ ~Fails(ParseValgrindLog(log)) => Vouched(log)
<1>1. CASE log = <<>>
  BY <1>1 DEF ParseValgrindLog, Vouched
<1>2. CASE log # <<>>
  <2>1. ParseValgrindLog(log) = IF Head(log).issues # {} \/ LeaksLeft(log) THEN "issues" ELSE "clean"
    BY <1>2, Zenon DEF ParseValgrindLog
  <2>2. ASSUME ~LeaksLeft(log), NEW k \in DOMAIN log, log[k].heap = "leaks"
        PROVE  \E j \in k + 1 .. Len(log) : log[j].heap = "empty"
    BY <2>2, Zenon DEF LeaksLeft
  <2> QED BY <2>1, <2>2, Zenon DEF Fails, Vouched
<1> QED BY <1>1, <1>2

LEMMA StatusIs ==
  ASSUME NEW r
  PROVE  /\ TestCaseStatus(r) \in {"pass", "fail", "crashed", "timeout"}
         /\ TestCaseStatus(r) = "timeout" => r.timedOut
         /\ TestCaseStatus(r) = "crashed" => ~r.timedOut /\ r.crash
         /\ TestCaseStatus(r) \in {"pass", "fail"} => ~r.timedOut /\ ~r.crash
         /\ TestCaseStatus(r) = "pass" => r.passed /\ r.match # "fail"
  BY DEF TestCaseStatus

LEMMA MatchIs ==
  ASSUME NEW case \in Case, NEW content \in Texts \cup {"absent"}, NEW stdout \in Texts
  PROVE  LET m == OutputMatch(case, content, stdout) IN
         /\ m \in Matches
         /\ case.file /\ m \in {"pass", "fail"} => content # "absent" /\ m = Match(content)
         /\ case.ref = "present" /\ m # "fail" =>
               IF case.file THEN content # "other" ELSE stdout = "expected"
  BY DEF OutputMatch, Match, Matches, Case, Texts

LEMMA NoRunTyped == NoRun \in Run /\ NoRun.ending = "none" /\ NoRun.expired = FALSE /\ NoRun.wrote = "nothing"
  BY DEF NoRun, Run, Endings, Texts, Written

LEMMA PlanTyped == Plans \subseteq Seq(Case)
  BY TestCasesAssumption

LEMMA InvInit == Init => IInv
<1> SUFFICES ASSUME Init PROVE IInv
  OBVIOUS
<1>1. plan \in Seq(Case)
  BY PlanTyped DEF Init
<1>2. result \in Result
  BY NewResult DEF Init
<1>3. summary \in Summary
  BY DEF Init, Summary
<1>4. cases \in Seq(CaseResult) /\ Len(cases) = 0 /\ DOMAIN cases = {}
  BY DEF Init
<1>5. Typed
  BY <1>1, <1>2, <1>3, <1>4, NoRunTyped DEF Init, Typed
<1>6. Located
  BY <1>1, <1>4 DEF Init, Located, Before, During, After
<1>7. Fresh /\ Collected /\ Judged
  BY DEF Init, Fresh, Collected, Judged, Before, During, After
<1>8. Sums
  <2>1. \A st : CountOf(st) = 0
    <3> SUFFICES ASSUME NEW st PROVE CountOf(st) = 0
      OBVIOUS
    <3>1. {k \in DOMAIN cases : cases[k].status \in st} = {}
      BY <1>4
    <3> QED BY <3>1, FS_EmptySet DEF CountOf
  <2>2. {k \in DOMAIN cases : cases[k].match = "missing"} = {}
    BY <1>4
  <2> QED BY <1>4, <2>1, <2>2, FS_EmptySet DEF Init, Sums
<1> QED BY <1>5, <1>6, <1>7, <1>8 DEF IInv

(***************************************************************************)
(* Each action keeps the types and the place.                              *)
(***************************************************************************)
LEMMA CurrentTyped ==
  ASSUME Typed, Len(cases) < Len(plan)
  PROVE  Current \in Case
<1>1. Len(cases) \in Nat /\ Len(plan) \in Nat
  BY DEF Typed
<1>2. Len(cases) + 1 \in 1 .. Len(plan)
  BY <1>1
<1> QED BY <1>2 DEF Typed, Current

\* A case that is over, executed or not.
LEMMA CaseTyped ==
  ASSUME Typed, NEW status \in Statuses, NEW match \in Matches,
         cases' = Append(cases, [status |-> status, match |-> match])
  PROVE  /\ cases' \in Seq(CaseResult) /\ Len(cases') = Len(cases) + 1 /\ Len(cases) \in Nat
         /\ DOMAIN cases' = DOMAIN cases \cup {Len(cases) + 1} /\ Len(cases) + 1 \notin DOMAIN cases
         /\ \A k \in DOMAIN cases : cases'[k] = cases[k]
         /\ cases'[Len(cases')].status = status /\ cases'[Len(cases')].match = match
         /\ cases' # <<>>
<1> DEFINE c == [status |-> status, match |-> match]
<1>1. c \in CaseResult /\ c.status = status /\ c.match = match
  BY DEF CaseResult
<1> HIDE DEF c
<1>2. cases \in Seq(CaseResult) /\ cases' = Append(cases, c)
  BY DEF Typed, c
<1>3. /\ cases' \in Seq(CaseResult) /\ Len(cases') = Len(cases) + 1 /\ Len(cases) \in Nat
      /\ cases'[Len(cases) + 1] = c /\ \A k \in 1 .. Len(cases) : cases'[k] = cases[k]
  BY <1>1, <1>2
<1>4. DOMAIN cases = 1 .. Len(cases) /\ DOMAIN cases' = 1 .. Len(cases) + 1
  BY <1>2, <1>3
<1> QED BY <1>1, <1>3, <1>4

LEMMA CountedTyped ==
  ASSUME NEW s \in Summary, NEW status, NEW match
  PROVE  LET t == Counted(s, status, match) IN
         /\ t \in Summary
         /\ t.passed = s.passed + (IF status = "pass" THEN 1 ELSE 0)
         /\ t.compileFailed = s.compileFailed + (IF status = "compile_failed" THEN 1 ELSE 0)
         /\ t.failed = s.failed + (IF status \in {"pass", "compile_failed"} THEN 0 ELSE 1)
         /\ t.missing = s.missing + (IF match = "missing" THEN 1 ELSE 0)
<1> DEFINE a == IF status = "pass" THEN 1 ELSE 0
           b == IF status = "compile_failed" THEN 1 ELSE 0
           c == IF status \in {"pass", "compile_failed"} THEN 0 ELSE 1
           d == IF match = "missing" THEN 1 ELSE 0
<1>1. a \in Nat /\ b \in Nat /\ c \in Nat /\ d \in Nat
  OBVIOUS
<1>2. Counted(s, status, match) =
         [s EXCEPT !.passed = @ + a, !.compileFailed = @ + b, !.failed = @ + c, !.missing = @ + d]
  BY DEF Counted
<1> HIDE DEF a, b, c, d
<1> DEFINE p == s.passed + a
           u == s.compileFailed + b
           f == s.failed + c
           m == s.missing + d
<1>3. p \in Nat /\ u \in Nat /\ f \in Nat /\ m \in Nat
  BY <1>1 DEF Summary
<1>4. Counted(s, status, match) = [s EXCEPT !.passed = p, !.compileFailed = u, !.failed = f, !.missing = m]
  BY <1>2
<1> HIDE DEF p, u, f, m
<1>5. LET t == Counted(s, status, match) IN
      t \in Summary /\ t.passed = p /\ t.compileFailed = u /\ t.failed = f /\ t.missing = m
  BY <1>3, <1>4 DEF Summary
<1> QED BY <1>5 DEF a, b, c, d, p, u, f, m

\* The steps while a program runs.
Runs ==
    StartProgram \/ WriteStdout \/ WriteFile \/ ProcessReports \/ ProgramEnds \/ Deadline \/ Kill

LEMMA RunTyped ==
  ASSUME Typed, Runs
  PROVE  /\ run' \in Run /\ produced' \in Texts \cup {"absent"}
         /\ UNCHANGED <<plan, compile, result, cases, summary>>
<1>1. run \in Run /\ produced \in Texts \cup {"absent"}
  BY DEF Typed
<1>2. CASE StartProgram
  BY <1>1, <1>2 DEF StartProgram, Run, Endings
<1>3. CASE WriteStdout
  BY <1>1, <1>3 DEF WriteStdout, Run
<1>4. CASE WriteFile
  <2>1. PICK t \in Texts : produced' = t /\ run' = [run EXCEPT !.wrote = t]
    BY <1>4 DEF WriteFile
  <2>2. t \in Written
    BY DEF Written
  <2> QED BY <1>1, <1>4, <2>1, <2>2 DEF WriteFile, Run
<1>5. CASE ProcessReports
  <2>1. PICK issues \in Reports : run' = [run EXCEPT !.log = Append(run.log, issues)]
    BY <1>5 DEF ProcessReports
  <2>2. Append(run.log, issues) \in Seq(Reports)
    BY <1>1 DEF Run
  <2> QED BY <1>1, <1>5, <2>1, <2>2 DEF ProcessReports, Run
<1>6. CASE ProgramEnds
  BY <1>1, <1>6 DEF ProgramEnds, Run, Endings
<1>7. CASE Deadline
  BY <1>1, <1>7 DEF Deadline, Run
<1>8. CASE Kill
  BY <1>1, <1>8 DEF Kill, Run, Endings
<1> QED BY <1>2, <1>3, <1>4, <1>5, <1>6, <1>7, <1>8 DEF Runs

\* What the end of a program gives.
LEMMA CollectIs ==
  ASSUME Typed, Located, Collect
  PROVE  /\ result' \in Result
         /\ result'.timedOut <=> run.expired
         /\ result'.crash <=> Crashed
         /\ result'.passed => run.ending = "exit" /\ ~run.expired /\ Vouched(run.log)
<1>1. run \in Run /\ run.expired \in BOOLEAN /\ run.log \in Seq(Reports)
  BY DEF Typed, Run
<1>2. run.ending \in {"unstarted", "exit", "fatal", "killed"}
  BY DEF Located, Collect
<1> DEFINE ok == run.ending # "unstarted"
           crash == CrashReason(run.ending, run.expired)
           v == ParseValgrindLog(run.log)
           r == NewExecuteResult(ok, run.expired)
           s == WithValgrind(r, v)
<1>3. ok \in BOOLEAN /\ crash \in BOOLEAN /\ (crash <=> Crashed)
  BY DEF CrashReason, Crashed
<1>4. v \in Valgrinds /\ (~Fails(v) => Vouched(run.log))
  BY <1>1, LogParsed DEF Valgrinds
<1>5. result' = WithCrash(s, crash)
  BY DEF Collect
<1>6. ok <=> run.ending # "unstarted"
  OBVIOUS
<1> HIDE DEF ok, crash, v
<1>7. r \in Result /\ r.timedOut = run.expired /\ r.crash = FALSE /\ (r.passed <=> ok /\ ~run.expired)
  BY <1>1, <1>3, NewResult
<1> HIDE DEF r
<1>8. s \in Result /\ s.timedOut = r.timedOut /\ s.crash = r.crash /\ (s.passed <=> r.passed /\ ~Fails(v))
  BY <1>4, <1>7, ValgrindResult
<1> HIDE DEF s
<1>9. /\ result' \in Result /\ result'.timedOut = s.timedOut /\ result'.crash = crash
      /\ result'.passed <=> s.passed /\ ~crash
  BY <1>3, <1>5, <1>8, CrashResult
<1> QED BY <1>1, <1>2, <1>3, <1>4, <1>6, <1>7, <1>8, <1>9 DEF Crashed

\* What becomes of a case without a run.
LEMMA NotRun ==
  ASSUME Typed, Located, StageTestFiles \/ Preflight
  PROVE  /\ result' \in Result
         /\ at' = "comparing" => ~result'.timedOut /\ ~result'.crash /\ ~result'.passed
         /\ at \in Before /\ at' \in {"preflight", "starting", "comparing"}
         /\ UNCHANGED <<plan, compile, produced, run, cases, summary>>
<1>1. /\ at \in Before /\ at' \in {"preflight", "starting", "comparing"}
      /\ UNCHANGED <<plan, compile, produced, run, cases, summary>>
  BY DEF StageTestFiles, Preflight, Before
<1> DEFINE r == NewExecuteResult(FALSE, FALSE)
<1>2. r \in Result /\ r.timedOut = FALSE /\ r.crash = FALSE /\ ~r.passed
  BY NewResult
<1>3. result \in Result
  BY DEF Typed
<1>4. CASE UNCHANGED result /\ at' # "comparing"
  BY <1>1, <1>3, <1>4
<1>5. CASE result' = r
  BY <1>1, <1>2, <1>5
<1>6. CASE \E v \in {"missing", "unreported"} : result' = WithValgrind(r, v)
  <2>1. PICK v \in {"missing", "unreported"} : result' = WithValgrind(r, v)
    BY <1>6
  <2>2. v \in Valgrinds
    BY DEF Valgrinds
  <2> HIDE DEF r
  <2>3. /\ result' \in Result /\ result'.timedOut = FALSE /\ result'.crash = FALSE
        /\ result'.passed <=> r.passed /\ ~Fails(v)
    BY <1>2, <2>1, <2>2, ValgrindResult
  <2> QED BY <1>1, <1>2, <2>3
<1> QED BY <1>4, <1>5, <1>6 DEF StageTestFiles, Preflight

(***************************************************************************)
(* The summary: a case is counted once, as what it is.                     *)
(***************************************************************************)
LEMMA CasesFinite ==
  ASSUME Typed, NEW S, S \subseteq DOMAIN cases
  PROVE  IsFiniteSet(S) /\ Cardinality(S) \in Nat
<1>1. DOMAIN cases = 1 .. Len(cases) /\ Len(cases) \in Nat
  BY DEF Typed
<1>2. IsFiniteSet(1 .. Len(cases))
  BY <1>1, FS_Interval
<1> QED BY <1>1, <1>2, FS_Subset, FS_CardinalityType

LEMMA CountAppend ==
  ASSUME Typed, NEW status \in Statuses, NEW match \in Matches,
         cases' = Append(cases, [status |-> status, match |-> match]), NEW statuses
  PROVE  CountOf(statuses)' = CountOf(statuses) + (IF status \in statuses THEN 1 ELSE 0)
<1> DEFINE S == {k \in DOMAIN cases : cases[k].status \in statuses}
           T == {k \in DOMAIN cases' : cases'[k].status \in statuses}
           n == Len(cases) + 1
<1>1. T = IF status \in statuses THEN S \cup {n} ELSE S
  BY CaseTyped
<1>2. n \notin S
  BY CaseTyped
<1>3. IsFiniteSet(S) /\ Cardinality(S) \in Nat
  BY CasesFinite
<1>4. Cardinality(S \cup {n}) = Cardinality(S) + 1
  <2> HIDE DEF S, n
  <2> QED BY <1>2, <1>3, FS_AddElement
<1>5. CountOf(statuses) = Cardinality(S) /\ CountOf(statuses)' = Cardinality(T)
  BY DEF CountOf
<1> HIDE DEF S, T, n
<1> QED BY <1>1, <1>3, <1>4, <1>5

LEMMA MissingAppend ==
  ASSUME Typed, NEW status \in Statuses, NEW match \in Matches,
         cases' = Append(cases, [status |-> status, match |-> match])
  PROVE  Cardinality({k \in DOMAIN cases : cases[k].match = "missing"})' =
            Cardinality({k \in DOMAIN cases : cases[k].match = "missing"}) + (IF match = "missing" THEN 1 ELSE 0)
<1> DEFINE S == {k \in DOMAIN cases : cases[k].match = "missing"}
           T == {k \in DOMAIN cases' : cases'[k].match = "missing"}
           n == Len(cases) + 1
<1>1. T = IF match = "missing" THEN S \cup {n} ELSE S
  BY CaseTyped
<1>2. n \notin S
  BY CaseTyped
<1>3. IsFiniteSet(S) /\ Cardinality(S) \in Nat
  BY CasesFinite
<1>4. Cardinality(S \cup {n}) = Cardinality(S) + 1
  <2> HIDE DEF S, n
  <2> QED BY <1>2, <1>3, FS_AddElement
<1>5. Cardinality(T) = Cardinality(S) + (IF match = "missing" THEN 1 ELSE 0)
  <2> HIDE DEF S, T, n
  <2> QED BY <1>1, <1>3, <1>4
<1> QED BY <1>5

LEMMA SumsStep ==
  ASSUME Typed, Sums, NEW status \in Statuses, NEW match \in Matches,
         cases' = Append(cases, [status |-> status, match |-> match]),
         summary' = Counted(summary, status, match),
         status = "compile_failed" <=> compile # "ok", compile' = compile
  PROVE  Sums' /\ summary' \in Summary
<1>1. summary \in Summary /\ Len(cases) \in Nat /\ Len(cases') = Len(cases) + 1
  BY CaseTyped DEF Typed
<1>2. /\ summary' \in Summary
      /\ summary'.passed = summary.passed + (IF status = "pass" THEN 1 ELSE 0)
      /\ summary'.compileFailed = summary.compileFailed + (IF status = "compile_failed" THEN 1 ELSE 0)
      /\ summary'.failed = summary.failed + (IF status \in {"pass", "compile_failed"} THEN 0 ELSE 1)
      /\ summary'.missing = summary.missing + (IF match = "missing" THEN 1 ELSE 0)
  BY <1>1, CountedTyped
<1>3. /\ summary'.passed = CountOf({"pass"})'
      /\ summary'.compileFailed = CountOf({"compile_failed"})'
  <2>1. /\ CountOf({"pass"})' = CountOf({"pass"}) + (IF status = "pass" THEN 1 ELSE 0)
        /\ CountOf({"compile_failed"})'
             = CountOf({"compile_failed"}) + (IF status = "compile_failed" THEN 1 ELSE 0)
    BY CountAppend
  <2>2. summary.passed = CountOf({"pass"}) /\ summary.compileFailed = CountOf({"compile_failed"})
    BY DEF Sums
  <2> QED BY <1>2, <2>1, <2>2
<1>4. summary'.failed = CountOf({"fail", "crashed", "timeout"})'
  <2>1. status \in {"pass", "compile_failed"} <=> status \notin {"fail", "crashed", "timeout"}
    BY DEF Statuses
  <2>2. CountOf({"fail", "crashed", "timeout"})'
          = CountOf({"fail", "crashed", "timeout"}) + (IF status \in {"pass", "compile_failed"} THEN 0 ELSE 1)
    BY <2>1, CountAppend
  <2>3. summary.failed = CountOf({"fail", "crashed", "timeout"})
    BY DEF Sums
  <2> QED BY <1>2, <2>2, <2>3
<1>5. summary'.missing = Cardinality({k \in DOMAIN cases : cases[k].match = "missing"})'
  BY <1>2, MissingAppend DEF Sums
<1> DEFINE p == IF status = "pass" THEN 1 ELSE 0
           u == IF status = "compile_failed" THEN 1 ELSE 0
           f == IF status \in {"pass", "compile_failed"} THEN 0 ELSE 1
           n == Len(cases)
           m == Len(cases')
<1>6. summary'.compileFailed = IF compile' = "ok" THEN 0 ELSE m
  <2>1. summary.compileFailed = IF compile = "ok" THEN 0 ELSE n
    BY DEF Sums
  <2>2. u = IF compile = "ok" THEN 0 ELSE 1
    OBVIOUS
  <2>3. summary'.compileFailed = summary.compileFailed + u /\ n \in Nat /\ m = n + 1
    BY <1>1, <1>2
  <2> HIDE DEF u, n, m
  <2> QED BY <2>1, <2>2, <2>3
<1>7. summary'.passed + summary'.failed + summary'.compileFailed = m
  <2>1. summary.passed + summary.failed + summary.compileFailed = n
    BY DEF Sums
  <2>2. summary.passed \in Nat /\ summary.failed \in Nat /\ summary.compileFailed \in Nat
    BY <1>1 DEF Summary
  <2>3. p \in Nat /\ u \in Nat /\ f \in Nat /\ p + f + u = 1
    OBVIOUS
  <2>4. /\ summary'.passed = summary.passed + p /\ summary'.compileFailed = summary.compileFailed + u
        /\ summary'.failed = summary.failed + f /\ n \in Nat /\ m = n + 1
    BY <1>1, <1>2
  <2>5. PICK a \in Nat, b \in Nat, c \in Nat :
           a = summary.passed /\ b = summary.failed /\ c = summary.compileFailed
    BY <2>2
  <2> HIDE DEF p, u, f, n, m
  <2>6. a + b + c = n /\ n \in Nat
    BY <2>1, <2>4, <2>5
  <2>7. (a + p) + (b + f) + (c + u) = n + 1
    BY <2>3, <2>6
  <2>8. summary'.passed = a + p /\ summary'.failed = b + f /\ summary'.compileFailed = c + u /\ m = n + 1
    BY <2>4, <2>5
  <2> QED BY <2>7, <2>8
<1> QED BY <1>2, <1>3, <1>4, <1>5, <1>6, <1>7 DEF Sums

(***************************************************************************)
(* The steps.                                                              *)
(***************************************************************************)
\* A step that leaves the cases alone keeps the sums.
LEMMA SumsKept ==
  ASSUME Sums, UNCHANGED <<compile, cases, summary>>
  PROVE  Sums'
  BY DEF Sums, CountOf

LEMMA NextNotDuring ==
  /\ "next" \notin Before \cup During \cup After /\ "done" \notin Before \cup During \cup After
  /\ "staging" \in Before /\ "comparing" \in After /\ "adding" \in After
  /\ \A p \in During : p \notin Before \cup After
  /\ \A p \in After : p \notin Before \cup During
  BY DEF Before, During, After

LEMMA FailUncompiledStep == IInv /\ FailUncompiled => IInv'
<1> SUFFICES ASSUME IInv, FailUncompiled PROVE IInv'
  OBVIOUS
<1>1. /\ at = "next" /\ at' = at /\ Len(cases) < Len(plan) /\ compile # "ok"
      /\ UNCHANGED <<plan, compile, produced, run, result>>
  BY DEF FailUncompiled
<1>2. /\ cases' = Append(cases, [status |-> "compile_failed", match |-> "none"])
      /\ summary' = Counted(summary, "compile_failed", "none")
  BY DEF FailUncompiled
<1>3. "compile_failed" \in Statuses /\ "none" \in Matches
  BY DEF Statuses, Matches
<1>4. Typed /\ Located /\ Sums
  BY DEF IInv
<1>5. /\ cases' \in Seq(CaseResult) /\ Len(cases') = Len(cases) + 1 /\ Len(cases) \in Nat
  BY <1>2, <1>3, <1>4, CaseTyped
<1>6. Sums' /\ summary' \in Summary
  BY <1>1, <1>2, <1>3, <1>4, SumsStep
<1>7. Typed'
  BY <1>1, <1>4, <1>5, <1>6 DEF Typed
<1>8. Located'
  <2>1. Len(plan) \in Nat
    BY <1>4 DEF Typed
  <2>2. Len(cases') <= Len(plan')
    BY <1>1, <1>5, <2>1
  <2> QED BY <1>1, <2>2, NextNotDuring DEF Located
<1>9. Fresh' /\ Collected' /\ Judged'
  BY <1>1, NextNotDuring DEF Fresh, Collected, Judged
<1> QED BY <1>6, <1>7, <1>8, <1>9 DEF IInv

LEMMA BeginCaseStep == IInv /\ BeginCase => IInv'
<1> SUFFICES ASSUME IInv, BeginCase PROVE IInv'
  OBVIOUS
<1>1. /\ at' = "staging" /\ Len(cases) < Len(plan) /\ compile = "ok" /\ run' = NoRun
      /\ produced' = IF Current.file THEN "absent" ELSE produced
      /\ UNCHANGED <<plan, compile, result, cases, summary>>
  BY DEF BeginCase
<1>2. Typed'
  BY <1>1, NoRunTyped DEF IInv, Typed
<1>3. Located'
  BY <1>1, NoRunTyped, NextNotDuring DEF IInv, Located, During
<1>4. Fresh'
  BY <1>1, NoRunTyped DEF Fresh, Current
<1>5. Collected' /\ Judged'
  BY <1>1, NextNotDuring DEF Collected, Judged, After
<1> QED BY <1>1, <1>2, <1>3, <1>4, <1>5, SumsKept DEF IInv

LEMMA NotRunStep == IInv /\ (StageTestFiles \/ Preflight) => IInv'
<1> SUFFICES ASSUME IInv, StageTestFiles \/ Preflight PROVE IInv'
  OBVIOUS
<1>1. /\ result' \in Result
      /\ at' = "comparing" => ~result'.timedOut /\ ~result'.crash /\ ~result'.passed
      /\ at \in Before /\ at' \in {"preflight", "starting", "comparing"}
      /\ UNCHANGED <<plan, compile, produced, run, cases, summary>>
  BY NotRun DEF IInv
<1>2. Typed'
  BY <1>1 DEF IInv, Typed
<1>3. compile = "ok" /\ Len(cases) < Len(plan) /\ run.ending = "none" /\ ~run.expired
  BY <1>1 DEF IInv, Located
<1>4. Located'
  BY <1>1, <1>3 DEF IInv, Located, Before, During, After
<1>5. Fresh'
  BY <1>1 DEF IInv, Fresh, Current, Before, During, After
<1>6. Collected'
  BY <1>1, <1>3 DEF Collected, Crashed, After
<1>7. Judged'
  BY <1>1 DEF Judged
<1> QED BY <1>1, <1>2, <1>4, <1>5, <1>6, <1>7, SumsKept DEF IInv

LEMMA RunStep == IInv /\ Runs => IInv'
<1> SUFFICES ASSUME IInv, Runs PROVE IInv'
  OBVIOUS
<1>1. /\ run' \in Run /\ produced' \in Texts \cup {"absent"}
      /\ UNCHANGED <<plan, compile, result, cases, summary>>
  BY RunTyped DEF IInv
<1>2. Typed'
  BY <1>1 DEF IInv, Typed
<1>3. at \in During /\ at' \in During
  BY DEF Runs, StartProgram, WriteStdout, WriteFile, ProcessReports, ProgramEnds, Deadline, Kill, During
<1>4. /\ run \in Run /\ Located /\ Fresh /\ Sums
  BY DEF IInv, Typed
<1>5. Located'
  <2>1. /\ at' \in {"starting", "running"} => run'.ending = "none"
        /\ at' = "ended" => run'.ending \in {"unstarted", "exit", "fatal", "killed"}
    BY <1>4 DEF Located, Runs, StartProgram, WriteStdout, WriteFile, ProcessReports, ProgramEnds, Deadline,
       Kill, Run
  <2> QED BY <1>1, <1>3, <1>4, <2>1, NextNotDuring DEF Located
<1>6. Fresh'
  <2>1. CASE WriteFile
    <3>1. PICK t \in Texts : produced' = t /\ run' = [run EXCEPT !.wrote = t]
      BY <2>1 DEF WriteFile
    <3>2. run'.wrote = t /\ t # "nothing"
      BY <1>4, <3>1 DEF Run, Texts
    <3> QED BY <3>1, <3>2 DEF Fresh
  <2>2. CASE ~WriteFile
    <3>1. produced' = produced /\ run'.wrote = run.wrote
      BY <1>4, <2>2 DEF Runs, StartProgram, WriteStdout, ProcessReports, ProgramEnds, Deadline, Kill, Run
    <3> QED BY <1>1, <1>3, <1>4, <3>1 DEF Fresh, Current
  <2> QED BY <2>1, <2>2
<1>7. Collected' /\ Judged'
  BY <1>3, NextNotDuring DEF Collected, Judged
<1> QED BY <1>1, <1>2, <1>4, <1>5, <1>6, <1>7, SumsKept DEF IInv

LEMMA CollectStep == IInv /\ Collect => IInv'
<1> SUFFICES ASSUME IInv, Collect PROVE IInv'
  OBVIOUS
<1>1. /\ at = "ended" /\ at' = "comparing"
      /\ UNCHANGED <<plan, compile, produced, run, cases, summary>>
  BY DEF Collect
<1>2. /\ result' \in Result
      /\ result'.timedOut <=> run.expired
      /\ result'.crash <=> Crashed
      /\ result'.passed => run.ending = "exit" /\ ~run.expired /\ Vouched(run.log)
  BY CollectIs DEF IInv
<1>3. Typed' /\ Located'
  BY <1>1, <1>2 DEF IInv, Typed, Located, Before, During, After
<1>4. Fresh'
  BY <1>1 DEF IInv, Fresh, Current, Before, During, After
<1>5. Collected'
  BY <1>1, <1>2 DEF Collected, Crashed
<1>6. Judged'
  BY <1>1 DEF Judged
<1> QED BY <1>1, <1>3, <1>4, <1>5, <1>6, SumsKept DEF IInv

LEMMA CompareStep == IInv /\ Compare => IInv'
<1> SUFFICES ASSUME IInv, Compare PROVE IInv'
  OBVIOUS
<1> DEFINE m == OutputMatch(Current, produced, run.stdout)
<1>1. /\ at = "comparing" /\ at' = "adding" /\ result' = [result EXCEPT !.match = m]
      /\ UNCHANGED <<plan, compile, produced, run, cases, summary>>
  BY DEF Compare
<1>2. Typed /\ Located /\ Collected /\ result \in Result /\ run.stdout \in Texts
      /\ produced \in Texts \cup {"absent"}
  BY DEF IInv, Typed, Run
<1>3. Len(cases) < Len(plan) /\ compile = "ok"
  BY <1>1, <1>2, NextNotDuring DEF Located
<1>4. m \in Matches
  BY <1>2, <1>3, CurrentTyped, MatchIs
<1>5. m' = m
  BY <1>1 DEF Current
<1> HIDE DEF m
<1>6. /\ result' \in Result /\ result'.match = m /\ result'.timedOut = result.timedOut
      /\ result'.crash = result.crash /\ result'.passed = result.passed
  BY <1>1, <1>2, <1>4 DEF Result
<1>7. Typed' /\ Located'
  BY <1>1, <1>2, <1>3, <1>6 DEF Typed, Located, Before, During, After
<1>8. Fresh'
  BY <1>1 DEF IInv, Fresh, Current, Before, During, After
<1>9. Collected'
  <2>1. result'.match = OutputMatch(Current', produced', run'.stdout)
    BY <1>5, <1>6 DEF m
  <2>2. Crashed' = Crashed
    BY <1>1 DEF Crashed
  <2> QED BY <1>1, <1>2, <1>6, <2>1, <2>2, NextNotDuring DEF Collected
<1>10. Judged'
  BY <1>1 DEF Judged
<1> QED BY <1>1, <1>2, <1>7, <1>8, <1>9, <1>10, SumsKept DEF IInv

LEMMA AddCaseStep == IInv /\ AddCase => IInv'
<1> SUFFICES ASSUME IInv, AddCase PROVE IInv'
  OBVIOUS
<1> DEFINE status == TestCaseStatus(result)
<1>1. /\ at = "adding" /\ at' = "next"
      /\ UNCHANGED <<plan, compile, produced, run, result>>
  BY DEF AddCase
<1>2. /\ cases' = Append(cases, [status |-> status, match |-> result.match])
      /\ summary' = Counted(summary, status, result.match)
  BY DEF AddCase
<1>3. Typed /\ Located /\ Collected /\ Sums /\ result.match \in Matches
  BY DEF IInv, Typed, Result
<1>4. /\ status \in {"pass", "fail", "crashed", "timeout"}
      /\ status = "timeout" => result.timedOut
      /\ status = "crashed" => ~result.timedOut /\ result.crash
      /\ status \in {"pass", "fail"} => ~result.timedOut /\ ~result.crash
      /\ status = "pass" => result.passed /\ result.match # "fail"
  BY StatusIs
<1> HIDE DEF status
<1>5. status \in Statuses /\ status # "compile_failed"
  BY <1>4 DEF Statuses
<1>6. Len(cases) < Len(plan) /\ compile = "ok"
  BY <1>1, <1>3, NextNotDuring DEF Located
<1>7. /\ cases' \in Seq(CaseResult) /\ Len(cases') = Len(cases) + 1 /\ Len(cases) \in Nat
      /\ cases'[Len(cases')].status = status
  BY <1>2, <1>3, <1>5, CaseTyped
<1>8. Sums' /\ summary' \in Summary
  BY <1>1, <1>2, <1>3, <1>5, <1>6, SumsStep
<1>9. Typed'
  BY <1>1, <1>3, <1>7, <1>8 DEF Typed
<1>10. Located'
  <2>1. Len(plan) \in Nat
    BY <1>3 DEF Typed
  <2>2. Len(cases') <= Len(plan')
    BY <1>1, <1>6, <1>7, <2>1
  <2> QED BY <1>1, <2>2, NextNotDuring DEF Located
<1>11. Fresh' /\ Collected'
  BY <1>1, NextNotDuring DEF Fresh, Collected
<1>12. Judged'
  <2>1. /\ result.timedOut <=> run.expired
        /\ result.crash <=> Crashed
        /\ result.passed => run.ending = "exit" /\ ~run.expired /\ Vouched(run.log)
        /\ result.match = OutputMatch(Current, produced, run.stdout)
    BY <1>1, <1>3, NextNotDuring DEF Collected
  <2>2. /\ status = "timeout" => run.expired
        /\ status = "crashed" => ~run.expired /\ run.ending \in {"fatal", "killed"}
        /\ status \notin {"timeout", "crashed"} => ~(run.expired \/ run.ending \in {"fatal", "killed"})
    BY <1>4, <2>1 DEF Crashed
  <2>3. Latest' = Current
    BY <1>1, <1>7 DEF Latest, Current
  <2>4. ASSUME status = "pass", Current.ref = "present"
        PROVE  IF Current.file THEN produced # "other" ELSE run.stdout = "expected"
    <3>1. Current \in Case /\ produced \in Texts \cup {"absent"} /\ run.stdout \in Texts
      BY <1>3, <1>6, CurrentTyped DEF Typed, Run
    <3> QED BY <1>4, <2>1, <2>4, <3>1, MatchIs
  <2>5. PassIsEarned'
    BY <1>1, <1>4, <1>7, <2>1, <2>3, <2>4 DEF PassIsEarned, JustPassed
  <2> QED BY <1>1, <1>7, <2>2, <2>5 DEF Judged
<1> QED BY <1>8, <1>9, <1>10, <1>11, <1>12 DEF IInv

LEMMA ReturnStep == IInv /\ Return => IInv'
<1> SUFFICES ASSUME IInv, Return PROVE IInv'
  OBVIOUS
<1>1. /\ at' = "done" /\ Len(cases) = Len(plan)
      /\ UNCHANGED <<plan, compile, produced, run, result, cases, summary>>
  BY DEF Return
<1>2. Typed' /\ Located'
  BY <1>1, NextNotDuring DEF IInv, Typed, Located
<1>3. Fresh' /\ Collected' /\ Judged'
  BY <1>1, NextNotDuring DEF Fresh, Collected, Judged
<1> QED BY <1>1, <1>2, <1>3, SumsKept DEF IInv

LEMMA InvNext == IInv /\ [Next]_vars => IInv'
<1> SUFFICES ASSUME IInv, [Next]_vars PROVE IInv'
  OBVIOUS
<1>1. CASE UNCHANGED vars
  BY <1>1 DEF IInv, Typed, Located, Fresh, Collected, Judged, Sums, CountOf, Current, Latest, Crashed,
              PassIsEarned, JustPassed, vars
<1>2. CASE Next
  BY <1>2, FailUncompiledStep, BeginCaseStep, NotRunStep, RunStep, CollectStep, CompareStep, AddCaseStep,
     ReturnStep DEF Next, ExecutorStep, ProgramStep, Runs
<1> QED BY <1>1, <1>2

LEMMA Invariant == Spec => []IInv
  BY InvInit, InvNext, PTL DEF Spec

LEMMA PassHolds == IInv => PassIsEarned
  BY DEF IInv, Judged, PassIsEarned, JustPassed

LEMMA FreshHolds == IInv => FreshFileOnly
<1> SUFFICES ASSUME IInv, at = "adding", Current.file, result.match \in {"pass", "fail"}
             PROVE  run.wrote # "nothing" /\ result.match = Match(run.wrote)
  BY DEF FreshFileOnly
<1>1. Typed /\ Located /\ Fresh /\ Collected
  BY DEF IInv
<1>2. Current \in Case /\ produced \in Texts \cup {"absent"} /\ run.stdout \in Texts
  BY <1>1, CurrentTyped, NextNotDuring DEF Typed, Located, Run
<1>3. produced # "absent" /\ result.match = Match(produced)
  BY <1>1, <1>2, MatchIs, NextNotDuring DEF Collected
<1> QED BY <1>1, <1>3, NextNotDuring DEF Fresh

LEMMA BlameHolds == IInv => BlameIsRight
<1> SUFFICES ASSUME IInv PROVE BlameIsRight
  OBVIOUS
<1>1. at = "done" => summary.passed + summary.failed + summary.compileFailed = Len(plan)
  BY DEF IInv, Located, Sums
<1>2. SummaryAddsUp
  BY <1>1 DEF IInv, Sums, SummaryAddsUp
<1> QED BY <1>2 DEF IInv, Judged, BlameIsRight

(***************************************************************************)
(* The theorems.                                                           *)
(***************************************************************************)
\* A case that passes ran to its own end in time, its log says nothing against it in what
\* is read of it, the first ERROR SUMMARY and FILE DESCRIPTORS and the last LEAK SUMMARY,
\* and what was compared was what was expected (ExecuteTestCase).
THEOREM Earned == Spec => []PassIsEarned
  BY PassHolds, Invariant, PTL

\* A compared file is never one that an earlier case left in the directory.
THEOREM FromThisCase == Spec => []FreshFileOnly
  BY FreshHolds, Invariant, PTL

\* The summary counts every case once, and a case is blamed for what stopped it.
THEOREM Blamed == Spec => []BlameIsRight
  BY BlameHolds, Invariant, PTL
=============================================================================
