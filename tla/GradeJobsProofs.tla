-------------------------- MODULE GradeJobsProofs --------------------------
(***************************************************************************)
(* Proofs about GradeJobs for every set of runs and analyses, any number   *)
(* of callback retries, with or without the saved-AI refresh.              *)
(***************************************************************************)
EXTENDS GradeJobs, FiniteSetTheorems, TLAPS

(***************************************************************************)
(* The inductive invariant.  SlotExclusive is inductive beside TypeOK; the *)
(* other invariants need to know, for each run, how far its goroutine got. *)
(***************************************************************************)
\* A verdict is given exactly when the slot section is being left, and "ok" only
\* after the upload.
VerdictShape(r) ==
    /\ verdict[r] = "none" <=>
          pc[r] \in {"idle", "posting", "queued"} \cup (SlotPcs \ {"cleanup", "release"})
    /\ pc[r] = "cleanup" => verdict[r] = "err"
    /\ verdict[r] = "ok" \/ pc[r] = "prune" => r \in results

\* The directory is there between OpenRun and the end, or the deferred removal.
DirShape(r) ==
    /\ dir[r] = "partial" =>
          pc[r] \in SlotPcs \ {"opening", "analyze", "upload", "prune", "release"}
    /\ dir[r] = "saved" =>
          verdict[r] = "ok" \/ pc[r] \in {"analyze", "upload", "prune", "cleanup"}

\* The entry, while there is one, tells where the job stands; it cannot be swept
\* while the callback is being sent.
EntryShape(r) ==
    /\ Known(r) =>
          /\ progress[r].state = "running" <=> pc[r] \in {"queued", "settle"} \cup SlotPcs
          /\ progress[r].state = "done" => verdict[r] = "ok"
          /\ progress[r].state = "failed" => verdict[r] = "err"
    /\ pc[r] = "notify" => Settled(r) /\ ~progress[r].stale
    /\ progress[r].state = "running" => progress[r].detail = "none"

\* The job releases its own context last of all.
CtxShape(r) == ctx[r] = "over" => pc[r] \in {"end", "gone"}

Shape(r) == VerdictShape(r) /\ DirShape(r) /\ EntryShape(r) /\ CtxShape(r)

IInv == TypeOK /\ SlotExclusive /\ \A r \in Runs : Shape(r)

(***************************************************************************)
(* Type correctness.                                                       *)
(***************************************************************************)
LEMMA TypeInit == Init => TypeOK
  BY GradeJobsAssumption DEF Init, TypeOK, Entry, NoEntry

\* progressTracker's writes keep every entry well formed.
LEMMA ReportTyped ==
  ASSUME progress \in [Runs -> Entry], NEW r \in Runs, SetProgress(r)
  PROVE  progress' \in [Runs -> Entry]
<1>1. \A q \in Runs : Fresh(q) \in Entry
  BY DEF Fresh, NoEntry, Entry
<1>2. [state |-> "running", detail |-> "none", stale |-> FALSE] \in Entry
  BY DEF Entry
<1> QED BY <1>1, <1>2 DEF SetProgress

LEMMA SandboxTyped ==
  ASSUME progress \in [Runs -> Entry], SandboxReport
  PROVE  progress' \in [Runs -> Entry]
<1>1. \A q \in Runs : Fresh(q) \in Entry
  BY DEF Fresh, NoEntry, Entry
<1> QED BY <1>1 DEF SandboxReport

LEMMA FinishTyped ==
  ASSUME progress \in [Runs -> Entry], NEW r \in Runs, NEW ok \in BOOLEAN,
         NEW why \in {"cancelled", "error"}, Finish(r, ok, why)
  PROVE  progress' \in [Runs -> Entry]
<1>1. progress[r] \in Entry
  OBVIOUS
<1>2. [progress[r] EXCEPT !.state = "done", !.stale = FALSE] \in Entry
  BY <1>1 DEF Entry
<1>3. [progress[r] EXCEPT !.state = "failed", !.detail = why, !.stale = FALSE] \in Entry
  BY <1>1 DEF Entry
<1> QED BY <1>2, <1>3 DEF Finish

LEMMA AgeTyped ==
  ASSUME progress \in [Runs -> Entry], NEW r \in Runs, AgeEntry(r)
  PROVE  progress' \in [Runs -> Entry]
<1>1. [progress[r] EXCEPT !.stale = TRUE] \in Entry
  BY DEF Entry
<1>2. progress' = [progress EXCEPT ![r] = [progress[r] EXCEPT !.stale = TRUE]]
  BY DEF AgeEntry
<1> QED BY <1>1, <1>2

LEMMA TypeRunStep ==
  ASSUME TypeOK, NEW r \in Runs,
         OpenGrade(r) \/ RejectGrade(r) \/ GradeAsync(r) \/ CancelGrade(r)
         \/ Expire(r) \/ AgeEntry(r)
  PROVE  TypeOK'
<1> USE GradeJobsAssumption DEF TypeOK, jobVars, diskVars, Goto, At, JobPcs, SlotPcs
<1>1. CASE OpenGrade(r)
  BY <1>1 DEF OpenGrade
<1>2. CASE RejectGrade(r)
  BY <1>2 DEF RejectGrade
<1>3. CASE GradeAsync(r)
  BY <1>3, ReportTyped DEF GradeAsync
<1>4. CASE CancelGrade(r)
  <2>1. ctx' \in [Runs -> {"live", "deleted", "expired", "over"}]
    BY <1>4 DEF CancelGrade
  <2> QED BY <1>4, <2>1 DEF CancelGrade
<1>5. CASE Expire(r)
  <2>1. ctx' \in [Runs -> {"live", "deleted", "expired", "over"}]
    BY <1>5 DEF Expire
  <2> QED BY <1>5, <2>1 DEF Expire
<1>6. CASE AgeEntry(r)
  BY <1>6, AgeTyped DEF AgeEntry
<1> QED BY <1>1, <1>2, <1>3, <1>4, <1>5, <1>6

LEMMA TypeJobStep == ASSUME TypeOK, NEW r \in Runs, JobStep(r) PROVE TypeOK'
<1> USE GradeJobsAssumption DEF TypeOK, jobVars, diskVars, Goto, At, JobPcs, SlotPcs
<1>1. CASE AcquireSlot(r)
  BY <1>1 DEF AcquireSlot
<1>2. CASE LeaveQueue(r)
  BY <1>2 DEF LeaveQueue
<1>3. CASE OpenRun(r)
  BY <1>3, ReportTyped DEF OpenRun, Abort, Stored
<1>4. CASE FetchConfig(r)
  BY <1>4, ReportTyped DEF FetchConfig, Stage, Abort
<1>5. CASE Download(r)
  BY <1>5, ReportTyped DEF Download, Stage, Abort
<1>6. CASE Extract(r)
  BY <1>6 DEF Extract, Abort
<1>7. CASE Discover(r)
  BY <1>7, ReportTyped DEF Discover, Stage, Abort
<1>8. CASE Execute(r)
  BY <1>8, ReportTyped DEF Execute
<1>9. CASE Export(r)
  BY <1>9, ReportTyped DEF Export, Stage, Abort
<1>10. CASE SaveRunState(r)
  BY <1>10, ReportTyped DEF SaveRunState, Abort
<1>11. CASE Analyze(r)
  BY <1>11, ReportTyped DEF Analyze, Stage, Abort
<1>12. CASE UploadResult(r)
  BY <1>12 DEF UploadResult, Abort
<1>13. CASE PruneOldRuns(r)
  BY <1>13 DEF PruneOldRuns, PruneTo, Stored
<1>14. CASE CleanupRun(r)
  BY <1>14 DEF CleanupRun
<1>15. CASE ReleaseSlot(r)
  BY <1>15 DEF ReleaseSlot
<1>16. CASE SettleJob(r)
  <2> DEFINE why == IF ctx[r] \in {"deleted", "over"} THEN "cancelled" ELSE "error"
  <2>1. Finish(r, verdict[r] = "ok", why)
    BY <1>16 DEF SettleJob
  <2>2. why \in {"cancelled", "error"}
    OBVIOUS
  <2>3. (verdict[r] = "ok") \in BOOLEAN
    OBVIOUS
  <2>4. progress' \in [Runs -> Entry]
    <3> HIDE DEF why
    <3> QED BY <2>1, <2>2, <2>3, FinishTyped
  <2> QED BY <1>16, <2>4 DEF SettleJob
<1>17. CASE NotifySettled(r)
  BY <1>17 DEF NotifySettled
<1>18. CASE ForgetJob(r)
  BY <1>18 DEF ForgetJob
<1>19. CASE EndJob(r)
  BY <1>19 DEF EndJob
<1> QED
  BY <1>1, <1>2, <1>3, <1>4, <1>5, <1>6, <1>7, <1>8, <1>9, <1>10, <1>11, <1>12,
     <1>13, <1>14, <1>15, <1>16, <1>17, <1>18, <1>19 DEF JobStep

LEMMA TypeGuestStep ==
  ASSUME TypeOK, RefreshStep \/ \E a \in Analyses : OpenAnalysis(a) \/ AnalysisStep(a)
  PROVE  TypeOK'
<1> USE DEF TypeOK, jobVars, diskVars, otherVars, refreshRest, Seat, JobPcs, SlotPcs
<1>1. CASE RefreshStep
  BY <1>1 DEF RefreshStep, BeginPass, TakeObject, ReleaseObject, EndPass
<1>2. ASSUME NEW a \in Analyses, OpenAnalysis(a) \/ AnalysisStep(a)
      PROVE  TypeOK'
  <2>1. CASE OpenAnalysis(a)
    BY <2>1 DEF OpenAnalysis
  <2>2. CASE TrySlot(a)
    BY <2>2, SandboxTyped DEF TrySlot
  <2>3. CASE WaitSlot(a)
    BY <2>3, SandboxTyped DEF WaitSlot
  <2>4. CASE GiveUpSlot(a)
    BY <2>4 DEF GiveUpSlot
  <2>5. CASE FinishAnalysis(a)
    BY <2>5 DEF FinishAnalysis
  <2>6. CASE CloseAnalysis(a)
    BY <2>6 DEF CloseAnalysis
  <2> QED BY <1>2, <2>1, <2>2, <2>3, <2>4, <2>5, <2>6 DEF AnalysisStep
<1> QED BY <1>1, <1>2


(***************************************************************************)
(* Mutual exclusion.  A step leaves the section as it is, lets one user in *)
(* when it is empty, or lets its only user out.                            *)
(***************************************************************************)
\* No goroutine enters or leaves the section.
LEMMA SectionKept ==
  ASSUME SlotExclusive, UNCHANGED <<slot, refresh>>,
         \A q \in Runs : pc'[q] \in SlotPcs <=> pc[q] \in SlotPcs,
         \A b \in Analyses : analysis'[b] = "working" <=> analysis[b] = "working"
  PROVE  SlotExclusive'
<1>1. SlotRuns' = SlotRuns /\ SlotAnalyses' = SlotAnalyses
  BY DEF SlotRuns, SlotAnalyses
<1>2. Refreshing' <=> Refreshing
  BY DEF Refreshing
<1> QED BY <1>1, <1>2 DEF SlotExclusive

\* slot = 0 is what AcquireSlot, TrySlot, WaitSlot and TakeObject wait for.
LEMMA SectionEmpty ==
  ASSUME SlotExclusive, slot = 0
  PROVE  SlotRuns = {} /\ SlotAnalyses = {} /\ ~Refreshing
BY DEF SlotExclusive

LEMMA SlotRunStep ==
  ASSUME IInv, NEW r \in Runs,
         OpenGrade(r) \/ RejectGrade(r) \/ GradeAsync(r) \/ CancelGrade(r)
         \/ Expire(r) \/ AgeEntry(r)
  PROVE  SlotExclusive'
<1>1. UNCHANGED <<slot, refresh, analysis>>
  BY DEF OpenGrade, RejectGrade, GradeAsync, CancelGrade, Expire, AgeEntry
<1>2. \A q \in Runs : pc'[q] \in SlotPcs <=> pc[q] \in SlotPcs
  BY DEF IInv, TypeOK, OpenGrade, RejectGrade, GradeAsync, CancelGrade, Expire,
         AgeEntry, jobVars, At, Goto, SlotPcs
<1> QED BY <1>1, <1>2, SectionKept DEF IInv

LEMMA SlotJobStep == ASSUME IInv, NEW r \in Runs, JobStep(r) PROVE SlotExclusive'
<1>1. CASE AcquireSlot(r)
  <2>1. SlotRuns = {} /\ SlotAnalyses = {} /\ ~Refreshing
    BY <1>1, SectionEmpty DEF AcquireSlot, IInv
  <2>2. SlotRuns' = {r}
    BY <1>1, <2>1 DEF AcquireSlot, Goto, SlotRuns, SlotPcs, IInv, TypeOK
  <2>3. SlotAnalyses' = {} /\ ~Refreshing' /\ slot' = 1
    BY <1>1, <2>1 DEF AcquireSlot, SlotAnalyses, Refreshing
  <2> QED BY <2>2, <2>3 DEF SlotExclusive
<1>2. CASE ReleaseSlot(r)
  <2>1. r \in SlotRuns
    BY <1>2 DEF ReleaseSlot, At, SlotRuns, SlotPcs
  <2>2. SlotRuns = {r} /\ SlotAnalyses = {} /\ ~Refreshing /\ slot = 1
    BY <2>1 DEF IInv, SlotExclusive
  <2>3. SlotRuns' = {}
    BY <1>2, <2>2 DEF ReleaseSlot, Goto, SlotRuns, SlotPcs, IInv, TypeOK
  <2>4. SlotAnalyses' = {} /\ ~Refreshing' /\ slot' = 0
    BY <1>2, <2>2 DEF ReleaseSlot, SlotAnalyses, Refreshing
  <2> QED BY <2>3, <2>4 DEF SlotExclusive
<1>3. CASE LeaveQueue(r) \/ SettleJob(r) \/ NotifySettled(r) \/ ForgetJob(r) \/ EndJob(r)
  <2>1. UNCHANGED <<slot, refresh, analysis>>
    BY <1>3 DEF LeaveQueue, SettleJob, NotifySettled, ForgetJob, EndJob
  <2>2. \A q \in Runs : pc'[q] \in SlotPcs <=> pc[q] \in SlotPcs
    BY <1>3 DEF IInv, TypeOK, LeaveQueue, SettleJob, NotifySettled, ForgetJob, EndJob,
                At, Goto, SlotPcs
  <2> QED BY <2>1, <2>2, SectionKept DEF IInv
<1>4. CASE OpenRun(r) \/ FetchConfig(r) \/ Download(r) \/ Extract(r) \/ Discover(r)
           \/ Execute(r) \/ Export(r) \/ SaveRunState(r) \/ Analyze(r)
           \/ UploadResult(r) \/ PruneOldRuns(r) \/ CleanupRun(r)
  <2>1. UNCHANGED <<slot, refresh, analysis>>
    BY <1>4 DEF OpenRun, FetchConfig, Download, Extract, Discover, Execute, Export,
                SaveRunState, Analyze, UploadResult, PruneOldRuns, CleanupRun, Stage
  <2>2. \A q \in Runs : pc'[q] \in SlotPcs <=> pc[q] \in SlotPcs
    BY <1>4 DEF IInv, TypeOK, OpenRun, FetchConfig, Download, Extract, Discover,
                Execute, Export, SaveRunState, Analyze, UploadResult, PruneOldRuns,
                CleanupRun, Stage, Abort, At, Goto, SlotPcs
  <2> QED BY <2>1, <2>2, SectionKept DEF IInv
<1> QED BY <1>1, <1>2, <1>3, <1>4 DEF JobStep

LEMMA SlotGuestStep ==
  ASSUME IInv, RefreshStep \/ \E a \in Analyses : OpenAnalysis(a) \/ AnalysisStep(a)
  PROVE  SlotExclusive'
<1> USE DEF otherVars, refreshRest, jobVars
<1>1. CASE BeginPass \/ EndPass
  <2>1. SlotRuns' = SlotRuns /\ SlotAnalyses' = SlotAnalyses /\ slot' = slot
    BY <1>1 DEF BeginPass, EndPass, SlotRuns, SlotAnalyses
  <2>2. ~Refreshing' /\ ~Refreshing
    BY <1>1 DEF BeginPass, EndPass, Refreshing
  <2> QED BY <2>1, <2>2 DEF SlotExclusive, IInv
<1>2. CASE TakeObject
  <2>1. SlotRuns = {} /\ SlotAnalyses = {}
    BY <1>2, SectionEmpty DEF TakeObject, IInv
  <2>2. SlotRuns' = {} /\ SlotAnalyses' = {} /\ Refreshing' /\ slot' = 1
    BY <1>2, <2>1 DEF TakeObject, SlotRuns, SlotAnalyses, Refreshing
  <2> QED BY <2>2 DEF SlotExclusive
<1>3. CASE ReleaseObject
  <2>1. SlotRuns = {} /\ SlotAnalyses = {} /\ slot = 1
    BY <1>3 DEF ReleaseObject, IInv, SlotExclusive, Refreshing
  <2>2. SlotRuns' = {} /\ SlotAnalyses' = {} /\ ~Refreshing' /\ slot' = 0
    BY <1>3, <2>1 DEF ReleaseObject, SlotRuns, SlotAnalyses, Refreshing
  <2> QED BY <2>2 DEF SlotExclusive
<1>4. ASSUME NEW a \in Analyses, OpenAnalysis(a) \/ AnalysisStep(a)
      PROVE  SlotExclusive'
  <2>1. UNCHANGED <<pc, refresh>>
    BY <1>4 DEF OpenAnalysis, AnalysisStep, TrySlot, WaitSlot, GiveUpSlot,
                FinishAnalysis, CloseAnalysis
  <2>2. SlotRuns' = SlotRuns /\ Refreshing' = Refreshing
    BY <2>1 DEF SlotRuns, Refreshing
  <2>3. CASE slot = 0 /\ (TrySlot(a) \/ WaitSlot(a))
    <3>1. SlotRuns = {} /\ SlotAnalyses = {} /\ ~Refreshing
      BY <2>3, SectionEmpty DEF IInv
    <3>2. SlotAnalyses' = {a} /\ slot' = 1
      BY <2>3, <3>1 DEF TrySlot, WaitSlot, Seat, SlotAnalyses, IInv, TypeOK
    <3> QED BY <2>2, <3>1, <3>2 DEF SlotExclusive
  <2>4. CASE FinishAnalysis(a)
    <3>1. SlotRuns = {} /\ SlotAnalyses = {a} /\ ~Refreshing /\ slot = 1
      BY <2>4 DEF FinishAnalysis, IInv, SlotExclusive, SlotAnalyses
    <3>2. SlotAnalyses' = {} /\ slot' = 0
      BY <2>4, <3>1 DEF FinishAnalysis, Seat, SlotAnalyses, IInv, TypeOK
    <3> QED BY <2>2, <3>1, <3>2 DEF SlotExclusive
  <2>5. CASE OpenAnalysis(a) \/ (slot # 0 /\ TrySlot(a)) \/ GiveUpSlot(a) \/ CloseAnalysis(a)
    <3>1. slot' = slot
      BY <2>5 DEF OpenAnalysis, TrySlot, GiveUpSlot, CloseAnalysis
    <3>2. \A b \in Analyses : analysis'[b] = "working" <=> analysis[b] = "working"
      BY <2>5 DEF OpenAnalysis, TrySlot, GiveUpSlot, CloseAnalysis, Seat, IInv, TypeOK
    <3> QED BY <2>1, <3>1, <3>2, SectionKept DEF IInv
  <2> QED BY <1>4, <2>3, <2>4, <2>5 DEF AnalysisStep, WaitSlot
<1> QED BY <1>1, <1>2, <1>3, <1>4 DEF RefreshStep

(***************************************************************************)
(* What each run's own state says of the others.                           *)
(***************************************************************************)
\* A report writes its own entry and at most sweeps entries past the TTL.
LEMMA ReportEffect ==
  ASSUME NEW r \in Runs, SetProgress(r)
  PROVE  /\ progress'[r] = [state |-> "running", detail |-> "none", stale |-> FALSE]
         /\ \A q \in Runs \ {r} : \/ progress'[q] = progress[q]
                                  \/ progress[q].stale /\ progress'[q] = NoEntry
BY DEF SetProgress, Fresh

\* A sweep mark touches one entry and only its mark.
LEMMA AgeEffect ==
  ASSUME NEW r \in Runs, NEW q \in Runs, AgeEntry(q), progress \in [Runs -> Entry]
  PROVE  progress'[r] \in {progress[r], [progress[r] EXCEPT !.stale = TRUE]}
<1>1. progress' = [progress EXCEPT ![q] = [progress[q] EXCEPT !.stale = TRUE]]
  BY DEF AgeEntry
<1>2. CASE r = q
  BY <1>1, <1>2
<1>3. CASE r # q
  BY <1>1, <1>3
<1> QED BY <1>2, <1>3

\* A sandbox report only sweeps entries past the TTL.
LEMMA SweepEffect ==
  ASSUME SandboxReport
  PROVE  \A q \in Runs : \/ progress'[q] = progress[q]
                         \/ progress[q].stale /\ progress'[q] = NoEntry
BY DEF SandboxReport, Fresh

LEMMA FinishEffect ==
  ASSUME progress \in [Runs -> Entry], NEW r \in Runs, NEW ok, NEW why, Finish(r, ok, why)
  PROVE  /\ progress'[r].state = IF ok THEN "done" ELSE "failed"
         /\ ~progress'[r].stale
         /\ \A q \in Runs \ {r} : progress'[q] = progress[q]
<1>1. progress[r] \in Entry
  OBVIOUS
<1>2. progress'[r] = IF ok THEN [progress[r] EXCEPT !.state = "done", !.stale = FALSE]
                     ELSE [progress[r] EXCEPT !.state = "failed", !.detail = why,
                                              !.stale = FALSE]
  BY DEF Finish
<1>3. ~progress'[r].stale /\ progress'[r].state = IF ok THEN "done" ELSE "failed"
  BY <1>1, <1>2 DEF Entry
<1> QED BY <1>3 DEF Finish

\* An entry that is left alone or swept keeps its shape while its run stands still.
LEMMA EntryKept ==
  ASSUME NEW q \in Runs, EntryShape(q), pc'[q] = pc[q], verdict'[q] = verdict[q],
         \/ progress'[q] = progress[q]
         \/ progress[q].stale /\ progress'[q] = NoEntry
  PROVE  EntryShape(q)'
BY DEF EntryShape, Known, Settled, NoEntry

\* A job's own report keeps the shape of every entry.
LEMMA EntryReported ==
  ASSUME IInv, NEW r \in Runs, SetProgress(r), pc'[r] \in {"queued"} \cup SlotPcs,
         \A q \in Runs \ {r} : pc'[q] = pc[q] /\ verdict'[q] = verdict[q]
  PROVE  \A q \in Runs : EntryShape(q)'
<1>1. EntryShape(r)'
  BY ReportEffect DEF EntryShape, Known, Settled, SlotPcs
<1>2. ASSUME NEW q \in Runs \ {r} PROVE EntryShape(q)'
  BY ReportEffect, EntryKept DEF IInv, Shape
<1> QED BY <1>1, <1>2

\* So does a step that reports nothing and moves no entry to another phase.
LEMMA EntryUnreported ==
  ASSUME IInv, NEW r \in Runs, UNCHANGED progress,
         \A q \in Runs \ {r} : pc'[q] = pc[q] /\ verdict'[q] = verdict[q],
         \/ pc'[r] = pc[r] /\ verdict'[r] = verdict[r]
         \/ pc[r] \in {"queued"} \cup SlotPcs /\ pc'[r] \in {"settle"} \cup SlotPcs
         \/ /\ pc[r] \in {"notify", "forget", "end", "idle", "posting"}
            /\ pc'[r] \in {"forget", "end", "gone", "idle", "posting"}
            /\ verdict'[r] = verdict[r]
  PROVE  \A q \in Runs : EntryShape(q)'
<1>1. EntryShape(r)'
  BY DEF EntryShape, Known, Settled, SlotPcs, IInv, Shape
<1>2. ASSUME NEW q \in Runs \ {r} PROVE EntryShape(q)'
  BY EntryKept DEF IInv, Shape
<1> QED BY <1>1, <1>2

LEMMA ShapeRunStep ==
  ASSUME IInv, NEW r \in Runs,
         OpenGrade(r) \/ RejectGrade(r) \/ GradeAsync(r) \/ CancelGrade(r)
         \/ Expire(r) \/ AgeEntry(r)
  PROVE  \A q \in Runs : Shape(q)'
<1> USE DEF jobVars, diskVars, Goto, At
<1>1. \A q \in Runs : pc'[q] = pc[q] \/ (pc[q] \in {"idle", "posting"}
                                          /\ pc'[q] \in {"idle", "posting", "queued"})
  BY DEF IInv, TypeOK, OpenGrade, RejectGrade, GradeAsync, CancelGrade, Expire, AgeEntry
<1>2. UNCHANGED <<verdict, dir, results>>
  BY DEF OpenGrade, RejectGrade, GradeAsync, CancelGrade, Expire, AgeEntry
<1>3. \A q \in Runs : VerdictShape(q)' /\ DirShape(q)'
  BY <1>1, <1>2 DEF IInv, Shape, VerdictShape, DirShape, SlotPcs
<1>4. \A q \in Runs : EntryShape(q)'
  <2>1. CASE GradeAsync(r)
    BY <2>1, EntryReported DEF GradeAsync, IInv, TypeOK
  <2>2. CASE AgeEntry(r)
    <3>1. \A q \in Runs : pc'[q] = pc[q] /\ verdict'[q] = verdict[q]
      BY <2>2 DEF AgeEntry
    <3>2. \A q \in Runs \ {r} : progress'[q] = progress[q]
      BY <2>2 DEF AgeEntry, IInv, TypeOK
    <3>3. /\ progress'[r].state = progress[r].state
          /\ progress'[r].detail = progress[r].detail
      BY <2>2 DEF AgeEntry, IInv, TypeOK, Entry
    <3>4. EntryShape(r)'
      BY <2>2, <3>1, <3>3 DEF AgeEntry, EntryShape, Known, Settled, IInv, Shape
    <3> QED BY <3>1, <3>2, <3>4, EntryKept DEF IInv, Shape
  <2>3. CASE OpenGrade(r) \/ RejectGrade(r) \/ CancelGrade(r) \/ Expire(r)
    BY <2>3, EntryUnreported DEF OpenGrade, RejectGrade, CancelGrade, Expire, IInv, TypeOK
  <2> QED BY <2>1, <2>2, <2>3
<1>5. \A q \in Runs : ctx'[q] = ctx[q] \/ ctx'[q] \in {"deleted", "expired"}
  BY DEF IInv, TypeOK, OpenGrade, RejectGrade, GradeAsync, CancelGrade, Expire, AgeEntry
<1>6. \A q \in Runs : CtxShape(q)'
  BY <1>1, <1>5 DEF IInv, Shape, CtxShape
<1> QED BY <1>3, <1>4, <1>6 DEF Shape

LEMMA ShapeGuestStep ==
  ASSUME IInv, RefreshStep \/ \E a \in Analyses : OpenAnalysis(a) \/ AnalysisStep(a)
  PROVE  \A q \in Runs : Shape(q)'
<1> USE DEF jobVars, diskVars, otherVars, refreshRest
<1>1. UNCHANGED <<pc, verdict, ctx, dir, results>>
  BY DEF RefreshStep, BeginPass, TakeObject, ReleaseObject, EndPass, AnalysisStep,
         OpenAnalysis, TrySlot, WaitSlot, GiveUpSlot, FinishAnalysis, CloseAnalysis
<1>2. UNCHANGED progress \/ SandboxReport
  BY DEF RefreshStep, BeginPass, TakeObject, ReleaseObject, EndPass, AnalysisStep,
         OpenAnalysis, TrySlot, WaitSlot, GiveUpSlot, FinishAnalysis, CloseAnalysis
<1>3. \A q \in Runs : EntryShape(q)'
  BY <1>1, <1>2, SweepEffect, EntryKept DEF IInv, Shape
<1> QED BY <1>1, <1>3 DEF IInv, Shape, VerdictShape, DirShape, CtxShape

\* How a job's step may move its run's goroutine, verdict and directory.
LEMMA ShapeJobStep ==
  ASSUME IInv, NEW r \in Runs, JobStep(r)
  PROVE  \A q \in Runs : Shape(q)'
<1> USE DEF diskVars, Goto, At
<1>1. \A q \in Runs \ {r} : pc'[q] = pc[q] /\ verdict'[q] = verdict[q]
  BY DEF IInv, TypeOK, JobStep, AcquireSlot, LeaveQueue, OpenRun, FetchConfig, Download,
         Extract, Discover, Execute, Export, SaveRunState, Analyze, UploadResult,
         PruneOldRuns, CleanupRun, ReleaseSlot, SettleJob, NotifySettled, ForgetJob,
         EndJob, Stage, Abort
<1>2. /\ results \subseteq results'
      /\ \A q \in Runs \ {r} : dir'[q] \in {dir[q], "none"}
  BY DEF IInv, TypeOK, JobStep, AcquireSlot, LeaveQueue, OpenRun, FetchConfig, Download,
         Extract, Discover, Execute, Export, SaveRunState, Analyze, UploadResult,
         PruneOldRuns, PruneTo, CleanupRun, ReleaseSlot, SettleJob, NotifySettled,
         ForgetJob, EndJob, Stage
<1>3. \A q \in Runs \ {r} : VerdictShape(q)' /\ DirShape(q)'
  BY <1>1, <1>2 DEF IInv, Shape, VerdictShape, DirShape
<1>4. VerdictShape(r)' /\ DirShape(r)'
  <2> USE DEF IInv, TypeOK, Shape, VerdictShape, DirShape, SlotPcs
  <2>1. CASE AcquireSlot(r) \/ LeaveQueue(r) \/ SettleJob(r) \/ NotifySettled(r)
             \/ ForgetJob(r) \/ EndJob(r)
    BY <2>1 DEF AcquireSlot, LeaveQueue, SettleJob, NotifySettled, ForgetJob, EndJob
  <2>2. CASE OpenRun(r)
    BY <2>2 DEF OpenRun, Abort
  <2>3. CASE FetchConfig(r) \/ Download(r) \/ Discover(r) \/ Export(r) \/ Analyze(r)
    BY <2>3 DEF FetchConfig, Download, Discover, Export, Analyze, Stage, Abort
  <2>4. CASE Extract(r) \/ Execute(r) \/ SaveRunState(r)
    BY <2>4 DEF Extract, Execute, SaveRunState, Abort
  <2>5. CASE UploadResult(r)
    BY <2>5 DEF UploadResult, Abort
  <2>6. CASE PruneOldRuns(r)
    BY <2>6 DEF PruneOldRuns, PruneTo, Stored
  <2>7. CASE CleanupRun(r) \/ ReleaseSlot(r)
    BY <2>7 DEF CleanupRun, ReleaseSlot
  <2> QED BY <2>1, <2>2, <2>3, <2>4, <2>5, <2>6, <2>7 DEF JobStep
<1>5. \A q \in Runs : EntryShape(q)'
  <2> USE DEF IInv, TypeOK
  <2>1. CASE OpenRun(r) \/ FetchConfig(r) \/ Download(r) \/ Extract(r) \/ Discover(r)
             \/ Execute(r) \/ Export(r) \/ SaveRunState(r) \/ Analyze(r)
             \/ UploadResult(r) \/ PruneOldRuns(r) \/ CleanupRun(r)
    <3>1. pc[r] \in SlotPcs /\ pc'[r] \in SlotPcs
      BY <2>1 DEF OpenRun, FetchConfig, Download, Extract, Discover, Execute, Export,
                  SaveRunState, Analyze, UploadResult, PruneOldRuns, CleanupRun, Stage,
                  Abort, SlotPcs
    <3>2. SetProgress(r) \/ UNCHANGED progress
      BY <2>1 DEF OpenRun, FetchConfig, Download, Extract, Discover, Execute, Export,
                  SaveRunState, Analyze, UploadResult, PruneOldRuns, CleanupRun, Stage
    <3> QED BY <1>1, <3>1, <3>2, EntryReported, EntryUnreported
  <2>2. CASE AcquireSlot(r) \/ LeaveQueue(r) \/ ReleaseSlot(r)
    <3>1. /\ pc[r] \in {"queued"} \cup SlotPcs
          /\ pc'[r] \in {"settle"} \cup SlotPcs
          /\ UNCHANGED progress
      BY <2>2 DEF AcquireSlot, LeaveQueue, ReleaseSlot, SlotPcs
    <3> QED BY <1>1, <3>1, EntryUnreported
  <2>3. CASE NotifySettled(r) \/ ForgetJob(r) \/ EndJob(r)
    <3>1. /\ pc[r] \in {"notify", "forget", "end"}
          /\ pc'[r] = pc[r] \/ pc'[r] \in {"forget", "end", "gone"}
          /\ UNCHANGED <<progress, verdict>>
      BY <2>3 DEF NotifySettled, ForgetJob, EndJob
    <3> QED BY <1>1, <3>1, EntryUnreported
  <2>4. CASE SettleJob(r)
    <3>1. PICK why : Finish(r, verdict[r] = "ok", why)
      BY <2>4 DEF SettleJob
    <3>2. /\ progress'[r].state = IF verdict[r] = "ok" THEN "done" ELSE "failed"
          /\ ~progress'[r].stale
          /\ \A q \in Runs \ {r} : progress'[q] = progress[q]
      BY <3>1, FinishEffect
    <3>3. verdict'[r] = verdict[r] /\ verdict[r] \in {"ok", "err"} /\ pc'[r] = "notify"
      BY <2>4 DEF SettleJob, Shape, VerdictShape, SlotPcs
    <3>4. EntryShape(r)'
      BY <3>2, <3>3 DEF EntryShape, Known, Settled, SlotPcs
    <3>5. ASSUME NEW q \in Runs \ {r} PROVE EntryShape(q)'
      BY <1>1, <3>2, EntryKept DEF Shape
    <3> QED BY <3>4, <3>5
  <2> QED BY <2>1, <2>2, <2>3, <2>4 DEF JobStep
<1>6. \A q \in Runs : CtxShape(q)'
  <2>1. CASE ForgetJob(r)
    BY <2>1 DEF ForgetJob, IInv, TypeOK, Shape, CtxShape
  <2>2. CASE ~ForgetJob(r)
    <3>1. ctx' = ctx
      BY <2>2 DEF JobStep, AcquireSlot, LeaveQueue, OpenRun, FetchConfig, Download,
             Extract, Discover, Execute, Export, SaveRunState, Analyze, UploadResult,
             PruneOldRuns, CleanupRun, ReleaseSlot, SettleJob, NotifySettled, EndJob, Stage
    <3>2. pc[r] \notin {"end", "gone"} \/ pc'[r] = "gone"
      BY <2>2 DEF JobStep, AcquireSlot, LeaveQueue, OpenRun, FetchConfig, Download,
             Extract, Discover, Execute, Export, SaveRunState, Analyze, UploadResult,
             PruneOldRuns, CleanupRun, ReleaseSlot, SettleJob, NotifySettled, EndJob, Stage,
             IInv, TypeOK
    <3> QED BY <1>1, <3>1, <3>2 DEF IInv, Shape, CtxShape
  <2> QED BY <2>1, <2>2
<1> QED BY <1>3, <1>4, <1>5, <1>6 DEF Shape

(***************************************************************************)
(* The invariant and what follows from it.                                 *)
(***************************************************************************)
LEMMA IInvInit == Init => IInv
<1> SUFFICES ASSUME Init PROVE SlotExclusive /\ \A r \in Runs : Shape(r)
  BY TypeInit DEF IInv
<1>1. SlotRuns = {} /\ SlotAnalyses = {} /\ ~Refreshing /\ slot = 0
  BY DEF Init, SlotRuns, SlotAnalyses, Refreshing, SlotPcs
<1>2. \A r \in Runs : Shape(r)
  BY DEF Init, Shape, VerdictShape, DirShape, EntryShape, CtxShape, Known, Settled, NoEntry,
         SlotPcs
<1> QED BY <1>1, <1>2 DEF SlotExclusive

LEMMA IInvStep == IInv /\ [Next]_vars => IInv'
<1> SUFFICES ASSUME IInv, [Next]_vars PROVE IInv'
  OBVIOUS
<1>1. CASE UNCHANGED vars
  BY <1>1 DEF vars, IInv, TypeOK, SlotExclusive, SlotRuns, SlotAnalyses, Refreshing, Shape,
              VerdictShape, DirShape, EntryShape, CtxShape, Known, Settled
<1>2. ASSUME NEW r \in Runs,
             OpenGrade(r) \/ RejectGrade(r) \/ GradeAsync(r) \/ CancelGrade(r)
             \/ Expire(r) \/ AgeEntry(r)
      PROVE  IInv'
  BY <1>2, TypeRunStep, SlotRunStep, ShapeRunStep DEF IInv
<1>3. ASSUME NEW r \in Runs, JobStep(r) PROVE IInv'
  BY <1>3, TypeJobStep, SlotJobStep, ShapeJobStep DEF IInv
<1>4. CASE RefreshStep \/ \E a \in Analyses : OpenAnalysis(a) \/ AnalysisStep(a)
  BY <1>4, TypeGuestStep, SlotGuestStep, ShapeGuestStep DEF IInv
<1> QED BY <1>1, <1>2, <1>3, <1>4 DEF Next

LEMMA Invariance == Spec => []IInv
BY IInvInit, IInvStep, PTL DEF Spec

\* Type correctness of the grading service.
THEOREM TypeCorrect == Spec => []TypeOK
<1>1. IInv => TypeOK
  BY DEF IInv
<1> QED BY <1>1, Invariance, PTL

\* One user of the machine at a time, and the channel's token is with it.
THEOREM Exclusion == Spec => []SlotExclusive
<1>1. IInv => SlotExclusive
  BY DEF IInv
<1> QED BY <1>1, Invariance, PTL

\* Failed and cancelled runs leave no directory, whatever stage they ended in.
THEOREM NoOrphans == Spec => []NoOrphanDir
<1>1. IInv => NoOrphanDir
  BY DEF IInv, Shape, DirShape, NoOrphanDir, SlotPcs
<1> QED BY <1>1, Invariance, PTL

\* GET /progress never reports a run done before its result is in the bucket, nor
\* failed or done before it is over.
THEOREM Honesty == Spec => []OutcomeHonest
<1>1. IInv => OutcomeHonest
  BY DEF IInv, Shape, EntryShape, VerdictShape, OutcomeHonest
<1> QED BY <1>1, Invariance, PTL

(***************************************************************************)
(* Steps.                                                                  *)
(***************************************************************************)
\* The five ways an entry of the progress tracker changes.
LEMMA ProgressSteps ==
  ASSUME [Next]_vars
  PROVE  \/ UNCHANGED progress
         \/ SandboxReport
         \/ \E r \in Runs : SetProgress(r) /\ pc[r] \in {"posting"} \cup SlotPcs
         \/ \E r \in Runs : SettleJob(r)
         \/ \E r \in Runs : AgeEntry(r)
<1> USE DEF At
<1>1. CASE UNCHANGED vars
  BY <1>1 DEF vars
<1>2. ASSUME NEW r \in Runs,
             OpenGrade(r) \/ RejectGrade(r) \/ GradeAsync(r) \/ CancelGrade(r)
             \/ Expire(r) \/ AgeEntry(r)
      PROVE  \/ UNCHANGED progress
             \/ SetProgress(r) /\ pc[r] = "posting"
             \/ AgeEntry(r)
  BY <1>2 DEF OpenGrade, RejectGrade, GradeAsync, CancelGrade, Expire
<1>3. ASSUME NEW r \in Runs, JobStep(r)
      PROVE  UNCHANGED progress \/ (SetProgress(r) /\ pc[r] \in SlotPcs) \/ SettleJob(r)
  BY <1>3 DEF JobStep, AcquireSlot, LeaveQueue, OpenRun, FetchConfig, Download,
         Extract, Discover, Execute, Export, SaveRunState, Analyze, UploadResult,
         PruneOldRuns, CleanupRun, ReleaseSlot, NotifySettled, ForgetJob, EndJob, Stage,
         SlotPcs
<1>4. ASSUME RefreshStep \/ \E a \in Analyses : OpenAnalysis(a) \/ AnalysisStep(a)
      PROVE  UNCHANGED progress \/ SandboxReport
  BY <1>4 DEF RefreshStep, BeginPass, TakeObject, ReleaseObject, EndPass, AnalysisStep,
         OpenAnalysis, TrySlot, WaitSlot, GiveUpSlot, FinishAnalysis, CloseAnalysis,
         refreshRest, otherVars
<1> QED BY <1>1, <1>2, <1>3, <1>4 DEF Next

\* No report of any goroutine reaches a settled entry: the job's own reports are
\* over, and others' reports can only sweep it.
THEOREM Finality == Spec => SettledIsFinal
<1>1. ASSUME IInv, [Next]_vars, NEW r \in Runs, Settled(r)
      PROVE  \/ progress'[r] \in {progress[r], [progress[r] EXCEPT !.stale = TRUE]}
             \/ progress[r].stale /\ progress'[r] = NoEntry
  <2>1. pc[r] \in {"notify", "forget", "end", "gone"}
    BY <1>1 DEF IInv, TypeOK, Shape, EntryShape, VerdictShape, Known, Settled, JobPcs, SlotPcs
  <2>2. CASE \E q \in Runs : SetProgress(q) /\ pc[q] \in {"posting"} \cup SlotPcs
    <3>1. PICK q \in Runs : SetProgress(q) /\ pc[q] \in {"posting"} \cup SlotPcs
      BY <2>2
    <3>2. r # q
      BY <2>1, <3>1 DEF SlotPcs
    <3> QED BY <3>1, <3>2, ReportEffect
  <2>3. CASE \E q \in Runs : SettleJob(q)
    <3>1. PICK q \in Runs : SettleJob(q)
      BY <2>3
    <3>2. r # q
      BY <2>1, <3>1 DEF SettleJob, At
    <3> QED BY <3>1, <3>2 DEF SettleJob, Finish, IInv, TypeOK
  <2>4. CASE \E q \in Runs : AgeEntry(q)
    <3>0. PICK q \in Runs : AgeEntry(q)
      BY <2>4
    <3>1. progress'[r] \in {progress[r], [progress[r] EXCEPT !.stale = TRUE]}
      <4>1. progress \in [Runs -> Entry]
        BY <1>1 DEF IInv, TypeOK
      <4> QED BY <3>0, <4>1, AgeEffect
    <3> QED BY <3>1
  <2>5. CASE SandboxReport
    BY <2>5, SweepEffect
  <2>6. CASE UNCHANGED progress
    BY <2>6
  <2> QED BY <1>1, <2>2, <2>3, <2>4, <2>5, <2>6, ProgressSteps
<1>2. IInv /\ [Next]_vars =>
        [\A r \in Runs : Settled(r) =>
          \/ progress'[r] \in {progress[r], [progress[r] EXCEPT !.stale = TRUE]}
          \/ progress[r].stale /\ progress'[r] = NoEntry]_vars
  BY <1>1
<1> QED BY <1>2, Invariance, PTL DEF Spec, SettledIsFinal

\* "grading cancelled" means that a DELETE came before the run settled.
THEOREM CancelHonesty == Spec => CancelledByCaller
<1>1. ASSUME IInv, [Next]_vars, NEW r \in Runs,
             progress'[r].detail = "cancelled", progress[r].detail = "none"
      PROVE  ctx[r] = "deleted"
  <2>1. progress[r] \in Entry
    BY <1>1 DEF IInv, TypeOK
  <2>2. CASE \E q \in Runs : SetProgress(q) /\ pc[q] \in {"posting"} \cup SlotPcs
    BY <1>1, <2>2, ReportEffect DEF NoEntry
  <2>3. CASE \E q \in Runs : SettleJob(q)
    <3>1. PICK q \in Runs : SettleJob(q)
      BY <2>3
    <3>2. q = r
      <4>1. q # r => progress'[r] = progress[r]
        BY <1>1, <3>1 DEF SettleJob, Finish, IInv, TypeOK
      <4> QED BY <1>1, <4>1
    <3>3. ctx[r] # "over"
      BY <3>1, <3>2, <1>1 DEF SettleJob, At, IInv, Shape, CtxShape
    <3>4. ctx[r] = "deleted" \/ Finish(r, verdict[r] = "ok", "error")
      BY <3>1, <3>2, <3>3 DEF SettleJob
    <3>5. ASSUME Finish(r, verdict[r] = "ok", "error") PROVE FALSE
      <4>1. progress'[r] = IF verdict[r] = "ok"
                           THEN [progress[r] EXCEPT !.state = "done", !.stale = FALSE]
                           ELSE [progress[r] EXCEPT !.state = "failed", !.detail = "error",
                                                    !.stale = FALSE]
        BY <3>5, <1>1 DEF Finish, IInv, TypeOK
      <4> QED BY <1>1, <2>1, <4>1 DEF Entry
    <3> QED BY <3>4, <3>5
  <2>4. CASE \E q \in Runs : AgeEntry(q)
    <3>0. PICK q \in Runs : AgeEntry(q)
      BY <2>4
    <3>1. progress'[r] \in {progress[r], [progress[r] EXCEPT !.stale = TRUE]}
      <4>1. progress \in [Runs -> Entry]
        BY <1>1 DEF IInv, TypeOK
      <4> QED BY <3>0, <4>1, AgeEffect
    <3> QED BY <1>1, <2>1, <3>1 DEF Entry
  <2>5. CASE SandboxReport
    BY <1>1, <2>5, SweepEffect DEF NoEntry
  <2>6. CASE UNCHANGED progress
    BY <1>1, <2>6
  <2> QED BY <1>1, <2>2, <2>3, <2>4, <2>5, <2>6, ProgressSteps
<1>2. IInv /\ [Next]_vars =>
        [\A r \in Runs : progress'[r].detail = "cancelled" /\ progress[r].detail = "none" =>
            ctx[r] = "deleted"]_vars
  BY <1>1
<1> QED BY <1>2, Invariance, PTL DEF Spec, CancelledByCaller

\* A graded run keeps its directory until a run graded later has made it an older
\* one: the prune never takes the directory of the run that is calling it.
THEOREM JustGraded == Spec => JustGradedKept
<1>1. ASSUME IInv, [Next]_vars, NEW r \in Runs,
             verdict'[r] = "ok", dir[r] = "saved", dir'[r] # "saved"
      PROVE  \E q \in Runs : r \in older[q] /\ verdict'[q] = "ok" /\ dir'[q] = "saved"
  <2>1. PICK p \in Runs : OpenRun(p) \/ SaveRunState(p) \/ PruneOldRuns(p) \/ CleanupRun(p)
    BY <1>1 DEF Next, vars, jobVars, diskVars, otherVars, refreshRest, OpenGrade, RejectGrade,
         GradeAsync, CancelGrade, Expire, AgeEntry, JobStep, AcquireSlot, LeaveQueue,
         FetchConfig, Download, Extract, Discover, Execute, Export, Analyze,
         UploadResult, ReleaseSlot, SettleJob, NotifySettled, ForgetJob,
         EndJob, Stage, RefreshStep, BeginPass, TakeObject, ReleaseObject, EndPass,
         AnalysisStep, OpenAnalysis, TrySlot, WaitSlot, GiveUpSlot, FinishAnalysis,
         CloseAnalysis
  <2> USE <1>1 DEF IInv, TypeOK, At
  <2>2. CASE OpenRun(p)
    BY <2>2 DEF OpenRun, Abort, Shape, VerdictShape, DirShape, SlotPcs
  <2>3. CASE SaveRunState(p)
    BY <2>3 DEF SaveRunState
  <2>4. CASE CleanupRun(p)
    BY <2>4 DEF CleanupRun, Shape, VerdictShape
  <2>5. CASE PruneOldRuns(p)
    <3>1. PICK victims \in SUBSET Stored : PruneTo(victims)
      BY <2>5 DEF PruneOldRuns
    <3>2. PICK k \in Stored \ victims : TRUE
      BY <3>1 DEF PruneTo
    <3>3. r \in victims /\ dir'[k] = dir[k]
      BY <3>1, <3>2 DEF PruneTo, Stored
    <3>4. r \in older[k]
      BY <3>1, <3>2, <3>3 DEF PruneTo
    <3>5. pc[k] \in SlotPcs => k = p
      BY <2>5, <3>2 DEF PruneOldRuns, SlotExclusive, SlotRuns, SlotPcs, Stored
    <3>6. dir[k] = "saved"
      BY <2>5, <3>2, <3>5 DEF PruneOldRuns, Shape, DirShape, Stored, SlotPcs
    <3>7. verdict'[k] = "ok"
      BY <2>5, <3>2, <3>5, <3>6 DEF PruneOldRuns, Shape, DirShape, Stored, SlotPcs
    <3> QED BY <3>2, <3>3, <3>4, <3>6, <3>7 DEF Stored
  <2> QED BY <2>1, <2>2, <2>3, <2>4, <2>5
<1>2. IInv /\ [Next]_vars =>
        [\A r \in Runs : verdict'[r] = "ok" /\ dir[r] = "saved" /\ dir'[r] # "saved" =>
          \E q \in Runs : r \in older[q] /\ verdict'[q] = "ok" /\ dir'[q] = "saved"]_vars
  BY <1>1
<1> QED BY <1>2, Invariance, PTL DEF Spec, JustGradedKept

(***************************************************************************)
(* GradeJobs implements GradeQueue.                                        *)
(***************************************************************************)
statusBar == [r \in Runs |-> StatusOf(r)]
guestBar  == SlotAnalyses # {} \/ Refreshing

\* One run moves and the rest of the abstract state stands still.
LEMMA MoveBar ==
  ASSUME NEW r \in Runs, NEW from, NEW to, StatusOf(r) = from, StatusOf(r)' = to,
         \A q \in Runs \ {r} : pc'[q] = pc[q] /\ verdict'[q] = verdict[q]
  PROVE  Queue!Move(r, from, to)
<1>1. \A q \in Runs \ {r} : StatusOf(q)' = StatusOf(q)
  BY DEF StatusOf, At
<1>2. statusBar' = [statusBar EXCEPT ![r] = to]
  BY <1>1 DEF statusBar
<1> QED BY <1>2 DEF Queue!Move, statusBar

LEMMA StandBar ==
  ASSUME \A q \in Runs : StatusOf(q)' = StatusOf(q)
  PROVE  statusBar' = statusBar
BY DEF statusBar

LEMMA FreeBar == ASSUME SlotExclusive, slot = 0 PROVE Queue!Free
BY SectionEmpty DEF Queue!Free, SlotRuns, StatusOf, At

LEMMA BarRunStep ==
  ASSUME IInv, NEW r \in Runs,
         OpenGrade(r) \/ RejectGrade(r) \/ GradeAsync(r) \/ CancelGrade(r)
         \/ Expire(r) \/ AgeEntry(r)
  PROVE  [Queue!Next]_(Queue!vars)
<1> USE DEF jobVars, diskVars, Goto, At, IInv, TypeOK
<1>1. UNCHANGED <<analysis, refresh, results, verdict>>
  BY DEF OpenGrade, RejectGrade, GradeAsync, CancelGrade, Expire, AgeEntry
<1>2. UNCHANGED <<guestBar, results>>
  BY <1>1 DEF guestBar, SlotAnalyses, Refreshing
<1>3. CASE GradeAsync(r)
  <2>1. StatusOf(r) = "unknown" /\ StatusOf(r)' = "queued"
    BY <1>3 DEF GradeAsync, StatusOf
  <2>2. \A q \in Runs \ {r} : pc'[q] = pc[q] /\ verdict'[q] = verdict[q]
    BY <1>3 DEF GradeAsync
  <2>3. Queue!Submit(r)
    BY <1>2, <2>1, <2>2, MoveBar DEF Queue!Submit, guestBar
  <2> QED BY <2>3 DEF Queue!Next
<1>4. CASE OpenGrade(r) \/ RejectGrade(r) \/ CancelGrade(r) \/ Expire(r) \/ AgeEntry(r)
  <2>1. \A q \in Runs : StatusOf(q)' = StatusOf(q)
    BY <1>1, <1>4 DEF OpenGrade, RejectGrade, CancelGrade, Expire, AgeEntry, StatusOf,
                      SlotPcs
  <2> QED BY <1>2, <2>1, StandBar DEF Queue!vars, statusBar, guestBar
<1> QED BY <1>3, <1>4

LEMMA BarJobStep ==
  ASSUME IInv, NEW r \in Runs, JobStep(r)
  PROVE  [Queue!Next]_(Queue!vars)
<1> USE DEF diskVars, Goto, At, IInv, TypeOK
<1>1. \A q \in Runs \ {r} : pc'[q] = pc[q] /\ verdict'[q] = verdict[q]
  BY DEF JobStep, AcquireSlot, LeaveQueue, OpenRun, FetchConfig, Download,
         Extract, Discover, Execute, Export, SaveRunState, Analyze, UploadResult,
         PruneOldRuns, CleanupRun, ReleaseSlot, SettleJob, NotifySettled, ForgetJob,
         EndJob, Stage, Abort
<1>2. UNCHANGED guestBar
  BY DEF guestBar, SlotAnalyses, Refreshing, JobStep, AcquireSlot, LeaveQueue, OpenRun,
         FetchConfig, Download, Extract, Discover, Execute, Export, SaveRunState, Analyze,
         UploadResult, PruneOldRuns, CleanupRun, ReleaseSlot, SettleJob, NotifySettled,
         ForgetJob, EndJob, Stage
<1>3. CASE AcquireSlot(r)
  <2>1. StatusOf(r) = "queued" /\ StatusOf(r)' = "grading" /\ UNCHANGED results
    BY <1>3 DEF AcquireSlot, StatusOf, SlotPcs
  <2>2. Queue!Free
    BY <1>3, FreeBar DEF AcquireSlot
  <2>3. Queue!Begin(r)
    BY <1>1, <1>2, <2>1, <2>2, MoveBar DEF Queue!Begin, guestBar
  <2> QED BY <2>3 DEF Queue!Next
<1>4. CASE LeaveQueue(r)
  <2>1. StatusOf(r) = "queued" /\ StatusOf(r)' = "closing" /\ UNCHANGED results
    BY <1>4 DEF LeaveQueue, StatusOf, SlotPcs
  <2>2. Queue!Drop(r)
    BY <1>1, <1>2, <2>1, MoveBar DEF Queue!Drop, guestBar
  <2> QED BY <2>2 DEF Queue!Next
<1>5. CASE UploadResult(r)
  <2>1. StatusOf(r) = "grading" /\ StatusOf(r)' = "grading"
    BY <1>5 DEF UploadResult, Abort, StatusOf, SlotPcs
  <2>2. statusBar' = statusBar
    BY <1>1, <2>1, StandBar DEF StatusOf
  <2>3. results' = results \/ results' = results \cup {r}
    BY <1>5 DEF UploadResult
  <2>4. statusBar[r] = "grading"
    BY <2>1 DEF statusBar
  <2>5. CASE results' = results
    BY <1>2, <2>2, <2>5 DEF Queue!vars, statusBar, guestBar
  <2>6. CASE results' = results \cup {r}
    <3>1. Queue!Publish(r)
      BY <1>2, <2>2, <2>4, <2>6 DEF Queue!Publish, statusBar, guestBar
    <3> QED BY <3>1 DEF Queue!Next
  <2> QED BY <2>3, <2>5, <2>6
<1>6. CASE ReleaseSlot(r)
  <2>1. StatusOf(r) = "grading" /\ StatusOf(r)' = "closing" /\ UNCHANGED results
    BY <1>6 DEF ReleaseSlot, StatusOf, SlotPcs
  <2>2. Queue!Leave(r)
    BY <1>1, <1>2, <2>1, MoveBar DEF Queue!Leave, guestBar
  <2> QED BY <2>2 DEF Queue!Next
<1>7. CASE SettleJob(r)
  <2>1. StatusOf(r) = "closing" /\ UNCHANGED results
    BY <1>7 DEF SettleJob, StatusOf, SlotPcs
  <2>2. StatusOf(r)' = IF verdict[r] = "ok" THEN "done" ELSE "failed"
    BY <1>7 DEF SettleJob, StatusOf, SlotPcs
  <2>3. verdict[r] = "ok" => r \in results
    BY DEF Shape, VerdictShape
  <2>4. Queue!Settle(r)
    BY <1>1, <1>2, <2>1, <2>2, <2>3, MoveBar DEF Queue!Settle, guestBar
  <2> QED BY <2>4 DEF Queue!Next
<1>8. CASE NotifySettled(r) \/ ForgetJob(r) \/ EndJob(r)
  <2>1. StatusOf(r)' = StatusOf(r) /\ UNCHANGED results
    BY <1>8 DEF NotifySettled, ForgetJob, EndJob, StatusOf, SlotPcs
  <2>2. statusBar' = statusBar
    BY <1>1, <2>1, StandBar DEF StatusOf
  <2> QED BY <1>2, <2>1, <2>2 DEF Queue!vars, statusBar, guestBar
<1>9. CASE OpenRun(r) \/ FetchConfig(r) \/ Download(r) \/ Extract(r) \/ Discover(r)
           \/ Execute(r) \/ Export(r) \/ SaveRunState(r) \/ Analyze(r)
           \/ PruneOldRuns(r) \/ CleanupRun(r)
  <2>1. pc[r] \in SlotPcs /\ pc'[r] \in SlotPcs /\ UNCHANGED results
    BY <1>9 DEF OpenRun, FetchConfig, Download, Extract, Discover, Execute, Export,
                SaveRunState, Analyze, PruneOldRuns, CleanupRun, Stage, Abort, SlotPcs
  <2>2. StatusOf(r)' = StatusOf(r)
    BY <2>1 DEF StatusOf, SlotPcs
  <2>3. statusBar' = statusBar
    BY <1>1, <2>2, StandBar DEF StatusOf
  <2> QED BY <1>2, <2>1, <2>3 DEF Queue!vars, statusBar, guestBar
<1> QED BY <1>3, <1>4, <1>5, <1>6, <1>7, <1>8, <1>9 DEF JobStep

LEMMA BarGuestStep ==
  ASSUME IInv, RefreshStep \/ \E a \in Analyses : OpenAnalysis(a) \/ AnalysisStep(a)
  PROVE  [Queue!Next]_(Queue!vars)
<1> USE DEF jobVars, diskVars, otherVars, refreshRest, IInv, TypeOK
<1>1. UNCHANGED <<pc, verdict, results>>
  BY DEF RefreshStep, BeginPass, TakeObject, ReleaseObject, EndPass, AnalysisStep,
         OpenAnalysis, TrySlot, WaitSlot, GiveUpSlot, FinishAnalysis, CloseAnalysis
<1>2. statusBar' = statusBar
  BY <1>1, StandBar DEF StatusOf, At
<1>3. guestBar' = guestBar \/ (~guestBar /\ guestBar' /\ slot = 0) \/ (guestBar /\ ~guestBar')
  <2>1. CASE slot = 0
    BY <2>1, SectionEmpty DEF guestBar
  <2>2. CASE slot = 1
    <3>1. CASE UNCHANGED guestBar
      BY <3>1
    <3>2. CASE ReleaseObject
      <4>1. guestBar /\ ~guestBar'
        BY <3>2, SlotGuestStep DEF ReleaseObject, guestBar, Refreshing, SlotExclusive,
                                   SlotAnalyses
      <4> QED BY <4>1
    <3>3. CASE \E a \in Analyses : FinishAnalysis(a)
      <4>1. PICK a \in Analyses : FinishAnalysis(a)
        BY <3>3
      <4>2. SlotAnalyses = {a} /\ ~Refreshing
        BY <4>1 DEF FinishAnalysis, SlotExclusive, SlotAnalyses
      <4>3. SlotAnalyses' = {} /\ ~Refreshing'
        BY <4>1, <4>2 DEF FinishAnalysis, Seat, SlotAnalyses, Refreshing
      <4> QED BY <4>2, <4>3 DEF guestBar
    <3>4. CASE ~ReleaseObject /\ ~\E a \in Analyses : FinishAnalysis(a)
      <4>1. \A b \in Analyses : analysis'[b] = "working" <=> analysis[b] = "working"
        BY <2>2, <3>4 DEF RefreshStep, BeginPass, TakeObject, EndPass, AnalysisStep,
             OpenAnalysis, TrySlot, WaitSlot, GiveUpSlot, CloseAnalysis, Seat
      <4>2. refresh' = "working" <=> refresh = "working"
        BY <2>2, <3>4 DEF RefreshStep, BeginPass, TakeObject, EndPass, AnalysisStep,
             OpenAnalysis, TrySlot, WaitSlot, GiveUpSlot, CloseAnalysis
      <4> QED BY <4>1, <4>2 DEF guestBar, SlotAnalyses, Refreshing
    <3> QED BY <3>2, <3>3, <3>4
  <2> QED BY <2>1, <2>2 DEF SlotExclusive
<1>4. CASE guestBar' = guestBar
  BY <1>1, <1>2, <1>4 DEF Queue!vars, statusBar, guestBar
<1>5. CASE ~guestBar /\ guestBar' /\ slot = 0
  <2>1. Queue!GuestIn
    BY <1>1, <1>2, <1>5, FreeBar DEF Queue!GuestIn, statusBar, guestBar
  <2> QED BY <2>1 DEF Queue!Next
<1>6. CASE guestBar /\ ~guestBar'
  <2>1. Queue!GuestOut
    BY <1>1, <1>2, <1>6 DEF Queue!GuestOut, statusBar, guestBar
  <2> QED BY <2>1 DEF Queue!Next
<1> QED BY <1>3, <1>4, <1>5, <1>6

\* The detailed service implements what GradeQueue promises its callers.
THEOREM Refinement == Spec => ImplementsGradeQueue
<1>1. Init => Queue!Init
  <2> SUFFICES ASSUME Init PROVE Queue!Init
    OBVIOUS
  <2>1. statusBar = [r \in Runs |-> "unknown"]
    BY DEF Init, statusBar, StatusOf
  <2>2. ~guestBar
    BY DEF Init, guestBar, SlotAnalyses, Refreshing
  <2> QED BY <2>1, <2>2 DEF Init, Queue!Init, statusBar, guestBar
<1>2. IInv /\ [Next]_vars => [Queue!Next]_(Queue!vars)
  <2> SUFFICES ASSUME IInv, [Next]_vars PROVE [Queue!Next]_(Queue!vars)
    OBVIOUS
  <2>1. CASE UNCHANGED vars
    <3>1. statusBar' = statusBar /\ guestBar' = guestBar /\ results' = results
      BY <2>1, StandBar DEF vars, StatusOf, At, guestBar, SlotAnalyses, Refreshing
    <3> QED BY <3>1 DEF Queue!vars, statusBar, guestBar
  <2>2. CASE Next
    BY <2>2, BarRunStep, BarJobStep, BarGuestStep DEF Next
  <2> QED BY <2>1, <2>2
<1> QED BY <1>1, <1>2, Invariance, PTL DEF Spec, Queue!Spec, ImplementsGradeQueue

(***************************************************************************)
(* The activity counter.  It needs nothing of IInv but the types: every    *)
(* step that moves a goroutine into or out of a counted place moves the    *)
(* counter by one.                                                         *)
(***************************************************************************)
CountedRuns     == {r \in Runs : pc[r] \in JobPcs \cup {"posting"}}
CountedAnalyses == {a \in Analyses : analysis[a] # "idle"}

Tally ==
    /\ IsFiniteSet(CountedRuns) /\ IsFiniteSet(CountedAnalyses)
    /\ ActivityCounted

LEMMA Joining ==
  ASSUME NEW S, IsFiniteSet(S), NEW x, x \notin S
  PROVE  /\ IsFiniteSet(S \cup {x})
         /\ Cardinality(S) \in Nat /\ Cardinality(S \cup {x}) = Cardinality(S) + 1
BY FS_AddElement, FS_CardinalityType

LEMMA Parting ==
  ASSUME NEW S, IsFiniteSet(S), NEW x \in S
  PROVE  /\ IsFiniteSet(S \ {x})
         /\ Cardinality(S) \in Nat /\ Cardinality(S \ {x}) = Cardinality(S) - 1
BY FS_RemoveElement, FS_CardinalityType

LEMMA Counting ==
  ASSUME NEW S, IsFiniteSet(S), NEW T, NEW x, NEW k \in Int, NEW l,
         (x \notin S /\ T = S \cup {x} /\ l = k + 1) \/ (x \in S /\ T = S \ {x} /\ l = k - 1)
  PROVE  IsFiniteSet(T) /\ l - k = Cardinality(T) - Cardinality(S) /\ Cardinality(T) \in Int
<1>1. CASE x \notin S /\ T = S \cup {x} /\ l = k + 1
  <2>1. IsFiniteSet(T) /\ Cardinality(S) \in Nat /\ Cardinality(T) = Cardinality(S) + 1
    BY <1>1, Joining
  <2> QED BY <1>1, <2>1
<1>2. CASE x \in S /\ T = S \ {x} /\ l = k - 1
  <2>1. IsFiniteSet(T) /\ Cardinality(S) \in Nat /\ Cardinality(T) = Cardinality(S) - 1
    BY <1>2, Parting
  <2> QED BY <1>2, <2>1
<1> QED BY <1>1, <1>2

\* The steps by what they move.
LEMMA CountSteps ==
  ASSUME TypeOK, [Next]_vars
  PROVE  \/ UNCHANGED <<CountedRuns, CountedAnalyses, active>> /\ (refresh' = "idle" <=> refresh = "idle")
         \/ /\ UNCHANGED <<CountedAnalyses, refresh>>
            /\ \E r \in Runs :
                  \/ r \notin CountedRuns /\ CountedRuns' = CountedRuns \cup {r} /\ active' = active + 1
                  \/ r \in CountedRuns /\ CountedRuns' = CountedRuns \ {r} /\ active' = active - 1
         \/ /\ UNCHANGED <<CountedRuns, refresh>>
            /\ \E a \in Analyses :
                  \/ /\ a \notin CountedAnalyses /\ CountedAnalyses' = CountedAnalyses \cup {a}
                     /\ active' = active + 1
                  \/ /\ a \in CountedAnalyses /\ CountedAnalyses' = CountedAnalyses \ {a}
                     /\ active' = active - 1
         \/ /\ UNCHANGED <<CountedRuns, CountedAnalyses>>
            /\ \/ refresh = "idle" /\ refresh' # "idle" /\ active' = active + 1
               \/ refresh # "idle" /\ refresh' = "idle" /\ active' = active - 1
<1> USE DEF jobVars, diskVars, otherVars, refreshRest, Goto, At
<1>1. CASE UNCHANGED vars
  BY <1>1 DEF vars, CountedRuns, CountedAnalyses
<1>2. ASSUME NEW r \in Runs, OpenGrade(r)
      PROVE  /\ UNCHANGED <<CountedAnalyses, refresh>> /\ active' = active + 1
             /\ r \notin CountedRuns /\ CountedRuns' = CountedRuns \cup {r}
  BY <1>2 DEF OpenGrade, CountedRuns, CountedAnalyses, TypeOK, JobPcs, SlotPcs
<1>3. ASSUME NEW r \in Runs, RejectGrade(r) \/ EndJob(r)
      PROVE  /\ UNCHANGED <<CountedAnalyses, refresh>> /\ active' = active - 1
             /\ r \in CountedRuns /\ CountedRuns' = CountedRuns \ {r}
  BY <1>3 DEF RejectGrade, EndJob, CountedRuns, CountedAnalyses, TypeOK, JobPcs, SlotPcs
<1>4. ASSUME NEW r \in Runs, GradeAsync(r) \/ CancelGrade(r) \/ Expire(r) \/ AgeEntry(r)
      PROVE  UNCHANGED <<CountedRuns, CountedAnalyses, active, refresh>>
  BY <1>4 DEF GradeAsync, CancelGrade, Expire, AgeEntry, CountedRuns, CountedAnalyses, TypeOK, JobPcs
<1>5. ASSUME NEW r \in Runs, JobStep(r), ~EndJob(r)
      PROVE  UNCHANGED <<CountedRuns, CountedAnalyses, active, refresh>>
  <2>1. UNCHANGED <<analysis, active, refresh>>
    BY <1>5 DEF JobStep, AcquireSlot, LeaveQueue, OpenRun, FetchConfig, Download, Extract, Discover,
         Execute, Export, SaveRunState, Analyze, UploadResult, PruneOldRuns, CleanupRun, ReleaseSlot,
         SettleJob, NotifySettled, ForgetJob, Stage
  <2>2. \E l \in JobPcs : pc' = [pc EXCEPT ![r] = l] \/ pc' = pc
    BY <1>5 DEF JobStep, AcquireSlot, LeaveQueue, OpenRun, FetchConfig, Download, Extract, Discover,
         Execute, Export, SaveRunState, Analyze, UploadResult, PruneOldRuns, CleanupRun, ReleaseSlot,
         SettleJob, NotifySettled, ForgetJob, Stage, Abort, JobPcs, SlotPcs
  <2>3. pc[r] \in JobPcs
    BY <1>5 DEF JobStep, AcquireSlot, LeaveQueue, OpenRun, FetchConfig, Download, Extract, Discover,
         Execute, Export, SaveRunState, Analyze, UploadResult, PruneOldRuns, CleanupRun, ReleaseSlot,
         SettleJob, NotifySettled, ForgetJob, Stage, JobPcs, SlotPcs
  <2> QED BY <2>1, <2>2, <2>3 DEF CountedRuns, CountedAnalyses, TypeOK
<1>6. ASSUME NEW a \in Analyses, OpenAnalysis(a)
      PROVE  /\ UNCHANGED <<CountedRuns, refresh>> /\ active' = active + 1
             /\ a \notin CountedAnalyses /\ CountedAnalyses' = CountedAnalyses \cup {a}
  BY <1>6 DEF OpenAnalysis, Seat, CountedRuns, CountedAnalyses, TypeOK
<1>7. ASSUME NEW a \in Analyses, CloseAnalysis(a)
      PROVE  /\ UNCHANGED <<CountedRuns, refresh>> /\ active' = active - 1
             /\ a \in CountedAnalyses /\ CountedAnalyses' = CountedAnalyses \ {a}
  BY <1>7 DEF CloseAnalysis, Seat, CountedRuns, CountedAnalyses, TypeOK
<1>8. ASSUME NEW a \in Analyses, TrySlot(a) \/ WaitSlot(a) \/ GiveUpSlot(a) \/ FinishAnalysis(a)
      PROVE  UNCHANGED <<CountedRuns, CountedAnalyses, active, refresh>>
  BY <1>8 DEF TrySlot, WaitSlot, GiveUpSlot, FinishAnalysis, Seat, CountedRuns, CountedAnalyses, TypeOK
<1>9. CASE RefreshStep
  BY <1>9 DEF RefreshStep, BeginPass, TakeObject, ReleaseObject, EndPass, CountedRuns, CountedAnalyses
<1> QED BY <1>1, <1>2, <1>3, <1>4, <1>5, <1>6, <1>7, <1>8, <1>9 DEF Next, AnalysisStep

LEMMA TallyInit == Init => Tally
<1> SUFFICES ASSUME Init PROVE Tally
  OBVIOUS
<1>1. CountedRuns = {} /\ CountedAnalyses = {}
  BY DEF Init, CountedRuns, CountedAnalyses, JobPcs, SlotPcs
<1>2. active = 0 /\ refresh = "idle"
  BY DEF Init
<1> HIDE DEF CountedRuns, CountedAnalyses
<1>3. active = Cardinality(CountedRuns) + Cardinality(CountedAnalyses) + 0
  BY <1>1, <1>2, FS_EmptySet
<1> QED BY <1>1, <1>2, <1>3, FS_EmptySet DEF Tally, ActivityCounted, CountedRuns, CountedAnalyses

LEMMA TallyStep == TypeOK /\ Tally /\ [Next]_vars => Tally'
<1> DEFINE n(S) == Cardinality(S)
           pass == IF refresh = "idle" THEN 0 ELSE 1
<1> SUFFICES ASSUME TypeOK, Tally, [Next]_vars PROVE Tally'
  OBVIOUS
<1>1. /\ IsFiniteSet(CountedRuns) /\ IsFiniteSet(CountedAnalyses)
      /\ active = n(CountedRuns) + n(CountedAnalyses) + pass
      /\ n(CountedRuns) \in Nat /\ n(CountedAnalyses) \in Nat
  BY FS_CardinalityType DEF Tally, ActivityCounted, CountedRuns, CountedAnalyses
<1>2. SUFFICES /\ IsFiniteSet(CountedRuns') /\ IsFiniteSet(CountedAnalyses')
               /\ active' = n(CountedRuns') + n(CountedAnalyses') + pass'
  BY DEF Tally, ActivityCounted, CountedRuns, CountedAnalyses
<1>3. CASE UNCHANGED <<CountedRuns, CountedAnalyses, active>> /\ (refresh' = "idle" <=> refresh = "idle")
  BY <1>1, <1>3
<1>4. ASSUME UNCHANGED <<CountedAnalyses, refresh>>, NEW r \in Runs,
             \/ r \notin CountedRuns /\ CountedRuns' = CountedRuns \cup {r} /\ active' = active + 1
             \/ r \in CountedRuns /\ CountedRuns' = CountedRuns \ {r} /\ active' = active - 1
      PROVE  /\ IsFiniteSet(CountedRuns') /\ IsFiniteSet(CountedAnalyses')
             /\ active' = n(CountedRuns') + n(CountedAnalyses') + pass'
  <2> HIDE DEF n
  <2>1. IsFiniteSet(CountedRuns') /\ active' - active = n(CountedRuns') - n(CountedRuns)
        /\ n(CountedRuns') \in Int
    <3>1. active \in Int /\ IsFiniteSet(CountedRuns)
      BY <1>1 DEF TypeOK
    <3>2. /\ IsFiniteSet(CountedRuns') /\ Cardinality(CountedRuns') \in Int
          /\ active' - active = Cardinality(CountedRuns') - Cardinality(CountedRuns)
      <4> HIDE DEF CountedRuns
      <4> QED BY <1>4, <3>1, Counting
    <3> QED BY <3>2 DEF n
  <2>2. CountedAnalyses' = CountedAnalyses /\ pass' = pass /\ pass \in {0, 1}
    BY <1>4
  <2> HIDE DEF pass
  <2>3. n(CountedAnalyses') = n(CountedAnalyses) /\ IsFiniteSet(CountedAnalyses')
    BY <1>1, <2>2
  <2>4. active = n(CountedRuns) + n(CountedAnalyses) + pass
        /\ n(CountedRuns) \in Nat /\ n(CountedAnalyses) \in Nat
    BY <1>1
  <2>5. active' \in Int
    BY <1>4, <2>2, <2>4
  <2>6. active' = n(CountedRuns') + n(CountedAnalyses) + pass
    BY <2>1, <2>2, <2>4, <2>5
  <2> QED BY <2>1, <2>2, <2>3, <2>6
<1>5. ASSUME UNCHANGED <<CountedRuns, refresh>>, NEW a \in Analyses,
             \/ a \notin CountedAnalyses /\ CountedAnalyses' = CountedAnalyses \cup {a} /\ active' = active + 1
             \/ a \in CountedAnalyses /\ CountedAnalyses' = CountedAnalyses \ {a} /\ active' = active - 1
      PROVE  /\ IsFiniteSet(CountedRuns') /\ IsFiniteSet(CountedAnalyses')
             /\ active' = n(CountedRuns') + n(CountedAnalyses') + pass'
  <2> HIDE DEF n
  <2>1. IsFiniteSet(CountedAnalyses') /\ active' - active = n(CountedAnalyses') - n(CountedAnalyses)
        /\ n(CountedAnalyses') \in Int
    <3>1. active \in Int /\ IsFiniteSet(CountedAnalyses)
      BY <1>1 DEF TypeOK
    <3>2. /\ IsFiniteSet(CountedAnalyses') /\ Cardinality(CountedAnalyses') \in Int
          /\ active' - active = Cardinality(CountedAnalyses') - Cardinality(CountedAnalyses)
      <4> HIDE DEF CountedAnalyses
      <4> QED BY <1>5, <3>1, Counting
    <3> QED BY <3>2 DEF n
  <2>2. CountedRuns' = CountedRuns /\ pass' = pass /\ pass \in {0, 1}
    BY <1>5
  <2> HIDE DEF pass
  <2>3. n(CountedRuns') = n(CountedRuns) /\ IsFiniteSet(CountedRuns')
    BY <1>1, <2>2
  <2>4. active = n(CountedRuns) + n(CountedAnalyses) + pass
        /\ n(CountedRuns) \in Nat /\ n(CountedAnalyses) \in Nat
    BY <1>1
  <2>5. active' \in Int
    BY <1>5, <2>2, <2>4
  <2>6. active' = n(CountedRuns) + n(CountedAnalyses') + pass
    BY <2>1, <2>2, <2>4, <2>5
  <2> QED BY <2>1, <2>2, <2>3, <2>6
<1>6. CASE /\ UNCHANGED <<CountedRuns, CountedAnalyses>>
           /\ \/ refresh = "idle" /\ refresh' # "idle" /\ active' = active + 1
              \/ refresh # "idle" /\ refresh' = "idle" /\ active' = active - 1
  BY <1>1, <1>6
<1> QED BY <1>3, <1>4, <1>5, <1>6, CountSteps

LEMMA Tallied == Spec => []Tally
<1>1. IInv => TypeOK
  BY DEF IInv
<1> QED BY <1>1, TallyInit, TallyStep, Invariance, PTL DEF Spec

\* activity.begin and activity.end, wherever main.go, grade.go, sandbox_handler.go
\* and ai_reanalysis.go call them, keep the counter equal to the number of
\* unfinished requests, jobs and refresh passes.
THEOREM Activity == Spec => []ActivityCounted
<1>1. Tally => ActivityCounted
  BY DEF Tally
<1> QED BY <1>1, Tallied, PTL

\* runGradeJob calls progress.finish before notifySettled and defers activity.end:
\* when the receiver of the callback looks, the outcome is there and so is the
\* server.
THEOREM Receiver == Spec => []ReceiverSeesOutcome
<1>1. ASSUME IInv, Tally, NEW r \in Hooked, At(r, "notify") PROVE Settled(r) /\ active > 0
  <2>1. r \in Runs /\ Settled(r)
    BY <1>1, GradeJobsAssumption DEF IInv, Shape, EntryShape, At
  <2>2. r \in CountedRuns
    BY <1>1, <2>1 DEF At, CountedRuns, JobPcs
  <2>3. /\ IsFiniteSet(CountedRuns)
        /\ Cardinality(CountedRuns) \in Nat /\ Cardinality(CountedRuns) # 0
        /\ Cardinality(CountedAnalyses) \in Nat
    BY <1>1, <2>2, FS_CardinalityType, FS_EmptySet DEF Tally
  <2>4. active = Cardinality(CountedRuns) + Cardinality(CountedAnalyses)
                 + (IF refresh = "idle" THEN 0 ELSE 1)
    BY <1>1 DEF Tally, ActivityCounted, CountedRuns, CountedAnalyses
  <2> QED BY <2>1, <2>3, <2>4
<1>2. IInv /\ Tally => ReceiverSeesOutcome
  BY <1>1 DEF ReceiverSeesOutcome
<1> QED BY <1>2, Invariance, Tallied, PTL
=============================================================================
