----------------------------- MODULE GradeJobs -----------------------------
(***************************************************************************)
(* The asynchronous grading service of cmd/autoscan-server: POST /grade,   *)
(* DELETE /grade/{run_id}, the job goroutine behind each run, the one-slot *)
(* grading queue it shares with POST /sandbox/analyze and the saved-AI     *)
(* refresh, the progress tracker, the activity counter, the run            *)
(* directories and the settlement callback.                                *)
(*                                                                         *)
(* One action stands for one critical section or one external call of one  *)
(* goroutine.  Every external call (R2, disk, gcc, the callback receiver)  *)
(* may fail, save os.RemoveAll; a call that takes the job's context fails  *)
(* once that context is cancelled or past its deadline.                    *)
(*                                                                         *)
(* The server is up throughout and finds no directory of an earlier one.   *)
(***************************************************************************)
EXTENDS Integers, FiniteSets

CONSTANTS
    Runs,        \* run ids; newRunID draws a fresh one per POST /grade
    Analyses,    \* concurrent POST /sandbox/analyze requests
    Hooked,      \* the runs submitted with a callback_url
    Exporting,   \* the runs submitted with an export_key_prefix
    Retries,     \* len(callback.DefaultDelays): 3 in the code
    AIRefresh    \* whether a saved-result prefix is configured to refresh

ASSUME GradeJobsAssumption ==
    /\ Hooked \subseteq Runs
    /\ Exporting \subseteq Runs
    /\ Retries \in Nat
    /\ AIRefresh \in BOOLEAN

VARIABLES
    pc,          \* where each run's goroutine stands
    ctx,         \* its context: live, deleted (cancelled by a DELETE), expired
                 \* (30 minutes) or over (released by the job's own cancel)
    verdict,     \* what executeGradeJob returns: none yet, ok or err
    jobs,        \* the keys of server.jobs
    slot,        \* len(server.gradeSlot), a channel of capacity 1
    analysis,    \* where each sandbox request stands
    refresh,     \* where the refreshSavedAI goroutine stands
    progress,    \* progressTracker.entries, the runs' part
    active,      \* activity.active
    dir,         \* what runs/<id> holds on disk
    older,       \* older[r]: the directories with an older mtime than r's
    results,     \* the runs whose result.json is in the bucket
    attempt      \* the callback POSTs Notify has made for a run

jobVars  == <<pc, ctx, verdict, jobs>>
diskVars == <<dir, older, results>>
vars == <<pc, ctx, verdict, jobs, slot, analysis, refresh, progress, active,
          dir, older, results, attempt>>

(***************************************************************************)
(* The progress tracker.  An absent entry is Go's zero value.              *)
(***************************************************************************)
Entry == [state  : {"absent", "running", "done", "failed"},
          detail : {"none", "cancelled", "error"},
          stale  : BOOLEAN]      \* not updated for progressEntryTTL

NoEntry == [state |-> "absent", detail |-> "none", stale |-> FALSE]

Known(r)   == progress[r].state # "absent"
Settled(r) == progress[r].state \in {"done", "failed"}

\* progressTracker.set drops the entries of every token past the TTL ...
Fresh(r) == IF progress[r].stale THEN NoEntry ELSE progress[r]

\* ... after it has written the token's own.
SetProgress(r) ==
    progress' = [q \in Runs |->
        IF q = r
        THEN [state  |-> "running", detail |-> "none", stale |-> FALSE]
        ELSE Fresh(q)]

\* A sandbox request reports under the token its client chose: to the runs'
\* entries that is only the sweep.
SandboxReport == progress' = [r \in Runs |-> Fresh(r)]

\* progressTracker.finish starts from the zero value when the entry is gone.
Finish(r, ok, why) ==
    progress' = [progress EXCEPT ![r] =
        IF ok THEN [@ EXCEPT !.state = "done", !.stale = FALSE]
              ELSE [@ EXCEPT !.state = "failed", !.detail = why, !.stale = FALSE]]

(***************************************************************************)
(* Who is where.                                                           *)
(***************************************************************************)
\* Between taking the slot and the deferred <-s.gradeSlot.
SlotPcs == {"opening", "config", "download", "extract", "discover", "execute",
            "export", "save", "analyze", "upload", "prune", "cleanup", "release"}
\* Between spawning the goroutine and its last deferred call.
JobPcs == {"queued", "settle", "notify", "forget", "end"} \cup SlotPcs

Goto(r, l) == pc' = [pc EXCEPT ![r] = l]
At(r, l) == pc[r] = l

Stored == {r \in Runs : dir[r] # "none"}

\* An early `return err` after the slot was taken runs the deferred calls.
Abort(r) ==
    /\ verdict' = [verdict EXCEPT ![r] = "err"]
    /\ Goto(r, "cleanup")

(***************************************************************************)
(* Variants of the actions below with one plausible bug each.  No action   *)
(* uses them; the mutation checks substitute them one at a time.           *)
(***************************************************************************)
\* activity.begin is left out of gradeAsync.
GradeAsyncUncounted(r) ==
    /\ At(r, "posting") /\ Goto(r, "queued")
    /\ jobs' = jobs \cup {r}
    /\ active' = active - 1
    /\ SetProgress(r)
    /\ UNCHANGED <<ctx, verdict, slot, analysis, refresh, diskVars, attempt>>

\* The slot is taken without waiting for the token of its holder.
AcquireSlotTwice(r) ==
    /\ At(r, "queued") /\ slot < 2
    /\ slot' = slot + 1
    /\ Goto(r, "opening")
    /\ UNCHANGED <<ctx, verdict, jobs, analysis, refresh, progress, active,
                   diskVars, attempt>>

\* The select has no ctx.Done case.
LeaveQueueNever(r) == FALSE /\ UNCHANGED vars

\* A job cancelled in the queue returns without progress.finish.
LeaveQueueUnfinished(r) ==
    /\ At(r, "queued") /\ ctx[r] # "live"
    /\ verdict' = [verdict EXCEPT ![r] = "err"]
    /\ Goto(r, "notify")
    /\ UNCHANGED <<ctx, jobs, slot, analysis, refresh, progress, active, diskVars,
                   attempt>>

\* The error of uploadJSON is dropped.
UploadResultIgnored(r) ==
    /\ At(r, "upload")
    /\ results' \in {results, results \cup {r}}
    /\ Goto(r, "prune")
    /\ UNCHANGED <<ctx, verdict, jobs, slot, analysis, refresh, progress, active,
                   dir, older, attempt>>

\* cleanupRun is cleared before the upload.
UploadResultKeepsDir(r) ==
    /\ At(r, "upload")
    /\ \/ /\ ctx[r] = "live"
          /\ results' = results \cup {r}
          /\ Goto(r, "prune") /\ UNCHANGED verdict
       \/ /\ verdict' = [verdict EXCEPT ![r] = "err"]
          /\ Goto(r, "release") /\ UNCHANGED results
    /\ UNCHANGED <<ctx, jobs, slot, analysis, refresh, progress, active, dir,
                   older, attempt>>

\* The run directories are sorted newest first.
PruneNewest(victims) ==
    /\ victims # Stored
    /\ \A v \in victims, k \in Stored \ victims : k \in older[v]
    /\ dir' = [r \in Runs |-> IF r \in victims THEN "none" ELSE dir[r]]

\* The failure path returns without running the deferred release.
CleanupRunHoldsSlot(r) ==
    /\ At(r, "cleanup")
    /\ dir' = [dir EXCEPT ![r] = "none"]
    /\ Goto(r, "settle")
    /\ UNCHANGED <<ctx, verdict, jobs, slot, analysis, refresh, progress, active,
                   older, results, attempt>>

\* cancel is deferred in executeGradeJob, before runGradeJob reads ctx.Err.
ReleaseSlotAndCancel(r) ==
    /\ At(r, "release")
    /\ slot' = slot - 1
    /\ ctx' = [ctx EXCEPT ![r] = "over"]
    /\ Goto(r, "settle")
    /\ UNCHANGED <<verdict, jobs, analysis, refresh, progress, active, diskVars,
                   attempt>>

\* Notify retries while attempt <= len(Delays).
NotifySettledTooOften(r) ==
    /\ At(r, "notify")
    /\ \/ /\ r \in Hooked /\ attempt[r] <= Retries
          /\ attempt' = [attempt EXCEPT ![r] = @ + 1] /\ UNCHANGED pc
       \/ /\ attempt' = [attempt EXCEPT ![r] = 0] /\ Goto(r, "forget")
    /\ UNCHANGED <<ctx, verdict, jobs, slot, analysis, refresh, progress, active,
                   diskVars>>

\* The job drops its entry as the sandbox handler does.
EndJobDropsEntry(r) ==
    /\ At(r, "end") /\ Goto(r, "gone")
    /\ active' = active - 1
    /\ progress' = [progress EXCEPT ![r] = NoEntry]
    /\ UNCHANGED <<ctx, verdict, jobs, slot, analysis, refresh, diskVars, attempt>>

\* The sandbox handler defers the release before it checks the acquisition.
GiveUpSlotReleases(a) ==
    /\ analysis[a] = "waiting"
    /\ analysis' = [analysis EXCEPT ![a] = "closing"]
    /\ slot' = slot - 1
    /\ UNCHANGED <<jobVars, refresh, diskVars, attempt, progress, active>>

(***************************************************************************)
(* POST /grade and DELETE /grade/{run_id}.                                 *)
(***************************************************************************)
\* trackRequests counts the request before its handler runs.
OpenGrade(r) ==
    /\ At(r, "idle")
    /\ Goto(r, "posting")
    /\ active' = active + 1
    /\ UNCHANGED <<ctx, verdict, jobs, slot, analysis, refresh, progress,
                   diskVars, attempt>>

\* gradeAsync refuses the form: nothing was registered.
RejectGrade(r) ==
    /\ At(r, "posting")
    /\ Goto(r, "idle")
    /\ active' = active - 1
    /\ UNCHANGED <<ctx, verdict, jobs, slot, analysis, refresh, progress,
                   diskVars, attempt>>

\* gradeAsync accepts: jobs.Store, activity.begin, progress.set, go, the 202
\* that first tells a client the run id, and the end of the counted request.
GradeAsync(r) ==
    /\ At(r, "posting")
    /\ Goto(r, "queued")
    /\ jobs' = jobs \cup {r}
    /\ active' = active     \* activity.begin for the job, end for the request
    /\ SetProgress(r)
    /\ UNCHANGED <<ctx, verdict, slot, analysis, refresh, diskVars, attempt>>

\* cancelGrade on a run it finds: the context is cancelled, the answer 204.
\* (On any other run it answers 404 and changes nothing.)
CancelGrade(r) ==
    /\ r \in jobs
    /\ ctx' = [ctx EXCEPT ![r] = IF @ = "live" THEN "deleted" ELSE @]
    /\ UNCHANGED <<pc, verdict, jobs, slot, analysis, refresh, progress, active,
                   diskVars, attempt>>

\* asyncGradeTimeout, counted from acceptance: the wait for the slot included.
Expire(r) ==
    /\ pc[r] \in JobPcs /\ ctx[r] = "live"
    /\ ctx' = [ctx EXCEPT ![r] = "expired"]
    /\ UNCHANGED <<pc, verdict, jobs, slot, analysis, refresh, progress, active,
                   diskVars, attempt>>

(***************************************************************************)
(* executeGradeJob.  The select of AcquireSlot / LeaveQueue is Go's: with  *)
(* both cases ready either may be taken.                                   *)
(***************************************************************************)
AcquireSlot(r) ==
    /\ At(r, "queued") /\ slot = 0
    /\ slot' = slot + 1
    /\ Goto(r, "opening")
    /\ UNCHANGED <<ctx, verdict, jobs, analysis, refresh, progress, active,
                   diskVars, attempt>>

LeaveQueue(r) ==
    /\ At(r, "queued") /\ ctx[r] # "live"
    /\ verdict' = [verdict EXCEPT ![r] = "err"]
    /\ Goto(r, "settle")
    /\ UNCHANGED <<ctx, jobs, slot, analysis, refresh, progress, active,
                   diskVars, attempt>>

\* One stage that only reports progress when it succeeds; `needs` says whether
\* the stage's calls take the job's context.
Stage(r, from, to, needs, canFail) ==
    /\ At(r, from)
    /\ \/ /\ needs => ctx[r] = "live"
          /\ Goto(r, to) /\ SetProgress(r)
          /\ UNCHANGED verdict
       \/ /\ canFail
          /\ Abort(r)
          /\ UNCHANGED progress
    /\ UNCHANGED <<ctx, jobs, slot, analysis, refresh, active, diskVars,
                   attempt>>

\* newR2Client and MkdirAll(runBase); the directory is the newest one.
OpenRun(r) ==
    /\ At(r, "opening")
    /\ \/ /\ dir' = [dir EXCEPT ![r] = "partial"]
          /\ older' = [older EXCEPT ![r] = Stored]
          /\ Goto(r, "config") /\ SetProgress(r)
          /\ UNCHANGED verdict
       \/ /\ Abort(r)
          /\ UNCHANGED <<dir, older, progress>>
    /\ UNCHANGED <<ctx, jobs, slot, analysis, refresh, active, results,
                   attempt>>

FetchConfig(r) == Stage(r, "config", "download", TRUE, TRUE)
Download(r)    == Stage(r, "download", "extract", TRUE, TRUE)

\* extractZip takes no context; the pipeline's first report follows discovery.
Extract(r) ==
    /\ At(r, "extract")
    /\ \/ Goto(r, "discover") /\ UNCHANGED verdict
       \/ Abort(r)
    /\ UNCHANGED <<ctx, jobs, slot, analysis, refresh, progress, active,
                   diskVars, attempt>>

\* runGradingPipeline: a cancelled context kills compilers and test processes,
\* whose submissions are then marked failed, but does not end the pipeline.
Discover(r) == Stage(r, "discover", "execute", FALSE, TRUE)

\* A policy without test cases runs, and reports, nothing.
Execute(r) ==
    /\ At(r, "execute")
    /\ Goto(r, "export")
    /\ SetProgress(r) \/ UNCHANGED progress
    /\ UNCHANGED <<ctx, verdict, jobs, slot, analysis, refresh, active, diskVars,
                   attempt>>

Export(r) ==
    IF r \in Exporting
    THEN Stage(r, "export", "save", TRUE, TRUE)
    ELSE /\ At(r, "export")
         /\ Goto(r, "save")
         /\ UNCHANGED <<ctx, verdict, jobs, slot, analysis, refresh, progress,
                        active, diskVars, attempt>>

SaveRunState(r) ==
    /\ At(r, "save")
    /\ \/ /\ dir' = [dir EXCEPT ![r] = "saved"]
          /\ Goto(r, "analyze") /\ SetProgress(r)
          /\ UNCHANGED verdict
       \/ /\ Abort(r)
          /\ UNCHANGED <<dir, progress>>
    /\ UNCHANGED <<ctx, jobs, slot, analysis, refresh, active, older,
                   results, attempt>>

\* A failed analysis is only logged.
Analyze(r) == Stage(r, "analyze", "upload", FALSE, FALSE)

\* uploadJSON; a failed PUT may still have stored the object.
UploadResult(r) ==
    /\ At(r, "upload")
    /\ \/ /\ ctx[r] = "live"
          /\ results' = results \cup {r}
          /\ Goto(r, "prune")
          /\ UNCHANGED verdict
       \/ /\ results' \in {results, results \cup {r}}
          /\ Abort(r)
    /\ UNCHANGED <<ctx, jobs, slot, analysis, refresh, progress, active, dir,
                   older, attempt>>

\* pruneOldRuns stops at the first look that finds the disk below the high-water
\* mark and at the newest directory: it removes some of the oldest, never all.
PruneTo(victims) ==
    /\ victims # Stored
    /\ \A v \in victims, k \in Stored \ victims : v \in older[k]
    /\ dir' = [r \in Runs |-> IF r \in victims THEN "none" ELSE dir[r]]

PruneOldRuns(r) ==
    /\ At(r, "prune")
    /\ \E victims \in SUBSET Stored : PruneTo(victims)
    /\ verdict' = [verdict EXCEPT ![r] = "ok"]
    /\ Goto(r, "release")
    /\ UNCHANGED <<ctx, jobs, slot, analysis, refresh, progress, active,
                   older, results, attempt>>

\* Deferred: os.RemoveAll(runBase) while cleanupRun still holds.
CleanupRun(r) ==
    /\ At(r, "cleanup")
    /\ dir' = [dir EXCEPT ![r] = "none"]
    /\ Goto(r, "release")
    /\ UNCHANGED <<ctx, verdict, jobs, slot, analysis, refresh, progress, active, older, results, attempt>>

\* Deferred: <-s.gradeSlot.
ReleaseSlot(r) ==
    /\ At(r, "release")
    /\ slot' = slot - 1
    /\ Goto(r, "settle")
    /\ UNCHANGED <<ctx, verdict, jobs, analysis, refresh, progress, active,
                   diskVars, attempt>>

(***************************************************************************)
(* runGradeJob after executeGradeJob: finish, then the deferred calls.     *)
(***************************************************************************)
SettleJob(r) ==
    /\ At(r, "settle")
    /\ Finish(r, verdict[r] = "ok",
              IF ctx[r] \in {"deleted", "over"} THEN "cancelled" ELSE "error")
    /\ Goto(r, "notify")
    /\ UNCHANGED <<ctx, verdict, jobs, slot, analysis, refresh, active,
                   diskVars, attempt>>

\* notifySettled / Notifier.Notify: network errors and 5xx are retried; it stops
\* on 2xx, on a rejection, after the last retry or when its minute is up.
NotifySettled(r) ==
    /\ At(r, "notify")
    /\ \/ /\ r \in Hooked /\ attempt[r] < Retries
          /\ attempt' = [attempt EXCEPT ![r] = @ + 1]
          /\ UNCHANGED pc
       \/ /\ attempt' = [attempt EXCEPT ![r] = 0]
          /\ Goto(r, "forget")
    /\ UNCHANGED <<ctx, verdict, jobs, slot, analysis, refresh, progress, active,
                   diskVars>>

\* Deferred: cancel(), then jobs.Delete.
ForgetJob(r) ==
    /\ At(r, "forget")
    /\ ctx' = [ctx EXCEPT ![r] = "over"]
    /\ jobs' = jobs \ {r}
    /\ Goto(r, "end")
    /\ UNCHANGED <<verdict, slot, analysis, refresh, progress, active, diskVars,
                   attempt>>

\* Deferred: activity.end.
EndJob(r) ==
    /\ At(r, "end")
    /\ Goto(r, "gone")
    /\ active' = active - 1
    /\ UNCHANGED <<ctx, verdict, jobs, slot, analysis, refresh, progress, diskVars,
                   attempt>>

(***************************************************************************)
(* The other users of the slot.                                            *)
(***************************************************************************)
Seat(a, l) == analysis' = [analysis EXCEPT ![a] = l]
otherVars == <<jobVars, refresh, diskVars, attempt>>

OpenAnalysis(a) ==
    /\ analysis[a] = "idle"
    /\ Seat(a, "trying")
    /\ active' = active + 1
    /\ UNCHANGED <<otherVars, slot, progress>>

\* acquireGradeSlot: one attempt, then a report and a bounded wait.
TrySlot(a) ==
    /\ analysis[a] = "trying"
    /\ IF slot = 0
       THEN slot' = slot + 1 /\ Seat(a, "working") /\ SandboxReport
       ELSE UNCHANGED slot /\ Seat(a, "waiting") /\ SandboxReport
    /\ UNCHANGED <<otherVars, active>>

WaitSlot(a) ==
    /\ analysis[a] = "waiting" /\ slot = 0
    /\ slot' = slot + 1
    /\ Seat(a, "working")
    /\ SandboxReport
    /\ UNCHANGED <<otherVars, active>>

\* sandboxSlotWait (3 min) or the client hung up: 409, the slot was never held.
GiveUpSlot(a) ==
    /\ analysis[a] = "waiting"
    /\ Seat(a, "closing")
    /\ UNCHANGED <<otherVars, slot, progress, active>>

\* The analysis returned, whatever its outcome: the deferred release.
FinishAnalysis(a) ==
    /\ analysis[a] = "working"
    /\ slot' = slot - 1
    /\ Seat(a, "closing")
    /\ UNCHANGED <<otherVars, progress, active>>

\* The request ends; progress.done drops its own entry.
CloseAnalysis(a) ==
    /\ analysis[a] = "closing"
    /\ Seat(a, "idle")
    /\ active' = active - 1
    /\ UNCHANGED <<otherVars, slot, progress>>

\* refreshSavedAIPass: counted as activity, the slot taken once per object.
refreshRest == <<jobVars, analysis, progress, diskVars, attempt>>

BeginPass ==
    /\ AIRefresh /\ refresh = "idle"
    /\ refresh' = "pass"
    /\ active' = active + 1
    /\ UNCHANGED <<refreshRest, slot>>

TakeObject ==
    /\ refresh = "pass" /\ slot = 0
    /\ refresh' = "working"
    /\ slot' = slot + 1
    /\ UNCHANGED <<refreshRest, active>>

ReleaseObject ==
    /\ refresh = "working"
    /\ refresh' = "pass"
    /\ slot' = slot - 1
    /\ UNCHANGED <<refreshRest, active>>

EndPass ==
    /\ refresh = "pass"
    /\ refresh' = "idle"
    /\ active' = active - 1
    /\ UNCHANGED <<refreshRest, slot>>

(***************************************************************************)
(* progressEntryTTL passes without an update.  Not within the minute that  *)
(* notifySettled may last: the entry was written at its start and the TTL  *)
(* is fifteen minutes.                                                     *)
(***************************************************************************)
AgeEntry(r) ==
    /\ Known(r) /\ ~progress[r].stale /\ ~At(r, "notify")
    /\ progress' = [progress EXCEPT ![r].stale = TRUE]
    /\ UNCHANGED <<jobVars, slot, analysis, refresh, active, diskVars, attempt>>

Init ==
    /\ pc = [r \in Runs |-> "idle"]
    /\ ctx = [r \in Runs |-> "live"]
    /\ verdict = [r \in Runs |-> "none"]
    /\ jobs = {} /\ results = {}
    /\ slot = 0 /\ active = 0
    /\ analysis = [a \in Analyses |-> "idle"]
    /\ refresh = "idle"
    /\ progress = [r \in Runs |-> NoEntry]
    /\ dir = [r \in Runs |-> "none"]
    /\ older = [r \in Runs |-> {}]
    /\ attempt = [r \in Runs |-> 0]

\* What the job's own goroutine does.
JobStep(r) ==
    \/ AcquireSlot(r) \/ LeaveQueue(r) \/ OpenRun(r) \/ FetchConfig(r)
    \/ Download(r) \/ Extract(r) \/ Discover(r) \/ Execute(r) \/ Export(r)
    \/ SaveRunState(r) \/ Analyze(r) \/ UploadResult(r) \/ PruneOldRuns(r)
    \/ CleanupRun(r) \/ ReleaseSlot(r) \/ SettleJob(r) \/ NotifySettled(r)
    \/ ForgetJob(r) \/ EndJob(r)

AnalysisStep(a) ==
    TrySlot(a) \/ WaitSlot(a) \/ GiveUpSlot(a) \/ FinishAnalysis(a) \/ CloseAnalysis(a)

RefreshStep == BeginPass \/ TakeObject \/ ReleaseObject \/ EndPass

Next ==
    \/ \E r \in Runs :
          \/ OpenGrade(r) \/ RejectGrade(r) \/ GradeAsync(r) \/ CancelGrade(r)
          \/ Expire(r) \/ JobStep(r) \/ AgeEntry(r)
    \/ \E a \in Analyses : OpenAnalysis(a) \/ AnalysisStep(a)
    \/ RefreshStep

Spec == Init /\ [][Next]_vars

\* Goroutines are scheduled, every external call returns (R2 within the job's
\* deadline, gcc and tests within their own time-outs) and the deadline timer
\* fires.  Callers are free to stop calling.
Fairness ==
    /\ \A r \in Runs : WF_vars(JobStep(r)) /\ WF_vars(Expire(r))
    /\ \A a \in Analyses : WF_vars(AnalysisStep(a))
    /\ WF_vars(ReleaseObject) /\ WF_vars(EndPass)

FairSpec == Spec /\ Fairness

(***************************************************************************)
(* Properties.                                                             *)
(***************************************************************************)
TypeOK ==
    /\ pc \in [Runs -> {"idle", "posting", "gone"} \cup JobPcs]
    /\ ctx \in [Runs -> {"live", "deleted", "expired", "over"}]
    /\ verdict \in [Runs -> {"none", "ok", "err"}]
    /\ jobs \subseteq Runs /\ results \subseteq Runs
    /\ slot \in Int /\ active \in Int
    /\ analysis \in [Analyses -> {"idle", "trying", "waiting", "working", "closing"}]
    /\ refresh \in {"idle", "pass", "working"}
    /\ progress \in [Runs -> Entry]
    /\ dir \in [Runs -> {"none", "partial", "saved"}]
    /\ older \in [Runs -> SUBSET Runs]
    /\ attempt \in [Runs -> 0 .. Retries]

SlotRuns     == {r \in Runs : pc[r] \in SlotPcs}
SlotAnalyses == {a \in Analyses : analysis[a] = "working"}
Refreshing   == refresh = "working"

\* The anonymous tokens of the gradeSlot channel stand for who is really in the
\* section: one grade job, sandbox analysis or AI refresh at a time, and none
\* leaves its token behind on an error, a cancellation or a 409.
SlotExclusive ==
    /\ slot \in {0, 1}
    /\ slot = 1 <=> SlotRuns # {} \/ SlotAnalyses # {} \/ Refreshing
    /\ \A r \in SlotRuns : SlotRuns = {r} /\ SlotAnalyses = {} /\ ~Refreshing
    /\ \A a \in SlotAnalyses : SlotRuns = {} /\ SlotAnalyses = {a} /\ ~Refreshing

\* activity.active counts every request in a handler, every job from acceptance
\* to its last deferred call and every refresh pass, so exitWhenIdle cannot see
\* zero while any of them is unfinished.
ActivityCounted ==
    active = Cardinality({r \in Runs : pc[r] \in JobPcs \cup {"posting"}})
           + Cardinality({a \in Analyses : analysis[a] # "idle"})
           + (IF refresh = "idle" THEN 0 ELSE 1)

\* What GET /progress says of a run is true: running until the job is over,
\* then the job's verdict, and done only when result.json is in the bucket.
OutcomeHonest ==
    \A r \in Runs : Known(r) =>
        /\ progress[r].state = "running" <=> pc[r] \in {"queued", "settle"} \cup SlotPcs
        /\ progress[r].state = "done" => verdict[r] = "ok" /\ r \in results
        /\ progress[r].state = "failed" => verdict[r] = "err"

\* A directory under runs/ belongs to the job that is filling it or to a run
\* that was graded completely: a failed or cancelled run leaves none.
NoOrphanDir ==
    \A r \in Runs :
        /\ dir[r] = "partial" => pc[r] \in SlotPcs \ {"opening", "release"}
        /\ dir[r] = "saved" =>
               verdict[r] = "ok" \/ pc[r] \in {"analyze", "upload", "prune", "cleanup"}

\* The callback is sent only while GET /progress, which the receiver is told to
\* read, reports the outcome, and while the job still holds the server awake.
ReceiverSeesOutcome ==
    \A r \in Hooked : At(r, "notify") => Settled(r) /\ active > 0

\* pruneOldRuns ("never removes the newest run, so a just-graded run keeps its
\* terminal"): a graded run loses its directory only to a run graded after it,
\* which keeps its own.
JustGradedKept ==
    [][\A r \in Runs : verdict'[r] = "ok" /\ dir[r] = "saved" /\ dir'[r] # "saved" =>
          \E q \in Runs : r \in older[q] /\ verdict'[q] = "ok" /\ dir'[q] = "saved"]_vars

\* "grading cancelled" is reported only for a run a DELETE cancelled before it
\* settled: not for one that timed out or that the job itself released.
CancelledByCaller ==
    [][\A r \in Runs : progress'[r].detail = "cancelled" /\ progress[r].detail = "none" =>
          ctx[r] = "deleted"]_vars

\* Once a run is reported done or failed no late report of any goroutine changes
\* the entry: it only ages and is dropped after the TTL.
SettledIsFinal ==
    [][\A r \in Runs : Settled(r) =>
          \/ progress'[r] \in {progress[r], [progress[r] EXCEPT !.stale = TRUE]}
          \/ progress[r].stale /\ progress'[r] = NoEntry]_vars

\* CLOUD_SETUP.md:96-97, "later ones report the `Queued` stage until their turn":
\* a run that waits behind another can be found.  The TTL sweep of
\* progressTracker.set breaks it.
QueuedVisible == \A r \in Runs : At(r, "queued") /\ SlotRuns # {} => Known(r)

\* Every accepted run settles and its goroutine ends, whatever fails.
EveryRunSettles == \A r \in Runs : At(r, "queued") ~> At(r, "gone")

\* The slot is always handed back.
SlotComesFree == (slot = 1) ~> (slot = 0)

\* The caller's view: GradeJobs implements GradeQueue.
StatusOf(r) ==
    IF pc[r] \in {"idle", "posting"} THEN "unknown"
    ELSE IF At(r, "queued") THEN "queued"
    ELSE IF pc[r] \in SlotPcs THEN "grading"
    ELSE IF At(r, "settle") THEN "closing"
    ELSE IF verdict[r] = "ok" THEN "done" ELSE "failed"

Queue == INSTANCE GradeQueue WITH
    status <- [r \in Runs |-> StatusOf(r)],
    guest <- SlotAnalyses # {} \/ Refreshing,
    published <- results

ImplementsGradeQueue == Queue!Spec
=============================================================================
