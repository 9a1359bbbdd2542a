----------------------------- MODULE ServerLife -----------------------------
(***************************************************************************)
(* The life of the server process around the grading service: what counts  *)
(* as activity, the idle exit of cmd/autoscan-server/idle.go, the refresh  *)
(* loop that begins a pass every few minutes, signals, the shutdown and    *)
(* the restart by the proxy or the restart policy.                         *)
(*                                                                         *)
(* The service itself is GradeQueue, which GradeJobs implements; that      *)
(* activity.active counts exactly the work in progress is GradeJobs'       *)
(* ActivityCounted.  Time passes in steps of exitWhenIdle's ticker.        *)
(***************************************************************************)
EXTENDS Integers, FiniteSets

CONSTANTS
    Runs,
    Clients,    \* connections: HTTP requests and terminal sockets
    IdleExit,   \* cfg.idleExit in ticks; 0 for a server that never exits
    Rescan      \* ticks between two refresh passes; 0 when R2 is not configured

ASSUME ServerLifeAssumption == IdleExit \in Nat /\ Rescan \in Nat

VARIABLES
    status, guest, published,   \* GradeQueue's; a run may also be "lost"
    phase,      \* serving, decided (stop was called by exitWhenIdle), leaving
                \* (its shutdown), signalled (a signal's), crashed, down
    requests,   \* the clients inside trackRequests
    callbacks,  \* settled runs whose goroutine has not ended
    refresh,    \* off, waiting or pass
    wait,       \* ticks until time.After fires in refreshSavedAI
    quiet,      \* ticks since activity.lastDone
    tick        \* the ticker's channel holds a tick

queueVars == <<status, guest, published>>
timeVars  == <<wait, quiet, tick>>
vars == <<status, guest, published, phase, requests, callbacks, refresh, wait, quiet, tick>>

Q == INSTANCE GradeQueue

Up == phase \in {"serving", "decided", "leaving", "signalled"}
Listening == phase \in {"serving", "decided"}
Unsettled == {r \in Runs : status[r] \in {"queued", "grading", "closing"}}

\* activity.active > 0
Working == Unsettled # {} \/ callbacks # {}
Busy == requests # {} \/ Working \/ refresh = "pass"

(***************************************************************************)
(* Variants with one plausible bug each, for the mutation checks.          *)
(***************************************************************************)
\* The ticker is started only where idle exit is disabled.
ElapseInverted ==
    /\ phase = "serving" /\ ~tick
    /\ ~(refresh = "waiting" /\ wait = 0)
    /\ quiet' = IF quiet < IdleExit THEN quiet + 1 ELSE quiet
    /\ wait' = IF refresh = "waiting" THEN wait - 1 ELSE wait
    /\ tick' = (IdleExit = 0)
    /\ UNCHANGED <<queueVars, phase, requests, callbacks, refresh>>

\* The rescan timer runs during the pass as well.
ElapseAlwaysCounts ==
    /\ phase = "serving" /\ ~tick
    /\ ~(refresh = "waiting" /\ wait = 0)
    /\ quiet' = IF quiet < IdleExit THEN quiet + 1 ELSE quiet
    /\ wait' = wait - 1
    /\ tick' = (IdleExit > 0)
    /\ UNCHANGED <<queueVars, phase, requests, callbacks, refresh>>

\* The job's deadline does not reach the wait for the slot.
DropNever(r) == FALSE /\ UNCHANGED vars

(***************************************************************************)
(* Requests.                                                               *)
(***************************************************************************)
Arrive(c) ==
    /\ Listening /\ c \notin requests
    /\ requests' = requests \cup {c}
    /\ UNCHANGED <<queueVars, phase, callbacks, refresh, timeVars>>

\* activity.end: the response is written, or the socket closed.
Answer(c) ==
    /\ Up /\ c \in requests
    /\ requests' = requests \ {c}
    /\ quiet' = 0
    /\ UNCHANGED <<queueVars, phase, callbacks, refresh, wait, tick>>

\* A request in its handler starts a job; a shutdown does not stop it.
Submit(r) ==
    /\ Up /\ requests # {}
    /\ Q!Submit(r)
    /\ UNCHANGED <<phase, requests, callbacks, refresh, timeVars>>

(***************************************************************************)
(* Jobs and refresh passes.                                                *)
(***************************************************************************)
GradeStep(r) ==
    /\ Up
    /\ Q!Begin(r) \/ Q!Publish(r)
    /\ UNCHANGED <<phase, requests, callbacks, refresh, timeVars>>

LeaveSlot(r) ==
    /\ Up
    /\ Q!Leave(r)
    /\ UNCHANGED <<phase, requests, callbacks, refresh, timeVars>>

Drop(r) ==
    /\ Up
    /\ Q!Drop(r)
    /\ UNCHANGED <<phase, requests, callbacks, refresh, timeVars>>

\* progress.finish, then the callback.
SettleRun(r) ==
    /\ Up
    /\ Q!Settle(r)
    /\ callbacks' = callbacks \cup {r}
    /\ UNCHANGED <<phase, requests, refresh, timeVars>>

\* The job's activity.end.
EndJob(r) ==
    /\ Up /\ r \in callbacks
    /\ callbacks' = callbacks \ {r}
    /\ quiet' = 0
    /\ UNCHANGED <<queueVars, phase, requests, refresh, wait, tick>>

BeginPass ==
    /\ Listening /\ refresh = "waiting" /\ wait = 0
    /\ refresh' = "pass"
    /\ UNCHANGED <<queueVars, phase, requests, callbacks, timeVars>>

TakeObject ==
    /\ Up /\ refresh = "pass"
    /\ Q!GuestIn
    /\ UNCHANGED <<phase, requests, callbacks, refresh, timeVars>>

LeaveObject ==
    /\ Up
    /\ Q!GuestOut
    /\ UNCHANGED <<phase, requests, callbacks, refresh, timeVars>>

\* The deferred activity.end, then time.After(5 minutes); a cancelled context
\* ends the loop.
EndPass ==
    /\ Up /\ refresh = "pass" /\ ~guest
    /\ refresh' = IF Listening THEN "waiting" ELSE "off"
    /\ wait' = Rescan
    /\ quiet' = 0
    /\ UNCHANGED <<queueVars, phase, requests, callbacks, tick>>

(***************************************************************************)
(* Time, the exit and the restart.                                         *)
(***************************************************************************)
\* A goroutine whose timer has fired runs within the half minute.
Elapse ==
    /\ phase = "serving" /\ ~tick
    /\ ~(refresh = "waiting" /\ wait = 0)
    /\ quiet' = IF quiet < IdleExit THEN quiet + 1 ELSE quiet
    /\ wait' = IF refresh = "waiting" THEN wait - 1 ELSE wait
    /\ tick' = (IdleExit > 0)
    /\ UNCHANGED <<queueVars, phase, requests, callbacks, refresh>>

\* exitWhenIdle reads idleFor under the lock and acts on it after unlocking.
ReadIdle ==
    /\ tick /\ phase = "serving"
    /\ tick' = FALSE
    /\ phase' = IF ~Busy /\ quiet >= IdleExit THEN "decided" ELSE phase
    /\ UNCHANGED <<queueVars, requests, callbacks, refresh, wait, quiet>>

\* main wakes up and httpSrv.Shutdown closes the listener.
Shutdown ==
    /\ \/ phase = "decided" /\ phase' = "leaving"
       \/ phase = "serving" /\ phase' = "signalled"   \* SIGTERM, SIGINT
    /\ UNCHANGED <<queueVars, requests, callbacks, refresh, timeVars>>

\* The process ends: what it held in memory is gone, objects in R2 stay.
Die ==
    /\ status' = [r \in Runs |-> IF r \in Unsettled THEN "lost" ELSE status[r]]
    /\ guest' = FALSE
    /\ requests' = {} /\ callbacks' = {}
    /\ refresh' = "off" /\ wait' = 0 /\ quiet' = 0 /\ tick' = FALSE
    /\ UNCHANGED published

\* Shutdown waits for the requests, thirty seconds at most, and not for jobs;
\* then main returns.
Exit == phase \in {"leaving", "signalled"} /\ phase' = "down" /\ Die

Crash == Up /\ phase' = "crashed" /\ Die

\* By the proxy for the next request, or by the restart policy after a crash.
\* refreshSavedAI begins a pass at once.
Boot ==
    /\ phase \in {"down", "crashed"}
    /\ phase' = "serving"
    /\ refresh' = IF Rescan = 0 THEN "off" ELSE "waiting"
    /\ UNCHANGED <<queueVars, requests, callbacks, timeVars>>

Init ==
    /\ Q!Init
    /\ phase = "crashed" /\ requests = {} /\ callbacks = {}
    /\ refresh = "off" /\ wait = 0 /\ quiet = 0 /\ tick = FALSE

Next ==
    \/ \E c \in Clients : Arrive(c) \/ Answer(c)
    \/ \E r \in Runs : Submit(r) \/ GradeStep(r) \/ LeaveSlot(r) \/ Drop(r)
                      \/ SettleRun(r) \/ EndJob(r)
    \/ BeginPass \/ TakeObject \/ LeaveObject \/ EndPass
    \/ Elapse \/ ReadIdle \/ Shutdown \/ Exit \/ Crash \/ Boot

Spec == Init /\ [][Next]_vars

\* Time passes, goroutines run, jobs end (GradeJobs' EveryRunSettles), the restart
\* policy restarts a crashed machine, a pass lists finitely many objects (strong
\* fairness of EndPass).  Requests need not come, nor sockets close.
Fairness ==
    /\ WF_vars(Elapse) /\ WF_vars(ReadIdle) /\ WF_vars(phase = "decided" /\ Shutdown)
    /\ WF_vars(Exit) /\ WF_vars(phase = "crashed" /\ Boot)
    /\ WF_vars(BeginPass) /\ WF_vars(LeaveObject) /\ SF_vars(EndPass)
    /\ \A r \in Runs :
          /\ WF_vars(LeaveSlot(r)) /\ WF_vars(Drop(r))
          /\ WF_vars(SettleRun(r)) /\ WF_vars(EndJob(r))

FairSpec == Spec /\ Fairness

(***************************************************************************)
(* Properties.                                                             *)
(***************************************************************************)
TypeOK ==
    /\ status \in [Runs -> Q!Status \cup {"lost"}]
    /\ guest \in BOOLEAN /\ tick \in BOOLEAN
    /\ published \subseteq Runs /\ callbacks \subseteq Runs
    /\ phase \in {"serving", "decided", "leaving", "signalled", "crashed", "down"}
    /\ requests \subseteq Clients
    /\ refresh \in {"off", "waiting", "pass"}
    /\ wait \in 0 .. Rescan /\ quiet \in 0 .. IdleExit

\* CLOUD_SETUP.md:82-84: with no requests, jobs or sockets the server exits.  It
\* holds without the refresh, or with rescans further apart than the idle time.
ExitsWhenUnused ==
    (Up /\ requests = {} /\ ~Working) ~> (~Up \/ requests # {} \/ Working)

\* exitWhenIdle never stops a server that has an accepted run to finish or whose
\* outcome has still to be told.
NeverDecidesBusy ==
    [][phase # "decided" /\ phase' = "decided" => ~Working /\ ~Working']_vars

\* fly.toml:17-18, the proxy "would kill them mid-run, so the server exits itself
\* once idle": an idle exit kills no job.  The decision is not the exit.
IdleExitKillsNoJob ==
    [][phase = "leaving" /\ phase' = "down" => \A r \in Runs : status'[r] = "lost" => status[r] = "lost"]_vars

\* An accepted run is settled or lost with its server, and only then; the slot of
\* a dead server blocks nobody.
EveryRunEnds ==
    \A r \in Runs : status[r] = "queued" ~> status[r] \in {"done", "failed", "lost"}
=============================================================================
