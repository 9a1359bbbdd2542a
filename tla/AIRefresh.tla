----------------------------- MODULE AIRefresh -----------------------------
(***************************************************************************)
(* The background refresh of saved AI reports: cmd/autoscan-server         *)
(* ai_reanalysis.go with engine/ai_reanalysis.go.  The worker lists the    *)
(* saved results, and for each one whose report has another method it      *)
(* reads, recomputes, backs up and replaces it, by calls that may fail, or *)
(* fail here and land later.  The application updates and deletes results  *)
(* meanwhile; the server stops, crashes and comes back, perhaps with a     *)
(* newer method.  The grading slot's other users are in GradeJobs: here a  *)
(* wait for it is of any length.                                           *)
(***************************************************************************)
EXTENDS ResultStore, Integers, FiniteSets

\* Bounds: server starts, calls that fail, failed writes that may still land.
CONSTANTS MaxBoots, MaxFaults, MaxLate

ASSUME AIRefreshAssumption ==
    MaxBoots \in Nat \ {0} /\ MaxFaults \in Nat /\ MaxLate \in Nat

VARIABLES
    up,       \* the server: up, stopping (the context is cancelled), down
    boots, faults,
    method,   \* domain.AIDetectionMethod of the running engine
    pc,       \* the worker
    unseen,     \* what the listing has still to deliver
    key, body,
    tally,   \* aiRefreshStatus
    late,     \* conditional writes that were given up and may still land
    touched   \* results the application wrote since the pass began

workerVars == <<pc, unseen, key, body, tally>>
serverVars == <<up, boots, faults, method>>
refreshVars == <<obj, backups, up, boots, faults, method, pc, unseen, key, body, tally, late, touched>>

NoKey    == "none"
Zero     == [state |-> "pending", scanned |-> 0, updated |-> 0, current |-> 0, failed |-> 0]
Calling  == {"stat", "get", "analyze", "backup", "put"}
Listing  == [key : Keys, huge : BOOLEAN]
Write    == [to : {"result", "backup"}, key : Keys, old : Content, method : 1 .. MaxMethod]

Current(c) == c.method = method

\* Variant with a bug: a result that fails ends the pass.
CountAndStop(outcome) ==
    /\ tally' = [tally EXCEPT ![outcome] = @ + 1]
    /\ pc' = "listing" /\ key' = NoKey /\ body' = Absent
    /\ unseen' = IF outcome = "failed" THEN {} ELSE unseen

\* The object is done with: it is counted, the slot released, the next one comes.
Count(outcome) ==
    /\ tally' = [tally EXCEPT ![outcome] = @ + 1]
    /\ pc' = "listing" /\ key' = NoKey /\ body' = Absent
    /\ UNCHANGED unseen

(***************************************************************************)
(* A pass.                                                                 *)
(***************************************************************************)
\* At the start, and five minutes after the last one.
BeginScan ==
    /\ pc = "idle" /\ up = "up"
    /\ tally' = [Zero EXCEPT !.state = "running"]
    /\ unseen' = {[key |-> k, huge |-> obj[k].kind = "huge"] : k \in {k \in Keys : obj[k] # Absent}}
    /\ touched' = {}
    /\ pc' = "listing"
    /\ UNCHANGED <<storeVars, serverVars, key, body, late>>

ScanObject(k) ==
    /\ pc = "listing"
    /\ \E e \in unseen :
          /\ e.key = k
          /\ unseen' = unseen \ {e}
          /\ \/ /\ e.huge
                /\ tally' = [tally EXCEPT !.scanned = @ + 1, !.failed = @ + 1]
                /\ UNCHANGED <<pc, key>>
             \/ /\ ~e.huge
                /\ tally' = [tally EXCEPT !.scanned = @ + 1]
                /\ pc' = "waiting" /\ key' = k
    /\ UNCHANGED <<storeVars, serverVars, body, late, touched>>

\* A page of the listing fails: the loop is left.
ListFails ==
    /\ pc = "listing" /\ unseen # {}
    /\ tally' = [tally EXCEPT !.failed = @ + 1]
    /\ unseen' = {} /\ pc' = "leaving"
    /\ faults < MaxFaults /\ faults' = faults + 1
    /\ UNCHANGED <<storeVars, up, boots, method, key, body, late, touched>>

AcquireSlot ==
    /\ pc = "waiting"
    /\ pc' = "stat"
    /\ UNCHANGED <<storeVars, serverVars, unseen, key, body, tally, late, touched>>

Interrupted ==
    /\ pc = "waiting" /\ up = "stopping"
    /\ tally' = [tally EXCEPT !.state = "interrupted"]
    /\ pc' = "idle" /\ key' = NoKey /\ unseen' = {}
    /\ UNCHANGED <<storeVars, serverVars, body, late, touched>>

\* Variant with a bug: complete, whatever failed.
EndScanComplete ==
    /\ pc \in {"listing", "leaving"} /\ (unseen = {} \/ up = "stopping")
    /\ tally' = [tally EXCEPT !.state = IF up = "stopping" THEN "interrupted" ELSE "complete"]
    /\ pc' = "idle" /\ unseen' = {}
    /\ UNCHANGED <<storeVars, serverVars, key, body, late, touched>>

\* A cancelled context ends the listing early.
EndScan ==
    /\ pc \in {"listing", "leaving"} /\ (unseen = {} \/ up = "stopping")
    /\ tally' = [tally EXCEPT !.state = IF up = "stopping" THEN "interrupted"
                                          ELSE IF tally.failed > 0 THEN "retrying"
                                          ELSE "complete"]
    /\ pc' = "idle" /\ unseen' = {}
    /\ UNCHANGED <<storeVars, serverVars, key, body, late, touched>>

(***************************************************************************)
(* refreshSavedAIObject.                                                   *)
(***************************************************************************)
Stat(k) ==
    /\ pc = "stat" /\ key = k
    /\ \/ obj[k] = Absent /\ Count("current")
       \/ obj[k].kind = "huge" /\ Count("failed")
       \/ /\ obj[k].kind \in {"good", "unusable"}
          /\ body' = obj[k] /\ pc' = "get"
          /\ UNCHANGED <<unseen, key, tally>>
    /\ UNCHANGED <<storeVars, serverVars, late, touched>>

\* If-Match on the ETag that Stat saw.
Get(k) ==
    /\ pc = "get" /\ key = k
    /\ \/ obj[k] # body /\ Count("failed")
       \/ obj[k] = body /\ pc' = "analyze" /\ UNCHANGED <<unseen, key, body, tally>>
    /\ UNCHANGED <<storeVars, serverVars, late, touched>>

\* ReanalyzeSavedAIDetection: all or nothing, from the bytes that were read.
Analyze(k) ==
    /\ pc = "analyze" /\ key = k
    /\ \/ Current(body) /\ Count("current")
       \/ ~Current(body) /\ body.kind # "good" /\ Count("failed")
       \/ /\ ~Current(body) /\ body.kind = "good"
          /\ pc' = "backup" /\ UNCHANGED <<unseen, key, body, tally>>
    /\ UNCHANGED <<storeVars, serverVars, late, touched>>

\* What a conditional write does when it reaches the bucket.
LandBackup(k, c) == backups' = [backups EXCEPT ![k] = @ \cup {c}] /\ UNCHANGED obj

\* Variant with a bug: no If-Match on the replacement.
LandResultAlways(k, c, m) ==
    /\ obj' = [obj EXCEPT ![k] = Restamped(c, m)]
    /\ UNCHANGED backups

LandResult(k, c, m) ==
    /\ obj' = [obj EXCEPT ![k] = IF @ = c THEN Restamped(c, m) ELSE @]
    /\ UNCHANGED backups

\* If-None-Match *; a copy that is there already will do.
Backup(k) ==
    /\ pc = "backup" /\ key = k
    /\ LandBackup(k, body)
    /\ pc' = "put"
    /\ UNCHANGED <<serverVars, unseen, key, body, tally, late, touched>>

\* If-Match on the ETag that Stat saw.
PutResult(k) ==
    /\ pc = "put" /\ key = k
    /\ LandResult(k, body, method)
    /\ Count(IF obj[k] = body THEN "updated" ELSE "failed")
    /\ UNCHANGED <<serverVars, late, touched>>

\* The write that is under way when the worker is at one.
UnderWay ==
    {[to |-> t, key |-> key, old |-> body, method |-> method] :
        t \in IF pc = "put" THEN {"result"} ELSE IF pc = "backup" THEN {"backup"} ELSE {}}

GivesUp ==
    \/ UNCHANGED late
    \/ Cardinality(late \cup UnderWay) <= MaxLate /\ late' = late \cup UnderWay

\* A call fails, times out or is cancelled; a write may land all the same.
CallFails ==
    /\ pc \in Calling
    /\ Count("failed")
    /\ GivesUp
    /\ faults < MaxFaults /\ faults' = faults + 1
    /\ UNCHANGED <<storeVars, up, boots, method, touched>>

LateWrite(w) ==
    /\ w \in late
    /\ late' = late \ {w}
    /\ \/ w.to = "backup" /\ LandBackup(w.key, w.old)
       \/ w.to = "result" /\ LandResult(w.key, w.old, w.method)
       \/ UNCHANGED storeVars
    /\ UNCHANGED <<serverVars, workerVars, touched>>

(***************************************************************************)
(* The application and the server's life.                                  *)
(***************************************************************************)
AppWrites(k) ==
    /\ AppUpdates(k) \/ AppDeletes(k)
    /\ touched' = touched \cup {k}
    /\ UNCHANGED <<serverVars, workerVars, late>>

Stop ==
    /\ up = "up" /\ boots < MaxBoots
    /\ up' = "stopping"
    /\ UNCHANGED <<storeVars, boots, faults, method, workerVars, late, touched>>

\* A crash, or the end of a graceful stop; the tally is the process's own.
Cease ==
    /\ up # "down" /\ boots < MaxBoots
    /\ up' = "down"
    /\ pc' = "down" /\ unseen' = {} /\ key' = NoKey /\ body' = Absent /\ tally' = Zero
    /\ GivesUp
    /\ UNCHANGED <<storeVars, boots, faults, method, touched>>

Restart ==
    /\ up = "down"
    /\ up' = "up" /\ boots' = boots + 1
    /\ \E m \in method .. MaxMethod : method' = m
    /\ pc' = "idle"
    /\ UNCHANGED <<storeVars, faults, unseen, key, body, tally, late, touched>>

RefreshInit ==
    /\ StoreInit
    /\ up = "up" /\ boots = 1 /\ faults = 0 /\ method = 1
    /\ \A k \in Keys : obj[k].method <= method
    /\ pc = "idle" /\ unseen = {} /\ key = NoKey /\ body = Absent /\ tally = Zero
    /\ late = {} /\ touched = {}

ObjectStep(k) == Stat(k) \/ Get(k) \/ Analyze(k) \/ Backup(k) \/ PutResult(k)

WorkerStep ==
    \/ BeginScan \/ AcquireSlot \/ Interrupted \/ EndScan
    \/ \E k \in Keys : ScanObject(k) \/ ObjectStep(k)

RefreshNext ==
    \/ WorkerStep \/ ListFails \/ CallFails \/ Stop \/ Cease \/ Restart
    \/ \E k \in Keys : AppWrites(k)
    \/ \E w \in late : LateWrite(w)

RefreshSpec == RefreshInit /\ [][RefreshNext]_refreshVars

\* The worker runs, a stop ends and a stopped server comes back; the bounds say that
\* the object store works in the end and the last server stays up.
RefreshFairness == WF_refreshVars(WorkerStep) /\ WF_refreshVars(Restart) /\ WF_refreshVars(up = "stopping" /\ Cease)

RefreshFairSpec == RefreshSpec /\ RefreshFairness

(***************************************************************************)
(* Properties.                                                             *)
(***************************************************************************)
RefreshTypeOK ==
    /\ obj \in [Keys -> Content \cup {Absent}]
    /\ backups \in [Keys -> SUBSET Content]
    /\ up \in {"up", "stopping", "down"} /\ boots \in 1 .. MaxBoots /\ faults \in 0 .. MaxFaults
    /\ method \in 1 .. MaxMethod
    /\ pc \in {"down", "idle", "listing", "leaving", "waiting"} \cup Calling
    /\ unseen \subseteq Listing
    /\ key \in Keys \cup {NoKey} /\ body \in Content \cup {Absent}
    /\ tally \in [state : {"pending", "running", "complete", "retrying", "interrupted"},
                   scanned : Nat, updated : Nat, current : Nat, failed : Nat]
    /\ late \subseteq Write
    /\ touched \subseteq Keys

\* "Conditional object writes prevent overwriting concurrent updates": whatever
\* call fails, lands late or is repeated by another process, the refresh changes
\* nothing but the stamp of what is there, and only after keeping a copy of it.
ImplementsResultStore == StoreSpec

\* GET /ai-reanalysis: the counters account for every result that was scanned, and
\* "complete" means that each result the application left alone since the pass
\* began has the current method, or is gone.
StatusHonest ==
    LET gap == tally.scanned - (tally.updated + tally.current + tally.failed) IN
    /\ pc \in {"waiting"} \cup Calling => gap = 1
    /\ pc = "listing" => gap = 0
    /\ pc = "idle" => gap \in CASE tally.state = "interrupted" -> {-1, 0, 1}
                                [] tally.state = "retrying" -> {-1, 0}
                                [] OTHER -> {0}
    /\ tally.state = "complete" =>
          \A k \in Keys \ touched : obj[k] # Absent => Current(obj[k])

\* "The worker retries failures ... resumes on restart": a saved result of another
\* method whose sources are all there is refreshed in the end, unless the
\* application changes or deletes it first, whatever its neighbours are like.
Stale(k) == obj[k].kind = "good" /\ ~Current(obj[k])
EveryStaleRefreshed == \A k \in Keys : Stale(k) ~> ~Stale(k)
=============================================================================
