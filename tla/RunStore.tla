------------------------------ MODULE RunStore ------------------------------
(***************************************************************************)
(* The run directories of the data volume: what a grade job writes there,  *)
(* what pruneOldRuns and a failed job remove, and what a terminal reads    *)
(* and, for a run that has no config of its own, fetches (runs.go,         *)
(* setup.go, terminal.go).  os.RemoveAll takes a directory apart piece by  *)
(* piece in any order, beside everyone else, and a crash may interrupt it. *)
(*                                                                         *)
(* There is one grade job at a time (GradeJobs' SlotExclusive), and a boot *)
(* prunes before it serves: both are the Grader here.  Only the request    *)
(* that creates a session reads a run's directory.                         *)
(***************************************************************************)
EXTENDS Integers, Sequences, SequencesExt

CONSTANTS
    Legacy,     \* runs graded before configs were kept
    New,        \* runs to be graded
    Terms,      \* terminal requests at once
    Grader, NoRun,
    MaxBoots    \* bound

Kept == Legacy \cup New

ASSUME RunStoreAssumption ==
    /\ Legacy \cap New = {} /\ IsFiniteSet(Legacy)
    /\ Grader \notin Terms /\ NoRun \notin Kept /\ MaxBoots \in Nat \ {0}

VARIABLES
    byTime,     \* the directories, by modification time, the newest last
    piece,      \* their run.json, workspace and config
    graded,     \* runs whose result was uploaded
    removed,    \* runs that a RemoveAll has begun with
    actor,      \* the job and the terminal requests
    victims,    \* what a prune has still before it
    target,     \* the run that RemoveAll is at
    bootCount

storeFiles == <<byTime, piece>>
runStoreVars == <<byTime, piece, graded, removed, actor, victims, target, bootCount>>

Pieces == {"state", "workspace", "config"}
Actors == Terms \cup {Grader}
Idle == [pc |-> "idle", run |-> NoRun, staging |-> "none", due |-> FALSE, failed |-> FALSE,
         files |-> "absent", libs |-> "absent"]

Stands(a, pc) == actor[a].pc = pc
RunOf(a) == actor[a].run
MoveOn(a, pc) == actor' = [actor EXCEPT ![a].pc = pc]
Has(r, p) == piece[r][p]
Exists(r) == r \in ToSet(byTime)
Serving == ~Stands(Grader, "boot")

\* An entry of the directory was made or removed: it is the newest now.
Newest(r) == Append(RemoveFirst(byTime, r), r)
Touched(r) == byTime' = Newest(r)
Left(r) == byTime' = IF Exists(r) THEN Newest(r) ELSE byTime

(***************************************************************************)
(* fetchAssignmentConfig, by a job or by a terminal.                       *)
(***************************************************************************)
\* Variant with a bug: it downloads into the config directory itself.
OpenStagingInPlace(a) ==
    /\ Stands(a, "fetch")
    /\ Touched(RunOf(a))
    /\ piece' = [piece EXCEPT ![RunOf(a)].config = IF @ = "absent" THEN "part" ELSE @]
    /\ actor' = [actor EXCEPT ![a].pc = "globals", ![a].staging = "empty"]
    /\ UNCHANGED <<graded, removed, victims, target, bootCount>>

\* MkdirAll of the run, then MkdirTemp in it.
OpenStaging(a) ==
    /\ Stands(a, "fetch")
    /\ Touched(RunOf(a))
    /\ actor' = [actor EXCEPT ![a].pc = "globals", ![a].staging = "empty"]
    /\ UNCHANGED <<piece, graded, removed, victims, target, bootCount>>

\* Every download makes the directories it needs, should they be gone.
Globals(a) ==
    /\ Stands(a, "globals")
    /\ byTime' = IF actor[a].staging = "none" THEN Newest(RunOf(a)) ELSE byTime
    /\ actor' = [actor EXCEPT ![a].pc = "prefix", ![a].staging = "half"]
    /\ UNCHANGED <<piece, graded, removed, victims, target, bootCount>>

Prefix(a) ==
    /\ Stands(a, "prefix")
    /\ byTime' = IF actor[a].staging = "none" THEN Newest(RunOf(a)) ELSE byTime
    /\ actor' = [actor EXCEPT ![a].pc = "activate",
                              ![a].staging = IF @ = "half" THEN "whole" ELSE "part"]
    /\ UNCHANGED <<piece, graded, removed, victims, target, bootCount>>

\* What follows a fetch, or its error.
Fetched(a) == IF a = Grader THEN "download" ELSE "copy"
FetchError(a) == IF a = Grader THEN "failing" ELSE "refused"

\* The token names no assignment, R2 has none or no policy in it, or it or the disk fails.
FetchFails(a) ==
    /\ actor[a].pc \in {"fetch", "globals", "prefix", "activate"}
    /\ Left(RunOf(a))
    /\ actor' = [actor EXCEPT ![a].pc = FetchError(a), ![a].staging = "none", ![a].failed = TRUE]
    /\ UNCHANGED <<piece, graded, removed, victims, target, bootCount>>

\* Variant with a bug: a rename that fails is an error, whoever was first.
ActivateStrict(a) ==
    /\ Stands(a, "activate")
    /\ LET r == RunOf(a)
           renamed == actor[a].staging # "none" /\ Has(r, "config") = "absent" IN
       /\ piece' = IF renamed THEN [piece EXCEPT ![r].config = actor[a].staging] ELSE piece
       /\ Left(r)
       /\ actor' = [actor EXCEPT ![a].pc = IF renamed THEN Fetched(a) ELSE FetchError(a),
                                 ![a].staging = "none"]
    /\ UNCHANGED <<graded, removed, victims, target, bootCount>>

\* The rename fails over a directory that is not empty; then that one will do if
\* it has a policy.
Activate(a) ==
    /\ Stands(a, "activate")
    /\ LET r == RunOf(a)
           renamed == actor[a].staging # "none" /\ Has(r, "config") = "absent"
           theirs == Has(r, "config") = "whole" IN
       /\ piece' = IF renamed THEN [piece EXCEPT ![r].config = actor[a].staging] ELSE piece
       /\ Left(r)
       /\ \E ok \in {renamed \/ theirs, renamed \/ Has(r, "config") # "absent"} :
             actor' = [actor EXCEPT ![a].pc = IF ok THEN Fetched(a) ELSE FetchError(a),
                                    ![a].staging = "none"]
    /\ UNCHANGED <<graded, removed, victims, target, bootCount>>

FetchStep(a) == OpenStaging(a) \/ Globals(a) \/ Prefix(a) \/ FetchFails(a) \/ Activate(a)

(***************************************************************************)
(* A grade job: executeGradeJob, as far as the disk is concerned.          *)
(***************************************************************************)
BeginGrade(r) ==
    /\ Stands(Grader, "idle") /\ r \in New \ (graded \cup removed) /\ ~Exists(r)
    /\ Touched(r)
    /\ actor' = [actor EXCEPT ![Grader] = [Idle EXCEPT !.pc = "fetch", !.run = r]]
    /\ UNCHANGED <<piece, graded, removed, victims, target, bootCount>>

Write1(pc, p, value, next) ==
    /\ Stands(Grader, pc)
    /\ piece' = [piece EXCEPT ![RunOf(Grader)][p] = value]
    /\ MoveOn(Grader, next)
    /\ UNCHANGED <<graded, removed, victims, target, bootCount>>

\* The upload, and extractZip: file by file; the archive is removed at the end.
BeginExtract == Write1("download", "workspace", "part", "extract") /\ Touched(RunOf(Grader))
EndExtract == Write1("extract", "workspace", "whole", "save") /\ Touched(RunOf(Grader))

\* os.WriteFile creates run.json and then writes it.
BeginSave == Write1("save", "state", "part", "saving") /\ Touched(RunOf(Grader))
EndSave == Write1("saving", "state", "whole", "saved") /\ UNCHANGED byTime

\* The result is uploaded; pruneOldRuns lists the directories as they are then.
Upload ==
    /\ Stands(Grader, "saved")
    /\ graded' = graded \cup {RunOf(Grader)}
    /\ MoveOn(Grader, "prune")
    /\ victims' = Front(byTime)
    /\ UNCHANGED <<storeFiles, removed, target, bootCount>>

JobFails ==
    /\ actor[Grader].pc \in {"download", "extract", "save", "saving", "saved"}
    /\ MoveOn(Grader, "failing")
    /\ UNCHANGED <<storeFiles, graded, removed, victims, target, bootCount>>

\* The deferred RemoveAll.
CleanUp ==
    /\ Stands(Grader, "failing")
    /\ target' = RunOf(Grader)
    /\ removed' = removed \cup {RunOf(Grader)}
    /\ MoveOn(Grader, "cleaning")
    /\ UNCHANGED <<storeFiles, graded, victims, bootCount>>

(***************************************************************************)
(* RemoveAll and the prune.                                                *)
(***************************************************************************)
Pruning == actor[Grader].pc \in {"prune", "boot"}

\* The disk is past its high water: the oldest run that is left goes.
RemoveOldest ==
    /\ Pruning /\ target = NoRun /\ victims # <<>>
    /\ target' = Head(victims) /\ victims' = Tail(victims)
    /\ removed' = removed \cup {Head(victims)}
    /\ UNCHANGED <<storeFiles, graded, actor, bootCount>>

RemovePiece ==
    /\ target # NoRun
    /\ \E p \in Pieces, v \in {"part", "absent"} :
          /\ Has(target, p) = "whole" \/ (Has(target, p) = "part" /\ v = "absent")
          /\ piece' = [piece EXCEPT ![target][p] = v]
          /\ byTime' = IF v = "absent" THEN Newest(target) ELSE byTime
    /\ UNCHANGED <<graded, removed, actor, victims, target, bootCount>>

\* A staging directory goes as well; the fetch will notice or not.
RemoveStaging(t) ==
    /\ target # NoRun /\ RunOf(t) = target /\ actor[t].staging # "none"
    /\ Touched(target)
    /\ actor' = [actor EXCEPT ![t].staging = "none"]
    /\ UNCHANGED <<piece, graded, removed, victims, target, bootCount>>

Emptied(r) ==
    /\ \A p \in Pieces : Has(r, p) = "absent"
    /\ \A t \in Terms : RunOf(t) = r => actor[t].staging = "none"

\* The directory itself; or RemoveAll gives up, and nobody looks at its error.
EndRemove ==
    /\ target # NoRun
    /\ byTime' = IF Emptied(target) THEN RemoveFirst(byTime, target) ELSE byTime
    /\ target' = NoRun
    /\ actor' = IF Stands(Grader, "cleaning") THEN [actor EXCEPT ![Grader] = Idle] ELSE actor
    /\ UNCHANGED <<piece, graded, removed, victims, bootCount>>

\* No more to remove, or room enough.
EndPrune ==
    /\ Pruning /\ target = NoRun
    /\ victims' = <<>>
    /\ actor' = [actor EXCEPT ![Grader] = Idle]
    /\ UNCHANGED <<storeFiles, graded, removed, target, bootCount>>

(***************************************************************************)
(* A terminal's first request: submissionScratch and buildTerminalScratch. *)
(***************************************************************************)
\* loadRunState.
Ask(t, r) ==
    /\ Serving /\ Stands(t, "idle")
    /\ actor' = [actor EXCEPT ![t] =
                    [Idle EXCEPT !.pc = IF Has(r, "state") = "whole" THEN "stat" ELSE "refused",
                                 !.run = r, !.due = r \in graded]]
    /\ UNCHANGED <<storeFiles, graded, removed, victims, target, bootCount>>

\* The submission's workspace: 410 when it is not there.
StatWorkspace(t) ==
    /\ Stands(t, "stat")
    /\ MoveOn(t, IF Has(RunOf(t), "workspace") = "absent" THEN "refused" ELSE "config")
    /\ UNCHANGED <<storeFiles, graded, removed, victims, target, bootCount>>

\* runConfig.
StatConfig(t) ==
    /\ Stands(t, "config")
    /\ MoveOn(t, IF Has(RunOf(t), "config") = "absent" THEN "fetch" ELSE "copy")
    /\ UNCHANGED <<storeFiles, graded, removed, victims, target, bootCount>>

\* copyTree fails on what it has listed and does not find.
CopyTree(t) ==
    /\ Stands(t, "copy")
    /\ LET value == Has(RunOf(t), "workspace") IN
       \/ value # "whole" /\ MoveOn(t, "refused")
       \/ value # "absent" /\ actor' = [actor EXCEPT ![t].pc = "libraries", ![t].files = value]
    /\ UNCHANGED <<storeFiles, graded, removed, victims, target, bootCount>>

\* copyFilesNoClobber; a directory that is not there has no files to copy.
CopyLibraries(t) ==
    /\ Stands(t, "libraries")
    /\ actor' = [actor EXCEPT ![t].pc = "shell", ![t].libs = Has(RunOf(t), "config")]
    /\ UNCHANGED <<storeFiles, graded, removed, victims, target, bootCount>>

Leave(t) ==
    /\ actor[t].pc \in {"shell", "refused"}
    /\ actor' = [actor EXCEPT ![t] = Idle]
    /\ UNCHANGED <<storeFiles, graded, removed, victims, target, bootCount>>

(***************************************************************************)
(* The process dies and comes back; main prunes before it listens.         *)
(***************************************************************************)
Reboot ==
    /\ bootCount < MaxBoots
    /\ bootCount' = bootCount + 1
    /\ actor' = [a \in Actors |-> IF a = Grader THEN [Idle EXCEPT !.pc = "boot"] ELSE Idle]
    /\ victims' = (IF byTime = <<>> THEN <<>> ELSE Front(byTime))
    /\ target' = NoRun
    /\ UNCHANGED <<storeFiles, graded, removed>>

RunStoreInit ==
    /\ byTime = SetToSeq(Legacy)
    /\ piece = [r \in Kept |-> [p \in Pieces |->
                   IF r \in Legacy /\ p # "config" THEN "whole" ELSE "absent"]]
    /\ graded = Legacy /\ removed = {}
    /\ actor = [a \in Actors |-> Idle] /\ victims = <<>> /\ target = NoRun /\ bootCount = 1

RunStoreNext ==
    \/ \E a \in Actors : FetchStep(a)
    \/ \E r \in New : BeginGrade(r)
    \/ BeginExtract \/ EndExtract \/ BeginSave \/ EndSave \/ Upload \/ JobFails \/ CleanUp
    \/ RemoveOldest \/ RemovePiece \/ EndRemove \/ EndPrune
    \/ \E t \in Terms : \/ RemoveStaging(t) \/ StatWorkspace(t) \/ StatConfig(t)
                        \/ CopyTree(t) \/ CopyLibraries(t) \/ Leave(t)
                        \/ \E r \in Kept : Ask(t, r)
    \/ Reboot

RunStoreSpec == RunStoreInit /\ [][RunStoreNext]_runStoreVars

(***************************************************************************)
(* Properties.                                                             *)
(***************************************************************************)
RunStoreTypeOK ==
    /\ byTime \in Seq(Kept) /\ victims \in Seq(Kept) /\ target \in Kept \cup {NoRun}
    /\ piece \in [Kept -> [Pieces -> {"absent", "part", "whole"}]]
    /\ graded \subseteq Kept /\ removed \subseteq Kept /\ bootCount \in 1 .. MaxBoots

\* CLOUD_SETUP.md:124: a run's terminal gets the submission, and the libraries and
\* test files, all of them: setup.go:25 "Staging then renaming keeps dest
\* all-or-nothing when two callers race to create it".  Only a run that is being
\* removed, or was when the server crashed, can give it less.
ShellWhole ==
    \A t \in Terms : Stands(t, "shell") =>
        (actor[t].files = "whole" /\ actor[t].libs = "whole") \/ RunOf(t) \in removed

\* A terminal of a graded run is refused only when the run is being removed or its
\* config cannot be fetched: not because another terminal fetches it too, nor
\* because of the jobs and crashes around it.
RefusedWithReason ==
    \A t \in Terms : Stands(t, "refused") /\ actor[t].due => actor[t].failed \/ RunOf(t) \in removed

\* runs.go:137, "Never removes the newest run, so a just-graded run keeps its
\* terminal": a job's prune spares the run it has graded.
JustGradedKeepsTerminal ==
    Stands(Grader, "prune") => RunOf(Grader) \notin removed
=============================================================================
