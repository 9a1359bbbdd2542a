---------------------------- MODULE GradeService ----------------------------
(***************************************************************************)
(* The grading service with its run directories seen twice: among the jobs *)
(* of one server, where a directory is one thing (GradeJobs), and on the   *)
(* volume, in pieces, with the terminals that read them and the crashes    *)
(* (RunStore).  A behaviour here is one of the two.                        *)
(***************************************************************************)
EXTENDS GradeJobs, RunStore

VARIABLE view    \* the one

ServiceInit == Init /\ RunStoreInit /\ view \in {"jobs", "disk"}

JobsMove  == view = "jobs" /\ Next /\ UNCHANGED <<runStoreVars, view>>
DiskMoves == view = "disk" /\ RunStoreNext /\ UNCHANGED <<vars, view>>

ServiceNext == JobsMove \/ DiskMoves

ServiceSpec == ServiceInit /\ [][ServiceNext]_<<vars, runStoreVars, view>>
=============================================================================
