---------------------------- MODULE MCGradeJobs ----------------------------
(* Finite instances of GradeJobs. *)
EXTENDS GradeJobs, TLC

\* Runs are interchangeable as long as all or none are hooked and exporting.
RunSymmetry == Permutations(Runs)
=============================================================================
