--------------------------- MODULE MCGradeService ---------------------------
(* Finite instances of GradeService. *)
EXTENDS GradeService
=============================================================================
