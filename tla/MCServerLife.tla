---------------------------- MODULE MCServerLife ----------------------------
(* Finite instances of ServerLife. *)
EXTENDS ServerLife
=============================================================================
