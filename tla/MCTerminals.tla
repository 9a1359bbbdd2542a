---------------------------- MODULE MCTerminals ----------------------------
(* Finite instances of Terminals. *)
EXTENDS Terminals
=============================================================================
