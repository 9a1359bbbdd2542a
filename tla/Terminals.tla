----------------------------- MODULE Terminals -----------------------------
(***************************************************************************)
(* Behind GET /terminal: the sessions (TermSession), and the shells of one *)
(* of them (PaneHost).  They meet in single steps that each has as its     *)
(* own, an OpenPane that succeeds or fails and the pane-host's end.  So a  *)
(* behaviour here is one of the two.                                       *)
(***************************************************************************)
EXTENDS TermSession, PaneHost

VARIABLE part    \* the one

TerminalsInit == Init /\ PaneHostInit /\ part \in {"sessions", "shells"}

SessionsMove == part = "sessions" /\ Next /\ UNCHANGED <<paneVars, part>>
ShellsMove   == part = "shells" /\ PaneHostNext /\ UNCHANGED <<vars, part>>

TerminalsNext == SessionsMove \/ ShellsMove

TerminalsSpec == TerminalsInit /\ [][TerminalsNext]_<<vars, paneVars, part>>

TerminalsFairSpec == TerminalsSpec /\ Fairness /\ PaneHostFairness

\* Whatever is being made, is waited for or runs has a goroutine at work for it, in
\* every order of failures, exits, timers and departures: a Join the creator of its
\* session, a shell the goroutine of serve that will end it.
Attended == CreatorAtWork /\ ShellsLookedAfter
=============================================================================
