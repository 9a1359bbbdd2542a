------------------------------ MODULE PaneHost ------------------------------
(***************************************************************************)
(* The pane-host of one session: it starts a shell for each connection on  *)
(* its control socket, hands the terminal over, and ends the shell when    *)
(* the connection drops, or all of them when its stdin does (panehost.go,  *)
(* with the engine's end of a connection in protocol.go and pane.go).      *)
(*                                                                         *)
(* A shell is the process group of its bash.  Once cmd.Wait has reaped it, *)
(* its process id is free, and whatever is sent to that id goes to nobody  *)
(* or to a later process; ids themselves are left out.  The session's      *)
(* sandbox ends with the pane-host, and every shell with the sandbox.      *)
(***************************************************************************)
EXTENDS Integers, FiniteSets

CONSTANT Panes    \* connections

VARIABLES
    link,      \* the connection: none, open, or shut by either side
    serve,     \* its goroutine in the pane-host
    shell,     \* none, running, exited, reaped, known: the channel exited is closed
    procs,     \* h.procs
    killer,    \* killAll: off, hung up, killed, over
    doomed     \* its copy of procs

paneVars == <<link, serve, shell, procs, killer, doomed>>

Up(p) == killer # "over" /\ shell[p] = "running"
Exited(p) == shell[p] = "known"
Serve(p, from, to) == killer # "over" /\ serve[p] = from /\ serve' = [serve EXCEPT ![p] = to]

(***************************************************************************)
(* The engine: OpenPane, and ServePane's finish.                           *)
(***************************************************************************)
Dial(p) ==
    /\ killer # "over" /\ link[p] = "none"
    /\ link' = [link EXCEPT ![p] = "open"]
    /\ serve' = [serve EXCEPT ![p] = "reading"]
    /\ UNCHANGED <<shell, procs, killer, doomed>>

\* The ten seconds of an open, a bad reply, or the end of the pane.
Drop(p) ==
    /\ link[p] = "open"
    /\ link' = [link EXCEPT ![p] = "shut"]
    /\ UNCHANGED <<serve, shell, procs, killer, doomed>>

(***************************************************************************)
(* paneSet.serve.                                                          *)
(***************************************************************************)
\* The request is cut off or not understood, or bash will not start.
Unserved(p) ==
    /\ Serve(p, "reading", "done")
    /\ link' = [link EXCEPT ![p] = "shut"]
    /\ UNCHANGED <<shell, procs, killer, doomed>>

StartShell(p) ==
    /\ Serve(p, "reading", "started")
    /\ shell' = [shell EXCEPT ![p] = "running"]
    /\ UNCHANGED <<link, procs, killer, doomed>>

AddProcess(p) ==
    /\ Serve(p, "started", "replying")
    /\ procs' = procs \cup {p}
    /\ UNCHANGED <<link, shell, killer, doomed>>

\* The reply carries the terminal; from here on a goroutine waits for the shell.
Reply(p) ==
    /\ link[p] = "open"
    /\ Serve(p, "replying", "watching")
    /\ UNCHANGED <<link, shell, procs, killer, doomed>>

\* Variant with a bug: a reply that fails ends the matter.
ReplyForgets(p) ==
    /\ Serve(p, "replying", "done")
    /\ link' = [link EXCEPT ![p] = "shut"]
    /\ UNCHANGED <<shell, procs, killer, doomed>>

ReplyFails(p) ==
    /\ Serve(p, "replying", "hangup")
    /\ UNCHANGED <<link, shell, procs, killer, doomed>>

\* The goroutine of cmd.Wait: the process is reaped ...
Reap(p) ==
    /\ killer # "over" /\ shell[p] = "exited"
    /\ serve[p] \notin {"started", "replying"}
    /\ shell' = [shell EXCEPT ![p] = "reaped"]
    /\ UNCHANGED <<link, serve, procs, killer, doomed>>

\* ... taken off the list, and exited is closed.
CloseExited(p) ==
    /\ killer # "over" /\ shell[p] = "reaped"
    /\ shell' = [shell EXCEPT ![p] = "known"]
    /\ procs' = procs \ {p}
    /\ UNCHANGED <<link, serve, killer, doomed>>

\* The exit is reported, and the connection closed.
TellExit(p) ==
    /\ Exited(p)
    /\ Serve(p, "watching", "done")
    /\ link' = [link EXCEPT ![p] = "shut"]
    /\ UNCHANGED <<shell, procs, killer, doomed>>

SeeDrop(p) ==
    /\ link[p] = "shut"
    /\ Serve(p, "watching", "hangup")
    /\ UNCHANGED <<link, shell, procs, killer, doomed>>

(***************************************************************************)
(* hangupPane.                                                             *)
(***************************************************************************)
\* SIGHUP, which a shell may ignore.
HangUp(p) ==
    /\ Serve(p, "hangup", "hung up")
    /\ \/ UNCHANGED shell
       \/ Up(p) /\ shell' = [shell EXCEPT ![p] = "exited"]
    /\ UNCHANGED <<link, procs, killer, doomed>>

\* SIGKILL after two seconds, a wait of five more.  A select takes either of two
\* channels that are ready, so exited may be closed already.
KillPane(p) ==
    /\ Serve(p, "hung up", "killed")
    /\ shell' = [shell EXCEPT ![p] = IF @ = "running" THEN "exited" ELSE @]
    /\ UNCHANGED <<link, procs, killer, doomed>>

EndServe(p) ==
    /\ \/ Exited(p) /\ Serve(p, "hung up", "done")
       \/ Serve(p, "killed", "done")
    /\ link' = [link EXCEPT ![p] = "shut"]
    /\ UNCHANGED <<shell, procs, killer, doomed>>

(***************************************************************************)
(* The shells, and the end of the pane-host.                               *)
(***************************************************************************)
ShellEnds(p) ==
    /\ Up(p)
    /\ shell' = [shell EXCEPT ![p] = "exited"]
    /\ UNCHANGED <<link, serve, procs, killer, doomed>>

\* Stdin's end, SIGTERM or SIGINT: killAll copies procs and hangs them up ...
Shutdown ==
    /\ killer = "off"
    /\ killer' = "hung up"
    /\ doomed' = procs
    /\ \E gone \in SUBSET {p \in procs : shell[p] = "running"} :
          shell' = [p \in Panes |-> IF p \in gone THEN "exited" ELSE shell[p]]
    /\ UNCHANGED <<link, serve, procs>>

\* ... and kills them 0.3 s later.
KillAll ==
    /\ killer = "hung up"
    /\ killer' = "killed"
    /\ shell' = [p \in Panes |-> IF p \in doomed /\ shell[p] = "running" THEN "exited" ELSE shell[p]]
    /\ UNCHANGED <<link, serve, procs, doomed>>

\* os.Exit; or the engine's SIGKILL for the whole sandbox, at any time.
HostEnds ==
    /\ killer # "over"
    /\ killer' = "over"
    /\ link' = [p \in Panes |-> IF link[p] = "open" THEN "shut" ELSE link[p]]
    /\ shell' = [p \in Panes |-> IF shell[p] = "none" THEN "none" ELSE "reaped"]
    /\ serve' = [p \in Panes |-> "done"]
    /\ procs' = {} /\ doomed' = {}

PaneHostInit ==
    /\ link = [p \in Panes |-> "none"] /\ serve = [p \in Panes |-> "none"]
    /\ shell = [p \in Panes |-> "none"]
    /\ procs = {} /\ killer = "off" /\ doomed = {}

ServeStep(p) ==
    \/ Unserved(p) \/ StartShell(p) \/ AddProcess(p) \/ Reply(p) \/ ReplyFails(p)
    \/ TellExit(p) \/ SeeDrop(p) \/ HangUp(p) \/ KillPane(p) \/ EndServe(p)

PaneHostNext ==
    \/ \E p \in Panes : Dial(p) \/ Drop(p) \/ ServeStep(p) \/ Reap(p) \/ CloseExited(p) \/ ShellEnds(p)
    \/ Shutdown \/ KillAll \/ HostEnds

PaneHostSpec == PaneHostInit /\ [][PaneHostNext]_paneVars

\* Goroutines run, timers fire, SIGKILL works.  A shell need not end, nor a
\* connection close, nor the pane-host be told to end.
PaneHostFairness ==
    \A p \in Panes :
        WF_paneVars(ServeStep(p)) /\ WF_paneVars(Reap(p)) /\ WF_paneVars(CloseExited(p))

(***************************************************************************)
(* Properties.                                                             *)
(***************************************************************************)
PaneHostTypeOK ==
    /\ link \in [Panes -> {"none", "open", "shut"}]
    /\ serve \in [Panes -> {"none", "reading", "started", "replying", "watching", "hangup",
                            "hung up", "killed", "done"}]
    /\ shell \in [Panes -> {"none", "running", "exited", "reaped", "known"}]
    /\ procs \subseteq Panes /\ doomed \subseteq Panes
    /\ killer \in {"off", "hung up", "killed", "over"}

\* A shell runs only as long as a goroutine is there to end it, whatever became of
\* the reply, the connection and the two timers of hangupPane; and killAll finds it
\* in procs, but for the moment between its start and its entry.
ShellsLookedAfter ==
    \A p \in Panes : shell[p] = "running" =>
        /\ serve[p] \notin {"killed", "done"}
        /\ p \in procs \/ serve[p] = "started"

\* A shell whose connection drops, even before the engine has its terminal, is
\* ended though it ignores the hangup; and a shell's end ends its connection, from
\* which the engine learns it when the terminal itself stays open.
PaneEnds ==
    \A p \in Panes :
        /\ (link[p] = "shut" /\ shell[p] = "running") ~> shell[p] # "running"
        /\ shell[p] = "exited" ~> link[p] = "shut"
=============================================================================
