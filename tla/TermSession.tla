---------------------------- MODULE TermSession ----------------------------
(***************************************************************************)
(* Terminal sessions: internal/terminal/session.go and the life of a pane  *)
(* in pane.go.  A browser opens one connection per pane; the first one of  *)
(* a session id creates the session (scratch directory, sandbox with its   *)
(* pane-host), the others wait for it, and the session is torn down by its *)
(* timers or when the pane-host exits.                                     *)
(*                                                                         *)
(* A member of Sessions stands for a *Session; one that is over and no     *)
(* longer referred to may stand for a new one.  Its id is where the table  *)
(* lists it, which is all teardown asks.  The idle and the lifetime        *)
(* timer are one action, so touch, which postpones the first, changes      *)
(* nothing here.  TeardownAll, called as the process ends, is left out.    *)
(***************************************************************************)
EXTENDS Integers, FiniteSets

CONSTANTS
    Ids,          \* session ids of the tokens
    Conns,        \* WebSocket connections
    Sessions,     \* session objects alive at once
    MaxSessions,
    MaxPanes,     \* claims.Panes of the creating token
    None

ASSUME TermSessionAssumption ==
    /\ MaxSessions \in Nat \ {0} /\ MaxPanes \in Nat \ {0}
    /\ None \notin Ids \cup Sessions

VARIABLES
    table,     \* sessions.m
    stage,     \* how far create and then teardown have come
    scratch,   \* the scratch directory exists
    host,      \* the sandbox: none, running, exited
    panes, linger,
    due,       \* sessions whose timer has fired and whose teardown has not begun
    conn       \* pc: away, joining, creating, waiting, opening, serving

sessionVars == <<stage, scratch, host, panes, linger, due>>
vars == <<table, stage, scratch, host, panes, linger, due, conn>>

Creating == {"building", "starting", "launched", "failing"}
Ending   == {"flagged", "unlisted", "ended", "killed", "gone"}
Stages   == {"free", "failed", "ready"} \cup Creating \cup Ending

Away == [pc |-> "away", id |-> None, ses |-> None, attempt |-> 0]
Pc(c) == conn[c].pc
Ses(c) == conn[c].ses
MoveTo(c, pc) == conn' = [conn EXCEPT ![c].pc = pc]
Close(c) == conn' = [conn EXCEPT ![c] = Away]

Listed == {table[i] : i \in Ids} \ {None}
Attached(s) == {c \in Conns : Ses(c) = s /\ Pc(c) \in {"opening", "serving"}}
Over(s) == stage[s] \in {"free", "failed", "gone"} /\ host[s] # "running"
\* A new object: any one that is no longer used stands for it.
Spare == LET unused == {s \in Sessions : Over(s) /\ \A c \in Conns : Ses(c) # s}
         IN  IF unused = {} THEN {} ELSE {CHOOSE s \in unused : TRUE}
Delete(s) == table' = [i \in Ids |-> IF table[i] = s THEN None ELSE table[i]]

(***************************************************************************)
(* Join.                                                                   *)
(***************************************************************************)
Connect(c, i) ==
    /\ Pc(c) = "away"
    /\ conn' = [conn EXCEPT ![c] = [Away EXCEPT !.pc = "joining", !.id = i]]
    /\ UNCHANGED <<table, sessionVars>>

NewSession(c, s) ==
    /\ table' = [table EXCEPT ![conn[c].id] = s]
    /\ stage' = [stage EXCEPT ![s] = "building"]
    /\ host' = [host EXCEPT ![s] = "none"]
    /\ panes' = [panes EXCEPT ![s] = 0]
    /\ linger' = [linger EXCEPT ![s] = "none"]
    /\ due' = due \ {s}
    /\ conn' = [conn EXCEPT ![c].pc = "creating", ![c].ses = s]
    /\ UNCHANGED scratch

\* Variant with a bug: looked up outside the lock that inserts.
GetOrCreateRaces(c) ==
    /\ Pc(c) = "joining"
    /\ LET existing == table[conn[c].id] IN
       \/ /\ existing # None
          /\ conn' = [conn EXCEPT ![c].pc = "waiting", ![c].ses = existing]
          /\ UNCHANGED <<table, sessionVars>>
       \/ /\ existing \in {None} \cup {t \in Sessions : stage[t] = "building"}
          /\ \E s \in Spare : NewSession(c, s)

\* Finds the session, refuses, or makes the caller its creator.
GetOrCreate(c) ==
    /\ Pc(c) = "joining"
    /\ LET existing == table[conn[c].id] IN
       \/ /\ existing # None
          /\ conn' = [conn EXCEPT ![c].pc = "waiting", ![c].ses = existing]
          /\ UNCHANGED <<table, sessionVars>>
       \/ /\ existing = None /\ Cardinality(Listed) >= MaxSessions
          /\ Close(c)
          /\ UNCHANGED <<table, sessionVars>>
       \/ /\ existing = None /\ Cardinality(Listed) < MaxSessions
          /\ \E s \in Spare : NewSession(c, s)

\* buildScratch removes what it made when it fails.
BuildScratch(c) ==
    /\ Pc(c) = "creating" /\ stage[Ses(c)] = "building"
    /\ \/ /\ stage' = [stage EXCEPT ![Ses(c)] = "starting"]
          /\ scratch' = [scratch EXCEPT ![Ses(c)] = TRUE]
       \/ /\ stage' = [stage EXCEPT ![Ses(c)] = "failing"]
          /\ UNCHANGED scratch
    /\ UNCHANGED <<table, host, panes, linger, due, conn>>

\* cmd.Start and the steps before it.
StartHost(c) ==
    /\ Pc(c) = "creating" /\ stage[Ses(c)] = "starting"
    /\ \/ /\ stage' = [stage EXCEPT ![Ses(c)] = "launched"]
          /\ host' = [host EXCEPT ![Ses(c)] = "running"]
          /\ UNCHANGED scratch
       \/ /\ stage' = [stage EXCEPT ![Ses(c)] = "failing"]
          /\ scratch' = [scratch EXCEPT ![Ses(c)] = FALSE]
          /\ UNCHANGED host
    /\ UNCHANGED <<table, panes, linger, due, conn>>

\* The ready line came: timers armed, the waiters released.
HostReady(c) ==
    /\ Pc(c) = "creating" /\ stage[Ses(c)] = "launched"
    /\ stage' = [stage EXCEPT ![Ses(c)] = "ready"]
    /\ MoveTo(c, "waiting")
    /\ UNCHANGED <<table, scratch, host, panes, linger, due>>

\* Variant with a bug: it is killed, and create returns without fail.
HostNotReadyUntold(c) ==
    /\ Pc(c) = "creating" /\ stage[Ses(c)] = "launched"
    /\ host' = [host EXCEPT ![Ses(c)] = "exited"]
    /\ scratch' = [scratch EXCEPT ![Ses(c)] = FALSE]
    /\ Close(c)
    /\ UNCHANGED <<table, stage, panes, linger, due>>

\* It did not come in time, or the process ended: killed and waited for.
HostNotReady(c) ==
    /\ Pc(c) = "creating" /\ stage[Ses(c)] = "launched"
    /\ stage' = [stage EXCEPT ![Ses(c)] = "failing"]
    /\ host' = [host EXCEPT ![Ses(c)] = "exited"]
    /\ scratch' = [scratch EXCEPT ![Ses(c)] = FALSE]
    /\ UNCHANGED <<table, panes, linger, due, conn>>

Fail(c) ==
    /\ Pc(c) = "creating" /\ stage[Ses(c)] = "failing"
    /\ stage' = [stage EXCEPT ![Ses(c)] = "failed"]
    /\ Delete(Ses(c))
    /\ Close(c)
    /\ UNCHANGED <<scratch, host, panes, linger, due>>

\* Variants with a bug: one pane too many, and the linger timer left running.
AttachOffByOne(c) ==
    /\ Pc(c) = "waiting" /\ stage[Ses(c)] = "ready" /\ panes[Ses(c)] <= MaxPanes
    /\ panes' = [panes EXCEPT ![Ses(c)] = @ + 1]
    /\ linger' = [linger EXCEPT ![Ses(c)] = "none"]
    /\ conn' = [conn EXCEPT ![c] = [Away EXCEPT !.pc = "opening", !.ses = Ses(c)]]
    /\ UNCHANGED <<table, stage, scratch, host, due>>

AttachKeepsTimer(c) ==
    /\ Pc(c) = "waiting" /\ stage[Ses(c)] = "ready" /\ panes[Ses(c)] < MaxPanes
    /\ panes' = [panes EXCEPT ![Ses(c)] = @ + 1]
    /\ conn' = [conn EXCEPT ![c] = [Away EXCEPT !.pc = "opening", !.ses = Ses(c)]]
    /\ UNCHANGED <<table, stage, scratch, host, linger, due>>

Attach(c) ==
    /\ Pc(c) = "waiting" /\ stage[Ses(c)] = "ready" /\ panes[Ses(c)] < MaxPanes
    /\ panes' = [panes EXCEPT ![Ses(c)] = @ + 1]
    /\ linger' = [linger EXCEPT ![Ses(c)] = "none"]
    /\ conn' = [conn EXCEPT ![c] = [Away EXCEPT !.pc = "opening", !.ses = Ses(c)]]
    /\ UNCHANGED <<table, stage, scratch, host, due>>

\* The creator's error, the pane limit, or a second session that has closed.
Refuse(c) ==
    /\ Pc(c) = "waiting"
    /\ \/ stage[Ses(c)] = "failed"
       \/ stage[Ses(c)] = "ready" /\ panes[Ses(c)] >= MaxPanes
       \/ stage[Ses(c)] \in Ending /\ conn[c].attempt = 1
    /\ Close(c)
    /\ UNCHANGED <<table, sessionVars>>

\* Variant with a bug: a Join that tries for ever.
RetryForever(c) ==
    /\ Pc(c) = "waiting" /\ stage[Ses(c)] \in Ending
    /\ conn' = [conn EXCEPT ![c].pc = "joining", ![c].ses = None]
    /\ UNCHANGED <<table, sessionVars>>

Retry(c) ==
    /\ Pc(c) = "waiting" /\ stage[Ses(c)] \in Ending /\ conn[c].attempt = 0
    /\ conn' = [conn EXCEPT ![c].pc = "joining", ![c].ses = None, ![c].attempt = 1]
    /\ UNCHANGED <<table, sessionVars>>

(***************************************************************************)
(* ServePane.                                                              *)
(***************************************************************************)
PaneOpened(c) ==
    /\ Pc(c) = "opening" /\ host[Ses(c)] = "running"
    /\ MoveTo(c, "serving")
    /\ UNCHANGED <<table, sessionVars>>

\* Variant with a bug: ServePane returns without detach when OpenPane fails.
DetachServedOnly(c) ==
    /\ Pc(c) \in {"opening", "serving"}
    /\ panes' = [panes EXCEPT ![Ses(c)] = IF Pc(c) = "serving" THEN @ - 1 ELSE @]
    /\ linger' = IF panes[Ses(c)] = 1 /\ stage[Ses(c)] = "ready" /\ linger[Ses(c)] = "none"
                 THEN [linger EXCEPT ![Ses(c)] = "armed"]
                 ELSE linger
    /\ Close(c)
    /\ UNCHANGED <<table, stage, scratch, host, due>>

\* The pane could not be opened, its shell or its socket ended, or the session did.
Detach(c) ==
    /\ Pc(c) \in {"opening", "serving"}
    /\ panes' = [panes EXCEPT ![Ses(c)] = @ - 1]
    /\ linger' = IF panes[Ses(c)] = 1 /\ stage[Ses(c)] = "ready" /\ linger[Ses(c)] = "none"
                 THEN [linger EXCEPT ![Ses(c)] = "armed"]
                 ELSE linger
    /\ Close(c)
    /\ UNCHANGED <<table, stage, scratch, host, due>>

\* Variant with a bug: no deadline on the pane-host's reply.
SessionOverServedOnly(c) ==
    /\ Pc(c) = "serving"
    /\ stage[Ses(c)] \in {"ended", "killed", "gone"} \/ host[Ses(c)] = "exited"
    /\ Detach(c)

\* ServePane's goroutines see the end of the session or of the control connection.
SessionOver(c) ==
    /\ Pc(c) \in {"opening", "serving"}
    /\ stage[Ses(c)] \in {"ended", "killed", "gone"} \/ host[Ses(c)] = "exited"
    /\ Detach(c)

(***************************************************************************)
(* The end of a session.                                                   *)
(***************************************************************************)
HostExits(s) ==
    /\ host[s] = "running"
    /\ host' = [host EXCEPT ![s] = "exited"]
    /\ UNCHANGED <<table, stage, scratch, panes, linger, due, conn>>

\* Variant with a bug: no lifetime timer, and users keep the idle one away.
TimerFiresUnused(s) ==
    /\ stage[s] = "ready" /\ s \notin due /\ panes[s] = 0
    /\ due' = due \cup {s}
    /\ UNCHANGED <<table, stage, scratch, host, panes, linger, conn>>

\* The idle or the lifetime timer.
TimerFires(s) ==
    /\ stage[s] = "ready" /\ s \notin due
    /\ due' = due \cup {s}
    /\ UNCHANGED <<table, stage, scratch, host, panes, linger, conn>>

LingerFires(s) ==
    /\ stage[s] = "ready" /\ linger[s] = "armed"
    /\ linger' = [linger EXCEPT ![s] = "fired"]
    /\ due' = due \cup {s}
    /\ UNCHANGED <<table, stage, scratch, host, panes, conn>>

\* teardown by a timer or by the goroutine waiting for procDone: the flag ...
FlagClosed(s) ==
    /\ stage[s] = "ready" /\ (s \in due \/ host[s] = "exited")
    /\ stage' = [stage EXCEPT ![s] = "flagged"]
    /\ linger' = [linger EXCEPT ![s] = "none"]
    /\ due' = due \ {s}
    /\ UNCHANGED <<table, scratch, host, panes, conn>>

\* ... the table ...
Unlist(s) ==
    /\ stage[s] = "flagged"
    /\ stage' = [stage EXCEPT ![s] = "unlisted"]
    /\ Delete(s)
    /\ UNCHANGED <<scratch, host, panes, linger, due, conn>>

\* ... done closed and stdin: the panes and the pane-host are told ...
EndPanes(s) ==
    /\ stage[s] = "unlisted"
    /\ stage' = [stage EXCEPT ![s] = "ended"]
    /\ UNCHANGED <<table, scratch, host, panes, linger, due, conn>>

\* ... SIGKILL after two seconds or the exit ...
Kill(s) ==
    /\ stage[s] = "ended"
    /\ stage' = [stage EXCEPT ![s] = "killed"]
    /\ UNCHANGED <<table, scratch, host, panes, linger, due, conn>>

\* ... and the scratch goes after ten more, even if the sandbox will not die.
Reclaim(s) ==
    /\ stage[s] = "killed"
    /\ stage' = [stage EXCEPT ![s] = "gone"]
    /\ scratch' = [scratch EXCEPT ![s] = FALSE]
    /\ UNCHANGED <<table, host, panes, linger, due, conn>>

Init ==
    /\ table = [i \in Ids |-> None]
    /\ stage = [s \in Sessions |-> "free"]
    /\ scratch = [s \in Sessions |-> FALSE]
    /\ host = [s \in Sessions |-> "none"]
    /\ panes = [s \in Sessions |-> 0]
    /\ linger = [s \in Sessions |-> "none"]
    /\ due = {}
    /\ conn = [c \in Conns |-> Away]

JoinStep(c) ==
    \/ GetOrCreate(c) \/ BuildScratch(c) \/ StartHost(c) \/ HostReady(c) \/ HostNotReady(c)
    \/ Fail(c) \/ Attach(c) \/ Refuse(c) \/ Retry(c)

TeardownStep(s) == FlagClosed(s) \/ Unlist(s) \/ EndPanes(s) \/ Kill(s) \/ Reclaim(s)

Next ==
    \/ \E c \in Conns : (\E i \in Ids : Connect(c, i)) \/ JoinStep(c) \/ PaneOpened(c) \/ Detach(c)
    \/ \E s \in Sessions : HostExits(s) \/ TimerFires(s) \/ LingerFires(s) \/ TeardownStep(s)

Spec == Init /\ [][Next]_vars

\* Goroutines run, buildScratch, the dial and the wait for the ready line are
\* bounded, the lifetime timer fires; SIGKILL works in the end.  GetOrCreate waits
\* for a mutex only, so it is fair even when all of Sessions, a bound of the model,
\* are in use.  Connections need not come, and a user need not leave.
Fairness ==
    /\ \A c \in Conns : WF_vars(JoinStep(c)) /\ SF_vars(GetOrCreate(c)) /\ WF_vars(SessionOver(c))
    /\ \A s \in Sessions :
          /\ WF_vars(TimerFires(s)) /\ WF_vars(TeardownStep(s))
          /\ WF_vars(stage[s] \in {"killed", "gone"} /\ HostExits(s))

FairSpec == Spec /\ Fairness

(***************************************************************************)
(* Properties.                                                             *)
(***************************************************************************)
TypeOK ==
    /\ table \in [Ids -> Sessions \cup {None}]
    /\ stage \in [Sessions -> Stages]
    /\ scratch \in [Sessions -> BOOLEAN]
    /\ host \in [Sessions -> {"none", "running", "exited"}]
    /\ panes \in [Sessions -> 0 .. MaxPanes]
    /\ linger \in [Sessions -> {"none", "armed", "fired"}]
    /\ due \subseteq Sessions
    /\ conn \in [Conns -> [pc : {"away", "joining", "creating", "waiting", "opening", "serving"},
                           id : Ids \cup {None}, ses : Sessions \cup {None}, attempt : {0, 1}]]

\* ts.panes is the number of connections between their attach and their detach,
\* whatever ended them: a failed OpenPane, any of ServePane's six goroutines, the
\* teardown.  One too few and the limit is off; one too many and nobody lingers.
\* And the sessions that are created or open to panes keep within maxSessions
\* (fly.toml:34-35, "engine caps terminal sessions at 16").
LimitsKept ==
    /\ \A s \in Sessions : panes[s] = Cardinality(Attached(s)) /\ panes[s] <= MaxPanes
    /\ Cardinality({s \in Sessions : stage[s] \in Creating \cup {"ready", "flagged"}}) <= MaxSessions

\* A scratch or a running sandbox has the table entry of its id, or its teardown is
\* under way: a second creator or a misdirected delete would leave one behind.
NothingStray ==
    \A s \in Sessions :
        scratch[s] \/ (host[s] = "running" /\ stage[s] # "gone") =>
            s \in Listed \/ stage[s] \in {"unlisted", "ended", "killed"}

\* The linger timer runs only in a session without panes, and a session without
\* panes has it, or a teardown on its way, or a connection about to attach: no
\* order of joins, failed opens and departures leaves an empty session to the idle
\* timer, or a used one to the linger timer.
LingerIffEmpty ==
    \A s \in Sessions : stage[s] = "ready" =>
        /\ linger[s] = "armed" => panes[s] = 0
        /\ panes[s] = 0 => \/ linger[s] = "armed" \/ s \in due
                           \/ \E c \in Conns : Ses(c) = s /\ Pc(c) = "waiting"

\* A session that is being created has one creator at work, and a connection waits
\* for nothing else: whoever finds a session in the table either finds it made or
\* will be told by that creator, whichever way the creation fails.
CreatorAtWork ==
    /\ \A s \in Sessions : stage[s] \in Creating =>
          \E c \in Conns : /\ Pc(c) = "creating" /\ Ses(c) = s
                           /\ \A d \in Conns \ {c} : Pc(d) = "creating" => Ses(d) # s
    /\ \A c \in Conns : Pc(c) = "creating" => stage[Ses(c)] \in Creating
    /\ \A c \in Conns : Pc(c) = "waiting" =>
          stage[Ses(c)] \in Creating \cup Ending \cup {"ready", "failed"}

\* Every Join returns, though creators fail, sessions close under the waiters and
\* the second attempt may wait for another creator.
JoinsAnswered ==
    \A c \in Conns : Pc(c) \in {"joining", "creating", "waiting"} ~> Pc(c) \in {"away", "opening"}

\* Every scratch directory is removed in the end, with users connected or not.
ScratchReclaimed == \A s \in Sessions : scratch[s] ~> ~scratch[s]

\* A pane of a session that is torn down lets go of it, by done or by its sandbox.
PanesLetGo ==
    \A c \in Conns, s \in Sessions :
        (c \in Attached(s) /\ stage[s] \in Ending) ~> c \notin Attached(s)
=============================================================================
