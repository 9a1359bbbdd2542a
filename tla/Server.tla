------------------------------- MODULE Server -------------------------------
(***************************************************************************)
(* The server's life with what it does of its own accord: ServerLife has   *)
(* the refresh as passes that begin and end, AIRefresh what a pass does to *)
(* the saved results.  A behaviour here is one of the two.                 *)
(***************************************************************************)
EXTENDS ServerLife, AIRefresh

VARIABLE side    \* the one

NoLife ==
    /\ Q!Init
    /\ phase = "down" /\ requests = {} /\ callbacks = {}
    /\ refresh = "off" /\ wait = 0 /\ quiet = 0 /\ tick = FALSE

NoRefresh ==
    /\ obj = [k \in Keys |-> [version |-> 0, method |-> 1, kind |-> "good"]]
    /\ backups = [k \in Keys |-> {}]
    /\ up = "down" /\ boots = MaxBoots /\ faults = 0 /\ method = 1
    /\ pc = "down" /\ unseen = {} /\ key = NoKey /\ body = Absent /\ tally = Zero
    /\ late = {} /\ touched = {}

ServerInit ==
    \/ side = "life" /\ Init /\ NoRefresh
    \/ side = "results" /\ NoLife /\ RefreshInit

Lives     == side = "life" /\ Next /\ UNCHANGED <<refreshVars, side>>
Refreshes == side = "results" /\ RefreshNext /\ UNCHANGED <<vars, side>>

ServerNext == Lives \/ Refreshes

ServerSpec == ServerInit /\ [][ServerNext]_<<vars, refreshVars, side>>

\* The fairness of the two, of the one there is.
ServerFairSpec ==
    /\ ServerSpec
    /\ Fairness
    /\ WF_refreshVars(side = "results" /\ WorkerStep)
    /\ WF_refreshVars(side = "results" /\ Restart)
    /\ WF_refreshVars(side = "results" /\ up = "stopping" /\ Cease)
=============================================================================
