----------------------------- MODULE GradeQueue -----------------------------
(***************************************************************************)
(* What the grading service promises its callers, with no goroutines,      *)
(* channels or progress entries: an accepted run waits its turn, runs are  *)
(* graded one at a time and never beside another user of the machine, and  *)
(* each run settles exactly once, as done only if its result can be        *)
(* collected.  GradeJobs implements this module.                           *)
(***************************************************************************)
CONSTANT Runs

VARIABLES
    status,      \* unknown, queued, grading, closing, then done or failed
    guest,       \* a sandbox analysis or an AI refresh is using the machine
    published    \* the runs whose result can be collected

vars == <<status, guest, published>>

Status == {"unknown", "queued", "grading", "closing", "done", "failed"}

Init ==
    /\ status = [r \in Runs |-> "unknown"]
    /\ guest = FALSE
    /\ published = {}

Move(r, from, to) ==
    /\ status[r] = from
    /\ status' = [status EXCEPT ![r] = to]

Free == ~guest /\ \A r \in Runs : status[r] # "grading"

Submit(r) == Move(r, "unknown", "queued") /\ UNCHANGED <<guest, published>>

\* The run's turn: nobody else is using the machine.
Begin(r) == Free /\ Move(r, "queued", "grading") /\ UNCHANGED <<guest, published>>

\* Cancelled, or out of time, before its turn.
Drop(r) == Move(r, "queued", "closing") /\ UNCHANGED <<guest, published>>

Publish(r) ==
    /\ status[r] = "grading"
    /\ published' = published \cup {r}
    /\ UNCHANGED <<status, guest>>

Leave(r) == Move(r, "grading", "closing") /\ UNCHANGED <<guest, published>>

Settle(r) ==
    /\ \/ r \in published /\ Move(r, "closing", "done")
       \/ Move(r, "closing", "failed")
    /\ UNCHANGED <<guest, published>>

GuestIn  == Free /\ guest' = TRUE /\ UNCHANGED <<status, published>>
GuestOut == guest /\ guest' = FALSE /\ UNCHANGED <<status, published>>

Next ==
    \/ \E r \in Runs : Submit(r) \/ Begin(r) \/ Drop(r) \/ Publish(r) \/ Leave(r) \/ Settle(r)
    \/ GuestIn \/ GuestOut

Spec == Init /\ [][Next]_vars
=============================================================================
