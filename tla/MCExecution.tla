---------------------------- MODULE MCExecution ----------------------------
(* Submissions with one or two test cases of every kind, or one or two processes. *)
EXTENDS Execution

MCPlans == {<<c>> : c \in Case} \cup {<<c, d>> : c \in Case, d \in Case}
\* A process with each kind of issue, and a clean one with an empty summary.
MCReports == {[issues |-> {"errors"}, heap |-> "freed"], [issues |-> {"fds"}, heap |-> "freed"],
              [issues |-> {}, heap |-> "leaks"], [issues |-> {}, heap |-> "empty"]}
Process1(ref, built, delayed) == [ref |-> ref, built |-> built, delayed |-> delayed]
\* A process that can be run or not beside a server that is started later, of which
\* nothing is expected; and one of which the expected output is missing.
MCScenarios == {<<Process1("present", built, FALSE), Process1("none", TRUE, TRUE)>> : built \in BOOLEAN}
                  \cup {<<Process1("absent", TRUE, FALSE)>>}
=============================================================================
