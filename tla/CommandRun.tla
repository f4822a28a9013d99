----------------------------- MODULE CommandRun -----------------------------
(***************************************************************************)
(* What running one command with --all promises, however the jobs are run  *)
(* (manager.py, _run_class): every job of the iterable is run, and only    *)
(* then does the command return and its teardown run; otherwise an         *)
(* exception leaves the command, and its teardown does not run.            *)
(***************************************************************************)
CONSTANT Job              \* the (basefile, version) pairs of the iterable

VARIABLES pending,        \* jobs that have not been run
          outcome         \* "running", "returned" or "raised"

vars == <<pending, outcome>>

Init == pending = Job /\ outcome = "running"

Run(j) ==
  /\ outcome = "running"
  /\ j \in pending
  /\ pending' = pending \ {j}
  /\ UNCHANGED outcome

Return ==
  /\ outcome = "running"
  /\ pending = {}
  /\ outcome' = "returned"
  /\ UNCHANGED pending

Raise ==
  /\ outcome = "running"
  /\ outcome' = "raised"
  /\ UNCHANGED pending

Next == (\E j \in Job : Run(j)) \/ Return \/ Raise

Spec == Init /\ [][Next]_vars
=============================================================================
