----------------------------- MODULE BoundedJobs -----------------------------
(***************************************************************************)
(* What both ways of limit_the_concurrency_of_async_tasks are to be: jobs  *)
(* that each run once, no more than Limit of them at the same time, and a  *)
(* function that returns when all of them have finished.                   *)
(***************************************************************************)
EXTENDS Naturals, FiniteSets

CONSTANTS
  Jobs,
  Limit

VARIABLES
  running,   \* the jobs that have been started and have not finished
  ended,     \* those that have finished
  returned   \* the function has returned

bounded == <<running, ended, returned>>

BoundedInit == running = {} /\ ended = {} /\ returned = FALSE

Begin(j) ==
  /\ j \notin running \cup ended
  /\ Cardinality(running) < Limit
  /\ running' = running \cup {j}
  /\ UNCHANGED <<ended, returned>>

End(j) ==
  /\ j \in running
  /\ running' = running \ {j}
  /\ ended' = ended \cup {j}
  /\ UNCHANGED returned

Return ==
  /\ running = {} /\ ended = Jobs
  /\ ~returned /\ returned' = TRUE
  /\ UNCHANGED <<running, ended>>

BoundedNext == Return \/ \E j \in Jobs : Begin(j) \/ End(j)

BoundedSpec == BoundedInit /\ [][BoundedNext]_bounded
==============================================================================
