----------------------------- MODULE TaskLedger -----------------------------
(***************************************************************************)
(* What the task manager of task_manager/src/lib.rs promises its users,    *)
(* with no locks, channel, runtime or semaphore: every operation on a task *)
(* is one step, and `cancel` in particular takes effect at one instant.    *)
(* TaskManager.tla is shown to implement this specification.               *)
(*                                                                         *)
(* A task is absent until it is submitted, then queued; it becomes active  *)
(* (or, once somebody asked it to stop, stopping), and ends settled.       *)
(***************************************************************************)
EXTENDS Naturals, FiniteSets

CONSTANTS
  Keys,         \* the keys tasks are known by
  ParallelNum   \* how many tasks may be active or stopping at a time

VARIABLES
  status,       \* status[k]: where the task k stands
  cancelled,    \* the keys for which a call of cancel has returned
  phase         \* "open", then "closing" while drop runs, then "closed"

ledger == <<status, cancelled, phase>>

Statuses == {"absent", "queued", "active", "stopping", "settled"}

Busy == {k \in Keys : status[k] \in {"active", "stopping"}}

LedgerTypeOK ==
  /\ status \in [Keys -> Statuses]
  /\ cancelled \in SUBSET Keys
  /\ phase \in {"open", "closing", "closed"}

LedgerInit ==
  /\ status = [k \in Keys |-> "absent"]
  /\ cancelled = {}
  /\ phase = "open"

Move(k, from, to) ==
  /\ status[k] = from
  /\ status' = [status EXCEPT ![k] = to]

Submit(k) ==
  /\ phase = "open"
  /\ Move(k, "absent", "queued")
  /\ UNCHANGED <<cancelled, phase>>

Begin(k) ==
  /\ Cardinality(Busy) < ParallelNum
  /\ Move(k, "queued", "active")
  /\ UNCHANGED <<cancelled, phase>>

\* The task ran to its end, failed, panicked, or finished its on_cancel.
Settle(k) ==
  /\ \/ Move(k, "active", "settled")
     \/ Move(k, "stopping", "settled")
  /\ UNCHANGED <<cancelled, phase>>

\* A queued task is dropped unstarted, an active one is told to stop, and one
\* that has settled stays as it is.
Cancel(k) ==
  /\ phase = "open"
  /\ \/ Move(k, "queued", "settled")
     \/ Move(k, "active", "stopping")
     \/ status[k] \in {"stopping", "settled"} /\ UNCHANGED status
  /\ cancelled' = cancelled \cup {k}
  /\ UNCHANGED phase

\* Drop begins: what is queued will never start.
Close ==
  /\ phase = "open"
  /\ phase' = "closing"
  /\ status' = [k \in Keys |-> IF status[k] = "queued" THEN "settled" ELSE status[k]]
  /\ UNCHANGED cancelled

\* Drop tells the active tasks to stop, one after the other.
StopOne(k) ==
  /\ phase = "closing"
  /\ Move(k, "active", "stopping")
  /\ UNCHANGED <<cancelled, phase>>

\* Drop returns: nothing is left to run.
Closed ==
  /\ phase = "closing"
  /\ \A k \in Keys : status[k] \in {"absent", "settled"}
  /\ phase' = "closed"
  /\ UNCHANGED <<status, cancelled>>

LedgerNext ==
  \/ \E k \in Keys : Submit(k) \/ Begin(k) \/ Settle(k) \/ Cancel(k) \/ StopOne(k)
  \/ Close
  \/ Closed

LedgerSpec == LedgerInit /\ [][LedgerNext]_ledger
=============================================================================
