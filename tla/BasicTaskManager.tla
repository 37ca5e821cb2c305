--------------------------- MODULE BasicTaskManager ---------------------------
(***************************************************************************)
(* The BasicTaskManager of task_manager/src/lib.rs, the version before     *)
(* TaskManager: a detached thread receives durations and spawns a sleep    *)
(* for each.  Nothing waits for the thread, and nothing for its tasks.     *)
(***************************************************************************)
EXTENDS Naturals, Sequences

CONSTANTS Sleeps   \* the durations that are sent, each once

VARIABLES
  alive,    \* the BasicTaskManager has not been dropped, nor its tx
  inbox,    \* sent and not received
  thread,   \* where the thread stands
  sleep     \* sleep[s]: what has become of the task

basicVars == <<alive, inbox, thread, sleep>>

BasicTypeOK ==
  /\ alive \in BOOLEAN
  /\ inbox \in Seq(Sleeps)
  /\ thread \in {"building", "recv", "shutdown", "exited", "failed"}
  /\ sleep \in [Sleeps -> {"unsent", "refused", "sent", "spawned", "started", "finished", "lost"}]

BasicInit ==
  /\ alive = TRUE
  /\ inbox = <<>>
  /\ thread = "building"
  /\ sleep = [s \in Sleeps |-> "unsent"]

Becomes(s, from, to) == sleep[s] = from /\ sleep' = [sleep EXCEPT ![s] = to]

\* What the thread takes with it when it ends.
LoseAll == sleep' = [s \in Sleeps |-> IF sleep[s] \in {"sent", "spawned", "started"} THEN "lost" ELSE sleep[s]]

\* spawn_sleep_task: an Err once the receiver is gone.
SpawnSleep(s) ==
  /\ alive
  /\ IF thread = "failed"
       THEN Becomes(s, "unsent", "refused") /\ UNCHANGED inbox
       ELSE Becomes(s, "unsent", "sent") /\ inbox' = Append(inbox, s)
  /\ UNCHANGED <<alive, thread>>

DropBasic ==
  /\ alive
  /\ alive' = FALSE
  /\ UNCHANGED <<inbox, thread, sleep>>

BuildBasic ==
  /\ thread = "building"
  /\ \/ thread' = "recv" /\ UNCHANGED <<inbox, sleep>>
     \/ thread' = "failed" /\ inbox' = <<>> /\ LoseAll   \* build().unwrap() panics
  /\ UNCHANGED alive

RecvSleep ==
  /\ thread = "recv"
  /\ inbox # <<>>
  /\ inbox' = Tail(inbox)
  /\ Becomes(Head(inbox), "sent", "spawned")
  /\ UNCHANGED <<alive, thread>>

RecvEarly ==   \* mutant: try_recv, which takes an empty channel for its end
  /\ thread = "recv"
  /\ inbox = <<>>
  /\ thread' = "shutdown"
  /\ UNCHANGED <<alive, inbox, sleep>>

\* recv is None: block_on returns, and the runtime goes down with its tasks.
RecvEnd ==
  /\ thread = "recv"
  /\ inbox = <<>>
  /\ ~alive
  /\ thread' = "shutdown"
  /\ UNCHANGED <<alive, inbox, sleep>>

\* Until then the workers of the runtime go on.
Shutdown ==
  /\ thread = "shutdown"
  /\ thread' = "exited"
  /\ LoseAll
  /\ UNCHANGED <<alive, inbox>>

SleepStep(s) ==
  /\ thread \in {"recv", "shutdown"}
  /\ Becomes(s, "spawned", "started") \/ Becomes(s, "started", "finished")
  /\ UNCHANGED <<alive, inbox, thread>>

ThreadGoes == BuildBasic \/ RecvSleep \/ RecvEnd \/ Shutdown

BasicNext ==
  \/ ThreadGoes
  \/ DropBasic
  \/ \E s \in Sleeps : SpawnSleep(s) \/ SleepStep(s)

\* The thread and the timer go on; nobody need drop the manager.
BasicFairness ==
  /\ WF_basicVars(ThreadGoes)
  /\ \A s \in Sleeps : WF_basicVars(SleepStep(s))

BasicSpec == BasicInit /\ [][BasicNext]_basicVars /\ BasicFairness
-------------------------------------------------------------------------------
(* A task is lost only if the manager was dropped over it, or its thread     *)
(* never had a runtime: while the manager is kept, every task that was       *)
(* accepted comes to its end.                                                *)
AcceptedFinishes ==
  \A s \in Sleeps : sleep[s] = "sent" ~>
    \/ sleep[s] = "finished"
    \/ sleep[s] = "lost" /\ (~alive \/ thread = "failed")
===============================================================================
