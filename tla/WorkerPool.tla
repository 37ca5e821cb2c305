------------------------------ MODULE WorkerPool ------------------------------
(***************************************************************************)
(* The two functions of limit_the_concurrency_of_async_tasks.  In classic  *)
(* the main thread sends jobs down a channel to three tasks on another     *)
(* thread's LocalPool, which take turns at a blocking recv; in light the   *)
(* main thread polls the futures of a stream, three of them at a time.     *)
(*                                                                         *)
(* A job's only await is on ready(()), which never yields: whoever is      *)
(* polled goes on to the end of the job.                                   *)
(***************************************************************************)
EXTENDS Naturals, Sequences, FiniteSets

CONSTANTS
  JobCount,    \* how many jobs there are
  Workers,     \* the tasks of classic
  Main,        \* the main thread
  BufferSize   \* of buffer_unordered

ASSUME JobsAssumption ==
  /\ JobCount \in Nat
  /\ BufferSize \in Nat \ {0}
  /\ Workers # {} /\ IsFiniteSet(Workers)
  /\ Main \notin Workers

VARIABLES
  way,      \* "classic" or "light"
  main,     \* where the main thread stands
  made,     \* the jobs 1 .. made have been sent, or taken from the iterator
  queue,    \* the channel, or the futures in the buffer
  tx,       \* the sender has not been dropped
  worker,   \* worker[w]: where the task w stands
  job,      \* job[x]: the job that x is at, or 0
  ended     \* the jobs that have printed their end

jobVars == <<way, main, made, queue, tx, worker, job, ended>>

Jobs == 1 .. JobCount

WorkerTypeOK ==
  /\ way \in {"classic", "light"}
  /\ main \in {"sending", "joining", "polling", "done"}
  /\ made \in 0 .. JobCount
  /\ queue \in Seq(Jobs)
  /\ tx \in BOOLEAN
  /\ worker \in [Workers -> {"ready", "recv", "running", "ended"}]
  /\ job \in [Workers \cup {Main} -> 0 .. JobCount]
  /\ ended \in SUBSET Jobs

WorkerInit ==
  /\ way \in {"classic", "light"}
  /\ main = IF way = "classic" THEN "sending" ELSE "polling"
  /\ made = 0
  /\ queue = <<>>
  /\ tx = TRUE
  /\ worker = [w \in Workers |-> "ready"]
  /\ job = [x \in Workers \cup {Main} |-> 0]
  /\ ended = {}

StartPeeked(x) ==   \* mutant: the job stays where it was
  /\ queue # <<>>
  /\ job[x] = 0
  /\ job' = [job EXCEPT ![x] = Head(queue)]
  /\ UNCHANGED <<made, queue, ended>>

\* The job goes from the head of the queue to x, which runs it to its end.
StartJob(x) ==
  /\ queue # <<>>
  /\ job[x] = 0
  /\ job' = [job EXCEPT ![x] = Head(queue)]
  /\ queue' = Tail(queue)
  /\ UNCHANGED <<made, ended>>

EndJob(x) ==
  /\ job[x] # 0
  /\ job' = [job EXCEPT ![x] = 0]
  /\ ended' = ended \cup {job[x]}
  /\ UNCHANGED <<made, queue>>

MakeJobPast ==   \* mutant: one job too many
  /\ made <= JobCount
  /\ made' = made + 1
  /\ queue' = Append(queue, made')
  /\ UNCHANGED <<job, ended>>

\* The next job comes from the loop of classic, or the iterator of light.
MakeJob ==
  /\ made < JobCount
  /\ made' = made + 1
  /\ queue' = Append(queue, made')
  /\ UNCHANGED <<job, ended>>

(***************************************************************************)
(* classic: the main thread, and the thread of the LocalPool.              *)
(***************************************************************************)
Send == main = "sending" /\ MakeJob /\ UNCHANGED <<way, main, tx, worker>>

KeepTx ==   \* mutant: join with the sender alive
  /\ main = "sending"
  /\ made = JobCount
  /\ main' = "joining"
  /\ UNCHANGED <<way, made, queue, tx, worker, job, ended>>

DropTx ==
  /\ main = "sending"
  /\ made = JobCount
  /\ main' = "joining"
  /\ tx' = FALSE
  /\ UNCHANGED <<way, made, queue, worker, job, ended>>

\* pool.run() has returned, with every task at its end.
Join ==
  /\ main = "joining"
  /\ \A w \in Workers : worker[w] = "ended"
  /\ main' = "done"
  /\ UNCHANGED <<way, made, queue, tx, worker, job, ended>>

Goes(w, from, to) ==
  /\ worker[w] = from
  /\ worker' = [worker EXCEPT ![w] = to]
  /\ UNCHANGED <<way, main, tx>>

\* The pool polls a task when the one before has ended: none of them yields.
PollWorker(w) ==
  /\ way = "classic"
  /\ \A v \in Workers : worker[v] \in {"ready", "ended"}
  /\ Goes(w, "ready", "recv")
  /\ UNCHANGED <<made, queue, job, ended>>

\* recv blocks the thread, with the lock on rx, until there is a job ...
RecvJob(w) == Goes(w, "recv", "running") /\ StartJob(w)

FinishJob(w) == Goes(w, "running", "recv") /\ EndJob(w)

\* ... or until the sender is gone, which ends the task.
RecvErr(w) ==
  /\ queue = <<>>
  /\ ~tx
  /\ Goes(w, "recv", "ended")
  /\ UNCHANGED <<made, queue, job, ended>>

(***************************************************************************)
(* light: buffer_unordered fills its buffer, then polls the first future   *)
(* in it, and yields the result to the loop, which comes back for more.    *)
(***************************************************************************)
Full == Len(queue) = BufferSize \/ made = JobCount

Fill ==
  /\ main = "polling"
  /\ job[Main] = 0
  /\ ~Full
  /\ MakeJob
  /\ UNCHANGED <<way, main, tx, worker>>

PollFuture ==
  /\ main = "polling"
  /\ \/ Full /\ StartJob(Main)
     \/ EndJob(Main)
  /\ UNCHANGED <<way, main, tx, worker>>

StreamEnds ==
  /\ main = "polling"
  /\ Full /\ queue = <<>> /\ job[Main] = 0
  /\ main' = "done"
  /\ UNCHANGED <<way, made, queue, tx, worker, job, ended>>

MainStep == Send \/ DropTx \/ Join \/ Fill \/ PollFuture \/ StreamEnds
ThreadStep == \E w \in Workers : PollWorker(w) \/ RecvJob(w) \/ FinishJob(w) \/ RecvErr(w)

WorkerNext == MainStep \/ ThreadStep

\* Both threads go on where they can.
WorkerFairness == WF_jobVars(MainStep) /\ WF_jobVars(ThreadStep)

WorkerSpec == WorkerInit /\ [][WorkerNext]_jobVars /\ WorkerFairness
-------------------------------------------------------------------------------
\* The jobs that somebody is at.
UnderWay == {job[x] : x \in Workers \cup {Main}} \ {0}

AtMostOne == INSTANCE BoundedJobs WITH
  Limit <- 1,
  running <- UnderWay,
  returned <- main = "done"

(* Either way is an implementation of the limit, starts no job twice, and    *)
(* does not return before each of them has ended (join at line 45, None at   *)
(* line 62).  The limit shown is one: with jobs that never yield, neither    *)
(* three workers nor a buffer of three ever has two of them under way.       *)
ImplementsBoundedJobs == AtMostOne!BoundedSpec

(* The function returns, and not before the last job has finished: no recv   *)
(* blocks the pool for ever, and no job is left in channel or buffer.        *)
ReturnsWithAllDone == <>(main = "done" /\ ended = Jobs)
===============================================================================
