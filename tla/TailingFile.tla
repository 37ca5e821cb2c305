----------------------------- MODULE TailingFile -----------------------------
(***************************************************************************)
(* The TailingFile of tailing_file/src/created_as_well.rs and that of      *)
(* tailing_file/src/modified_only.rs: an AsyncRead that treats the end of  *)
(* a file (and, in the first, that there is no file) as Pending, and has a *)
(* notify watcher wake its task when the file changes.                     *)
(*                                                                         *)
(* A task that calls poll_read, the watcher's thread with its callback,    *)
(* tokio's blocking pool, which opens, seeks and reads, and the writer of  *)
(* the file all step on their own.  The pool, the watcher and the way a    *)
(* runtime polls a task are not in src/: they are modelled from their use. *)
(***************************************************************************)
EXTENDS Naturals, Sequences, FiniteSets

CONSTANTS
  Readers,       \* the TailingFiles, all of one path, each in a task
  ModifiedOnly,  \* those of modified_only.rs
  MaxSize,       \* bound: how many chunks are ever appended to the file
  MaxOthers,     \* bound: how often another file of the directory changes
  MaxOpen        \* bound: how many of the Readers are opened

ASSUME ReadersAssumption == ModifiedOnly \subseteq Readers
ASSUME BoundAssumption == MaxSize \in Nat /\ MaxOthers \in Nat /\ MaxOpen \in Nat

VARIABLES
  exists, size,  \* the file: is it there, and of how many chunks
  others,        \* how often another file has changed
  events,        \* events[r]: what r's watcher has yet to hand to its callback
  callback,      \* callback[r]: "waking" between waker.take() and w.wake()
  slot,          \* slot[r]: the AtomicWaker holds the task's waker
  task,          \* task[r]: the runtime's view of r's task
  notified,      \* notified[r]: woken while it is polled
  pc,            \* pc[r]: where the task stands in poll_read
  file,          \* file[r]: how far the file is opened
  pos,           \* pos[r]: the offset up to which r has read
  job,           \* job[r]: the work r has with the blocking pool, or its answer
  amount,        \* amount[r]: the number in that answer
  awaited        \* awaited[r]: the job's handle was polled, and will wake

disk == <<exists, size, others>>
watching == <<events, callback>>
scheduling == <<task, notified>>
working == <<job, amount, awaited>>
reading == <<slot, pc, file, pos>>
vars == <<disk, watching, scheduling, working, reading>>

Events == {"create", "modify", "other"}
Jobs == {"none", "open", "seek", "read", "found", "missing", "sought", "got", "broken"}

\* A task that is "ready" was told of an error; its caller may poll again.
Tasks == {"idle", "scheduled", "polling", "ready", "panicked"}

\* A file is "gone" when the error of its FileFut has been taken.
Files == {"unwatched", "failed", "closed", "open", "gone"}

TypeOK ==
  /\ exists \in BOOLEAN /\ size \in 0 .. MaxSize /\ others \in 0 .. MaxOthers
  /\ events \in [Readers -> Seq(Events)]
  /\ callback \in [Readers -> {"idle", "waking"}]
  /\ slot \in [Readers -> BOOLEAN]
  /\ task \in [Readers -> Tasks]
  /\ notified \in [Readers -> BOOLEAN]
  /\ pc \in [Readers -> {"out", "find", "read", "register", "return"}]
  /\ file \in [Readers -> Files]
  /\ pos \in [Readers -> 0 .. MaxSize]
  /\ job \in [Readers -> Jobs]
  /\ amount \in [Readers -> 0 .. MaxSize]
  /\ awaited \in [Readers -> BOOLEAN]

Init ==
  /\ exists = FALSE /\ size = 0 /\ others = 0
  /\ events = [r \in Readers |-> <<>>]
  /\ callback = [r \in Readers |-> "idle"]
  /\ slot = [r \in Readers |-> FALSE]
  /\ task = [r \in Readers |-> "idle"]
  /\ notified = [r \in Readers |-> FALSE]
  /\ pc = [r \in Readers |-> "out"]
  /\ file = [r \in Readers |-> "unwatched"]
  /\ pos = [r \in Readers |-> 0]
  /\ job = [r \in Readers |-> "none"]
  /\ amount = [r \in Readers |-> 0]
  /\ awaited = [r \in Readers |-> FALSE]

Watches(r) == file[r] \in {"closed", "open", "gone"}

(***************************************************************************)
(* The directory: every change is an event for those who watch it.         *)
(***************************************************************************)
Emit(e) == events' = [r \in Readers |-> IF Watches(r) THEN Append(events[r], e) ELSE events[r]]

CreateFile ==
  /\ ~exists
  /\ exists' = TRUE
  /\ Emit("create")
  /\ UNCHANGED <<size, others, callback, scheduling, working, reading>>

AppendChunk ==
  /\ exists
  /\ size < MaxSize
  /\ size' = size + 1
  /\ Emit("modify")
  /\ UNCHANGED <<exists, others, callback, scheduling, working, reading>>

ChangeOther ==
  /\ others < MaxOthers
  /\ others' = others + 1
  /\ Emit("other")
  /\ UNCHANGED <<exists, size, callback, scheduling, working, reading>>

(***************************************************************************)
(* The watcher's thread.                                                   *)
(***************************************************************************)
RelevantCreated(r, e) == e = "create"                                \* mutant: no is_modify
RelevantModified(r, e) == IF r \in ModifiedOnly THEN e # "create" ELSE e = "modify"   \* mutant: no is_create

\* The callback's condition: created_as_well.rs wants the file to be created
\* or modified, modified_only.rs any file to be modified.
Relevant(r, e) == IF r \in ModifiedOnly THEN e # "create" ELSE e # "other"

\* waker.take(), if the event is one to wake for.
Deliver(r) ==
  /\ callback[r] = "idle"
  /\ events[r] # <<>>
  /\ events' = [events EXCEPT ![r] = Tail(@)]
  /\ IF slot[r] /\ Relevant(r, Head(events[r]))
       THEN /\ slot' = [slot EXCEPT ![r] = FALSE]
            /\ callback' = [callback EXCEPT ![r] = "waking"]
       ELSE UNCHANGED <<slot, callback>>
  /\ UNCHANGED <<disk, scheduling, working, pc, file, pos>>

\* To wake a task that is polled has it polled again; one that is scheduled
\* already is polled once.
Wakes(r) ==
  /\ task' = IF task[r] = "idle" THEN [task EXCEPT ![r] = "scheduled"] ELSE task
  /\ notified' = IF task[r] = "polling" THEN [notified EXCEPT ![r] = TRUE] ELSE notified

\* w.wake()
Wake(r) ==
  /\ callback[r] = "waking"
  /\ callback' = [callback EXCEPT ![r] = "idle"]
  /\ Wakes(r)
  /\ UNCHANGED <<disk, events, working, reading>>

(***************************************************************************)
(* The blocking pool: it looks at the file when it runs the job, and then  *)
(* wakes the task if that has polled the job's handle before.              *)
(***************************************************************************)
Answer(r, a, n) ==
  /\ job' = [job EXCEPT ![r] = a]
  /\ amount' = [amount EXCEPT ![r] = n]
  /\ awaited' = [awaited EXCEPT ![r] = FALSE]
  /\ IF awaited[r] THEN Wakes(r) ELSE UNCHANGED scheduling
  /\ UNCHANGED <<disk, watching, reading>>

PoolOpens(r) == job[r] = "open" /\ Answer(r, IF exists THEN "found" ELSE "missing", 0)
PoolSeeks(r) == job[r] = "seek" /\ Answer(r, "sought", size)
PoolReadsAll(r) == job[r] = "read" /\ Answer(r, "got", size)    \* mutant: from the start
PoolReads(r) == job[r] = "read" /\ Answer(r, "got", size - pos[r])

\* No permission, a full disk, whatever is not NotFound.
PoolFails(r) == job[r] \in {"open", "seek", "read"} /\ Answer(r, "broken", 0)

(***************************************************************************)
(* The task.  To open comes first, and may fail: created_as_well.rs only   *)
(* begins to watch the directory, modified_only.rs wants the file too.     *)
(***************************************************************************)
Open(r) ==
  /\ file[r] = "unwatched"
  /\ Cardinality({q \in Readers : file[q] # "unwatched"}) < MaxOpen
  /\ \/ file' = [file EXCEPT ![r] = "failed"] /\ UNCHANGED task
     \/ /\ r \in ModifiedOnly => exists
        /\ file' = [file EXCEPT ![r] = IF r \in ModifiedOnly THEN "open" ELSE "closed"]
        /\ task' = [task EXCEPT ![r] = "scheduled"]
  /\ UNCHANGED <<disk, watching, notified, working, slot, pc, pos>>

PC(r, from, to) == pc[r] = from /\ pc' = [pc EXCEPT ![r] = to]
Submit(r, j) == job[r] = "none" /\ job' = [job EXCEPT ![r] = j] /\ UNCHANGED <<amount, awaited>>
Await(r) == awaited' = [awaited EXCEPT ![r] = TRUE] /\ UNCHANGED <<job, amount>>
Consume(r, a) == job[r] = a /\ job' = [job EXCEPT ![r] = "none"] /\ UNCHANGED <<amount, awaited>>

\* The runtime polls the task, and the task calls poll_read.
Poll(r) ==
  /\ task[r] = "scheduled"
  /\ file[r] # "gone"
  /\ task' = [task EXCEPT ![r] = "polling"]
  /\ notified' = [notified EXCEPT ![r] = FALSE]
  /\ PC(r, "out", IF file[r] = "open" THEN "read" ELSE "find")
  /\ UNCHANGED <<disk, watching, working, slot, file, pos>>

\* FileFut::poll, which goes on polling until the file is opened and sought to
\* its end; when there is none it makes a new future, and is Pending.
FindFile(r) ==
  /\ \/ PC(r, "find", "find") /\ Submit(r, "open") /\ UNCHANGED <<file, pos>>
     \/ /\ job[r] \in {"open", "seek"} /\ ~awaited[r]
        /\ PC(r, "find", "find") /\ Await(r) /\ UNCHANGED <<file, pos>>
     \/ /\ job[r] = "found" /\ job' = [job EXCEPT ![r] = "seek"]
        /\ PC(r, "find", "find") /\ UNCHANGED <<amount, awaited, file, pos>>
     \/ /\ PC(r, "find", "read") /\ Consume(r, "sought")
        /\ file' = [file EXCEPT ![r] = "open"]
        /\ pos' = [pos EXCEPT ![r] = amount[r]]
     \/ PC(r, "find", "register") /\ Consume(r, "missing") /\ UNCHANGED <<file, pos>>
  /\ UNCHANGED <<disk, watching, scheduling, slot>>

\* File::poll_read: it hands a read to the pool; while that runs it is
\* Pending; else there are bytes, which go to the caller, who reads on.
ReadSome(r) ==
  /\ \/ PC(r, "read", "read") /\ Submit(r, "read") /\ UNCHANGED pos
     \/ job[r] = "read" /\ PC(r, "read", "register") /\ Await(r) /\ UNCHANGED pos
     \/ /\ amount[r] > 0
        /\ PC(r, "read", "read") /\ Consume(r, "got")
        /\ pos' = [pos EXCEPT ![r] = @ + amount[r]]
  /\ UNCHANGED <<disk, watching, scheduling, slot, file>>

ReopenOnError(r) ==   \* mutant: any error is taken for NotFound
  /\ Consume(r, "broken")
  /\ PC(r, "find", "register") \/ PC(r, "read", "register")
  /\ UNCHANGED <<disk, watching, scheduling, slot, file, pos>>

\* Poll::Ready(Err(e)), which leaves no error behind: a File can be polled
\* again, a MaybeDone whose output is taken cannot.
ReportError(r) ==
  /\ Consume(r, "broken")
  /\ \/ PC(r, "find", "out") /\ file' = [file EXCEPT ![r] = "gone"]
     \/ PC(r, "read", "out") /\ UNCHANGED file
  /\ task' = [task EXCEPT ![r] = "ready"]
  /\ UNCHANGED <<disk, watching, notified, slot, pos>>

\* The caller polls again after an error ...
PollAgain(r) ==
  /\ task[r] = "ready"
  /\ task' = [task EXCEPT ![r] = "scheduled"]
  /\ UNCHANGED <<disk, watching, notified, working, reading>>

\* ... and "MaybeDone polled after value taken".
Panic(r) ==
  /\ task[r] = "scheduled"
  /\ file[r] = "gone"
  /\ task' = [task EXCEPT ![r] = "panicked"]
  /\ UNCHANGED <<disk, watching, notified, working, reading>>

ReadNothingAndReturn(r) ==   \* mutant: EOF returns at once
  /\ amount[r] = 0
  /\ PC(r, "read", "return")
  /\ Consume(r, "got")
  /\ UNCHANGED <<disk, watching, scheduling, slot, file, pos>>

\* No more new bytes.
ReadNothing(r) ==
  /\ amount[r] = 0
  /\ PC(r, "read", "register")
  /\ Consume(r, "got")
  /\ UNCHANGED <<disk, watching, scheduling, slot, file, pos>>

\* this.waker.register(cx.waker())
Register(r) ==
  /\ PC(r, "register", "return")
  /\ slot' = [slot EXCEPT ![r] = TRUE]
  /\ UNCHANGED <<disk, watching, scheduling, working, file, pos>>

\* Poll::Pending reaches the runtime.
Return(r) ==
  /\ PC(r, "return", "out")
  /\ task' = [task EXCEPT ![r] = IF notified[r] THEN "scheduled" ELSE "idle"]
  /\ UNCHANGED <<disk, watching, notified, working, slot, file, pos>>

(***************************************************************************)
(* The specification.                                                      *)
(***************************************************************************)
WriterStep == CreateFile \/ AppendChunk \/ ChangeOther

WatcherStep(r) == Deliver(r) \/ Wake(r)

PoolStep(r) == PoolOpens(r) \/ PoolSeeks(r) \/ PoolReads(r) \/ PoolFails(r)

TaskStep(r) ==
  \/ Poll(r) \/ FindFile(r)
  \/ ReadSome(r) \/ ReadNothing(r)
  \/ ReportError(r) \/ Panic(r)
  \/ Register(r) \/ Return(r)

Next ==
  \/ WriterStep
  \/ \E r \in Readers :
       Open(r) \/ PollAgain(r) \/ WatcherStep(r) \/ PoolStep(r) \/ TaskStep(r)

Spec == Init /\ [][Next]_vars

\* The watcher's thread, the pool and the runtime do their work; nobody has to
\* create the file, write to it or open it, or poll again after an error.
Fairness ==
  \A r \in Readers : WF_vars(WatcherStep(r)) /\ WF_vars(PoolStep(r)) /\ WF_vars(TaskStep(r))

FairSpec == Spec /\ Fairness

(***************************************************************************)
(* The inductive invariant.                                                *)
(***************************************************************************)
\* What r has read, and what it was told by the pool, lies within the file.
BytesInv ==
  \A r \in Readers :
    /\ pos[r] <= size
    /\ job[r] = "got" => pos[r] + amount[r] <= size
    /\ job[r] = "sought" => amount[r] <= size

\* A wakeup on its way to a task that is about to sleep is in one of three
\* places: the AtomicWaker, the callback, or the runtime's note of it; and who
\* does not watch is not woken.
WakerInv ==
  \A r \in Readers :
    /\ task[r] = "polling" <=> pc[r] # "out"
    /\ ~Watches(r) =>
         task[r] = "idle" /\ ~slot[r] /\ callback[r] = "idle" /\ ~awaited[r]
    /\ pc[r] = "return" => slot[r] \/ callback[r] = "waking" \/ notified[r]

(***************************************************************************)
(* The properties.                                                         *)
(***************************************************************************)
\* The waker of a task that sleeps is in the AtomicWaker, or was just taken out
\* to wake it (created_as_well.rs:147-149, 160-162, modified_only.rs:80-81).
EventsAreHeard ==
  \A r \in Readers :
    Watches(r) /\ task[r] = "idle" => slot[r] \/ callback[r] = "waking"

\* A step of r's task, or of the pool for r, has all that it waits for.
TaskCanStep(r) ==
  \/ task[r] = "scheduled"
  \/ pc[r] = "find" /\ (job[r] \in {"open", "seek"} => ~awaited[r])
  \/ pc[r] \in {"read", "register", "return"}
PoolCanStep(r) == job[r] \in {"open", "seek", "read"}

\* No answer of the pool finds the task asleep for good, and no poll hangs: a
\* task sleeps with no work at the pool, or with a read that will wake it; one
\* that is woken or polled goes on, unless the pool has yet to open the file or
\* to seek (created_as_well.rs:46-69, 134-162, modified_only.rs:68-81).
AnswersAreHeard ==
  \A r \in Readers :
    /\ task[r] \in {"idle", "ready", "panicked"} =>
         job[r] = "none" \/ (task[r] = "idle" /\ job[r] = "read" /\ awaited[r])
    /\ task[r] \in {"scheduled", "polling"} => TaskCanStep(r) \/ PoolCanStep(r)

\* The task never sleeps where what it waits for cannot reach it, be it an event
\* of the directory or an answer of the pool.
NeverDeaf == EventsAreHeard /\ AnswersAreHeard

\* What happened to the file, of the kinds the reader wants to know of.
Announced(r) ==
  \E i \in 1 .. Len(events[r]) :
    events[r][i] = "modify" \/ (events[r][i] = "create" /\ r \notin ModifiedOnly)
Sleeps(r) == task[r] = "idle" /\ slot[r]
Told(r) == task[r] = "ready"

\* An event that finds the task asleep makes it read all that the file holds:
\* what comes with the event, and what an earlier event failed to announce
\* (created_as_well.rs:95-105, 134-150, modified_only.rs:38-46, 68-81).
EventIsRead ==
  \A r \in Readers, n \in 1 .. MaxSize :
    file[r] = "open" /\ Sleeps(r) /\ job[r] = "none" /\ Announced(r) /\ size >= n
      ~> pos[r] >= n \/ Told(r)

\* One that finds it asleep for want of a file opens the file
\* (created_as_well.rs:157-164).
EventOpensFile ==
  \A r \in Readers :
    file[r] = "closed" /\ exists /\ Sleeps(r) /\ Announced(r)
      ~> file[r] = "open" \/ Told(r)

\* An error of open, seek or read other than NotFound reaches the caller, and
\* leaves no task asleep: of all errors only NotFound is waited out
\* (created_as_well.rs:54-60, 145, 152-155, modified_only.rs:77).
ErrorIsReported == \A r \in Readers : job[r] = "broken" ~> Told(r)

\* "Pending if EOF or NotFound. Self-wake waker in Context on OS event."
\* (created_as_well.rs:123): what is appended to an open file is read.
AppendedIsRead ==
  \A r \in Readers, n \in 1 .. MaxSize :
    file[r] = "open" /\ size >= n ~> pos[r] >= n \/ Told(r)
=============================================================================
