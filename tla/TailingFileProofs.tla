-------------------------- MODULE TailingFileProofs --------------------------
(***************************************************************************)
(* For any number of readers, chunks and events: a task that waits for the *)
(* file or for the pool can be woken, every poll ends, what the pool       *)
(* answers is used, and what is read lies within the file.                 *)
(***************************************************************************)
EXTENDS TailingFile, TLAPS

\* Which work of the pool the task stands at: a file that is not open has a
\* task that opens it before it returns; one that returns while the pool reads
\* has polled the handle, and the answer finds its way to it.
JobInv ==
  \A r \in Readers :
    /\ pc[r] = "find" => file[r] = "closed" /\ job[r] \notin {"read", "got"}
    /\ pc[r] # "find" => job[r] \in {"none", "read", "got", "broken"}
    /\ pc[r] = "read" => file[r] = "open"
    /\ pc[r] \in {"out", "register", "return"} /\ file[r] # "open" => job[r] = "none"
    /\ pc[r] \in {"register", "return"} =>
         job[r] = "none" \/ (job[r] = "read" /\ awaited[r]) \/ notified[r]
    /\ task[r] \in {"ready", "panicked"} => job[r] = "none"

IInv == TypeOK /\ BytesInv /\ WakerInv /\ JobInv /\ NeverDeaf

(* The types of the variables other than exists and events.                  *)
FlatTypeOK ==
  /\ size \in 0 .. MaxSize /\ others \in 0 .. MaxOthers
  /\ callback \in [Readers -> {"idle", "waking"}]
  /\ slot \in [Readers -> BOOLEAN]
  /\ task \in [Readers -> Tasks]
  /\ notified \in [Readers -> BOOLEAN]
  /\ pc \in [Readers -> {"out", "find", "read", "register", "return"}]
  /\ file \in [Readers -> Files]
  /\ pos \in [Readers -> 0 .. MaxSize]
  /\ job \in [Readers -> Jobs]
  /\ amount \in [Readers -> 0 .. MaxSize]
  /\ awaited \in [Readers -> BOOLEAN]

(* TypeOK by parts: Boolean and sequence-valued variables apart.             *)
LEMMA SplitType == TypeOK <=> FlatTypeOK /\ exists \in BOOLEAN /\ events \in [Readers -> Seq(Events)]
  BY DEF TypeOK, FlatTypeOK

(* The invariant holds at the start.                                         *)
LEMMA InitEstablishes == Init => IInv
<1> SUFFICES ASSUME Init PROVE IInv
  OBVIOUS
<1>0. exists \in BOOLEAN
  BY DEF Init
<1>1. events \in [Readers -> Seq(Events)]
  BY DEF Init
<1>2. FlatTypeOK
  BY BoundAssumption DEF Init, FlatTypeOK, Jobs, Tasks, Files
<1>3. BytesInv /\ WakerInv /\ JobInv /\ NeverDeaf
  BY BoundAssumption DEF Init, BytesInv, WakerInv, JobInv, NeverDeaf, EventsAreHeard, AnswersAreHeard, Watches
<1> QED
  BY <1>0, <1>1, <1>2, <1>3, SplitType DEF IInv

(* Only CreateFile changes exists.                                           *)
LEMMA ExistsStep ==
  ASSUME exists \in BOOLEAN, [Next]_vars
  PROVE  exists' \in BOOLEAN
<1>1. ASSUME NEW r \in Readers, Open(r) \/ PollAgain(r) \/ WatcherStep(r) \/ PoolStep(r) \/ TaskStep(r)
      PROVE  UNCHANGED exists
  BY <1>1 DEF Open, PollAgain, WatcherStep, Deliver, Wake, PoolStep, PoolOpens, PoolSeeks, PoolReads,
     PoolFails, Answer, TaskStep, Poll, FindFile, ReadSome, ReadNothing, ReportError, Panic, Register, Return, disk
<1> QED
  BY <1>1 DEF Next, WriterStep, CreateFile, AppendChunk, ChangeOther, vars, disk

(* Events are appended at one end and delivered at the other.                *)
LEMMA EventsStep ==
  ASSUME events \in [Readers -> Seq(Events)], [Next]_vars
  PROVE  events' \in [Readers -> Seq(Events)]
<1>1. ASSUME NEW e \in Events, Emit(e) PROVE events' \in [Readers -> Seq(Events)]
  BY <1>1 DEF Emit
<1>2. CASE WriterStep
  BY <1>1, <1>2 DEF WriterStep, CreateFile, AppendChunk, ChangeOther, Events
<1>3. ASSUME NEW r \in Readers, Deliver(r) PROVE events' \in [Readers -> Seq(Events)]
  <2>1. Tail(events[r]) \in Seq(Events)
    BY <1>3 DEF Deliver
  <2> QED
    BY <1>3, <2>1 DEF Deliver
<1>4. CASE UNCHANGED events
  BY <1>4
<1>5. ASSUME NEW r \in Readers, Open(r) \/ PollAgain(r) \/ Wake(r) \/ PoolStep(r) \/ TaskStep(r)
      PROVE  UNCHANGED events
  BY <1>5 DEF Open, PollAgain, Wake, PoolStep, PoolOpens, PoolSeeks, PoolReads, PoolFails, Answer,
     TaskStep, Poll, FindFile, ReadSome, ReadNothing, ReportError, Panic, Register, Return, watching
<1> QED
  BY <1>2, <1>3, <1>4, <1>5 DEF Next, WatcherStep, vars, watching

(* A wakeup keeps the types of what it changes.                              *)
LEMMA WakesTypes ==
  ASSUME FlatTypeOK, NEW r \in Readers, Wakes(r)
  PROVE  /\ task' \in [Readers -> Tasks]
         /\ notified' \in [Readers -> BOOLEAN]
<1>1. task' \in [Readers -> Tasks]
  BY DEF FlatTypeOK, Wakes, Tasks
<1>2. notified' \in [Readers -> BOOLEAN]
  BY DEF FlatTypeOK, Wakes
<1> QED
  BY <1>1, <1>2

(* So does an answer of the pool that is within the file.                    *)
LEMMA AnswerTypes ==
  ASSUME FlatTypeOK, NEW r \in Readers, NEW a \in Jobs, NEW n \in 0 .. MaxSize, Answer(r, a, n)
  PROVE  FlatTypeOK'
<1>1. /\ task' \in [Readers -> Tasks]
      /\ notified' \in [Readers -> BOOLEAN]
  BY WakesTypes DEF Answer, FlatTypeOK, scheduling
<1>2. job' \in [Readers -> Jobs] /\ amount' \in [Readers -> 0 .. MaxSize]
  BY DEF Answer, FlatTypeOK
<1>3. awaited' \in [Readers -> BOOLEAN]
  BY DEF Answer, FlatTypeOK
<1>4. UNCHANGED <<size, others, callback, slot, pc, file, pos>>
  BY DEF Answer, disk, watching, reading
<1> QED
  BY <1>1, <1>2, <1>3, <1>4 DEF FlatTypeOK

(* Of the variables that FindFile, ReadSome and ReadNothing change.          *)
LEMMA PollTypes ==
  ASSUME FlatTypeOK, NEW r \in Readers, FindFile(r) \/ ReadSome(r) \/ ReadNothing(r),
         pos' \in [Readers -> 0 .. MaxSize]
  PROVE  FlatTypeOK'
<1> USE DEF FlatTypeOK, FindFile, ReadSome, ReadNothing, PC, Submit, Await, Consume
<1>1. pc' \in [Readers -> {"out", "find", "read", "register", "return"}]
  OBVIOUS
<1>2. job' \in [Readers -> Jobs]
  BY DEF Jobs
<1>3. awaited' \in [Readers -> BOOLEAN]
  OBVIOUS
<1>4. file' \in [Readers -> Files]
  BY DEF Files
<1>5. UNCHANGED <<size, others, callback, slot, task, notified, amount>>
  BY DEF disk, watching, scheduling
<1> QED
  BY <1>1, <1>2, <1>3, <1>4, <1>5

(* Every step keeps the types; the reads rest on BytesInv.                   *)
LEMMA FlatTypeStep ==
  ASSUME FlatTypeOK, BytesInv, [Next]_vars
  PROVE  FlatTypeOK'
<1> USE DEF disk, watching, scheduling, working, reading, PC
<1>1. CASE WriterStep
  BY <1>1, BoundAssumption DEF WriterStep, CreateFile, AppendChunk, ChangeOther, FlatTypeOK
<1>2. ASSUME NEW r \in Readers, Open(r) PROVE FlatTypeOK'
  BY <1>2 DEF Open, FlatTypeOK, Tasks, Files
<1>3. ASSUME NEW r \in Readers, Deliver(r) PROVE FlatTypeOK'
  BY <1>3 DEF Deliver, FlatTypeOK
<1>4. ASSUME NEW r \in Readers, Wake(r) PROVE FlatTypeOK'
  BY <1>4, WakesTypes DEF Wake, FlatTypeOK
<1>5. ASSUME NEW r \in Readers, PoolOpens(r) PROVE FlatTypeOK'
  <2>1. 0 \in 0 .. MaxSize
    BY BoundAssumption
  <2> QED
    BY <1>5, <2>1, AnswerTypes DEF PoolOpens, Jobs
<1>6. ASSUME NEW r \in Readers, PoolSeeks(r) PROVE FlatTypeOK'
  BY <1>6, AnswerTypes DEF PoolSeeks, Jobs, FlatTypeOK
<1>7. ASSUME NEW r \in Readers, PoolReads(r) PROVE FlatTypeOK'
  <2>1. size - pos[r] \in 0 .. MaxSize
    BY BoundAssumption DEF FlatTypeOK, BytesInv
  <2> QED
    BY <1>7, <2>1, AnswerTypes DEF PoolReads, Jobs
<1>8. ASSUME NEW r \in Readers, Poll(r) \/ Register(r) \/ Return(r) PROVE FlatTypeOK'
  BY <1>8 DEF Poll, Register, Return, FlatTypeOK, Tasks
<1>13. ASSUME NEW r \in Readers, PoolFails(r) PROVE FlatTypeOK'
  <2>1. 0 \in 0 .. MaxSize
    BY BoundAssumption
  <2> QED
    BY <1>13, <2>1, AnswerTypes DEF PoolFails, Jobs
<1>14. ASSUME NEW r \in Readers, ReportError(r) PROVE FlatTypeOK'
  BY <1>14 DEF ReportError, Consume, FlatTypeOK, Tasks, Files, Jobs
<1>15. ASSUME NEW r \in Readers, PollAgain(r) \/ Panic(r) PROVE FlatTypeOK'
  BY <1>15 DEF PollAgain, Panic, FlatTypeOK, Tasks
<1>9. ASSUME NEW r \in Readers, FindFile(r) PROVE FlatTypeOK'
  <2>1. pos' \in [Readers -> 0 .. MaxSize]
    BY <1>9 DEF FindFile, FlatTypeOK
  <2> QED
    BY <1>9, <2>1, PollTypes
<1>10. ASSUME NEW r \in Readers, ReadSome(r) PROVE FlatTypeOK'
  <2>1. job[r] = "got" => pos[r] + amount[r] \in 0 .. MaxSize
    BY BoundAssumption DEF FlatTypeOK, BytesInv
  <2>2. pos' \in [Readers -> 0 .. MaxSize]
    BY <1>10, <2>1 DEF ReadSome, Consume, FlatTypeOK
  <2> QED
    BY <1>10, <2>2, PollTypes
<1>11. ASSUME NEW r \in Readers, ReadNothing(r) PROVE FlatTypeOK'
  BY <1>11, PollTypes DEF ReadNothing, FlatTypeOK
<1>12. CASE UNCHANGED vars
  BY <1>12 DEF vars, FlatTypeOK
<1> QED
  BY <1>1, <1>2, <1>3, <1>4, <1>5, <1>6, <1>7, <1>8, <1>9, <1>10, <1>11, <1>12,
     <1>13, <1>14, <1>15
     DEF Next, WatcherStep, PoolStep, TaskStep

(* No step takes an offset, or an answer, past the end of the file.          *)
LEMMA BytesStep ==
  ASSUME FlatTypeOK, BytesInv, [Next]_vars
  PROVE  BytesInv'
<1> USE BoundAssumption
    DEF FlatTypeOK, BytesInv, disk, watching, scheduling, working, reading, PC
<1>1. CASE WriterStep
  BY <1>1 DEF WriterStep, CreateFile, AppendChunk, ChangeOther
<1>2. ASSUME NEW r \in Readers, Open(r) PROVE BytesInv'
  BY <1>2 DEF Open
<1>3. ASSUME NEW r \in Readers, Deliver(r) PROVE BytesInv'
  BY <1>3 DEF Deliver
<1>4. ASSUME NEW r \in Readers, Wake(r) PROVE BytesInv'
  BY <1>4 DEF Wake, Wakes
<1>5. ASSUME NEW r \in Readers, PoolOpens(r) \/ PoolSeeks(r) \/ PoolFails(r) PROVE BytesInv'
  BY <1>5 DEF PoolOpens, PoolSeeks, PoolFails, Answer, Wakes
<1>6. ASSUME NEW r \in Readers, PoolReads(r) PROVE BytesInv'
  BY <1>6 DEF PoolReads, Answer, Wakes
<1>7. ASSUME NEW r \in Readers, Poll(r) \/ Register(r) \/ Return(r) PROVE BytesInv'
  BY <1>7 DEF Poll, Register, Return
<1>8. ASSUME NEW r \in Readers, FindFile(r) PROVE BytesInv'
  BY <1>8 DEF FindFile, Submit, Await, Consume
<1>9. ASSUME NEW r \in Readers, ReadSome(r) \/ ReadNothing(r) PROVE BytesInv'
  BY <1>9 DEF ReadSome, ReadNothing, Submit, Await, Consume
<1>10. CASE UNCHANGED vars
  BY <1>10 DEF vars
<1>11. ASSUME NEW r \in Readers, ReportError(r) \/ PollAgain(r) \/ Panic(r) PROVE BytesInv'
  BY <1>11 DEF ReportError, PollAgain, Panic, Consume
<1> QED
  BY <1>1, <1>2, <1>3, <1>4, <1>5, <1>6, <1>7, <1>8, <1>9, <1>10, <1>11
     DEF Next, WatcherStep, PoolStep, TaskStep

(* What a wakeup does to the tasks, r's and the others'.                     *)
LEMMA WakesEffect ==
  ASSUME FlatTypeOK, NEW r \in Readers, Wakes(r), NEW q \in Readers
  PROVE  /\ q # r => task'[q] = task[q] /\ notified'[q] = notified[q]
         /\ task'[q] = "polling" <=> task[q] = "polling"
         /\ task'[q] = "idle" => task[q] = "idle" /\ q # r
         /\ task[r] = "polling" => notified'[r]
         /\ notified[q] => notified'[q]
<1> USE DEF FlatTypeOK
<1>1. CASE task[r] = "idle"
  BY <1>1 DEF Wakes
<1>2. CASE task[r] = "scheduled"
  BY <1>2 DEF Wakes
<1>3. CASE task[r] = "polling"
  <2>1. task' = task /\ notified' = [notified EXCEPT ![r] = TRUE]
    BY <1>3 DEF Wakes
  <2> QED
    BY <1>3, <2>1
<1>4. CASE task[r] \in {"ready", "panicked"}
  BY <1>4 DEF Wakes
<1> QED
  BY <1>1, <1>2, <1>3, <1>4 DEF Tasks

(* The pool's answer, which wakes the task or leaves it alone.               *)
LEMMA AnswerKeepsWaker ==
  ASSUME FlatTypeOK, WakerInv, EventsAreHeard, NEW r \in Readers, NEW a, NEW n, Answer(r, a, n)
  PROVE  WakerInv' /\ EventsAreHeard'
<1> USE DEF WakerInv, EventsAreHeard, Watches
<1>1. UNCHANGED <<pc, file, slot, callback>>
  BY DEF Answer, watching, reading
<1>2. \A q \in Readers : awaited'[q] => awaited[q]
  BY DEF Answer, FlatTypeOK
<1>3. CASE awaited[r]
  <2>1. Wakes(r)
    BY <1>3 DEF Answer
  <2>2. Watches(r)
    BY <1>3
  <2> QED
    BY <1>1, <1>2, <2>1, <2>2, WakesEffect
<1>4. CASE ~awaited[r]
  BY <1>1, <1>2, <1>4 DEF Answer, scheduling
<1> QED
  BY <1>3, <1>4

(* Every step leaves a sleeping, watching task where an event finds it.      *)
LEMMA WakerStep ==
  ASSUME FlatTypeOK, WakerInv, EventsAreHeard, [Next]_vars
  PROVE  WakerInv' /\ EventsAreHeard'
<1> USE DEF WakerInv, EventsAreHeard, Watches, disk, watching, scheduling, working, reading, PC
<1>1. CASE WriterStep
  BY <1>1 DEF WriterStep, CreateFile, AppendChunk, ChangeOther
<1>2. ASSUME NEW r \in Readers, Open(r) PROVE WakerInv' /\ EventsAreHeard'
  BY <1>2 DEF Open, FlatTypeOK
<1>3. ASSUME NEW r \in Readers, Deliver(r) PROVE WakerInv' /\ EventsAreHeard'
  <2>1. UNCHANGED <<task, notified, pc, file, awaited>>
    BY <1>3 DEF Deliver
  <2>2. CASE UNCHANGED <<slot, callback>>
    BY <2>1, <2>2
  <2>3. CASE /\ slot[r]
             /\ slot' = [slot EXCEPT ![r] = FALSE]
             /\ callback' = [callback EXCEPT ![r] = "waking"]
    <3>1. Watches(r)
      BY <2>3
    <3>2. /\ \A q \in Readers : q # r => slot'[q] = slot[q] /\ callback'[q] = callback[q]
          /\ callback'[r] = "waking"
      BY <2>3 DEF FlatTypeOK
    <3> QED
      BY <2>1, <3>1, <3>2
  <2> QED
    BY <1>3, <2>2, <2>3 DEF Deliver
<1>4. ASSUME NEW r \in Readers, Wake(r) PROVE WakerInv' /\ EventsAreHeard'
  <2>1. /\ UNCHANGED <<pc, file, slot, awaited>>
        /\ Wakes(r)
        /\ callback[r] = "waking"
        /\ callback' = [callback EXCEPT ![r] = "idle"]
    BY <1>4 DEF Wake
  <2>2. \A q \in Readers : callback'[q] = IF q = r THEN "idle" ELSE callback[q]
    BY <2>1 DEF FlatTypeOK
  <2>3. Watches(r)
    BY <2>1
  <2> QED
    BY <2>1, <2>2, <2>3, WakesEffect
<1>5. ASSUME NEW r \in Readers, PoolStep(r) PROVE WakerInv' /\ EventsAreHeard'
  BY <1>5, AnswerKeepsWaker DEF PoolStep, PoolOpens, PoolSeeks, PoolReads, PoolFails
<1>6. ASSUME NEW r \in Readers, Poll(r) \/ Register(r) \/ Return(r) PROVE WakerInv' /\ EventsAreHeard'
  BY <1>6 DEF Poll, Register, Return, FlatTypeOK
<1>7. ASSUME NEW r \in Readers, FindFile(r) PROVE WakerInv' /\ EventsAreHeard'
  BY <1>7 DEF FindFile, Submit, Await, Consume, FlatTypeOK
<1>8. ASSUME NEW r \in Readers, ReadSome(r) \/ ReadNothing(r) PROVE WakerInv' /\ EventsAreHeard'
  BY <1>8 DEF ReadSome, ReadNothing, Submit, Await, Consume, FlatTypeOK
<1>9. CASE UNCHANGED vars
  BY <1>9 DEF vars
<1>10. ASSUME NEW r \in Readers, ReportError(r) \/ PollAgain(r) \/ Panic(r)
       PROVE  WakerInv' /\ EventsAreHeard'
  BY <1>10 DEF ReportError, PollAgain, Panic, Consume, FlatTypeOK
<1> QED
  BY <1>1, <1>2, <1>3, <1>4, <1>5, <1>6, <1>7, <1>8, <1>9, <1>10 DEF Next, WatcherStep, TaskStep

(* The pool's answer: it wakes the task that has polled the handle.          *)
LEMMA AnswerKeepsJob ==
  ASSUME FlatTypeOK, WakerInv, JobInv, NEW r \in Readers, NEW a, NEW n, Answer(r, a, n),
         \/ job[r] = "open" /\ a \in {"found", "missing", "broken"}
         \/ job[r] = "seek" /\ a \in {"sought", "broken"}
         \/ job[r] = "read" /\ a \in {"got", "broken"}
  PROVE  JobInv'
<1> USE DEF WakerInv, JobInv
<1>1. /\ UNCHANGED <<pc, file>>
      /\ job'[r] = a
      /\ \A q \in Readers : q # r => job'[q] = job[q] /\ awaited'[q] = awaited[q]
  BY DEF Answer, reading, FlatTypeOK
<1>2. \A q \in Readers : notified[q] => notified'[q]
  BY WakesEffect DEF Answer, scheduling
<1>3. \A q \in Readers : task'[q] \in {"ready", "panicked"} => task'[q] = task[q]
  BY DEF Answer, Wakes, scheduling, FlatTypeOK
<1>4. task[r] \notin {"ready", "panicked"}
  OBVIOUS
<1>5. pc[r] \in {"register", "return"} => notified'[r]
  <2>1. pc[r] \in {"register", "return"} => task[r] = "polling"
    OBVIOUS
  <2>2. pc[r] \in {"register", "return"} => notified[r] \/ awaited[r]
    OBVIOUS
  <2> QED
    BY <1>2, <2>1, <2>2, WakesEffect DEF Answer
<1>6. ASSUME NEW q \in Readers, q # r
      PROVE  /\ pc'[q] = pc[q] /\ file'[q] = file[q] /\ job'[q] = job[q] /\ awaited'[q] = awaited[q]
             /\ notified[q] => notified'[q]
             /\ task'[q] \in {"ready", "panicked"} => task[q] \in {"ready", "panicked"}
  BY <1>1, <1>2, <1>3, <1>6
<1> QED
  BY <1>1, <1>3, <1>4, <1>5, <1>6

(* The work a task has with the pool stays what its place in poll_read says. *)
LEMMA JobStep ==
  ASSUME FlatTypeOK, WakerInv, JobInv, AnswersAreHeard, [Next]_vars
  PROVE  JobInv'
<1> USE DEF WakerInv, JobInv, Watches, disk, watching, scheduling, working, reading, PC
<1>1. CASE WriterStep
  BY <1>1 DEF WriterStep, CreateFile, AppendChunk, ChangeOther
<1>2. ASSUME NEW r \in Readers, Open(r) PROVE JobInv'
  BY <1>2 DEF Open, FlatTypeOK
<1>3. ASSUME NEW r \in Readers, Deliver(r) PROVE JobInv'
  BY <1>3 DEF Deliver
<1>4. ASSUME NEW r \in Readers, Wake(r) PROVE JobInv'
  <2>1. UNCHANGED <<pc, file, job, awaited>> /\ Wakes(r)
    BY <1>4 DEF Wake
  <2>2. \A q \in Readers : notified[q] => notified'[q]
    BY <2>1, WakesEffect
  <2>3. \A q \in Readers : task'[q] \in {"ready", "panicked"} => task'[q] = task[q]
    BY <2>1 DEF Wakes, FlatTypeOK
  <2> QED
    BY <2>1, <2>2, <2>3
<1>5. ASSUME NEW r \in Readers, PoolStep(r) PROVE JobInv'
  BY <1>5, AnswerKeepsJob DEF PoolStep, PoolOpens, PoolSeeks, PoolReads, PoolFails
<1>6. ASSUME NEW r \in Readers, Poll(r) PROVE JobInv'
  BY <1>6 DEF Poll, FlatTypeOK, Files, AnswersAreHeard
<1>7. ASSUME NEW r \in Readers, FindFile(r) PROVE JobInv'
  BY <1>7 DEF FindFile, Submit, Await, Consume, FlatTypeOK
<1>8. ASSUME NEW r \in Readers, ReadSome(r) PROVE JobInv'
  BY <1>8 DEF ReadSome, Submit, Await, Consume, FlatTypeOK
<1>9. ASSUME NEW r \in Readers, ReadNothing(r) PROVE JobInv'
  BY <1>9 DEF ReadNothing, Consume, FlatTypeOK
<1>10. ASSUME NEW r \in Readers, ReportError(r) PROVE JobInv'
  BY <1>10 DEF ReportError, Consume, FlatTypeOK
<1>11. ASSUME NEW r \in Readers, PollAgain(r) \/ Panic(r) PROVE JobInv'
  BY <1>11 DEF PollAgain, Panic, FlatTypeOK
<1>12. ASSUME NEW r \in Readers, Register(r) \/ Return(r) PROVE JobInv'
  BY <1>12 DEF Register, Return, FlatTypeOK
<1>13. CASE UNCHANGED vars
  BY <1>13 DEF vars
<1> QED
  BY <1>1, <1>2, <1>3, <1>4, <1>5, <1>6, <1>7, <1>8, <1>9, <1>10, <1>11, <1>12, <1>13
     DEF Next, WatcherStep, TaskStep

(* A task falls asleep, or is polled, where the pool's answer is heard.      *)
LEMMA HeardStep ==
  ASSUME FlatTypeOK, WakerInv, JobInv, AnswersAreHeard, FlatTypeOK', WakerInv', JobInv', [Next]_vars
  PROVE  AnswersAreHeard'
<1>1. ASSUME NEW r \in Readers, task'[r] \in {"scheduled", "polling"}
      PROVE  TaskCanStep(r)' \/ PoolCanStep(r)'
  BY <1>1 DEF TaskCanStep, PoolCanStep, WakerInv, JobInv, FlatTypeOK
<1>2. ASSUME NEW r \in Readers, task'[r] = "idle"
      PROVE  job'[r] = "none" \/ (job'[r] = "read" /\ awaited'[r])
  <2> USE DEF AnswersAreHeard, WakerInv, JobInv, Watches, disk, watching, scheduling, working, reading, PC
  <2>1. CASE WriterStep
    BY <1>2, <2>1 DEF WriterStep, CreateFile, AppendChunk, ChangeOther
  <2>2. ASSUME NEW q \in Readers, Open(q) \/ Deliver(q) PROVE job'[r] = "none" \/ (job'[r] = "read" /\ awaited'[r])
    BY <1>2, <2>2 DEF Open, Deliver, FlatTypeOK
  <2>3. ASSUME NEW q \in Readers, Wake(q) PROVE job'[r] = "none" \/ (job'[r] = "read" /\ awaited'[r])
    BY <1>2, <2>3, WakesEffect DEF Wake
  <2>4. ASSUME NEW q \in Readers, NEW a, NEW n, Answer(q, a, n), job[q] # "none"
        PROVE  job'[r] = "none" \/ (job'[r] = "read" /\ awaited'[r])
    <3>1. CASE awaited[q]
      <4>1. task[r] = "idle" /\ r # q
        BY <1>2, <2>4, <3>1, WakesEffect DEF Answer
      <4> QED
        BY <2>4, <4>1 DEF Answer, FlatTypeOK
    <3>2. CASE ~awaited[q]
      <4>1. task[r] = "idle" /\ r # q
        BY <1>2, <2>4, <3>2 DEF Answer
      <4> QED
        BY <2>4, <4>1 DEF Answer, FlatTypeOK
    <3> QED
      BY <3>1, <3>2
  <2>5. ASSUME NEW q \in Readers, PoolStep(q) PROVE job'[r] = "none" \/ (job'[r] = "read" /\ awaited'[r])
    BY <2>4, <2>5 DEF PoolStep, PoolOpens, PoolSeeks, PoolReads, PoolFails
  <2>6. ASSUME NEW q \in Readers, Poll(q) \/ PollAgain(q) \/ Panic(q) \/ Register(q)
        PROVE  job'[r] = "none" \/ (job'[r] = "read" /\ awaited'[r])
    BY <1>2, <2>6 DEF Poll, PollAgain, Panic, Register, FlatTypeOK
  <2>7. ASSUME NEW q \in Readers, Return(q) PROVE job'[r] = "none" \/ (job'[r] = "read" /\ awaited'[r])
    BY <1>2, <2>7 DEF Return, FlatTypeOK
  <2>8. ASSUME NEW q \in Readers, FindFile(q) PROVE job'[r] = "none" \/ (job'[r] = "read" /\ awaited'[r])
    BY <1>2, <2>8 DEF FindFile, Submit, Await, Consume, FlatTypeOK
  <2>9. ASSUME NEW q \in Readers, ReadSome(q) \/ ReadNothing(q) \/ ReportError(q)
        PROVE  job'[r] = "none" \/ (job'[r] = "read" /\ awaited'[r])
    BY <1>2, <2>9 DEF ReadSome, ReadNothing, ReportError, Submit, Await, Consume, FlatTypeOK
  <2>10. CASE UNCHANGED vars
    BY <1>2, <2>10 DEF vars
  <2> QED
    BY <2>1, <2>2, <2>3, <2>5, <2>6, <2>7, <2>8, <2>9, <2>10 DEF Next, WatcherStep, TaskStep
<1> QED
  BY <1>1, <1>2 DEF AnswersAreHeard, JobInv

\* What the pool answers is not thrown away, and r reads by its answers alone: an
\* error is only taken by telling the caller, bytes and the offset of the end only
\* by moving past them, and nothing else moves r in the file
\* (created_as_well.rs:34-39, 54-60, 136-155, modified_only.rs:68-81).
UsesAnswer(r) ==
  /\ job[r] # job'[r] =>
       /\ job[r] = "broken" => task'[r] = "ready"
       /\ job[r] = "got" => pos'[r] = pos[r] + amount[r]
       /\ job[r] = "sought" => pos'[r] = amount[r]
  /\ pos[r] # pos'[r] => job[r] \in {"got", "sought"} /\ job'[r] = "none"
AnswersAreUsed == [][\A r \in Readers : UsesAnswer(r)]_vars

(* Who takes an answer uses it.                                              *)
LEMMA AnswerIsUsed ==
  ASSUME FlatTypeOK, JobInv, [Next]_vars, NEW r \in Readers
  PROVE  UsesAnswer(r)
<1> USE DEF UsesAnswer, disk, watching, scheduling, working, reading, PC
<1>2. ASSUME NEW q \in Readers, PoolStep(q) PROVE UsesAnswer(r)
  BY <1>2 DEF PoolStep, PoolOpens, PoolSeeks, PoolReads, PoolFails, Answer, FlatTypeOK
<1>3. ASSUME NEW q \in Readers, FindFile(q) PROVE UsesAnswer(r)
  BY <1>3 DEF FindFile, Submit, Await, Consume, FlatTypeOK
<1>4. ASSUME NEW q \in Readers, ReadSome(q) PROVE UsesAnswer(r)
  BY <1>4 DEF ReadSome, Submit, Await, Consume, FlatTypeOK
<1>5. ASSUME NEW q \in Readers, ReadNothing(q) PROVE UsesAnswer(r)
  BY <1>5 DEF ReadNothing, Consume, FlatTypeOK
<1>6. ASSUME NEW q \in Readers, ReportError(q) PROVE UsesAnswer(r)
  BY <1>6 DEF ReportError, Consume, FlatTypeOK
<1>7. CASE WriterStep
  BY <1>7 DEF WriterStep, CreateFile, AppendChunk, ChangeOther
<1>8. ASSUME NEW q \in Readers, Open(q) \/ Deliver(q) \/ Wake(q) \/ Poll(q) PROVE UsesAnswer(r)
  BY <1>8 DEF Open, Deliver, Wake, Poll
<1>9. ASSUME NEW q \in Readers, PollAgain(q) \/ Panic(q) \/ Register(q) \/ Return(q) PROVE UsesAnswer(r)
  BY <1>9 DEF PollAgain, Panic, Register, Return
<1>1. CASE UNCHANGED vars
  BY <1>1 DEF vars
<1> QED
  BY <1>1, <1>2, <1>3, <1>4, <1>5, <1>6, <1>7, <1>8, <1>9 DEF Next, WatcherStep, TaskStep

(* The invariant is inductive.                                               *)
LEMMA StepKeeps == IInv /\ [Next]_vars => IInv'
<1> SUFFICES ASSUME IInv, [Next]_vars PROVE IInv'
  OBVIOUS
<1>1. FlatTypeOK /\ exists \in BOOLEAN /\ events \in [Readers -> Seq(Events)]
  BY SplitType DEF IInv
<1>2. FlatTypeOK' /\ exists' \in BOOLEAN /\ events' \in [Readers -> Seq(Events)]
  BY <1>1, ExistsStep, EventsStep, FlatTypeStep DEF IInv
<1>3. TypeOK'
  BY <1>2 DEF TypeOK, FlatTypeOK
<1>4. BytesInv' /\ WakerInv' /\ EventsAreHeard'
  BY <1>1, BytesStep, WakerStep DEF IInv, NeverDeaf
<1>5. JobInv'
  BY <1>1, JobStep DEF IInv, NeverDeaf
<1>6. AnswersAreHeard'
  BY <1>1, <1>2, <1>4, <1>5, HeardStep DEF IInv, NeverDeaf
<1> QED
  BY <1>3, <1>4, <1>5, <1>6 DEF IInv, NeverDeaf

(* The variables keep their types: r reads no byte twice and none that was   *)
(* not written, so pos stays within the file (created_as_well.rs:134-150).   *)
THEOREM TypeCorrect == Spec => []TypeOK
<1>1. IInv => TypeOK
  BY DEF IInv
<1> QED
  BY <1>1, InitEstablishes, StepKeeps, PTL DEF Spec

(* Every way to Pending leaves the waker where an event finds it, and none   *)
(* leaves an answer of the pool, an error among them, to a task that sleeps  *)
(* (created_as_well.rs:46-69, 95-105, 134-162; modified_only.rs:68-81).      *)
THEOREM NeverSleepsDeaf == Spec => []NeverDeaf
<1>1. IInv => NeverDeaf
  BY DEF IInv
<1> QED
  BY <1>1, InitEstablishes, StepKeeps, PTL DEF Spec

(* An error is only taken by telling the caller, bytes only by moving past   *)
(* them (created_as_well.rs:54-60, 136-155).                                 *)
THEOREM AnswersUsed == Spec => AnswersAreUsed
<1>1. IInv /\ [Next]_vars => [\A r \in Readers : UsesAnswer(r)]_vars
  BY SplitType, AnswerIsUsed DEF IInv
<1> QED
  BY <1>1, InitEstablishes, StepKeeps, PTL DEF Spec, AnswersAreUsed

\* How many steps of the task and the pool a poll has left, in a file of n
\* chunks: to find the file, to read what is left of it, and to return.
WorkLeft(r) ==
  CASE job[r] = "none" -> 8
    [] job[r] \in {"open", "seek"} -> (IF job[r] = "open" THEN 6 ELSE 3) + (IF awaited[r] THEN 0 ELSE 1)
    [] job[r] = "found" -> 5
    [] OTHER -> 1
ReadLeft(r) == CASE job[r] = "none" -> 2 [] job[r] = "read" -> 1 [] OTHER -> 0
PollLeft(r) ==
  CASE pc[r] = "find" -> 3 * size + 7 + WorkLeft(r)
    [] pc[r] = "read" -> 3 * (size - pos[r]) + 5 + ReadLeft(r)
    [] pc[r] = "register" -> IF job[r] = "read" THEN 4 ELSE 3
    [] pc[r] = "return" -> IF job[r] = "read" THEN 2 ELSE 1
    [] OTHER -> 0

\* A poll ends: each step takes it nearer to Pending or to an error, unless the
\* file grows; neither the loop of FileFut::poll nor reading on goes round for
\* ever (created_as_well.rs:46-69, 131-167, modified_only.rs:68-83).
PollComesNearer ==
  [][\A r \in Readers :
       /\ task[r] = "polling" /\ size' = size
       /\ <<pc[r], job[r], awaited[r], pos[r]>> # <<pc[r], job[r], awaited[r], pos[r]>>'
       => PollLeft(r) > PollLeft(r)']_vars

(* A step that a polled task, or the pool for it, takes.                     *)
LEMMA PollStep ==
  ASSUME FlatTypeOK, BytesInv, WakerInv, JobInv, BytesInv', [Next]_vars,
         NEW r \in Readers, task[r] = "polling", size' = size,
         <<pc[r], job[r], awaited[r], pos[r]>> # <<pc[r], job[r], awaited[r], pos[r]>>'
  PROVE  PollLeft(r) > PollLeft(r)'
<1> DEFINE Nearer == PollLeft(r) > PollLeft(r)'
<1> USE BoundAssumption DEF disk, watching, scheduling, working, reading, PC
<1>1. /\ size \in Nat /\ pos[r] \in Nat /\ amount[r] \in Nat /\ pos[r] <= size
      /\ job[r] = "got" => pos[r] + amount[r] <= size
      /\ job[r] = "sought" => amount[r] <= size
      /\ pc[r] # "out"
      /\ pc[r] \in {"find", "read", "register", "return"}
  BY DEF FlatTypeOK, BytesInv, WakerInv
<1>2. /\ pc[r] = "find" => job[r] \notin {"read", "got"}
      /\ pc[r] # "find" => job[r] \in {"none", "read", "got", "broken"}
      /\ job[r] \in Jobs
  BY DEF JobInv, FlatTypeOK
<1>3. ASSUME NEW q \in Readers, PoolStep(q) PROVE Nearer
  <2>1. ASSUME NEW a, NEW n, Answer(q, a, n), q = r,
               \/ job[r] = "open" /\ a \in {"found", "missing", "broken"}
               \/ job[r] = "seek" /\ a \in {"sought", "broken"}
               \/ job[r] = "read" /\ a \in {"got", "broken"}
        PROVE  Nearer
    <3>1. job'[r] = a /\ pc'[r] = pc[r] /\ pos'[r] = pos[r]
      BY <2>1 DEF Answer, FlatTypeOK
    <3>2. pc[r] = "find" => WorkLeft(r) > WorkLeft(r)' /\ WorkLeft(r) \in Nat /\ WorkLeft(r)' \in Nat
      BY <1>2, <2>1, <3>1 DEF WorkLeft
    <3>3. pc[r] # "find" => job[r] = "read"
      BY <1>2, <2>1
    <3> QED
      BY <1>1, <3>1, <3>2, <3>3, <2>1 DEF PollLeft, ReadLeft
  <2>2. q = r
    BY <1>3 DEF PoolStep, PoolOpens, PoolSeeks, PoolReads, PoolFails, Answer, FlatTypeOK
  <2> QED
    BY <1>3, <2>1, <2>2 DEF PoolStep, PoolOpens, PoolSeeks, PoolReads, PoolFails
<1>4. ASSUME NEW q \in Readers, FindFile(q) PROVE Nearer
  <2>1. q = r
    BY <1>4 DEF FindFile, Submit, Await, Consume, FlatTypeOK
  <2>2. pc[r] = "find"
    BY <1>4, <2>1 DEF FindFile
  <2>3. CASE pc'[r] = "find"
    <3>1. WorkLeft(r) > WorkLeft(r)' /\ WorkLeft(r) \in Nat /\ WorkLeft(r)' \in Nat
      BY <1>4, <2>1, <2>2, <2>3 DEF FindFile, Submit, Await, Consume, FlatTypeOK, WorkLeft
    <3> QED
      BY <1>1, <2>2, <2>3, <3>1 DEF PollLeft
  <2>4. CASE pc'[r] = "read"
    <3>1. job[r] = "sought" /\ job'[r] = "none" /\ pos'[r] = amount[r]
      BY <1>4, <2>1, <2>2, <2>4 DEF FindFile, Consume, FlatTypeOK
    <3> QED
      BY <1>1, <2>2, <2>4, <3>1 DEF PollLeft, WorkLeft, ReadLeft
  <2>5. CASE pc'[r] = "register"
    <3>1. job[r] = "missing" /\ job'[r] = "none"
      BY <1>4, <2>1, <2>2, <2>5 DEF FindFile, Consume, FlatTypeOK
    <3> QED
      BY <1>1, <2>2, <2>5, <3>1 DEF PollLeft, WorkLeft
  <2> QED
    BY <1>4, <2>1, <2>3, <2>4, <2>5 DEF FindFile, FlatTypeOK
<1>5. ASSUME NEW q \in Readers, ReadSome(q) PROVE Nearer
  <2>1. q = r /\ pc[r] = "read"
    BY <1>5 DEF ReadSome, Submit, Await, Consume, FlatTypeOK
  <2>2. CASE PC(r, "read", "read") /\ Submit(r, "read") /\ UNCHANGED pos
    <3>1. job[r] = "none" /\ job'[r] = "read" /\ pc'[r] = "read" /\ pos'[r] = pos[r]
      BY <2>2 DEF Submit, FlatTypeOK
    <3> QED
      BY <1>1, <2>1, <3>1 DEF PollLeft, ReadLeft
  <2>3. CASE job[r] = "read" /\ PC(r, "read", "register") /\ Await(r) /\ UNCHANGED pos
    <3>1. job[r] = "read" /\ job'[r] = "read" /\ pc'[r] = "register"
      BY <2>3 DEF Await, FlatTypeOK
    <3> QED
      BY <1>1, <2>1, <3>1 DEF PollLeft, ReadLeft
  <2>4. CASE /\ amount[r] > 0
             /\ PC(r, "read", "read") /\ Consume(r, "got")
             /\ pos' = [pos EXCEPT ![r] = @ + amount[r]]
    <3>1. /\ job[r] = "got" /\ job'[r] = "none" /\ pc'[r] = "read"
          /\ pos'[r] = pos[r] + amount[r] /\ amount[r] > 0
      BY <2>4 DEF Consume, FlatTypeOK
    <3> QED
      BY <1>1, <2>1, <3>1 DEF PollLeft, ReadLeft
  <2> QED
    BY <1>5, <2>1, <2>2, <2>3, <2>4 DEF ReadSome
<1>6. ASSUME NEW q \in Readers, ReadNothing(q) \/ ReportError(q) PROVE Nearer
  <2>1. q = r
    BY <1>6 DEF ReadNothing, ReportError, Consume, FlatTypeOK
  <2>2. job'[r] = "none" /\ pc[r] \in {"find", "read"} /\ pc'[r] \in {"register", "out"}
    BY <1>6, <2>1 DEF ReadNothing, ReportError, Consume, FlatTypeOK
  <2>3. WorkLeft(r) \in Nat /\ ReadLeft(r) \in Nat
    BY DEF WorkLeft, ReadLeft
  <2> QED
    BY <1>1, <2>2, <2>3 DEF PollLeft
<1>7. ASSUME NEW q \in Readers, Register(q) \/ Return(q) PROVE Nearer
  <2>1. q = r
    BY <1>7 DEF Register, Return, FlatTypeOK
  <2>2. /\ job'[r] = job[r]
        /\ \/ pc[r] = "register" /\ pc'[r] = "return"
           \/ pc[r] = "return" /\ pc'[r] = "out"
    BY <1>7, <2>1 DEF Register, Return, FlatTypeOK
  <2> QED
    BY <2>2 DEF PollLeft
<1>8. CASE WriterStep
  BY <1>8 DEF WriterStep, CreateFile, AppendChunk, ChangeOther
<1>9. ASSUME NEW q \in Readers, Open(q) \/ Deliver(q) \/ Wake(q) PROVE Nearer
  BY <1>9 DEF Open, Deliver, Wake
<1>10. ASSUME NEW q \in Readers, Poll(q) \/ PollAgain(q) \/ Panic(q) PROVE Nearer
  BY <1>10 DEF Poll, PollAgain, Panic, FlatTypeOK
<1> QED
  BY <1>3, <1>4, <1>5, <1>6, <1>7, <1>8, <1>9, <1>10 DEF Next, WatcherStep, TaskStep, vars

(* A poll ends, as long as the file does (created_as_well.rs:46-69, 131-167, *)
(* modified_only.rs:68-83).                                                  *)
THEOREM PollsEnd == Spec => PollComesNearer
<1>1. IInv /\ IInv' /\ [Next]_vars =>
        [\A r \in Readers :
           /\ task[r] = "polling" /\ size' = size
           /\ <<pc[r], job[r], awaited[r], pos[r]>> # <<pc[r], job[r], awaited[r], pos[r]>>'
           => PollLeft(r) > PollLeft(r)']_vars
  BY SplitType, PollStep DEF IInv
<1> QED
  BY <1>1, InitEstablishes, StepKeeps, PTL DEF Spec, PollComesNearer
=============================================================================
