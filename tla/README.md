# Models and proofs of corust-hackathon

The repository is a collection of small Rust crates, each with one example of
something that is easily got wrong. There is no single program: the crates do
not call each other. What can be specified here are the crates that have state
and more than one actor, or a protocol of calls that can go wrong, and they are
modelled one by one. The first four have a project of their own; the smaller ones
share two TLC instances, as they share nothing else.

* [1. Inventory](#1-inventory)
* [2. Modules](#2-modules)
* [3. Runs](#3-runs)
* [4. Fairness](#4-fairness)
* [5. Proofs](#5-proofs)
* [6. What the code and its comments disagree on](#6-what-the-code-and-its-comments-disagree-on)
* [7. What is not modelled](#7-what-is-not-modelled)
* [8. What could follow](#8-what-could-follow)

## 1. Inventory

| crate | state | operations | how the parts interact | what is hard |
|---|---|---|---|---|
| `task_manager`: `TaskManager` | `waiting` and `ongoing` under one `RwLock` each, a `CancellationToken` per task, a `Semaphore`, an unbounded channel, a `JoinSet`, a thread with a tokio runtime | `spawn_task`, `cancel`, `drop`; the manager loop; `Task::into_future` | callers share the two maps with the futures, and reach the manager thread by the channel; drop waits for the thread | a task moves between two maps under two locks while others look for it; cancel before, during and after the move; a run that never ends; panics; the JoinSet at its limit; drop waiting for a thread whose futures need the lock that drop used |
| `find_zombie_thread_with_loom` | a mutex with a flag, a condition variable, the strong count of an `Arc` | `Foo::new`, `take_jh`, `drop`, `join` | owner and background thread share the `Arc` | a wakeup lost between a test and a wait; a count that is stale when used |
| `tailing_file` | the file, an `AtomicWaker`, the task, tokio's `File`, the watcher's queue | `open`, `poll_read`, the watcher's callback | the callback wakes the task that `poll_read` registered | an event between the read to the end and the registration; an event when nobody is registered; a file that does not exist yet |
| `objc2_screen_capture_kit_delegate_never_called` | an `AtomicPtr`, a `Parker`, a stream of ScreenCaptureKit | `create` (two variants), `main`, the completion handlers | the system's queue runs handlers, which share the pointer and the parker with main | parking on the queue that would call back; parking before the unparker is handed out; publication with `Relaxed` |
| `objc2_screen_capture_kit_incorrect_frame_width` | the shared size, a bounded channel | the output's method | called on the system's queue; a receiver elsewhere reads size and channel | a full channel, a receiver that is gone, the order of size and frame |
| `task_manager`: `BasicTaskManager` | a channel, a detached thread with a runtime | `new`, `spawn_sleep_task`, drop | the thread receives durations and spawns sleeps | nothing joins the thread: its tasks go down with its runtime |
| `limit_the_concurrency_of_async_tasks` | a channel behind a mutex, three workers on one thread | `classic`, `light` | the workers take turns at a blocking `recv` | a blocking call in a cooperative pool |
| `sqlx_share_connection_between_tests` | a `OnceCell` with a connection pool, runtimes | `init_test`, `pg`, `run_test` | each connection is driven by the runtime that opened it | the pool outlives its runtime; acquire times out; an initialiser that panics, within another one's closure |
| `sqlx_pg_bug_leading_by_cached_prepared_statement` | a statement cache per connection | `first_by` | calls with different parameter types meet in one cache | a cached statement that no longer fits |
| `proc_macro_example` | the key found so far | the derive of `BorrowKey` | a macro walks over the fields of a type | which of several fields, or errors, the walk stops at |
| `hashmap_but_key_ref_to_value`, and `ongoing` of `task_manager` | a `HashSet` keyed by a field | `insert`, `get`, `remove` | the set is searched through `Borrow` | `Hash` and `Eq` of the whole and of the key must agree |
| `parameter_injection` | resources by type, a list of systems | `add_resource`, `add_system`, `run`, `run2` | a run looks the parameters of each system up | a missing parameter in the middle of a run; a panic |
| `tauri_state_not_drop_bug` | a map of states, a callback, the count of an `Arc` | `exit`, the four tests | the callback drops what is still in the map | one drop too many or too few; the exit of one test ends the process of all |
| `arc_swap_usage` | a configuration behind `RwLock` or `ArcSwap` | `handle`, `update_config` | threads read what an update replaces | a thread that reads late, an update that waits for a guard |
| the others | none, or none that lives beyond a call | | | see section 7 |

What makes the modelled ones correct, in short: *task manager* – a task is in
exactly the place its stage says, never more than the limit are executed,
cancel and drop miss no task, drop returns and leaves nothing; *background
thread* – whoever drops the `Foo` can join its thread; *tailing file* – the task
never waits where no event reaches it, and reads what an event announces;
*screen capture* – the queue is never held up by what the output does, an unpark
is never lost, and size and frames agree; *the pool of the tests* – on one runtime that stays
up no test times out for another one's sake, and no test ever hangs; *statements* – one type of parameter
per text is enough; *limits* – no two jobs at once, each once, and the function
returns; *ArcSwap* – no job has a configuration that was replaced before it was
handed over; *BorrowKey* – the key is the one field that is marked; *keyed set* –
it is a map from the key; *scheduler* – a missing parameter costs its system the
call and no other; *Tauri* – one drop for each State.

## 2. Modules

### TaskLedger, TaskManager, TaskManagerMC, TaskManagerProofs

`TaskLedger` is the promise: a task is absent, queued, active, stopping or
settled, and each operation is one step. `TaskManager` is
`task_manager/src/lib.rs` lines 101–367. Its actors are clients, the manager
thread, one future per task, and the owner that drops.

* The keys of `waiting` and `ongoing` are sets. A section of code under the
  `RwLock` of `waiting` is one step. The lock of `ongoing` is a variable, as a
  future holds it over its move (lines 140–151) and drop over its loop
  (357–361); every other section on it is one step that needs it free.
* `stage[k]` is the program counter of `Task::into_future`: `spawned` (it waits
  for the semaphore), `permit`, `locked`, `taken` (out of `waiting`), `ready`
  (in `ongoing`), `armed` (select! has looked at the token), `running`,
  `on_err`, `on_cancel`, `finishing`, `leaving`, and `done` or `panicked`.
* `cancel` is two steps, one per map, as in lines 318–327. It is called with
  keys that `spawn_task` has returned; a key that is invented would be taken for
  one that has settled.
* `drop` is `Drain`, `OwnerLock`, `OwnerCancel` for each context, `OwnerUnlock`,
  `CloseChannel`, `JoinManager`. It needs the only reference, so its first step
  is guarded by every client being idle.
* Failures: the runtime cannot be built (the receiver goes, later sends fail,
  drop panics in `unwrap`); user code panics (the permit comes back as the
  future is dropped, the context stays in `ongoing`).

`accepted` and `cancelled` are history variables: which keys were returned, and
for which keys a call of cancel has returned.

### BackgroundThread, BackgroundThreadProofs

`find_zombie_thread_with_loom/src/lib.rs`. `Foos` are independent values, and
`Counting` those built with the feature `error`, so that one instance has both.
The condition variable's wait is one step that releases the mutex and sleeps, as
the standard library has it, and it may return for no reason. The strong count
goes down after the body of `Drop::drop`, when the fields are dropped: that is
why the notification comes too early for the variant that counts.

### TailingFile, TailingFileProofs

`tailing_file/src/created_as_well.rs`, and with `ModifiedOnly` the TailingFile of
`modified_only.rs`. The writer, the watcher with its callback, tokio's blocking
pool and the task step on their own. The pool's part is what decides the matter:
`File::poll_read` hands the read to the pool, which looks at the file *then*;
the task learns of it later, and registers its waker later still. `WakerInv` says
where a wakeup can be meanwhile.
A file is a number of chunks, an event one of created, modified, or about
another file. `file[r]` is how far the file is opened, `job[r]` the work that
the pool has for the reader, or its answer. `NeverDeaf` has two halves:
`EventsAreHeard` for the watcher, `AnswersAreHeard` for the pool. Any work may fail (`PoolFails`); then
`poll_read` returns the error and the task is `ready`, and its caller may poll again.
After an error of open the output of the `MaybeDone` is taken, the file `gone`, and
such a poll panics (`created_as_well.rs` lines 152–158).

### FrameOutput, CaptureStream, CaptureStreamProofs

`FrameOutput` is the output's method of the frame width crate; `CaptureStream`
composes it with `create` and `main` of the delegate crate, whose own output is
a stub of it ("In real implementation, `VideoStreamOutput` has
`crossbeam_channel::Sender` as a field in ivar", `main.rs` line 41). The
variable `feature` is the build. Setting up, parking and stopping is the same
code in both variants, so it is one set of actions, run by the handler or by
`create`. A frame is its number.

That ScreenCaptureKit calls its handlers and the output one at a time on one
queue is external: it is what the comments of `main.rs` (lines 126–127, 135,
195–199) report. `Ordering::Relaxed` is modelled by what it allows: the contents
of the box and the pointer to it arrive at the main thread in either order, and
a read of the box before its contents is undefined and ends the model's run.
`SetUpFails` is the `unwrap` of `addStreamOutput` (lines 171 and 260): the main thread,
or the handler, panics, and the process is over.

### ThreadedExamples, ThreadedProofs: the small crates with threads

`ThreadedExamples` extends the modules below and chooses, in Init, the crate that
runs (`crate`); the others stand still. It is one run and not six because the
crates share neither code nor state; the sum of their state spaces is explored,
not the product.

* `SharedPool` is both files of `sqlx_share_connection_between_tests`, `fixed`
  choosing between them. `cell` is the `OnceCell` INIT, `lazy` the `LazyLock` RT
  with its closure that itself awaits `init_test`, `up` the runtimes that are up,
  `home[c]` the one whose driver the socket of the connection `c` is registered
  with, `user[c]` the test that has it. `acquire` takes an idle connection and
  pings it, or opens one; a connection whose runtime is gone never answers the
  ping, and `TimesOut` is the `unwrap` of `PoolTimedOut`. The drop of a connection
  returns it by a task on the test's runtime, which a `current_thread` runtime
  runs only while somebody is in its `block_on` (`Driven`).
* `StatementCache` is `first_by` on the connections of a pool: a statement is
  cached per connection and text, with the type of parameter it was prepared for.
* `WorkerPool` is `classic` and `light`, by the variable `way`, against the
  promise `BoundedJobs`: each job once, no more than `Limit` at a time, and a function
  that returns when all have ended. There is at least one worker. A job's
  only await is on `ready(())`, so whoever is polled goes on to the end of the job,
  and the limit that the code keeps is one.
* `SharedConfig` is `App1` and `App2` with the loop of their tests; a configuration
  is known by the job before which it was stored. `App1`'s read guard is a
  temporary of one statement; `App2` has none.
* `BasicTaskManager` is the first manager of `task_manager/src/lib.rs` (lines
  35–72): the thread that builds a runtime, or panics over it, the channel, and
  sleeps that go down with the runtime.

### SequentialExamples, BorrowKeyProofs, KeyedSetProofs, SequentialProofs

The same for the crates without threads of their own.

* `Scheduler` is `parameter_injection`: a system is the list of its parameters'
  types, `run` and `run2` are loops that take parameter by parameter, and a system
  that misses one returns. `add_resource` and `add_system` need `&mut self`, so
  they are not called during a run.
* `TauriState` is the four tests of `tauri_state_not_drop_bug` as the threads of
  one process. `drops` counts State's drop, `strong` the `Arc` of `test3`.
  `ProcessExit` ends all of them. In `test4` the map holds a `Box<State>` under the
  key `TypeId::of::<Arc<State>>()`; nobody looks it up, so that is no fault of the
  program as it stands.
* `BorrowKey` is the walk of `derive_borrow_key` over the fields. A field is the
  list of its `#[key]` attributes, each with arguments that parse as a type or not.
  The code takes the first attribute of a field and falls back to the field's type
  when its arguments do not parse; so does the model. `HasIdent` and `HasType` are the
  two locals: the loop refuses a second key if either is set, the end of it an answer
  without both.
* `KeyedSet` is a `HashSet` with the impls of `Borrow`, `Hash` and `Eq` that `Baz`,
  `TaskContext` and the derive have, and `KeySet` the promise: a set in which the
  key stands for the element. The bucket of an element is found by the element's
  hash, and looked into by that of what its key is borrowed as. `call` is a history
  variable: an answer must be that of the key that was asked for. The macro checks
  nothing of the T of `#[key(T)]`: `Views` are the ways in which keys may be borrowed,
  whatever T is, and `Lawful` says which of them keep what the docs of `Borrow` ask, that
  hash and equality agree with the key's. Only of those, and of `Baz` and `TaskContext`,
  does `ImplementsKeySet` promise anything.

## 3. Runs

| run | instance | what it shows |
|---|---|---|
| `task_manager_safety` | 4 keys, 2 clients, 2 permits, JoinSet relieved at 2; keys and clients permuted | the types and the whole inductive invariant; the limit; `CancelEffective`, `DropStopsAll`, `QuiescentAfterDrop`; `CancelledNotArmed`; and that every step is one of `TaskLedger` or a stutter |
| `task_manager_liveness` | 3 keys, 1 client, 1 permit, JoinSet relieved at 1 | a cancelled task ends, drop returns, an accepted task settles |
| `task_manager_started` | small | finds a task whose `on_cancel` runs though its `run` was never polled |
| `background_thread` | one `Foo` of either kind | the flag loses no wakeup; the count loses none that comes before the thread looks |
| `background_zombie` | one that counts | finds the thread that sleeps for ever |
| `tailing_file` | one reader of either kind, 3 appends, a change elsewhere, any work of the pool failing | no sleep that neither an event nor an answer of the pool ends; an event that finds the task asleep has it open the file, and read all of it; an error reaches the caller |
| `tailing_lost_wakeup` | one reader, 2 appends | finds an append that is never read |
| `capture_stream` | both variants, 4 frames, a channel of 2 | with `incorrect` nothing is called until main unparks, and no unpark is lost; without it the busy loop ends, and every frame is handled; the size is never behind |
| `capture_never_ends` | the fixed variant | finds `create` waiting for its own caller |
| `capture_relaxed` | the fixed variant | finds the pointer that arrives before its box |
| `threaded_examples` | 3 tests, 2 connections, with a runtime each or one for all; 2 columns, 3 types, 2 connections; 5 jobs, 3 workers or a buffer of 3; 4 jobs, an update before every second; 3 sleeps | on the one runtime of `fixed.rs` no acquire times out, without it only on a connection whose runtime is gone; every test ends; one type per text never fails; `classic` and `light` implement `BoundedJobs` and return with all jobs done; no stale configuration, and no update that waits for a job; an accepted sleep is cut short by nothing but a drop |
| `sequential_examples` | 2 types of resources with 2 values, lists of up to 2 systems with up to 2 parameters; the 4 tests; up to 3 fields with up to 2 marks each; 3 keys in 2 buckets with 2 values, borrowed as they are, as a str, as something of another hash, or as one thing for two keys | a run calls exactly the systems that have their parameters; one drop for each State; the derive's verdict is right; the set implements `KeySet`, where the key agrees with what it is borrowed as |

Bounds, and why they are enough. *Task manager*: with four tasks and two permits
there are at once two tasks under execution, one that waits for the semaphore and
one that is queued; two clients can cancel one task twice, or one that the other
has just submitted; a limit of 2 has the JoinSet relieved twice. For liveness one
permit and a limit of one are the tightest case, where every resource is taken by
a single task that never ends. *Tailing file*: three appends are one that is read,
one that is missed and one that makes up for it; only one of the two readers is
opened in a behaviour, as readers share nothing but the file. *Capture*: four
frames overrun a channel of two while one is under way. *Small crates*: of three tests one
initialises, one finds its connection gone, and one that of either; five jobs fill
a buffer of three and fill it again; with four jobs and two updates there is a job
before, between and after; three fields have two marked ones next to each other or
apart; of three keys two share a bucket and one does not, and with either of the two views
that are not lawful TLC finds a call that `KeySet` does not allow, once `Lawful` is taken
out of the property. `MaxSize`, `MaxOthers`,
`MaxOpen`, `MaxFrames`, `MaxSystems`, `Data` and the finite `Keys`, `Sleeps` and
`FieldLists` are bounds of the model; the semaphore, `JoinLimit`, `Capacity`, the
three workers and `BufferSize` are the code's own, and the connections, four in the
code, are two, so that three tests exhaust them.

Deadlock is checked for the task manager, where the only end is `Ended`. The
others may really stop: a thread that sleeps for ever, a file that nobody
writes to, a process that is over, and the small crates at the end of their tests.

## 4. Fairness

Weak fairness throughout: a thread, a runtime worker or the pool that can go on
does. Nothing a user does is fair: no call, no write to a file, no frame, no
drop, no receiver. In particular

* a task's `run` need not end (`RunStep` is not fair): `CancelStops` and
  `DropReturns` hold all the same, because select! drops the run. That rests on a
  run that awaits now and then, as one that never yields cannot be dropped by
  anything; and on `on_err` and `on_cancel` ending (`HandlerEnds` is fair).
  `AcceptedSettles` assumes that runs end, and says so in the formula (`RunsEnd`).
* no spurious wakeup is relied on.
* the error of a read or an open may be the last thing that happens to a file: that
  its caller polls again (`PollAgain`) is not fair, so the properties of the tailing
  file end with the caller being told.
* in `SharedPool` each test's thread and each runtime that is driven is fair, the
  start of a test is not; a connect may fail, but nothing has to. In `SharedConfig`
  the loop and the reads are fair, the end of a job (`FinishWork`) is not: an update
  must not wait for it. In `WorkerPool` both threads are fair, as a job has nothing
  to wait for. In `BasicTaskManager` the thread and the timers are fair, the drop is
  not. `ThreadedExamples` states the same for the crate that runs.
* main of the screen capture may sleep as long as it likes: its `Exit` is not
  fair, so that "the process is over" excuses nothing by itself.

## 5. Proofs

All are checked for every value of the constants, from the named assumptions:
finitely many keys, at least one permit, the owner and `None` not being keys,
natural numbers for the bounds, and for the small crates that the values which stand
for none are none of the others, that there is a connection and a worker, finitely many
workers, and that a `String` and its `str` have one hash (`KeyedAssumption`; of the T of
a derived type nothing is assumed: `Lawful` is part of the property).

*TaskManager.* The properties are not inductive: that a cancelled task is not
lost depends on who holds the lock of `ongoing`, and that on the stage of each
future. `IInv` is the conjunction of `LockInv` (the lock is held exactly by the
stages that hold the guard), `PermitInv` (permits and holders add up),
`QueueInv` (where a key may be found, by stage), `ChanInv` (a key is in the
channel once, and before its future exists), `ManagerInv`, `CancelInv` and
`OwnerInv`. There is a lemma per conjunct (`LockStep`, `PermitStep`, …), each
with a step per action. `CancelInv` is the heart: cancel's second look needs the
lock, and with the lock free no task is `taken`, that is in neither map.
`Implements` shows the refinement: `LedgerStart` for the initial states, and
`LedgerStep`, which maps every action to a ledger step or a stutter; that `Begin`
finds room is `ParallelLimit` again (`RoomToBegin`).

*BackgroundThread.* `CountInv` and `FlagInv` (who holds the mutex, and that the
flag is set exactly after the critical section of drop) give `TypeOK` and
`NoSleepAfterStop` for any number of values. `CountingInv` says the same of the
mutex in the variant that counts, and with it `DropsGoOn` divides the ends of that
variant in two: `StopIsHeard` and `StopIsMissed`. Who hears is joined in four steps
(`JoinsComeNearer`); who misses never is, without a spurious wakeup (`ZombiesStay`),
so what `background_zombie` finds has no way out.

*TailingFile.* `BytesInv` (offsets and the pool's answers lie in the file) is
needed for the types, as a read is a difference; `WakerInv` for `EventsAreHeard`: a
task about to return Pending has its waker in the slot, in the callback's hands,
or is already noted as woken, and a reader that is not opened has none anywhere.
`JobInv` is the same for the pool, and gives `AnswersAreHeard`: where the task stands
says which work the pool may have, and if the task is about to return, that work is
a read that will wake it, or the task is noted as woken. `AnswersUsed` adds that no
answer is thrown away, and that nothing else moves a reader in the file.

*CaptureStream.* `FrameInv` (frames in order, size in step), `SilentInv` (with
`incorrect`, before the unpark the capture is at most at park and the queue
taken), and `StuckInv`, from which `CreateNeverReturns` follows: what
`capture_never_ends` finds is not due to a small instance. `UnparkInv` follows the
token of the unpark to `park`, for `UnparkReachesPark`.

*ThreadedProofs.* `SharedPool`: `FixedIsFixed` rests on `UserInv` (a connection that
is in use is open, and its test has come so far) and `FixedInv` (with the
one runtime, every open connection is that runtime's, which is up once it has been
built); `CellInv` says who initialises, `WaitInv` who is waited for. `TimesOutIsDead`
needs `UserInv` too: without the one runtime no test that is over still has a
connection. `StatementCache`: a statement prepared for a type is one that was asked
for (`CacheInv`). `SharedConfig`: `Stored` says which updates have been made by the
time the loop is at a job. `WorkerPool`: `JobsInv` (the jobs started are a
prefix, each under way or ended, and the queue holds the rest of those made, in
order), `PollInv` (one worker is polled at a time) and `ReturnInv` (what the threads
have left undone when the main thread waits for them) give the refinement of
`BoundedJobs` with a limit of one, for any number of jobs and workers and any buffer.
`BasicTaskManager`: the channel holds exactly the tasks that are accepted and not
received (`InboxInv`).

*BorrowKeyProofs, KeyedSetProofs, SequentialProofs.* `Walk` says what the key is
after the first fields, whatever their number. `Placed`: an element is in the bucket
of its key's hash, and no two have one key, whatever the key is borrowed as; from which
every call maps to one of `KeySet` if that agrees with the key (`LawfulAgrees`). `SchedulerInv`: the parameters taken so far are those of the resources,
the calls those of the systems so far. `TauriInv` ties the drops of each test to
where it stands.

The theorems on the small crates are of the specification of each crate by itself.
`CratesAreTyped`, `CratesAreSafe` and `CratesAreRight` carry them over to
`ThreadedExamples` and `SequentialExamples`, whose `Spec` is what TLC checks.

*What of liveness is safety.* TLAPS cannot prove that something comes about. Two
facts that it can prove leave fairness as the only thing to be assumed:

* nobody is stuck: as long as the goal is not reached, the guard of some action that
  leads to it holds. The guards are written out (`…CanStep`), as the provers have no
  ENABLED.
* every step counts: a measure in the naturals falls with each step, or each step
  brings one of finitely many actors nearer to its end and takes none back.

| goal | nobody is stuck | every step counts |
|---|---|---|
| drop of the task manager returns (`DropReturns`); a cancelled task ends (`CancelStops`); an accepted task settles (`AcceptedSettles`); no call of `cancel` hangs | `NobodyStuck` | `DropIsBounded`, for drop |
| the thread of a `Foo` is joined (`FlagIsJoined`, `AwakeIsJoined`) | `DropsGoOn` | `JoinsComeNearer` |
| a poll of the tailing file ends, and an error is told (`ErrorIsReported`) | `NeverSleepsDeaf` | `PollsEnd`, while the file does not grow |
| an unpark stops the stream (`UnparkStopsCapture`) | `UnparkReachesPark` | |
| every test ends (`EveryTestEnds`) | `TestsNeverStop` | `TestsRunOut` |
| `classic` and `light` return (`JobsReturn`) | `JobsNeverStop` | `JobsRunOut` |
| an accepted sleep finishes (`AcceptedFinishes`) | `AcceptedAreKept` | |

`NobodyStuck` needs more of the invariant than safety did: `ManagerInv` says that the
manager thread waits in `join_next` only with somebody in the JoinSet, `ChanInv` that
an accepted key without a future is still in the channel. That the lock, the
semaphore and the JoinSet wait for each other in no circle is the lemmas
`HolderCanStep`, `FutureGoesOn` and `ManagerGoesOn`: who holds the lock of `ongoing`
can always go on; a future that waits for it therefore comes on, or a holder of a
permit does; and the manager waits for a future. These definitions stand in the
modules of the proofs, which use them alone. TLC found no violation of them on the
instances of section 3 (a proof module can take the place of its component in a
configuration), nor, with three keys or one chunk where there are four or three
there, a state in which a guard written out differs from ENABLED. There is no
bound on the steps before a cancelled task ends or an accepted one settles while the
manager is used: others may submit and cancel for as long as they like.

Only model-checked: what ends or comes about in the end (everything with `~>` or
`<>`), as it depends on fairness: the goals of the table, and `EventIsRead`,
`EventOpensFile`, `FixedHandlesAll` and `ConfigLoopEnds`. Every other property that a
passing run checks is also a theorem.

## 6. What the code and its comments disagree on

1. `task_manager/src/lib.rs:159` – `on_cancel` is called for a task that was
   never run; its doc (line 108) says "started". If started means "has left the
   queue", as line 320 has it, they agree.
2. `find_zombie_thread_with_loom/src/lib.rs:37` – the variant `error` sleeps for
   ever. The repository keeps it as the bug that the crate explains.
3. `tailing_file/src/created_as_well.rs:148` – an append between the pool's read
   and the registration is not read until the file changes again;
   `modified_only.rs:80` has the same gap. To read once more after `register`
   closes it.
4. `objc2_screen_capture_kit_delegate_never_called/src/main.rs:269` – `create`
   parks before it returns the unparker, so main never unparks.
5. the same, line 228 – `Relaxed` does not publish the box; `Release` and
   `Acquire` would.

## 7. What is not modelled

* In the modelled crates: keys that `spawn_task` never returned; the wrap-around
  of `KEY`; poisoned locks (those of `task_manager` are parking_lot's and are never
  poisoned; no user code runs under those of std). User code does run under one lock: the
  `Drop` of a task that is removed from `waiting` (`lib.rs` lines 319 and 355) runs under
  `waiting.write()`, and is taken to return at once. One that panics in `cancel` unwinds
  into its caller; one that panics in `drop` would leave `ongoing` uncancelled and the
  manager thread detached; one that calls back into the same manager would wait for the
  lock that its own thread holds. What is left in `waiting` by a failed send (line 346) is
  in the model, but no property is about it, as the code is content with it: the entry
  stays until drop drains the map. A tailed file that is deleted or
  truncated; the drop of a TailingFile. Which width a frame gets
  (`bytes_per_row / 4` or the visible one): arithmetic on one buffer.
* In the small crates: what a query returns; `Ord` of the derived impls, which no code
  uses; the attempts with a `HashMap` of references, which are about the borrow
  checker; the systems' bodies.
* `async_fn_in_traits`, `explicitly_borrow_within_an_implicitly_borrowing_pattern`,
  `impl_trait_for_tuple`, `incorrect_clone_derived`, `let_target_type_drive_hrtb`,
  `fake_variadic`, `get_default`: what they show is decided by the compiler.
* `dummy_random_data`, `better_clap_version`, `doc_cfg`, `preview_doc`: random
  values, a version string, documentation.

## 8. What could follow

* The rest of the table in section 5: a measure for the unpark and for the sleeps, and
  both facts for the frames (`FixedHandlesAll`) and the updates (`ConfigLoopEnds`).
* The tailing file with deletion, truncation and a blocking pool that several readers
  share; an abstract `Tail` (what is appended is read in order, none twice) that the
  TailingFile implements as far as safety goes.
* For the background thread, that the variant with the flag implements a thread that
  ends after stop.
* Two `TaskManager`s in one process, which share the counter of the keys.
